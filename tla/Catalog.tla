------------------------------ MODULE Catalog ------------------------------
(***************************************************************************)
(* The catalogue: the Compositions of the cluster that carry a service ID, *)
(* which the broker offers as plans (pkg/crossplane/plan.go, and Plans and *)
(* Plan of client.go), and the rules for changing an instance's plan.      *)
(* Compositions do not change while the broker runs, so the catalogue is a *)
(* constant.                                                               *)
(***************************************************************************)
EXTENDS Naturals, Sequences

CONSTANTS
  Plans,      \* names of the Compositions; a plan ID is such a name
  NoPlan,     \* the empty plan ID
  Labels,     \* Labels[p]: the labels of p as parseLabels reads them, and
              \* the kind of composite that p creates (compositeTypeRef)
  PlanList,   \* what Plans(cfg.ServiceIDs) returns: a sequence of plans
  NameRank,   \* NameRank[p]: the place of p's name in the order of strings
  SizeRules,  \* pairs <<old size, new size>>: the parsed size rules
  SLARules    \* pairs <<old SLA, new SLA>>: the parsed SLA rules

RedisService           == "redis-k8s"
MariaDBService         == "mariadb-k8s"
MariaDBDatabaseService == "mariadb-k8s-database"

\* The kinds service_mariadb.go and service_mariadb_database.go refer to by
\* mariaDBGroupVersionKind and mariaDBDatabaseGroupVersionKind.
MariaDBKind  == "CompositeMariaDBInstance"
DatabaseKind == "CompositeMariaDBDatabaseInstance"

ServiceIDs   == {Labels[p].ServiceID : p \in Plans}
ServiceNames == {Labels[p].ServiceName : p \in Plans}
PlanNames    == {Labels[p].PlanName : p \in Plans}
SLAs         == {Labels[p].SLA : p \in Plans}
Kinds        == {Labels[p].Kind : p \in Plans} \cup {MariaDBKind, DatabaseKind}

\* ServiceName.IsValid: parseLabels, and with it newPlan, fails otherwise.
IsValid(name) == name \in {RedisService, MariaDBService, MariaDBDatabaseService}

\* Plan.GVK
GVK(p) == Labels[p].Kind

\* Crossplane.Plan returns a plan: the Composition exists and its labels parse.
PlanFound(p) == p \in Plans /\ IsValid(Labels[p].ServiceName)

\* Crossplane.Plans returns the list: it fails as a whole when the labels of
\* one Composition do not parse.
PlansFound == \A i \in 1..Len(PlanList) : IsValid(Labels[PlanList[i]].ServiceName)

planSizeChanged(a, b) == Labels[a].PlanSize # Labels[b].PlanSize
planSLAChanged(a, b)  == Labels[a].SLA # Labels[b].SLA
allowSizeUpdate(a, b) == <<Labels[a].PlanSize, Labels[b].PlanSize>> \in SizeRules
allowSLAUpdate(a, b)  == <<Labels[a].SLA, Labels[b].SLA>> \in SLARules

\* PlanUpdateChecker.AllowUpdate: may an instance of plan a become one of b?
AllowUpdate(a, b) ==
  /\ Labels[a].ServiceID = Labels[b].ServiceID
  /\ ~(planSizeChanged(a, b) /\ planSLAChanged(a, b))
  /\ planSizeChanged(a, b) => allowSizeUpdate(a, b)
  /\ planSLAChanged(a, b) => allowSLAUpdate(a, b)

\* An instance is looked up by kind, ID and plan name; the catalogue is
\* unambiguous when kind and plan name determine the plan.
UniquePlanNames ==
  \A a, b \in Plans :
    (Labels[a].Kind = Labels[b].Kind /\ Labels[a].PlanName = Labels[b].PlanName) => a = b

\* All plans of a service carry the same service name.
OneNamePerService ==
  \A a, b \in Plans :
    Labels[a].ServiceID = Labels[b].ServiceID => Labels[a].ServiceName = Labels[b].ServiceName

\* A plan of a kind the binders refer to belongs to the service that has it.
KindsOfServices ==
  \A p \in Plans :
    /\ Labels[p].Kind = MariaDBKind => Labels[p].ServiceName = MariaDBService
    /\ Labels[p].Kind = DatabaseKind => Labels[p].ServiceName = MariaDBDatabaseService

\* Every plan is in the list, and an update takes an instance to a plan that
\* is not before its own in the list.
AllPlansListed == \A p \in Plans : \E i \in 1..Len(PlanList) : PlanList[i] = p
UpdatesGoForward == \A a, b \in Plans : AllowUpdate(a, b) => NameRank[a] <= NameRank[b]

ASSUME CatalogAssumption ==
  /\ NoPlan \notin Plans
  /\ PlanList \in Seq(Plans)
  /\ \A p \in Plans : NameRank[p] \in Nat
  /\ \A i, j \in 1..Len(PlanList) : i < j => NameRank[PlanList[i]] <= NameRank[PlanList[j]]
  /\ \A a, b \in Plans : (NameRank[a] = NameRank[b]) <=> (Labels[a].PlanName = Labels[b].PlanName)
=============================================================================
