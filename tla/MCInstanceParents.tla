-------------------------- MODULE MCInstanceParents --------------------------
(***************************************************************************)
(* Instances with a MariaDB service of two plans and the database service  *)
(* that depends on it: creation of a database against deletion of its      *)
(* parent, and a search for an instance against a change of its plan.      *)
(***************************************************************************)
EXTENDS InstancesRegistry, TLC

CONSTANTS m1, d1, alice, w1, w2

PL == INSTANCE PlanLabels

Galera(size) ==
  [ ServiceID |-> "mariadb", ServiceName |-> MariaDBService, Kind |-> MariaDBKind,
    PlanName |-> <<size, "-", "standard">>, PlanSize |-> <<size>>, SLA |-> <<"standard">> ]

MCLabels ==
  [ small    |-> Galera("small"),
    xlarge   |-> Galera("xlarge"),
    database |-> [ ServiceID |-> "database", ServiceName |-> MariaDBDatabaseService,
                   Kind |-> DatabaseKind,
                   PlanName |-> <<"default">>, PlanSize |-> <<"default">>, SLA |-> <<"standard">> ] ]

\* The labels are what parseLabels makes of the Compositions' labels.
ASSUME LabelsAreParsed == \A p \in DOMAIN MCLabels : MCLabels[p] = PL!parseLabels(MCLabels[p])

MCPlans    == DOMAIN MCLabels
MCPlanList == <<"database", "small", "xlarge">>
MCNameRank == [database |-> 1, small |-> 2, xlarge |-> 3]
MCSizeRules == {<< <<"small">>, <<"xlarge">> >>}

\* The catalogue is one the theorems about instances speak of: an instance may
\* only be updated to a plan that a search reaches later.
ASSUME CatalogFits ==
  UniquePlanNames /\ OneNamePerService /\ KindsOfServices /\ AllPlansListed /\ UpdatesGoForward

Req(op, id, plan) ==
  [ op |-> op, id |-> id, plan |-> plan, newPlan |-> plan, service |-> MCLabels[plan].ServiceID,
    raw |-> "nil", params |-> NoParams, async |-> TRUE, principal |-> alice ]

With(r, parent) == [r EXCEPT !.raw = "map", !.params.parent = parent]

Creations ==
  { Req("Provision", m1, "small"),
    With(Req("Provision", d1, "database"), m1),
    With(Req("Provision", d1, "database"), d1) }

Deletions ==
  { [Req("Deprovision", m1, "small") EXCEPT !.plan = NoPlan],
    Req("Deprovision", d1, "database") }

Updates ==
  { With(Req("Update", d1, "database"), m1),
    With([Req("Update", m1, "small") EXCEPT !.newPlan = "xlarge"], m1),
    [Req("Update", m1, "xlarge") EXCEPT !.newPlan = "small"] }

Oddities ==
  { Req("Provision", d1, "database"),
    With(Req("Provision", d1, "database"), NoParent),
    With(Req("Provision", d1, "database"), NotAString),
    [Req("Provision", d1, "database") EXCEPT !.raw = "malformed"] }

MCRequests == Creations \cup Deletions \cup Updates \cup Oddities

\* Well-behaved platform: every database is created with a parent and nothing
\* is updated.
MCPlainRequests == Creations \cup Deletions

MCReasons == {"Available", "Deleting"}

\* Workers are interchangeable (no liveness property is checked with it).
MCSymmetry == Permutations(Workers)
=============================================================================
