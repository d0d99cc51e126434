---------------------------- MODULE MCLifecycle ----------------------------
(***************************************************************************)
(* One MariaDB instance, one database and one binding; requests for the    *)
(* two instances and for the binding overlap.                              *)
(***************************************************************************)
EXTENDS Lifecycle, TLC

CONSTANTS m1, d1, b1, w1, w2, w3, p1, alice

Label(id, name, kind) ==
  [ ServiceID |-> id, ServiceName |-> name, Kind |-> kind,
    PlanName |-> "default", PlanSize |-> "default", SLA |-> "standard" ]

MCLabels ==
  [ galera   |-> Label("mariadb", MariaDBService, MariaDBKind),
    database |-> Label("database", MariaDBDatabaseService, DatabaseKind) ]
MCPlans    == DOMAIN MCLabels
MCPlanList == <<"database", "galera">>
MCNameRank == [database |-> 1, galera |-> 1]

Req(op, id, plan) ==
  [ op |-> op, id |-> id, plan |-> plan, newPlan |-> plan, service |-> MCLabels[plan].ServiceID,
    raw |-> "nil", params |-> NoParams, async |-> TRUE, principal |-> alice ]

MCRequests ==
  { Req("Provision", m1, "galera"), Req("Deprovision", m1, "galera"),
    [Req("Provision", d1, "database") EXCEPT !.raw = "map", !.params.parent = m1],
    Req("Deprovision", d1, "database") }

\* A database that is updated stays on its instance.
MCAllRequests ==
  MCRequests \cup {[Req("Update", d1, "database") EXCEPT !.raw = "map", !.params.parent = m1]}

\* The hypotheses of the theorems about orderly platforms.
ASSUME RequestsFit == DatabaseOnInstance /\ KindsOfServices

\* The workers for instances are interchangeable.
MCSymmetry == Permutations(Workers)
=============================================================================
