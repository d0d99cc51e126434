----------------------------- MODULE Lifecycle -----------------------------
(***************************************************************************)
(* Instances and Bindings together: a MariaDB instance m, a database d on  *)
(* it, and the bindings of the database.  The handlers for instances and   *)
(* for bindings share nothing but the cluster: what module Bindings takes  *)
(* from its environment, that the two instances come and go, is here what  *)
(* the steps of module Instances do to the composites.                     *)
(***************************************************************************)
EXTENDS Instances

CONSTANTS
  m,            \* the instance ID of the MariaDB instance
  d,            \* the instance ID of the database
  BindingIDs,
  BindWorkers,  \* the goroutines that handle requests for bindings
  Passwords,
  NoPassword,
  NoBinding,
  Orderly       \* does the platform keep the order of things?

ASSUME LifecycleAssumption == m \in InstanceIDs /\ d \in InstanceIDs /\ Orderly \in BOOLEAN

VARIABLES
  published,    \* how complete the connection secret of m is
  secret, cmp, user, bindTask, secretFresh, userFresh, bindResp, unbound, bound,
  held,         \* the bindings an orderly platform has asked for and not got rid
                \* of
  retired       \* the instances it has asked to deprovision, and not made again

bindVars == <<secret, cmp, user, bindTask, secretFresh, userFresh, unbound, bound>>
lifecycleVars == <<vars, published, bindVars, bindResp, held, retired>>

\* Faulty variant: only an instance that says it is not ready is not ready.
ReadyByDefault(o) == o.reason \in {"none", "Available"}

\* Instance.Ready asks for a Ready condition with the status True; among the
\* conditions Crossplane's controllers set that is the one with this reason.
Ready(o) == o.reason = "Available"

DB == LET o == composites[<<DatabaseKind, d>>]
      IN IF o = Absent THEN "absent" ELSE IF Ready(o) THEN "ready" ELSE "creating"
Parent == IF composites[<<MariaDBKind, m>>] = Absent THEN "absent" ELSE published

\* What the requests make of m and d: a MariaDB instance, and a database on it.
DatabaseOnInstance ==
  \A r \in Requests :
    /\ (r.op = "Provision" /\ PlanFound(r.plan) /\ r.id = m) => GVK(r.plan) = MariaDBKind
    /\ (r.op = "Provision" /\ PlanFound(r.plan) /\ r.id = d) => GVK(r.plan) = DatabaseKind
    /\ (r.op \in {"Provision", "Update"} /\ r.id = d) => r.raw = "map" /\ r.params.parent = m

\* Bindings are bound and unbound; what looking at them does is in the runs of
\* Bindings.
Calls == {"Bind", "Unbind"}

B == INSTANCE Bindings
       WITH Workers <- BindWorkers, Services <- {MariaDBDatabaseService},
            Overlap <- FALSE, Rebind <- FALSE,
            service <- "mariadb-k8s-database", db <- DB, conn <- "missing", parent <- Parent,
            task <- bindTask, resp <- bindResp

LifecycleInit ==
  /\ Init
  /\ published = "creating"
  /\ secret = [b \in BindingIDs |-> Absent]
  /\ cmp = [b \in BindingIDs |-> Absent]
  /\ user = [b \in BindingIDs |-> Absent]
  /\ bindTask = [w \in BindWorkers |-> B!Idle]
  /\ secretFresh = {} /\ userFresh = {}
  /\ bindResp = B!NoResp
  /\ unbound = {} /\ bound = {}
  /\ held = {} /\ retired = {}
-----------------------------------------------------------------------------
(***************************************************************************)
(* The platform.  An orderly one removes the bindings of a database before *)
(* the database, does not use what it has asked to deprovision until it    *)
(* has provisioned it again, and waits for the answer before it sends the  *)
(* next request that makes or removes an instance, or the one it is on.    *)
(* It relies on the broker where the OSB API lets it: it may ask for m to  *)
(* be deprovisioned while d is there.                                      *)
(***************************************************************************)

\* A request to make or to remove instance id is being handled.
InFlight(id) ==
  \E w \in Workers : task[w] # Idle /\ task[w].req.op \in {"Provision", "Deprovision"} /\ task[w].req.id = id

MayCall(r) ==
  Orderly =>
    /\ r.op \in {"Provision", "Deprovision"} => ~InFlight(r.id)
    /\ (r.op = "Deprovision" /\ r.id = d) => held = {}
    /\ (r.op = "Deprovision" /\ r.id = m) => ~InFlight(d)
    /\ (r.op = "Provision" /\ r.params.parent = m) => m \notin retired

\* A request for an instance arrives.
ReceiveRequest(w, r) ==
  /\ Receive(w, r)
  /\ MayCall(r)
  /\ retired' = IF Orderly /\ r.op = "Deprovision" THEN retired \cup {r.id} ELSE retired

\* A step of a handler or a controller; a new instance is in use again.
InstanceStep ==
  /\ \/ \E w \in Workers : Step(w) \/ Abort(w)
     \/ \E k \in Keys : Finalize(k)
     \/ \E k \in Keys, reason \in Reasons : Reconcile(k, reason)
  /\ retired' = IF resp'.code = "accepted" THEN retired \ {resp'.req.id} ELSE retired

OnInstances ==
  /\ InstanceStep \/ \E w \in Workers, r \in Requests : ReceiveRequest(w, r)
  /\ published' = IF composites'[<<MariaDBKind, m>>] = Absent THEN "creating" ELSE published
  /\ bindResp' = IF <<DB, Parent>>' = <<DB, Parent>> THEN bindResp ELSE B!NoResp
  /\ UNCHANGED <<bindVars, held>>

\* The controllers write the connection secret of m, all of it at once: what
\* Bind does in between is in the runs of Bindings.
PublishParent ==
  /\ Parent = "creating"
  /\ published' = "published"
  /\ bindResp' = B!NoResp
  /\ resp' = NoResp
  /\ UNCHANGED <<composites, task, fresh, late, steady, known, moved, bindVars, held, retired>>

\* A request for a binding arrives, a handler goes on, and so do the
\* controllers, except that they publish nothing about a binding, because
\* nobody would read it.  An asynchronous Bind takes the same steps as this one.
OnBindings ==
  /\ resp' = NoResp
  /\ UNCHANGED <<composites, task, fresh, late, steady, known, moved, published, retired>>
  /\ \/ /\ \/ \E w \in BindWorkers : B!Step(w) \/ B!Abort(w)
           \/ \E b \in BindingIDs : B!ComposeRef(b) \/ B!CreateUser(b) \/ B!SyncUser(b) \/ B!Collect(b)
        /\ held' = IF bindResp'.op = "Unbind" /\ bindResp'.code = "ok" THEN held \ {bindResp'.b} ELSE held
     \/ \E w \in BindWorkers, op \in Calls, b \in BindingIDs :
          /\ B!Receive(w, op, b, FALSE)
          /\ (Orderly /\ op = "Bind") => d \notin retired
          /\ held' = IF Orderly /\ op = "Bind" THEN held \cup {b} ELSE held

LifecycleNext ==
  \/ OnInstances
  \/ PublishParent
  \/ OnBindings

LifecycleSpec == LifecycleInit /\ [][LifecycleNext]_lifecycleVars
-----------------------------------------------------------------------------
(***************************************************************************)
(* Properties.                                                             *)
(***************************************************************************)

\* Bindings leaves room for everything that Provision, Deprovision and the
\* controllers do to the two instances while bindings are made and removed: a
\* database is not ready before it was reconciled, so what holds of Bindings
\* also holds of the bindings of a database that is deprovisioned under them
\* and provisioned again.
ImplementsBindings == B!Spec

\* With an orderly platform, a database has the MariaDB instance it is on for
\* as long as it exists: ValidateProvisionParams finds the instance there, and
\* Deprovisionable keeps it from being removed under the database.
DatabaseKeepsInstance == DB # "absent" => Parent # "absent"

\* And a binding that was not unbound has both: a successful Unbind has marked
\* the binding before the platform removes the database, which nothing guards.
BindingsKeepInstances ==
  \A b \in BindingIDs : B!Live(b) => DB # "absent" /\ Parent # "absent"
=============================================================================
