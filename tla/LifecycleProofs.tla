-------------------------- MODULE LifecycleProofs --------------------------
(***************************************************************************)
(* Lifecycle implements Bindings: what Provision, Deprovision and the      *)
(* controllers do to the composites of the two instances is, step by step, *)
(* what Bindings lets its environment do.                                  *)
(*                                                                         *)
(* With an orderly platform the handlers keep more than that: a binding    *)
(* has its database, and the database its MariaDB instance.                *)
(***************************************************************************)
EXTENDS Lifecycle, InstancesParentProofs

ParentKey == <<MariaDBKind, m>>
DatabaseKey == <<DatabaseKind, d>>

\* The connection secret goes with the instance.
LifecycleInv ==
  /\ composites = [k \in Keys |-> composites[k]]
  /\ published \in {"creating", "published"}
  /\ composites[ParentKey] = Absent => published = "creating"

LEMMA TwoKeys == ParentKey \in Keys /\ DatabaseKey \in Keys /\ ParentKey # DatabaseKey
  BY LifecycleAssumption DEF ParentKey, DatabaseKey, Keys, Kinds, MariaDBKind, DatabaseKind

\* A step writes one object at most, and a new one was not reconciled yet.
WritesOne ==
  \/ composites' = composites
  \/ \E k, o : /\ composites' = [composites EXCEPT ![k] = o]
               /\ composites[k] = Absent => o = Absent \/ o.reason = "none"

LEMMA OneObjectWritten ==
  ASSUME InstanceStep \/ \E w \in Workers, r \in Requests : ReceiveRequest(w, r)
  PROVE  WritesOne
  <1> DEFINE Same == composites' = composites
  <1>1. ASSUME NEW w, NEW code, NEW p, Reply(w, code, p) PROVE Same
    BY <1>1 DEF Reply
  <1>2. ASSUME NEW w, NEW name, NEW pc, NEW p, NEW o, ValidateParams(w, name, pc, p, o) PROVE Same
    BY <1>1, <1>2 DEF ValidateParams, Refuse
  <1>3. ASSUME NEW w, NEW p, NEW o, Found(w, p, o) PROVE Same
    BY <1>1, <1>2, <1>3 DEF Found, UpdateFound, DeprovisionFound, GetInstanceFound, LastOperationFound
  <1>4. ASSUME NEW w, ProvisionGet(w) \/ ValidateProvisionParams(w) \/ Deprovisionable(w) \/ Abort(w) PROVE Same
    BY <1>1, <1>2, <1>4 DEF ProvisionGet, ValidateProvisionParams, Deprovisionable, Abort, Refuse
  <1>5. ASSUME NEW w, GetPlanInstance(w) \/ FindInstanceWithoutPlan(w) PROVE Same
    BY <1>1, <1>3, <1>5 DEF GetPlanInstance, FindInstanceWithoutPlan, Refuse
  <1>6. ASSUME NEW w, CreateInstance(w) PROVE WritesOne
    <2>1. NewComposite(task[w].plan, task[w].req).reason = "none"
      BY DEF NewComposite
    <2> QED BY <1>1, <1>6, <2>1 DEF CreateInstance, Refuse, WritesOne
  <1>7. ASSUME NEW w, UpdateInstance(w) PROVE WritesOne
    BY <1>1, <1>7 DEF UpdateInstance, Refuse, WriteAccepted, WritesOne
  <1>8. ASSUME NEW w, DeleteInstance(w) PROVE WritesOne
    BY <1>1, <1>8 DEF DeleteInstance, Refuse, WritesOne
  <1>9. ASSUME NEW k, Finalize(k) PROVE WritesOne
    BY <1>9 DEF Finalize, WritesOne
  <1>10. ASSUME NEW k, NEW reason, Reconcile(k, reason) PROVE WritesOne
    <2>1. composites' = [composites EXCEPT ![k] = [composites[k] EXCEPT !.reason = reason]] /\ composites[k] # Absent
      BY <1>10 DEF Reconcile
    <2> QED BY <2>1 DEF WritesOne
  <1>11. ASSUME NEW w, NEW r, ReceiveRequest(w, r) PROVE Same
    BY <1>11 DEF ReceiveRequest, Receive
  <1> QED
    BY <1>4, <1>5, <1>6, <1>7, <1>8, <1>9, <1>10, <1>11 DEF InstanceStep, Step, WritesOne

\* What such a step does to the instance and the database: a database, or an
\* instance, comes as one that is not ready, and only one of them changes.
LEMMA InstancesChange ==
  ASSUME LifecycleInv, WritesOne,
         published' = IF composites'[ParentKey] = Absent THEN "creating" ELSE published
  PROVE  /\ LifecycleInv'
         /\ DB' = DB \/ Parent' = Parent
         /\ DB' # DB => DB' \in {"absent", "creating", "ready"} /\ (DB = "absent" => DB' = "creating")
         /\ Parent' # Parent => (IF Parent = "absent" THEN Parent' = "creating" ELSE Parent' = "absent")
         /\ DB \in {"absent", "creating", "ready"} /\ Parent \in {"absent", "creating", "published"}
  <1>1. LifecycleInv'
    <2>1. composites' = [k \in Keys |-> composites'[k]]
      BY DEF LifecycleInv, WritesOne
    <2>2. Keys' = Keys
      BY DEF Keys
    <2>3. composites' = [k \in Keys' |-> composites'[k]]
      BY <2>1, <2>2
    <2> QED BY <2>3 DEF LifecycleInv, ParentKey
  <1>2. DB \in {"absent", "creating", "ready"} /\ Parent \in {"absent", "creating", "published"}
    BY DEF DB, Parent, LifecycleInv
  <1>3. /\ DB = IF composites[DatabaseKey] = Absent THEN "absent"
                ELSE IF composites[DatabaseKey].reason = "Available" THEN "ready" ELSE "creating"
        /\ DB' = IF composites'[DatabaseKey] = Absent THEN "absent"
                 ELSE IF composites'[DatabaseKey].reason = "Available" THEN "ready" ELSE "creating"
        /\ Parent = IF composites[ParentKey] = Absent THEN "absent" ELSE published
        /\ Parent' = IF composites'[ParentKey] = Absent THEN "absent" ELSE published'
    BY DEF DB, Parent, Ready, DatabaseKey, ParentKey
  <1>4. CASE composites' = composites
    BY <1>1, <1>2, <1>3, <1>4 DEF LifecycleInv
  <1>5. ASSUME NEW k, NEW o, composites' = [composites EXCEPT ![k] = o],
               composites[k] = Absent => o = Absent \/ o.reason = "none"
        PROVE  /\ DB' = DB \/ Parent' = Parent
               /\ DB' # DB => DB' \in {"absent", "creating", "ready"} /\ (DB = "absent" => DB' = "creating")
               /\ Parent' # Parent => (IF Parent = "absent" THEN Parent' = "creating" ELSE Parent' = "absent")
    <2>1. \A j \in Keys : composites'[j] = IF j = k THEN o ELSE composites[j]
      BY <1>5 DEF LifecycleInv
    <2>2. CASE k = DatabaseKey
      <3>1. composites'[ParentKey] = composites[ParentKey] /\ composites'[DatabaseKey] = o
        BY <2>1, <2>2, TwoKeys
      <3> QED BY <1>2, <1>3, <1>5, <2>2, <3>1 DEF LifecycleInv
    <2>3. CASE k # DatabaseKey
      <3>1. composites'[DatabaseKey] = composites[DatabaseKey]
        BY <2>1, <2>3, TwoKeys
      <3> QED BY <1>2, <1>3, <3>1 DEF LifecycleInv
    <2> QED BY <2>2, <2>3
  <1> QED BY <1>1, <1>2, <1>4, <1>5 DEF WritesOne
-----------------------------------------------------------------------------
LEMMA InitMaps ==
  ASSUME LifecycleInit
  PROVE  LifecycleInv /\ B!Init
  <1>1. \A k \in Keys : composites[k] = Absent
    BY DEF LifecycleInit, Init
  <1>2. LifecycleInv
    BY <1>1, TwoKeys DEF LifecycleInit, Init, LifecycleInv
  <1>3. DB = "absent" /\ Parent = "absent"
    BY <1>1, TwoKeys DEF DB, Parent, DatabaseKey, ParentKey
  <1>4. B!Init
    BY <1>3 DEF LifecycleInit, B!Init, MariaDBDatabaseService
  <1> QED BY <1>2, <1>4

\* A step that leaves the objects alone leaves what Bindings sees of them.
LEMMA ViewKept ==
  ASSUME LifecycleInv, UNCHANGED <<composites, published>>
  PROVE  LifecycleInv' /\ DB' = DB /\ Parent' = Parent
  <1>1. LifecycleInv'
    BY DEF LifecycleInv, Keys, ParentKey
  <1>2. DB' = DB /\ Parent' = Parent
    BY DEF DB, Parent, Ready
  <1> QED BY <1>1, <1>2

LEMMA OnInstancesMaps ==
  ASSUME LifecycleInv, OnInstances
  PROVE  LifecycleInv' /\ [B!Next]_(B!vars)
  <1>1. WritesOne
    BY OneObjectWritten DEF OnInstances
  <1>2. /\ published' = IF composites'[ParentKey] = Absent THEN "creating" ELSE published
        /\ bindResp' = IF <<DB, Parent>>' = <<DB, Parent>> THEN bindResp ELSE B!NoResp
        /\ UNCHANGED <<secret, cmp, user, bindTask, secretFresh, userFresh, unbound, bound>>
    BY DEF OnInstances, bindVars, ParentKey
  <1>3. /\ LifecycleInv'
        /\ DB' = DB \/ Parent' = Parent
        /\ DB' # DB => DB' \in {"absent", "creating", "ready"} /\ (DB = "absent" => DB' = "creating")
        /\ Parent' # Parent => (IF Parent = "absent" THEN Parent' = "creating" ELSE Parent' = "absent")
        /\ DB \in {"absent", "creating", "ready"} /\ Parent \in {"absent", "creating", "published"}
    BY <1>1, <1>2, InstancesChange
  <1>4. CASE DB' = DB /\ Parent' = Parent
    <2>1. UNCHANGED B!vars
      BY <1>2, <1>4 DEF B!vars
    <2> QED BY <1>3, <2>1
  <1>5. CASE DB' # DB
    <2>1. Parent' = Parent /\ bindResp' = B!NoResp
      BY <1>2, <1>3, <1>5
    <2>2. B!Database(DB')
      BY <1>2, <1>3, <1>5, <2>1 DEF B!Database, B!Env, B!history
    <2>3. B!Next
      BY <1>3, <1>5, <2>2 DEF B!Next
    <2> QED BY <1>3, <2>3
  <1>6. CASE Parent' # Parent
    <2>1. DB' = DB /\ bindResp' = B!NoResp
      BY <1>2, <1>3, <1>6
    <2>2. Parent' \in {"creating", "partial", "published", "absent"}
      BY <1>3, <1>6
    <2>3. B!Parent(Parent')
      BY <1>2, <1>3, <1>6, <2>1 DEF B!Parent, B!Env, B!history, B!MariaDBDatabaseService
    <2>4. B!Next
      BY <2>2, <2>3 DEF B!Next
    <2> QED BY <1>3, <2>4
  <1> QED BY <1>4, <1>5, <1>6

LEMMA PublishParentMaps ==
  ASSUME LifecycleInv, PublishParent
  PROVE  LifecycleInv' /\ B!Next
  <1>1. /\ Parent = "creating" /\ published' = "published" /\ bindResp' = B!NoResp
        /\ UNCHANGED <<composites, secret, cmp, user, bindTask, secretFresh, userFresh, unbound, bound>>
    BY DEF PublishParent, bindVars
  <1>2. composites[ParentKey] # Absent
    BY <1>1 DEF Parent, ParentKey
  <1>3. LifecycleInv'
    BY <1>1, <1>2 DEF LifecycleInv, Keys, ParentKey
  <1>4. Parent' = "published" /\ DB' = DB
    BY <1>1, <1>2 DEF Parent, DB, Ready, ParentKey
  <1>5. B!Parent("published")
    BY <1>1, <1>4 DEF B!Parent, B!Env, B!history, B!MariaDBDatabaseService
  <1> QED BY <1>3, <1>5 DEF B!Next

LEMMA OnBindingsMaps ==
  ASSUME LifecycleInv, OnBindings
  PROVE  LifecycleInv' /\ B!Next
  <1>1. LifecycleInv'
    BY ViewKept DEF OnBindings
  <1>2. CASE \E w \in BindWorkers : B!Step(w) \/ B!Abort(w)
    BY <1>1, <1>2 DEF B!Next
  <1>3. CASE \E b \in BindingIDs : B!ComposeRef(b) \/ B!CreateUser(b) \/ B!SyncUser(b) \/ B!Collect(b)
    BY <1>1, <1>3 DEF B!Next, B!Controllers
  <1>4. CASE \E w \in BindWorkers, op \in Calls, b \in BindingIDs : B!Receive(w, op, b, FALSE)
    BY <1>1, <1>4 DEF B!Next
  <1> QED BY <1>1, <1>2, <1>3, <1>4 DEF OnBindings

LEMMA StutterMaps ==
  ASSUME LifecycleInv, UNCHANGED lifecycleVars
  PROVE  LifecycleInv' /\ UNCHANGED B!vars
  <1>1. UNCHANGED <<composites, published, bindVars, bindResp>>
    BY DEF lifecycleVars, vars
  <1>2. LifecycleInv' /\ DB' = DB /\ Parent' = Parent
    BY <1>1, ViewKept
  <1>3. UNCHANGED B!vars
    BY <1>1, <1>2 DEF B!vars, bindVars
  <1> QED BY <1>2, <1>3

\* The bindings of a database live with instances that come and go as module
\* Bindings assumes: so what holds of Bindings, for every such environment,
\* holds of them.
THEOREM BindingsAreImplemented == LifecycleSpec => ImplementsBindings
  <1>1. LifecycleInit => LifecycleInv /\ B!Init
    BY InitMaps
  <1>2. LifecycleInv /\ [LifecycleNext]_lifecycleVars => LifecycleInv' /\ [B!Next]_(B!vars)
    BY OnInstancesMaps, PublishParentMaps, OnBindingsMaps, StutterMaps DEF LifecycleNext
  <1> QED BY <1>1, <1>2, PTL DEF LifecycleSpec, ImplementsBindings, B!Spec
-----------------------------------------------------------------------------
(***************************************************************************)
(* A platform that keeps the order of things.                              *)
(*                                                                         *)
(* The database cannot be removed while a binding is held, because the     *)
(* platform does not ask for it, and the MariaDB instance not while the    *)
(* database is there, because Deprovisionable lists it.  OrderlyInv says   *)
(* of the requests in flight what makes this so at every step; it is       *)
(* inductive on top of Inv and ParentInv.                                  *)
(***************************************************************************)

\* A request to make or to remove an instance is being handled.
Making(w) == task[w].pc # "idle" /\ task[w].req.op \in {"Provision", "Deprovision"}

\* Who is asked to deprovision an instance, and what is on its way out, is
\* retired, and what a database needs is not.
InstancesInOrder ==
  /\ \A v, w \in Workers : (Making(v) /\ Making(w) /\ task[v].req.id = task[w].req.id) => v = w
  /\ \A w \in Workers : (Making(w) /\ task[w].req.op = "Deprovision") => task[w].req.id \in retired
  /\ \A w \in Workers : (Making(w) /\ task[w].req.op = "Provision") => PlanFound(task[w].req.plan)
  /\ \A w \in Workers : (Making(w) /\ task[w].req.op = "Provision" /\ task[w].req.id = d) =>
       /\ m \notin retired
       /\ task[w].pc = "create" => composites[ParentKey] # Absent
  /\ \A k \in {ParentKey, DatabaseKey} :
       (composites[k] # Absent /\ composites[k].deleting) => k[2] \in retired

\* A worker is about to delete the object at k.
Deletes(w, k) == task[w].pc = "delete" /\ Key(task[w].plan, task[w].req.id) = k

\* A database is on m, which is there to stay: a Deprovision that has passed
\* Deprovisionable is about another instance.
ParentStays ==
  composites[DatabaseKey] # Absent =>
    /\ composites[DatabaseKey].parent = m
    /\ composites[ParentKey] # Absent /\ ~composites[ParentKey].deleting
    /\ \A w \in Workers : ~Deletes(w, ParentKey)

\* Where the handlers for bindings are.
BindStepOK(t) ==
  /\ t.pc \notin {"get", "connection", "redis"}
  /\ t.pc = "idle" => t = B!Idle
  /\ t.pc # "idle" => t.op \in Calls /\ t.b \in BindingIDs
  /\ t.pc \in {"parent", "secret", "composite"} => composites[DatabaseKey] # Absent
  /\ t.pc \in {"parent", "secret", "composite", "endpoint", "cluster"} => t.op = "Bind"
  /\ t.pc \in {"marking", "markSecret", "markUser", "own", "delete"} => t.op = "Unbind"
  /\ t.op = "Bind" => t.b \in held /\ t.b \notin unbound
  /\ t.op = "Unbind" => t.b \in unbound

\* The bindings that are live, or on their way to be, are held.
BindingsInOrder ==
  /\ bindTask \in [BindWorkers -> B!Task]
  /\ cmp \in [BindingIDs -> B!Binding \cup {Absent}]
  /\ \A w \in BindWorkers : BindStepOK(bindTask[w])
  /\ held # {} => d \notin retired
  /\ \A b \in BindingIDs : B!Live(b) => b \in held /\ composites[DatabaseKey] # Absent

OrderlyInv == InstancesInOrder /\ ParentStays /\ BindingsInOrder
-----------------------------------------------------------------------------
\* Seen from module Instances, a step is one of its own or none.
LEMMA InstancesKept ==
  ASSUME KindsOfServices, Inv, ParentInv, [LifecycleNext]_lifecycleVars
  PROVE  Inv' /\ ParentInv'
  <1>1. CASE OnInstances
    <2>1. Next
      BY <1>1 DEF OnInstances, InstanceStep, ReceiveRequest, Next
    <2> QED
      BY <2>1, NextInv, NextServicesFit, NextKnown, NextParentSeen, NextParentWasInstance, NextOnlyLate
         DEF ParentInv
  <1>2. CASE UNCHANGED <<composites, task, fresh, late, steady, known, moved>> /\ resp' \in {resp, NoResp}
    <2>1. Inv'
      BY <1>2 DEF Inv, TypeOK, FreshOK, Key, NoResp, Codes
    <2>2. ParentInv'
      BY <1>2 DEF ParentInv, ServicesFitKinds, InstancesAreKnown, ParentSeen, ParentWasInstance,
                  ChildrenAreLate, Children
    <2> QED
      BY <2>1, <2>2
  <1> QED
    BY <1>1, <1>2 DEF LifecycleNext, PublishParent, OnBindings, lifecycleVars, vars

\* A request stays with its worker until it is answered.
RequestStays(v) ==
  task'[v].pc # "idle" => task[v].pc # "idle" /\ task'[v].req = task[v].req

LEMMA RequestsStay ==
  ASSUME Inv, InstanceStep
  PROVE  \A v \in Workers : RequestStays(v)
  <1> DEFINE Stay == \A v \in Workers : RequestStays(v)
  <1>0. task \in [Workers -> Task]
    BY DEF Inv, TypeOK
  <1>1. ASSUME NEW w, task' = [task EXCEPT ![w] = Idle] PROVE Stay
    BY <1>0, <1>1 DEF RequestStays, Idle
  <1>2. ASSUME NEW w, NEW code, NEW p, Reply(w, code, p) PROVE Stay
    BY <1>1, <1>2 DEF Reply, Answer
  <1>3. ASSUME NEW w \in Workers, NEW pc, NEW p, NEW o, task[w].pc # "idle", Continue(w, pc, p, o) PROVE Stay
    BY <1>0, <1>3 DEF Continue, RequestStays, Task
  <1>4. ASSUME NEW w \in Workers, NEW name, NEW pc, NEW p, NEW o, task[w].pc # "idle",
               ValidateParams(w, name, pc, p, o)
        PROVE  Stay
    BY <1>2, <1>3, <1>4 DEF ValidateParams, Refuse
  <1>5. ASSUME NEW w \in Workers, NEW p, NEW o, task[w].pc # "idle", Found(w, p, o) PROVE Stay
    BY <1>2, <1>3, <1>4, <1>5 DEF Found, UpdateFound, DeprovisionFound, GetInstanceFound, LastOperationFound
  <1>6. ASSUME NEW w \in Workers, ProvisionGet(w) \/ ValidateProvisionParams(w) \/ Deprovisionable(w) PROVE Stay
    BY <1>2, <1>3, <1>4, <1>6 DEF ProvisionGet, ValidateProvisionParams, Deprovisionable, Refuse
  <1>7. ASSUME NEW w \in Workers, GetPlanInstance(w) PROVE Stay
    BY <1>2, <1>5, <1>7 DEF GetPlanInstance, Refuse
  <1>8. ASSUME NEW w \in Workers, FindInstanceWithoutPlan(w) PROVE Stay
    <2>1. task' = [task EXCEPT ![w] = SearchOn(task[w])] => Stay
      BY <1>0, <1>8 DEF SearchOn, RequestStays, Task, FindInstanceWithoutPlan
    <2> QED
      BY <1>2, <1>5, <1>8, <2>1 DEF FindInstanceWithoutPlan, Refuse
  <1>9. ASSUME NEW w \in Workers, CreateInstance(w) \/ DeleteInstance(w) \/ Abort(w) PROVE Stay
    BY <1>1, <1>2, <1>9 DEF CreateInstance, DeleteInstance, Abort, Refuse
  <1>10. ASSUME NEW w \in Workers, UpdateInstance(w) PROVE Stay
    BY <1>1, <1>2, <1>10 DEF UpdateInstance, Answer, Refuse
  <1>11. CASE task' = task
    BY <1>11 DEF RequestStays
  <1> QED
    BY <1>6, <1>7, <1>8, <1>9, <1>10, <1>11 DEF InstanceStep, Step, Finalize, Reconcile

\* A new request is at its first step, for a Provision with a plan that exists.
LEMMA RequestArrives ==
  ASSUME Inv, NEW w \in Workers, NEW r \in Requests, Receive(w, r), NEW v \in Workers, task'[v].pc # "idle"
  PROVE  \/ task'[v] = task[v]
         \/ /\ v = w /\ task'[v].req = r /\ task'[v].pc \in {"get", "find"}
            /\ r.op = "Provision" => PlanFound(r.plan)
  <1>1. task \in [Workers -> Task]
    BY DEF Inv, TypeOK
  <1> QED
    BY <1>1 DEF Receive, Idle

\* Only a new composite is answered with 202.
LEMMA OnlyCreateAccepts ==
  ASSUME Inv, InstanceStep, resp'.code = "accepted"
  PROVE  \E w \in Workers :
           /\ task[w].pc = "create" /\ resp'.req = task[w].req /\ task'[w].pc = "idle"
           /\ composites[Key(task[w].plan, task[w].req.id)] = Absent
  <1> DEFINE Refused == resp'.code # "accepted"
  <1>1. ASSUME NEW w, NEW code, NEW p, code # "accepted", Reply(w, code, p) PROVE Refused
    BY <1>1 DEF Reply, Answer
  <1>2. ASSUME NEW w, NEW pc, NEW p, NEW o, Continue(w, pc, p, o) PROVE Refused
    BY <1>2 DEF Continue, NoResp
  <1>3. ASSUME NEW w, NEW name, NEW pc, NEW p, NEW o, ValidateParams(w, name, pc, p, o) PROVE Refused
    BY <1>1, <1>2, <1>3 DEF ValidateParams, Refuse
  <1>4. ASSUME NEW w, NEW p, NEW o, UpdateFound(w, p, o) \/ DeprovisionFound(w, p, o) PROVE Refused
    BY <1>1, <1>2, <1>3, <1>4 DEF UpdateFound, DeprovisionFound
  <1>5. ASSUME NEW w, NEW p, NEW o, GetInstanceFound(w, p) \/ LastOperationFound(w, p, o) PROVE Refused
    BY <1>5 DEF GetInstanceFound, LastOperationFound, Reply, Answer
  <1>6. ASSUME NEW w, ProvisionGet(w) PROVE Refused
    <2>1. ASSUME Refuse(w, IF task[w].req.raw = "nil" THEN "exists" ELSE "conflict") PROVE Refused
      BY <2>1 DEF Refuse, Reply, Answer
    <2> QED BY <1>1, <1>3, <1>6, <2>1 DEF ProvisionGet, Refuse
  <1>7. ASSUME NEW w, ValidateProvisionParams(w) \/ Deprovisionable(w) \/ Abort(w) PROVE Refused
    BY <1>1, <1>2, <1>7 DEF ValidateProvisionParams, Deprovisionable, Abort, Refuse
  <1>8. ASSUME NEW w, GetPlanInstance(w) \/ FindInstanceWithoutPlan(w) PROVE Refused
    BY <1>1, <1>4, <1>5, <1>8 DEF GetPlanInstance, FindInstanceWithoutPlan, Found, Refuse, NoResp
  <1>9. ASSUME NEW w, UpdateInstance(w) \/ DeleteInstance(w) PROVE Refused
    BY <1>1, <1>9 DEF UpdateInstance, DeleteInstance, Answer, Refuse
  <1>10. ASSUME NEW k, Finalize(k) \/ \E reason : Reconcile(k, reason) PROVE Refused
    BY <1>10 DEF Finalize, Reconcile, NoResp
  <1>11. PICK w \in Workers : CreateInstance(w)
    BY <1>6, <1>7, <1>8, <1>9, <1>10 DEF InstanceStep, Step
  <1>12. ~Refuse(w, "error") /\ ~Refuse(w, "panic")
    BY <1>1 DEF Refuse
  <1>13. /\ task[w].pc = "create" /\ composites[Key(task[w].plan, task[w].req.id)] = Absent
         /\ task' = [task EXCEPT ![w] = Idle] /\ resp'.req = task[w].req
    BY <1>11, <1>12 DEF CreateInstance
  <1> QED
    BY <1>13 DEF Inv, TypeOK, Idle

\* An object is marked as deleted, or gone, only when a worker was about to
\* delete it, or once it is marked.
LEMMA OnlyDeleteRemoves ==
  ASSUME Inv, [Next]_vars, NEW k \in Keys, composites[k] # Absent, ~composites[k].deleting,
         \A w \in Workers : ~Deletes(w, k)
  PROVE  composites'[k] # Absent /\ ~composites'[k].deleting
  <1> DEFINE Stays == composites'[k] # Absent /\ ~composites'[k].deleting
  <1> DEFINE Same == composites' = composites
  <1>0. composites \in [Keys -> Composite \cup {Absent}] /\ composites[k] \in Composite
    BY DEF Inv, TypeOK
  <1>1. CASE composites'[k] = composites[k]
    BY <1>1
  <1>2. CASE \E w \in Workers : UpdateInstance(w)
    <2>1. PICK w \in Workers : UpdateInstance(w)
      BY <1>2
    <2> DEFINE l == Key(task[w].req.newPlan, task[w].req.id)
    <2> DEFINE o == UpdatedComposite(task[w].inst, task[w].req.newPlan, task[w].req)
    <2>2. CASE Refuse(w, "error")
      BY <1>1, <2>2 DEF Refuse, Reply
    <2>3. CASE WriteAccepted(w, l) /\ composites' = [composites EXCEPT ![l] = o]
      <3>1. CASE l # k
        BY <1>0, <1>1, <2>3, <3>1
      <3>2. CASE l = k
        <4>1. task[w].inst = composites[k] /\ task[w].req.newPlan \in Plans /\ task[w].req \in Request
          <5>1. /\ task[w].pc = "update" /\ task[w].inst # Absent
                /\ task[w].req \in Request /\ TaskOK(task[w])
            BY <2>1, BusyOK DEF UpdateInstance, TaskOK
          <5>2. w \in fresh /\ k = Key(task[w].plan, task[w].req.id)
            BY <2>3, <3>2 DEF WriteAccepted
          <5> QED BY <5>1, <5>2 DEF TaskOK, PlanFound, Inv, FreshOK
        <4>2. o \in Composite
          BY <1>0, <4>1, UpdatedCompositeType
        <4>3. o.deleting = composites[k].deleting
          BY <1>0, <4>1 DEF UpdatedComposite, Composite
        <4>4. composites'[k] = o
          BY <1>0, <2>3, <3>2
        <4> HIDE DEF o
        <4> QED BY <4>2, <4>3, <4>4, AbsentAssumption
      <3> QED BY <3>1, <3>2
    <2> QED BY <2>1, <2>2, <2>3 DEF UpdateInstance
  <1>3. CASE \E w \in Workers : DeleteInstance(w)
    <2>1. PICK w \in Workers : DeleteInstance(w)
      BY <1>3
    <2>2. Key(task[w].plan, task[w].req.id) # k
      BY <2>1 DEF Deletes, DeleteInstance
    <2> QED BY <1>0, <1>1, <2>1, <2>2 DEF DeleteInstance, Refuse, Reply
  <1>4. CASE \E w \in Workers : CreateInstance(w)
    BY <1>0, <1>1, <1>4 DEF CreateInstance, Refuse, Reply
  <1>5. CASE \E l \in Keys : Finalize(l)
    BY <1>0, <1>1, <1>5 DEF Finalize
  <1>6. CASE \E l \in Keys, reason \in Reasons : Reconcile(l, reason)
    <2>1. PICK l \in Keys, reason \in Reasons : Reconcile(l, reason)
      BY <1>6
    <2>2. CASE l # k
      BY <1>0, <1>1, <2>1, <2>2 DEF Reconcile
    <2>3. CASE l = k
      <3>1. composites'[k] = [composites[k] EXCEPT !.reason = reason]
        BY <1>0, <2>1, <2>3 DEF Reconcile
      <3>2. [composites[k] EXCEPT !.reason = reason] \in Composite
            /\ ~[composites[k] EXCEPT !.reason = reason].deleting
        BY <1>0 DEF Composite
      <3> QED BY <3>1, <3>2, AbsentAssumption
    <2> QED BY <2>2, <2>3
  <1>7. CASE \E w \in Workers : \/ ProvisionGet(w) \/ ValidateProvisionParams(w)
                                \/ GetPlanInstance(w) \/ FindInstanceWithoutPlan(w)
                                \/ Deprovisionable(w) \/ Abort(w)
    <2>1. PICK w \in Workers : \/ ProvisionGet(w) \/ ValidateProvisionParams(w)
                               \/ GetPlanInstance(w) \/ FindInstanceWithoutPlan(w)
                               \/ Deprovisionable(w) \/ Abort(w)
      BY <1>7
    <2>2. ASSUME NEW code, NEW p, Reply(w, code, p) PROVE Same
      BY <2>2 DEF Reply
    <2>3. ASSUME NEW name, NEW pc, NEW p, NEW o, ValidateParams(w, name, pc, p, o) PROVE Same
      BY <2>2, <2>3 DEF ValidateParams, Refuse
    <2>4. ASSUME NEW p, NEW o, Found(w, p, o) PROVE Same
      BY <2>2, <2>3, <2>4 DEF Found, UpdateFound, DeprovisionFound, GetInstanceFound, LastOperationFound
    <2>5. CASE ProvisionGet(w) \/ ValidateProvisionParams(w)
      BY <2>2, <2>3, <2>5, <1>1 DEF ProvisionGet, ValidateProvisionParams, Refuse
    <2>6. CASE GetPlanInstance(w) \/ FindInstanceWithoutPlan(w)
      BY <2>2, <2>4, <2>6, <1>1 DEF GetPlanInstance, FindInstanceWithoutPlan, Refuse
    <2>7. CASE Deprovisionable(w) \/ Abort(w)
      BY <2>2, <2>7, <1>1 DEF Deprovisionable, Abort, Refuse
    <2> QED BY <2>1, <2>5, <2>6, <2>7
  <1>8. CASE (\E w \in Workers, r \in Requests : Receive(w, r)) \/ UNCHANGED vars
    BY <1>1, <1>8 DEF Receive, vars
  <1> QED
    BY <1>2, <1>3, <1>4, <1>5, <1>6, <1>7, <1>8 DEF Next, Step

\* A new object is not marked.
LEMMA NewIsNotMarked ==
  ASSUME Inv, [Next]_vars, NEW k \in Keys, composites[k] = Absent, composites'[k] # Absent
  PROVE  ~composites'[k].deleting
  <1>1. PICK p, r : composites'[k] = NewComposite(p, r)
    BY ObjectKept
  <1> QED
    BY <1>1 DEF NewComposite

\* What is about to be deleted is retired.
LEMMA DeletesRetired ==
  ASSUME Inv, InstancesInOrder, NEW w \in Workers, NEW k, Deletes(w, k)
  PROVE  k[2] \in retired
  <1>1. task[w].pc = "delete" /\ task[w].req.op = "Deprovision" /\ k[2] = task[w].req.id
    BY BusyOK DEF Deletes, TaskOK, Key
  <1> QED
    BY <1>1 DEF InstancesInOrder, Making

\* So an instance or a database that is not retired stays.
LEMMA UnretiredStays ==
  ASSUME Inv, InstancesInOrder, [Next]_vars, NEW k \in {ParentKey, DatabaseKey},
         composites[k] # Absent, k[2] \notin retired
  PROVE  composites'[k] # Absent /\ ~composites'[k].deleting
  <1>1. k \in Keys
    BY TwoKeys
  <1>2. ~composites[k].deleting
    BY DEF InstancesInOrder
  <1> QED
    BY <1>1, <1>2, OnlyDeleteRemoves, DeletesRetired

LEMMA OnInstancesIsNext ==
  ASSUME OnInstances
  PROVE  Next
  BY DEF OnInstances, InstanceStep, ReceiveRequest, Next

\* A Provision of m makes a MariaDB instance, one of d a database on m.
LEMMA ProvisionFits ==
  ASSUME DatabaseOnInstance, KindsOfServices, Inv, InstancesInOrder, NEW w \in Workers,
         task[w].pc # "idle", task[w].req.op = "Provision"
  PROVE  /\ Making(w) /\ task[w].plan = task[w].req.plan /\ task[w].plan \in Plans
         /\ task[w].req.id = m => Key(task[w].plan, m) = ParentKey
         /\ task[w].req.id = d =>
              /\ Key(task[w].plan, d) = DatabaseKey
              /\ Labels[task[w].plan].ServiceName = MariaDBDatabaseService
              /\ task[w].req.raw = "map" /\ task[w].req.params.parent = m
  <1>1. Making(w) /\ PlanFound(task[w].req.plan) /\ task[w].req \in Requests
    BY BusyOK DEF Making, InstancesInOrder
  <1>2. task[w].plan = task[w].req.plan /\ task[w].plan \in Plans
    BY <1>1, BusyOK DEF TaskOK, PlanFound
  <1>3. /\ task[w].req.id = m => GVK(task[w].plan) = MariaDBKind
        /\ task[w].req.id = d => /\ GVK(task[w].plan) = DatabaseKind
                                 /\ task[w].req.raw = "map" /\ task[w].req.params.parent = m
    BY <1>1, <1>2 DEF DatabaseOnInstance
  <1>4. task[w].req.id = d => Labels[task[w].plan].ServiceName = MariaDBDatabaseService
    BY <1>2, <1>3 DEF GVK, KindsOfServices
  <1> QED
    BY <1>1, <1>2, <1>3, <1>4 DEF Key, ParentKey, DatabaseKey

\* What is in use again has been made just now.
LEMMA RetiredUnlessMade ==
  ASSUME Inv, InstanceStep
  PROVE  /\ retired' \subseteq retired
         /\ \A id \in retired : id \notin retired' =>
              \E w \in Workers :
                /\ task[w].pc = "create" /\ task[w].req.op = "Provision" /\ task[w].req.id = id
                /\ composites[Key(task[w].plan, id)] = Absent
  <1>1. retired' = IF resp'.code = "accepted" THEN retired \ {resp'.req.id} ELSE retired
    BY DEF InstanceStep
  <1>2. ASSUME resp'.code = "accepted"
        PROVE  \E w \in Workers :
                 /\ task[w].pc = "create" /\ task[w].req.op = "Provision" /\ task[w].req.id = resp'.req.id
                 /\ composites[Key(task[w].plan, resp'.req.id)] = Absent
    <2>1. PICK w \in Workers :
             /\ task[w].pc = "create" /\ resp'.req = task[w].req
             /\ composites[Key(task[w].plan, task[w].req.id)] = Absent
      BY <1>2, OnlyCreateAccepts
    <2>2. task[w].req.op = "Provision"
      BY <2>1, BusyOK DEF TaskOK
    <2> QED BY <2>1, <2>2
  <1> QED
    BY <1>1, <1>2

LEMMA NextInstancesInOrder ==
  ASSUME Orderly, DatabaseOnInstance, KindsOfServices, Inv, OrderlyInv, Inv', OnInstances
  PROVE  InstancesInOrder'
  <1> USE DEF OrderlyInv
  <1>0. Next
    BY OnInstancesIsNext
  <1>k. ParentKey' = ParentKey /\ DatabaseKey' = DatabaseKey
    BY DEF ParentKey, DatabaseKey
  <1>1. ASSUME NEW v \in Workers, Making(v)', task'[v].req.op = "Provision", task'[v].req.id = d,
               task'[v].pc = "create"
        PROVE  composites'[ParentKey] # Absent
    <2>1. task'[v].pc = "create" /\ Moves(v)
      BY <1>0, <1>1, StepOnTask
    <2>2. CASE task'[v] = task[v]
      <3>1. composites[ParentKey] # Absent /\ m \notin retired
        BY <1>1, <2>1, <2>2 DEF InstancesInOrder, Making
      <3>2. ParentKey[2] = m
        BY DEF ParentKey
      <3> QED BY <1>0, <3>1, <3>2, UnretiredStays
    <2>3. CASE GoesOn(v) /\ UNCHANGED composites
      <3>1. task[v].pc # "idle" /\ task'[v].req = task[v].req
        BY <2>3 DEF GoesOn
      <3>2. task'[v].plan = task[v].plan
        BY <1>1, <3>1 DEF Inv, TaskOK
      <3>3. /\ task[v].req.raw = "map" /\ task[v].req.params.parent = m
            /\ Labels[task'[v].plan].ServiceName = MariaDBDatabaseService
        BY <1>1, <3>1, <3>2, ProvisionFits
      <3>4. composites[<<MariaDBKind, m>>] # Absent
        BY <2>1, <2>3, <3>3 DEF GoesOn, MariaDBDatabaseService, MariaDBService, RedisService
      <3> QED BY <2>3, <3>4 DEF ParentKey
    <2> QED BY <2>1, <2>2, <2>3 DEF Moves
  <1>2. CASE InstanceStep
    <2>1. ASSUME NEW v \in Workers, Making(v)'
          PROVE  Making(v) /\ task'[v].req = task[v].req
      BY <1>2, <2>1, RequestsStay DEF RequestStays, Making
    <2>2. ASSUME NEW v \in Workers, Making(v)', task'[v].req.op = "Deprovision"
          PROVE  task'[v].req.id \in retired'
      <3>1. Making(v) /\ task[v].req.op = "Deprovision" /\ task[v].req.id \in retired
        BY <2>1, <2>2 DEF InstancesInOrder
      <3>2. ASSUME NEW w \in Workers, task[w].pc = "create", task[w].req.op = "Provision",
                   task[w].req.id = task[v].req.id
            PROVE  FALSE
        BY <3>1, <3>2 DEF InstancesInOrder, Making
      <3> QED BY <1>2, <2>1, <2>2, <3>1, <3>2, RetiredUnlessMade
    <2>3. ASSUME NEW v \in Workers, Making(v)', task'[v].req.op = "Provision"
          PROVE  /\ PlanFound(task'[v].req.plan)
                 /\ task'[v].req.id = d => m \notin retired'
      BY <1>2, <2>1, <2>3, RetiredUnlessMade DEF InstancesInOrder
    <2>4. ASSUME NEW k \in {ParentKey, DatabaseKey}, composites'[k] # Absent, composites'[k].deleting
          PROVE  k[2] \in retired'
      <3>1. k \in Keys /\ composites[k] # Absent
        BY <1>0, <2>4, TwoKeys, NewIsNotMarked
      <3>2. k[2] \in retired
        BY <1>0, <2>4, <3>1, UnretiredStays
      <3>3. ASSUME NEW w \in Workers, task[w].pc = "create", task[w].req.op = "Provision",
                   task[w].req.id = k[2], composites[Key(task[w].plan, k[2])] = Absent
            PROVE  FALSE
        <4>1. Key(task[w].plan, k[2]) = k
          BY <3>3, ProvisionFits DEF ParentKey, DatabaseKey
        <4> QED BY <3>1, <3>3, <4>1
      <3> QED BY <1>2, <3>2, <3>3, RetiredUnlessMade
    <2> QED
      BY <1>1, <1>k, <2>1, <2>2, <2>3, <2>4 DEF InstancesInOrder, PlanFound
  <1>3. ASSUME NEW w \in Workers, NEW r \in Requests, ReceiveRequest(w, r)
        PROVE  InstancesInOrder'
    <2>1. /\ Receive(w, r) /\ UNCHANGED composites
          /\ retired' = IF r.op = "Deprovision" THEN retired \cup {r.id} ELSE retired
          /\ r.op \in {"Provision", "Deprovision"} => ~InFlight(r.id)
          /\ (r.op = "Deprovision" /\ r.id = m) => ~InFlight(d)
          /\ (r.op = "Provision" /\ r.params.parent = m) => m \notin retired
      BY <1>3 DEF ReceiveRequest, MayCall, Receive
    <2>2. ASSUME NEW v \in Workers, Making(v)'
          PROVE  \/ Making(v) /\ task'[v] = task[v]
                 \/ /\ v = w /\ task'[v].req = r /\ task'[v].pc # "create"
                    /\ r.op \in {"Provision", "Deprovision"}
                    /\ r.op = "Provision" => PlanFound(r.plan)
      BY <2>1, <2>2, RequestArrives DEF Making
    <2>3. ASSUME NEW v \in Workers, Making(v) PROVE InFlight(task[v].req.id)
      BY <2>3 DEF InFlight, Making, Idle
    <2>4. ASSUME NEW u \in Workers, NEW v \in Workers, Making(u)', Making(v)', task'[u].req.id = task'[v].req.id
          PROVE  u = v
      BY <2>1, <2>2, <2>3, <2>4 DEF InstancesInOrder
    <2>5. ASSUME NEW v \in Workers, Making(v)', task'[v].req.op = "Deprovision"
          PROVE  task'[v].req.id \in retired'
      BY <2>1, <2>2, <2>5 DEF InstancesInOrder
    <2>6. ASSUME NEW v \in Workers, Making(v)', task'[v].req.op = "Provision"
          PROVE  PlanFound(task'[v].req.plan)
      BY <2>2, <2>6 DEF InstancesInOrder
    <2>7. ASSUME NEW v \in Workers, Making(v)', task'[v].req.op = "Provision", task'[v].req.id = d
          PROVE  m \notin retired'
      <3>1. CASE Making(v) /\ task'[v] = task[v]
        <4>1. InFlight(d) /\ m \notin retired
          BY <2>3, <2>7, <3>1 DEF InstancesInOrder
        <4> QED BY <2>1, <4>1
      <3>2. CASE v = w /\ task'[v].req = r /\ PlanFound(r.plan)
        <4>1. r.params.parent = m
          BY <2>7, <3>2 DEF DatabaseOnInstance
        <4> QED BY <2>1, <2>7, <3>2, <4>1
      <3> QED BY <2>2, <2>7, <3>1, <3>2
    <2>8. ASSUME NEW k \in {ParentKey, DatabaseKey}, composites'[k] # Absent, composites'[k].deleting
          PROVE  k[2] \in retired'
      BY <2>1, <2>8 DEF InstancesInOrder
    <2> QED
      BY <1>1, <1>k, <2>4, <2>5, <2>6, <2>7, <2>8 DEF InstancesInOrder, PlanFound
  <1> QED
    BY <1>2, <1>3 DEF OnInstances

\* A database is made on m while m is there to stay, and then Deprovisionable
\* lists it.
LEMMA NextParentStays ==
  ASSUME Orderly, DatabaseOnInstance, KindsOfServices, Inv, ParentInv, OrderlyInv, OnInstances
  PROVE  ParentStays'
  <1> USE DEF OrderlyInv
  <1>0. Next /\ ParentKey \in Keys /\ DatabaseKey \in Keys
    BY OnInstancesIsNext, TwoKeys
  <1>k. ParentKey' = ParentKey /\ DatabaseKey' = DatabaseKey
    BY DEF ParentKey, DatabaseKey
  <1> SUFFICES ASSUME composites'[DatabaseKey] # Absent
               PROVE  /\ composites'[DatabaseKey].parent = m
                      /\ composites'[ParentKey] # Absent /\ ~composites'[ParentKey].deleting
                      /\ \A w \in Workers : ~Deletes(w, ParentKey)'
    BY <1>k DEF ParentStays, Deletes
  <1>1. ASSUME composites[ParentKey] # Absent, ~composites[ParentKey].deleting,
               \A w \in Workers : ~Deletes(w, ParentKey)
        PROVE  composites'[ParentKey] # Absent /\ ~composites'[ParentKey].deleting
    BY <1>0, <1>1, OnlyDeleteRemoves
  <1>2. CASE composites[DatabaseKey] # Absent
    <2>1. /\ composites[DatabaseKey].parent = m
          /\ composites[ParentKey] # Absent /\ ~composites[ParentKey].deleting
          /\ \A w \in Workers : ~Deletes(w, ParentKey)
      BY <1>2 DEF ParentStays
    <2>2. composites'[DatabaseKey].parent = m
      BY <1>0, <1>2, <2>1, ObjectKept
    <2>3. ASSUME NEW w \in Workers, Deletes(w, ParentKey)'
          PROVE  FALSE
      <3>1. task'[w].pc = "delete" /\ Key(task'[w].plan, task'[w].req.id) = ParentKey
        BY <2>3, <1>k DEF Deletes, Key, GVK
      <3>2. task'[w] # task[w]
        BY <2>1, <3>1 DEF Deletes
      <3>3. GoesOn(w)
        BY <1>0, <3>1, <3>2, StepOnTask DEF Moves
      <3>4. task[w].req.id = m /\ Key(task'[w].plan, task[w].req.id) = ParentKey
        BY <3>1, <3>3 DEF GoesOn, Key, ParentKey
      <3>5. d \in Children(m)
        BY <1>2, <2>1, LifecycleAssumption DEF Children, DatabaseKey
      <3>6. composites[ParentKey].ServiceName = MariaDBService
        BY <2>1, LifecycleAssumption DEF ParentInv, ServicesFitKinds, ParentKey
      <3> QED BY <3>1, <3>3, <3>4, <3>5, <3>6 DEF GoesOn
    <2> QED BY <1>1, <2>1, <2>2, <2>3
  <1>3. CASE composites[DatabaseKey] = Absent
    <2>1. PICK c \in Workers :
             /\ task[c].pc = "create" /\ DatabaseKey = Key(task[c].plan, task[c].req.id)
             /\ composites'[DatabaseKey] = NewComposite(task[c].plan, task[c].req)
      BY <1>0, <1>3, ObjectKept
    <2>2. task[c].req.op = "Provision" /\ task[c].req.id = d
      BY <2>1, BusyOK DEF TaskOK, Key, DatabaseKey
    <2>3. /\ Making(c) /\ Labels[task[c].plan].ServiceName = MariaDBDatabaseService
          /\ task[c].req.raw = "map" /\ task[c].req.params.parent = m
      BY <2>1, <2>2, ProvisionFits
    <2>4. m \notin retired /\ composites[ParentKey] # Absent
      BY <2>1, <2>2, <2>3 DEF InstancesInOrder
    <2>5. composites'[DatabaseKey].parent = m
      BY <2>1, <2>3 DEF NewComposite, Validated, MariaDBDatabaseService, MariaDBService, RedisService
    <2>6. ParentKey[2] = m
      BY DEF ParentKey
    <2>7. composites'[ParentKey] # Absent /\ ~composites'[ParentKey].deleting
      BY <1>0, <2>4, <2>6, UnretiredStays
    <2>8. ASSUME NEW w \in Workers, Deletes(w, ParentKey)'
          PROVE  FALSE
      <3>1. task'[w].pc = "delete" /\ Key(task'[w].plan, task'[w].req.id) = ParentKey
        BY <2>8, <1>k DEF Deletes, Key, GVK
      <3>2. task'[w] # task[w]
        BY <2>4, <2>6, <3>1, DeletesRetired DEF Deletes
      <3>3. UNCHANGED composites
        BY <1>0, <3>1, <3>2, StepOnTask DEF Moves
      <3> QED BY <1>3, <3>3
    <2> QED BY <2>5, <2>7, <2>8
  <1> QED
    BY <1>2, <1>3

\* While a binding is held, the database stays.
LEMMA HeldDatabaseStays ==
  ASSUME Orderly, Inv, OrderlyInv, OnInstances
  PROVE  /\ held # {} => d \notin retired'
         /\ (held # {} /\ composites[DatabaseKey] # Absent) => composites'[DatabaseKey] # Absent
  <1> USE DEF OrderlyInv
  <1>1. DatabaseKey[2] = d
    BY DEF DatabaseKey
  <1>2. held # {} => d \notin retired
    BY DEF BindingsInOrder
  <1>3. (held # {} /\ composites[DatabaseKey] # Absent) => composites'[DatabaseKey] # Absent
    BY <1>1, <1>2, OnInstancesIsNext, UnretiredStays
  <1>4. CASE InstanceStep
    BY <1>2, <1>3, <1>4, RetiredUnlessMade
  <1>5. CASE \E w \in Workers, r \in Requests : ReceiveRequest(w, r)
    BY <1>2, <1>3, <1>5 DEF ReceiveRequest, MayCall
  <1> QED
    BY <1>4, <1>5 DEF OnInstances

LEMMA OnInstancesInOrder ==
  ASSUME Orderly, Inv, OrderlyInv, OnInstances
  PROVE  BindingsInOrder'
  <1>1. UNCHANGED <<bindTask, cmp, held, unbound>>
    BY DEF OnInstances, bindVars
  <1>2. DatabaseKey' = DatabaseKey
    BY DEF DatabaseKey
  <1>3. BindingsInOrder
    BY DEF OrderlyInv
  <1>4. ASSUME NEW w \in BindWorkers PROVE BindStepOK(bindTask[w])'
    <2>1. BindStepOK(bindTask[w])
      BY <1>3 DEF BindingsInOrder
    <2>2. bindTask[w].pc \in {"parent", "secret", "composite"} => bindTask[w].b \in held
      BY <2>1 DEF BindStepOK
    <2>3. bindTask[w].pc \in {"parent", "secret", "composite"} => composites'[DatabaseKey] # Absent
      BY <2>1, <2>2, HeldDatabaseStays DEF BindStepOK
    <2> QED
      BY <1>1, <1>2, <2>1, <2>3 DEF BindStepOK
  <1>5. ASSUME NEW b \in BindingIDs, B!Live(b)' PROVE b \in held' /\ composites'[DatabaseKey] # Absent
    BY <1>1, <1>3, <1>5, HeldDatabaseStays DEF BindingsInOrder, B!Live
  <1> QED
    BY <1>1, <1>2, <1>3, <1>4, <1>5, HeldDatabaseStays DEF BindingsInOrder

\* What a handler for bindings can do: answer, remove the composite, make it,
\* or go on.
Answers(w) ==
  /\ bindTask' = [bindTask EXCEPT ![w] = B!Idle] /\ cmp' = cmp
  /\ bindResp'.code # "ok"

Removes(w) ==
  /\ bindTask[w].op = "Unbind" /\ bindTask[w].pc # "idle"
  /\ cmp[bindTask[w].b] \in B!Binding
  /\ bindTask' = [bindTask EXCEPT ![w] = B!Idle]
  /\ cmp' = [cmp EXCEPT ![bindTask[w].b].deleting = TRUE]
  /\ bindResp'.b = bindTask[w].b

GoesTo(w, pc, pw) ==
  /\ bindTask' = [bindTask EXCEPT ![w] = [bindTask[w] EXCEPT !.pc = pc, !.pw = pw]]
  /\ pc \in {"parent", "secret", "composite"} => composites[DatabaseKey] # Absent
  /\ pc \in {"parent", "secret", "composite", "endpoint", "cluster"} => bindTask[w].op = "Bind"
  /\ pc \in {"marking", "markSecret", "markUser", "own", "delete"} => bindTask[w].op = "Unbind"

\* Where a handler for bindings can be that has a request to bind or to unbind.
BusyPCs == B!PCs \ {"idle", "get", "connection", "redis"}

Proceeds(w) ==
  /\ bindTask[w].pc # "idle"
  /\ bindResp'.code # "ok"
  /\ \E pc \in BusyPCs, pw \in Passwords \cup {NoPassword} : GoesTo(w, pc, pw)
  /\ \/ cmp' = cmp
     \/ /\ bindTask[w].pc = "composite"
        /\ cmp' = [cmp EXCEPT ![bindTask[w].b] = B!NewBinding]

\* Ways of going on.
LEMMA RefuseAnswers ==
  ASSUME NEW w, NEW code, code # "ok", B!Refuse(w, code)
  PROVE  Answers(w)
  BY DEF B!Refuse, B!Reply, B!objects, Answers

LEMMA BinderFailedAnswers ==
  ASSUME NEW w, NEW err, B!BinderFailed(w, err)
  PROVE  Answers(w)
  BY RefuseAnswers DEF B!BinderFailed

LEMMA GotoProceeds ==
  ASSUME BindingsInOrder, NEW w \in BindWorkers, bindTask[w].pc # "idle",
         NEW pc \in BusyPCs,
         pc \in {"parent", "secret", "composite"} => composites[DatabaseKey] # Absent,
         pc \in {"parent", "secret", "composite", "endpoint", "cluster"} => bindTask[w].op = "Bind",
         pc \in {"marking", "markSecret", "markUser", "own", "delete"} => bindTask[w].op = "Unbind",
         B!Goto(w, pc)
  PROVE  Proceeds(w)
  <1>1. bindTask[w] \in B!Task /\ bindTask' = [bindTask EXCEPT ![w].pc = pc]
    BY DEF BindingsInOrder, B!Goto
  <1>2. bindTask[w].pw \in Passwords \cup {NoPassword}
    BY <1>1 DEF B!Task
  <1>3. [bindTask[w] EXCEPT !.pc = pc] = [bindTask[w] EXCEPT !.pc = pc, !.pw = bindTask[w].pw]
    BY <1>1 DEF B!Task
  <1>4. bindTask' = [bindTask EXCEPT ![w] = [bindTask[w] EXCEPT !.pc = pc, !.pw = bindTask[w].pw]]
    BY <1>1, <1>3
  <1>5. cmp' = cmp /\ bindResp'.code # "ok"
    BY DEF B!Goto, B!objects, B!NoResp
  <1>6. GoesTo(w, pc, bindTask[w].pw)
    BY <1>4 DEF GoesTo
  <1> QED
    BY <1>2, <1>5, <1>6 DEF Proceeds

LEMMA BindingStep ==
  ASSUME BindingsInOrder, NEW w \in BindWorkers, B!Step(w) \/ B!Abort(w)
  PROVE  unbound' = unbound /\ (Answers(w) \/ Removes(w) \/ Proceeds(w))
  <1> DEFINE t == bindTask[w]
  <1>1. t \in B!Task /\ BindStepOK(t)
    BY DEF BindingsInOrder
  <1>2. unbound' = unbound
    BY DEF B!Step, B!Abort, B!GetPlanInstance, B!ServiceBinderFactory, B!MariadbServiceBinder,
           B!RedisServiceBinder, B!GetRedisBinding, B!BindParent, B!BindSecret, B!BindComposite,
           B!BindEndpoint, B!BindCluster, B!MarkGetBinding, B!MarkGetSecret, B!MarkGetUser,
           B!MarkOwned, B!UnbindDelete, B!GetBinding, B!GetConnection, B!GetCluster, B!Refuse,
           B!BinderFailed, B!UnbindNotFound, B!Succeed, B!Continue, B!Goto, B!history
  <1> SUFFICES Answers(w) \/ Removes(w) \/ Proceeds(w)
    BY <1>2
  <1>3. ASSUME t.pc # "idle", NEW pc \in BusyPCs,
               pc \in {"parent", "secret", "composite"} => composites[DatabaseKey] # Absent,
               pc \in {"parent", "secret", "composite", "endpoint", "cluster"} => t.op = "Bind",
               pc \in {"marking", "markSecret", "markUser", "own", "delete"} => t.op = "Unbind",
               B!Goto(w, pc) \/ B!Continue(w, pc)
        PROVE  Proceeds(w)
    BY <1>3, GotoProceeds DEF B!Continue
  <1>4. CASE B!GetPlanInstance(w)
    <2>1. t.pc = "instance" /\ t.op \in {"Bind", "Unbind"}
      BY <1>1, <1>4 DEF B!GetPlanInstance, BindStepOK, Calls
    <2>2. CASE DB = "ready" /\ B!Continue(w, IF t.op = "Bind" THEN "parent" ELSE "marking")
      <3>1. composites[DatabaseKey] # Absent
        BY <2>2 DEF DB, DatabaseKey
      <3>2. CASE t.op = "Bind"
        BY <1>3, <2>1, <2>2, <3>1, <3>2 DEF BusyPCs, B!PCs
      <3>3. CASE t.op = "Unbind"
        BY <1>3, <2>1, <2>2, <3>3 DEF BusyPCs, B!PCs
      <3> QED BY <2>1, <3>2, <3>3
    <2>3. B!ServiceBinderFactory(w) => B!Continue(w, IF t.op = "Bind" THEN "parent" ELSE "marking")
      BY <2>1 DEF B!ServiceBinderFactory, B!MariaDBService, B!RedisService
    <2> QED
      BY <1>4, <2>1, <2>2, <2>3, RefuseAnswers DEF B!GetPlanInstance
  <1>5. CASE B!BindParent(w)
    <2>1. t.op = "Bind" /\ composites[DatabaseKey] # Absent /\ t.pc = "parent"
      BY <1>1, <1>5 DEF B!BindParent, BindStepOK
    <2> QED BY <1>3, <1>5, <2>1, RefuseAnswers DEF B!BindParent, BusyPCs, B!PCs
  <1>6. CASE B!BindSecret(w)
    <2>1. t.op = "Bind" /\ composites[DatabaseKey] # Absent /\ t.pc = "secret"
      BY <1>1, <1>6 DEF B!BindSecret, BindStepOK
    <2>2. ASSUME NEW pw \in B!Generated, bindTask' = [bindTask EXCEPT ![w].pc = "composite", ![w].pw = pw],
                 bindResp' = B!NoResp, cmp' = cmp
          PROVE  Proceeds(w)
      <3>1. pw \in Passwords
        BY <2>2 DEF B!Generated
      <3>2. bindTask' = [bindTask EXCEPT ![w] = [bindTask[w] EXCEPT !.pc = "composite", !.pw = pw]]
        BY <2>2 DEF BindingsInOrder
      <3>3. GoesTo(w, "composite", pw)
        BY <2>1, <3>2 DEF GoesTo
      <3> QED BY <2>1, <2>2, <3>1, <3>3 DEF Proceeds, BusyPCs, B!PCs, B!NoResp
    <2> QED BY <1>6, <2>2, RefuseAnswers DEF B!BindSecret
  <1>7. CASE B!BindComposite(w)
    <2>1. /\ t.op = "Bind" /\ t.pc = "composite" /\ t.pw \in Passwords \cup {NoPassword}
          /\ cmp' = cmp \/ cmp' = [cmp EXCEPT ![t.b] = B!NewBinding]
          /\ bindTask' = [bindTask EXCEPT ![w].pc = "endpoint"] /\ bindResp'.code # "ok"
      BY <1>1, <1>7 DEF B!BindComposite, BindStepOK, B!Task, B!NoResp
    <2>2. [t EXCEPT !.pc = "endpoint"] = [t EXCEPT !.pc = "endpoint", !.pw = t.pw]
      BY <1>1 DEF B!Task
    <2>3. bindTask' = [bindTask EXCEPT ![w] = [t EXCEPT !.pc = "endpoint", !.pw = t.pw]]
      BY <2>1, <2>2
    <2>4. GoesTo(w, "endpoint", t.pw)
      BY <2>1, <2>3 DEF GoesTo
    <2> QED BY <2>1, <2>4 DEF Proceeds, BusyPCs, B!PCs
  <1>8. CASE B!BindEndpoint(w)
    <2>1. t.op = "Bind" /\ t.pc = "endpoint"
      BY <1>1, <1>8 DEF B!BindEndpoint, BindStepOK
    <2> QED BY <1>3, <1>8, <2>1, RefuseAnswers, BinderFailedAnswers DEF B!BindEndpoint, BusyPCs, B!PCs
  <1>9. CASE B!BindCluster(w)
    <2>1. ASSUME B!Succeed(w, t.pw) PROVE Answers(w)
      <3>1. t.op = "Bind" /\ cmp' = cmp
        BY <1>9, <2>1 DEF B!BindCluster, B!Succeed, B!objects
      <3>2. PICK code \in {"accepted", "bound"}, p \in {t.pw, NoPassword} : B!Reply(w, code, p)
        <4>1. t.async \in BOOLEAN
          BY <1>1 DEF B!Task
        <4> HIDE DEF t
        <4> QED BY <2>1, <3>1, <4>1 DEF B!Succeed, t
      <3> QED BY <3>1, <3>2 DEF B!Reply, Answers
    <2> QED BY <1>9, <2>1, RefuseAnswers DEF B!BindCluster
  <1>10. CASE B!MarkGetBinding(w) \/ B!MarkGetSecret(w) \/ B!MarkGetUser(w)
    <2>1. t.op = "Unbind" /\ t.pc \in {"marking", "markSecret", "markUser"}
      BY <1>1, <1>10 DEF B!MarkGetBinding, B!MarkGetSecret, B!MarkGetUser, BindStepOK
    <2> QED
      BY <1>3, <1>10, <2>1, RefuseAnswers
         DEF B!MarkGetBinding, B!MarkGetSecret, B!MarkGetUser, B!UnbindNotFound, BusyPCs, B!PCs
  <1>11. CASE B!MarkOwned(w)
    <2>1. t.op = "Unbind" /\ t.pc = "own" /\ t.pw \in Passwords \cup {NoPassword}
      BY <1>1, <1>11 DEF B!MarkOwned, BindStepOK, B!Task
    <2>2. ASSUME bindTask' = [bindTask EXCEPT ![w].pc = "delete"], bindResp' = B!NoResp, cmp' = cmp
          PROVE  Proceeds(w)
      <3>1. [t EXCEPT !.pc = "delete"] = [t EXCEPT !.pc = "delete", !.pw = t.pw]
        BY <1>1 DEF B!Task
      <3>2. bindTask' = [bindTask EXCEPT ![w] = [t EXCEPT !.pc = "delete", !.pw = t.pw]]
        BY <2>2, <3>1
      <3>3. GoesTo(w, "delete", t.pw)
        BY <2>1, <3>2 DEF GoesTo
      <3> QED BY <2>1, <2>2, <3>3 DEF Proceeds, BusyPCs, B!PCs, B!NoResp
    <2> QED BY <1>11, <2>2, RefuseAnswers DEF B!MarkOwned, B!UnbindNotFound
  <1>12. CASE B!UnbindDelete(w)
    <2>1. t.op = "Unbind"
      BY <1>1, <1>12 DEF B!UnbindDelete, BindStepOK
    <2>2. t.pc = "delete" /\ (cmp[t.b] # Absent => cmp[t.b] \in B!Binding)
      BY <1>1, <1>12 DEF B!UnbindDelete, BindStepOK, BindingsInOrder
    <2> QED BY <1>12, <2>1, <2>2, RefuseAnswers DEF B!UnbindDelete, B!UnbindNotFound, B!Reply, Removes
  <1>13. CASE B!GetRedisBinding(w) \/ B!GetBinding(w) \/ B!GetConnection(w) \/ B!GetCluster(w)
    <2>1. FALSE
      BY <1>1, <1>13 DEF B!GetRedisBinding, B!GetBinding, B!GetConnection, B!GetCluster, BindStepOK
    <2> QED BY <2>1
  <1>14. CASE B!Abort(w)
    BY <1>14, RefuseAnswers, BinderFailedAnswers DEF B!Abort
  <1> QED
    BY <1>2, <1>4, <1>5, <1>6, <1>7, <1>8, <1>9, <1>10, <1>11, <1>12, <1>13, <1>14 DEF B!Step

LEMMA IdleBinder == B!Idle \in B!Task /\ BindStepOK(B!Idle)
  BY DEF B!Idle, B!Task, B!PCs, BindStepOK

\* The steps of the handlers for bindings.
LEMMA HandlersInOrder ==
  ASSUME BindingsInOrder, UNCHANGED <<composites, retired>>,
         NEW w \in BindWorkers, B!Step(w) \/ B!Abort(w),
         held' = IF bindResp'.op = "Unbind" /\ bindResp'.code = "ok" THEN held \ {bindResp'.b} ELSE held
  PROVE  BindingsInOrder'
  <1> DEFINE t == bindTask[w]
  <1>0. unbound' = unbound /\ (Answers(w) \/ Removes(w) \/ Proceeds(w))
    BY BindingStep
  <1>1. /\ bindTask \in [BindWorkers -> B!Task] /\ t \in B!Task /\ BindStepOK(t)
        /\ cmp \in [BindingIDs -> B!Binding \cup {Absent}]
        /\ \A v \in BindWorkers : BindStepOK(bindTask[v])
    BY DEF BindingsInOrder
  <1>k. DatabaseKey' = DatabaseKey
    BY DEF DatabaseKey
  <1>2. CASE Answers(w)
    <2>1. held' = held /\ cmp' = cmp /\ bindTask' = [bindTask EXCEPT ![w] = B!Idle]
      BY <1>2 DEF Answers
    <2>2. bindTask' \in [BindWorkers -> B!Task]
      BY <1>1, <2>1, IdleBinder
    <2>3. \A v \in BindWorkers : BindStepOK(bindTask'[v])
      BY <1>1, <2>1, IdleBinder
    <2>4. \A v \in BindWorkers : BindStepOK(bindTask[v])'
      BY <1>0, <1>k, <2>1, <2>3 DEF BindStepOK
    <2> QED
      BY <1>0, <1>1, <1>k, <2>1, <2>2, <2>4 DEF BindingsInOrder, B!Live
  <1>3. CASE Removes(w)
    <2> DEFINE b == t.b
    <2>1. /\ held' = held \/ held' = held \ {b}
          /\ b \in BindingIDs /\ b \in unbound
          /\ bindTask' = [bindTask EXCEPT ![w] = B!Idle]
          /\ cmp[b] \in B!Binding /\ cmp' = [cmp EXCEPT ![b].deleting = TRUE]
      BY <1>1, <1>3 DEF Removes, BindStepOK
    <2>2. bindTask' \in [BindWorkers -> B!Task]
      BY <1>1, <2>1, IdleBinder
    <2>3. \A v \in BindWorkers : bindTask'[v] = bindTask[v] \/ bindTask'[v] = B!Idle
      BY <1>1, <2>1
    <2>4. ASSUME NEW v \in BindWorkers PROVE BindStepOK(bindTask[v])'
      <3>1. CASE bindTask'[v] = bindTask[v]
        <4>1. BindStepOK(bindTask[v])
          BY <1>1
        <4>2. bindTask[v].op = "Bind" => bindTask[v].b \in held'
          BY <2>1, <4>1 DEF BindStepOK
        <4> QED BY <1>0, <1>k, <3>1, <4>1, <4>2 DEF BindStepOK
      <3>2. CASE bindTask'[v] = B!Idle
        BY <3>2 DEF BindStepOK, B!Idle
      <3> QED BY <2>3, <3>1, <3>2
    <2>5. [cmp[b] EXCEPT !.deleting = TRUE] \in B!Binding /\ [cmp[b] EXCEPT !.deleting = TRUE].deleting = TRUE
      BY <2>1 DEF B!Binding
    <2>6. cmp' = [cmp EXCEPT ![b] = [cmp[b] EXCEPT !.deleting = TRUE]]
      BY <2>1
    <2>7. cmp' \in [BindingIDs -> B!Binding \cup {Absent}]
      BY <1>1, <2>1, <2>5, <2>6
    <2>8. ASSUME NEW c \in BindingIDs, B!Live(c)' PROVE c \in held' /\ composites'[DatabaseKey] # Absent
      <3>1. c # b
        BY <1>1, <2>1, <2>5, <2>6, <2>8 DEF B!Live
      <3>2. B!Live(c)
        BY <1>1, <2>6, <2>8, <3>1 DEF B!Live
      <3> QED BY <2>1, <3>1, <3>2 DEF BindingsInOrder
    <2>9. held' # {} => d \notin retired'
      BY <2>1 DEF BindingsInOrder
    <2> QED
      BY <1>k, <2>2, <2>4, <2>7, <2>8, <2>9 DEF BindingsInOrder
  <1>4. CASE Proceeds(w)
    <2>1. PICK pc \in BusyPCs, pw \in Passwords \cup {NoPassword} : GoesTo(w, pc, pw)
      BY <1>4 DEF Proceeds
    <2>2. held' = held /\ t.pc # "idle"
      BY <1>4 DEF Proceeds
    <2> DEFINE u == [t EXCEPT !.pc = pc, !.pw = pw]
    <2>3. /\ u \in B!Task /\ u.pc = pc /\ u.op = t.op /\ u.b = t.b
      BY <1>1, <2>1 DEF B!Task, BusyPCs
    <2>4. bindTask' = [bindTask EXCEPT ![w] = u]
      BY <2>1 DEF GoesTo
    <2>5. BindStepOK(u)
      <3>1. pc \notin {"idle", "get", "connection", "redis"}
        BY DEF BusyPCs
      <3> HIDE DEF u
      <3> QED BY <1>1, <2>1, <2>2, <2>3, <3>1 DEF BindStepOK, GoesTo
    <2> HIDE DEF u
    <2>6. bindTask' \in [BindWorkers -> B!Task] /\ \A v \in BindWorkers : BindStepOK(bindTask'[v])
      BY <1>1, <2>3, <2>4, <2>5
    <2>7. \A v \in BindWorkers : BindStepOK(bindTask[v])'
      BY <1>0, <1>k, <2>2, <2>6 DEF BindStepOK
    <2>8. CASE cmp' = cmp
      BY <1>0, <1>1, <1>k, <2>2, <2>6, <2>7, <2>8 DEF BindingsInOrder, B!Live
    <2>9. CASE t.pc = "composite" /\ cmp' = [cmp EXCEPT ![t.b] = B!NewBinding]
      <3>1. t.op = "Bind" /\ t.b \in held /\ t.b \in BindingIDs /\ composites[DatabaseKey] # Absent
        BY <1>1, <2>9 DEF BindStepOK
      <3>2. B!NewBinding \in B!Binding
        BY DEF B!NewBinding, B!Binding
      <3>3. cmp' \in [BindingIDs -> B!Binding \cup {Absent}]
        BY <1>1, <2>9, <3>2
      <3>4. ASSUME NEW c \in BindingIDs, B!Live(c)' PROVE c \in held' /\ composites'[DatabaseKey] # Absent
        <4>1. c = t.b \/ B!Live(c)
          BY <1>1, <2>9, <3>4 DEF B!Live
        <4> QED BY <2>2, <3>1, <4>1 DEF BindingsInOrder
      <3> QED
        BY <1>k, <2>2, <2>6, <2>7, <3>3, <3>4 DEF BindingsInOrder
    <2> QED BY <1>4, <2>8, <2>9 DEF Proceeds
  <1> QED
    BY <1>0, <1>2, <1>3, <1>4

\* The steps of the controllers.
LEMMA ControllersInOrder ==
  ASSUME BindingsInOrder, UNCHANGED <<composites, retired, held>>, NEW b \in BindingIDs,
         B!ComposeRef(b) \/ B!CreateUser(b) \/ B!SyncUser(b) \/ B!Collect(b)
  PROVE  BindingsInOrder'
  <1>1. bindTask' = bindTask /\ unbound' = unbound
    BY DEF B!ComposeRef, B!CreateUser, B!SyncUser, B!Collect, B!CollectUser, B!CollectSecret,
           B!RemoveUser, B!RemoveBinding, B!Env, B!history
  <1>k. DatabaseKey' = DatabaseKey
    BY DEF DatabaseKey
  <1>2. cmp \in [BindingIDs -> B!Binding \cup {Absent}]
    BY DEF BindingsInOrder
  <1>3. \/ cmp' = cmp
        \/ cmp' = [cmp EXCEPT ![b] = Absent]
        \/ B!Live(b) /\ cmp' = [cmp EXCEPT ![b] = [cmp[b] EXCEPT !.userRef = TRUE]]
    BY DEF B!ComposeRef, B!CreateUser, B!SyncUser, B!Collect, B!CollectUser, B!CollectSecret,
           B!RemoveUser, B!RemoveBinding
  <1>4. B!Live(b) => [cmp[b] EXCEPT !.userRef = TRUE] \in B!Binding
    BY <1>2 DEF B!Live, B!Binding
  <1>5. cmp' \in [BindingIDs -> B!Binding \cup {Absent}]
    BY <1>2, <1>3, <1>4
  <1>6. \A c \in BindingIDs : B!Live(c)' => B!Live(c)
    BY <1>2, <1>3 DEF B!Live
  <1>7. \A v \in BindWorkers : BindStepOK(bindTask[v])'
    BY <1>1, <1>k DEF BindingsInOrder, BindStepOK
  <1> QED
    BY <1>1, <1>k, <1>5, <1>6, <1>7 DEF BindingsInOrder

\* A request for a binding arrives.
LEMMA ReceiveInOrder ==
  ASSUME Orderly, BindingsInOrder, UNCHANGED <<composites, retired>>,
         NEW w \in BindWorkers, NEW op \in Calls, NEW b \in BindingIDs,
         B!Receive(w, op, b, FALSE), op = "Bind" => d \notin retired,
         held' = IF op = "Bind" THEN held \cup {b} ELSE held
  PROVE  BindingsInOrder'
  <1> DEFINE t == [pc |-> "instance", op |-> op, b |-> b, async |-> FALSE, pw |-> NoPassword]
  <1>k. DatabaseKey' = DatabaseKey
    BY DEF DatabaseKey
  <1>1. /\ bindTask' = [bindTask EXCEPT ![w] = t] /\ cmp' = cmp
        /\ unbound' = IF op = "Unbind" THEN unbound \cup {b} ELSE unbound
        /\ op = "Bind" => b \notin unbound
        /\ \A v \in BindWorkers : bindTask[v].b # b
    BY DEF B!Receive, B!objects, B!On
  <1>2. bindTask \in [BindWorkers -> B!Task] /\ t \in B!Task
    BY DEF BindingsInOrder, B!Task, B!PCs, B!Ops, Calls
  <1>3. ASSUME NEW v \in BindWorkers PROVE BindStepOK(bindTask[v])'
    <2>1. CASE v = w
      BY <1>1, <1>2, <2>1 DEF BindStepOK, Calls
    <2>2. CASE v # w
      <3>1. bindTask'[v] = bindTask[v] /\ BindStepOK(bindTask[v]) /\ bindTask[v].b # b
        BY <1>1, <1>2, <2>2 DEF BindingsInOrder
      <3> QED BY <1>1, <1>k, <3>1 DEF BindStepOK
    <2> QED BY <2>1, <2>2
  <1>4. bindTask' \in [BindWorkers -> B!Task]
    BY <1>1, <1>2
  <1> QED
    BY <1>1, <1>k, <1>3, <1>4 DEF BindingsInOrder, B!Live

LEMMA OnBindingsInOrder ==
  ASSUME Orderly, BindingsInOrder, OnBindings
  PROVE  BindingsInOrder'
  <1>1. UNCHANGED <<composites, retired>>
    BY DEF OnBindings
  <1>2. ASSUME NEW b, B!ComposeRef(b) \/ B!CreateUser(b) \/ B!SyncUser(b) \/ B!Collect(b)
        PROVE  bindResp' = B!NoResp
    BY <1>2 DEF B!ComposeRef, B!CreateUser, B!SyncUser, B!Collect, B!CollectUser, B!CollectSecret,
                B!RemoveUser, B!RemoveBinding, B!Env
  <1>3. ASSUME NEW b \in BindingIDs, B!ComposeRef(b) \/ B!CreateUser(b) \/ B!SyncUser(b) \/ B!Collect(b),
               held' = IF bindResp'.op = "Unbind" /\ bindResp'.code = "ok" THEN held \ {bindResp'.b} ELSE held
        PROVE  BindingsInOrder'
    <2>1. held' = held
      BY <1>2, <1>3 DEF B!NoResp
    <2> QED BY <1>1, <1>3, <2>1, ControllersInOrder
  <1> QED
    BY <1>1, <1>3, HandlersInOrder, ReceiveInOrder DEF OnBindings
-----------------------------------------------------------------------------
LEMMA InitInOrder ==
  ASSUME LifecycleInit
  PROVE  Inv /\ ParentInv /\ OrderlyInv
  <1>1. Init /\ (\A k \in Keys : composites[k] = Absent) /\ \A w \in Workers : task[w] = Idle
    BY DEF LifecycleInit, Init
  <1>2. Inv
    BY <1>1, InitInv
  <1>3. ParentInv
    <2>1. \A w \in Workers : task[w].pc = "idle"
      BY <1>1 DEF Idle
    <2> QED
      BY <1>1, <2>1, ParentKeys DEF ParentInv, ServicesFitKinds, InstancesAreKnown, ParentSeen,
                                    ParentWasInstance, ChildrenAreLate
  <1>4. InstancesInOrder /\ ParentStays
    BY <1>1, TwoKeys DEF InstancesInOrder, ParentStays, Making, Idle
  <1>5. BindingsInOrder
    BY IdleBinder DEF LifecycleInit, BindingsInOrder, B!Live
  <1> QED
    BY <1>2, <1>3, <1>4, <1>5 DEF OrderlyInv

LEMMA NextInOrder ==
  ASSUME Orderly, DatabaseOnInstance, KindsOfServices, Inv, ParentInv, OrderlyInv,
         [LifecycleNext]_lifecycleVars
  PROVE  Inv' /\ ParentInv' /\ OrderlyInv'
  <1>1. Inv' /\ ParentInv'
    BY InstancesKept
  <1>k. ParentKey' = ParentKey /\ DatabaseKey' = DatabaseKey
    BY DEF ParentKey, DatabaseKey
  <1>2. ASSUME UNCHANGED <<composites, task, retired>> PROVE InstancesInOrder' /\ ParentStays'
    <2>1. InstancesInOrder'
      BY <1>2, <1>k DEF OrderlyInv, InstancesInOrder, Making, PlanFound
    <2>2. ParentStays'
      BY <1>2, <1>k DEF OrderlyInv, ParentStays, Deletes, Key, GVK
    <2> QED BY <2>1, <2>2
  <1>3. ASSUME UNCHANGED <<composites, retired, bindVars, held>> PROVE BindingsInOrder'
    BY <1>3, <1>k DEF bindVars, OrderlyInv, BindingsInOrder, BindStepOK, B!Live
  <1>4. CASE OnInstances
    BY <1>1, <1>4, NextInstancesInOrder, NextParentStays, OnInstancesInOrder DEF OrderlyInv
  <1>5. CASE PublishParent
    BY <1>1, <1>2, <1>3, <1>5 DEF PublishParent, OrderlyInv
  <1>6. CASE OnBindings
    <2>1. InstancesInOrder' /\ ParentStays'
      BY <1>2, <1>6 DEF OnBindings
    <2>2. BindingsInOrder'
      BY <1>6, OnBindingsInOrder DEF OrderlyInv
    <2> QED BY <1>1, <2>1, <2>2 DEF OrderlyInv
  <1>7. CASE UNCHANGED lifecycleVars
    BY <1>1, <1>2, <1>3, <1>7 DEF lifecycleVars, vars, OrderlyInv
  <1> QED
    BY <1>4, <1>5, <1>6, <1>7 DEF LifecycleNext

\* What the handlers keep when the platform is orderly, requests make m a
\* MariaDB instance and d a database on it, and kinds are those of services.
THEOREM OrderlyInvHolds ==
  ASSUME Orderly, DatabaseOnInstance, KindsOfServices
  PROVE  LifecycleSpec => []OrderlyInv
  <1>1. LifecycleInit => Inv /\ ParentInv /\ OrderlyInv
    BY InitInOrder
  <1>2. (Inv /\ ParentInv /\ OrderlyInv) /\ [LifecycleNext]_lifecycleVars
          => (Inv /\ ParentInv /\ OrderlyInv)'
    BY NextInOrder
  <1> QED
    BY <1>1, <1>2, PTL DEF LifecycleSpec

\* The state of the connection secret that Parent reports.
LEMMA LifecycleInvHolds == LifecycleSpec => []LifecycleInv
  <1>1. LifecycleInit => LifecycleInv
    BY InitMaps
  <1>2. LifecycleInv /\ [LifecycleNext]_lifecycleVars => LifecycleInv'
    BY OnInstancesMaps, PublishParentMaps, OnBindingsMaps, StutterMaps DEF LifecycleNext
  <1> QED
    BY <1>1, <1>2, PTL DEF LifecycleSpec

LEMMA DatabaseHasInstance ==
  ASSUME LifecycleInv, OrderlyInv
  PROVE  DatabaseKeepsInstance
  <1> SUFFICES ASSUME DB # "absent" PROVE Parent # "absent"
    BY DEF DatabaseKeepsInstance
  <1>1. composites[DatabaseKey] # Absent
    BY DEF DB, DatabaseKey
  <1>2. composites[ParentKey] # Absent
    BY <1>1 DEF OrderlyInv, ParentStays
  <1> QED
    BY <1>2 DEF Parent, ParentKey, LifecycleInv

\* With an orderly platform, the MariaDB instance is there as long as the
\* database is, though the check of Deprovision and the removal are two steps,
\* and so are the check of Provision and the creation.
THEOREM DatabasesKeepTheirInstance ==
  ASSUME Orderly, DatabaseOnInstance, KindsOfServices
  PROVE  LifecycleSpec => []DatabaseKeepsInstance
  <1>1. LifecycleInv /\ OrderlyInv => DatabaseKeepsInstance
    BY DatabaseHasInstance
  <1> QED
    BY <1>1, OrderlyInvHolds, LifecycleInvHolds, PTL

\* And a binding that is not being deleted has its database and, through it,
\* the MariaDB instance, at every step of every Bind and every Unbind.
THEOREM BindingsKeepTheirInstances ==
  ASSUME Orderly, DatabaseOnInstance, KindsOfServices
  PROVE  LifecycleSpec => []BindingsKeepInstances
  <1>1. LifecycleInv /\ OrderlyInv => BindingsKeepInstances
    <2> SUFFICES ASSUME LifecycleInv, OrderlyInv, NEW b \in BindingIDs, B!Live(b)
                 PROVE  DB # "absent" /\ Parent # "absent"
      BY DEF BindingsKeepInstances
    <2>1. composites[DatabaseKey] # Absent
      BY DEF OrderlyInv, BindingsInOrder
    <2>2. DB # "absent"
      BY <2>1 DEF DB, DatabaseKey
    <2> QED
      BY <2>2, DatabaseHasInstance DEF DatabaseKeepsInstance
  <1> QED
    BY <1>1, OrderlyInvHolds, LifecycleInvHolds, PTL
=============================================================================
