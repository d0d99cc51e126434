---------------------- MODULE InstancesRegistryProofs ----------------------
(***************************************************************************)
(* Instances implements InstanceRegistry: each step of a worker, or of a   *)
(* controller, is a step of the registry.                                  *)
(***************************************************************************)
EXTENDS InstancesProofs, InstancesRegistry

\* The entries change where the objects do.
LEMMA EntriesWritten ==
  ASSUME TypeOK, NEW k \in Keys, NEW o, composites' = [composites EXCEPT ![k] = o]
  PROVE  Entries' = [Entries EXCEPT ![k] = EntryOf(o)]
  BY DEF TypeOK, Entries

\* There is an entry where there is an object, and it has the object's plan.
LEMMA EntryOfObject ==
  ASSUME Inv, NEW k \in Keys
  PROVE  /\ Entries[k] = Absent <=> composites[k] = Absent
         /\ composites[k] # Absent =>
              /\ Entries[k].plan = composites[k].plan
              /\ Entries[k].parent = composites[k].parent
              /\ Entries[k].ending = composites[k].deleting
  <1>1. Entries[k] = EntryOf(composites[k])
    BY DEF Entries
  <1>2. CASE composites[k] # Absent
    <2>1. composites[k] \in Composite
      BY <1>2 DEF Inv, TypeOK
    <2>2. EntryOf(composites[k]) \in Registry!Entry
      BY <1>2, <2>1 DEF Composite, EntryOf, Registry!Entry
    <2> QED
      BY <1>1, <1>2, <2>2, EntryAssumption DEF EntryOf
  <1> QED
    BY <1>1, <1>2 DEF EntryOf

\* A deletion timestamp makes an entry one that is ending.
LEMMA EntryOfDeleted ==
  ASSUME NEW o \in Composite
  PROVE  EntryOf([o EXCEPT !.deleting = TRUE]) = [EntryOf(o) EXCEPT !.ending = TRUE]
  <1> DEFINE new == [o EXCEPT !.deleting = TRUE]
  <1>1. new \in Composite /\ new # Absent /\ o # Absent
    BY AbsentAssumption DEF Composite
  <1>2. /\ new.plan = o.plan /\ new.parent = o.parent /\ new.principal = o.principal
        /\ new.deleting = TRUE
    BY DEF Composite
  <1>3. EntryOf(o) = [plan |-> o.plan, parent |-> o.parent, principal |-> o.principal,
                      ending |-> o.deleting]
    BY <1>1 DEF EntryOf
  <1>4. ASSUME NEW x, new.deleting = x
        PROVE  EntryOf(new) = [EntryOf(o) EXCEPT !.ending = x]
    <2>1. EntryOf(new) = [plan |-> o.plan, parent |-> o.parent, principal |-> o.principal,
                          ending |-> x]
      <3> HIDE DEF new
      <3> QED
        BY <1>1, <1>2, <1>4 DEF EntryOf
    <2> HIDE DEF new
    <2> QED
      BY <1>3, <2>1
  <1>5. PICK x : x = TRUE
    OBVIOUS
  <1> QED
    BY <1>2, <1>4, <1>5

\* A handler that has matched an instance by name knows its plan.
LEMMA MatchedPlan ==
  ASSUME UniquePlanNames, Inv, LabelsMatchPlan, NEW p \in Plans, NEW id \in InstanceIDs,
         Matches(composites[Key(p, id)], p)
  PROVE  composites[Key(p, id)].plan = p
  <1> DEFINE o == composites[Key(p, id)]
  <1>1. o # Absent /\ o \in Composite /\ o.plan \in Plans /\ o.PlanName = Labels[p].PlanName
    BY KeyType DEF Matches, Inv, TypeOK, Composite
  <1>2. Labels[o.plan].Kind = GVK(p) /\ o.PlanName = Labels[o.plan].PlanName
    BY <1>1, KeyType DEF LabelsMatchPlan, Key
  <1> QED
    BY <1>1, <1>2 DEF UniquePlanNames, GVK

\* A step that answers nothing and changes no object.
LEMMA QuietStep ==
  ASSUME resp' = NoResp, UNCHANGED composites
  PROVE  Registry!Next
  BY DEF NoResp, Entries, Registry!Next, Registry!Quiet, Registry!Silent

\* A refused request changes no object.
LEMMA RefusedStep ==
  ASSUME NEW r \in Requests, NEW code \in Registry!Refusals, NEW p \in Plans \cup {NoPlan},
         resp' = [code |-> code, req |-> r, plan |-> p], UNCHANGED composites
  PROVE  Registry!Next
  <1>1. Registry!Refuse(r)
    BY DEF Entries, Registry!Refuse
  <1> QED
    BY <1>1 DEF Registry!Next

\* Refuse, by a worker that is handling a request.
LEMMA RefuseStep ==
  ASSUME Inv, NEW w \in Workers, task[w].pc # "idle", NEW code \in Registry!Refusals,
         NEW p \in Plans \cup {NoPlan}, Reply(w, code, p)
  PROVE  Registry!Next
  BY BusyOK, RefusedStep DEF Reply, Answer
-----------------------------------------------------------------------------
\* validateParams answers nothing, or refuses.
LEMMA ValidateParamsStep ==
  ASSUME Inv, NEW w \in Workers, task[w].pc # "idle", NEW name, NEW pc, NEW p, NEW o,
         ValidateParams(w, name, pc, p, o)
  PROVE  Registry!Next
  <1>1. task[w].plan \in Plans \cup {NoPlan}
    BY DEF Inv, TypeOK, Task
  <1>2. CASE Refuse(w, "badParams") \/ Refuse(w, "panic")
    BY <1>1, <1>2, RefuseStep DEF Refuse, Registry!Refusals
  <1>3. CASE resp' = NoResp /\ UNCHANGED composites
    BY <1>3, QuietStep
  <1> QED
    BY <1>2, <1>3 DEF ValidateParams, Continue

\* Provision, having read the composite: "exists" and "conflict" are true.
LEMMA ProvisionGetStep ==
  ASSUME UniquePlanNames, Inv, LabelsMatchPlan, NEW w \in Workers, ProvisionGet(w)
  PROVE  Registry!Next
  <1> DEFINE t == task[w]
  <1> DEFINE k == Key(t.plan, t.req.id)
  <1>1. /\ t.pc # "idle" /\ t.req \in Requests /\ t.req.id \in InstanceIDs /\ t.plan \in Plans
        /\ t.req.op = "Provision" /\ t.plan = t.req.plan /\ k \in Keys
    BY BusyOK, KeyType DEF ProvisionGet, TaskOK
  <1>2. CASE ValidateParams(w, Labels[t.plan].ServiceName, "create", t.plan, Absent)
    BY <1>1, <1>2, ValidateParamsStep
  <1>3. CASE Refuse(w, "error")
    BY <1>1, <1>3, RefuseStep DEF Refuse, Registry!Refusals
  <1>4. CASE /\ Matches(composites[k], t.plan)
             /\ Refuse(w, IF t.req.raw = "nil" THEN "exists" ELSE "conflict")
    <2>1. composites[k] # Absent /\ composites[k].plan = t.plan
      BY <1>1, <1>4, MatchedPlan DEF Matches
    <2>2. Registry!HasPlan(t.req, t.plan)
      BY <1>1, <2>1, EntryOfObject DEF Registry!HasPlan, Registry!Key, Registry!GVK, Key, GVK
    <2>3. Registry!Exists(t.req)
      BY <1>1, <1>4, <2>2 DEF Registry!Exists, Registry!Answer, Refuse, Reply, Answer, Entries
    <2> QED
      BY <1>1, <2>3 DEF Registry!Next
  <1> QED
    BY <1>2, <1>3, <1>4 DEF ProvisionGet

\* The parent's look-up answers nothing, or refuses.
LEMMA ValidateProvisionParamsStep ==
  ASSUME Inv, NEW w \in Workers, ValidateProvisionParams(w)
  PROVE  Registry!Next
  <1>1. task[w].pc # "idle" /\ task[w].plan \in Plans
    BY BusyOK DEF ValidateProvisionParams, TaskOK
  <1>2. CASE Refuse(w, "badParams")
    BY <1>1, <1>2, RefuseStep DEF Refuse, Registry!Refusals
  <1>3. CASE resp' = NoResp /\ UNCHANGED composites
    BY <1>3, QuietStep
  <1> QED
    BY <1>2, <1>3 DEF ValidateProvisionParams, Continue

\* CreateInstance is the registry's Provision.
LEMMA CreateInstanceStep ==
  ASSUME Inv, NEW w \in Workers, CreateInstance(w)
  PROVE  Registry!Next
  <1> DEFINE t == task[w]
  <1> DEFINE k == Key(t.plan, t.req.id)
  <1> DEFINE new == NewComposite(t.plan, t.req)
  <1>1. /\ t.pc # "idle" /\ t.req \in Requests /\ t.req \in Request /\ t.plan \in Plans
        /\ t.req.op = "Provision" /\ t.plan = t.req.plan /\ k \in Keys
    BY BusyOK, KeyType DEF CreateInstance, TaskOK
  <1>2. CASE Refuse(w, "error") \/ Refuse(w, "panic")
    BY <1>1, <1>2, RefuseStep DEF Refuse, Registry!Refusals
  <1>3. CASE /\ t.req.principal # NoPrincipal /\ new.parent # NotAString
             /\ composites[k] = Absent
             /\ composites' = [composites EXCEPT ![k] = new]
             /\ resp' = [code |-> "accepted", req |-> t.req, plan |-> t.plan]
    <2>1. new \in Composite /\ new # Absent
      BY <1>1, <1>3, NewCompositeType, AbsentAssumption
    <2>2. EntryOf(new) = [plan |-> t.plan, parent |-> new.parent,
                          principal |-> t.req.principal, ending |-> FALSE]
      BY <2>1 DEF EntryOf, NewComposite
    <2>3. new.parent \in InstanceIDs \cup {NoParent}
      BY <2>1 DEF Composite
    <2>4. Entries' = [Entries EXCEPT ![k] = EntryOf(new)] /\ Entries[k] = Absent
      BY <1>1, <1>3, EntriesWritten, EntryOfObject DEF Inv
    <2>5. t.req.principal \in Principals
      BY <1>1, <1>3 DEF Request
    <2>6. Registry!Provision(t.req)
      BY <1>1, <1>3, <2>2, <2>3, <2>4, <2>5
         DEF Registry!Provision, Registry!Answer, Registry!Key, Registry!GVK, Key, GVK
    <2> QED
      BY <1>1, <2>6 DEF Registry!Next
  <1> QED
    BY <1>2, <1>3 DEF CreateInstance

\* Behind getPlanInstance: an answer about the instance is about its plan.
LEMMA FoundStep ==
  ASSUME UniquePlanNames, Inv, LabelsMatchPlan, NEW w \in Workers, NEW p \in Plans,
         task[w].pc \in {"get", "find"},
         Matches(composites[Key(p, task[w].req.id)], p),
         Found(w, p, composites[Key(p, task[w].req.id)])
  PROVE  Registry!Next
  <1> DEFINE t == task[w]
  <1> DEFINE k == Key(p, t.req.id)
  <1>1. t.pc # "idle" /\ t.req \in Requests /\ t.req.id \in InstanceIDs /\ k \in Keys
    BY BusyOK, KeyType
  <1>2. composites[k] # Absent /\ composites[k].plan = p
    BY <1>1, MatchedPlan DEF Matches
  <1>3. Registry!HasPlan(t.req, p)
    BY <1>1, <1>2, EntryOfObject DEF Registry!HasPlan, Registry!Key, Registry!GVK, Key, GVK
  <1>4. CASE t.req.op = "Update" /\ UpdateFound(w, p, composites[k])
    <2>1. CASE Reply(w, "notPermitted", p) \/ Reply(w, "error", p)
      BY <1>1, <2>1, RefuseStep DEF Registry!Refusals
    <2> QED
      BY <1>1, <1>4, <2>1, ValidateParamsStep DEF UpdateFound
  <1>5. CASE DeprovisionFound(w, p, composites[k])
    BY <1>5, QuietStep DEF DeprovisionFound, Continue
  <1>6. CASE t.req.op = "GetInstance" /\ GetInstanceFound(w, p)
    <2>1. Registry!Report(t.req, p)
      BY <1>3, <1>6 DEF GetInstanceFound, Reply, Answer, Registry!Report, Registry!Answer, Entries
    <2> QED
      BY <1>1, <2>1 DEF Registry!Next
  <1>7. CASE t.req.op = "LastOperation" /\ LastOperationFound(w, p, composites[k])
    <2>1. Registry!Report(t.req, p)
      BY <1>3, <1>7 DEF LastOperationFound, Reply, Answer, Registry!Report, Registry!Answer, Entries
    <2> QED
      BY <1>1, <2>1 DEF Registry!Next
  <1> QED
    BY <1>4, <1>5, <1>6, <1>7 DEF Found

\* The look-up by plan ID: "gone" is true.
LEMMA GetPlanInstanceStep ==
  ASSUME UniquePlanNames, Inv, LabelsMatchPlan, NEW w \in Workers, GetPlanInstance(w)
  PROVE  Registry!Next
  <1> DEFINE t == task[w]
  <1> DEFINE k == Key(t.plan, t.req.id)
  <1>1. /\ t.pc = "get" /\ t.req \in Requests /\ t.plan \in Plans /\ t.plan = t.req.plan
        /\ k \in Keys
    BY BusyOK, KeyType DEF GetPlanInstance, TaskOK
  <1>2. CASE composites[k] = Absent /\ Refuse(w, "gone")
    <2>1. Entries[k] = Absent
      BY <1>1, <1>2, EntryOfObject
    <2>2. Registry!Gone(t.req)
      BY <1>1, <1>2, <2>1
         DEF Refuse, Reply, Answer, Entries, Registry!Gone, Registry!Answer, Registry!Key,
             Registry!GVK, Key, GVK
    <2> QED
      BY <1>1, <2>2 DEF Registry!Next
  <1>3. CASE Refuse(w, "error")
    BY <1>1, <1>3, RefuseStep DEF Refuse, Registry!Refusals
  <1>4. CASE Matches(composites[k], t.plan) /\ Found(w, t.plan, composites[k])
    BY <1>1, <1>4, FoundStep
  <1> QED
    BY <1>2, <1>3, <1>4 DEF GetPlanInstance

\* An iteration of the search, or its end.
LEMMA FindInstanceWithoutPlanStep ==
  ASSUME UniquePlanNames, Inv, LabelsMatchPlan, NEW w \in Workers, FindInstanceWithoutPlan(w)
  PROVE  Registry!Next
  <1> DEFINE t == task[w]
  <1> DEFINE p == PlanList[t.next]
  <1>1. /\ t.pc = "find" /\ t.plan \in Plans \cup {NoPlan} /\ t.next \in 1..(Len(PlanList) + 1)
        /\ Len(PlanList) \in Nat
    BY BusyOK, CatalogAssumption DEF FindInstanceWithoutPlan, TaskOK, Task
  <1>2. CASE Refuse(w, "notFound")
    BY <1>1, <1>2, RefuseStep DEF Refuse, Registry!Refusals
  <1>3. CASE resp' = NoResp /\ UNCHANGED composites
    BY <1>3, QuietStep
  <1>4. CASE /\ ~SearchEnds(t)
             /\ Matches(composites[Key(p, t.req.id)], p)
             /\ Found(w, p, composites[Key(p, t.req.id)])
    <2>1. p \in Plans
      BY <1>1, <1>4, CatalogAssumption DEF SearchEnds
    <2> QED
      BY <1>1, <1>4, <2>1, FoundStep
  <1> QED
    BY <1>2, <1>3, <1>4 DEF FindInstanceWithoutPlan

\* UpdateInstance is the registry's Update, from the plan the instance has at
\* the time of the write: the copy the worker read is the stored object.
LEMMA UpdateInstanceStep ==
  ASSUME UniquePlanNames, Inv, LabelsMatchPlan, NEW w \in Workers, UpdateInstance(w)
  PROVE  Registry!Next
  <1> DEFINE t == task[w]
  <1> DEFINE np == t.req.newPlan
  <1> DEFINE k == Key(np, t.req.id)
  <1> DEFINE old == composites[k]
  <1> DEFINE new == UpdatedComposite(t.inst, np, t.req)
  <1>1. /\ t.pc = "update" /\ t.req \in Requests /\ t.plan \in Plans /\ t.req.op = "Update"
    BY BusyOK DEF UpdateInstance, TaskOK
  <1>2. CASE Refuse(w, "error")
    BY <1>1, <1>2, RefuseStep DEF Refuse, Registry!Refusals
  <1>3. CASE /\ WriteAccepted(w, k)
             /\ composites' = [composites EXCEPT ![k] = new]
             /\ Answer(w, "ok", np)
    <2>1. /\ k \in Keys /\ old = t.inst /\ old \in Composite /\ old # Absent /\ np \in Plans
          /\ old.plan = t.plan /\ AllowUpdate(t.plan, np) /\ GVK(np) = GVK(t.plan)
      BY <1>1, <1>3, UpdateKnowsPlan DEF WriteAccepted
    <2>2. new \in Composite /\ new # Absent
      BY <1>1, <1>3, <2>1, UpdateKnowsPlan, UpdatedCompositeType, AbsentAssumption
    <2>3. EntryOf(new) = [EntryOf(old) EXCEPT !.plan = np]
      BY <2>1, <2>2 DEF EntryOf, UpdatedComposite, Composite
    <2>4. Entries' = [Entries EXCEPT ![k].plan = np]
      <3>1. Entries' = [Entries EXCEPT ![k] = EntryOf(new)]
        BY <1>3, <2>1, EntriesWritten DEF Inv
      <3>2. Entries[k] = EntryOf(old)
        BY <2>1 DEF Entries
      <3> QED
        BY <2>3, <3>1, <3>2
    <2>5. k = Registry!Key(t.plan, t.req.id)
      BY <2>1 DEF Key, GVK, Registry!Key, Registry!GVK
    <2>6. Registry!HasPlan(t.req, t.plan)
      BY <1>1, <2>1, <2>5, EntryOfObject DEF Registry!HasPlan
    <2>7. Registry!AllowUpdate(t.plan, np) /\ Registry!GVK(t.plan) = Registry!GVK(np)
      BY <2>1 DEF AllowUpdate, planSizeChanged, planSLAChanged, allowSizeUpdate, allowSLAUpdate,
                  Registry!AllowUpdate, Registry!planSizeChanged, Registry!planSLAChanged,
                  Registry!allowSizeUpdate, Registry!allowSLAUpdate, GVK, Registry!GVK
    <2>8. Registry!Update(t.req)
      BY <1>1, <1>3, <2>1, <2>4, <2>5, <2>6, <2>7 DEF Registry!Update, Registry!Answer, Answer
    <2> QED
      BY <1>1, <2>8 DEF Registry!Next
  <1> QED
    BY <1>2, <1>3 DEF UpdateInstance

\* "inUse" is true: a database carries the instance in its parent label.
LEMMA DeprovisionableStep ==
  ASSUME Inv, NEW w \in Workers, Deprovisionable(w)
  PROVE  Registry!Next
  <1> DEFINE t == task[w]
  <1>1. t.pc = "list" /\ t.req \in Requests /\ t.plan \in Plans /\ t.req.op = "Deprovision"
    BY BusyOK DEF Deprovisionable, TaskOK
  <1>2. CASE Children(t.req.id) # {} /\ Refuse(w, "inUse")
    <2>1. PICK d \in InstanceIDs : /\ composites[<<DatabaseKind, d>>] # Absent
                                   /\ composites[<<DatabaseKind, d>>].parent = t.req.id
      BY <1>2 DEF Children
    <2>2. <<DatabaseKind, d>> \in Keys
      BY DEF Keys, Kinds
    <2>3. Registry!InUse(t.req, t.plan)
      BY <1>1, <1>2, <2>1, <2>2, EntryOfObject
         DEF Registry!InUse, Registry!Answer, Registry!DatabaseKind, DatabaseKind, Refuse, Reply,
             Answer, Entries
    <2> QED
      BY <1>1, <2>3 DEF Registry!Next
  <1>3. CASE resp' = NoResp /\ UNCHANGED composites
    BY <1>3, QuietStep
  <1> QED
    BY <1>2, <1>3 DEF Deprovisionable, Continue

\* DeleteInstance is the registry's Deprovision: there is something to delete.
LEMMA DeleteInstanceStep ==
  ASSUME Inv, NEW w \in Workers, DeleteInstance(w)
  PROVE  Registry!Next
  <1> DEFINE t == task[w]
  <1> DEFINE k == Key(t.plan, t.req.id)
  <1> DEFINE o == composites[k]
  <1>1. /\ t.pc = "delete" /\ t.req \in Requests /\ t.plan \in Plans /\ t.req.op = "Deprovision"
        /\ k \in Keys
    BY BusyOK, KeyType DEF DeleteInstance, TaskOK
  <1>2. CASE Refuse(w, "error")
    BY <1>1, <1>2, RefuseStep DEF Refuse, Registry!Refusals
  <1>3. CASE /\ o # Absent
             /\ composites' = [composites EXCEPT ![k] = Deleted(o)]
             /\ resp' = [code |-> "ok", req |-> t.req, plan |-> t.plan]
    <2>1. o \in Composite
      BY <1>1, <1>3 DEF Inv, TypeOK
    <2>2. /\ Entries' = [Entries EXCEPT ![k] = EntryOf(Deleted(o))]
          /\ Entries[k] = EntryOf(o) /\ Entries[k] # Absent
      BY <1>1, <1>3, EntriesWritten, EntryOfObject DEF Inv, Entries
    <2>3. EntryOf(Deleted(o)) \in {Absent, [EntryOf(o) EXCEPT !.ending = TRUE]}
      <3>1. CASE Deleted(o) = Absent
        BY <3>1 DEF EntryOf
      <3>2. CASE Deleted(o) = [o EXCEPT !.deleting = TRUE]
        BY <2>1, <3>2, EntryOfDeleted
      <3>3. Deleted(o) = Absent \/ Deleted(o) = [o EXCEPT !.deleting = TRUE]
        BY DEF Deleted
      <3> QED
        BY <3>1, <3>2, <3>3
    <2>4. k = Registry!Key(t.plan, t.req.id)
      BY DEF Key, GVK, Registry!Key, Registry!GVK
    <2>5. Registry!Deprovision(t.req, t.plan)
      BY <1>1, <1>3, <2>2, <2>3, <2>4 DEF Registry!Deprovision, Registry!Answer
    <2> QED
      BY <1>1, <2>5 DEF Registry!Next
  <1> QED
    BY <1>2, <1>3 DEF DeleteInstance

\* The arrival of a request answers nothing, or refuses.
LEMMA ReceiveStep ==
  ASSUME NEW w \in Workers, NEW r \in Requests, Receive(w, r)
  PROVE  Registry!Next
  <1>1. CASE resp' = NoResp /\ UNCHANGED composites
    BY <1>1, QuietStep
  <1>2. CASE /\ \E code \in {"asyncRequired", "error"} :
                  resp' = [code |-> code, req |-> r, plan |-> NoPlan]
             /\ UNCHANGED composites
    BY <1>2, RefusedStep DEF Registry!Refusals
  <1> QED
    BY <1>1, <1>2 DEF Receive

\* The controllers remove an instance only if it is ending.
LEMMA ControllersStep ==
  ASSUME Inv, NEW k \in Keys,
         Finalize(k) \/ \E reason \in Reasons : Reconcile(k, reason)
  PROVE  Registry!Next
  <1>1. composites[k] # Absent /\ composites[k] \in Composite /\ resp' = NoResp
    BY DEF Finalize, Reconcile, Inv, TypeOK
  <1>2. Entries[k] = EntryOf(composites[k])
    BY DEF Entries
  <1>3. CASE Finalize(k)
    <2>1. Entries' = [Entries EXCEPT ![k] = Absent]
      BY <1>3, EntriesWritten DEF Finalize, EntryOf, Inv
    <2>2. Registry!Vanish(k)
      BY <1>1, <1>3, <2>1, EntryOfObject DEF Finalize, Registry!Vanish, Registry!Silent, NoResp
    <2>3. k \in Registry!Keys
      BY DEF Keys, Kinds, MariaDBKind, DatabaseKind,
             Registry!Keys, Registry!Kinds, Registry!MariaDBKind, Registry!DatabaseKind
    <2> QED
      BY <2>2, <2>3 DEF Registry!Next
  <1>4. CASE \E reason \in Reasons : Reconcile(k, reason)
    <2>1. PICK reason \in Reasons : Reconcile(k, reason)
      BY <1>4
    <2> DEFINE new == [composites[k] EXCEPT !.reason = reason]
    <2>2. EntryOf(new) = EntryOf(composites[k])
      <3>1. new \in Composite /\ new # Absent
        BY <1>1, <2>1, AbsentAssumption DEF Composite
      <3> QED
        BY <1>1, <3>1 DEF EntryOf, Composite
    <2>3. Entries' = [Entries EXCEPT ![k] = EntryOf(new)]
      BY <2>1, EntriesWritten DEF Reconcile, Inv
    <2>4. Entries' = Entries
      BY <1>2, <2>2, <2>3 DEF Entries
    <2> QED
      BY <1>1, <2>4 DEF NoResp, Registry!Next, Registry!Quiet, Registry!Silent
  <1> QED
    BY <1>3, <1>4
-----------------------------------------------------------------------------
\* An empty cluster is an empty registry.
LEMMA InitMaps == Init => Registry!Init
  BY DEF Init, NoResp, Entries, EntryOf, Keys, Kinds, MariaDBKind, DatabaseKind, Registry!Init,
         Registry!Keys, Registry!Kinds, Registry!MariaDBKind, Registry!DatabaseKind

\* Every step is a step of the registry, or leaves it alone.
LEMMA NextMaps ==
  ASSUME UniquePlanNames, Inv, LabelsMatchPlan, [Next]_vars
  PROVE  [Registry!Next]_<<Entries, resp>>
  <1>1. CASE \E w \in Workers : Step(w)
    BY <1>1, ProvisionGetStep, ValidateProvisionParamsStep, CreateInstanceStep,
       GetPlanInstanceStep, FindInstanceWithoutPlanStep, UpdateInstanceStep, DeprovisionableStep,
       DeleteInstanceStep DEF Step
  <1>2. CASE \E w \in Workers : Abort(w)
    <2>1. PICK w \in Workers : Abort(w)
      BY <1>2
    <2>2. task[w].pc # "idle" /\ task[w].plan \in Plans \cup {NoPlan}
      BY <2>1 DEF Abort, Inv, TypeOK, Task, TaskOK
    <2> QED
      BY <2>1, <2>2, RefuseStep DEF Abort, Refuse, Registry!Refusals
  <1>3. CASE \E w \in Workers, r \in Requests : Receive(w, r)
    BY <1>3, ReceiveStep
  <1>4. CASE \E k \in Keys : Finalize(k) \/ \E reason \in Reasons : Reconcile(k, reason)
    BY <1>4, ControllersStep
  <1>5. CASE UNCHANGED vars
    BY <1>5 DEF vars, Entries
  <1> QED
    BY <1>1, <1>2, <1>3, <1>4, <1>5 DEF Next

\* In an unambiguous catalogue, every answer to an instance request is one an
\* atomic operation on the registry would give at that moment, and nothing else
\* changes the registry.
THEOREM RegistryIsImplemented ==
  ASSUME UniquePlanNames, OneNamePerService
  PROVE  Spec => ImplementsRegistry
  <1>1. Inv /\ LabelsMatchPlan /\ [Next]_vars => [Registry!Next]_<<Entries, resp>>
    BY NextMaps
  <1> QED
    BY <1>1, InitMaps, InvHolds, LabelsAlwaysMatch, PTL
       DEF Spec, ImplementsRegistry, Registry!Spec
-----------------------------------------------------------------------------
(***************************************************************************)
(* What follows from the registry.                                         *)
(***************************************************************************)

\* ReportedPlanIsStored, said of the registry.
ReportedPlanIsEntered ==
  (\/ resp.code \in {"accepted", "exists"}
   \/ resp.code = "ok" /\ resp.req.op \in {"Update", "GetInstance"})
    => LET k == Key(resp.plan, resp.req.id)
       IN k \in Keys /\ Entries[k] # Absent /\ Entries[k].plan = resp.plan

\* The registry holds entries.
EntriesTyped == Entries \in [Keys -> Registry!Entry \cup {Absent}]

\* An answer of the registry is about the plan that is entered.
LEMMA RegistryReports ==
  ASSUME EntriesTyped, EntriesTyped', Registry!Next
  PROVE  ReportedPlanIsEntered'
  <1> USE DEF Registry!Key, Registry!GVK, Key, GVK, Registry!Answer
  <1> DEFINE Reported(k, p) == k \in Keys /\ Entries'[k] # Absent /\ Entries'[k].plan = p
  <1>1. /\ \A r \in Requests : r.id \in InstanceIDs
        /\ \A p \in Plans, id \in InstanceIDs : Key(p, id) \in Keys
        /\ DOMAIN Entries = Keys
    BY InstancesAssumption, KeyType DEF Request, Entries
  <1>2. CASE Registry!Quiet \/ \E k \in Registry!Keys : Registry!Vanish(k)
    BY <1>2 DEF Registry!Quiet, Registry!Vanish, Registry!Silent, ReportedPlanIsEntered
  <1>3. CASE \E r \in Requests : Registry!Refuse(r)
    BY <1>3 DEF Registry!Refuse, Registry!Refusals, ReportedPlanIsEntered
  <1>4. ASSUME NEW r \in Requests, Registry!Provision(r)
        PROVE  ReportedPlanIsEntered'
    <2> DEFINE k == Key(r.plan, r.id)
    <2>1. PICK parent \in InstanceIDs \cup {NoParent} :
            Entries' = [Entries EXCEPT ![k] = [plan |-> r.plan, parent |-> parent,
                                               principal |-> r.principal, ending |-> FALSE]]
      BY <1>4 DEF Registry!Provision
    <2>2. k \in Keys
      BY <1>1, <1>4 DEF Registry!Provision
    <2>3. [plan |-> r.plan, parent |-> parent, principal |-> r.principal, ending |-> FALSE]
            \in Registry!Entry
      BY <1>4, <2>1 DEF Registry!Provision, Registry!Entry
    <2>4. Reported(k, r.plan)
      BY <1>1, <2>1, <2>2, <2>3, EntryAssumption
    <2> QED
      BY <1>4, <2>4 DEF Registry!Provision, ReportedPlanIsEntered
  <1>5. ASSUME NEW r \in Requests, NEW p, Registry!HasPlan(r, p), Entries' = Entries
        PROVE  Reported(Key(p, r.id), p)
    BY <1>1, <1>5 DEF Registry!HasPlan
  <1>6. CASE \E r \in Requests : Registry!Exists(r)
    BY <1>5, <1>6 DEF Registry!Exists, ReportedPlanIsEntered
  <1>7. ASSUME NEW r \in Requests, Registry!Update(r)
        PROVE  ReportedPlanIsEntered'
    <2>1. PICK p \in Plans : /\ Registry!HasPlan(r, p) /\ GVK(p) = GVK(r.newPlan)
                             /\ Entries' = [Entries EXCEPT ![Key(p, r.id)].plan = r.newPlan]
      BY <1>7 DEF Registry!Update
    <2> DEFINE k == Key(p, r.id)
    <2>2. /\ k \in Keys /\ k = Key(r.newPlan, r.id) /\ r.newPlan \in Plans
          /\ Entries[k] \in Registry!Entry
      BY <1>1, <1>7, <2>1 DEF Registry!HasPlan, Registry!Update, EntriesTyped
    <2>3. [Entries[k] EXCEPT !.plan = r.newPlan] \in Registry!Entry
      BY <2>2 DEF Registry!Entry
    <2>4. Entries'[k] = [Entries[k] EXCEPT !.plan = r.newPlan]
      BY <1>1, <2>1, <2>2
    <2>5. Entries'[k].plan = r.newPlan
      BY <2>2, <2>4 DEF Registry!Entry
    <2>6. Reported(k, r.newPlan)
      BY <2>2, <2>3, <2>4, <2>5, EntryAssumption
    <2> QED
      BY <1>7, <2>2, <2>6 DEF Registry!Update, ReportedPlanIsEntered
  <1>8. CASE \E r \in Requests, p \in Plans : Registry!Report(r, p)
    BY <1>5, <1>8 DEF Registry!Report, ReportedPlanIsEntered
  <1>9. CASE \E r \in Requests :
               Registry!Gone(r) \/ \E p \in Plans : Registry!Deprovision(r, p) \/ Registry!InUse(r, p)
    <2>1. PICK r \in Requests :
               Registry!Gone(r) \/ \E p \in Plans : Registry!Deprovision(r, p) \/ Registry!InUse(r, p)
      BY <1>9
    <2>2. ASSUME NEW p, Registry!Deprovision(r, p)
          PROVE  resp' = [code |-> "ok", req |-> r, plan |-> p] /\ r.op = "Deprovision"
      BY <2>2, Zenon DEF Registry!Deprovision
    <2>3. \/ resp'.code = "ok" /\ resp'.req.op = "Deprovision"
          \/ resp'.code \in {"gone", "inUse"}
      BY <2>1, <2>2 DEF Registry!Gone, Registry!InUse
    <2> QED
      BY <2>3 DEF ReportedPlanIsEntered
  <1> QED
    BY <1>2, <1>3, <1>4, <1>6, <1>7, <1>8, <1>9 DEF Registry!Next

\* The entries are typed because the objects are.
LEMMA EntriesType == Inv => EntriesTyped
  <1> SUFFICES ASSUME Inv, NEW k \in Keys
               PROVE  EntryOf(composites[k]) \in Registry!Entry \cup {Absent}
    BY DEF EntriesTyped, Entries
  <1>1. composites[k] \in Composite \cup {Absent}
    BY DEF Inv, TypeOK
  <1> QED
    BY <1>1 DEF Composite, EntryOf, Registry!Entry

\* What a response of Provision, Update or GetInstance says of an instance's
\* plan is true when it is given: it follows from the registry.
THEOREM ReportedPlansAreStored ==
  ASSUME UniquePlanNames, OneNamePerService
  PROVE  Spec => []ReportedPlanIsStored
  <1>1. Init => ReportedPlanIsEntered
    BY DEF Init, NoResp, ReportedPlanIsEntered
  <1>2. (ReportedPlanIsEntered /\ EntriesTyped /\ EntriesTyped' /\ [Registry!Next]_<<Entries, resp>>)
          => ReportedPlanIsEntered'
    <2> SUFFICES ASSUME ReportedPlanIsEntered, EntriesTyped, EntriesTyped',
                        [Registry!Next]_<<Entries, resp>>
                 PROVE  ReportedPlanIsEntered'
      OBVIOUS
    <2>1. CASE UNCHANGED <<Entries, resp>>
      BY <2>1 DEF ReportedPlanIsEntered, Key
    <2> QED
      BY <2>1, RegistryReports
  <1>3. Inv /\ ReportedPlanIsEntered => ReportedPlanIsStored
    BY EntryOfObject DEF ReportedPlanIsEntered, ReportedPlanIsStored
  <1> QED
    BY <1>1, <1>2, <1>3, EntriesType, InvHolds, RegistryIsImplemented, PTL
       DEF Spec, ImplementsRegistry, Registry!Spec
=============================================================================
