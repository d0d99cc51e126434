-------------------------- MODULE InstancesProofs --------------------------
(***************************************************************************)
(* Proofs about module Instances, for every catalogue, every set of        *)
(* requests and every number of workers.                                   *)
(*                                                                         *)
(* Inv is inductive.  Beside the types it says what a handler knows at     *)
(* each of its steps (TaskOK) and that a copy whose version is current is  *)
(* the stored object (FreshOK).                                            *)
(***************************************************************************)
EXTENDS Instances, TLAPS

TaskOK(t) ==
  /\ t.pc = "idle" => t = Idle
  /\ t.pc # "idle" => t.req \in Requests
  /\ t.pc \notin {"idle", "find"} => t.plan \in Plans
  /\ t.pc = "find" => t.next \in 1..(Len(PlanList) + 1)
  /\ t.pc = "create" => t.req.op = "Provision"
  /\ t.pc \in {"list", "delete"} => t.req.op = "Deprovision"
  /\ t.pc = "get" \/ (t.pc # "idle" /\ t.req.op = "Provision") => t.plan = t.req.plan
  /\ t.pc = "validate" =>
       /\ t.req.params.parent \in InstanceIDs
       /\ t.req.op # "Provision" => t.inst # Absent
  /\ t.pc = "update" => t.inst # Absent
  /\ t.inst # Absent =>
       /\ t.pc \in {"validate", "update"}
       /\ t.req.op = "Update"
       /\ t.inst.PlanName = Labels[t.plan].PlanName
       /\ PlanFound(t.req.newPlan)
       /\ AllowUpdate(t.plan, t.req.newPlan)

FreshOK ==
  \A v \in fresh :
    /\ task[v].inst # Absent
    /\ composites[Key(task[v].plan, task[v].req.id)] = task[v].inst

Inv == TypeOK /\ (\A v \in Workers : TaskOK(task[v])) /\ FreshOK
-----------------------------------------------------------------------------
\* The parameters a request stores are a parameter map.
LEMMA ValidatedType ==
  ASSUME NEW name, NEW r \in Request
  PROVE  Validated(name, r) \in ParamMap
  BY InstancesAssumption DEF Validated, Request, ParamMap, NoParams, TLSBoolean, Settings

\* A key made of a plan and an ID is the key of an object.
LEMMA KeyType ==
  ASSUME NEW p \in Plans, NEW id \in InstanceIDs
  PROVE  Key(p, id) \in Keys
  BY DEF Key, Keys, Kinds, GVK

\* The tasks of a free worker.
LEMMA IdleOK == TaskOK(Idle) /\ Idle \in Task /\ Idle.inst = Absent
  <1>1. Len(PlanList) \in Nat
    BY CatalogAssumption
  <1> QED
    BY <1>1 DEF TaskOK, Idle, Task

\* Ending a request without a write keeps the invariant.
LEMMA ReplyInv ==
  ASSUME Inv, NEW w \in Workers, NEW code \in Codes, NEW p \in Plans \cup {NoPlan},
         Reply(w, code, p)
  PROVE  Inv'
  <1> USE DEF Inv
  <1>1. TypeOK'
    BY IdleOK DEF TypeOK, Reply, Answer, Task
  <1>2. \A v \in Workers : TaskOK(task[v])'
    BY IdleOK DEF TypeOK, Reply, Answer
  <1>3. FreshOK'
    BY DEF TypeOK, Reply, Answer, FreshOK, Key
  <1> QED
    BY <1>1, <1>2, <1>3

\* The same for Refuse, which answers about the plan of the task.
LEMMA RefuseInv ==
  ASSUME Inv, NEW w \in Workers, NEW code \in Codes, Refuse(w, code)
  PROVE  Inv'
  <1>1. task[w].plan \in Plans \cup {NoPlan}
    BY DEF Inv, TypeOK, Task
  <1> QED
    BY <1>1, ReplyInv DEF Refuse

\* Going on with a request keeps the invariant if the new task is as TaskOK
\* says and a copy that counts as current is the stored object.
LEMMA ContinueInv ==
  ASSUME Inv, NEW w \in Workers,
         NEW pc \in {"validate", "create", "update", "list", "delete"},
         NEW p \in Plans, NEW o \in Composite \cup {Absent},
         Continue(w, pc, p, o), UNCHANGED composites,
         TaskOK([task[w] EXCEPT !.pc = pc, !.plan = p, !.next = 0, !.inst = o]),
         fresh' \subseteq fresh \cup {w},
         w \in fresh' => o # Absent /\ composites[Key(p, task[w].req.id)] = o
  PROVE  Inv'
  <1> USE DEF Inv
  <1>0. Len(PlanList) \in Nat
    BY CatalogAssumption
  <1>1. [task[w] EXCEPT !.pc = pc, !.plan = p, !.next = 0, !.inst = o] \in Task
    <2>1. task[w] \in Task
      BY DEF TypeOK
    <2>2. 0 \in 0..(Len(PlanList) + 1)
      BY <1>0
    <2> QED
      BY <2>1, <2>2 DEF Task
  <1>2. TypeOK'
    BY <1>1 DEF TypeOK, Continue, NoResp, Codes
  <1>3. \A v \in Workers : TaskOK(task[v])'
    BY <1>1 DEF TypeOK, Continue
  <1>4. FreshOK'
    <2> SUFFICES ASSUME NEW v \in fresh'
                 PROVE  /\ task'[v].inst # Absent
                        /\ composites'[Key(task'[v].plan, task'[v].req.id)] = task'[v].inst
      BY DEF FreshOK, Key
    <2>1. CASE v = w
      <3>1. /\ task'[w].inst = o /\ task'[w].plan = p /\ task'[w].req = task[w].req
        BY DEF TypeOK, Task, Continue
      <3> QED
        BY <2>1, <3>1
    <2>2. CASE v # w
      BY <2>2 DEF FreshOK, TypeOK, Continue
    <2> QED
      BY <2>1, <2>2
  <1> QED
    BY <1>2, <1>3, <1>4

\* validateParams keeps the invariant, for Provision (o is Absent) and for
\* Update (o was read just now and the change is allowed).
LEMMA ValidateParamsInv ==
  ASSUME Inv, NEW w \in Workers, NEW name, NEW p \in Plans,
         NEW pc \in {"create", "update"}, NEW o \in Composite \cup {Absent},
         task[w].req \in Requests,
         pc = "create" =>
           o = Absent /\ task[w].req.op = "Provision" /\ p = task[w].req.plan,
         pc = "update" =>
           /\ o # Absent /\ task[w].req.op = "Update"
           /\ composites[Key(p, task[w].req.id)] = o
           /\ o.PlanName = Labels[p].PlanName
           /\ PlanFound(task[w].req.newPlan)
           /\ AllowUpdate(p, task[w].req.newPlan),
         ValidateParams(w, name, pc, p, o),
         o = Absent => w \notin fresh
  PROVE  Inv'
  <1> DEFINE r == task[w].req
  <1> DEFINE goOn(c) == /\ Continue(w, c, p, o)
                        /\ fresh' = IF o = Absent THEN fresh ELSE fresh \cup {w}
                        /\ UNCHANGED composites
  <1>1. \/ goOn(pc)
        \/ Refuse(w, "badParams")
        \/ Refuse(w, "panic")
        \/ r.params.parent \in InstanceIDs /\ goOn("validate")
    BY DEF ValidateParams
  <1>0. fresh' = (IF o = Absent THEN fresh ELSE fresh \cup {w}) =>
             /\ fresh' \subseteq fresh \cup {w}
             /\ w \in fresh' => o # Absent /\ composites[Key(p, task[w].req.id)] = o
    OBVIOUS
  <1>2. CASE goOn(pc)
    <2>1. TaskOK([task[w] EXCEPT !.pc = pc, !.plan = p, !.next = 0, !.inst = o])
      BY DEF TaskOK, Inv, TypeOK, Task
    <2>2. pc \in {"validate", "create", "update", "list", "delete"}
      OBVIOUS
    <2> QED
      BY <1>0, <1>2, <2>1, <2>2, ContinueInv
  <1>3. CASE r.params.parent \in InstanceIDs /\ goOn("validate")
    <2>1. TaskOK([task[w] EXCEPT !.pc = "validate", !.plan = p, !.next = 0, !.inst = o])
      BY <1>3 DEF TaskOK, Inv, TypeOK, Task
    <2> QED
      BY <1>0, <1>3, <2>1, ContinueInv
  <1>4. CASE Refuse(w, "badParams") \/ Refuse(w, "panic")
    BY <1>4, RefuseInv DEF Codes
  <1> QED
    BY <1>1, <1>2, <1>3, <1>4

\* What holds of a worker that is handling a request.
LEMMA BusyOK ==
  ASSUME Inv, NEW w \in Workers, task[w].pc # "idle"
  PROVE  /\ task[w] \in Task /\ TaskOK(task[w])
         /\ task[w].req \in Requests /\ task[w].req \in Request
         /\ task[w].req.id \in InstanceIDs
  BY InstancesAssumption DEF Inv, TypeOK, TaskOK, Task, Request

\* Provision keeps the invariant up to its validation of the parameters.
LEMMA ProvisionGetInv ==
  ASSUME Inv, NEW w \in Workers, ProvisionGet(w)
  PROVE  Inv'
  <1> DEFINE t == task[w]
  <1>1. /\ t.pc = "get" /\ t.req.op = "Provision" /\ t.plan \in Plans /\ t.req \in Requests
        /\ t.inst = Absent /\ t.plan = t.req.plan
    BY BusyOK DEF ProvisionGet, TaskOK
  <1>2. w \notin fresh
    BY <1>1 DEF Inv, FreshOK
  <1>3. CASE ValidateParams(w, Labels[t.plan].ServiceName, "create", t.plan, Absent)
    BY <1>1, <1>2, <1>3, ValidateParamsInv
  <1>4. CASE \E code \in Codes : Refuse(w, code)
    BY <1>4, RefuseInv
  <1> QED
    BY <1>3, <1>4 DEF ProvisionGet, Codes

\* The look-up of a parent keeps it: what is checked is in the task already.
LEMMA ValidateProvisionParamsInv ==
  ASSUME Inv, NEW w \in Workers, ValidateProvisionParams(w)
  PROVE  Inv'
  <1> DEFINE t == task[w]
  <1> DEFINE pc == IF t.req.op = "Provision" THEN "create" ELSE "update"
  <1>1. /\ t.pc = "validate" /\ t.plan \in Plans /\ TaskOK(t) /\ t \in Task
    BY BusyOK DEF ValidateProvisionParams, TaskOK
  <1>2. CASE Refuse(w, "badParams")
    BY <1>2, RefuseInv DEF Codes
  <1>3. CASE Continue(w, pc, t.plan, t.inst) /\ UNCHANGED <<composites, fresh>>
    <2>1. TaskOK([task[w] EXCEPT !.pc = pc, !.plan = t.plan, !.next = 0, !.inst = t.inst])
      BY <1>1 DEF TaskOK, Task
    <2>2. w \in fresh => t.inst # Absent /\ composites[Key(t.plan, t.req.id)] = t.inst
      BY DEF Inv, FreshOK
    <2>3. t.inst \in Composite \cup {Absent}
      BY <1>1 DEF Task
    <2> QED
      BY <1>1, <1>3, <2>1, <2>2, <2>3, ContinueInv
  <1> QED
    BY <1>2, <1>3 DEF ValidateProvisionParams

\* The object CreateInstance sends.
LEMMA NewCompositeType ==
  ASSUME NEW p \in Plans, NEW r \in Request,
         r.principal # NoPrincipal, NewComposite(p, r).parent # NotAString
  PROVE  NewComposite(p, r) \in Composite
  <1> DEFINE ap == Validated(Labels[p].ServiceName, r)
  <1>1. ap \in ParamMap
    BY ValidatedType
  <1>2. ap.parent \in InstanceIDs \cup {NoParent}
    BY <1>1 DEF ParamMap, NewComposite
  <1>3. r.principal \in Principals
    BY DEF Request
  <1>4. /\ Labels[p].PlanName \in PlanNames /\ Labels[p].SLA \in SLAs
        /\ Labels[p].ServiceID \in ServiceIDs /\ Labels[p].ServiceName \in ServiceNames
    BY DEF PlanNames, SLAs, ServiceIDs, ServiceNames
  <1> QED
    BY <1>1, <1>2, <1>3, <1>4 DEF NewComposite, Composite

\* CreateInstance keeps it: the new object has the shape of a composite, and no
\* reader can hold a current copy of an object that was not there.
LEMMA CreateInstanceInv ==
  ASSUME Inv, NEW w \in Workers, CreateInstance(w)
  PROVE  Inv'
  <1> DEFINE t == task[w]
  <1> DEFINE k == Key(t.plan, t.req.id)
  <1> DEFINE new == NewComposite(t.plan, t.req)
  <1>1. /\ t.pc = "create" /\ t.plan \in Plans /\ t.req \in Requests /\ t.req \in Request
        /\ t.req.id \in InstanceIDs /\ t.inst = Absent
    BY BusyOK DEF CreateInstance, TaskOK
  <1>2. CASE Refuse(w, "error") \/ Refuse(w, "panic")
    BY <1>2, RefuseInv DEF Codes
  <1>3. CASE /\ t.req.principal # NoPrincipal /\ new.parent # NotAString
             /\ composites[k] = Absent
             /\ composites' = [composites EXCEPT ![k] = new]
             /\ task' = [task EXCEPT ![w] = Idle]
             /\ resp' = [code |-> "accepted", req |-> t.req, plan |-> t.plan]
             /\ late' = [v \in Workers |->
                           IF k[1] = DatabaseKind /\ task[v].pc = "delete"
                             THEN late[v] \cup {k[2]} ELSE late[v]]
             /\ known' = IF k[1] = MariaDBKind THEN known \cup {k[2]} ELSE known
             /\ moved' = IF k[1] = DatabaseKind THEN moved \ {k[2]} ELSE moved
             /\ UNCHANGED <<fresh, steady>>
    <2>1. k \in Keys /\ k[2] = t.req.id
      BY <1>1, KeyType DEF Key
    <2>2. new \in Composite
      BY <1>1, <1>3, NewCompositeType
    <2>3. TypeOK'
      <3>1. composites' \in [Keys -> Composite \cup {Absent}]
        BY <1>3, <2>1, <2>2 DEF Inv, TypeOK
      <3>2. task' \in [Workers -> Task]
        BY <1>3, IdleOK DEF Inv, TypeOK
      <3>3. late' \in [Workers -> SUBSET InstanceIDs] /\ known' \subseteq InstanceIDs
            /\ moved' \subseteq InstanceIDs
        BY <1>1, <1>3, <2>1 DEF Inv, TypeOK
      <3> QED
        BY <1>1, <1>3, <3>1, <3>2, <3>3 DEF Inv, TypeOK, Codes
    <2>4. \A v \in Workers : TaskOK(task[v])'
      BY <1>3, IdleOK DEF Inv, TypeOK
    <2>5. FreshOK'
      <3> SUFFICES ASSUME NEW v \in fresh
                   PROVE  /\ task'[v].inst # Absent
                          /\ composites'[Key(task'[v].plan, task'[v].req.id)] = task'[v].inst
        BY <1>3 DEF FreshOK, Key
      <3>1. v # w /\ v \in Workers
        BY <1>1 DEF Inv, TypeOK, FreshOK
      <3>2. task'[v] = task[v]
        BY <1>3, <3>1 DEF Inv, TypeOK
      <3>3. Key(task[v].plan, task[v].req.id) # k
        BY <1>3 DEF Inv, FreshOK
      <3> QED
        BY <1>3, <2>1, <3>2, <3>3 DEF Inv, TypeOK, FreshOK
    <2> QED
      BY <2>3, <2>4, <2>5 DEF Inv
  <1> QED
    BY <1>2, <1>3 DEF CreateInstance

\* Found: the four handlers behind getPlanInstance.
LEMMA FoundInv ==
  ASSUME Inv, NEW w \in Workers, NEW p \in Plans, task[w].pc \in {"get", "find"},
         Matches(composites[Key(p, task[w].req.id)], p),
         Found(w, p, composites[Key(p, task[w].req.id)])
  PROVE  Inv'
  <1> DEFINE t == task[w]
  <1> DEFINE o == composites[Key(p, t.req.id)]
  <1>1. t.req \in Requests /\ t.req.id \in InstanceIDs /\ t.inst = Absent
    BY BusyOK DEF TaskOK
  <1>2. o \in Composite /\ o # Absent /\ o.PlanName = Labels[p].PlanName
    BY <1>1, KeyType DEF Inv, TypeOK, Matches
  <1>3. w \notin fresh
    BY <1>1 DEF Inv, FreshOK
  <1>4. CASE \E code \in Codes : Reply(w, code, p)
    BY <1>4, ReplyInv
  <1>5. CASE t.req.op = "Update" /\ UpdateFound(w, p, o)
    <2>1. CASE /\ PlanFound(t.req.newPlan) /\ AllowUpdate(p, t.req.newPlan)
               /\ ValidateParams(w, o.ServiceName, "update", p, o)
      BY <1>1, <1>2, <1>5, <2>1, ValidateParamsInv
    <2> QED
      BY <1>4, <1>5, <2>1 DEF UpdateFound, Codes
  <1>6. CASE t.req.op = "Deprovision" /\ DeprovisionFound(w, p, o)
    <2>1. PICK pc \in {"list", "delete"} : Continue(w, pc, p, Absent) /\ UNCHANGED <<composites, fresh>>
      BY <1>6 DEF DeprovisionFound
    <2>2. TaskOK([task[w] EXCEPT !.pc = pc, !.plan = p, !.next = 0, !.inst = Absent])
      BY <1>1, <1>6 DEF TaskOK, Inv, TypeOK, Task
    <2>3. pc \in {"validate", "create", "update", "list", "delete"}
      OBVIOUS
    <2> QED
      BY <1>3, <2>1, <2>2, <2>3, ContinueInv
  <1> QED
    BY <1>4, <1>5, <1>6 DEF Found, GetInstanceFound, LastOperationFound, Codes

\* The look-up by plan ID keeps it: the copy taken is the stored object.
LEMMA GetPlanInstanceInv ==
  ASSUME Inv, NEW w \in Workers, GetPlanInstance(w)
  PROVE  Inv'
  <1>1. task[w].pc = "get" /\ task[w].plan \in Plans
    BY BusyOK DEF GetPlanInstance, TaskOK
  <1>2. CASE Refuse(w, "gone") \/ Refuse(w, "error")
    BY <1>2, RefuseInv DEF Codes
  <1> QED
    BY <1>1, <1>2, FoundInv DEF GetPlanInstance

\* The search over the plans keeps it: its index stays in the list.
LEMMA FindInstanceWithoutPlanInv ==
  ASSUME Inv, NEW w \in Workers, FindInstanceWithoutPlan(w)
  PROVE  Inv'
  <1> DEFINE t == task[w]
  <1> DEFINE p == PlanList[t.next]
  <1>1. /\ t.pc = "find" /\ t \in Task /\ TaskOK(t) /\ t.next \in 1..(Len(PlanList) + 1)
        /\ t.inst = Absent
    BY BusyOK DEF FindInstanceWithoutPlan, TaskOK
  <1>2. Len(PlanList) \in Nat
    BY CatalogAssumption
  <1>3. CASE Refuse(w, "notFound")
    BY <1>3, RefuseInv DEF Codes
  <1>4. CASE ~SearchEnds(t) /\ Matches(composites[Key(p, t.req.id)], p)
             /\ Found(w, p, composites[Key(p, t.req.id)])
    <2>1. p \in Plans
      BY <1>1, <1>2, <1>4, CatalogAssumption DEF SearchEnds
    <2> QED
      BY <1>1, <1>4, <2>1, FoundInv
  <1>5. CASE /\ ~SearchEnds(t) /\ task' = [task EXCEPT ![w] = SearchOn(t)] /\ resp' = NoResp
             /\ UNCHANGED <<composites, fresh, late, steady, known, moved>>
    <2>1. SearchOn(t) \in Task /\ TaskOK(SearchOn(t))
      <3>1. t.next + 1 \in 1..(Len(PlanList) + 1)
        BY <1>1, <1>2, <1>5 DEF SearchEnds
      <3>2. SearchOn(t) \in Task
        BY <1>1, <1>2, <3>1 DEF SearchOn, Task
      <3>3. TaskOK(SearchOn(t))
        BY <1>1, <3>1 DEF SearchOn, Task, TaskOK
      <3> QED
        BY <3>2, <3>3
    <2>2. TypeOK'
      BY <1>5, <2>1 DEF Inv, TypeOK, NoResp, Codes
    <2>3. \A v \in Workers : TaskOK(task[v])'
      BY <1>5, <2>1 DEF Inv, TypeOK
    <2>4. FreshOK'
      BY <1>1, <1>5 DEF Inv, TypeOK, FreshOK, Key
    <2> QED
      BY <2>2, <2>3, <2>4 DEF Inv
  <1> QED
    BY <1>3, <1>4, <1>5 DEF FindInstanceWithoutPlan

\* A write of the object at k that makes every reader of it stale keeps FreshOK.
LEMMA WriteFreshOK ==
  ASSUME Inv, NEW k, NEW o,
         composites' = [composites EXCEPT ![k] = o],
         fresh' \subseteq fresh, o = composites[k] \/ fresh' \cap Readers(k) = {},
         \A v \in fresh' : task'[v] = task[v]
  PROVE  FreshOK'
  <1> SUFFICES ASSUME NEW v \in fresh'
               PROVE  /\ task'[v].inst # Absent
                      /\ composites'[Key(task'[v].plan, task'[v].req.id)] = task'[v].inst
    BY DEF FreshOK, Key
  <1>1. /\ task'[v] = task[v] /\ v \in Workers /\ task[v].inst # Absent
        /\ composites[Key(task[v].plan, task[v].req.id)] = task[v].inst
    BY DEF Inv, TypeOK, FreshOK
  <1>2. CASE o = composites[k]
    BY <1>1, <1>2 DEF Inv, TypeOK
  <1>3. CASE fresh' \cap Readers(k) = {}
    <2>1. Key(task[v].plan, task[v].req.id) # k
      BY <1>1, <1>3 DEF Readers
    <2> QED
      BY <1>1, <2>1 DEF Inv, TypeOK
  <1> QED
    BY <1>2, <1>3

\* The object Update sends.
LEMMA UpdatedCompositeType ==
  ASSUME NEW o \in Composite, NEW np \in Plans, NEW r \in Request
  PROVE  UpdatedComposite(o, np, r) \in Composite
  <1>1. Validated(o.ServiceName, r) \in ParamMap
    BY ValidatedType
  <1>2. Labels[np].PlanName \in PlanNames /\ Labels[np].SLA \in SLAs
    BY DEF PlanNames, SLAs
  <1> QED
    BY <1>1, <1>2 DEF UpdatedComposite, Composite

\* Update keeps it: the write makes the copies of other readers stale.
LEMMA UpdateInstanceInv ==
  ASSUME Inv, NEW w \in Workers, UpdateInstance(w)
  PROVE  Inv'
  <1> DEFINE t == task[w]
  <1> DEFINE k == Key(t.req.newPlan, t.req.id)
  <1> DEFINE o == UpdatedComposite(t.inst, t.req.newPlan, t.req)
  <1>1. /\ t.pc = "update" /\ t \in Task /\ t.req \in Requests /\ t.req \in Request
        /\ t.req.id \in InstanceIDs /\ t.plan \in Plans /\ t.inst \in Composite
        /\ t.req.newPlan \in Plans
    BY BusyOK DEF UpdateInstance, TaskOK, PlanFound, Task
  <1>2. CASE Refuse(w, "error")
    BY <1>2, RefuseInv DEF Codes
  <1>3. CASE /\ WriteAccepted(w, k)
             /\ composites' = [composites EXCEPT ![k] = o]
             /\ fresh' = IF o = composites[k] THEN fresh \ {w} ELSE fresh \ Readers(k)
             /\ Answer(w, "ok", t.req.newPlan)
             /\ moved' = IF k[1] = DatabaseKind /\ o.params.parent # composites[k].params.parent
                           THEN moved \cup {k[2]} ELSE moved
             /\ UNCHANGED known
    <2>1. k \in Keys /\ o \in Composite
      BY <1>1, KeyType, UpdatedCompositeType
    <2>2. TypeOK'
      <3>1. moved' \subseteq InstanceIDs
        <4>1. k[2] \in InstanceIDs
          BY <1>1 DEF Key
        <4> HIDE DEF k, o
        <4> QED
          BY <1>3, <4>1 DEF Inv, TypeOK
      <3> QED
        BY <1>1, <1>3, <2>1, <3>1, IdleOK DEF Inv, TypeOK, Answer, Codes
    <2>3. \A v \in Workers : TaskOK(task[v])'
      BY <1>3, IdleOK DEF Inv, TypeOK, Answer
    <2>4. FreshOK'
      <3>1. w \in Readers(k)
        BY <1>1, <1>3, AbsentAssumption DEF WriteAccepted, Readers
      <3>2. \A v \in fresh' : v # w /\ v \in Workers /\ task'[v] = task[v]
        BY <1>3, <3>1 DEF Inv, TypeOK, Answer
      <3>3. fresh' \subseteq fresh /\ (o = composites[k] \/ fresh' \cap Readers(k) = {})
        BY <1>3
      <3> QED
        BY <1>3, <3>2, <3>3, WriteFreshOK
    <2> QED
      BY <2>2, <2>3, <2>4 DEF Inv
  <1> QED
    BY <1>2, <1>3 DEF UpdateInstance

\* The check of Deprovision keeps it: the worker takes no copy along.
LEMMA DeprovisionableInv ==
  ASSUME Inv, NEW w \in Workers, Deprovisionable(w)
  PROVE  Inv'
  <1> DEFINE t == task[w]
  <1>1. t.pc = "list" /\ t.plan \in Plans /\ t \in Task /\ TaskOK(t) /\ t.inst = Absent
    BY BusyOK DEF Deprovisionable, TaskOK
  <1>2. CASE Refuse(w, "inUse")
    BY <1>2, RefuseInv DEF Codes
  <1>3. CASE Continue(w, "delete", t.plan, Absent) /\ UNCHANGED <<composites, fresh>>
    <2>1. TaskOK([task[w] EXCEPT !.pc = "delete", !.plan = t.plan, !.next = 0, !.inst = Absent])
      BY <1>1 DEF TaskOK, Task
    <2>2. w \notin fresh
      BY <1>1 DEF Inv, FreshOK
    <2> QED
      BY <1>1, <1>3, <2>1, <2>2, ContinueInv
  <1> QED
    BY <1>2, <1>3 DEF Deprovisionable

\* DeleteInstance keeps it: an object that only gets a deletion timestamp again
\* is unchanged, otherwise the copies of its readers are stale.
LEMMA DeleteInstanceInv ==
  ASSUME Inv, NEW w \in Workers, DeleteInstance(w)
  PROVE  Inv'
  <1> DEFINE t == task[w]
  <1> DEFINE k == Key(t.plan, t.req.id)
  <1> DEFINE o == composites[k]
  <1>1. /\ t.pc = "delete" /\ t.plan \in Plans /\ t.req \in Requests /\ t.req.id \in InstanceIDs
        /\ t.inst = Absent
    BY BusyOK DEF DeleteInstance, TaskOK
  <1>2. CASE Refuse(w, "error")
    BY <1>2, RefuseInv DEF Codes
  <1>3. CASE /\ o # Absent
             /\ composites' = [composites EXCEPT ![k] = Deleted(o)]
             /\ fresh' = IF Deleted(o) = o THEN fresh ELSE fresh \ Readers(k)
             /\ task' = [task EXCEPT ![w] = Idle]
             /\ resp' = [code |-> "ok", req |-> t.req, plan |-> t.plan]
             /\ late' = [late EXCEPT ![w] = {}]
             /\ steady' = IF Deleted(o) = Absent THEN {v \in steady : task[v].req.id # k[2]} ELSE steady
             /\ UNCHANGED <<known, moved>>
    <2>1. k \in Keys
      BY <1>1, KeyType
    <2>2. Deleted(o) \in Composite \cup {Absent}
      <3>1. o \in Composite
        BY <1>3, <2>1 DEF Inv, TypeOK
      <3>2. [o EXCEPT !.deleting = TRUE] \in Composite
        BY <3>1 DEF Composite
      <3> QED
        BY <3>2 DEF Deleted
    <2>3. TypeOK'
      BY <1>1, <1>3, <2>1, <2>2, IdleOK DEF Inv, TypeOK, Codes
    <2>4. \A v \in Workers : TaskOK(task[v])'
      BY <1>3, IdleOK DEF Inv, TypeOK
    <2>5. FreshOK'
      <3>1. \A v \in fresh' : task'[v] = task[v]
        BY <1>1, <1>3 DEF Inv, TypeOK, FreshOK
      <3> QED
        BY <1>3, <3>1, WriteFreshOK
    <2> QED
      BY <2>3, <2>4, <2>5 DEF Inv
  <1> QED
    BY <1>2, <1>3 DEF DeleteInstance

\* A new request keeps it: it starts without a copy of an object.
LEMMA ReceiveInv ==
  ASSUME Inv, NEW w \in Workers, NEW r \in Requests, Receive(w, r)
  PROVE  Inv'
  <1> DEFINE get == [pc |-> "get", req |-> r, plan |-> r.plan, next |-> 0, inst |-> Absent]
  <1> DEFINE find == [pc |-> "find", req |-> r, plan |-> NoPlan, next |-> 1, inst |-> Absent]
  <1>1. Len(PlanList) \in Nat /\ r \in Request
    BY CatalogAssumption, InstancesAssumption
  <1>2. /\ \/ task' = task
           \/ PlanFound(r.plan) /\ task' = [task EXCEPT ![w] = get]
           \/ r.op # "Provision" /\ task' = [task EXCEPT ![w] = find]
        /\ \/ resp' = NoResp
           \/ \E code \in Codes : resp' = [code |-> code, req |-> r, plan |-> NoPlan]
        /\ steady' \subseteq steady \cup {w}
        /\ UNCHANGED <<composites, fresh, late, known, moved>>
        /\ task[w] = Idle
    BY DEF Receive, Idle, Codes
  <1>3. PlanFound(r.plan) => get \in Task /\ TaskOK(get)
    BY <1>1 DEF Task, TaskOK, PlanFound
  <1>4. find \in Task /\ (r.op # "Provision" => TaskOK(find))
    BY <1>1 DEF Task, TaskOK
  <1>5. TypeOK'
    <2>1. task' \in [Workers -> Task]
      BY <1>2, <1>3, <1>4 DEF Inv, TypeOK
    <2>2. resp' \in [code : Codes, req : Requests \cup {NoRequest}, plan : Plans \cup {NoPlan}]
      BY <1>2 DEF NoResp, Codes
    <2> QED
      BY <1>2, <2>1, <2>2 DEF Inv, TypeOK
  <1>6. \A v \in Workers : TaskOK(task[v])'
    BY <1>2, <1>3, <1>4 DEF Inv, TypeOK
  <1>7. FreshOK'
    <2>1. w \notin fresh
      BY <1>2, IdleOK DEF Inv, FreshOK
    <2>2. \A v \in fresh : task'[v] = task[v]
      BY <1>2, <2>1 DEF Inv, TypeOK
    <2> QED
      BY <1>2, <2>2 DEF Inv, FreshOK, Key
  <1> QED
    BY <1>5, <1>6, <1>7 DEF Inv

\* The controllers keep it: every change they make is a new version.
LEMMA ControllersInv ==
  ASSUME Inv, NEW k \in Keys,
         Finalize(k) \/ \E reason \in Reasons : Reconcile(k, reason)
  PROVE  Inv'
  <1>1. PICK o : /\ composites' = [composites EXCEPT ![k] = o]
                 /\ o \in Composite \cup {Absent}
                 /\ steady' \subseteq steady
    <2>1. CASE Finalize(k)
      BY <2>1 DEF Finalize
    <2>2. CASE \E reason \in Reasons : Reconcile(k, reason)
      <3>1. PICK reason \in Reasons : Reconcile(k, reason)
        BY <2>2
      <3>2. composites[k] \in Composite
        BY <3>1 DEF Inv, TypeOK, Reconcile
      <3>3. [composites[k] EXCEPT !.reason = reason] \in Composite
        BY <3>2 DEF Composite
      <3> QED
        BY <3>1, <3>3 DEF Reconcile
    <2> QED
      BY <2>1, <2>2
  <1>2. /\ fresh' = fresh \ Readers(k) /\ resp' = NoResp /\ UNCHANGED <<task, late, known, moved>>
    BY DEF Finalize, Reconcile
  <1>3. TypeOK'
    BY <1>1, <1>2 DEF Inv, TypeOK, NoResp, Codes
  <1>4. \A v \in Workers : TaskOK(task[v])'
    BY <1>2 DEF Inv
  <1>5. FreshOK'
    BY <1>1, <1>2, WriteFreshOK
  <1> QED
    BY <1>3, <1>4, <1>5 DEF Inv
-----------------------------------------------------------------------------
\* The invariant holds in an empty cluster.
LEMMA InitInv == Init => Inv
  BY IdleOK DEF Init, Inv, TypeOK, FreshOK, NoResp, Codes

\* Every step keeps the invariant.
LEMMA NextInv == Inv /\ [Next]_vars => Inv'
  <1> SUFFICES ASSUME Inv, [Next]_vars PROVE Inv'
    OBVIOUS
  <1>1. CASE \E w \in Workers : Step(w)
    BY <1>1, ProvisionGetInv, ValidateProvisionParamsInv, CreateInstanceInv, GetPlanInstanceInv,
       FindInstanceWithoutPlanInv, UpdateInstanceInv, DeprovisionableInv, DeleteInstanceInv
       DEF Step
  <1>2. CASE \E w \in Workers : Abort(w)
    BY <1>2, RefuseInv DEF Abort, Codes
  <1>3. CASE \E w \in Workers, r \in Requests : Receive(w, r)
    BY <1>3, ReceiveInv
  <1>4. CASE \E k \in Keys : Finalize(k) \/ \E reason \in Reasons : Reconcile(k, reason)
    BY <1>4, ControllersInv
  <1>5. CASE UNCHANGED vars
    BY <1>5 DEF vars, Inv, TypeOK, FreshOK, Key
  <1> QED
    BY <1>1, <1>2, <1>3, <1>4, <1>5 DEF Next

\* Every reachable state is well typed and satisfies the invariant.
THEOREM InvHolds == Spec => []Inv
  BY InitInv, NextInv, PTL DEF Spec

\* Every reachable state is well typed: no stored object, no task and no
\* response has a shape the handlers do not expect, the type assertion on the
\* parent reference included.
THEOREM TypeCorrect == Spec => []TypeOK
  <1>1. Inv => TypeOK
    BY DEF Inv
  <1> QED
    BY <1>1, InvHolds, PTL
-----------------------------------------------------------------------------
(***************************************************************************)
(* Plans.  In an unambiguous catalogue the plan a handler has found is the *)
(* plan of the instance it has read, so AllowUpdate has judged the change  *)
(* that UpdateInstance makes.                                              *)
(***************************************************************************)

\* What UpdateInstance does to a stored object, when it is accepted.
LEMMA UpdateKnowsPlan ==
  ASSUME UniquePlanNames, Inv, LabelsMatchPlan, NEW w \in Workers,
         task[w].pc = "update", WriteAccepted(w, Key(task[w].req.newPlan, task[w].req.id))
  PROVE  /\ task[w].req.newPlan \in Plans /\ task[w].req \in Request
         /\ Key(task[w].req.newPlan, task[w].req.id) \in Keys
         /\ task[w].inst = composites[Key(task[w].req.newPlan, task[w].req.id)]
         /\ task[w].inst \in Composite
         /\ task[w].inst.plan = task[w].plan
         /\ AllowUpdate(task[w].inst.plan, task[w].req.newPlan)
         /\ GVK(task[w].req.newPlan) = GVK(task[w].plan)
  <1> DEFINE t == task[w]
  <1> DEFINE k == Key(t.req.newPlan, t.req.id)
  <1>1. /\ t \in Task /\ TaskOK(t) /\ t.inst # Absent /\ t.inst \in Composite /\ t.plan \in Plans
        /\ t.req \in Request /\ t.req.id \in InstanceIDs /\ t.req.newPlan \in Plans
    BY BusyOK DEF TaskOK, Task, PlanFound
  <1>2. k = Key(t.plan, t.req.id) /\ k \in Keys /\ composites[k] = t.inst
    BY <1>1, KeyType DEF WriteAccepted, Inv, FreshOK
  <1>3. k[1] = GVK(t.plan) /\ GVK(t.plan) = GVK(t.req.newPlan)
    BY <1>2 DEF Key
  <1>4. t.inst.plan \in Plans
    BY <1>1 DEF Composite
  <1>5. /\ Labels[t.inst.plan].Kind = k[1]
        /\ t.inst.PlanName = Labels[t.inst.plan].PlanName
    BY <1>1, <1>2 DEF LabelsMatchPlan
  <1>6. t.inst.PlanName = Labels[t.plan].PlanName /\ AllowUpdate(t.plan, t.req.newPlan)
    BY <1>1 DEF TaskOK
  <1>7. t.inst.plan = t.plan
    BY <1>1, <1>3, <1>4, <1>5, <1>6 DEF UniquePlanNames, GVK
  <1> QED
    BY <1>1, <1>2, <1>3, <1>6, <1>7

\* How a step can change a stored object: it is created, updated, marked as
\* deleted or given another condition, removed, or left as it is.
LEMMA StepOnComposite ==
  ASSUME Inv, [Next]_vars, NEW k \in Keys
  PROVE  \/ composites'[k] = composites[k]
         \/ composites'[k] = Absent
         \/ /\ composites[k] # Absent
            /\ \/ composites'[k] = [composites[k] EXCEPT !.deleting = TRUE]
               \/ \E reason \in Reasons : composites'[k] = [composites[k] EXCEPT !.reason = reason]
         \/ /\ composites[k] = Absent
            /\ \E w \in Workers :
                 /\ task[w].pc = "create" /\ k = Key(task[w].plan, task[w].req.id)
                 /\ task[w].plan \in Plans
                 /\ composites'[k] = NewComposite(task[w].plan, task[w].req)
         \/ \E w \in Workers :
              /\ task[w].pc = "update" /\ k = Key(task[w].req.newPlan, task[w].req.id)
              /\ WriteAccepted(w, k)
              /\ composites'[k] = UpdatedComposite(task[w].inst, task[w].req.newPlan, task[w].req)
  <1> USE DEF Inv, TypeOK
  <1> DEFINE Same == composites' = composites
  <1>1. CASE \E w \in Workers : CreateInstance(w)
    <2>1. PICK w \in Workers : CreateInstance(w)
      BY <1>1
    <2>2. task[w].plan \in Plans
      BY <2>1, BusyOK DEF CreateInstance, TaskOK
    <2> QED
      BY <2>1, <2>2 DEF CreateInstance, Refuse, Reply
  <1>2. CASE \E w \in Workers : UpdateInstance(w)
    BY <1>2 DEF UpdateInstance, Refuse, Reply
  <1>3. CASE \E w \in Workers : DeleteInstance(w)
    <2>1. PICK w \in Workers : DeleteInstance(w)
      BY <1>3
    <2> DEFINE l == Key(task[w].plan, task[w].req.id)
    <2>2. CASE Refuse(w, "error")
      BY <2>2 DEF Refuse, Reply
    <2>3. CASE composites[l] # Absent /\ composites' = [composites EXCEPT ![l] = Deleted(composites[l])]
      <3>1. Deleted(composites[l]) \in {Absent, [composites[l] EXCEPT !.deleting = TRUE]}
        BY DEF Deleted
      <3> HIDE DEF l
      <3> QED
        BY <2>3, <3>1
    <2> QED
      BY <2>1, <2>2, <2>3 DEF DeleteInstance
  <1>4. CASE \E l \in Keys : Finalize(l)
    BY <1>4 DEF Finalize
  <1>5. CASE \E l \in Keys, reason \in Reasons : Reconcile(l, reason)
    BY <1>5 DEF Reconcile
  <1>6. CASE \E w \in Workers : \/ ProvisionGet(w) \/ ValidateProvisionParams(w)
                                \/ GetPlanInstance(w) \/ FindInstanceWithoutPlan(w)
                                \/ Deprovisionable(w) \/ Abort(w)
    <2>1. PICK w \in Workers : \/ ProvisionGet(w) \/ ValidateProvisionParams(w)
                               \/ GetPlanInstance(w) \/ FindInstanceWithoutPlan(w)
                               \/ Deprovisionable(w) \/ Abort(w)
      BY <1>6
    <2>2. ASSUME NEW code, NEW p, Reply(w, code, p) PROVE Same
      BY <2>2 DEF Reply
    <2>3. ASSUME NEW name, NEW pc, NEW p, NEW o, ValidateParams(w, name, pc, p, o) PROVE Same
      BY <2>2, <2>3 DEF ValidateParams, Refuse
    <2>4. ASSUME NEW p, NEW o, Found(w, p, o) PROVE Same
      BY <2>2, <2>3, <2>4
         DEF Found, UpdateFound, DeprovisionFound, GetInstanceFound, LastOperationFound
    <2>5. CASE ProvisionGet(w) \/ ValidateProvisionParams(w)
      BY <2>2, <2>3, <2>5 DEF ProvisionGet, ValidateProvisionParams, Refuse
    <2>6. CASE GetPlanInstance(w) \/ FindInstanceWithoutPlan(w)
      BY <2>2, <2>4, <2>6 DEF GetPlanInstance, FindInstanceWithoutPlan, Refuse
    <2>7. CASE Deprovisionable(w) \/ Abort(w)
      BY <2>2, <2>7 DEF Deprovisionable, Abort, Refuse
    <2> QED
      BY <2>1, <2>5, <2>6, <2>7
  <1>7. CASE (\E w \in Workers, r \in Requests : Receive(w, r)) \/ UNCHANGED vars
    BY <1>7 DEF Receive, vars
  <1> QED
    BY <1>1, <1>2, <1>3, <1>4, <1>5, <1>6, <1>7 DEF Next, Step

\* Every step keeps labels and Composition in agreement, given the invariant.
LEMMA NextLabels ==
  ASSUME UniquePlanNames, OneNamePerService, Inv, LabelsMatchPlan, [Next]_vars
  PROVE  LabelsMatchPlan'
  <1> DEFINE Matching(k, o) ==
        /\ Labels[o.plan].Kind = k[1]
        /\ o.PlanName = Labels[o.plan].PlanName /\ o.SLA = Labels[o.plan].SLA
        /\ o.ServiceID = Labels[o.plan].ServiceID /\ o.ServiceName = Labels[o.plan].ServiceName
  <1> SUFFICES ASSUME NEW k \in Keys, composites'[k] # Absent
               PROVE  Matching(k, composites'[k])
    BY DEF LabelsMatchPlan
  <1>1. composites[k] # Absent => composites[k] \in Composite /\ Matching(k, composites[k])
    BY DEF LabelsMatchPlan, Inv, TypeOK
  <1>2. CASE composites'[k] = composites[k]
    BY <1>1, <1>2
  <1>3. CASE /\ composites[k] # Absent
             /\ \/ composites'[k] = [composites[k] EXCEPT !.deleting = TRUE]
                \/ \E reason \in Reasons : composites'[k] = [composites[k] EXCEPT !.reason = reason]
    BY <1>1, <1>3 DEF Composite
  <1>4. CASE \E w \in Workers :
               /\ task[w].pc = "create" /\ k = Key(task[w].plan, task[w].req.id)
               /\ composites'[k] = NewComposite(task[w].plan, task[w].req)
    BY <1>4 DEF NewComposite, Key, GVK
  <1>5. CASE \E w \in Workers :
               /\ task[w].pc = "update" /\ k = Key(task[w].req.newPlan, task[w].req.id)
               /\ WriteAccepted(w, k)
               /\ composites'[k] = UpdatedComposite(task[w].inst, task[w].req.newPlan, task[w].req)
    <2>1. PICK w \in Workers :
               /\ task[w].pc = "update" /\ k = Key(task[w].req.newPlan, task[w].req.id)
               /\ WriteAccepted(w, k)
               /\ composites'[k] = UpdatedComposite(task[w].inst, task[w].req.newPlan, task[w].req)
      BY <1>5
    <2> DEFINE old == composites[k]
    <2> DEFINE np == task[w].req.newPlan
    <2>2. /\ old = task[w].inst /\ old \in Composite /\ np \in Plans /\ old.plan \in Plans
          /\ AllowUpdate(old.plan, np)
      BY <2>1, UpdateKnowsPlan DEF Composite
    <2>3. Matching(k, old)
      BY <1>1, <2>2, AbsentAssumption
    <2>4. Labels[np].ServiceID = old.ServiceID
      BY <2>2, <2>3 DEF AllowUpdate
    <2>5. Labels[np].ServiceName = old.ServiceName
      BY <2>2, <2>3, <2>4 DEF OneNamePerService
    <2>6. Labels[np].Kind = k[1]
      BY <2>1 DEF Key, GVK
    <2> QED
      BY <2>1, <2>2, <2>4, <2>5, <2>6 DEF UpdatedComposite, Composite
  <1> QED
    BY <1>2, <1>3, <1>4, <1>5, StepOnComposite

\* In a catalogue where kind and plan name determine the plan, and a service
\* has one name, labels and Composition of an instance agree for ever.
THEOREM LabelsAlwaysMatch ==
  ASSUME UniquePlanNames, OneNamePerService
  PROVE  Spec => []LabelsMatchPlan
  <1>1. Init => LabelsMatchPlan
    BY DEF Init, LabelsMatchPlan
  <1>2. Inv /\ LabelsMatchPlan /\ [Next]_vars => LabelsMatchPlan'
    BY NextLabels
  <1> QED
    BY <1>1, <1>2, InvHolds, PTL DEF Spec

\* A step that changes the plan of an instance is permitted by AllowUpdate.
LEMMA StepPermits ==
  ASSUME UniquePlanNames, Inv, LabelsMatchPlan, [Next]_vars, NEW k \in Keys,
         composites[k] # Absent, composites'[k] # Absent,
         composites[k].plan # composites'[k].plan
  PROVE  AllowUpdate(composites[k].plan, composites'[k].plan)
  <1>1. composites[k] \in Composite
    BY DEF Inv, TypeOK
  <1>2. PICK w \in Workers :
             /\ task[w].pc = "update" /\ k = Key(task[w].req.newPlan, task[w].req.id)
             /\ WriteAccepted(w, k)
             /\ composites'[k] = UpdatedComposite(task[w].inst, task[w].req.newPlan, task[w].req)
    BY <1>1, StepOnComposite DEF Composite
  <1>3. /\ composites[k] = task[w].inst
        /\ AllowUpdate(composites[k].plan, task[w].req.newPlan)
    BY <1>2, UpdateKnowsPlan
  <1>4. composites'[k].plan = task[w].req.newPlan
    BY <1>1, <1>2, <1>3 DEF UpdatedComposite, Composite
  <1> QED
    BY <1>3, <1>4

\* In such a catalogue every change of an instance's plan is one AllowUpdate
\* permits, however updates, deletions and controllers interleave.
THEOREM PlanChangesArePermitted ==
  ASSUME UniquePlanNames, OneNamePerService
  PROVE  Spec => PlanChangesPermitted
  <1> DEFINE Permitted ==
        \A k \in Keys :
          (/\ composites[k] # Absent /\ composites'[k] # Absent
           /\ composites[k].plan # composites'[k].plan)
            => AllowUpdate(composites[k].plan, composites'[k].plan)
  <1>1. Inv /\ LabelsMatchPlan /\ [Next]_vars => [Permitted]_vars
    BY StepPermits
  <1>2. Spec => [][Permitted]_vars
    BY <1>1, InvHolds, LabelsAlwaysMatch, PTL DEF Spec
  <1> QED
    BY <1>2 DEF PlanChangesPermitted
-----------------------------------------------------------------------------
(***************************************************************************)
(* Searches.  An instance that may only move forward in the list of plans  *)
(* stays ahead of the search that has not come to it.                      *)
(***************************************************************************)

\* The instance that a search by w is after is still ahead of it.
Ahead(w) ==
  \E k \in Keys :
    /\ k[2] = task[w].req.id /\ composites[k] # Absent
    /\ \E i \in task[w].next..Len(PlanList) : PlanList[i] = composites[k].plan

SearchInv == \A w \in steady : task[w].pc = "find" /\ Ahead(w)

\* What a step can do to a worker that it leaves searching: nothing, and then
\* it removes no object with the ID; the next iteration; or it starts the search.
SearchStep(v) ==
  \/ /\ v \in steady /\ task'[v] = task[v]
     /\ \A k \in Keys : (k[2] = task[v].req.id /\ composites[k] # Absent) => composites'[k] # Absent
  \/ /\ v \in steady /\ task'[v] = SearchOn(task[v]) /\ composites' = composites
     /\ ~SearchEnds(task[v])
     /\ ~Matches(composites[Key(PlanList[task[v].next], task[v].req.id)], PlanList[task[v].next])
  \/ /\ task'[v].pc = "find" /\ task'[v].next = 1 /\ Exists(task'[v].req.id) /\ composites' = composites

LEMMA ReplySearch ==
  ASSUME Inv, SearchInv, NEW w \in Workers, NEW v \in steady',
         \/ \E code, p : Reply(w, code, p)
         \/ UNCHANGED composites /\ \E pc, p, o : Continue(w, pc, p, o)
  PROVE  SearchStep(v)
  BY DEF SearchStep, Reply, Answer, Continue, Inv, TypeOK

LEMMA FoundSearch ==
  ASSUME Inv, SearchInv, NEW w \in Workers, NEW v \in steady',
         \/ \E name, pc, p, o : ValidateParams(w, name, pc, p, o)
         \/ \E p, o : Found(w, p, o)
  PROVE  SearchStep(v)
  <1>1. ASSUME NEW name, NEW pc, NEW p, NEW o, ValidateParams(w, name, pc, p, o) PROVE SearchStep(v)
    BY <1>1, ReplySearch DEF ValidateParams, Refuse
  <1>2. ASSUME NEW p, NEW o, Found(w, p, o) PROVE SearchStep(v)
    BY <1>1, <1>2, ReplySearch
       DEF Found, UpdateFound, DeprovisionFound, GetInstanceFound, LastOperationFound
  <1> QED BY <1>1, <1>2

LEMMA StepOnSearch ==
  ASSUME Inv, SearchInv, [Next]_vars, NEW v \in steady'
  PROVE  SearchStep(v)
  <1> USE DEF Inv, TypeOK
  <1>1. ASSUME NEW w \in Workers, \E code, p : Reply(w, code, p) PROVE SearchStep(v)
    BY <1>1, ReplySearch
  <1>2. ASSUME NEW w \in Workers, ProvisionGet(w) PROVE SearchStep(v)
    BY <1>1, <1>2, FoundSearch DEF ProvisionGet, Refuse
  <1>3. ASSUME NEW w \in Workers, ValidateProvisionParams(w) \/ Deprovisionable(w) \/ Abort(w) PROVE SearchStep(v)
    BY <1>1, <1>3, ReplySearch DEF ValidateProvisionParams, Deprovisionable, Abort, Refuse
  <1>4. ASSUME NEW w \in Workers, GetPlanInstance(w) PROVE SearchStep(v)
    BY <1>1, <1>4, FoundSearch DEF GetPlanInstance, Refuse
  <1>5. ASSUME NEW w \in Workers, FindInstanceWithoutPlan(w) PROVE SearchStep(v)
    <2>1. CASE /\ ~SearchEnds(task[w])
               /\ ~Matches(composites[Key(PlanList[task[w].next], task[w].req.id)], PlanList[task[w].next])
               /\ task' = [task EXCEPT ![w] = SearchOn(task[w])]
               /\ UNCHANGED <<composites, fresh, late, steady, known, moved>>
      <3>1. CASE v = w
        BY <2>1, <3>1 DEF SearchStep
      <3>2. CASE v # w
        BY <2>1, <3>2 DEF SearchStep
      <3> QED BY <3>1, <3>2
    <2> QED BY <1>1, <1>5, <2>1, FoundSearch DEF FindInstanceWithoutPlan, Refuse
  <1>6. ASSUME NEW w \in Workers, CreateInstance(w) PROVE SearchStep(v)
    <2>1. CASE \E code : Refuse(w, code)
      BY <1>1, <2>1 DEF Refuse
    <2>2. CASE /\ task' = [task EXCEPT ![w] = Idle] /\ steady' = steady
               /\ composites[Key(task[w].plan, task[w].req.id)] = Absent
               /\ composites' = [composites EXCEPT ![Key(task[w].plan, task[w].req.id)] =
                                   NewComposite(task[w].plan, task[w].req)]
      <3>1. v # w
        BY <1>6, <2>2 DEF CreateInstance, SearchInv
      <3> QED BY <2>2, <3>1 DEF SearchStep
    <2> QED BY <1>6, <2>1, <2>2 DEF CreateInstance
  <1>7. ASSUME NEW w \in Workers, UpdateInstance(w) PROVE SearchStep(v)
    <2>1. CASE \E code : Refuse(w, code)
      BY <1>1, <2>1 DEF Refuse
    <2>2. CASE /\ WriteAccepted(w, Key(task[w].req.newPlan, task[w].req.id))
               /\ composites' = [composites EXCEPT ![Key(task[w].req.newPlan, task[w].req.id)] =
                                   UpdatedComposite(task[w].inst, task[w].req.newPlan, task[w].req)]
               /\ Answer(w, "ok", task[w].req.newPlan)
      <3>1. UpdatedComposite(task[w].inst, task[w].req.newPlan, task[w].req) # Absent
        <4>1. task[w].pc = "update" /\ task[w].pc # "idle"
          BY <1>7 DEF UpdateInstance
        <4>2. /\ task[w].req \in Request /\ task[w].inst \in Composite
              /\ task[w].req.newPlan \in Plans
          BY <4>1, BusyOK DEF TaskOK, Task, PlanFound
        <4> QED
          BY <4>2, UpdatedCompositeType, AbsentAssumption
      <3> QED BY <2>2, <3>1 DEF SearchStep, Answer
    <2> QED BY <1>7, <2>1, <2>2 DEF UpdateInstance
  <1>8. ASSUME NEW w \in Workers, DeleteInstance(w) PROVE SearchStep(v)
    <2> DEFINE k == Key(task[w].plan, task[w].req.id)
               o == composites[k]
    <2>1. CASE \E code : Refuse(w, code)
      BY <1>1, <2>1 DEF Refuse
    <2>2. CASE /\ composites' = [composites EXCEPT ![k] = Deleted(o)]
               /\ task' = [task EXCEPT ![w] = Idle]
               /\ steady' = IF Deleted(o) = Absent THEN {u \in steady : task[u].req.id # k[2]} ELSE steady
      <3>1. v \in steady /\ v # w /\ task'[v] = task[v]
        BY <1>8, <2>2 DEF DeleteInstance, SearchInv
      <3>2. Deleted(o) = Absent => task[v].req.id # k[2]
        BY <2>2
      <3> HIDE DEF k, o
      <3> QED BY <2>2, <3>1, <3>2 DEF SearchStep
    <2> QED BY <1>8, <2>1, <2>2 DEF DeleteInstance
  <1>9. ASSUME NEW k \in Keys, Finalize(k) PROVE SearchStep(v)
    BY <1>9 DEF Finalize, SearchStep
  <1>10. ASSUME NEW k \in Keys, NEW reason \in Reasons, Reconcile(k, reason) PROVE SearchStep(v)
    <2>1. [composites[k] EXCEPT !.reason = reason] \in Composite
      BY <1>10 DEF Reconcile, Composite
    <2> QED BY <1>10, <2>1, AbsentAssumption DEF Reconcile, SearchStep
  <1>11. ASSUME NEW w \in Workers, NEW r \in Requests, Receive(w, r) PROVE SearchStep(v)
    <2>1. task[w] = Idle /\ w \notin steady /\ composites' = composites
      BY <1>11 DEF Receive, SearchInv, Idle
    <2>2. CASE steady' = steady /\ v # w
      <3>1. task'[v] = task[v]
        BY <1>11, <2>2 DEF Receive
      <3> QED BY <2>1, <2>2, <3>1 DEF SearchStep
    <2>3. CASE /\ task' = [task EXCEPT ![w] = [[Idle EXCEPT !.req = r] EXCEPT !.pc = "find", !.next = 1]]
               /\ steady' = IF Exists(r.id) THEN steady \cup {w} ELSE steady
      <3>1. CASE v # w
        BY <2>1, <2>3, <3>1 DEF SearchStep
      <3>2. CASE v = w
        <4>1. Exists(r.id)
          BY <2>1, <2>3, <3>2
        <4>2. task'[v] = [[Idle EXCEPT !.req = r] EXCEPT !.pc = "find", !.next = 1]
          BY <2>3, <3>2
        <4>3. task'[v].pc = "find" /\ task'[v].next = 1 /\ task'[v].req = r
          BY <4>2 DEF Idle
        <4> QED BY <2>1, <4>1, <4>3 DEF SearchStep
      <3> QED BY <3>1, <3>2
    <2> QED BY <1>11, <2>1, <2>2, <2>3 DEF Receive
  <1>12. CASE UNCHANGED vars
    BY <1>12 DEF vars, SearchStep
  <1> QED
    BY <1>2, <1>3, <1>4, <1>5, <1>6, <1>7, <1>8, <1>9, <1>10, <1>11, <1>12 DEF Next, Step

\* A search is never overtaken.
LEMMA NextSearch ==
  ASSUME UniquePlanNames, OneNamePerService, AllPlansListed, UpdatesGoForward,
         Inv, LabelsMatchPlan, SearchInv, [Next]_vars
  PROVE  SearchInv'
  <1> SUFFICES ASSUME NEW v \in steady'
               PROVE  task'[v].pc = "find" /\ Ahead(v)'
    BY DEF SearchInv
  <1>1. SearchStep(v)
    BY StepOnSearch
  <1>2. Len(PlanList) \in Nat
    BY CatalogAssumption
  <1>3. v \in Workers /\ (v \in steady => task[v] \in Task /\ task[v].pc = "find" /\ Ahead(v)
                            /\ task[v].next \in Nat)
    BY <1>2, NextInv DEF Inv, TypeOK, SearchInv, Task
  <1>4. CASE /\ v \in steady /\ task'[v] = task[v]
             /\ \A k \in Keys : (k[2] = task[v].req.id /\ composites[k] # Absent) => composites'[k] # Absent
    <2>1. PICK k \in Keys, i \in task[v].next..Len(PlanList) :
            k[2] = task[v].req.id /\ composites[k] # Absent /\ PlanList[i] = composites[k].plan
      BY <1>3, <1>4 DEF Ahead
    <2>2. composites'[k] # Absent /\ LabelsMatchPlan'
      BY <1>4, <2>1, NextLabels
    <2> DEFINE a == composites[k].plan
               b == composites'[k].plan
    <2>3. a \in Plans /\ b \in Plans /\ Labels[a].Kind = k[1] /\ Labels[b].Kind = k[1]
      BY <2>1, <2>2, NextInv DEF Inv, TypeOK, Composite, LabelsMatchPlan, Keys
    <2>4. a # b => AllowUpdate(a, b)
      BY <2>1, <2>2, StepPermits
    <2>5. PICK j \in 1..Len(PlanList) : PlanList[j] = b
      BY <2>3 DEF AllPlansListed
    <2>6. task[v].next \in Nat /\ task[v].next >= 1 /\ i \in 1..Len(PlanList) /\ PlanList[i] = a
      BY <1>2, <1>3, <1>4, <2>1, CatalogAssumption DEF Inv, TaskOK
    <2>7. \E l \in task[v].next..Len(PlanList) : PlanList[l] = b
      <3>1. CASE a = b
        BY <2>1, <3>1
      <3>2. CASE a # b
        <4>1. NameRank[a] \in Nat /\ NameRank[b] \in Nat /\ NameRank[a] <= NameRank[b] /\ NameRank[a] # NameRank[b]
          BY <2>3, <2>4, <3>2, CatalogAssumption DEF UpdatesGoForward, UniquePlanNames
        <4>2. j < i => NameRank[b] <= NameRank[a]
          BY <2>5, <2>6, CatalogAssumption
        <4> HIDE DEF a, b
        <4>3. j >= i
          BY <1>2, <2>5, <2>6, <4>1, <4>2
        <4> QED BY <1>2, <2>1, <2>5, <2>6, <4>3
      <3> QED BY <3>1, <3>2
    <2> QED BY <1>3, <1>4, <2>1, <2>2, <2>7 DEF Ahead, Keys
  <1>5. CASE /\ v \in steady /\ task'[v] = SearchOn(task[v]) /\ composites' = composites
             /\ ~SearchEnds(task[v])
             /\ ~Matches(composites[Key(PlanList[task[v].next], task[v].req.id)], PlanList[task[v].next])
    <2>1. PICK k \in Keys, i \in task[v].next..Len(PlanList) :
            k[2] = task[v].req.id /\ composites[k] # Absent /\ PlanList[i] = composites[k].plan
      BY <1>3, <1>5 DEF Ahead
    <2>2. /\ task'[v].pc = "find" /\ task'[v].req = task[v].req /\ task'[v].next = task[v].next + 1
      BY <1>3, <1>5 DEF SearchOn, Task
    <2>3. i # task[v].next
      <3> SUFFICES ASSUME PlanList[task[v].next] = composites[k].plan
                   PROVE  FALSE
        BY <2>1
      <3>1. k = Key(composites[k].plan, task[v].req.id)
        BY <2>1 DEF LabelsMatchPlan, Key, GVK, Keys
      <3> QED BY <1>5, <2>1, <3>1 DEF Matches, LabelsMatchPlan
    <2>4. i \in (task[v].next + 1)..Len(PlanList)
      BY <1>2, <1>3, <1>5, <2>1, <2>3
    <2> QED BY <1>5, <2>1, <2>2, <2>4 DEF Ahead, Keys
  <1>6. CASE task'[v].pc = "find" /\ task'[v].next = 1 /\ Exists(task'[v].req.id) /\ composites' = composites
    <2>1. PICK kind \in Kinds : composites[<<kind, task'[v].req.id>>] # Absent
      BY <1>6 DEF Exists
    <2>2. task'[v].req.id \in InstanceIDs
      BY <1>3, <1>6, NextInv, InstancesAssumption DEF Inv, TypeOK, TaskOK, Task, Request
    <2> DEFINE k == <<kind, task'[v].req.id>>
    <2>3. k \in Keys /\ k[2] = task'[v].req.id
      BY <2>2 DEF Keys
    <2>4. composites[k].plan \in Plans
      BY <2>1, <2>3 DEF Inv, TypeOK, Composite
    <2>5. PICK i \in 1..Len(PlanList) : PlanList[i] = composites[k].plan
      BY <2>4 DEF AllPlansListed
    <2> HIDE DEF k
    <2>6. composites[k] # Absent
      BY <2>1 DEF k
    <2> QED BY <1>6, <2>3, <2>5, <2>6 DEF Ahead, Keys
  <1> QED BY <1>1, <1>4, <1>5, <1>6 DEF SearchStep

\* Only the end of the search says that there is no instance.
LEMMA OnlyEndsMiss ==
  ASSUME Inv, Next, NEW v \in Workers,
         task[v].pc = "find", task'[v] = Idle, resp'.code = "notFound"
  PROVE  SearchEnds(task[v])
  <1> USE DEF Inv, TypeOK
  <1>1. ASSUME NEW w, NEW code, NEW p, Reply(w, code, p), code # "notFound" PROVE FALSE
    BY <1>1 DEF Reply, Answer
  <1>2. ASSUME NEW w, NEW pc, NEW p, NEW o, Continue(w, pc, p, o) PROVE FALSE
    BY <1>2 DEF Continue, NoResp
  <1>3. ASSUME NEW w, NEW name, NEW pc, NEW p, NEW o, ValidateParams(w, name, pc, p, o) PROVE FALSE
    BY <1>1, <1>2, <1>3 DEF ValidateParams, Refuse
  <1>4. ASSUME NEW w, NEW p, NEW o, Found(w, p, o) PROVE FALSE
    BY <1>1, <1>2, <1>3, <1>4
       DEF Found, UpdateFound, DeprovisionFound, GetInstanceFound, LastOperationFound
  <1>5. ASSUME NEW w \in Workers, Step(w), ~FindInstanceWithoutPlan(w) PROVE FALSE
    <2>1. CASE ProvisionGet(w)
      BY <1>1, <1>3, <2>1 DEF ProvisionGet, Refuse
    <2>2. CASE ValidateProvisionParams(w) \/ Deprovisionable(w)
      BY <1>1, <1>2, <2>2 DEF ValidateProvisionParams, Deprovisionable, Refuse
    <2>3. CASE GetPlanInstance(w)
      BY <1>1, <1>4, <2>3 DEF GetPlanInstance, Refuse
    <2>4. CASE CreateInstance(w)
      BY <1>1, <2>4 DEF CreateInstance, Refuse
    <2>5. CASE UpdateInstance(w)
      BY <1>1, <2>5 DEF UpdateInstance, Refuse, Answer
    <2>6. CASE DeleteInstance(w)
      BY <1>1, <2>6 DEF DeleteInstance, Refuse
    <2> QED BY <1>5, <2>1, <2>2, <2>3, <2>4, <2>5, <2>6 DEF Step
  <1>6. ASSUME NEW w \in Workers, FindInstanceWithoutPlan(w) PROVE SearchEnds(task[w]) /\ w = v
    <2>1. SearchEnds(task[w]) /\ Refuse(w, "notFound")
      BY <1>4, <1>6 DEF FindInstanceWithoutPlan, NoResp
    <2>2. v # w => task'[v] = task[v]
      BY <2>1 DEF Refuse, Reply, Answer
    <2> QED BY <2>1, <2>2 DEF Idle
  <1>7. ASSUME NEW w \in Workers, Abort(w) PROVE FALSE
    BY <1>1, <1>7 DEF Abort, Refuse
  <1>8. ASSUME NEW w \in Workers, NEW r \in Requests, Receive(w, r) PROVE FALSE
    BY <1>8 DEF Receive, NoResp
  <1>9. ASSUME NEW k \in Keys, Finalize(k) \/ \E reason \in Reasons : Reconcile(k, reason) PROVE FALSE
    BY <1>9 DEF Finalize, Reconcile, NoResp
  <1> QED
    BY <1>5, <1>6, <1>7, <1>8, <1>9 DEF Next

\* If no update takes an instance to a plan before its own in the list, a
\* search does not miss an instance that is there from its start to its end:
\* what the run find_misses shows takes an update that goes backward.
THEOREM SteadyInstancesAreFound ==
  ASSUME UniquePlanNames, OneNamePerService, AllPlansListed, UpdatesGoForward
  PROVE  Spec => SteadyInstanceFound
  <1> DEFINE Hit ==
        \A w \in Workers :
          (task[w].pc = "find" /\ task'[w] = Idle /\ resp'.code = "notFound") => w \notin steady
  <1>1. Init => SearchInv
    BY DEF Init, SearchInv
  <1>2. Inv /\ LabelsMatchPlan /\ SearchInv /\ [Next]_vars => SearchInv'
    BY NextSearch
  <1>3. Inv /\ SearchInv /\ [Next]_vars => [Hit]_vars
    <2> SUFFICES ASSUME Inv, SearchInv, Next, NEW v \in steady,
                        task[v].pc = "find", task'[v] = Idle, resp'.code = "notFound"
                 PROVE  FALSE
      BY DEF SearchInv
    <2>1. Len(PlanList) \in Nat /\ v \in Workers /\ task[v].next \in Nat
      BY CatalogAssumption DEF Inv, TypeOK, Task
    <2>2. SearchEnds(task[v])
      BY <2>1, OnlyEndsMiss
    <2> QED BY <2>1, <2>2 DEF SearchInv, Ahead, SearchEnds
  <1>4. Spec => [][Hit]_vars
    BY <1>1, <1>2, <1>3, InvHolds, LabelsAlwaysMatch, PTL DEF Spec
  <1> QED
    BY <1>4 DEF SteadyInstanceFound
=============================================================================
