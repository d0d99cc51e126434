----------------------- MODULE InstancesParentProofs -----------------------
(***************************************************************************)
(* A database and the MariaDB instance it refers to, in a catalogue whose  *)
(* kinds are those of the services (KindsOfServices).                      *)
(*                                                                         *)
(* ParentInv is inductive on top of Inv.  It says what a handler has found *)
(* out about the parent before it writes: on the way to a write, that the  *)
(* parent in the parameters has been an instance; on the way to a deletion *)
(* that the instance had no databases but those created since.             *)
(***************************************************************************)
EXTENDS InstancesProofs

\* A composite of a kind the binders refer to has the service's name.
ServicesFitKinds ==
  \A id \in InstanceIDs :
    /\ composites[<<MariaDBKind, id>>] # Absent
         => composites[<<MariaDBKind, id>>].ServiceName = MariaDBService
    /\ composites[<<DatabaseKind, id>>] # Absent
         => composites[<<DatabaseKind, id>>].ServiceName = MariaDBDatabaseService

InstancesAreKnown ==
  \A id \in InstanceIDs : composites[<<MariaDBKind, id>>] # Absent => id \in known

\* A parent about to be written has been seen.
ParentSeen ==
  \A w \in Workers :
    (/\ task[w].pc \in {"create", "update"}
     /\ GVK(task[w].plan) = DatabaseKind
     /\ task[w].req.raw # "nil")
      => task[w].req.params.parent \in known

\* The databases with the label of an instance about to be deleted are new.
ChildrenAreLate ==
  \A w \in Workers :
    (task[w].pc = "delete" /\ GVK(task[w].plan) = MariaDBKind)
      => Children(task[w].req.id) \subseteq late[w]

ParentInv ==
  /\ ServicesFitKinds
  /\ InstancesAreKnown
  /\ ParentSeen
  /\ ParentWasInstance
  /\ ChildrenAreLate
-----------------------------------------------------------------------------
\* Both kinds are in the key space.
LEMMA ParentKeys ==
  \A id \in InstanceIDs : <<MariaDBKind, id>> \in Keys /\ <<DatabaseKind, id>> \in Keys
  BY DEF Keys, Kinds

\* A step other than a creation creates nothing, learns nothing, and leaves
\* what a worker knows of later databases until the worker is done.
CreatesNothing ==
  /\ known' = known
  /\ \A k \in Keys : composites'[k] # Absent => composites[k] # Absent
  /\ \A v \in Workers : late'[v] = late[v] \/ task'[v] = Idle

\* Ending a request, or going on with it, creates nothing.
LEMMA ReplyCreatesNothing ==
  ASSUME Inv, NEW w \in Workers,
         \/ \E code, p : Reply(w, code, p)
         \/ UNCHANGED composites /\ \E pc, p, o : Continue(w, pc, p, o)
  PROVE  CreatesNothing
  BY DEF CreatesNothing, Reply, Answer, Continue, Inv, TypeOK

\* Nor does validateParams, ...
LEMMA ValidateParamsCreatesNothing ==
  ASSUME Inv, NEW w \in Workers, NEW name, NEW pc, NEW p, NEW o, ValidateParams(w, name, pc, p, o)
  PROVE  CreatesNothing
  BY ReplyCreatesNothing DEF ValidateParams, Refuse

\* ... or a handler behind getPlanInstance.
LEMMA FoundCreatesNothing ==
  ASSUME Inv, NEW w \in Workers, NEW p, NEW o, Found(w, p, o)
  PROVE  CreatesNothing
  <1>1. CASE \E code : Reply(w, code, p)
    BY <1>1, ReplyCreatesNothing
  <1>2. CASE UpdateFound(w, p, o)
    BY <1>1, <1>2, ValidateParamsCreatesNothing DEF UpdateFound
  <1>3. CASE DeprovisionFound(w, p, o)
    BY <1>3, ReplyCreatesNothing DEF DeprovisionFound
  <1> QED
    BY <1>1, <1>2, <1>3 DEF Found, GetInstanceFound, LastOperationFound

\* Only CreateInstance creates.
LEMMA OnlyCreateCreates ==
  ASSUME Inv, [Next]_vars, ~ \E w \in Workers : CreateInstance(w)
  PROVE  CreatesNothing
  <1> USE DEF Inv, TypeOK
  <1>1. ASSUME NEW w \in Workers, NEW code, Refuse(w, code)
        PROVE  CreatesNothing
    BY <1>1, ReplyCreatesNothing DEF Refuse
  <1>2. CASE \E w \in Workers : ProvisionGet(w)
    BY <1>1, <1>2, ValidateParamsCreatesNothing DEF ProvisionGet
  <1>3. CASE \E w \in Workers : ValidateProvisionParams(w) \/ Deprovisionable(w) \/ Abort(w)
    BY <1>1, <1>3, ReplyCreatesNothing DEF ValidateProvisionParams, Deprovisionable, Abort
  <1>4. CASE \E w \in Workers : GetPlanInstance(w)
    BY <1>1, <1>4, FoundCreatesNothing DEF GetPlanInstance
  <1>5. CASE \E w \in Workers : FindInstanceWithoutPlan(w)
    <2>1. PICK w \in Workers : FindInstanceWithoutPlan(w)
      BY <1>5
    <2>2. CASE UNCHANGED <<composites, fresh, late, steady, known, moved>>
      BY <2>2 DEF CreatesNothing
    <2> QED
      BY <1>1, <2>1, <2>2, FoundCreatesNothing DEF FindInstanceWithoutPlan
  <1>6. CASE \E w \in Workers : UpdateInstance(w)
    <2>1. PICK w \in Workers : UpdateInstance(w)
      BY <1>6
    <2>2. CASE WriteAccepted(w, Key(task[w].req.newPlan, task[w].req.id))
      BY <2>1, <2>2 DEF UpdateInstance, WriteAccepted, Answer, CreatesNothing
    <2> QED
      BY <1>1, <2>1, <2>2 DEF UpdateInstance
  <1>7. CASE \E w \in Workers : DeleteInstance(w)
    <2>1. PICK w \in Workers : DeleteInstance(w)
      BY <1>7
    <2>2. CASE composites[Key(task[w].plan, task[w].req.id)] # Absent
      BY <2>1, <2>2 DEF DeleteInstance, CreatesNothing
    <2> QED
      BY <1>1, <2>1, <2>2 DEF DeleteInstance
  <1>8. CASE \E w \in Workers, r \in Requests : Receive(w, r)
    BY <1>8 DEF Receive, CreatesNothing
  <1>9. CASE \E k \in Keys : Finalize(k) \/ \E reason \in Reasons : Reconcile(k, reason)
    BY <1>9 DEF Finalize, Reconcile, CreatesNothing
  <1>10. CASE UNCHANGED vars
    BY <1>10 DEF vars, CreatesNothing
  <1> QED
    BY <1>2, <1>3, <1>4, <1>5, <1>6, <1>7, <1>8, <1>9, <1>10 DEF Next, Step
-----------------------------------------------------------------------------
\* What worker v knows at its next step when it goes on to a write or to a
\* deletion: it has looked the parent up, the service's parameters are not
\* looked at, or the instance has nothing to check.
GoesOn(v) ==
  LET t == task[v]
      u == task'[v]
      parent == t.req.params.parent
      noParent(name) == t.req.raw = "nil" \/ name \in {MariaDBService, RedisService}
  IN /\ u.req = t.req /\ u.plan \in Plans /\ t.pc # "idle"
     /\ \/ /\ t.pc = "validate" /\ u.pc \in {"create", "update"}
           /\ composites[<<MariaDBKind, parent>>] # Absent
        \/ u.pc = "create" /\ noParent(Labels[u.plan].ServiceName)
        \/ u.pc = "update" /\ /\ composites[Key(u.plan, t.req.id)] # Absent
                              /\ noParent(composites[Key(u.plan, t.req.id)].ServiceName)
        \/ u.pc = "delete" /\ Children(t.req.id) = {}
        \/ u.pc = "delete" /\ /\ composites[Key(u.plan, t.req.id)] # Absent
                              /\ composites[Key(u.plan, t.req.id)].ServiceName # MariaDBService

\* How a step can change a task.
Moves(v) ==
  \/ task'[v] = task[v]
  \/ task'[v].pc \in {"idle", "get", "find", "validate", "list"}
  \/ GoesOn(v) /\ UNCHANGED <<composites, known>>

\* A worker that answers, or stays where nothing is claimed.
LEMMA ContinueMoves ==
  ASSUME Inv, NEW w \in Workers, NEW pc, NEW p, NEW o, Continue(w, pc, p, o)
  PROVE  /\ \A v \in Workers : v # w => Moves(v)
         /\ task'[w].pc = pc /\ task'[w].plan = p /\ task'[w].req = task[w].req
         /\ known' = known
  BY DEF Continue, Moves, Inv, TypeOK, Task

\* A worker that answers is free.
LEMMA AnswerMoves ==
  ASSUME Inv, NEW w \in Workers, NEW code, NEW p, Answer(w, code, p)
  PROVE  \A v \in Workers : Moves(v)
  BY DEF Answer, Moves, Inv, TypeOK, Idle

\* validateParams, for the name of the service it is called with.
LEMMA ValidateParamsMoves ==
  ASSUME Inv, NEW w \in Workers, task[w].pc # "idle", NEW name, NEW p \in Plans, NEW o,
         NEW pc \in {"create", "update"},
         pc = "create" => name = Labels[p].ServiceName,
         pc = "update" => /\ composites[Key(p, task[w].req.id)] # Absent
                          /\ name = composites[Key(p, task[w].req.id)].ServiceName,
         ValidateParams(w, name, pc, p, o)
  PROVE  \A v \in Workers : Moves(v)
  <1>1. CASE \E code : Refuse(w, code)
    BY <1>1, AnswerMoves DEF Refuse, Reply
  <1>2. CASE Continue(w, "validate", p, o)
    BY <1>2, ContinueMoves DEF Moves
  <1>3. CASE /\ task[w].req.raw = "nil" \/ name \in {MariaDBService, RedisService}
             /\ Continue(w, pc, p, o)
             /\ UNCHANGED composites
    <2>1. GoesOn(w)
      BY <1>3, ContinueMoves DEF GoesOn
    <2> QED
      BY <1>3, <2>1, ContinueMoves DEF Moves
  <1> QED
    BY <1>1, <1>2, <1>3 DEF ValidateParams

\* The handlers behind getPlanInstance.
LEMMA FoundMoves ==
  ASSUME Inv, NEW w \in Workers, task[w].pc # "idle", NEW p \in Plans,
         Matches(composites[Key(p, task[w].req.id)], p),
         Found(w, p, composites[Key(p, task[w].req.id)])
  PROVE  \A v \in Workers : Moves(v)
  <1> DEFINE o == composites[Key(p, task[w].req.id)]
  <1>0. o # Absent
    BY DEF Matches
  <1>1. CASE \E code : Reply(w, code, p)
    BY <1>1, AnswerMoves DEF Reply
  <1>2. CASE UpdateFound(w, p, o)
    BY <1>0, <1>1, <1>2, ValidateParamsMoves DEF UpdateFound
  <1>3. CASE DeprovisionFound(w, p, o)
    <2>1. CASE o.ServiceName = MariaDBService /\ Continue(w, "list", p, Absent)
      BY <2>1, ContinueMoves DEF Moves
    <2>2. CASE o.ServiceName # MariaDBService /\ Continue(w, "delete", p, Absent)
      <3>1. GoesOn(w)
        BY <1>0, <2>2, ContinueMoves DEF GoesOn
      <3> QED
        BY <1>3, <2>2, <3>1, ContinueMoves DEF DeprovisionFound, Moves
    <2> QED
      BY <1>3, <2>1, <2>2 DEF DeprovisionFound
  <1> QED
    BY <1>1, <1>2, <1>3 DEF Found, GetInstanceFound, LastOperationFound

\* What any step does to the tasks.
LEMMA StepOnTask ==
  ASSUME Inv, [Next]_vars
  PROVE  \A v \in Workers : Moves(v)
  <1>1. ASSUME NEW w \in Workers, NEW code, Refuse(w, code)
        PROVE  \A v \in Workers : Moves(v)
    BY <1>1, AnswerMoves DEF Refuse, Reply
  <1>2. CASE \E w \in Workers : ProvisionGet(w)
    <2>1. PICK w \in Workers : ProvisionGet(w)
      BY <1>2
    <2>2. task[w].plan \in Plans /\ task[w].pc # "idle"
      BY <2>1, BusyOK DEF ProvisionGet, TaskOK
    <2> QED
      BY <1>1, <2>1, <2>2, ValidateParamsMoves DEF ProvisionGet
  <1>3. CASE \E w \in Workers : ValidateProvisionParams(w)
    <2>1. PICK w \in Workers : ValidateProvisionParams(w)
      BY <1>3
    <2>2. task[w].plan \in Plans
      BY <2>1, BusyOK DEF ValidateProvisionParams, TaskOK
    <2> DEFINE pc == IF task[w].req.op = "Provision" THEN "create" ELSE "update"
    <2>3. CASE /\ composites[<<MariaDBKind, task[w].req.params.parent>>] # Absent
               /\ Continue(w, pc, task[w].plan, task[w].inst)
               /\ UNCHANGED <<composites, fresh>>
      <3>1. GoesOn(w)
        BY <2>1, <2>2, <2>3, ContinueMoves DEF GoesOn, ValidateProvisionParams
      <3> QED
        BY <2>3, <3>1, ContinueMoves DEF Moves
    <2> QED
      BY <1>1, <2>1, <2>3 DEF ValidateProvisionParams
  <1>4. CASE \E w \in Workers : GetPlanInstance(w)
    <2>1. PICK w \in Workers : GetPlanInstance(w)
      BY <1>4
    <2>2. task[w].plan \in Plans /\ task[w].pc # "idle"
      BY <2>1, BusyOK DEF GetPlanInstance, TaskOK
    <2> QED
      BY <1>1, <2>1, <2>2, FoundMoves DEF GetPlanInstance
  <1>5. CASE \E w \in Workers : FindInstanceWithoutPlan(w)
    <2>1. PICK w \in Workers : FindInstanceWithoutPlan(w)
      BY <1>5
    <2> DEFINE p == PlanList[task[w].next]
    <2>2. task[w].pc = "find" /\ task[w] \in Task /\ task[w].next \in 1..(Len(PlanList) + 1)
      BY <2>1, BusyOK DEF FindInstanceWithoutPlan, TaskOK
    <2>3. CASE task' = [task EXCEPT ![w] = SearchOn(task[w])]
      <3>1. task'[w].pc = "find"
        BY <2>2, <2>3 DEF SearchOn, Task, Inv, TypeOK
      <3> QED
        BY <2>3, <3>1 DEF Moves, Inv, TypeOK
    <2>4. CASE /\ ~SearchEnds(task[w])
               /\ Matches(composites[Key(p, task[w].req.id)], p)
               /\ Found(w, p, composites[Key(p, task[w].req.id)])
      <3>1. Len(PlanList) \in Nat
        BY CatalogAssumption
      <3>2. p \in Plans
        BY <2>2, <2>4, <3>1, CatalogAssumption DEF SearchEnds
      <3> QED
        BY <2>2, <2>4, <3>2, FoundMoves
    <2> QED
      BY <1>1, <2>1, <2>3, <2>4 DEF FindInstanceWithoutPlan
  <1>6. CASE \E w \in Workers : Deprovisionable(w)
    <2>1. PICK w \in Workers : Deprovisionable(w)
      BY <1>6
    <2>2. task[w].plan \in Plans
      BY <2>1, BusyOK DEF Deprovisionable, TaskOK
    <2>3. CASE /\ Children(task[w].req.id) = {}
               /\ Continue(w, "delete", task[w].plan, Absent)
               /\ UNCHANGED <<composites, fresh>>
      <3>1. GoesOn(w)
        BY <2>1, <2>2, <2>3, ContinueMoves DEF GoesOn, Deprovisionable
      <3> QED
        BY <2>3, <3>1, ContinueMoves DEF Moves
    <2> QED
      BY <1>1, <2>1, <2>3 DEF Deprovisionable
  <1>7. CASE \E w \in Workers : CreateInstance(w) \/ UpdateInstance(w) \/ DeleteInstance(w) \/ Abort(w)
    <2>1. PICK w \in Workers : CreateInstance(w) \/ UpdateInstance(w) \/ DeleteInstance(w) \/ Abort(w)
      BY <1>7
    <2>2. CASE task' = [task EXCEPT ![w] = Idle]
      BY <2>2 DEF Moves, Idle, Inv, TypeOK
    <2> QED
      BY <1>1, <2>1, <2>2 DEF CreateInstance, UpdateInstance, Answer, DeleteInstance, Abort
  <1>8. CASE \E w \in Workers, r \in Requests : Receive(w, r)
    <2>1. PICK w \in Workers, r \in Requests : Receive(w, r)
      BY <1>8
    <2> DEFINE get == [pc |-> "get", req |-> r, plan |-> r.plan, next |-> 0, inst |-> Absent]
    <2> DEFINE find == [pc |-> "find", req |-> r, plan |-> NoPlan, next |-> 1, inst |-> Absent]
    <2>2. \/ task' = task
          \/ task' = [task EXCEPT ![w] = get]
          \/ task' = [task EXCEPT ![w] = find]
      BY <2>1 DEF Receive, Idle
    <2> QED
      BY <2>2 DEF Moves, Inv, TypeOK
  <1>9. CASE task' = task
    BY <1>9 DEF Moves
  <1> QED
    BY <1>2, <1>3, <1>4, <1>5, <1>6, <1>7, <1>8, <1>9 DEF Next, Step, Finalize, Reconcile, vars
-----------------------------------------------------------------------------
\* An object is new, or it has the service name and the parent label it had,
\* and the parameters it had or those of an update.
LEMMA ObjectKept ==
  ASSUME Inv, [Next]_vars, NEW k \in Keys, composites'[k] # Absent
  PROVE  \/ /\ composites[k] # Absent /\ composites[k] \in Composite
            /\ composites'[k].ServiceName = composites[k].ServiceName
            /\ composites'[k].parent = composites[k].parent
            /\ \/ composites'[k].params = composites[k].params
               \/ \E w \in Workers :
                    /\ task[w].pc = "update" /\ k = Key(task[w].plan, task[w].req.id)
                    /\ composites'[k].params = Validated(composites[k].ServiceName, task[w].req)
         \/ /\ composites[k] = Absent
            /\ \E w \in Workers :
                 /\ task[w].pc = "create" /\ k = Key(task[w].plan, task[w].req.id)
                 /\ task[w].plan \in Plans
                 /\ composites'[k] = NewComposite(task[w].plan, task[w].req)
  <1>1. composites[k] # Absent => composites[k] \in Composite
    BY DEF Inv, TypeOK
  <1>2. CASE composites'[k] = composites[k]
    BY <1>1, <1>2
  <1>3. CASE /\ composites[k] # Absent
             /\ \/ composites'[k] = [composites[k] EXCEPT !.deleting = TRUE]
                \/ \E reason \in Reasons : composites'[k] = [composites[k] EXCEPT !.reason = reason]
    BY <1>1, <1>3 DEF Composite
  <1>4. ASSUME NEW w \in Workers, task[w].pc = "update", WriteAccepted(w, k),
               composites'[k] = UpdatedComposite(task[w].inst, task[w].req.newPlan, task[w].req)
        PROVE  /\ composites[k] # Absent /\ composites[k] \in Composite
               /\ composites'[k].ServiceName = composites[k].ServiceName
               /\ composites'[k].parent = composites[k].parent
               /\ k = Key(task[w].plan, task[w].req.id)
               /\ composites'[k].params = Validated(composites[k].ServiceName, task[w].req)
    <2>1. k = Key(task[w].plan, task[w].req.id) /\ composites[k] = task[w].inst /\ composites[k] # Absent
      BY <1>4 DEF WriteAccepted, Inv, FreshOK
    <2> QED
      BY <1>1, <1>4, <2>1 DEF UpdatedComposite, Composite
  <1> QED
    BY <1>2, <1>3, <1>4, StepOnComposite

\* The service name of an object stays that of its kind.
LEMMA NextServicesFit ==
  ASSUME KindsOfServices, Inv, ServicesFitKinds, [Next]_vars
  PROVE  ServicesFitKinds'
  <1>1. ASSUME NEW id \in InstanceIDs, NEW kind, NEW name,
               \/ kind = MariaDBKind /\ name = MariaDBService
               \/ kind = DatabaseKind /\ name = MariaDBDatabaseService,
               composites'[<<kind, id>>] # Absent
        PROVE  composites'[<<kind, id>>].ServiceName = name
    <2> DEFINE k == <<kind, id>>
    <2>1. k \in Keys
      BY <1>1, ParentKeys
    <2>2. CASE /\ composites[k] # Absent
               /\ composites'[k].ServiceName = composites[k].ServiceName
      BY <1>1, <2>2 DEF ServicesFitKinds
    <2>3. CASE \E w \in Workers :
                 /\ k = Key(task[w].plan, task[w].req.id) /\ task[w].plan \in Plans
                 /\ composites'[k] = NewComposite(task[w].plan, task[w].req)
      BY <1>1, <2>3 DEF Key, GVK, NewComposite, KindsOfServices
    <2> QED
      BY <1>1, <2>1, <2>2, <2>3, ObjectKept
  <1> QED
    BY <1>1 DEF ServicesFitKinds

\* known never shrinks, and gains the instances that are created.
LEMMA NextKnown ==
  ASSUME Inv, InstancesAreKnown, [Next]_vars
  PROVE  known \subseteq known' /\ InstancesAreKnown'
  <1>1. CASE CreatesNothing
    BY <1>1, ParentKeys DEF CreatesNothing, InstancesAreKnown
  <1>2. CASE \E w \in Workers : CreateInstance(w)
    <2>1. PICK w \in Workers : CreateInstance(w)
      BY <1>2
    <2>2. CASE Refuse(w, "error") \/ Refuse(w, "panic")
      BY <2>2 DEF Refuse, Reply, InstancesAreKnown
    <2> DEFINE k == Key(task[w].plan, task[w].req.id)
    <2>3. CASE /\ composites' = [composites EXCEPT ![k] = NewComposite(task[w].plan, task[w].req)]
               /\ known' = IF k[1] = MariaDBKind THEN known \cup {k[2]} ELSE known
      <3> HIDE DEF k
      <3> QED
        BY <2>3, ParentKeys DEF InstancesAreKnown, Inv, TypeOK
    <2> QED
      BY <2>1, <2>2, <2>3 DEF CreateInstance
  <1> QED
    BY <1>1, <1>2, OnlyCreateCreates

\* A worker on its way to a write has seen the parent.
LEMMA NextParentSeen ==
  ASSUME KindsOfServices, Inv, ServicesFitKinds, InstancesAreKnown, ParentSeen, [Next]_vars
  PROVE  ParentSeen'
  <1> SUFFICES ASSUME NEW w \in Workers, task'[w].pc \in {"create", "update"},
                      GVK(task'[w].plan) = DatabaseKind, task'[w].req.raw # "nil"
               PROVE  task'[w].req.params.parent \in known'
    BY DEF ParentSeen, GVK
  <1>1. known \subseteq known'
    BY NextKnown
  <1>2. CASE task'[w] = task[w]
    BY <1>1, <1>2 DEF ParentSeen
  <1>3. CASE GoesOn(w)
    <2> DEFINE t == task[w]
    <2> DEFINE p == task'[w].plan
    <2>1. /\ task'[w].req = t.req /\ p \in Plans /\ t.pc # "idle" /\ t.req.id \in InstanceIDs
          /\ TaskOK(t)
      BY <1>3, BusyOK DEF GoesOn
    <2>2. CASE t.pc = "validate" /\ composites[<<MariaDBKind, t.req.params.parent>>] # Absent
      BY <1>1, <2>1, <2>2 DEF TaskOK, InstancesAreKnown
    <2>3. Labels[p].ServiceName = MariaDBDatabaseService
      BY <2>1 DEF GVK, KindsOfServices
    <2>4. composites[Key(p, t.req.id)] # Absent
            => composites[Key(p, t.req.id)].ServiceName = MariaDBDatabaseService
      BY <2>1 DEF Key, ServicesFitKinds
    <2>5. MariaDBDatabaseService \notin {MariaDBService, RedisService}
      BY DEF MariaDBDatabaseService, MariaDBService, RedisService
    <2> QED
      BY <1>3, <2>1, <2>2, <2>3, <2>4, <2>5 DEF GoesOn
  <1> QED
    BY <1>2, <1>3, StepOnTask DEF Moves

\* The parent that a database's writer stores has been an instance.
LEMMA ValidatedParent ==
  ASSUME ParentSeen, NEW w \in Workers, task[w].pc \in {"create", "update"},
         GVK(task[w].plan) = DatabaseKind
  PROVE  Validated(MariaDBDatabaseService, task[w].req).parent \in known \cup {NoParent}
  <1>1. MariaDBDatabaseService # MariaDBService /\ MariaDBDatabaseService # RedisService
    BY DEF MariaDBDatabaseService, MariaDBService, RedisService
  <1>2. CASE task[w].req.raw = "nil"
    BY <1>2 DEF Validated, NoParams
  <1>3. CASE task[w].req.raw # "nil"
    BY <1>1, <1>3 DEF Validated, ParentSeen
  <1> QED
    BY <1>2, <1>3

\* The parents of the databases stay ones that have been instances.
LEMMA NextParentWasInstance ==
  ASSUME KindsOfServices, Inv, ParentInv, [Next]_vars
  PROVE  ParentWasInstance'
  <1> USE DEF ParentInv
  <1> SUFFICES ASSUME NEW d \in InstanceIDs, composites'[<<DatabaseKind, d>>] # Absent
               PROVE  /\ composites'[<<DatabaseKind, d>>].parent \in known' \cup {NoParent}
                      /\ composites'[<<DatabaseKind, d>>].params.parent \in known' \cup {NoParent}
    BY DEF ParentWasInstance
  <1> DEFINE k == <<DatabaseKind, d>>
  <1>1. k \in Keys /\ known \subseteq known'
    BY ParentKeys, NextKnown
  <1>2. CASE /\ composites[k] # Absent
             /\ composites'[k].parent = composites[k].parent
             /\ composites'[k].params = composites[k].params
    BY <1>1, <1>2 DEF ParentWasInstance
  <1>3. CASE /\ composites[k] # Absent
             /\ composites'[k].parent = composites[k].parent
             /\ \E w \in Workers :
                  /\ task[w].pc = "update" /\ k = Key(task[w].plan, task[w].req.id)
                  /\ composites'[k].params = Validated(composites[k].ServiceName, task[w].req)
    <2>1. composites[k].ServiceName = MariaDBDatabaseService
      BY <1>3 DEF ServicesFitKinds
    <2>2. composites'[k].params.parent \in known \cup {NoParent}
      BY <1>3, <2>1, ValidatedParent DEF Key
    <2> QED
      BY <1>1, <1>3, <2>2 DEF ParentWasInstance
  <1>4. CASE \E w \in Workers :
               /\ task[w].pc = "create" /\ k = Key(task[w].plan, task[w].req.id)
               /\ task[w].plan \in Plans
               /\ composites'[k] = NewComposite(task[w].plan, task[w].req)
    <2>1. PICK w \in Workers :
               /\ task[w].pc = "create" /\ k = Key(task[w].plan, task[w].req.id)
               /\ task[w].plan \in Plans
               /\ composites'[k] = NewComposite(task[w].plan, task[w].req)
      BY <1>4
    <2>2. GVK(task[w].plan) = DatabaseKind /\ Labels[task[w].plan].ServiceName = MariaDBDatabaseService
      BY <2>1 DEF Key, GVK, KindsOfServices
    <2>3. Validated(MariaDBDatabaseService, task[w].req).parent \in known \cup {NoParent}
      BY <2>1, <2>2, ValidatedParent
    <2>4. /\ composites'[k].params = Validated(MariaDBDatabaseService, task[w].req)
          /\ composites'[k].parent = composites'[k].params.parent
      BY <2>1, <2>2 DEF NewComposite
    <2> QED
      BY <1>1, <2>3, <2>4
  <1> QED
    BY <1>1, <1>2, <1>3, <1>4, ObjectKept

\* A worker that is about to delete is told of every database that is created.
LEMMA NextLate ==
  ASSUME Inv, [Next]_vars, NEW w \in Workers, task[w].pc = "delete", task'[w].pc = "delete"
  PROVE  /\ late[w] \subseteq late'[w]
         /\ \A d \in InstanceIDs :
              (composites[<<DatabaseKind, d>>] = Absent /\ composites'[<<DatabaseKind, d>>] # Absent)
                => d \in late'[w]
  <1>1. CASE CreatesNothing
    <2>1. late'[w] = late[w]
      BY <1>1 DEF CreatesNothing, Idle
    <2>2. \A d \in InstanceIDs :
            composites'[<<DatabaseKind, d>>] # Absent => composites[<<DatabaseKind, d>>] # Absent
      BY <1>1, ParentKeys DEF CreatesNothing
    <2> QED
      BY <2>1, <2>2
  <1>2. CASE \E v \in Workers : CreateInstance(v)
    <2>1. PICK v \in Workers : CreateInstance(v)
      BY <1>2
    <2>2. v # w
      BY <2>1 DEF CreateInstance
    <2>3. CASE Refuse(v, "error") \/ Refuse(v, "panic")
      BY <2>2, <2>3 DEF Refuse, Reply, Answer, Inv, TypeOK
    <2> DEFINE k == Key(task[v].plan, task[v].req.id)
    <2>4. CASE /\ composites' = [composites EXCEPT ![k] = NewComposite(task[v].plan, task[v].req)]
               /\ late' = [u \in Workers |->
                             IF k[1] = DatabaseKind /\ task[u].pc = "delete"
                               THEN late[u] \cup {k[2]} ELSE late[u]]
      <3> HIDE DEF k
      <3> QED
        BY <2>4, ParentKeys DEF Inv, TypeOK
    <2> QED
      BY <2>1, <2>3, <2>4 DEF CreateInstance
  <1> QED
    BY <1>1, <1>2, OnlyCreateCreates

\* The databases of an instance about to be deleted have been created since.
LEMMA NextOnlyLate ==
  ASSUME Inv, ParentInv, [Next]_vars
  PROVE  ChildrenAreLate'
  <1> USE DEF ParentInv
  <1> SUFFICES ASSUME NEW w \in Workers, task'[w].pc = "delete", GVK(task'[w].plan) = MariaDBKind,
                      NEW d \in InstanceIDs, composites'[<<DatabaseKind, d>>] # Absent,
                      composites'[<<DatabaseKind, d>>].parent = task'[w].req.id
               PROVE  d \in late'[w]
    BY DEF ChildrenAreLate, Children, GVK
  <1> DEFINE k == <<DatabaseKind, d>>
  <1> DEFINE id == task[w].req.id
  <1>1. CASE task'[w] = task[w]
    <2>1. CASE composites[k] # Absent
      <3>1. k \in Keys
        BY ParentKeys
      <3>2. composites'[k].parent = composites[k].parent
        BY <2>1, <3>1, ObjectKept
      <3>3. d \in Children(id)
        BY <1>1, <2>1, <3>2 DEF Children
      <3> QED
        BY <1>1, <3>3, NextLate DEF ChildrenAreLate
    <2>2. CASE composites[k] = Absent
      BY <1>1, <2>2, NextLate
    <2> QED
      BY <2>1, <2>2
  <1>2. CASE GoesOn(w) /\ UNCHANGED <<composites, known>>
    <2>1. task'[w].req.id = id /\ id \in InstanceIDs
      BY <1>2, BusyOK DEF GoesOn
    <2>2. d \in Children(id)
      BY <1>2, <2>1 DEF Children
    <2>3. composites[Key(task'[w].plan, id)] # Absent
            => composites[Key(task'[w].plan, id)].ServiceName = MariaDBService
      BY <2>1 DEF Key, ServicesFitKinds
    <2> QED
      BY <1>2, <2>2, <2>3 DEF GoesOn
  <1> QED
    BY <1>1, <1>2, StepOnTask DEF Moves
-----------------------------------------------------------------------------
\* The invariant about parents holds in every reachable state.
THEOREM ParentInvHolds ==
  ASSUME KindsOfServices
  PROVE  Spec => []ParentInv
  <1>1. Init => ParentInv
    <2> SUFFICES ASSUME Init PROVE ParentInv
      OBVIOUS
    <2>1. \A w \in Workers : task[w].pc = "idle"
      BY DEF Init, Idle
    <2>2. \A k \in Keys : composites[k] = Absent
      BY DEF Init
    <2> QED
      BY <2>1, <2>2, ParentKeys DEF ParentInv, ServicesFitKinds, InstancesAreKnown, ParentSeen,
                                    ParentWasInstance, ChildrenAreLate
  <1>2. Inv /\ ParentInv /\ [Next]_vars => ParentInv'
    BY NextServicesFit, NextKnown, NextParentSeen, NextParentWasInstance, NextOnlyLate DEF ParentInv
  <1> QED
    BY <1>1, <1>2, InvHolds, PTL DEF Spec

\* The parent of a database, in label and parameters, was a MariaDB instance at
\* some time: no interleaving of creations, updates and deletions lets a
\* parent be stored that ValidateProvisionParams has not seen.
THEOREM ParentsWereInstances ==
  ASSUME KindsOfServices
  PROVE  Spec => []ParentWasInstance
  <1>1. ParentInv => ParentWasInstance
    BY DEF ParentInv
  <1> QED
    BY <1>1, ParentInvHolds, PTL

-----------------------------------------------------------------------------
\* What a database that no update has moved has for a parent is in its label.
LabelUntilMoved ==
  \A d \in InstanceIDs :
    LET o == composites[<<DatabaseKind, d>>]
    IN (o # Absent /\ d \notin moved) => o.params.parent = o.parent

\* The parent in the parameters of a database changes in an update only, which
\* makes the database a moved one; only a creation takes it out of these.
LEMMA StepOnParent ==
  ASSUME Inv, [Next]_vars, NEW d \in InstanceIDs, composites[<<DatabaseKind, d>>] # Absent,
         composites'[<<DatabaseKind, d>>] # Absent, d \notin moved'
  PROVE  /\ d \notin moved
         /\ composites'[<<DatabaseKind, d>>].params.parent = composites[<<DatabaseKind, d>>].params.parent
  <1> USE DEF Inv, TypeOK
  <1> DEFINE k == <<DatabaseKind, d>>
  <1> DEFINE Same == composites' = composites /\ moved' = moved
  <1>0. k \in Keys /\ k[1] = DatabaseKind /\ k[2] = d
    BY ParentKeys
  <1> HIDE DEF k
  <1>1. CASE \E w \in Workers : CreateInstance(w)
    <2>1. PICK w \in Workers : CreateInstance(w)
      BY <1>1
    <2> DEFINE l == Key(task[w].plan, task[w].req.id)
    <2>2. CASE Refuse(w, "error") \/ Refuse(w, "panic")
      BY <2>2 DEF Refuse, Reply, k
    <2>3. CASE /\ composites[l] = Absent
               /\ composites' = [composites EXCEPT ![l] = NewComposite(task[w].plan, task[w].req)]
               /\ moved' = IF l[1] = DatabaseKind THEN moved \ {l[2]} ELSE moved
      <3>1. l = <<l[1], l[2]>>
        BY DEF Key
      <3> HIDE DEF l
      <3> QED
        BY <2>3, <3>1 DEF k
    <2> QED
      BY <2>1, <2>2, <2>3 DEF CreateInstance
  <1>2. CASE \E w \in Workers : UpdateInstance(w)
    <2>1. PICK w \in Workers : UpdateInstance(w)
      BY <1>2
    <2> DEFINE l == Key(task[w].req.newPlan, task[w].req.id)
    <2> DEFINE o == UpdatedComposite(task[w].inst, task[w].req.newPlan, task[w].req)
    <2>2. CASE Refuse(w, "error")
      BY <2>2 DEF Refuse, Reply, k
    <2>3. CASE /\ composites' = [composites EXCEPT ![l] = o]
               /\ moved' = IF l[1] = DatabaseKind /\ o.params.parent # composites[l].params.parent
                             THEN moved \cup {l[2]} ELSE moved
      <3> HIDE DEF l, o
      <3>1. d \notin moved
        BY <2>3
      <3>2. CASE l = k
        <4>1. composites'[k] = o
          BY <1>0, <2>3, <3>2
        <4>2. o.params.parent = composites[k].params.parent
          BY <1>0, <2>3, <3>2
        <4> QED
          BY <3>1, <4>1, <4>2 DEF k
      <3>3. CASE l # k
        BY <1>0, <2>3, <3>1, <3>3 DEF k
      <3> QED
        BY <3>2, <3>3
    <2> QED
      BY <2>1, <2>2, <2>3 DEF UpdateInstance
  <1>3. CASE \E w \in Workers : DeleteInstance(w)
    <2>1. PICK w \in Workers : DeleteInstance(w)
      BY <1>3
    <2> DEFINE l == Key(task[w].plan, task[w].req.id)
    <2>2. CASE Refuse(w, "error")
      BY <2>2 DEF Refuse, Reply, k
    <2>3. CASE /\ composites[l] # Absent /\ moved' = moved
               /\ composites' = [composites EXCEPT ![l] = Deleted(composites[l])]
      <3>1. Deleted(composites[l]) \in {Absent, [composites[l] EXCEPT !.deleting = TRUE]}
        BY DEF Deleted
      <3> HIDE DEF l
      <3>2. composites'[k] \in {composites[k], Absent, [composites[k] EXCEPT !.deleting = TRUE]}
        BY <1>0, <2>3, <3>1
      <3>3. composites[k] \in Composite
        BY <1>0 DEF k
      <3> QED
        BY <2>3, <3>2, <3>3 DEF Composite, k
    <2> QED
      BY <2>1, <2>2, <2>3 DEF DeleteInstance
  <1>4. CASE \E l \in Keys : Finalize(l)
    BY <1>0, <1>4 DEF Finalize, k
  <1>5. CASE \E l \in Keys, reason \in Reasons : Reconcile(l, reason)
    <2>1. composites[k] \in Composite
      BY <1>0 DEF k
    <2>2. moved' = moved
          /\ \E reason \in Reasons :
               composites'[k] \in {composites[k], [composites[k] EXCEPT !.reason = reason]}
      BY <1>0, <1>5 DEF Reconcile
    <2> QED
      BY <2>1, <2>2 DEF Composite, k
  <1>6. CASE \E w \in Workers : \/ ProvisionGet(w) \/ ValidateProvisionParams(w)
                                \/ GetPlanInstance(w) \/ FindInstanceWithoutPlan(w)
                                \/ Deprovisionable(w) \/ Abort(w)
    <2>1. PICK w \in Workers : \/ ProvisionGet(w) \/ ValidateProvisionParams(w)
                               \/ GetPlanInstance(w) \/ FindInstanceWithoutPlan(w)
                               \/ Deprovisionable(w) \/ Abort(w)
      BY <1>6
    <2>2. ASSUME NEW code, NEW p, Reply(w, code, p) PROVE Same
      BY <2>2 DEF Reply
    <2>3. ASSUME NEW name, NEW pc, NEW p, NEW o, ValidateParams(w, name, pc, p, o) PROVE Same
      BY <2>2, <2>3 DEF ValidateParams, Refuse, Continue
    <2>4. ASSUME NEW p, NEW o, Found(w, p, o) PROVE Same
      BY <2>2, <2>3, <2>4
         DEF Found, UpdateFound, DeprovisionFound, GetInstanceFound, LastOperationFound, Continue
    <2>5. CASE ProvisionGet(w) \/ ValidateProvisionParams(w)
      BY <2>2, <2>3, <2>5 DEF ProvisionGet, ValidateProvisionParams, Refuse, Continue, k
    <2>6. CASE GetPlanInstance(w) \/ FindInstanceWithoutPlan(w)
      BY <2>2, <2>4, <2>6 DEF GetPlanInstance, FindInstanceWithoutPlan, Refuse, k
    <2>7. CASE Deprovisionable(w) \/ Abort(w)
      BY <2>2, <2>7 DEF Deprovisionable, Abort, Refuse, Continue, k
    <2> QED
      BY <2>1, <2>5, <2>6, <2>7
  <1>7. CASE (\E w \in Workers, r \in Requests : Receive(w, r)) \/ UNCHANGED vars
    BY <1>7 DEF Receive, vars, k
  <1> QED
    BY <1>1, <1>2, <1>3, <1>4, <1>5, <1>6, <1>7 DEF Next, Step

\* A new database has its parent in both places, and stays so until it is moved.
LEMMA NextLabelUntilMoved ==
  ASSUME Inv, LabelUntilMoved, [Next]_vars
  PROVE  LabelUntilMoved'
  <1> SUFFICES ASSUME NEW d \in InstanceIDs, composites'[<<DatabaseKind, d>>] # Absent, d \notin moved'
               PROVE  composites'[<<DatabaseKind, d>>].params.parent = composites'[<<DatabaseKind, d>>].parent
    BY DEF LabelUntilMoved
  <1> DEFINE k == <<DatabaseKind, d>>
  <1>1. k \in Keys
    BY ParentKeys
  <1>2. CASE composites[k] # Absent
    <2>1. d \notin moved /\ composites'[k].params.parent = composites[k].params.parent
      BY <1>2, StepOnParent
    <2>2. composites'[k].parent = composites[k].parent
      BY <1>1, <1>2, ObjectKept
    <2> QED
      BY <1>2, <2>1, <2>2 DEF LabelUntilMoved
  <1>3. CASE composites[k] = Absent
    <2>1. PICK w \in Workers : composites'[k] = NewComposite(task[w].plan, task[w].req)
      BY <1>1, <1>3, ObjectKept
    <2>2. NewComposite(task[w].plan, task[w].req).parent
            = NewComposite(task[w].plan, task[w].req).params.parent
      BY DEF NewComposite
    <2> QED
      BY <2>1, <2>2
  <1> QED
    BY <1>2, <1>3

\* Deprovision removes a MariaDB instance from under a database that has its
\* label, or that refers to it in its parameters and has not got there by an
\* update, only if the database was created after Deprovisionable listed them.
THEOREM OnlyLateDatabasesAreOrphaned ==
  ASSUME KindsOfServices
  PROVE  Spec => []OnlyLateDatabasesLoseParent
  <1>1. Init => LabelUntilMoved
    BY ParentKeys DEF Init, LabelUntilMoved
  <1>2. Inv /\ LabelUntilMoved /\ [Next]_vars => LabelUntilMoved'
    BY NextLabelUntilMoved
  <1>3. ParentInv /\ LabelUntilMoved => OnlyLateDatabasesLoseParent
    BY DEF ParentInv, ChildrenAreLate, LabelUntilMoved, OnlyLateDatabasesLoseParent, Children, ReferringTo
  <1> QED
    BY <1>1, <1>2, <1>3, InvHolds, ParentInvHolds, PTL DEF Spec
=============================================================================
