--------------------------- MODULE BindingsProofs ---------------------------
(***************************************************************************)
(* Proofs about module Bindings, for any number of bindings, workers and   *)
(* passwords.                                                              *)
(*                                                                         *)
(* Inv is inductive, whatever the platform does (Overlap, Rebind): it says *)
(* that every copy of a password of a binding that was not unbound is the  *)
(* one in its Secret, and that nothing of such a binding is on its way     *)
(* out.  SerialInv adds what is true when the platform serialises the      *)
(* requests for a binding.                                                 *)
(***************************************************************************)
EXTENDS Bindings, TLAPS

StoredPassword(b, pw) == secret[b] # Absent /\ secret[b].pw = pw

\* What a worker knows at each of its steps.
TaskOK(t) ==
  /\ t.pc = "idle" => t = Idle
  /\ t.pc # "idle" => t.op \in Ops /\ t.b \in BindingIDs
  /\ t.op = "Unbind" => t.b \in unbound
  /\ t.pc \in {"marking", "markSecret", "markUser", "own", "delete"} => t.op = "Unbind"
  /\ t.pc \in {"parent", "secret", "composite", "endpoint"} => t.op = "Bind"
  /\ t.pc \in {"redis", "get", "connection", "cluster"} => t.op # "Unbind"
  /\ t.pc \in {"get", "connection"} => t.op # "Bind"
  /\ t.pc = "redis" => service = RedisService
  /\ t.pc \notin {"idle", "instance", "redis"} => service = MariaDBDatabaseService
  /\ t.pc = "composite" => t.pw # NoPassword
  /\ (t.b \notin unbound /\ t.pw # NoPassword) => StoredPassword(t.b, t.pw)
  /\ (t.b \notin unbound /\ t.op = "Bind" /\ t.pc \in {"endpoint", "cluster"}) => cmp[t.b] # Absent

\* A binding for which no Unbind was received.
Kept(b) ==
  /\ secret[b] # Absent => secret[b].owner = "none"
  /\ user[b] # Absent =>
       /\ ~user[b].deleting
       /\ user[b].pw # NoPassword => StoredPassword(b, user[b].pw)
  /\ cmp[b] # Absent =>
       /\ ~cmp[b].deleting
       /\ cmp[b].pub # NoPassword => StoredPassword(b, cmp[b].pub)
  /\ (b \in bound /\ service = MariaDBDatabaseService) => cmp[b] # Absent

Inv ==
  /\ TypeOK
  /\ \A w \in Workers : TaskOK(task[w])
  /\ \A b \in BindingIDs \ unbound : Kept(b)
  /\ HandedPasswordIsStored
  /\ BoundIsFound

\* What a step may not do to a binding for which no Unbind was received.
KeepsBindings ==
  /\ unbound \subseteq unbound'
  /\ \A b \in BindingIDs \ unbound' :
       /\ secret[b] # Absent => secret'[b] # Absent /\ secret'[b].pw = secret[b].pw
       /\ cmp[b] # Absent => cmp'[b] # Absent
-----------------------------------------------------------------------------
\* The task of a free worker.
LEMMA IdleOK == Idle \in Task /\ Idle.pc = "idle" /\ Idle.pw = NoPassword /\ TaskOK(Idle)
  BY DEF Idle, Task, PCs, TaskOK, Ops

\* What holds of a worker that is handling a request.
LEMMA BusyOK ==
  ASSUME Inv, NEW w \in Workers, task[w].pc # "idle"
  PROVE  /\ task[w] \in Task /\ TaskOK(task[w])
         /\ task[w].b \in BindingIDs /\ task[w].op \in Ops
  BY DEF Inv, TypeOK, TaskOK

\* A worker that does nothing knows what it knew.
LEMMA OtherTasks ==
  ASSUME Inv, KeepsBindings, service' = service, NEW v \in Workers, task'[v] = task[v]
  PROVE  TaskOK(task[v])'
  <1>1. TaskOK(task[v]) /\ task[v] \in Task
    BY DEF Inv, TypeOK
  <1>2. task[v].b \in BindingIDs \/ task[v] = Idle
    BY <1>1 DEF TaskOK
  <1>3. CASE task[v] = Idle
    BY <1>3 DEF TaskOK, Idle
  <1>4. CASE task[v].b \in BindingIDs
    BY <1>1, <1>4 DEF TaskOK, KeepsBindings, StoredPassword
  <1> QED
    BY <1>2, <1>3, <1>4

\* Where no object changes, bindings stay as they are.
LEMMA ObjectsKept ==
  ASSUME Inv, UNCHANGED objects, unbound \subseteq unbound',
         \A b \in (bound' \ bound) \ unbound' :
           service = MariaDBDatabaseService => cmp[b] # Absent
  PROVE  KeepsBindings /\ \A b \in BindingIDs \ unbound' : Kept(b)'
  BY DEF Inv, TypeOK, objects, KeepsBindings, Kept, StoredPassword

\* Answering without a write keeps the invariant, if "bindingGone" is true.
LEMMA RefuseInv ==
  ASSUME Inv, NEW w \in Workers, NEW code \in Codes, Refuse(w, code), task[w].pc # "idle",
         code = "bindingGone" => task[w].b \notin bound \/ task[w].b \in unbound
  PROVE  Inv'
  <1>1. task[w].op \in Ops /\ task[w].b \in BindingIDs
    BY BusyOK
  <1>2. KeepsBindings /\ \A b \in BindingIDs \ unbound' : Kept(b)'
    BY ObjectsKept DEF Refuse, history
  <1>3. \A v \in Workers : TaskOK(task[v])'
    <2> SUFFICES ASSUME NEW v \in Workers PROVE TaskOK(task[v])'
      OBVIOUS
    <2>1. CASE v = w
      BY <2>1 DEF Refuse, Reply, TaskOK, Idle, Inv, TypeOK
    <2>2. CASE v # w
      BY <1>2, <2>2, OtherTasks DEF Refuse, Reply, objects, Inv, TypeOK
    <2> QED
      BY <2>1, <2>2
  <1>4. TypeOK'
    BY <1>1, IdleOK DEF Refuse, Reply, objects, history, Inv, TypeOK
  <1>5. HandedPasswordIsStored' /\ BoundIsFound'
    BY DEF Refuse, Reply, history, HandedPasswordIsStored, BoundIsFound
  <1> QED
    BY <1>2, <1>3, <1>4, <1>5 DEF Inv

\* Going on without a write keeps it, if the new task is as TaskOK says.
LEMMA GotoInv ==
  ASSUME Inv, NEW w \in Workers, NEW t \in Task, TaskOK(t),
         task' = [task EXCEPT ![w] = t], resp' = NoResp, UNCHANGED <<objects, history>>,
         secretFresh' \subseteq Workers, userFresh' \subseteq Workers
  PROVE  Inv'
  <1>2. KeepsBindings /\ \A b \in BindingIDs \ unbound' : Kept(b)'
    BY ObjectsKept DEF history
  <1>3. \A v \in Workers : TaskOK(task[v])'
    <2> SUFFICES ASSUME NEW v \in Workers PROVE TaskOK(task[v])'
      OBVIOUS
    <2>1. CASE v = w
      <3>1. task'[w] = t
        BY DEF Inv, TypeOK
      <3> QED
        BY <2>1, <3>1 DEF TaskOK, objects, history, StoredPassword
    <2>2. CASE v # w
      BY <1>2, <2>2, OtherTasks DEF objects, Inv, TypeOK
    <2> QED
      BY <2>1, <2>2
  <1>4. TypeOK'
    BY DEF objects, history, Inv, TypeOK, NoResp, Codes
  <1>5. HandedPasswordIsStored' /\ BoundIsFound'
    BY DEF NoResp, HandedPasswordIsStored, BoundIsFound
  <1> QED
    BY <1>2, <1>3, <1>4, <1>5 DEF Inv

\* A step that writes objects, and what has to be seen of it.
LEMMA WriteInv ==
  ASSUME Inv, TypeOK', KeepsBindings, service' = service, UNCHANGED history,
         \A b \in BindingIDs \ unbound : Kept(b)',
         \A v \in Workers : task'[v] = task[v] \/ TaskOK(task[v])',
         resp'.pw = NoPassword, resp'.code # "bindingGone"
  PROVE  Inv'
  <1>1. \A v \in Workers : TaskOK(task[v])'
    BY OtherTasks
  <1>2. HandedPasswordIsStored' /\ BoundIsFound'
    BY DEF HandedPasswordIsStored, BoundIsFound
  <1> QED
    BY <1>1, <1>2 DEF Inv, history

\* Succeed hands out a password that is stored, for a binding that is there.
LEMMA SucceedInv ==
  ASSUME Inv, NEW w \in Workers, NEW pw \in Passwords \cup {NoPassword}, Succeed(w, pw),
         task[w].pc # "idle", task[w].op # "Unbind", userFresh' = userFresh \ {w},
         task[w].b \notin unbound =>
           /\ pw # NoPassword => StoredPassword(task[w].b, pw)
           /\ (task[w].op = "Bind" /\ service = MariaDBDatabaseService) => cmp[task[w].b] # Absent
  PROVE  Inv'
  <1> DEFINE t == task[w]
  <1>1. t \in Task /\ t.op \in Ops /\ t.b \in BindingIDs /\ TaskOK(t)
    BY BusyOK
  <1>2. /\ UNCHANGED <<objects, secretFresh, unbound>>
        /\ bound' = IF t.op = "Bind" THEN bound \cup {t.b} ELSE bound
    BY DEF Succeed
  <1>3. PICK code \in Codes \ {"bindingGone"}, p \in {pw, NoPassword} : Reply(w, code, p)
    <2>1. t.op \in {"Bind", "GetBinding", "LastBindingOperation"} /\ t.async \in BOOLEAN
      BY <1>1 DEF Ops, Task
    <2> HIDE DEF t
    <2> QED
      BY <2>1 DEF Succeed, Codes, t
  <1>4. KeepsBindings /\ \A b \in BindingIDs \ unbound' : Kept(b)'
    <2>1. \A b \in (bound' \ bound) \ unbound' : service = MariaDBDatabaseService => cmp[b] # Absent
      BY <1>2
    <2> QED
      BY <1>2, <2>1, ObjectsKept
  <1>5. \A v \in Workers : TaskOK(task[v])'
    <2> SUFFICES ASSUME NEW v \in Workers PROVE TaskOK(task[v])'
      OBVIOUS
    <2>1. CASE v = w
      BY <1>3, <2>1 DEF Reply, TaskOK, Idle, Inv, TypeOK
    <2>2. CASE v # w
      BY <1>2, <1>3, <1>4, <2>2, OtherTasks DEF Reply, objects, Inv, TypeOK
    <2> QED
      BY <2>1, <2>2
  <1>6. TypeOK'
    <2>1. bound' \subseteq BindingIDs
      BY <1>1, <1>2 DEF Inv, TypeOK
    <2>2. task' \in [Workers -> Task] /\ userFresh' \subseteq Workers
      BY <1>3, IdleOK DEF Reply, Inv, TypeOK
    <2>3. resp' \in [code : Codes, op : Ops \cup {"none"}, b : BindingIDs \cup {NoBinding},
                     pw : Passwords \cup {NoPassword}]
      BY <1>1, <1>3 DEF Reply
    <2> QED
      BY <1>2, <2>1, <2>2, <2>3 DEF objects, Inv, TypeOK
  <1>7. HandedPasswordIsStored' /\ BoundIsFound'
    BY <1>2, <1>3 DEF Reply, HandedPasswordIsStored, BoundIsFound, StoredPassword, objects
  <1> QED
    BY <1>4, <1>5, <1>6, <1>7 DEF Inv

\* BinderFailed only answers; "bindingGone" has to be true.
LEMMA BinderFailedInv ==
  ASSUME Inv, NEW w \in Workers, task[w].pc # "idle",
         NEW err \in {"bindingGone", "notFound", "other", "notReady"}, BinderFailed(w, err),
         err = "bindingGone" => task[w].b \notin bound \/ task[w].b \in unbound
  PROVE  Inv'
  <1>1. PICK code \in Codes : Refuse(w, code) /\ (code = "bindingGone" => err = "bindingGone")
    BY DEF BinderFailed, Codes
  <1> QED
    BY <1>1, RefuseInv
-----------------------------------------------------------------------------
LEMMA ReceiveInv ==
  ASSUME Inv, NEW w \in Workers, NEW op \in Calls, NEW b \in BindingIDs, NEW async \in BOOLEAN,
         Receive(w, op, b, async)
  PROVE  Inv'
  <1> DEFINE t == [pc |-> "instance", op |-> op, b |-> b, async |-> async, pw |-> NoPassword]
  <1>1. op \in Ops /\ t \in Task
    BY BindingsAssumption DEF Task, PCs
  <1>2. /\ task' = [task EXCEPT ![w] = t]
        /\ resp' = NoResp
        /\ unbound' = IF op = "Unbind" THEN unbound \cup {b} ELSE unbound
        /\ UNCHANGED <<objects, secretFresh, userFresh, bound>>
    BY DEF Receive
  <1>3. KeepsBindings /\ \A c \in BindingIDs \ unbound' : Kept(c)'
    BY <1>2, ObjectsKept
  <1>4. \A v \in Workers : TaskOK(task[v])'
    <2> SUFFICES ASSUME NEW v \in Workers PROVE TaskOK(task[v])'
      OBVIOUS
    <2>1. CASE v = w
      <3>1. task'[v] = t
        BY <1>2, <2>1 DEF Inv, TypeOK
      <3> QED
        BY <1>1, <1>2, <3>1 DEF TaskOK
    <2>2. CASE v # w
      BY <1>2, <1>3, <2>2, OtherTasks DEF objects, Inv, TypeOK
    <2> QED
      BY <2>1, <2>2
  <1>5. TypeOK'
    <2> HIDE DEF t
    <2> QED
      BY <1>1, <1>2 DEF objects, Inv, TypeOK, NoResp, Codes
  <1>6. HandedPasswordIsStored' /\ BoundIsFound'
    BY <1>2 DEF NoResp, HandedPasswordIsStored, BoundIsFound
  <1> QED
    BY <1>3, <1>4, <1>5, <1>6 DEF Inv

\* Going on at another pc, as Continue and Goto do.
LEMMA ContinueInv ==
  ASSUME Inv, NEW w \in Workers, NEW pc \in PCs, Goto(w, pc), task[w].pc # "idle",
         secretFresh' \subseteq Workers, userFresh' \subseteq Workers,
         TaskOK([task[w] EXCEPT !.pc = pc])
  PROVE  Inv'
  <1>1. [task[w] EXCEPT !.pc = pc] \in Task
    BY BusyOK DEF Task
  <1>2. task' = [task EXCEPT ![w] = [task[w] EXCEPT !.pc = pc]] /\ resp' = NoResp
        /\ UNCHANGED <<objects, history>>
    BY DEF Goto, Inv, TypeOK
  <1> QED
    BY <1>1, <1>2, GotoInv

LEMMA ServiceBinderFactoryInv ==
  ASSUME Inv, NEW w \in Workers, task[w].pc = "instance", ServiceBinderFactory(w)
  PROVE  Inv'
  <1>1. /\ task[w] \in Task /\ TaskOK(task[w])
        /\ task[w].b \in BindingIDs /\ task[w].op \in Ops
    BY BusyOK
  <1>2. CASE service = MariaDBDatabaseService /\
             Continue(w, CASE task[w].op = "Bind" -> "parent" [] task[w].op = "Unbind" -> "marking"
                           [] OTHER -> "get")
    <2>1. PICK pc \in {"parent", "marking", "get"} :
            /\ Continue(w, pc)
            /\ pc = "parent" => task[w].op = "Bind"
            /\ pc = "marking" <=> task[w].op = "Unbind"
            /\ pc = "get" => task[w].op # "Bind"
      BY <1>2, Zenon
    <2>2. TaskOK([task[w] EXCEPT !.pc = pc])
      BY <1>1, <1>2, <2>1 DEF TaskOK, Task
    <2> QED
      BY <1>1, <2>1, <2>2, ContinueInv DEF Continue, PCs, Inv, TypeOK
  <1>3. CASE MariadbServiceBinder(w)
    BY <1>1, <1>3, RefuseInv DEF MariadbServiceBinder, Codes
  <1>4. CASE service = RedisService /\ RedisServiceBinder(w)
    <2>1. CASE Refuse(w, "ok")
      BY <1>1, <2>1, RefuseInv DEF Codes
    <2>2. CASE task[w].op # "Unbind" /\ Continue(w, "redis")
      <3>1. TaskOK([task[w] EXCEPT !.pc = "redis"])
        BY <1>1, <1>4, <2>2 DEF TaskOK, Task
      <3> QED
        BY <1>1, <2>2, <3>1, ContinueInv DEF Continue, PCs, Inv, TypeOK
    <2> QED
      BY <1>4, <2>1, <2>2 DEF RedisServiceBinder
  <1> QED
    BY <1>2, <1>3, <1>4 DEF ServiceBinderFactory

LEMMA GetPlanInstanceInv ==
  ASSUME Inv, NEW w \in Workers, GetPlanInstance(w)
  PROVE  Inv'
  BY RefuseInv, ServiceBinderFactoryInv DEF GetPlanInstance, Codes

LEMMA GetRedisBindingInv ==
  ASSUME Inv, NEW w \in Workers, GetRedisBinding(w)
  PROVE  Inv'
  <1>1. task[w].pc = "redis" /\ TaskOK(task[w]) /\ service # MariaDBDatabaseService
    BY BusyOK DEF GetRedisBinding, TaskOK, RedisService, MariaDBDatabaseService
  <1>2. CASE \E err \in {"other", "notFound"} : BinderFailed(w, err)
    BY <1>1, <1>2, BinderFailedInv
  <1>3. CASE Succeed(w, NoPassword)
    <2>1. userFresh' = userFresh \ {w}
      BY <1>1, <1>3, BusyOK DEF Succeed, Reply, Ops, Task, TaskOK
    <2> QED
      BY <1>1, <1>3, <2>1, SucceedInv DEF TaskOK
  <1> QED
    BY <1>2, <1>3 DEF GetRedisBinding

LEMMA BindParentInv ==
  ASSUME Inv, NEW w \in Workers, BindParent(w)
  PROVE  Inv'
  <1>1. task[w].pc = "parent" /\ TaskOK(task[w]) /\ task[w] \in Task
    BY BusyOK DEF BindParent
  <1>2. CASE Refuse(w, "error")
    BY <1>1, <1>2, RefuseInv DEF Codes
  <1>3. CASE Continue(w, "secret")
    <2>1. TaskOK([task[w] EXCEPT !.pc = "secret"])
      BY <1>1 DEF TaskOK, Task
    <2> QED
      BY <1>1, <1>3, <2>1, ContinueInv DEF Continue, PCs, Inv, TypeOK
  <1> QED
    BY <1>2, <1>3 DEF BindParent

\* The Secret is only made where there is none, with the password the worker
\* goes on with.
LEMMA BindSecretInv ==
  ASSUME Inv, NEW w \in Workers, BindSecret(w)
  PROVE  Inv'
  <1>b. PICK b \in BindingIDs : b = task[w].b
    BY BusyOK DEF BindSecret
  <1>1. /\ task[w].pc = "secret" /\ task[w] \in Task /\ TaskOK(task[w])
        /\ b = task[w].b /\ task[w].op = "Bind"
    BY <1>b, BusyOK DEF BindSecret, TaskOK
  <1>2. CASE Refuse(w, "error")
    BY <1>1, <1>2, RefuseInv DEF Codes
  <1>3. ASSUME secret[b] = Absent,
               NEW pw \in Generated,
               secret' = [secret EXCEPT ![b] = [pw |-> pw, owner |-> "none"]],
               task' = [task EXCEPT ![w].pc = "composite", ![w].pw = pw],
               resp' = NoResp,
               UNCHANGED <<instances, cmp, user, secretFresh, userFresh, history>>
        PROVE  Inv'
    <2> DEFINE t == [task[w] EXCEPT !.pc = "composite", !.pw = pw]
    <2>1. pw \in Passwords /\ pw # NoPassword
      BY BindingsAssumption DEF Generated
    <2>2. task' = [task EXCEPT ![w] = t] /\ t \in Task
      BY <1>1, <1>3, <2>1 DEF Inv, TypeOK, Task, PCs
    <2>3. t.pc = "composite" /\ t.op = "Bind" /\ t.b = b /\ t.pw = pw
      BY <1>1 DEF Task
    <2> HIDE DEF t
    <2>4. StoredPassword(b, pw)' /\ secret'[b].owner = "none"
      <3>1. secret'[b] = [pw |-> pw, owner |-> "none"]
        BY <1>1, <1>3 DEF Inv, TypeOK
      <3>2. secret'[b] \in Secret /\ secret'[b] # Absent
        BY <3>1, <2>1, ObjectAssumption DEF Secret
      <3> QED
        BY <3>1, <3>2 DEF StoredPassword
    <2>5. \A c \in BindingIDs \ {b} : secret'[c] = secret[c]
      BY <1>1, <1>3 DEF Inv, TypeOK
    <2>6. TypeOK'
      <3>1. [pw |-> pw, owner |-> "none"] \in Secret
        BY <2>1 DEF Secret
      <3>2. secret' \in [BindingIDs -> Secret \cup {Absent}]
        BY <1>1, <1>3, <3>1 DEF Inv, TypeOK
      <3> QED
        BY <1>3, <2>2, <3>2 DEF Inv, TypeOK, instances, history, NoResp, Codes
    <2>7. KeepsBindings
      BY <1>3, <2>5 DEF KeepsBindings, history
    <2>8. \A c \in BindingIDs \ unbound : Kept(c)'
      <3> SUFFICES ASSUME NEW c \in BindingIDs \ unbound PROVE Kept(c)'
        OBVIOUS
      <3>1. Kept(c)
        BY DEF Inv
      <3>2. CASE c = b
        BY <1>3, <2>4, <3>1, <3>2 DEF Kept, StoredPassword, instances, history
      <3>3. CASE c # b
        BY <1>3, <2>5, <3>1, <3>3 DEF Kept, StoredPassword, instances, history
      <3> QED
        BY <3>2, <3>3
    <2>9. \A v \in Workers : task'[v] = task[v] \/ TaskOK(task[v])'
      <3> SUFFICES ASSUME NEW v \in Workers PROVE task'[v] = task[v] \/ TaskOK(task[v])'
        OBVIOUS
      <3>1. CASE v = w
        <4>1. task'[v] = t
          BY <2>2, <3>1 DEF Inv, TypeOK
        <4> QED
          BY <1>1, <1>3, <2>1, <2>3, <2>4, <4>1 DEF TaskOK, instances, history
      <3>2. CASE v # w
        BY <2>2, <3>2 DEF Inv, TypeOK
      <3> QED
        BY <3>1, <3>2
    <2> QED
      BY <1>3, <2>6, <2>7, <2>8, <2>9, WriteInv DEF instances, NoResp
  <1>4. Refuse(w, "error") \/
          /\ secret[b] = Absent
          /\ \E pw \in Generated :
               /\ secret' = [secret EXCEPT ![b] = [pw |-> pw, owner |-> "none"]]
               /\ task' = [task EXCEPT ![w].pc = "composite", ![w].pw = pw]
          /\ resp' = NoResp
          /\ UNCHANGED <<instances, cmp, user, secretFresh, userFresh, history>>
    BY <1>b DEF BindSecret
  <1> QED
    BY <1>2, <1>3, <1>4

\* A new composite publishes no password; one that exists is not touched.
LEMMA BindCompositeInv ==
  ASSUME Inv, NEW w \in Workers, BindComposite(w)
  PROVE  Inv'
  <1>b. PICK b \in BindingIDs : b = task[w].b
    BY BusyOK DEF BindComposite
  <1>1. /\ task[w].pc = "composite" /\ task[w] \in Task /\ TaskOK(task[w])
        /\ b = task[w].b /\ task[w].op = "Bind"
    BY <1>b, BusyOK DEF BindComposite, TaskOK
  <1>2. /\ cmp' = IF cmp[b] = Absent THEN [cmp EXCEPT ![b] = NewBinding] ELSE cmp
        /\ task' = [task EXCEPT ![w].pc = "endpoint"]
        /\ resp' = NoResp
        /\ UNCHANGED <<instances, secret, user, secretFresh, userFresh, history>>
    BY <1>b DEF BindComposite
  <1> DEFINE t == [task[w] EXCEPT !.pc = "endpoint"]
  <1>3. task' = [task EXCEPT ![w] = t] /\ t \in Task
    BY <1>1, <1>2 DEF Inv, TypeOK, Task, PCs
  <1>4. t.pc = "endpoint" /\ t.op = "Bind" /\ t.b = b /\ t.pw = task[w].pw
    BY <1>1 DEF Task
  <1> HIDE DEF t
  <1>5. NewBinding \in Binding /\ NewBinding # Absent /\ ~NewBinding.deleting
        /\ NewBinding.pub = NoPassword
    <2>1. NewBinding \in Binding
      BY DEF NewBinding, Binding
    <2> QED
      BY <2>1, ObjectAssumption DEF NewBinding
  <1>6. /\ \A c \in BindingIDs : cmp'[c] = IF c = b /\ cmp[b] = Absent THEN NewBinding ELSE cmp[c]
        /\ cmp' \in [BindingIDs -> Binding \cup {Absent}]
    BY <1>2, <1>5 DEF Inv, TypeOK
  <1>7. TypeOK'
    BY <1>2, <1>3, <1>6 DEF Inv, TypeOK, instances, history, NoResp, Codes
  <1>8. KeepsBindings
    BY <1>2, <1>6 DEF KeepsBindings, history
  <1>9. \A c \in BindingIDs \ unbound : Kept(c)'
    BY <1>2, <1>5, <1>6 DEF Inv, Kept, StoredPassword, instances, history
  <1>10. \A v \in Workers : task'[v] = task[v] \/ TaskOK(task[v])'
    <2> SUFFICES ASSUME NEW v \in Workers PROVE task'[v] = task[v] \/ TaskOK(task[v])'
      OBVIOUS
    <2>1. CASE v = w
      <3>1. task'[v] = t
        BY <1>3, <2>1 DEF Inv, TypeOK
      <3> QED
        BY <1>1, <1>2, <1>4, <1>5, <1>6, <3>1 DEF TaskOK, StoredPassword, instances, history
    <2>2. CASE v # w
      BY <1>3, <2>2 DEF Inv, TypeOK
    <2> QED
      BY <2>1, <2>2
  <1> QED
    BY <1>2, <1>7, <1>8, <1>9, <1>10, WriteInv DEF instances, NoResp

LEMMA BindEndpointInv ==
  ASSUME Inv, NEW w \in Workers, BindEndpoint(w)
  PROVE  Inv'
  <1>1. task[w].pc = "endpoint" /\ TaskOK(task[w]) /\ task[w] \in Task
    BY BusyOK DEF BindEndpoint
  <1>2. CASE Refuse(w, "error")
    BY <1>1, <1>2, RefuseInv DEF Codes
  <1>3. CASE \E err \in {"notFound", "other"} : BinderFailed(w, err)
    BY <1>1, <1>3, BinderFailedInv
  <1>4. CASE Continue(w, "cluster")
    <2>1. TaskOK([task[w] EXCEPT !.pc = "cluster"])
      BY <1>1 DEF TaskOK, Task
    <2> QED
      BY <1>1, <1>4, <2>1, ContinueInv DEF Continue, PCs, Inv, TypeOK
  <1> QED
    BY <1>2, <1>3, <1>4 DEF BindEndpoint, mapMariadbEndpoint

\* What both readers of the cluster label answer with.
LEMMA ClusterSucceeds ==
  ASSUME Inv, NEW w \in Workers, task[w].pc = "cluster", Succeed(w, task[w].pw)
  PROVE  Inv'
  <1>1. TaskOK(task[w]) /\ task[w] \in Task /\ task[w].op \in Ops /\ task[w].op # "Unbind"
    BY BusyOK DEF TaskOK
  <1>2. userFresh' = userFresh \ {w}
    BY <1>1 DEF Succeed, Reply, Ops, Task
  <1>3. task[w].pw \in Passwords \cup {NoPassword}
    BY <1>1 DEF Task
  <1> QED
    BY <1>1, <1>2, <1>3, SucceedInv DEF TaskOK

LEMMA ClusterInv ==
  ASSUME Inv, NEW w \in Workers, BindCluster(w) \/ GetCluster(w)
  PROVE  Inv'
  <1>1. task[w].pc = "cluster"
    BY DEF BindCluster, GetCluster
  <1>2. CASE BindCluster(w)
    BY <1>1, <1>2, RefuseInv, ClusterSucceeds DEF BindCluster, Codes
  <1>3. CASE GetCluster(w)
    BY <1>1, <1>3, BinderFailedInv, ClusterSucceeds DEF GetCluster
  <1> QED
    BY <1>2, <1>3
-----------------------------------------------------------------------------
\* Unbind marks the binding before it does anything else, so what its steps
\* write does not concern a binding for which no Unbind was received.
LEMMA UnbindTask ==
  ASSUME Inv, NEW w \in Workers,
         task[w].pc \in {"marking", "markSecret", "markUser", "own", "delete"}
  PROVE  /\ task[w] \in Task /\ TaskOK(task[w]) /\ task[w].op = "Unbind"
         /\ task[w].b \in BindingIDs /\ task[w].b \in unbound
         /\ \A pc \in PCs : [task[w] EXCEPT !.pc = pc] \in Task
         /\ \A pc \in {"markSecret", "markUser", "own", "delete"} : TaskOK([task[w] EXCEPT !.pc = pc])
  <1>1. task[w] \in Task /\ TaskOK(task[w]) /\ task[w].op = "Unbind" /\ task[w].b \in BindingIDs
    BY BusyOK DEF TaskOK
  <1>2. service = MariaDBDatabaseService
    BY <1>1 DEF TaskOK
  <1> QED
    BY <1>1, <1>2 DEF TaskOK, Task

LEMMA MarkInv ==
  ASSUME Inv, NEW w \in Workers, MarkGetBinding(w) \/ MarkGetSecret(w) \/ MarkGetUser(w)
  PROVE  Inv'
  <1>1. task[w].pc \in {"marking", "markSecret", "markUser"}
    BY DEF MarkGetBinding, MarkGetSecret, MarkGetUser
  <1>2. CASE \E code \in {"bindingGone", "error"} : Refuse(w, code)
    BY <1>1, <1>2, UnbindTask, RefuseInv DEF Codes
  <1>3. CASE \E pc \in {"markSecret", "markUser", "own"} :
               /\ Goto(w, pc)
               /\ secretFresh' \subseteq Workers /\ userFresh' \subseteq Workers
    BY <1>1, <1>3, UnbindTask, ContinueInv DEF PCs
  <1> QED
    BY <1>2, <1>3 DEF MarkGetBinding, MarkGetSecret, MarkGetUser, UnbindNotFound, Continue, Inv, TypeOK

LEMMA MarkOwnedInv ==
  ASSUME Inv, NEW w \in Workers, MarkOwned(w)
  PROVE  Inv'
  <1>1. task[w].pc = "own"
    BY DEF MarkOwned
  <1>b. PICK b \in BindingIDs : b = task[w].b
    BY <1>1, UnbindTask
  <1>2. CASE \E code \in {"bindingGone", "error"} : Refuse(w, code)
    BY <1>1, <1>2, UnbindTask, RefuseInv DEF Codes
  <1>3. ASSUME NEW owner \in {"live", "dead"},
               secret[b] # Absent,
               secret' = [secret EXCEPT ![b].owner = owner],
               secretFresh' = IF secret[b].owner = owner THEN secretFresh \ {w} ELSE secretFresh \ On(b),
               task' = [task EXCEPT ![w].pc = "delete"],
               resp' = NoResp,
               UNCHANGED <<instances, cmp, user, userFresh, history>>
        PROVE  Inv'
    <2>1. /\ secret' = [secret EXCEPT ![b] = [secret[b] EXCEPT !.owner = owner]]
          /\ secret[b] \in Secret
      BY <1>3 DEF Inv, TypeOK
    <2>2. [secret[b] EXCEPT !.owner = owner] \in Secret
      BY <2>1 DEF Secret
    <2>3. secret' \in [BindingIDs -> Secret \cup {Absent}]
          /\ \A c \in BindingIDs \ {b} : secret'[c] = secret[c]
      BY <2>1, <2>2 DEF Inv, TypeOK
    <2>4. task' = [task EXCEPT ![w] = [task[w] EXCEPT !.pc = "delete"]]
      BY <1>3 DEF Inv, TypeOK
    <2>5. [task[w] EXCEPT !.pc = "delete"] \in Task /\ TaskOK([task[w] EXCEPT !.pc = "delete"])
      BY <1>1, UnbindTask DEF PCs
    <2>6. TypeOK'
      BY <1>3, <2>3, <2>4, <2>5 DEF Inv, TypeOK, instances, history, NoResp, Codes
    <2>7. b \in unbound
      BY <1>1, <1>b, UnbindTask
    <2>8. KeepsBindings /\ \A c \in BindingIDs \ unbound : Kept(c)'
      BY <1>3, <2>3, <2>7 DEF Inv, Kept, StoredPassword, KeepsBindings, instances, history
    <2>9. \A v \in Workers : task'[v] = task[v] \/ TaskOK(task[v])'
      <3> DEFINE t == [task[w] EXCEPT !.pc = "delete"]
      <3>1. t.b = b /\ TaskOK(t)
        BY <1>1, <1>b, <2>5, UnbindTask DEF Task
      <3> HIDE DEF t
      <3>2. \A v \in Workers : task'[v] = IF v = w THEN t ELSE task[v]
        BY <2>4 DEF Inv, TypeOK, t
      <3>3. service' = service /\ unbound' = unbound
        BY <1>3 DEF instances, history
      <3>4. t.op = "Unbind" /\ t.pc = "delete"
        BY <1>1, UnbindTask DEF t, Task
      <3>5. task'[w] = t => TaskOK(task[w])'
        BY <2>7, <3>1, <3>3, <3>4 DEF TaskOK
      <3> QED
        BY <3>2, <3>5
    <2> QED
      BY <1>3, <2>6, <2>8, <2>9, WriteInv DEF instances, NoResp
  <1>4. \/ \E code \in {"bindingGone", "error"} : Refuse(w, code)
        \/ /\ secret[b] # Absent
           /\ \E owner \in {"live", "dead"} :
                /\ secret' = [secret EXCEPT ![b].owner = owner]
                /\ secretFresh' = IF secret[b].owner = owner THEN secretFresh \ {w}
                                  ELSE secretFresh \ On(b)
           /\ task' = [task EXCEPT ![w].pc = "delete"]
           /\ resp' = NoResp
           /\ UNCHANGED <<instances, cmp, user, userFresh, history>>
    BY <1>b DEF MarkOwned, UnbindNotFound
  <1> QED
    BY <1>2, <1>3, <1>4

LEMMA UnbindDeleteInv ==
  ASSUME Inv, NEW w \in Workers, UnbindDelete(w)
  PROVE  Inv'
  <1>1. task[w].pc = "delete"
    BY DEF UnbindDelete
  <1>b. PICK b \in BindingIDs : b = task[w].b
    BY <1>1, UnbindTask
  <1>2. CASE Refuse(w, "bindingGone")
    BY <1>1, <1>2, UnbindTask, RefuseInv DEF Codes
  <1>3. CASE /\ cmp[b] # Absent
             /\ cmp' = [cmp EXCEPT ![b].deleting = TRUE]
             /\ Reply(w, "ok", NoPassword)
             /\ UNCHANGED <<instances, secret, user, secretFresh, history>>
    <2> DEFINE o == [cmp[b] EXCEPT !.deleting = TRUE]
    <2>1. cmp' = [cmp EXCEPT ![b] = o] /\ o \in Binding
      <3>1. cmp[b] \in Binding
        BY <1>3 DEF Inv, TypeOK
      <3>2. o \in Binding
        BY <3>1 DEF Binding
      <3> QED
        BY <1>3, <3>2 DEF Inv, TypeOK
    <2> HIDE DEF o
    <2>2. cmp' \in [BindingIDs -> Binding \cup {Absent}]
          /\ \A c \in BindingIDs \ {b} : cmp'[c] = cmp[c]
      BY <2>1 DEF Inv, TypeOK
    <2>3. task' = [task EXCEPT ![w] = Idle] /\ userFresh' = userFresh \ {w}
          /\ resp' = [code |-> "ok", op |-> task[w].op, b |-> b, pw |-> NoPassword]
      BY <1>b, <1>3 DEF Reply
    <2>4. TypeOK'
      <3>1. task[w].op \in Ops
        BY <1>1, BusyOK
      <3> QED
        BY <1>3, <2>2, <2>3, <3>1, IdleOK DEF Inv, TypeOK, instances, history, Codes
    <2>5. b \in unbound
      BY <1>1, <1>b, UnbindTask
    <2>6. KeepsBindings /\ \A c \in BindingIDs \ unbound : Kept(c)'
      BY <1>3, <2>2, <2>5 DEF Inv, Kept, StoredPassword, KeepsBindings, instances, history
    <2>7. \A v \in Workers : task'[v] = task[v] \/ TaskOK(task[v])'
      <3>1. \A v \in Workers : task'[v] = IF v = w THEN Idle ELSE task[v]
        BY <2>3 DEF Inv, TypeOK
      <3>2. task'[w] = Idle => TaskOK(task[w])'
        BY DEF TaskOK, Idle
      <3> QED
        BY <3>1, <3>2
    <2> QED
      BY <1>3, <2>3, <2>4, <2>6, <2>7, WriteInv DEF instances
  <1> QED
    BY <1>b, <1>2, <1>3 DEF UnbindDelete, UnbindNotFound
-----------------------------------------------------------------------------
\* A composite that GetBinding does not find was never promised: BoundIsFound.
LEMMA GetBindingInv ==
  ASSUME Inv, NEW w \in Workers, GetBinding(w)
  PROVE  Inv'
  <1>1. /\ task[w].pc = "get" /\ task[w] \in Task /\ TaskOK(task[w]) /\ task[w].b \in BindingIDs
        /\ service = MariaDBDatabaseService
    BY BusyOK DEF GetBinding, TaskOK
  <1>2. CASE cmp[task[w].b] = Absent /\ BinderFailed(w, "bindingGone")
    <2>1. task[w].b \notin bound \/ task[w].b \in unbound
      BY <1>1, <1>2 DEF Inv, Kept
    <2> QED
      BY <1>1, <1>2, <2>1, BinderFailedInv
  <1>3. CASE BinderFailed(w, "notReady")
    BY <1>1, <1>3, BinderFailedInv
  <1>4. CASE Continue(w, "connection")
    <2>1. TaskOK([task[w] EXCEPT !.pc = "connection"])
      BY <1>1 DEF TaskOK, Task
    <2> QED
      BY <1>1, <1>4, <2>1, ContinueInv DEF Continue, PCs, Inv, TypeOK
  <1> QED
    BY <1>2, <1>3, <1>4 DEF GetBinding

\* The published password is the stored one, so that is what the worker has.
LEMMA GetConnectionInv ==
  ASSUME Inv, NEW w \in Workers, GetConnection(w)
  PROVE  Inv'
  <1> DEFINE o == IF cmp[task[w].b] = Absent THEN NewBinding ELSE cmp[task[w].b]
  <1>1. /\ task[w].pc = "connection" /\ task[w] \in Task /\ TaskOK(task[w])
        /\ task[w].b \in BindingIDs
    BY BusyOK DEF GetConnection
  <1>2. o.pub \in Passwords \cup {NoPassword}
        /\ (o.pub # NoPassword /\ task[w].b \notin unbound => StoredPassword(task[w].b, o.pub))
    <2>1. CASE cmp[task[w].b] = Absent
      BY <2>1 DEF NewBinding
    <2>2. CASE cmp[task[w].b] # Absent
      <3>1. cmp[task[w].b] \in Binding
        BY <1>1, <2>2 DEF Inv, TypeOK
      <3> QED
        BY <1>1, <2>2, <3>1 DEF Inv, Kept, Binding
    <2> QED
      BY <2>1, <2>2
  <1> HIDE DEF o
  <1>3. CASE \E err \in {"notReady", "notFound", "other"} : BinderFailed(w, err)
    BY <1>1, <1>3, BinderFailedInv
  <1>4. CASE /\ o.pub # NoPassword
             /\ task' = [task EXCEPT ![w].pc = "cluster", ![w].pw = o.pub]
             /\ resp' = NoResp
             /\ UNCHANGED <<objects, secretFresh, userFresh, history>>
    <2> DEFINE t == [task[w] EXCEPT !.pc = "cluster", !.pw = o.pub]
    <2>1. task' = [task EXCEPT ![w] = t] /\ t \in Task
      BY <1>1, <1>2, <1>4 DEF Inv, TypeOK, Task, PCs
    <2>2. t.pc = "cluster" /\ t.op = task[w].op /\ t.b = task[w].b /\ t.pw = o.pub
      BY <1>1 DEF Task
    <2> HIDE DEF t
    <2>3. TaskOK(t)
      BY <1>1, <1>2, <2>2 DEF TaskOK
    <2> QED
      BY <1>4, <2>1, <2>3, GotoInv DEF Inv, TypeOK
  <1> QED
    BY <1>3, <1>4 DEF GetConnection, mapMariadbEndpoint, o

LEMMA AbortInv ==
  ASSUME Inv, NEW w \in Workers, Abort(w)
  PROVE  Inv'
  <1>1. task[w].pc # "idle"
    BY DEF Abort, Inv, TaskOK
  <1> QED
    BY <1>1, RefuseInv, BinderFailedInv DEF Abort, Codes
-----------------------------------------------------------------------------
\* The controllers: what one of them writes to the composite of b, ...
LEMMA CompositeWritten ==
  ASSUME Inv, NEW b \in BindingIDs, cmp[b] # Absent, NEW o \in Binding, cmp' = [cmp EXCEPT ![b] = o],
         Env, UNCHANGED <<instances, secret, user, userFresh>>,
         b \notin unbound =>
           ~o.deleting /\ (o.pub # NoPassword => StoredPassword(b, o.pub))
  PROVE  Inv'
  <1>1. /\ \A c \in BindingIDs : cmp'[c] = IF c = b THEN o ELSE cmp[c]
        /\ cmp' \in [BindingIDs -> Binding \cup {Absent}]
    BY DEF Inv, TypeOK
  <1>2. o # Absent
    BY ObjectAssumption
  <1>3. TypeOK'
    BY <1>1 DEF Env, Inv, TypeOK, instances, history, NoResp, Codes
  <1>4. KeepsBindings /\ \A c \in BindingIDs \ unbound : Kept(c)'
    BY <1>1, <1>2 DEF Inv, Kept, StoredPassword, KeepsBindings, Env, instances, history
  <1> QED
    BY <1>3, <1>4, WriteInv DEF Env, instances, NoResp

\* ... and to its User.
LEMMA UserWritten ==
  ASSUME Inv, NEW b \in BindingIDs, NEW o \in User \cup {Absent}, user' = [user EXCEPT ![b] = o],
         Env, UNCHANGED <<instances, secret, cmp>>, userFresh' \subseteq Workers,
         (b \notin unbound /\ o # Absent) =>
           ~o.deleting /\ (o.pw # NoPassword => StoredPassword(b, o.pw))
  PROVE  Inv'
  <1>1. /\ \A c \in BindingIDs : user'[c] = IF c = b THEN o ELSE user[c]
        /\ user' \in [BindingIDs -> User \cup {Absent}]
    BY DEF Inv, TypeOK
  <1>3. TypeOK'
    BY <1>1 DEF Env, Inv, TypeOK, instances, history, NoResp, Codes
  <1>4. KeepsBindings /\ \A c \in BindingIDs \ unbound : Kept(c)'
    BY <1>1 DEF Inv, Kept, StoredPassword, KeepsBindings, Env, instances, history
  <1> QED
    BY <1>3, <1>4, WriteInv DEF Env, instances, NoResp

\* What there is to know of the objects of a binding.
LEMMA BindingOK ==
  ASSUME Inv, NEW b \in BindingIDs
  PROVE  /\ b \notin unbound => Kept(b)
         /\ secret[b] # Absent => secret[b] \in Secret
         /\ cmp[b] # Absent => cmp[b] \in Binding
         /\ user[b] # Absent => user[b] \in User
  BY DEF Inv, TypeOK

LEMMA ControllersInv ==
  ASSUME Inv, NEW b \in BindingIDs, Controllers(b)
  PROVE  Inv'
  <1>1. CASE ComposeRef(b)
    <2> DEFINE o == [cmp[b] EXCEPT !.userRef = TRUE]
    <2>1. cmp[b] \in Binding
      BY <1>1, BindingOK DEF ComposeRef, Live
    <2>2. o \in Binding /\ o.deleting = cmp[b].deleting /\ o.pub = cmp[b].pub
      BY <2>1 DEF Binding
    <2>3. cmp' = [cmp EXCEPT ![b] = o]
      BY <1>1 DEF ComposeRef, Inv, TypeOK
    <2> HIDE DEF o
    <2> QED
      BY <1>1, <2>2, <2>3, BindingOK, CompositeWritten DEF ComposeRef, Live, Kept
  <1>2. CASE CreateUser(b)
    <2> DEFINE o == [pw |-> NoPassword, deleting |-> FALSE]
    <2>1. o \in User /\ ~o.deleting /\ o.pw = NoPassword
      BY DEF User
    <2>2. user' = [user EXCEPT ![b] = o]
      BY <1>2 DEF CreateUser
    <2> HIDE DEF o
    <2> QED
      BY <1>2, <2>1, <2>2, UserWritten DEF CreateUser, Inv, TypeOK
  <1>3. CASE SyncUser(b)
    <2> DEFINE o == [user[b] EXCEPT !.pw = secret[b].pw]
    <2>1. user[b] \in User /\ secret[b] \in Secret /\ secret[b].pw \in Passwords
      BY <1>3, BindingOK DEF SyncUser, Secret
    <2>2. o \in User /\ o.deleting = user[b].deleting /\ o.pw = secret[b].pw
      BY <2>1 DEF User
    <2>3. user' = [user EXCEPT ![b] = o]
      BY <1>3 DEF SyncUser, Inv, TypeOK
    <2> HIDE DEF o
    <2> QED
      BY <1>3, <2>2, <2>3, UserWritten DEF SyncUser, StoredPassword, Inv, TypeOK
  <1>4. CASE Publish(b)
    <2>1. cmp[b] \in Binding /\ user[b] \in User /\ user[b].pw # NoPassword
      BY <1>4, BindingOK DEF Publish, Live
    <2>2. PICK e \in BOOLEAN :
            cmp' = [cmp EXCEPT ![b].pub = user[b].pw, ![b].endpoint = e, ![b].ready = TRUE]
      BY <1>4, <2>1 DEF Publish, Binding
    <2> DEFINE o == [cmp[b] EXCEPT !.pub = user[b].pw, !.endpoint = e, !.ready = TRUE]
    <2>3. o \in Binding /\ o.deleting = cmp[b].deleting /\ o.pub = user[b].pw
      BY <2>1 DEF Binding, User
    <2>4. cmp' = [cmp EXCEPT ![b] = o]
      BY <2>2 DEF Inv, TypeOK
    <2> HIDE DEF o
    <2> QED
      BY <1>4, <2>1, <2>3, <2>4, BindingOK, CompositeWritten DEF Publish, Live, Kept
  <1>5. CASE Unready(b)
    <2> DEFINE o == [cmp[b] EXCEPT !.ready = FALSE]
    <2>1. cmp[b] \in Binding
      BY <1>5, BindingOK DEF Unready
    <2>2. o \in Binding /\ o.deleting = cmp[b].deleting /\ o.pub = cmp[b].pub
      BY <2>1 DEF Binding
    <2>3. cmp' = [cmp EXCEPT ![b] = o]
      BY <1>5 DEF Unready, Inv, TypeOK
    <2> HIDE DEF o
    <2>4. b \notin unbound => ~o.deleting /\ (o.pub # NoPassword => StoredPassword(b, o.pub))
      BY <1>5, <2>2, BindingOK DEF Unready, Kept
    <2>5. cmp[b] # Absent /\ Env /\ UNCHANGED <<instances, secret, user, userFresh>>
      BY <1>5 DEF Unready
    <2> QED
      BY <2>2, <2>3, <2>4, <2>5, CompositeWritten
  <1> QED
    BY <1>1, <1>2, <1>3, <1>4, <1>5 DEF Controllers

\* The garbage collector finds nothing of a binding that was not unbound.
LEMMA CollectInv ==
  ASSUME Inv, NEW b \in BindingIDs, Collect(b)
  PROVE  Inv'
  <1>0. b \in unbound
    BY BindingOK DEF Collect, CollectUser, CollectSecret, RemoveUser, RemoveBinding, Kept
  <1>1. CASE CollectUser(b)
    <2> DEFINE o == [user[b] EXCEPT !.deleting = TRUE]
    <2>1. user[b] \in User
      BY <1>1, BindingOK DEF CollectUser
    <2>2. o \in User
      BY <2>1 DEF User
    <2>3. user' = [user EXCEPT ![b] = o]
      BY <1>1 DEF CollectUser, Inv, TypeOK
    <2> HIDE DEF o
    <2> QED
      BY <1>0, <1>1, <2>2, <2>3, UserWritten DEF CollectUser, Inv, TypeOK
  <1>2. CASE CollectSecret(b)
    <2>1. secret' = [secret EXCEPT ![b] = Absent] /\ secretFresh' = secretFresh \ On(b)
          /\ resp' = NoResp /\ UNCHANGED <<instances, cmp, user, task, userFresh, history>>
      BY <1>2 DEF CollectSecret
    <2>2. TypeOK'
      BY <2>1 DEF Inv, TypeOK, instances, history, NoResp, Codes
    <2>3. \A c \in BindingIDs \ {b} : secret'[c] = secret[c]
      BY <2>1 DEF Inv, TypeOK
    <2>4. KeepsBindings /\ \A c \in BindingIDs \ unbound : Kept(c)'
      BY <1>0, <2>1, <2>3 DEF Inv, Kept, StoredPassword, KeepsBindings, instances, history
    <2> QED
      BY <2>1, <2>2, <2>4, WriteInv DEF instances, NoResp
  <1>3. CASE RemoveUser(b)
    BY <1>0, <1>3, UserWritten DEF RemoveUser, Inv, TypeOK
  <1>4. CASE RemoveBinding(b)
    <2>1. cmp' = [cmp EXCEPT ![b] = Absent] /\ Env /\ UNCHANGED <<instances, secret, user, userFresh>>
      BY <1>4 DEF RemoveBinding
    <2>2. TypeOK'
      BY <2>1 DEF Env, Inv, TypeOK, instances, history, NoResp, Codes
    <2>3. \A c \in BindingIDs \ {b} : cmp'[c] = cmp[c]
      BY <2>1 DEF Inv, TypeOK
    <2>4. KeepsBindings /\ \A c \in BindingIDs \ unbound : Kept(c)'
      BY <1>0, <2>1, <2>3 DEF Env, Inv, Kept, StoredPassword, KeepsBindings, instances, history
    <2> QED
      BY <2>1, <2>2, <2>4, WriteInv DEF Env, instances, NoResp
  <1> QED
    BY <1>1, <1>2, <1>3, <1>4 DEF Collect

\* The instances come and go without the bindings.
LEMMA InstancesInv ==
  ASSUME Inv,
         \/ \E s \in {"absent", "creating", "ready"} : Database(s)
         \/ \E s \in {"noEndpoint", "noPorts", "complete"} : Connection(s)
         \/ \E s \in {"creating", "partial", "published", "absent"} : Parent(s)
  PROVE  Inv'
  <1>1. Env /\ UNCHANGED <<service, secret, cmp, user, userFresh>>
    BY DEF Database, Connection, Parent
  <1>2. /\ db' \in {"absent", "creating", "ready"}
        /\ conn' \in {"missing", "noEndpoint", "noPorts", "complete"}
        /\ parent' \in {"absent", "creating", "partial", "published"}
    BY DEF Database, Connection, Parent, Inv, TypeOK
  <1>3. TypeOK'
    BY <1>1, <1>2 DEF Env, Inv, TypeOK, history, NoResp, Codes
  <1>4. KeepsBindings /\ \A b \in BindingIDs \ unbound : Kept(b)'
    BY <1>1 DEF Env, Inv, Kept, StoredPassword, KeepsBindings, history
  <1> QED
    BY <1>1, <1>3, <1>4, WriteInv DEF Env, NoResp
-----------------------------------------------------------------------------
LEMMA InitInv == Init => Inv
  <1> SUFFICES ASSUME Init PROVE Inv
    OBVIOUS
  <1>1. TypeOK
    BY IdleOK DEF Init, TypeOK, NoResp, Codes
  <1>2. \A w \in Workers : TaskOK(task[w])
    BY IdleOK DEF Init
  <1> QED
    BY <1>1, <1>2 DEF Init, Inv, Kept, NoResp, HandedPasswordIsStored, BoundIsFound

LEMMA NextInv == Inv /\ [Next]_vars => Inv'
  <1> SUFFICES ASSUME Inv, [Next]_vars PROVE Inv'
    OBVIOUS
  <1>1. ASSUME NEW w \in Workers, Step(w) PROVE Inv'
    BY <1>1, GetPlanInstanceInv, GetRedisBindingInv, BindParentInv, BindSecretInv, BindCompositeInv,
       BindEndpointInv, ClusterInv, MarkInv, MarkOwnedInv, UnbindDeleteInv, GetBindingInv,
       GetConnectionInv DEF Step
  <1>2. ASSUME NEW w \in Workers, Abort(w) PROVE Inv'
    BY <1>2, AbortInv
  <1>3. CASE \E w \in Workers, op \in Calls, b \in BindingIDs, async \in BOOLEAN :
               Receive(w, op, b, async)
    BY <1>3, ReceiveInv
  <1>4. CASE \E b \in BindingIDs : Controllers(b) \/ Collect(b)
    BY <1>4, ControllersInv, CollectInv
  <1>5. CASE UNCHANGED vars
    <2>1. KeepsBindings /\ \A b \in BindingIDs \ unbound : Kept(b)'
      BY <1>5 DEF vars, Inv, Kept, StoredPassword, KeepsBindings
    <2>2. TypeOK' /\ HandedPasswordIsStored' /\ BoundIsFound'
      BY <1>5 DEF vars, Inv, TypeOK, HandedPasswordIsStored, BoundIsFound
    <2>3. \A v \in Workers : TaskOK(task[v])'
      BY <1>5, <2>1, OtherTasks DEF vars
    <2> QED
      BY <1>5, <2>1, <2>2, <2>3 DEF vars, Inv
  <1> QED
    BY <1>1, <1>2, <1>3, <1>4, <1>5, InstancesInv DEF Next
-----------------------------------------------------------------------------
\* The three steps that write a Secret.
LEMMA SecretWriters ==
  ASSUME [Next]_vars, secret' # secret
  PROVE  \/ \E w \in Workers : BindSecret(w) \/ MarkOwned(w)
         \/ \E b \in BindingIDs : CollectSecret(b)
  <1>1. ASSUME NEW w \in Workers, NEW code, Refuse(w, code) PROVE FALSE
    BY <1>1 DEF Refuse, objects
  <1>2. ASSUME NEW w \in Workers, NEW pc, Goto(w, pc) PROVE FALSE
    BY <1>2 DEF Goto, objects
  <1>3. ASSUME NEW w \in Workers, NEW pw, Succeed(w, pw) PROVE FALSE
    BY <1>3 DEF Succeed, objects
  <1>4. ASSUME NEW w \in Workers, NEW err, BinderFailed(w, err) PROVE FALSE
    BY <1>1, <1>4 DEF BinderFailed
  <1>5. ASSUME NEW w \in Workers, Step(w) PROVE BindSecret(w) \/ MarkOwned(w)
    <2>1. CASE GetPlanInstance(w) \/ GetRedisBinding(w) \/ GetBinding(w)
      BY <1>1, <1>2, <1>3, <1>4, <2>1
         DEF GetPlanInstance, ServiceBinderFactory, MariadbServiceBinder, RedisServiceBinder,
             GetRedisBinding, GetBinding, Continue
    <2>2. CASE BindParent(w) \/ BindEndpoint(w) \/ BindCluster(w) \/ GetCluster(w)
      BY <1>1, <1>2, <1>3, <1>4, <2>2
         DEF BindParent, BindEndpoint, BindCluster, GetCluster, Continue
    <2>3. CASE MarkGetBinding(w) \/ MarkGetSecret(w) \/ MarkGetUser(w)
      BY <1>1, <1>2, <2>3
         DEF MarkGetBinding, MarkGetSecret, MarkGetUser, UnbindNotFound, Continue
    <2>4. CASE GetConnection(w)
      BY <1>4, <2>4 DEF GetConnection, objects
    <2>5. CASE BindComposite(w) \/ UnbindDelete(w)
      BY <1>1, <2>5 DEF BindComposite, UnbindDelete, UnbindNotFound
    <2> QED
      BY <1>5, <2>1, <2>2, <2>3, <2>4, <2>5 DEF Step
  <1>6. ASSUME NEW w \in Workers, Abort(w) PROVE FALSE
    BY <1>1, <1>4, <1>6 DEF Abort
  <1>7. ASSUME NEW w \in Workers, NEW op \in Calls, NEW b \in BindingIDs, NEW async \in BOOLEAN,
               Receive(w, op, b, async)
        PROVE FALSE
    BY <1>7 DEF Receive, objects
  <1>8. ASSUME NEW b \in BindingIDs, Controllers(b) \/ Collect(b) PROVE CollectSecret(b)
    BY <1>8 DEF Controllers, Collect, ComposeRef, CreateUser, SyncUser, Publish, Unready, CollectUser,
                RemoveUser, RemoveBinding
  <1> QED
    BY <1>5, <1>6, <1>7, <1>8 DEF Next, vars, Database, Connection, Parent

\* None of them takes the password from a binding that was not unbound.
LEMMA SecretsStay ==
  ASSUME Inv, [Next]_vars, NEW b \in BindingIDs, secret[b] # Absent, b \notin unbound'
  PROVE  secret'[b] # Absent /\ secret'[b].pw = secret[b].pw
  <1>1. CASE secret' = secret
    BY <1>1
  <1>2. ASSUME NEW w \in Workers, BindSecret(w) PROVE secret'[b] = secret[b]
    BY <1>2 DEF BindSecret, Refuse, objects, Inv, TypeOK
  <1>3. ASSUME NEW w \in Workers, MarkOwned(w) PROVE secret'[b] = secret[b]
    <2>1. task[w].b \in unbound
      BY <1>3, UnbindTask DEF MarkOwned
    <2>2. unbound' = unbound
      BY <1>3 DEF MarkOwned, UnbindNotFound, Refuse, history
    <2> QED
      BY <1>3, <2>1, <2>2 DEF MarkOwned, UnbindNotFound, Refuse, objects, Inv, TypeOK
  <1>4. ASSUME NEW c \in BindingIDs, CollectSecret(c) PROVE secret'[b] = secret[b]
    <2>1. c \in unbound /\ unbound' = unbound
      BY <1>4, BindingOK DEF CollectSecret, Kept, history
    <2> QED
      BY <1>4, <2>1 DEF CollectSecret, Inv, TypeOK
  <1> QED
    BY <1>1, <1>2, <1>3, <1>4, SecretWriters
-----------------------------------------------------------------------------
\* The invariant of the service broker's bindings, with no condition on what
\* the platform calls and when: requests may overlap, and a binding may be
\* bound again after it was unbound.
THEOREM InvHolds == Spec => []Inv
  BY InitInv, NextInv, PTL DEF Spec

\* The state keeps its shape: the references of the Secret, the composite and
\* the User, and the step a handler has reached.
THEOREM TypeCorrect == Spec => []TypeOK
  <1>1. Inv => TypeOK
    BY DEF Inv
  <1> QED
    BY <1>1, InvHolds, PTL

\* Bind and GetBinding give the platform the password in the binding's Secret,
\* with overlapping Binds and wherever one of them stops.
THEOREM HandedPasswordsAreStored == Spec => []HandedPasswordIsStored
  <1>1. Inv => HandedPasswordIsStored
    BY DEF Inv
  <1> QED
    BY <1>1, InvHolds, PTL

\* A binding that was promised is not reported as missing until it is unbound.
THEOREM BoundBindingsAreFound == Spec => []BoundIsFound
  <1>1. Inv => BoundIsFound
    BY DEF Inv
  <1> QED
    BY <1>1, InvHolds, PTL

\* No step replaces or removes the Secret of a binding that was not unbound.
THEOREM SecretsAreKept == Spec => CredentialsStay
  <1>1. Inv /\ [Next]_vars =>
          [\A b \in BindingIDs :
             (secret[b] # Absent /\ b \notin unbound')
               => secret'[b] # Absent /\ secret'[b].pw = secret[b].pw]_vars
    BY SecretsStay
  <1> QED
    BY <1>1, InvHolds, PTL DEF Spec, CredentialsStay
-----------------------------------------------------------------------------
(***************************************************************************)
(* A platform that has one request for a binding in flight at a time and   *)
(* never reuses an ID, as the API asks it to.  Then Unbind is the only     *)
(* writer of a binding it works on, next to the controllers.               *)
(***************************************************************************)

\* A composite that is not being deleted has its Secret, and neither that nor
\* the User is about to be collected.
LiveIsIntact(b) ==
  Live(b) => /\ secret[b] # Absent /\ secret[b].owner # "dead"
             /\ user[b] # Absent => ~user[b].deleting

\* The Unbind that makes a User the owner of the Secret has read the one that
\* exists, or the composite is on its way out already.
OwnerIsCurrent(w) == task[w].pc = "own" => w \in userFresh \/ ~Live(task[w].b)

SerialInv ==
  /\ \A w \in Workers : task[w].op = "Bind" => task[w].b \notin unbound
  /\ \A b \in BindingIDs : LiveIsIntact(b)
  /\ \A w \in Workers : OwnerIsCurrent(w)
  /\ GoneOrUserMissing

\* A step of worker w that writes no object.
LEMMA QuietSerial ==
  ASSUME Inv, SerialInv, NEW w \in Workers, NEW t, task' = [task EXCEPT ![w] = t],
         UNCHANGED <<objects, unbound>>, userFresh \ {w} \subseteq userFresh',
         t = Idle \/ (t.op = task[w].op /\ t.b = task[w].b),
         t.pc = "own" => w \in userFresh',
         GoneOrUserMissing'
  PROVE  SerialInv'
  <1>1. \A v \in Workers : task'[v] = IF v = w THEN t ELSE task[v]
    BY DEF Inv, TypeOK
  <1>2. Idle.op # "Bind"
    BY DEF Idle
  <1>3. \A v \in Workers : task'[v].op = "Bind" => task'[v].b \notin unbound'
    BY <1>1, <1>2 DEF SerialInv
  <1>4. \A b \in BindingIDs : LiveIsIntact(b)'
    BY DEF SerialInv, LiveIsIntact, Live, objects
  <1>5. \A v \in Workers : OwnerIsCurrent(v)'
    BY <1>1 DEF SerialInv, OwnerIsCurrent, Live, objects
  <1> QED
    BY <1>3, <1>4, <1>5 DEF SerialInv

LEMMA RefuseSerial ==
  ASSUME Inv, SerialInv, NEW w \in Workers, NEW code, Refuse(w, code),
         (code = "bindingGone" /\ task[w].op = "Unbind" /\ Live(task[w].b))
           => user[task[w].b] = Absent
  PROVE  SerialInv'
  <1>1. GoneOrUserMissing'
    BY DEF Refuse, Reply, objects, Live, GoneOrUserMissing
  <1>2. Idle.pc # "own"
    BY DEF Idle
  <1> QED
    BY <1>1, <1>2, QuietSerial DEF Refuse, Reply, history

LEMMA GotoSerial ==
  ASSUME Inv, SerialInv, NEW w \in Workers, NEW pc, Goto(w, pc),
         userFresh \ {w} \subseteq userFresh', pc = "own" => w \in userFresh'
  PROVE  SerialInv'
  <1> DEFINE t == [task[w] EXCEPT !.pc = pc]
  <1>1. task' = [task EXCEPT ![w] = t] /\ t.pc = pc /\ t.op = task[w].op /\ t.b = task[w].b
    BY DEF Goto, Inv, TypeOK, Task
  <1>2. GoneOrUserMissing'
    BY DEF Goto, NoResp, GoneOrUserMissing
  <1> HIDE DEF t
  <1> QED
    BY <1>1, <1>2, QuietSerial DEF Goto, history

LEMMA BinderFailedSerial ==
  ASSUME Inv, SerialInv, NEW w \in Workers, NEW err, BinderFailed(w, err),
         task[w].op # "Unbind" \/ err # "bindingGone"
  PROVE  SerialInv'
  <1>1. PICK code : Refuse(w, code) /\ (code = "bindingGone" => err = "bindingGone")
    BY DEF BinderFailed
  <1> QED
    BY <1>1, RefuseSerial

LEMMA SucceedSerial ==
  ASSUME Inv, SerialInv, NEW w \in Workers, NEW pw, Succeed(w, pw),
         task[w].pc # "idle", task[w].op # "Unbind"
  PROVE  SerialInv'
  <1>1. task[w].op \in {"Bind", "GetBinding", "LastBindingOperation"} /\ task[w].async \in BOOLEAN
    BY BusyOK DEF Ops, Task
  <1>2. PICK code, p : Reply(w, code, p)
    BY <1>1 DEF Succeed
  <1>3. GoneOrUserMissing'
    BY <1>1, <1>2 DEF Reply, GoneOrUserMissing
  <1>4. Idle.pc # "own"
    BY DEF Idle
  <1> QED
    BY <1>2, <1>3, <1>4, QuietSerial DEF Succeed, Reply

\* Steps that only read.
LEMMA ReadersSerial ==
  ASSUME Inv, SerialInv, NEW w \in Workers,
         \/ GetPlanInstance(w) \/ GetRedisBinding(w) \/ BindParent(w) \/ BindEndpoint(w)
         \/ BindCluster(w) \/ GetBinding(w) \/ GetConnection(w) \/ GetCluster(w) \/ Abort(w)
  PROVE  SerialInv'
  <1>0. userFresh \ {w} \subseteq userFresh
    OBVIOUS
  <1>1. CASE GetPlanInstance(w)
    <2>1. CASE \E code \in {"gone", "busy", "notSupported", "notImplemented", "ok"} : Refuse(w, code)
      BY <2>1, RefuseSerial
    <2>2. CASE \E pc \in {"parent", "marking", "get", "redis"} : Continue(w, pc)
      BY <2>2, GotoSerial DEF Continue
    <2> QED
      BY <1>1, <2>1, <2>2 DEF GetPlanInstance, ServiceBinderFactory, MariadbServiceBinder,
                              RedisServiceBinder
  <1>2. CASE GetRedisBinding(w)
    <2>1. task[w].pc = "redis" /\ task[w].op # "Unbind"
      BY <1>2, BusyOK DEF GetRedisBinding, TaskOK
    <2> QED
      BY <1>2, <2>1, BinderFailedSerial, SucceedSerial DEF GetRedisBinding
  <1>3. CASE BindParent(w) \/ BindEndpoint(w)
    BY <1>3, RefuseSerial, GotoSerial, BinderFailedSerial
       DEF BindParent, BindEndpoint, Continue, mapMariadbEndpoint
  <1>4. CASE BindCluster(w) \/ GetCluster(w)
    <2>1. task[w].pc = "cluster" /\ task[w].op # "Unbind"
      BY <1>4, BusyOK DEF BindCluster, GetCluster, TaskOK
    <2> QED
      BY <1>4, <2>1, RefuseSerial, BinderFailedSerial, SucceedSerial DEF BindCluster, GetCluster
  <1>5. CASE GetBinding(w)
    <2>1. task[w].op # "Unbind"
      BY <1>5, BusyOK DEF GetBinding, TaskOK
    <2> QED
      BY <1>5, <2>1, BinderFailedSerial, GotoSerial DEF GetBinding, Continue
  <1>6. CASE GetConnection(w)
    <2> DEFINE o == IF cmp[task[w].b] = Absent THEN NewBinding ELSE cmp[task[w].b]
    <2>1. task[w] \in Task
      BY <1>6, BusyOK DEF GetConnection
    <2>2. CASE \E err \in {"notReady", "notFound", "other"} : BinderFailed(w, err)
      BY <2>2, BinderFailedSerial
    <2>3. CASE /\ task' = [task EXCEPT ![w].pc = "cluster", ![w].pw = o.pub]
               /\ resp' = NoResp
               /\ UNCHANGED <<objects, secretFresh, userFresh, history>>
      <3> DEFINE t == [task[w] EXCEPT !.pc = "cluster", !.pw = o.pub]
      <3>1. task' = [task EXCEPT ![w] = t] /\ t.pc = "cluster" /\ t.op = task[w].op /\ t.b = task[w].b
        BY <2>1, <2>3 DEF Inv, TypeOK, Task
      <3>2. GoneOrUserMissing'
        BY <2>3 DEF NoResp, GoneOrUserMissing
      <3> HIDE DEF t
      <3> QED
        BY <2>3, <3>1, <3>2, QuietSerial DEF history
    <2> QED
      BY <1>6, <2>2, <2>3 DEF GetConnection, mapMariadbEndpoint
  <1>7. CASE Abort(w)
    BY <1>7, RefuseSerial, BinderFailedSerial DEF Abort
  <1> QED
    BY <1>1, <1>2, <1>3, <1>4, <1>5, <1>6, <1>7

\* Unbind reads what it is going to write.  A missing Secret means that the
\* composite is not live, so "bindingGone" is as true of it as of a missing
\* composite.
LEMMA MarkSerial ==
  ASSUME Inv, SerialInv, NEW w \in Workers,
         MarkGetBinding(w) \/ MarkGetSecret(w) \/ MarkGetUser(w)
  PROVE  SerialInv'
  <1>b. PICK b \in BindingIDs : b = task[w].b
    BY UnbindTask DEF MarkGetBinding, MarkGetSecret, MarkGetUser
  <1>1. LiveIsIntact(b)
    BY DEF SerialInv
  <1>2. CASE Refuse(w, "error")
    BY <1>2, RefuseSerial
  <1>3. CASE UnbindNotFound(w) /\ (cmp[b] = Absent \/ secret[b] = Absent \/ user[b] = Absent)
    <2>1. Live(b) => user[b] = Absent
      BY <1>1, <1>3 DEF LiveIsIntact, Live
    <2> QED
      BY <1>b, <1>3, <2>1, RefuseSerial DEF UnbindNotFound
  <1>4. CASE \E pc \in {"markSecret", "markUser"} : Goto(w, pc) /\ UNCHANGED userFresh
    BY <1>4, GotoSerial
  <1>5. CASE Goto(w, "own") /\ userFresh' = userFresh \cup {w}
    BY <1>5, GotoSerial
  <1> QED
    BY <1>b, <1>2, <1>3, <1>4, <1>5 DEF MarkGetBinding, MarkGetSecret, MarkGetUser, Continue
-----------------------------------------------------------------------------
\* A write to the objects of binding b, and what has to be seen of it.
LEMMA WriteSerial ==
  ASSUME Inv, SerialInv, NEW b \in BindingIDs, LiveIsIntact(b)',
         \A c \in BindingIDs \ {b} : secret'[c] = secret[c] /\ cmp'[c] = cmp[c] /\ user'[c] = user[c],
         unbound' = unbound,
         \A w \in Workers : \/ task'[w] = task[w]
                            \/ /\ task'[w].pc # "own"
                               /\ task'[w].op = "Bind" => task[w].op = "Bind" /\ task'[w].b = task[w].b,
         \A w \in Workers : w \in userFresh =>
            w \in userFresh' \/ task'[w].pc # "own" \/ (task[w].b = b /\ ~Live(b)),
         (Live(b)' /\ ~Live(b)) => b \notin unbound,
         resp'.code # "bindingGone"
  PROVE  SerialInv'
  <1>1. \A w \in Workers : task'[w].op = "Bind" => task'[w].b \notin unbound'
    BY DEF SerialInv
  <1>2. \A c \in BindingIDs : LiveIsIntact(c)'
    BY DEF SerialInv, LiveIsIntact, Live
  <1>3. \A w \in Workers : OwnerIsCurrent(w)'
    <2> SUFFICES ASSUME NEW w \in Workers, task'[w].pc = "own", w \notin userFresh'
                 PROVE  ~Live(task[w].b)'
      BY DEF OwnerIsCurrent
    <2>1. task'[w] = task[w]
      OBVIOUS
    <2>c. PICK c \in BindingIDs : c = task[w].b
      BY <2>1, UnbindTask
    <2>2. c \in unbound
      BY <2>1, <2>c, UnbindTask
    <2>3. w \in userFresh => ~Live(c)
      BY <2>c
    <2>4. w \notin userFresh => ~Live(c)
      BY <2>1, <2>c DEF SerialInv, OwnerIsCurrent
    <2>5. ~Live(c)'
      BY <2>2, <2>3, <2>4 DEF Live
    <2> QED
      BY <2>1, <2>c, <2>5
  <1> QED
    BY <1>1, <1>2, <1>3 DEF SerialInv, GoneOrUserMissing

\* How the step of worker w that goes on at pc looks to the others.
LEMMA OnlyWorker ==
  ASSUME Inv, NEW w \in Workers, NEW t, task' = [task EXCEPT ![w] = t]
  PROVE  \A v \in Workers : task'[v] = IF v = w THEN t ELSE task[v]
  BY DEF Inv, TypeOK

\* The new Secret has no owner.
LEMMA BindSecretSerial ==
  ASSUME Inv, SerialInv, NEW w \in Workers, BindSecret(w)
  PROVE  SerialInv'
  <1>b. PICK b \in BindingIDs : b = task[w].b
    BY BusyOK DEF BindSecret
  <1>1. task[w].pc = "secret" /\ task[w] \in Task /\ task[w].op = "Bind"
    BY BusyOK DEF BindSecret, TaskOK
  <1>2. CASE Refuse(w, "error")
    BY <1>2, RefuseSerial
  <1>3. ASSUME NEW pw \in Generated,
               secret' = [secret EXCEPT ![b] = [pw |-> pw, owner |-> "none"]],
               task' = [task EXCEPT ![w].pc = "composite", ![w].pw = pw],
               resp' = NoResp,
               UNCHANGED <<instances, cmp, user, secretFresh, userFresh, history>>
        PROVE  SerialInv'
    <2> DEFINE t == [task[w] EXCEPT !.pc = "composite", !.pw = pw]
    <2>1. task' = [task EXCEPT ![w] = t] /\ t.pc = "composite" /\ t.op = task[w].op /\ t.b = task[w].b
      BY <1>1, <1>3 DEF Inv, TypeOK, Task
    <2> HIDE DEF t
    <2>2. b \notin unbound /\ unbound' = unbound
      BY <1>b, <1>1, <1>3 DEF SerialInv, history
    <2>3. [pw |-> pw, owner |-> "none"] \in Secret
      BY BindingsAssumption DEF Generated, Secret
    <2>4. secret'[b] = [pw |-> pw, owner |-> "none"]
      BY <1>1, <1>3 DEF Inv, TypeOK
    <2>5. secret'[b] # Absent /\ secret'[b].owner = "none"
      BY <2>3, <2>4, ObjectAssumption
    <2>6. LiveIsIntact(b)'
      BY <1>3, <2>5 DEF LiveIsIntact, Live, SerialInv
    <2>7. \A c \in BindingIDs \ {b} : secret'[c] = secret[c]
      BY <1>3 DEF Inv, TypeOK
    <2>8. cmp' = cmp /\ user' = user /\ userFresh' = userFresh /\ Live(b)' = Live(b)
          /\ resp'.code # "bindingGone"
      BY <1>3 DEF Live, NoResp
    <2>9. \A v \in Workers : \/ task'[v] = task[v]
                             \/ /\ task'[v].pc # "own"
                                /\ task'[v].op = task[v].op /\ task'[v].b = task[v].b
      BY <2>1, OnlyWorker
    <2> QED
      BY <2>2, <2>6, <2>7, <2>8, <2>9, WriteSerial
  <1> QED
    BY <1>b, <1>2, <1>3 DEF BindSecret

\* A binding that is being bound was not unbound: the Secret was made by this
\* Bind, and nothing has been marked yet.
LEMMA BindCompositeSerial ==
  ASSUME Inv, SerialInv, NEW w \in Workers, BindComposite(w)
  PROVE  SerialInv'
  <1>b. PICK b \in BindingIDs : b = task[w].b
    BY BusyOK DEF BindComposite
  <1>1. /\ task[w].pc = "composite" /\ task[w] \in Task /\ task[w].op = "Bind"
        /\ b \notin unbound /\ StoredPassword(b, task[w].pw) /\ Kept(b)
    BY <1>b, BusyOK DEF BindComposite, TaskOK, SerialInv, Inv
  <1> DEFINE t == [task[w] EXCEPT !.pc = "endpoint"]
  <1>2. task' = [task EXCEPT ![w] = t] /\ t.pc = "endpoint" /\ t.op = task[w].op /\ t.b = task[w].b
    BY <1>1 DEF BindComposite, Inv, TypeOK, Task
  <1> HIDE DEF t
  <1>3. /\ cmp' = IF cmp[b] = Absent THEN [cmp EXCEPT ![b] = NewBinding] ELSE cmp
        /\ resp' = NoResp
        /\ UNCHANGED <<instances, secret, user, secretFresh, userFresh, history>>
    BY <1>b DEF BindComposite
  <1>4. LiveIsIntact(b)'
    BY <1>1, <1>3 DEF LiveIsIntact, Kept, StoredPassword
  <1>5. \A c \in BindingIDs \ {b} : cmp'[c] = cmp[c]
    BY <1>3 DEF Inv, TypeOK
  <1> QED
    BY <1>1, <1>2, <1>3, <1>4, <1>5, OnlyWorker, WriteSerial DEF history, NoResp

\* The owner is not a dead User unless the composite is on its way out.
LEMMA MarkOwnedSerial ==
  ASSUME Inv, SerialInv, NEW w \in Workers, MarkOwned(w)
  PROVE  SerialInv'
  <1>1. task[w].pc = "own" /\ task[w] \in Task
    BY BusyOK DEF MarkOwned
  <1>b. PICK b \in BindingIDs : b = task[w].b
    BY <1>1, UnbindTask
  <1>2. LiveIsIntact(b) /\ OwnerIsCurrent(w)
    BY DEF SerialInv
  <1>3. CASE UnbindNotFound(w) /\ secret[b] = Absent
    BY <1>b, <1>2, <1>3, RefuseSerial DEF UnbindNotFound, LiveIsIntact
  <1>4. CASE Refuse(w, "error")
    BY <1>4, RefuseSerial
  <1>5. ASSUME NEW owner, owner = IF w \in userFresh THEN "live" ELSE "dead",
               secret[b] # Absent,
               secret' = [secret EXCEPT ![b].owner = owner],
               task' = [task EXCEPT ![w].pc = "delete"],
               resp' = NoResp,
               UNCHANGED <<instances, cmp, user, userFresh, history>>
        PROVE  SerialInv'
    <2> DEFINE t == [task[w] EXCEPT !.pc = "delete"]
    <2>1. task' = [task EXCEPT ![w] = t] /\ t.pc = "delete" /\ t.op = task[w].op /\ t.b = task[w].b
      BY <1>1, <1>5 DEF Inv, TypeOK, Task
    <2> HIDE DEF t
    <2>2. secret[b] \in Secret
      BY <1>5 DEF Inv, TypeOK
    <2>3. secret'[b] = [secret[b] EXCEPT !.owner = owner]
      BY <1>5 DEF Inv, TypeOK
    <2>4. secret'[b].owner = owner /\ secret'[b] # Absent
      <3>1. owner \in {"live", "dead"}
        BY <1>5
      <3>2. [secret[b] EXCEPT !.owner = owner] \in Secret
        BY <2>2, <3>1 DEF Secret
      <3> QED
        BY <2>2, <2>3, <3>2, ObjectAssumption DEF Secret
    <2>5. LiveIsIntact(b)'
      BY <1>b, <1>1, <1>2, <1>5, <2>4 DEF LiveIsIntact, OwnerIsCurrent, Live
    <2>6. \A c \in BindingIDs \ {b} : secret'[c] = secret[c]
      BY <1>5 DEF Inv, TypeOK
    <2> QED
      BY <1>5, <2>1, <2>5, <2>6, OnlyWorker, WriteSerial DEF history, Live, NoResp
  <1> QED
    BY <1>b, <1>3, <1>4, <1>5 DEF MarkOwned

LEMMA UnbindDeleteSerial ==
  ASSUME Inv, SerialInv, NEW w \in Workers, UnbindDelete(w)
  PROVE  SerialInv'
  <1>1. task[w].pc = "delete"
    BY DEF UnbindDelete
  <1>b. PICK b \in BindingIDs : b = task[w].b
    BY <1>1, UnbindTask
  <1>2. CASE cmp[b] = Absent /\ UnbindNotFound(w)
    BY <1>b, <1>2, RefuseSerial DEF UnbindNotFound, Live
  <1>3. CASE /\ cmp[b] # Absent
             /\ cmp' = [cmp EXCEPT ![b].deleting = TRUE]
             /\ Reply(w, "ok", NoPassword)
             /\ UNCHANGED <<instances, secret, user, secretFresh, history>>
    <2>1. cmp[b] \in Binding
      BY <1>3 DEF Inv, TypeOK
    <2>2. cmp'[b].deleting /\ \A c \in BindingIDs \ {b} : cmp'[c] = cmp[c]
      <3>1. [cmp[b] EXCEPT !.deleting = TRUE].deleting
        BY <2>1 DEF Binding
      <3>2. cmp'[b] = [cmp[b] EXCEPT !.deleting = TRUE] /\ \A c \in BindingIDs \ {b} : cmp'[c] = cmp[c]
        BY <1>3 DEF Inv, TypeOK
      <3> QED
        BY <3>1, <3>2
    <2>3. LiveIsIntact(b)' /\ ~Live(b)'
      BY <2>2 DEF LiveIsIntact, Live
    <2>4. /\ task' = [task EXCEPT ![w] = Idle] /\ Idle.pc = "idle" /\ Idle.op = "none"
          /\ userFresh' = userFresh \ {w} /\ resp'.code = "ok"
          /\ UNCHANGED <<secret, user, unbound>>
      BY <1>3 DEF Reply, Idle, history
    <2>5. \A v \in Workers : \/ task'[v] = task[v]
                             \/ task'[v].pc # "own" /\ task'[v].op # "Bind"
      BY <2>4, OnlyWorker
    <2>6. \A v \in Workers : v \in userFresh => v \in userFresh' \/ task'[v].pc # "own"
      <3>1. task'[w] = Idle
        BY <2>4 DEF Inv, TypeOK
      <3> QED
        BY <2>4, <3>1
    <2>7. resp'.code # "bindingGone"
      BY <2>4
    <2> QED
      BY <2>2, <2>3, <2>4, <2>5, <2>6, <2>7, WriteSerial
  <1> QED
    BY <1>b, <1>2, <1>3 DEF UnbindDelete

\* The controllers and the garbage collector.  What they collect belongs to a
\* composite that is not live.
LEMMA ControllersSerial ==
  ASSUME Inv, SerialInv, NEW b \in BindingIDs, Controllers(b) \/ Collect(b)
  PROVE  SerialInv'
  <1> DEFINE Others == \A c \in BindingIDs \ {b} :
                         secret'[c] = secret[c] /\ cmp'[c] = cmp[c] /\ user'[c] = user[c]
  <1>0. /\ task' = task /\ unbound' = unbound /\ resp'.code # "bindingGone"
        /\ Others
    BY DEF Controllers, Collect, ComposeRef, CreateUser, SyncUser, Publish, Unready, CollectUser,
           CollectSecret, RemoveUser, RemoveBinding, Env, history, NoResp, Inv, TypeOK
  <1>1. LiveIsIntact(b) /\ b \in DOMAIN cmp /\ b \in DOMAIN user /\ b \in DOMAIN secret
    BY DEF SerialInv, Inv, TypeOK
  <1>2. CASE ComposeRef(b) \/ Publish(b) \/ Unready(b)
    <2>1. cmp[b] \in Binding
      BY <1>2, BindingOK DEF ComposeRef, Publish, Unready, Live
    <2>2. Live(b)' => Live(b)
      <3>1. cmp'[b].deleting = cmp[b].deleting
        BY <1>1, <1>2, <2>1 DEF ComposeRef, Publish, Unready, Binding
      <3>2. cmp[b] # Absent
        BY <1>2 DEF ComposeRef, Publish, Unready, Live
      <3> QED
        BY <3>1, <3>2 DEF Live
    <2>3. secret' = secret /\ user' = user /\ userFresh' = userFresh
      BY <1>2 DEF ComposeRef, Publish, Unready
    <2>4. LiveIsIntact(b)'
      BY <1>1, <2>2, <2>3 DEF LiveIsIntact
    <2> QED
      BY <1>0, <2>2, <2>3, <2>4, WriteSerial
  <1>3. CASE CreateUser(b) \/ SyncUser(b)
    <2>1. cmp' = cmp /\ secret' = secret /\ userFresh' = userFresh
      BY <1>3 DEF CreateUser, SyncUser
    <2>2. ~user'[b].deleting
      <3>1. CASE CreateUser(b)
        BY <1>1, <3>1 DEF CreateUser
      <3>2. CASE SyncUser(b)
        <4>1. user[b] \in User
          BY <3>2, BindingOK DEF SyncUser
        <4> QED
          BY <1>1, <3>2, <4>1 DEF SyncUser, User
      <3> QED
        BY <1>3, <3>1, <3>2
    <2>3. LiveIsIntact(b)' /\ (Live(b)' => Live(b))
      BY <1>1, <2>1, <2>2 DEF LiveIsIntact, Live
    <2> QED
      BY <1>0, <2>1, <2>3, WriteSerial
  <1>4. CASE CollectUser(b)
    <2>1. ~Live(b) /\ cmp' = cmp /\ secret' = secret /\ userFresh' = userFresh
      BY <1>4 DEF CollectUser, Live
    <2>2. LiveIsIntact(b)' /\ ~Live(b)'
      BY <2>1 DEF LiveIsIntact, Live
    <2> QED
      BY <1>0, <2>1, <2>2, WriteSerial
  <1>5. CASE CollectSecret(b)
    <2>1. ~Live(b) /\ cmp' = cmp /\ user' = user /\ userFresh' = userFresh
      BY <1>1, <1>5 DEF CollectSecret, LiveIsIntact
    <2>2. LiveIsIntact(b)' /\ ~Live(b)'
      BY <2>1 DEF LiveIsIntact, Live
    <2> QED
      BY <1>0, <2>1, <2>2, WriteSerial
  <1>6. CASE RemoveUser(b)
    <2>1. ~Live(b) /\ cmp' = cmp /\ secret' = secret /\ userFresh' = userFresh \ On(b)
      BY <1>1, <1>6 DEF RemoveUser, LiveIsIntact
    <2>2. LiveIsIntact(b)' /\ ~Live(b)'
      BY <2>1 DEF LiveIsIntact, Live
    <2>3. \A w \in Workers : w \in userFresh => w \in userFresh' \/ task[w].b = b
      BY <2>1 DEF On
    <2> QED
      BY <1>0, <2>1, <2>2, <2>3, WriteSerial
  <1>7. CASE RemoveBinding(b)
    <2>1. cmp'[b] = Absent /\ secret' = secret /\ user' = user /\ userFresh' = userFresh
      BY <1>1, <1>7 DEF RemoveBinding
    <2>2. LiveIsIntact(b)' /\ ~Live(b)'
      BY <2>1 DEF LiveIsIntact, Live
    <2> QED
      BY <1>0, <2>1, <2>2, WriteSerial
  <1> QED
    BY <1>2, <1>3, <1>4, <1>5, <1>6, <1>7 DEF Controllers, Collect

\* Without overlap an Unbind arrives when no Bind of its binding is under way,
\* and without reuse no Bind arrives after it.
LEMMA ReceiveSerial ==
  ASSUME ~Overlap, ~Rebind, Inv, SerialInv, NEW w \in Workers, NEW op \in Calls,
         NEW b \in BindingIDs, NEW async \in BOOLEAN, Receive(w, op, b, async)
  PROVE  SerialInv'
  <1> DEFINE t == [pc |-> "instance", op |-> op, b |-> b, async |-> async, pw |-> NoPassword]
  <1>1. \A v \in Workers : task'[v] = IF v = w THEN t ELSE task[v]
    BY DEF Receive, Inv, TypeOK
  <1>2. t.pc = "instance" /\ t.op = op /\ t.b = b
    OBVIOUS
  <1> HIDE DEF t
  <1>3. /\ UNCHANGED <<objects, userFresh>> /\ resp' = NoResp
        /\ unbound' = IF op = "Unbind" THEN unbound \cup {b} ELSE unbound
        /\ op = "Bind" => b \notin unbound
        /\ \A v \in Workers : task[v].b # b
    BY DEF Receive, On
  <1>4. \A v \in Workers : task'[v].op = "Bind" => task'[v].b \notin unbound'
    BY <1>1, <1>2, <1>3 DEF SerialInv
  <1>5. \A c \in BindingIDs : LiveIsIntact(c)'
    BY <1>3 DEF SerialInv, LiveIsIntact, Live, objects
  <1>6. \A v \in Workers : OwnerIsCurrent(v)'
    BY <1>1, <1>2, <1>3 DEF SerialInv, OwnerIsCurrent, Live, objects
  <1>7. GoneOrUserMissing'
    BY <1>3 DEF GoneOrUserMissing, NoResp
  <1> QED
    BY <1>4, <1>5, <1>6, <1>7 DEF SerialInv

LEMMA NextSerial ==
  ASSUME ~Overlap, ~Rebind, Inv, SerialInv, [Next]_vars
  PROVE  SerialInv'
  <1>1. ASSUME NEW w \in Workers, Step(w) PROVE SerialInv'
    BY <1>1, ReadersSerial, MarkSerial, BindSecretSerial, BindCompositeSerial, MarkOwnedSerial,
       UnbindDeleteSerial DEF Step
  <1>2. ASSUME NEW w \in Workers, Abort(w) PROVE SerialInv'
    BY <1>2, ReadersSerial
  <1>3. CASE \E w \in Workers, op \in Calls, b \in BindingIDs, async \in BOOLEAN :
               Receive(w, op, b, async)
    BY <1>3, ReceiveSerial
  <1>4. CASE \E b \in BindingIDs : Controllers(b) \/ Collect(b)
    BY <1>4, ControllersSerial
  <1>5. CASE \/ \E s \in {"absent", "creating", "ready"} : Database(s)
             \/ \E s \in {"noEndpoint", "noPorts", "complete"} : Connection(s)
             \/ \E s \in {"creating", "partial", "published", "absent"} : Parent(s)
             \/ UNCHANGED vars
    <2>1. /\ UNCHANGED <<secret, cmp, user, task, userFresh, unbound>>
          /\ resp' = NoResp \/ resp' = resp
      BY <1>5 DEF Database, Connection, Parent, Env, history, vars
    <2> QED
      BY <2>1 DEF SerialInv, LiveIsIntact, OwnerIsCurrent, Live, GoneOrUserMissing, NoResp
  <1> QED
    BY <1>1, <1>2, <1>3, <1>4, <1>5 DEF Next

\* With such a platform the two properties that concern a binding while it is
\* being unbound hold for any number of bindings and workers, too.
THEOREM SerialInvHolds ==
  ASSUME ~Overlap, ~Rebind
  PROVE  Spec => []SerialInv
  <1>1. Init => SerialInv
    BY IdleOK DEF Init, SerialInv, LiveIsIntact, OwnerIsCurrent, Live, GoneOrUserMissing, NoResp, Idle
  <1>2. Inv /\ SerialInv /\ [Next]_vars => SerialInv'
    BY NextSerial
  <1> QED
    BY <1>1, <1>2, InvHolds, PTL DEF Spec

\* A composite that is not being deleted has its Secret.
THEOREM LiveBindingsHaveSecrets ==
  ASSUME ~Overlap, ~Rebind
  PROVE  Spec => []LiveBindingHasSecret
  <1>1. SerialInv => LiveBindingHasSecret
    BY DEF SerialInv, LiveIsIntact, LiveBindingHasSecret
  <1> QED
    BY <1>1, SerialInvHolds, PTL

\* Unbind answers ErrBindingDoesNotExist for a live binding only while its User
\* is missing.
THEOREM GoneMeansUserMissing ==
  ASSUME ~Overlap, ~Rebind
  PROVE  Spec => []GoneOrUserMissing
  <1>1. SerialInv => GoneOrUserMissing
    BY DEF SerialInv
  <1> QED
    BY <1>1, SerialInvHolds, PTL
=============================================================================
