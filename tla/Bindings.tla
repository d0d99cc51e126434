------------------------------ MODULE Bindings ------------------------------
(***************************************************************************)
(* Bindings: Bind, Unbind, GetBinding and LastBindingOperation of          *)
(* pkg/brokerapi/broker.go with the three binders of pkg/crossplane, of    *)
(* which the one for MariaDB databases keeps something.                    *)
(*                                                                         *)
(* Its binding is spread over objects that are written one by one:         *)
(* a Secret with the generated password, a composite the user is made      *)
(* from, and what the controllers derive from them (the User of the        *)
(* database server and the composite's connection secret).  One step is    *)
(* one call of the Kubernetes API.  The lookup of the instance is a single *)
(* read here; module Instances has its details.                            *)
(***************************************************************************)
EXTENDS Naturals

CONSTANTS
  BindingIDs,
  Workers,     \* the goroutines that handle requests
  Services,    \* service names the instance may have
  Passwords,   \* what password.Generate can return
  Calls,       \* the operations the platform calls
  Overlap,     \* may a request for a binding arrive while one is in flight?
  Rebind,      \* may a binding ID be bound again after Unbind was sent?
  NoPassword,
  NoBinding,
  Absent       \* no such object

RedisService           == "redis-k8s"
MariaDBService         == "mariadb-k8s"
MariaDBDatabaseService == "mariadb-k8s-database"

Ops == {"Bind", "Unbind", "GetBinding", "LastBindingOperation"}

ASSUME BindingsAssumption ==
  /\ Services \subseteq {RedisService, MariaDBService, MariaDBDatabaseService}
  /\ Calls \subseteq Ops
  /\ Overlap \in BOOLEAN /\ Rebind \in BOOLEAN
  /\ NoPassword \notin Passwords
  /\ NoBinding \notin BindingIDs

VARIABLES
  service,     \* the service of the instance
  db,          \* the instance, a database say
  conn,        \* its connection secret, which the Redis binder reads: missing,
               \* without endpoint, without the ports, or complete
  parent,      \* the MariaDB instance a database refers to: its connection
               \* secret is missing, lacks host or port, or is complete
  secret,      \* secret[b]: "{b}-password"
  cmp,         \* cmp[b]: the composite user instance
  user,        \* user[b]: the User composed from it
  task,        \* task[w]: where worker w is in handling its request
  secretFresh, \* workers whose read version of the Secret is current
  userFresh,   \* workers whose read User still is the one that exists
  resp,        \* the response given by the last step, if it gave one
  unbound,     \* history: bindings for which an Unbind was received
  bound        \* history: bindings for which Bind was successful

instances == <<service, db, conn, parent>>
objects == <<service, db, conn, parent, secret, cmp, user>>
history == <<unbound, bound>>
vars == <<service, db, conn, parent, secret, cmp, user,
          task, secretFresh, userFresh, resp, unbound, bound>>

\* owner: no owner reference, one to the existing User, one to a User that is
\* no longer there.
Secret == [pw : Passwords, owner : {"none", "live", "dead"}]
\* userRef: the composite lists a resource of kind User.  pub: the password in
\* the composite's connection secret.  endpoint: host and port are in it, too.
Binding == [userRef : BOOLEAN, pub : Passwords \cup {NoPassword}, endpoint : BOOLEAN,
            ready : BOOLEAN, deleting : BOOLEAN]
User    == [pw : Passwords \cup {NoPassword}, deleting : BOOLEAN]

ASSUME ObjectAssumption == Absent \notin Secret \cup Binding \cup User

PCs == { "idle", "instance", "parent", "secret", "composite", "endpoint", "cluster",
         "marking", "markSecret", "markUser", "own", "delete", "get", "connection", "redis" }
Task == [pc : PCs, op : Ops \cup {"none"}, b : BindingIDs \cup {NoBinding},
         async : BOOLEAN, pw : Passwords \cup {NoPassword}]

Idle == [pc |-> "idle", op |-> "none", b |-> NoBinding, async |-> FALSE, pw |-> NoPassword]

Codes == { "none", "gone", "busy", "bindingGone", "notFound", "error", "bound", "accepted", "ok",
           "credentials", "inProgress", "succeeded", "failed", "notSupported", "notImplemented" }
NoResp == [code |-> "none", op |-> "none", b |-> NoBinding, pw |-> NoPassword]

TypeOK ==
  /\ service \in Services
  /\ db \in {"absent", "creating", "ready"}
  /\ conn \in {"missing", "noEndpoint", "noPorts", "complete"}
  /\ parent \in {"absent", "creating", "partial", "published"}
  /\ secret \in [BindingIDs -> Secret \cup {Absent}]
  /\ cmp \in [BindingIDs -> Binding \cup {Absent}]
  /\ user \in [BindingIDs -> User \cup {Absent}]
  /\ task \in [Workers -> Task]
  /\ secretFresh \subseteq Workers
  /\ userFresh \subseteq Workers
  /\ resp \in [code : Codes, op : Ops \cup {"none"}, b : BindingIDs \cup {NoBinding},
               pw : Passwords \cup {NoPassword}]
  /\ unbound \subseteq BindingIDs
  /\ bound \subseteq BindingIDs

Init ==
  /\ service \in Services
  /\ db = "absent"
  /\ conn = "missing"
  /\ parent = "absent"
  /\ secret = [b \in BindingIDs |-> Absent]
  /\ cmp = [b \in BindingIDs |-> Absent]
  /\ user = [b \in BindingIDs |-> Absent]
  /\ task = [w \in Workers |-> Idle]
  /\ secretFresh = {}
  /\ userFresh = {}
  /\ resp = NoResp
  /\ unbound = {}
  /\ bound = {}
-----------------------------------------------------------------------------
\* Worker w answers its request, handing out password pw, and is free again.
Reply(w, code, pw) ==
  /\ task' = [task EXCEPT ![w] = Idle]
  /\ resp' = [code |-> code, op |-> task[w].op, b |-> task[w].b, pw |-> pw]
  /\ userFresh' = userFresh \ {w}

\* The answer to a request whose last call wrote nothing.
Refuse(w, code) ==
  Reply(w, code, NoPassword) /\ secretFresh' = secretFresh \ {w} /\ UNCHANGED <<objects, history>>

\* Worker w has made a call that changed nothing and goes on at pc.
Goto(w, pc) == task' = [task EXCEPT ![w].pc = pc] /\ resp' = NoResp /\ UNCHANGED <<objects, history>>
Continue(w, pc) == Goto(w, pc) /\ UNCHANGED <<secretFresh, userFresh>>

On(b) == {w \in Workers : task[w].b = b}

\* A request arrives, as the platform sends them: Overlap and Rebind.
Receive(w, op, b, async) ==
  /\ task[w] = Idle
  /\ Overlap \/ On(b) = {}
  /\ Rebind \/ op # "Bind" \/ b \notin unbound
  /\ async => op = "Bind"
  /\ task' = [task EXCEPT ![w] = [pc |-> "instance", op |-> op, b |-> b, async |-> async,
                                  pw |-> NoPassword]]
  /\ resp' = NoResp
  /\ unbound' = IF op = "Unbind" THEN unbound \cup {b} ELSE unbound
  /\ UNCHANGED <<objects, secretFresh, userFresh, bound>>

\* The answers to a request that was successful; the one to an asynchronous
\* Bind does not carry the credentials.
Succeed(w, pw) ==
  LET t == task[w]
  IN /\ CASE t.op = "LastBindingOperation" -> Reply(w, "succeeded", NoPassword)
         [] t.op = "GetBinding"           -> Reply(w, "credentials", pw)
         [] t.op = "Bind" /\ t.async      -> Reply(w, "accepted", NoPassword)
         [] t.op = "Bind" /\ ~t.async     -> Reply(w, "bound", pw)
     /\ bound' = IF t.op = "Bind" THEN bound \cup {t.b} ELSE bound
     /\ UNCHANGED <<objects, secretFresh, unbound>>

\* How the handlers answer an error of the binder: LastBindingOperation has
\* a state for it unless it is an API error.
BinderFailed(w, err) ==
  LET last == task[w].op = "LastBindingOperation"
  IN Refuse(w, IF err \in {"bindingGone", "notFound"} THEN err
               ELSE IF ~last THEN "error"
               ELSE IF err = "notReady" THEN "inProgress" ELSE "failed")

\* The binder of MariaDB implements nothing, ...
MariadbServiceBinder(w) ==
  Refuse(w, IF task[w].op = "Bind" THEN "notSupported" ELSE "notImplemented")

\* ... that of Redis has nothing to remove ...
RedisServiceBinder(w) ==
  \/ task[w].op = "Unbind" /\ Refuse(w, "ok")
  \/ task[w].op # "Unbind" /\ Continue(w, "redis")

\* ... and the service of the instance says which one is asked.
ServiceBinderFactory(w) ==
  LET op == task[w].op
  IN \/ /\ service = MariaDBDatabaseService
        /\ Continue(w, CASE op = "Bind" -> "parent" [] op = "Unbind" -> "marking" [] OTHER -> "get")
     \/ service = MariaDBService /\ MariadbServiceBinder(w)
     \/ service = RedisService /\ RedisServiceBinder(w)

\* getPlanInstance and the check of instance.Ready, which
\* LastBindingOperation does not make.
GetPlanInstance(w) ==
  LET op == task[w].op
  IN /\ task[w].pc = "instance"
     /\ \/ db = "absent" /\ Refuse(w, "gone")
        \/ db = "creating" /\ op # "LastBindingOperation" /\ Refuse(w, "busy")
        \/ /\ db = "ready" \/ (db = "creating" /\ op = "LastBindingOperation")
           /\ ServiceBinderFactory(w)

\* GetBinding of Redis, which also is its Bind: the credentials are those of
\* the instance, and are not followed any further here.
GetRedisBinding(w) ==
  /\ task[w].pc = "redis"
  /\ \/ conn \in {"missing", "noPorts"} /\ BinderFailed(w, "other")
     \/ conn = "noEndpoint" /\ BinderFailed(w, "notFound")
     \/ conn = "complete" /\ Succeed(w, NoPassword)
-----------------------------------------------------------------------------
(***************************************************************************)
(* Bind.                                                                   *)
(***************************************************************************)

\* The parent named in the parameters has to exist; a database without one is
\* refused in the same way.
BindParent(w) ==
  /\ task[w].pc = "parent"
  /\ \/ parent = "absent" /\ Refuse(w, "error")
     \/ parent # "absent" /\ Continue(w, "secret")

\* Passwords that are in use somewhere: password.Generate returns another one.
InUse == {secret[b].pw : b \in {c \in BindingIDs : secret[c] # Absent}}
           \cup {user[b].pw : b \in {c \in BindingIDs : user[c] # Absent}}
           \cup {cmp[b].pub : b \in {c \in BindingIDs : cmp[c] # Absent}}
           \cup {task[w].pw : w \in Workers}

\* password.Generate.  Faulty variant: its error is ignored.
GeneratedNothing == {NoPassword}
Generated == Passwords \ InUse

\* Faulty variant: the Secret is created or replaced.
BindSecretReplaced(w) ==
  LET b == task[w].b
  IN /\ task[w].pc = "secret"
     /\ \E pw \in Generated :
          /\ secret' = [secret EXCEPT ![b] = [pw |-> pw, owner |-> "none"]]
          /\ task' = [task EXCEPT ![w].pc = "composite", ![w].pw = pw]
     /\ resp' = NoResp
     /\ UNCHANGED <<instances, cmp, user, secretFresh, userFresh, history>>

\* createBinding creates the Secret first; an existing one is an error.
BindSecret(w) ==
  LET b == task[w].b
  IN /\ task[w].pc = "secret"
     /\ \/ /\ secret[b] # Absent
           /\ Refuse(w, "error")
        \/ /\ secret[b] = Absent
           /\ \E pw \in Generated :
                /\ secret' = [secret EXCEPT ![b] = [pw |-> pw, owner |-> "none"]]
                /\ task' = [task EXCEPT ![w].pc = "composite", ![w].pw = pw]
           /\ resp' = NoResp
           /\ UNCHANGED <<instances, cmp, user, secretFresh, userFresh, history>>

NewBinding == [userRef |-> FALSE, pub |-> NoPassword, endpoint |-> FALSE,
               ready |-> FALSE, deleting |-> FALSE]

\* Faulty variant: all errors of the call are ignored, not only that one.
BindCompositeUnchecked(w) ==
  LET b == task[w].b
  IN /\ task[w].pc = "composite"
     /\ cmp' \in {cmp, IF cmp[b] = Absent THEN [cmp EXCEPT ![b] = NewBinding] ELSE cmp}
     /\ task' = [task EXCEPT ![w].pc = "endpoint"]
     /\ resp' = NoResp
     /\ UNCHANGED <<instances, secret, user, secretFresh, userFresh, history>>

\* ... and then the composite; an existing one is as good as a new one.
BindComposite(w) ==
  LET b == task[w].b
  IN /\ task[w].pc = "composite"
     /\ cmp' = IF cmp[b] = Absent THEN [cmp EXCEPT ![b] = NewBinding] ELSE cmp
     /\ task' = [task EXCEPT ![w].pc = "endpoint"]
     /\ resp' = NoResp
     /\ UNCHANGED <<instances, secret, user, secretFresh, userFresh, history>>

\* How mapMariadbEndpoint can fail on a secret that is not complete: without a
\* host, and without a port.
mapMariadbEndpoint == {"notFound", "other"}

\* GetConnectionDetails of the parent, and mapMariadbEndpoint.
BindEndpoint(w) ==
  /\ task[w].pc = "endpoint"
  /\ \/ parent \in {"absent", "creating"} /\ Refuse(w, "error")
     \/ parent = "partial" /\ \E err \in mapMariadbEndpoint : BinderFailed(w, err)
     \/ parent = "published" /\ Continue(w, "cluster")

\* The parent is read once more for its cluster label; then the credentials
\* are ready.  The code reads it by the parameters first and by the parent label
\* here.  The variable parent is both: the database is one whose parameters no
\* Update has changed.  With another, this read can fail for good although the
\* first one succeeds; of that only Abort is left here.
BindCluster(w) ==
  /\ task[w].pc = "cluster" /\ task[w].op = "Bind"
  /\ \/ parent = "absent" /\ Refuse(w, "error")
     \/ parent # "absent" /\ Succeed(w, task[w].pw)
-----------------------------------------------------------------------------
(***************************************************************************)
(* Unbind.                                                                 *)
(***************************************************************************)

\* Every NotFound on the way is answered with ErrBindingDoesNotExist.
UnbindNotFound(w) == Refuse(w, "bindingGone")

\* markCredentialsForDeletion reads the composite and looks for its User.
MarkGetBinding(w) ==
  LET o == cmp[task[w].b]
  IN /\ task[w].pc = "marking"
     /\ \/ o = Absent /\ UnbindNotFound(w)
        \/ o # Absent /\ ~o.userRef /\ Refuse(w, "error")
        \/ o # Absent /\ o.userRef /\ Continue(w, "markSecret")

MarkGetSecret(w) ==
  /\ task[w].pc = "markSecret"
  /\ \/ secret[task[w].b] = Absent /\ UnbindNotFound(w)
     \/ /\ secret[task[w].b] # Absent
        /\ Goto(w, "markUser")
        /\ secretFresh' = secretFresh \cup {w}
        /\ UNCHANGED userFresh

MarkGetUser(w) ==
  /\ task[w].pc = "markUser"
  /\ \/ user[task[w].b] = Absent /\ UnbindNotFound(w)
     \/ /\ user[task[w].b] # Absent
        /\ Goto(w, "own")
        /\ userFresh' = userFresh \cup {w}
        /\ UNCHANGED secretFresh

\* Faulty variants: the Secret is deleted at once, or left alone.
MarkByDeleting(w) ==
  /\ task[w].pc = "own"
  /\ secret' = [secret EXCEPT ![task[w].b] = Absent]
  /\ secretFresh' = secretFresh \ On(task[w].b)
  /\ task' = [task EXCEPT ![w].pc = "delete"]
  /\ resp' = NoResp
  /\ UNCHANGED <<instances, cmp, user, userFresh, history>>
MarkNothing(w) == task[w].pc = "own" /\ Continue(w, "delete")

\* The Secret becomes a dependent of the User it was read with, if it still
\* has the version that was read.
MarkOwned(w) ==
  LET b == task[w].b
      owner == IF w \in userFresh THEN "live" ELSE "dead"
  IN /\ task[w].pc = "own"
     /\ \/ secret[b] = Absent /\ UnbindNotFound(w)
        \/ secret[b] # Absent /\ w \notin secretFresh /\ Refuse(w, "error")
        \/ /\ secret[b] # Absent /\ w \in secretFresh
           /\ secret' = [secret EXCEPT ![b].owner = owner]
           /\ secretFresh' = IF secret[b].owner = owner THEN secretFresh \ {w} ELSE secretFresh \ On(b)
           /\ task' = [task EXCEPT ![w].pc = "delete"]
           /\ resp' = NoResp
           /\ UNCHANGED <<instances, cmp, user, userFresh, history>>

\* The composite is deleted in the foreground: it stays, with a deletion
\* timestamp, until its dependents are gone.
UnbindDelete(w) ==
  LET b == task[w].b
  IN /\ task[w].pc = "delete"
     /\ \/ cmp[b] = Absent /\ UnbindNotFound(w)
        \/ /\ cmp[b] # Absent
           /\ cmp' = [cmp EXCEPT ![b].deleting = TRUE]
           /\ Reply(w, "ok", NoPassword)
           /\ UNCHANGED <<instances, secret, user, secretFresh, history>>
-----------------------------------------------------------------------------
(***************************************************************************)
(* GetBinding and LastBindingOperation, which only looks at the outcome.   *)
(***************************************************************************)

GetBinding(w) ==
  LET o == cmp[task[w].b]
  IN /\ task[w].pc = "get"
     /\ \/ o = Absent /\ BinderFailed(w, "bindingGone")
        \/ o # Absent /\ ~o.ready /\ BinderFailed(w, "notReady")
        \/ o # Absent /\ o.ready /\ Continue(w, "connection")

\* GetConnectionDetails of the binding, and mapMariadbEndpoint.
GetConnection(w) ==
  LET o == IF cmp[task[w].b] = Absent THEN NewBinding ELSE cmp[task[w].b]
  IN /\ task[w].pc = "connection"
     /\ \/ o.pub = NoPassword /\ BinderFailed(w, "notReady")
        \/ /\ o.pub # NoPassword /\ ~o.endpoint
           /\ \E err \in mapMariadbEndpoint : BinderFailed(w, err)
        \/ /\ o.pub # NoPassword /\ o.endpoint
           /\ task' = [task EXCEPT ![w].pc = "cluster", ![w].pw = o.pub]
           /\ resp' = NoResp
           /\ UNCHANGED <<objects, secretFresh, userFresh, history>>

GetCluster(w) ==
  /\ task[w].pc = "cluster" /\ task[w].op # "Bind"
  /\ \/ parent = "absent" /\ BinderFailed(w, "other")
     \/ parent # "absent" /\ Succeed(w, task[w].pw)

\* A call of the request fails, or its context is cancelled: to
\* LastBindingOperation such an error of the binder is a failed operation.
Abort(w) ==
  /\ task[w] # Idle
  /\ IF task[w].pc = "instance" THEN Refuse(w, "error") ELSE BinderFailed(w, "other")
-----------------------------------------------------------------------------
(***************************************************************************)
(* Not in this repository: the controllers that make a User and a          *)
(* connection secret from a composite, the garbage collector, and the life *)
(* of the two instances.                                                   *)
(***************************************************************************)
Env == resp' = NoResp /\ UNCHANGED <<task, secretFresh, history>>

Live(b) == cmp[b] # Absent /\ ~cmp[b].deleting

\* The composite's reference to the User is stored before the User is created.
ComposeRef(b) ==
  /\ Live(b) /\ ~cmp[b].userRef
  /\ cmp' = [cmp EXCEPT ![b].userRef = TRUE]
  /\ Env /\ UNCHANGED <<instances, secret, user, userFresh>>

CreateUser(b) ==
  /\ Live(b) /\ cmp[b].userRef /\ user[b] = Absent
  /\ user' = [user EXCEPT ![b] = [pw |-> NoPassword, deleting |-> FALSE]]
  /\ Env /\ UNCHANGED <<instances, secret, cmp, userFresh>>

\* The database user gets the password in the Secret.
SyncUser(b) ==
  /\ user[b] # Absent /\ ~user[b].deleting /\ secret[b] # Absent
  /\ user[b].pw # secret[b].pw
  /\ user' = [user EXCEPT ![b].pw = secret[b].pw]
  /\ Env /\ UNCHANGED <<instances, secret, cmp, userFresh>>

Publish(b) ==
  /\ Live(b) /\ user[b] # Absent /\ user[b].pw # NoPassword
  /\ cmp[b].pub # user[b].pw \/ ~cmp[b].ready \/ ~cmp[b].endpoint
  /\ \E e \in {cmp[b].endpoint, TRUE} :
       cmp' = [cmp EXCEPT ![b].pub = user[b].pw, ![b].endpoint = e, ![b].ready = TRUE]
  /\ Env /\ UNCHANGED <<instances, secret, user, userFresh>>

Unready(b) ==
  /\ cmp[b] # Absent /\ cmp[b].ready
  /\ cmp' = [cmp EXCEPT ![b].ready = FALSE]
  /\ Env /\ UNCHANGED <<instances, secret, user, userFresh>>

\* Garbage collection: the dependents of a composite that is being deleted.
CollectUser(b) ==
  /\ cmp[b] # Absent /\ cmp[b].deleting
  /\ user[b] # Absent /\ ~user[b].deleting
  /\ user' = [user EXCEPT ![b].deleting = TRUE]
  /\ Env /\ UNCHANGED <<instances, secret, cmp, userFresh>>

CollectSecret(b) ==
  /\ secret[b] # Absent
  /\ \/ secret[b].owner = "dead"
     \/ secret[b].owner = "live" /\ user[b] # Absent /\ user[b].deleting
  /\ secret' = [secret EXCEPT ![b] = Absent]
  /\ secretFresh' = secretFresh \ On(b)
  /\ resp' = NoResp
  /\ UNCHANGED <<instances, cmp, user, task, userFresh, history>>

RemoveUser(b) ==
  /\ user[b] # Absent /\ user[b].deleting
  /\ IF secret[b] = Absent THEN TRUE ELSE secret[b].owner # "live"
  /\ user' = [user EXCEPT ![b] = Absent]
  /\ userFresh' = userFresh \ On(b)
  /\ Env /\ UNCHANGED <<instances, secret, cmp>>

RemoveBinding(b) ==
  /\ cmp[b] # Absent /\ cmp[b].deleting /\ user[b] = Absent
  /\ cmp' = [cmp EXCEPT ![b] = Absent]
  /\ Env /\ UNCHANGED <<instances, secret, user, userFresh>>

\* The instances are provisioned, become ready, lose readiness and are
\* deprovisioned; nothing keeps an instance with bindings from it.
Database(s) ==
  /\ \/ db = "absent" /\ s = "creating"
     \/ db \in {"creating", "ready"} /\ s # db
  /\ db' = s
  /\ conn' = IF s = "absent" THEN "missing" ELSE conn
  /\ Env /\ UNCHANGED <<service, parent, secret, cmp, user, userFresh>>

Connection(s) ==
  /\ service = RedisService /\ db # "absent"
  /\ \/ conn = "missing" /\ s \in {"noEndpoint", "noPorts", "complete"}
     \/ conn \in {"noEndpoint", "noPorts"} /\ s = "complete"
  /\ conn' = s
  /\ Env /\ UNCHANGED <<service, db, parent, secret, cmp, user, userFresh>>

Parent(s) ==
  /\ service = MariaDBDatabaseService
  /\ \/ parent = "absent" /\ s = "creating"
     \/ parent = "creating" /\ s \in {"partial", "published", "absent"}
     \/ parent = "partial" /\ s \in {"published", "absent"}
     \/ parent = "published" /\ s = "absent"
  /\ parent' = s
  /\ Env /\ UNCHANGED <<service, db, conn, secret, cmp, user, userFresh>>

Collect(b) == CollectUser(b) \/ CollectSecret(b) \/ RemoveUser(b) \/ RemoveBinding(b)
Controllers(b) == ComposeRef(b) \/ CreateUser(b) \/ SyncUser(b) \/ Publish(b) \/ Unready(b)

Step(w) ==
  \/ GetPlanInstance(w) \/ GetRedisBinding(w)
  \/ BindParent(w) \/ BindSecret(w) \/ BindComposite(w) \/ BindEndpoint(w) \/ BindCluster(w)
  \/ MarkGetBinding(w) \/ MarkGetSecret(w) \/ MarkGetUser(w) \/ MarkOwned(w) \/ UnbindDelete(w)
  \/ GetBinding(w) \/ GetConnection(w) \/ GetCluster(w)

Next ==
  \/ \E w \in Workers : Step(w) \/ Abort(w)
  \/ \E w \in Workers, op \in Calls, b \in BindingIDs, async \in BOOLEAN : Receive(w, op, b, async)
  \/ \E b \in BindingIDs : Controllers(b) \/ Collect(b)
  \/ \E s \in {"absent", "creating", "ready"} : Database(s)
  \/ \E s \in {"noEndpoint", "noPorts", "complete"} : Connection(s)
  \/ \E s \in {"creating", "partial", "published", "absent"} : Parent(s)

Spec == Init /\ [][Next]_vars

\* The garbage collector works on, and goroutines are scheduled.
FairSpec ==
  /\ Spec
  /\ \A w \in Workers : WF_vars(Step(w))
  /\ \A b \in BindingIDs : WF_vars(Collect(b))
-----------------------------------------------------------------------------
(***************************************************************************)
(* Properties.                                                             *)
(***************************************************************************)

\* A password the platform is given for a binding it has not unbound, by Bind
\* or by GetBinding, is the one in the binding's Secret: however often Bind is
\* repeated and wherever one of the attempts failed, GetBinding returns what
\* Bind returned.
HandedPasswordIsStored ==
  (resp.pw # NoPassword /\ resp.b \notin unbound)
    => secret[resp.b] # Absent /\ secret[resp.b].pw = resp.pw

\* The Secret of a binding that was not unbound is never replaced nor lost, so
\* credentials once handed out stay valid.
CredentialsStay ==
  [][\A b \in BindingIDs :
       (secret[b] # Absent /\ b \notin unbound')
         => secret'[b] # Absent /\ secret'[b].pw = secret[b].pw]_vars

\* A composite that is not being deleted has its Secret: createBinding makes
\* the Secret first, and Unbind, wherever it is interrupted, never gives the
\* Secret away before the composite.
LiveBindingHasSecret ==
  \A b \in BindingIDs : Live(b) => secret[b] # Absent

\* A binding the platform was told it has, by the answer to any one of its
\* Binds, is not reported as missing until it unbinds it: not while other
\* Binds of the ID fail, and not when instances come and go.
BoundIsFound ==
  resp.code = "bindingGone" => resp.b \notin bound \/ resp.b \in unbound

\* After a successful Unbind nothing is left of the binding: neither the
\* composite nor the Secret.
UnbindCleansUp ==
  \A b \in BindingIDs :
    (resp.op = "Unbind" /\ resp.code = "ok" /\ resp.b = b)
      ~> (cmp[b] = Absent /\ secret[b] = Absent)

\* Unbind answers ErrBindingDoesNotExist for a binding that is still there only
\* while its User is missing: NotFound of any other object means that the
\* binding is on its way out.
GoneOrUserMissing ==
  (resp.op = "Unbind" /\ resp.code = "bindingGone" /\ Live(resp.b)) => user[resp.b] = Absent
=============================================================================
