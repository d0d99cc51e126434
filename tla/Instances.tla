----------------------------- MODULE Instances -----------------------------
(***************************************************************************)
(* Service instances: Provision, Update, Deprovision, GetInstance and      *)
(* LastOperation of pkg/brokerapi/broker.go on top of the Kubernetes       *)
(* client of pkg/crossplane/client.go.                                     *)
(*                                                                         *)
(* The broker keeps no state.  An instance is a composite object in the    *)
(* Kubernetes API, and a request is a sequence of API calls that other     *)
(* requests and the Crossplane controllers interleave with: a step of a    *)
(* worker is one call on a composite with the code up to the next such     *)
(* call.  Reads of the catalogue, which does not change, have no step of   *)
(* their own.                                                              *)
(***************************************************************************)
EXTENDS Catalog

CONSTANTS
  InstanceIDs, \* instance IDs; a composite's name is an instance ID
  Workers,     \* the goroutines that handle requests
  Requests,    \* the requests the platform may send
  Principals,  \* names a request can be authenticated with
  Reasons,     \* reasons of the Ready condition the controllers report
  NoParent,    \* no parent_reference in the parameters, no parent label
  NotAString,  \* a parent_reference that is not a JSON string
  NoPrincipal, \* an authenticated request from which no name can be read
  NoRequest,   \* a worker without a request
  Absent       \* no such object

VARIABLES
  composites,  \* composites[<<kind, id>>]: the objects in the API server
  task,        \* task[w]: where worker w is in handling its request
  fresh,       \* workers whose read resourceVersion is the stored one still
  resp,        \* the response given by the last step, if it gave one
  late,        \* history: late[w], databases created since w listed them
  steady,      \* history: workers searching an instance that has existed
               \* since they received their request
  known,       \* history: IDs that were a MariaDB instance at some time
  moved        \* history: databases whose parent_reference an update has changed

vars == <<composites, task, fresh, resp, late, steady, known, moved>>
-----------------------------------------------------------------------------
\* Parameters: the parent reference, and the tls setting of Redis.
Settings == {"none", "tls true", "tls false", "tls []", "tls [..]"}
ParamMap == [parent : InstanceIDs \cup {NoParent, NotAString}, tls : Settings]
NoParams == [parent |-> NoParent, tls |-> "none"]

\* raw: the parameters are missing, not a JSON object, or the map params.
\* plan is the plan ID in the request (for Update the previous one).
Request ==
  [ op        : {"Provision", "Update", "Deprovision", "GetInstance", "LastOperation"},
    id        : InstanceIDs,
    plan      : Plans \cup {NoPlan},
    newPlan   : Plans \cup {NoPlan},
    service   : ServiceIDs,
    raw       : {"nil", "malformed", "map"},
    params    : ParamMap,
    async     : BOOLEAN,
    principal : Principals \cup {NoPrincipal} ]

ASSUME InstancesAssumption ==
  /\ Requests \subseteq Request
  /\ NoRequest \notin Requests
  /\ NoParent \notin InstanceIDs /\ NotAString \notin InstanceIDs /\ NoParent # NotAString
  /\ NoPrincipal \notin Principals

\* A composite: spec.compositionRef and spec.parameters, the labels of
\* prepareLabels that the broker reads, the reason of the Ready condition
\* ("none" before the controller's first reconciliation, which also adds the
\* finalizer) and whether a deletion timestamp is set.
Composite ==
  [ plan : Plans, params : ParamMap,
    PlanName : PlanNames, SLA : SLAs, ServiceID : ServiceIDs, ServiceName : ServiceNames,
    parent : InstanceIDs \cup {NoParent}, principal : Principals,
    reason : Reasons \cup {"none"}, deleting : BOOLEAN ]

ASSUME AbsentAssumption == Absent \notin Composite

Keys == Kinds \X InstanceIDs

Idle == [pc |-> "idle", req |-> NoRequest, plan |-> NoPlan, next |-> 0, inst |-> Absent]
NoResp == [code |-> "none", req |-> NoRequest, plan |-> NoPlan]

Codes ==
  { "none", "accepted", "exists", "conflict", "asyncRequired", "badParams", "panic",
    "gone", "notFound", "notPermitted", "inUse", "ok",
    "succeeded", "inProgress", "failed", "error" }

Task ==
  [ pc   : {"idle", "get", "find", "validate", "create", "update", "list", "delete"},
    req  : Requests \cup {NoRequest},
    plan : Plans \cup {NoPlan},
    next : 0..(Len(PlanList) + 1),
    inst : Composite \cup {Absent} ]

TypeOK ==
  /\ composites \in [Keys -> Composite \cup {Absent}]
  /\ task \in [Workers -> Task]
  /\ fresh \subseteq Workers
  /\ resp \in [code : Codes, req : Requests \cup {NoRequest}, plan : Plans \cup {NoPlan}]
  /\ late \in [Workers -> SUBSET InstanceIDs]
  /\ steady \subseteq Workers
  /\ known \subseteq InstanceIDs
  /\ moved \subseteq InstanceIDs

Init ==
  /\ composites = [k \in Keys |-> Absent]
  /\ task = [w \in Workers |-> Idle]
  /\ fresh = {}
  /\ resp = NoResp
  /\ late = [w \in Workers |-> {}]
  /\ steady = {}
  /\ known = {}
  /\ moved = {}
-----------------------------------------------------------------------------
Key(p, id) == <<GVK(p), id>>

\* Workers that hold a copy of the object at k they mean to write back.
Readers(k) == {v \in Workers : task[v].inst # Absent /\ Key(task[v].plan, task[v].req.id) = k}

\* Worker w answers its request, about plan p, and is free again.
Answer(w, code, p) ==
  /\ task' = [task EXCEPT ![w] = Idle]
  /\ resp' = [code |-> code, req |-> task[w].req, plan |-> p]
  /\ late' = [late EXCEPT ![w] = {}]
  /\ steady' = steady \ {w}

\* Worker w goes on at pc with plan p and the instance o it has read.
Continue(w, pc, p, o) ==
  /\ task' = [task EXCEPT ![w] = [@ EXCEPT !.pc = pc, !.plan = p, !.next = 0, !.inst = o]]
  /\ resp' = NoResp
  /\ steady' = steady \ {w}
  /\ UNCHANGED <<late, known, moved>>

\* The answer to a request that changes no object.
Reply(w, code, p) == Answer(w, code, p) /\ fresh' = fresh \ {w} /\ UNCHANGED <<composites, known, moved>>
Refuse(w, code) == Reply(w, code, task[w].plan)

Exists(id) == \E kind \in Kinds : composites[<<kind, id>>] # Absent

\* A request arrives.  BrokerAPI.Provision insists on async; every handler
\* starts by resolving its plan, or with a search over all plans.
Receive(w, r) ==
  /\ task[w] = Idle
  /\ LET t == [Idle EXCEPT !.req = r]
         refused == [code |-> "error", req |-> r, plan |-> NoPlan]
     IN \/ /\ r.op = "Provision" /\ ~r.async
           /\ task' = task
           /\ resp' = [refused EXCEPT !.code = "asyncRequired"]
           /\ UNCHANGED steady
        \/ /\ r.op = "Provision" => r.async
           /\ r.op = "Provision" \/ r.plan # NoPlan
           /\ IF PlanFound(r.plan)
                THEN /\ task' = [task EXCEPT ![w] = [t EXCEPT !.pc = "get", !.plan = r.plan]]
                     /\ resp' = NoResp
                ELSE /\ task' = task
                     /\ resp' = refused
           /\ UNCHANGED steady
        \/ /\ r.op # "Provision" /\ r.plan = NoPlan
           /\ IF PlansFound
                THEN /\ task' = [task EXCEPT ![w] = [t EXCEPT !.pc = "find", !.next = 1]]
                     /\ steady' = IF Exists(r.id) THEN steady \cup {w} ELSE steady
                     /\ resp' = NoResp
                ELSE /\ task' = task
                     /\ resp' = refused
                     /\ UNCHANGED steady
  /\ UNCHANGED <<composites, fresh, late, known, moved>>
-----------------------------------------------------------------------------
\* The tls setting as ValidateProvisionParams of Redis rewrites it.
TLSBoolean(s) == IF s = "tls [..]" THEN "tls true" ELSE IF s = "tls []" THEN "tls false" ELSE s

\* The parameters a request stores, once validated for the service: MariaDB is
\* no ProvisionValidater and stores none.
Validated(name, r) ==
  IF r.raw = "nil" \/ name = MariaDBService THEN NoParams
  ELSE IF name = RedisService THEN [r.params EXCEPT !.tls = TLSBoolean(@)]
  ELSE r.params

\* validateParams up to its API call: go on with the write at pc, fetch the
\* parent of a database first, or refuse the request.
ValidateParams(w, name, pc, p, o) ==
  LET r == task[w].req
      checked == r.raw # "nil" /\ name # MariaDBService
  IN \/ /\ ~checked \/ (name = RedisService /\ r.raw = "map")
        /\ Continue(w, pc, p, o)
        /\ fresh' = IF o = Absent THEN fresh ELSE fresh \cup {w}
        /\ UNCHANGED composites
     \/ /\ checked /\ r.raw = "malformed"
        /\ Refuse(w, "badParams")
     \/ /\ checked /\ name = MariaDBDatabaseService /\ r.raw = "map"
        /\ \/ /\ r.params.parent = NoParent
              /\ Refuse(w, "badParams")
           \/ /\ r.params.parent = NotAString
              /\ Refuse(w, "panic")
           \/ /\ r.params.parent \in InstanceIDs
              /\ Continue(w, "validate", p, o)
              /\ fresh' = IF o = Absent THEN fresh ELSE fresh \cup {w}
              /\ UNCHANGED composites

\* Faulty variant: any object with the ID is a match.
MatchesAnyPlan(o, p) == o # Absent

\* Instance: the object read exists and has the name of plan p.
Matches(o, p) == o # Absent /\ o.PlanName = Labels[p].PlanName

\* Provision, once it has read the composite: Instance distinguishes no
\* object, an object with another plan name (errInstanceNotFound) and a match.
ProvisionGet(w) ==
  LET t == task[w]
      o == composites[Key(t.plan, t.req.id)]
  IN /\ t.pc = "get" /\ t.req.op = "Provision"
     /\ \/ /\ o = Absent
           /\ ValidateParams(w, Labels[t.plan].ServiceName, "create", t.plan, Absent)
        \/ /\ o # Absent
           /\ ~Matches(o, t.plan)
           /\ Refuse(w, "error")
        \/ /\ Matches(o, t.plan)
           /\ Refuse(w, IF t.req.raw = "nil" THEN "exists" ELSE "conflict")

\* Faulty variant: the parent is not looked up.
ValidateNothing(w) ==
  /\ task[w].pc = "validate"
  /\ Continue(w, IF task[w].req.op = "Provision" THEN "create" ELSE "update", task[w].plan, task[w].inst)
  /\ UNCHANGED <<composites, fresh>>

\* ValidateProvisionParams of a database fetches the parent; it does not ask
\* whether the parent is being deleted.
ValidateProvisionParams(w) ==
  LET t == task[w]
  IN /\ t.pc = "validate"
     /\ \/ /\ composites[<<MariaDBKind, t.req.params.parent>>] = Absent
           /\ Refuse(w, "badParams")
        \/ /\ composites[<<MariaDBKind, t.req.params.parent>>] # Absent
           /\ Continue(w, IF t.req.op = "Provision" THEN "create" ELSE "update", t.plan, t.inst)
           /\ UNCHANGED <<composites, fresh>>

\* Faulty variant: the parent label is left out.
NewCompositeUnlabelled(p, r) ==
  LET l == Labels[p]
  IN [ plan |-> p, params |-> Validated(l.ServiceName, r),
       PlanName |-> l.PlanName, SLA |-> l.SLA,
       ServiceID |-> l.ServiceID, ServiceName |-> l.ServiceName,
       parent |-> NoParent, principal |-> r.principal,
       reason |-> "none", deleting |-> FALSE ]

\* CreateInstance with prepareLabels; the parent label is set here only.
NewComposite(p, r) ==
  LET l == Labels[p]
      ap == Validated(l.ServiceName, r)
  IN [ plan |-> p, params |-> ap,
       PlanName |-> l.PlanName, SLA |-> l.SLA,
       ServiceID |-> l.ServiceID, ServiceName |-> l.ServiceName,
       parent |-> ap.parent, principal |-> r.principal,
       reason |-> "none", deleting |-> FALSE ]

CreateInstance(w) ==
  LET t == task[w]
      k == Key(t.plan, t.req.id)
  IN /\ t.pc = "create"
     /\ \/ /\ t.req.principal = NoPrincipal
           /\ Refuse(w, "error")
        \/ /\ t.req.principal # NoPrincipal
           /\ NewComposite(t.plan, t.req).parent = NotAString
           /\ Refuse(w, "panic")
        \/ /\ t.req.principal # NoPrincipal
           /\ NewComposite(t.plan, t.req).parent # NotAString
           /\ composites[k] # Absent
           /\ Refuse(w, "error")
        \/ /\ t.req.principal # NoPrincipal
           /\ NewComposite(t.plan, t.req).parent # NotAString
           /\ composites[k] = Absent
           /\ composites' = [composites EXCEPT ![k] = NewComposite(t.plan, t.req)]
           /\ task' = [task EXCEPT ![w] = Idle]
           /\ resp' = [code |-> "accepted", req |-> t.req, plan |-> t.plan]
           /\ late' = [v \in Workers |->
                         IF k[1] = DatabaseKind /\ task[v].pc = "delete"
                           THEN late[v] \cup {k[2]} ELSE late[v]]
           /\ known' = IF k[1] = MariaDBKind THEN known \cup {k[2]} ELSE known
           /\ moved' = IF k[1] = DatabaseKind THEN moved \ {k[2]} ELSE moved
           /\ UNCHANGED <<fresh, steady>>
-----------------------------------------------------------------------------
\* Faulty variant: only the service of the new plan is compared.
UpdateFoundUnruled(w, p, o) ==
  LET r == task[w].req
  IN \/ /\ o.ServiceID # r.service \/ ~PlanFound(r.newPlan)
        /\ Reply(w, "error", p)
     \/ /\ o.ServiceID = r.service /\ PlanFound(r.newPlan)
        /\ ValidateParams(w, o.ServiceName, "update", p, o)

\* Update between reading instance o of plan p and writing it.
UpdateFound(w, p, o) ==
  LET r == task[w].req
  IN \/ /\ o.ServiceID # r.service
        /\ Reply(w, "notPermitted", p)
     \/ /\ o.ServiceID = r.service
        /\ ~PlanFound(r.newPlan)
        /\ Reply(w, "error", p)
     \/ /\ o.ServiceID = r.service
        /\ PlanFound(r.newPlan)
        /\ ~AllowUpdate(p, r.newPlan)
        /\ Reply(w, "notPermitted", p)
     \/ /\ o.ServiceID = r.service
        /\ PlanFound(r.newPlan)
        /\ AllowUpdate(p, r.newPlan)
        /\ ValidateParams(w, o.ServiceName, "update", p, o)

\* Faulty variants: the SLA label is forgotten, or set to the size.
UpdatedWithoutSLA(o, np, r) ==
  [o EXCEPT !.plan = np, !.PlanName = Labels[np].PlanName, !.params = Validated(o.ServiceName, r)]
UpdatedWithSizeAsSLA(o, np, r) ==
  [o EXCEPT !.plan = np, !.PlanName = Labels[np].PlanName, !.SLA = Labels[np].PlanSize,
            !.params = Validated(o.ServiceName, r)]

\* Faulty variant: the labels are made anew, as for a new instance.
UpdatedRelabelled(o, np, r) ==
  [o EXCEPT !.plan = np, !.PlanName = Labels[np].PlanName, !.SLA = Labels[np].SLA,
            !.params = Validated(o.ServiceName, r), !.parent = Validated(o.ServiceName, r).parent]

\* The object Update sends: the copy it read with the new Composition, two of
\* the plan's labels and the request's parameters in place of the stored ones.
UpdatedComposite(o, np, r) ==
  [o EXCEPT !.plan = np, !.PlanName = Labels[np].PlanName, !.SLA = Labels[np].SLA,
            !.params = Validated(o.ServiceName, r)]

\* Faulty variant: an update that ignores the version (a patch, say).
WriteForced(w, k) == composites[k] # Absent /\ k = Key(task[w].plan, task[w].req.id)

\* The API server takes the object only at the version it was read at.
WriteAccepted(w, k) ==
  composites[k] # Absent /\ w \in fresh /\ k = Key(task[w].plan, task[w].req.id)

\* The write of an unchanged object succeeds and makes no new version.
UpdateInstance(w) ==
  LET t == task[w]
      k == Key(t.req.newPlan, t.req.id)
      o == UpdatedComposite(t.inst, t.req.newPlan, t.req)
  IN /\ t.pc = "update"
     /\ \/ /\ ~WriteAccepted(w, k)
           /\ Refuse(w, "error")
        \/ /\ WriteAccepted(w, k)
           /\ composites' = [composites EXCEPT ![k] = o]
           /\ fresh' = IF o = composites[k] THEN fresh \ {w} ELSE fresh \ Readers(k)
           /\ Answer(w, "ok", t.req.newPlan)
           /\ moved' = IF k[1] = DatabaseKind /\ o.params.parent # composites[k].params.parent
                         THEN moved \cup {k[2]} ELSE moved
           /\ UNCHANGED known

\* Faulty variant: nothing is checked.
DeprovisionUnchecked(w, p, o) == Continue(w, "delete", p, Absent) /\ UNCHANGED <<composites, fresh>>

\* Deprovision, once it has the instance: only MariaDB has something to check.
DeprovisionFound(w, p, o) ==
  /\ Continue(w, IF o.ServiceName = MariaDBService THEN "list" ELSE "delete", p, Absent)
  /\ UNCHANGED <<composites, fresh>>

\* The databases that carry the parent label of instance id; the parameters of
\* a database that has been updated may refer to another one.
Children(id) == {d \in InstanceIDs :
                   /\ composites[<<DatabaseKind, d>>] # Absent
                   /\ composites[<<DatabaseKind, d>>].parent = id}

\* Deprovisionable of MariaDB lists the databases that carry its parent label.
Deprovisionable(w) ==
  LET t == task[w]
  IN /\ t.pc = "list"
     /\ \/ /\ Children(t.req.id) # {}
           /\ Refuse(w, "inUse")
        \/ /\ Children(t.req.id) = {}
           /\ Continue(w, "delete", t.plan, Absent)
           /\ UNCHANGED <<composites, fresh>>

\* What Delete leaves of an object: nothing, or with the controller's
\* finalizer on it, the object with a deletion timestamp.
Deleted(o) == IF o.reason = "none" THEN Absent ELSE [o EXCEPT !.deleting = TRUE]

\* Faulty variant: that there is nothing to delete is no error.
DeleteInstanceIfThere(w) ==
  LET t == task[w]
      k == Key(t.plan, t.req.id)
      o == composites[k]
  IN /\ t.pc = "delete"
     /\ composites' = IF o = Absent THEN composites ELSE [composites EXCEPT ![k] = Deleted(o)]
     /\ fresh' = fresh \ Readers(k)
     /\ Answer(w, "ok", t.plan)
     /\ UNCHANGED <<known, moved>>

\* DeleteInstance deletes by name, whatever object has it by now.
DeleteInstance(w) ==
  LET t == task[w]
      k == Key(t.plan, t.req.id)
      o == composites[k]
  IN /\ t.pc = "delete"
     /\ \/ /\ o = Absent
           /\ Refuse(w, "error")
        \/ /\ o # Absent
           /\ composites' = [composites EXCEPT ![k] = Deleted(o)]
           /\ fresh' = IF Deleted(o) = o THEN fresh ELSE fresh \ Readers(k)
           /\ task' = [task EXCEPT ![w] = Idle]
           /\ resp' = [code |-> "ok", req |-> t.req, plan |-> t.plan]
           /\ late' = [late EXCEPT ![w] = {}]
           /\ steady' = IF Deleted(o) = Absent THEN {v \in steady : task[v].req.id # k[2]} ELSE steady
           /\ UNCHANGED <<known, moved>>

\* GetInstance answers with the plan the lookup matched.
GetInstanceFound(w, p) == Reply(w, "ok", p)

\* LastOperation maps the reason of the Ready condition to a state.
LastOperationFound(w, p, o) ==
  Reply(w, IF o.reason = "Available" THEN "succeeded"
           ELSE IF o.reason \in {"Unavailable", "Deleting"} THEN "failed"
           ELSE "inProgress", p)

\* The handlers after getPlanInstance returned plan p and instance o.
Found(w, p, o) ==
  \/ task[w].req.op = "Update" /\ UpdateFound(w, p, o)
  \/ task[w].req.op = "Deprovision" /\ DeprovisionFound(w, p, o)
  \/ task[w].req.op = "GetInstance" /\ GetInstanceFound(w, p)
  \/ task[w].req.op = "LastOperation" /\ LastOperationFound(w, p, o)

\* getPlanInstance with a plan ID.
GetPlanInstance(w) ==
  LET t == task[w]
      o == composites[Key(t.plan, t.req.id)]
  IN /\ t.pc = "get" /\ t.req.op # "Provision"
     /\ \/ o = Absent /\ Refuse(w, "gone")
        \/ o # Absent /\ ~Matches(o, t.plan) /\ Refuse(w, "error")
        \/ Matches(o, t.plan) /\ Found(w, t.plan, o)

\* The loop is past the last plan.  Faulty variant: it leaves the last one out.
SearchStopsEarly(t) == t.next >= Len(PlanList)
SearchEnds(t) == t.next > Len(PlanList)

\* The next iteration.  Faulty variant: the same one again.
SearchAgain(t) == t
SearchOn(t) == [t EXCEPT !.next = @ + 1]

\* getPlanInstance without a plan ID: one iteration of the loop of
\* FindInstanceWithoutPlan, or its end.
FindInstanceWithoutPlan(w) ==
  LET t == task[w]
      p == PlanList[t.next]
      o == composites[Key(p, t.req.id)]
  IN /\ t.pc = "find"
     /\ \/ /\ SearchEnds(t)
           /\ Refuse(w, "notFound")
        \/ /\ ~SearchEnds(t)
           /\ ~Matches(o, p)
           /\ task' = [task EXCEPT ![w] = SearchOn(t)]
           /\ resp' = NoResp
           /\ UNCHANGED <<composites, fresh, late, steady, known, moved>>
        \/ /\ ~SearchEnds(t)
           /\ Matches(o, p)
           /\ Found(w, p, o)

\* A call of the request fails, or its context is cancelled.
Abort(w) == task[w] # Idle /\ Refuse(w, "error")
-----------------------------------------------------------------------------
\* The Crossplane controllers (not in this repository): they reconcile a
\* composite, which makes a new version of it, and take their finalizer off
\* a deleted one.
Reconcile(k, reason) ==
  /\ composites[k] # Absent
  /\ composites[k].deleting <=> reason = "Deleting"
  /\ composites' = [composites EXCEPT ![k].reason = reason]
  /\ fresh' = fresh \ Readers(k)
  /\ resp' = NoResp
  /\ UNCHANGED <<task, late, steady, known, moved>>

Finalize(k) ==
  /\ composites[k] # Absent
  /\ composites[k].deleting
  /\ composites' = [composites EXCEPT ![k] = Absent]
  /\ fresh' = fresh \ Readers(k)
  /\ resp' = NoResp
  /\ steady' = {v \in steady : task[v].req.id # k[2]}
  /\ UNCHANGED <<task, late, known, moved>>

Step(w) ==
  \/ ProvisionGet(w)
  \/ ValidateProvisionParams(w)
  \/ CreateInstance(w)
  \/ GetPlanInstance(w)
  \/ FindInstanceWithoutPlan(w)
  \/ UpdateInstance(w)
  \/ Deprovisionable(w)
  \/ DeleteInstance(w)

Next ==
  \/ \E w \in Workers : Step(w) \/ Abort(w)
  \/ \E w \in Workers, r \in Requests : Receive(w, r)
  \/ \E k \in Keys : Finalize(k)
  \/ \E k \in Keys, reason \in Reasons : Reconcile(k, reason)

Spec == Init /\ [][Next]_vars

\* A goroutine that can take its next step eventually does.
FairSpec == Spec /\ \A w \in Workers : WF_vars(Step(w))
-----------------------------------------------------------------------------
(***************************************************************************)
(* Properties.                                                             *)
(***************************************************************************)

\* The labels and the Composition of an instance never disagree: a lookup by
\* plan name, the factory that picks the binder by service name and the check
\* of Update by service ID all see the plan Crossplane composes the instance
\* from, although Update rewrites only two of the labels.
LabelsMatchPlan ==
  \A k \in Keys : composites[k] # Absent =>
    LET o == composites[k]
        l == Labels[o.plan]
    IN /\ l.Kind = k[1]
       /\ o.PlanName = l.PlanName /\ o.SLA = l.SLA
       /\ o.ServiceID = l.ServiceID /\ o.ServiceName = l.ServiceName

\* However updates of one instance interleave, the plan it has changes only
\* along AllowUpdate: the rules are checked against the plan that was read and
\* the write has to hit the same version of the object.
PlanChangesPermitted ==
  [][\A k \in Keys :
       (/\ composites[k] # Absent /\ composites'[k] # Absent
        /\ composites[k].plan # composites'[k].plan)
         => AllowUpdate(composites[k].plan, composites'[k].plan)]_vars

\* A response that says an instance has a plan is true when it is given: the
\* 202 and the 200 of Provision, the 200 of Update and the answer of
\* GetInstance, which takes the plan from the lookup and not from the object.
ReportedPlanIsStored ==
  (\/ resp.code \in {"accepted", "exists"}
   \/ resp.code = "ok" /\ resp.req.op \in {"Update", "GetInstance"})
    => LET o == composites[Key(resp.plan, resp.req.id)]
       IN o # Absent /\ o.plan = resp.plan

\* The databases on instance id as Bind and GetBinding see it: by the parent in
\* the parameters, which is the only one that an update writes.
ReferringTo(id) == {d \in InstanceIDs :
                      /\ composites[<<DatabaseKind, d>>] # Absent
                      /\ composites[<<DatabaseKind, d>>].params.parent = id}

\* Deprovision removes a MariaDB instance from under a database, one that has
\* its label or one that reaches it by its parameters, only if the database was
\* created after Deprovisionable had listed them, or if an update had given the
\* database to the instance: the list, by label, does not show such a one, and
\* it does lose its instance.
OnlyLateDatabasesLoseParent ==
  \A w \in Workers :
    (task[w].pc = "delete" /\ GVK(task[w].plan) = MariaDBKind)
      => Children(task[w].req.id) \cup (ReferringTo(task[w].req.id) \ moved) \subseteq late[w]

\* The parent of a database, in its label and in its parameters, was a MariaDB
\* instance at some time: ValidateProvisionParams has seen it.
ParentWasInstance ==
  \A d \in InstanceIDs :
    LET o == composites[<<DatabaseKind, d>>]
    IN o # Absent => {o.parent, o.params.parent} \subseteq known \cup {NoParent}

\* A search without a plan ID does not miss an instance that exists from the
\* time the request is received until the search ends, whatever plan an update
\* gives the instance meanwhile, if updates only lead to plans that the loop
\* reaches later (UpdatesGoForward).
SteadyInstanceFound ==
  [][\A w \in Workers :
       (task[w].pc = "find" /\ task'[w] = Idle /\ resp'.code = "notFound")
         => w \notin steady]_vars

\* Every request is answered: the search over the plans ends, and no handler
\* waits for another request or for a controller.
EveryRequestAnswered ==
  \A w \in Workers : (task[w] # Idle) ~> (task[w] = Idle)

(***************************************************************************)
(* What comments of the code say and the code does not do.                 *)
(***************************************************************************)

\* A database has a parent, which still exists.
ParentExists ==
  \A d \in InstanceIDs :
    LET o == composites[<<DatabaseKind, d>>]
    IN (o # Absent /\ o.parent # NoParent) => composites[<<MariaDBKind, o.parent>>] # Absent

\* A database's parent label, by which Deprovisionable searches, is the parent
\* in its parameters.
ParentLabelMatchesParams ==
  \A d \in InstanceIDs :
    LET o == composites[<<DatabaseKind, d>>]
    IN o # Absent => o.parent = o.params.parent
=============================================================================
