---------------------------- MODULE LiveCatalog ----------------------------
(***************************************************************************)
(* The catalogue endpoint, and a catalogue that changes.  Services of      *)
(* pkg/brokerapi/broker.go lists the XRDs and then, for each of them, the  *)
(* Compositions; Provision and GetInstance look plans up.  Meanwhile an    *)
(* administrator applies and deletes XRDs and Compositions, also with      *)
(* labels that do not parse.  What else happens to instances is left to    *)
(* module Instances, for which the catalogue is a constant.                *)
(***************************************************************************)
EXTENDS Naturals, FiniteSets

CONSTANTS
  Compositions, \* names of Compositions, which are the plan IDs
  XRDs,         \* names of XRDs
  ServiceIDs,   \* the configured services
  PlanLabels,   \* what the administrator may write on a Composition
  XRDLabels,    \* ... and on an XRD
  GVK,          \* GVK[p]: the kind p creates; it cannot be changed
  NameRank,     \* NameRank[n]: the place of plan name n in the order of strings
  InstanceIDs,
  Workers,      \* the goroutines that handle requests
  MaxTouched,   \* bound: objects the administrator changes during one request
  NoPlan,
  NoRequest,
  Absent

Valid == {"redis-k8s", "mariadb-k8s", "mariadb-k8s-database"}
Bool  == {"", "true", "false", "malformed"}
Json  == {"valid", "malformed"}

\* An instance as it is stored: its Composition and its plan name label.
Instance == [plan : Compositions, PlanName : {l.PlanName : l \in PlanLabels}]

ASSUME LiveCatalogAssumption ==
  /\ \A l \in PlanLabels :
       /\ DOMAIN l = {"ServiceID", "ServiceName", "PlanName", "Bindable", "Metadata"}
       /\ l.Bindable \in Bool /\ l.Metadata \in Json /\ NameRank[l.PlanName] \in Nat
  /\ \A l \in XRDLabels :
       /\ DOMAIN l = {"ServiceID", "ServiceName", "Bindable", "Metadata"}
       /\ l.Bindable \in Bool /\ l.Metadata \in Json
  /\ Absent \notin PlanLabels \cup XRDLabels \cup Instance
  /\ NoPlan \notin Compositions
  /\ Compositions \cap XRDs = {}
  /\ MaxTouched \in Nat

VARIABLES
  compositions, \* compositions[p]: the labels of Composition p
  xrds,         \* xrds[x]: the labels of XRD x
  instances,    \* instances[<<kind, id>>]: its Composition and plan name label
  task,         \* task[w]: where worker w is in handling its request
  resp,         \* the response given by the last step, if it gave one
  touched,      \* history: touched[w], what was changed since w's request came
  broken,       \* history: broken[w], the services that had, since then, a
                \* Composition that does not parse
  drifted       \* history: instances whose Composition was changed since its
                \* labels were copied to them

vars == <<compositions, xrds, instances, task, resp, touched, broken, drifted>>
catalog == <<compositions, xrds>>

Keys == {GVK[p] : p \in Compositions} \X InstanceIDs

Request ==
  [op : {"Services"}, id : {Absent}, plan : {NoPlan}]
    \cup [op : {"Provision"}, id : InstanceIDs, plan : Compositions]
    \cup [op : {"GetInstance"}, id : InstanceIDs, plan : Compositions \cup {NoPlan}]

\* plans: read and still to be considered, with their labels; todo: the XRDs
\* left; services: what is offered so far; had: the instances with the ID in the
\* request that existed when it came; lost: a call for plans failed.
Idle == [pc |-> "idle", req |-> NoRequest, plans |-> {}, todo |-> {}, services |-> {},
         had |-> {}, lost |-> FALSE]
NoResp == [code |-> "none", plan |-> NoPlan, task |-> Idle, touched |-> {}, broken |-> {}]

TypeOK ==
  /\ compositions \in [Compositions -> PlanLabels \cup {Absent}]
  /\ xrds \in [XRDs -> XRDLabels \cup {Absent}]
  /\ instances \in [Keys -> Instance \cup {Absent}]
  /\ \A w \in Workers :
       /\ task[w].pc \in {"idle", "xrds", "servicePlans", "plan", "get", "create", "plans", "find"}
       /\ task[w].req \in Request \cup {NoRequest}
       /\ task[w].todo \subseteq [name : XRDs, labels : XRDLabels]
       /\ task[w].plans \subseteq [name : Compositions, labels : PlanLabels]
       /\ task[w].had \subseteq Keys
       /\ touched[w] \subseteq Compositions \cup XRDs
       /\ broken[w] \subseteq {l.ServiceID : l \in PlanLabels}
  /\ drifted \subseteq Keys

Init ==
  /\ compositions = [p \in Compositions |-> Absent]
  /\ xrds = [x \in XRDs |-> Absent]
  /\ instances = [k \in Keys |-> Absent]
  /\ task = [w \in Workers |-> Idle]
  /\ resp = NoResp
  /\ touched = [w \in Workers |-> {}]
  /\ broken = [w \in Workers |-> {}]
  /\ drifted = {}
-----------------------------------------------------------------------------
\* parseBoolLabel, for a label that parses.
parseBoolLabel(s, default) == IF s = "" THEN default ELSE s = "true"

\* parseLabels returns no error.  It parses the labels bindable, updatable and
\* deleted alike; Bindable stands for whether all three parse.
LabelsParse(l) == l.ServiceName \in Valid /\ l.Bindable # "malformed"

\* The API server's answer to a List of the objects in o with a service ID in
\* ids: names and labels.
Listed(o, ids) == {[name |-> n, labels |-> o[n]] : n \in {m \in DOMAIN o : o[m] # Absent /\ o[m].ServiceID \in ids}}

\* ServiceXRDs fails when a single one of them does not parse.
ServiceXRDs == Listed(xrds, ServiceIDs)
ServiceXRDsFound == \A x \in ServiceXRDs : LabelsParse(x.labels)

\* Faulty variants: all configured services are looked at.
PlansOfAll(ids) == Listed(compositions, ServiceIDs)
PlansFoundOfAll(ids) == \A c \in Listed(compositions, ServiceIDs) : LabelsParse(c.labels)

\* Plans: all of them, or an error.  Who goes through them takes a First one at
\* a time: sort.Slice leaves plans of the same name in any order.
Plans(ids) == Listed(compositions, ids)
PlansFound(ids) == \A c \in Listed(compositions, ids) : LabelsParse(c.labels)
First(plans) ==
  {c \in plans : \A d \in plans : NameRank[c.labels.PlanName] <= NameRank[d.labels.PlanName]}

\* newServicePlan: metadata that does not parse costs the display name only.
newServicePlan(c) ==
  [ ID |-> c.name, Name |-> c.labels.PlanName, Bindable |-> parseBoolLabel(c.labels.Bindable, TRUE),
    DisplayName |-> IF c.labels.Metadata = "valid" THEN "metadata" ELSE c.labels.PlanName ]

\* newService, with the plans or, if there was an error, without.
newService(x, plans) ==
  [ XRD |-> x.name, ID |-> x.labels.ServiceID, Name |-> x.labels.ServiceName,
    Bindable |-> parseBoolLabel(x.labels.Bindable, TRUE),
    DisplayName |-> IF x.labels.Metadata = "valid" THEN "metadata" ELSE x.labels.ServiceName,
    Plans |-> plans ]
-----------------------------------------------------------------------------
\* Worker w answers its request, about plan p, and is free again.
Answer(w, code, p) ==
  /\ resp' = [code |-> code, plan |-> p, task |-> task[w], touched |-> touched[w], broken |-> broken[w]]
  /\ task' = [task EXCEPT ![w] = Idle]
  /\ touched' = [touched EXCEPT ![w] = {}]
  /\ broken' = [broken EXCEPT ![w] = {}]
Reply(w, code, p) == Answer(w, code, p) /\ UNCHANGED <<catalog, instances, drifted>>
Refuse(w, code) == Reply(w, code, task[w].req.plan)

\* Worker w has made a call that changed nothing and goes on as t.
Goto(w, t) ==
  /\ task' = [task EXCEPT ![w] = t]
  /\ resp' = NoResp
  /\ UNCHANGED <<catalog, instances, touched, drifted>>
Continue(w, t) == Goto(w, t) /\ UNCHANGED broken

\* Services with a Composition in o that does not parse.
Unparsed(o) == {o[p].ServiceID : p \in {q \in Compositions : o[q] # Absent /\ ~LabelsParse(o[q])}}

\* A request arrives.
Receive(w, r) ==
  /\ task[w] = Idle
  /\ Goto(w, [Idle EXCEPT !.req = r,
       !.pc = CASE r.op = "Services" -> "xrds" [] r.plan # NoPlan -> "plan" [] OTHER -> "plans",
       !.had = {k \in Keys : k[2] = r.id /\ instances[k] # Absent}])
  /\ broken' = [broken EXCEPT ![w] = Unparsed(compositions)]

\* Services: the XRDs ...
Services(w) ==
  LET t == task[w]
  IN /\ t.pc = "xrds"
     /\ \/ ~ServiceXRDsFound /\ Refuse(w, "error")
        \/ ServiceXRDsFound /\ Continue(w, [t EXCEPT !.pc = "servicePlans", !.todo = ServiceXRDs])

\* ... and the plans of each.  That they are not found is only logged.
servicePlans(w) ==
  LET t == task[w]
      Offer(x, plans, lost) ==
        Continue(w, [t EXCEPT !.todo = @ \ {x}, !.services = @ \cup {newService(x, plans)}, !.lost = @ \/ lost])
  IN /\ t.pc = "servicePlans"
     /\ \/ t.todo = {} /\ Refuse(w, "ok")
        \/ \E x \in t.todo :
             LET ids == {x.labels.ServiceID}
             IN \/ ~PlansFound(ids) /\ Offer(x, {}, FALSE)
                \/ PlansFound(ids) /\ Offer(x, {newServicePlan(c) : c \in Plans(ids)}, FALSE)
                \/ Offer(x, {}, TRUE)  \* the call fails
-----------------------------------------------------------------------------
\* Plan, with a plan ID in the request.  It does not ask whether the plan is of
\* a configured service.
Plan(w) ==
  LET t == task[w]
      l == compositions[t.req.plan]
  IN /\ t.pc = "plan"
     /\ \/ l = Absent /\ Refuse(w, "noPlan")
        \/ l # Absent /\ ~LabelsParse(l) /\ Refuse(w, "error")
        \/ /\ l # Absent /\ LabelsParse(l)
           /\ Continue(w, [t EXCEPT !.pc = "get", !.plans = {[name |-> t.req.plan, labels |-> l]}])

\* FindInstanceWithoutPlan starts with the list of all plans.
ListPlans(w) ==
  LET t == task[w]
  IN /\ t.pc = "plans"
     /\ \/ ~PlansFound(ServiceIDs) /\ Refuse(w, "error")
        \/ PlansFound(ServiceIDs) /\ Continue(w, [t EXCEPT !.pc = "find", !.plans = Plans(ServiceIDs)])

\* Faulty variant: any object with the ID is a match.
MatchesAny(o, c) == o # Absent

\* Instance: the object read has the plan name the plan had when it was read.
Matches(o, c) == o # Absent /\ o.PlanName = c.labels.PlanName

\* Instance for the plan c that was read.
Found(w, c) == instances[<<GVK[c.name], task[w].req.id>>]

\* getPlanInstance with a plan ID, and Provision up to CreateInstance, for the
\* one plan c that was read.
GetInstance(w) ==
  LET t == task[w]
  IN \E c \in t.plans :
       LET o == Found(w, c)
       IN /\ t.pc = "get"
          /\ \/ o = Absent /\ t.req.op = "GetInstance" /\ Refuse(w, "gone")
             \/ o = Absent /\ t.req.op = "Provision" /\ Continue(w, [t EXCEPT !.pc = "create"])
             \/ o # Absent /\ ~Matches(o, c) /\ Refuse(w, "error")
             \/ Matches(o, c) /\ Refuse(w, IF t.req.op = "Provision" THEN "exists" ELSE "ok")

\* Faulty variant: an instance of another plan ends the search.
FindFirst(w) ==
  LET t == task[w]
  IN /\ t.pc = "find"
     /\ \/ t.plans = {} /\ Refuse(w, "notFound")
        \/ \E c \in First(t.plans) :
             LET o == Found(w, c)
             IN \/ o = Absent /\ Continue(w, [t EXCEPT !.plans = @ \ {c}])
                \/ o # Absent /\ ~Matches(o, c) /\ Refuse(w, "notFound")
                \/ Matches(o, c) /\ Reply(w, "ok", c.name)

\* One iteration of the loop of FindInstanceWithoutPlan, or its end.
FindInstanceWithoutPlan(w) ==
  LET t == task[w]
  IN /\ t.pc = "find"
     /\ \/ t.plans = {} /\ Refuse(w, "notFound")
        \/ \E c \in First(t.plans) :
             \/ ~Matches(Found(w, c), c) /\ Continue(w, [t EXCEPT !.plans = @ \ {c}])
             \/ Matches(Found(w, c), c) /\ Reply(w, "ok", c.name)

\* Faulty variant: the instance is labelled with the plan ID.
CreateInstanceNamed(w) ==
  \E c \in task[w].plans :
    /\ task[w].pc = "create"
    /\ instances' = [instances EXCEPT ![<<GVK[c.name], task[w].req.id>>] = [plan |-> c.name, PlanName |-> c.name]]
    /\ Answer(w, "accepted", c.name)
    /\ UNCHANGED <<catalog, drifted>>

\* CreateInstance copies the plan's labels as they were when it was read.
CreateInstance(w) ==
  \E c \in task[w].plans :
    LET k == <<GVK[c.name], task[w].req.id>>
    IN /\ task[w].pc = "create"
       /\ \/ instances[k] # Absent /\ Refuse(w, "error")
          \/ /\ instances[k] = Absent
             /\ instances' = [instances EXCEPT ![k] = [plan |-> c.name, PlanName |-> c.labels.PlanName]]
             /\ drifted' = IF c.name \in touched[w] THEN drifted \cup {k} ELSE drifted
             /\ Answer(w, "accepted", c.name)
             /\ UNCHANGED catalog

\* A call of the request fails, or its context is cancelled; servicePlans has
\* its own way of failing.
Abort(w) == task[w].pc \notin {"idle", "servicePlans"} /\ Refuse(w, "failedCall")
-----------------------------------------------------------------------------
(***************************************************************************)
(* The administrator (not in this repository).                             *)
(***************************************************************************)

\* Object n was changed; the Compositions are now those in o.
Touch(n, o) ==
  /\ \A w \in Workers : task[w] # Idle => Cardinality(touched[w] \cup {n}) <= MaxTouched
  /\ touched' = [w \in Workers |-> IF task[w] = Idle THEN {} ELSE touched[w] \cup {n}]
  /\ broken' = [w \in Workers |-> IF task[w] = Idle THEN {} ELSE broken[w] \cup Unparsed(o)]
  /\ drifted' = drifted \cup {k \in Keys : instances[k] # Absent /\ instances[k].plan = n}
  /\ resp' = NoResp
  /\ UNCHANGED <<instances, task>>

\* At no time do two Compositions of a kind have the same plan name.
Unambiguous(o) ==
  \A p, q \in {r \in Compositions : o[r] # Absent} :
    (GVK[p] = GVK[q] /\ o[p].PlanName = o[q].PlanName) => p = q

ApplyComposition(p, l) ==
  LET o == [compositions EXCEPT ![p] = l]
  IN /\ compositions[p] # l /\ Unambiguous(o)
     /\ compositions' = o
     /\ Touch(p, o)
     /\ UNCHANGED xrds

ApplyXRD(x, l) ==
  /\ xrds[x] # l
  /\ xrds' = [xrds EXCEPT ![x] = l]
  /\ Touch(x, compositions)
  /\ UNCHANGED compositions

Step(w) ==
  \/ Services(w) \/ servicePlans(w)
  \/ Plan(w) \/ ListPlans(w) \/ GetInstance(w) \/ FindInstanceWithoutPlan(w) \/ CreateInstance(w)

Next ==
  \/ \E w \in Workers : Step(w) \/ Abort(w)
  \/ \E w \in Workers, r \in Request : Receive(w, r)
  \/ \E p \in Compositions, l \in PlanLabels \cup {Absent} : ApplyComposition(p, l)
  \/ \E x \in XRDs, l \in XRDLabels \cup {Absent} : ApplyXRD(x, l)

Spec == Init /\ [][Next]_vars
-----------------------------------------------------------------------------
(***************************************************************************)
(* Properties.                                                             *)
(***************************************************************************)

Offered == IF resp.code = "ok" THEN resp.task.services ELSE {}
OfferedPlans(e) == {p.ID : p \in e.Plans}

\* What nobody touches is offered, whatever else is changed or does not parse:
\* a service whose XRD stayed the same is in the catalogue, and a plan of it
\* whose Composition stayed the same is offered with it, unless a Composition
\* of this same service did not parse or a call failed.
UntouchedIsOffered ==
  (resp.code = "ok" /\ resp.task.req.op = "Services") =>
    \A x \in ServiceXRDs : x.name \notin resp.touched =>
      \E e \in Offered :
        /\ e.XRD = x.name /\ e.ID = x.labels.ServiceID
        /\ \/ e.ID \in resp.broken \/ resp.task.lost
           \/ {c.name : c \in Listed(compositions, {e.ID})} \ resp.touched \subseteq OfferedPlans(e)

\* A plan is not offered by two services, although each service's plans are
\* listed at another time, unless its Composition was changed meanwhile.
PlansOfTheirService ==
  \A e, f \in Offered : e.ID # f.ID => OfferedPlans(e) \cap OfferedPlans(f) \subseteq resp.touched

\* The instances with the ID in the request whose Composition was not touched.
Undrifted(t) == {k \in Keys \ drifted : k[2] = t.req.id /\ instances[k] # Absent}

\* An instance that existed when the request came and whose Composition nobody
\* touched can be looked up, with its plan ID always, and by a search if its
\* service is configured: the search fails because of the labels of other
\* Compositions only when one that is configured does not parse, and never
\* because another plan was renamed or deleted.
UntouchedIsFound ==
  LET t == resp.task
  IN (t.req # NoRequest /\ t.req.op = "GetInstance") =>
       \A k \in t.had \ drifted :
         /\ resp.code \in {"gone", "noPlan", "error"} => t.req.plan # instances[k].plan
         /\ (resp.code = "error" /\ t.req.plan = NoPlan) => ~PlansFound(ServiceIDs)
         /\ resp.code = "notFound" => compositions[instances[k].plan].ServiceID \notin ServiceIDs

\* The plan a lookup reports is the Composition of the instance, unless that
\* or the reported one was changed: a plan name that has moved to another
\* Composition makes the broker report this one.
ReportedPlanIsRight ==
  LET t == resp.task
  IN (resp.code = "ok" /\ t.req.op = "GetInstance") =>
       \A k \in Undrifted(t) :
         GVK[resp.plan] = k[1] => resp.plan = instances[k].plan \/ resp.plan \in resp.touched
=============================================================================
