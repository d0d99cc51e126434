------------------------- MODULE LiveCatalogProofs -------------------------
(***************************************************************************)
(* What module LiveCatalog promises, for any number of Compositions, XRDs, *)
(* instances and requests.                                                 *)
(***************************************************************************)
EXTENDS LiveCatalog, TLAPS

\* An object as a List or Get call returned it.
ReadPlan == [name : Compositions, labels : PlanLabels]
ReadXRD  == [name : XRDs, labels : XRDLabels]
Service  == {newService(x, plans) : x \in ReadXRD, plans \in SUBSET {newServicePlan(c) : c \in ReadPlan}}

Task ==
  [ pc : {"idle", "xrds", "servicePlans", "plan", "get", "create", "plans", "find"},
    req : Request \cup {NoRequest}, plans : SUBSET ReadPlan, todo : SUBSET ReadXRD,
    services : SUBSET Service, had : SUBSET Keys, lost : BOOLEAN ]

Types ==
  /\ compositions \in [Compositions -> PlanLabels \cup {Absent}]
  /\ xrds \in [XRDs -> XRDLabels \cup {Absent}]
  /\ instances \in [Keys -> Instance \cup {Absent}]
  /\ task \in [Workers -> Task]
  /\ touched \in [Workers -> SUBSET (Compositions \cup XRDs)]
  /\ broken \in [Workers -> SUBSET {l.ServiceID : l \in PlanLabels}]
  /\ drifted \subseteq Keys

\* What is known of an instance: its kind, and of the labels its Composition has.
InstanceOK(k) ==
  instances[k] # Absent =>
    LET p == instances[k].plan
    IN /\ GVK[p] = k[1]
       /\ k \notin drifted =>
            /\ compositions[p] # Absent
            /\ LabelsParse(compositions[p])
            /\ compositions[p].PlanName = instances[k].PlanName

\* Which requests get to a step.
StepOK(t) ==
  /\ t.pc = "idle" => t = Idle
  /\ t.pc # "idle" => t.req \in Request
  /\ t.pc \in {"xrds", "servicePlans"} => t.req.op = "Services"
  /\ t.pc \in {"plan", "get", "create"} => t.req.op \in {"Provision", "GetInstance"} /\ t.req.plan \in Compositions
  /\ t.pc = "create" => t.req.op = "Provision"
  /\ t.pc \in {"plans", "find"} => t.req.op = "GetInstance" /\ t.req.plan = NoPlan

\* The service e was put together from what was untouched, and is complete.
OfferOK(e, lost, seen, bad) ==
  LET ids == {c.name : c \in Listed(compositions, {e.ID})}
  IN /\ OfferedPlans(e) \subseteq ids \cup seen
     /\ e.ID \in bad \/ lost \/ ids \subseteq OfferedPlans(e) \cup seen

\* Of each untouched XRD the plans are still to be read, or it is in the list.
XRDsOK(t, seen) ==
  \A x \in ServiceXRDs : x.name \notin seen =>
    x \in t.todo \/ \E e \in t.services : e.XRD = x.name /\ e.ID = x.labels.ServiceID

\* Of what was read, the untouched is still true.
PlansOK(t, seen) ==
  \A c \in t.plans :
    /\ c.name \in seen \/ compositions[c.name] = c.labels
    /\ t.pc \in {"get", "create"} => c.name = t.req.plan /\ LabelsParse(c.labels)

\* The instances that were there still are, and those whose Composition nobody
\* touched have it among the plans that a search has yet to consider.
HadOK(t, seen) ==
  \A k \in t.had :
    /\ k[2] = t.req.id /\ instances[k] # Absent
    /\ k \notin drifted =>
         LET p == instances[k].plan
         IN /\ p \notin seen
            /\ (t.pc = "find" /\ compositions[p].ServiceID \in ServiceIDs) =>
                 [name |-> p, labels |-> compositions[p]] \in t.plans

\* A task t, with what was touched and did not parse since its request came.
TaskOK(t, seen, bad) ==
  /\ StepOK(t)
  /\ t.pc = "idle" => seen = {} /\ bad = {}
  /\ t.pc # "idle" => Unparsed(compositions) \subseteq bad
  /\ \A e \in t.services : OfferOK(e, t.lost, seen, bad)
  /\ t.pc = "servicePlans" => XRDsOK(t, seen)
  /\ PlansOK(t, seen)
  /\ HadOK(t, seen)

Inv ==
  /\ Types
  /\ Unambiguous(compositions)
  /\ \A k \in Keys : InstanceOK(k)
  /\ \A w \in Workers : TaskOK(task[w], touched[w], broken[w])
-----------------------------------------------------------------------------
(***************************************************************************)
(* Steps of the handlers that leave the catalogue and the instances alone. *)
(***************************************************************************)

LEMMA IdleTask == Idle \in Task /\ TaskOK(Idle, {}, {})
  BY DEF Idle, Task, TaskOK, StepOK, PlansOK, HadOK

\* Nothing that TaskOK looks at besides its arguments has changed.
LEMMA TaskKept ==
  ASSUME UNCHANGED <<compositions, xrds, instances, drifted>>,
         NEW t, NEW seen, NEW bad, TaskOK(t, seen, bad)
  PROVE  TaskOK(t, seen, bad)'
  BY DEF TaskOK, StepOK, OfferOK, XRDsOK, PlansOK, HadOK, Listed, ServiceXRDs, Unparsed, OfferedPlans,
     LabelsParse, Idle

LEMMA InstanceKept ==
  ASSUME UNCHANGED <<compositions, instances, drifted>>, NEW k, InstanceOK(k)
  PROVE  InstanceOK(k)'
  BY DEF InstanceOK, LabelsParse

\* The task of w becomes t.
LEMMA TaskChanged ==
  ASSUME Inv, NEW w \in Workers, NEW t \in Task, NEW seen \in SUBSET (Compositions \cup XRDs),
         NEW bad \in SUBSET {l.ServiceID : l \in PlanLabels},
         UNCHANGED <<compositions, xrds, instances, drifted>>,
         task' = [task EXCEPT ![w] = t], touched' = [touched EXCEPT ![w] = seen],
         broken' = [broken EXCEPT ![w] = bad], TaskOK(t, seen, bad)
  PROVE  Inv'
  <1>1. Types'
    BY DEF Inv, Types
  <1>2. Unambiguous(compositions)'
    BY DEF Inv, Unambiguous
  <1>3. ASSUME NEW k \in Keys' PROVE InstanceOK(k)'
    BY InstanceKept DEF Inv, Keys
  <1>4. ASSUME NEW v \in Workers PROVE TaskOK(task[v], touched[v], broken[v])'
    <2>1. TaskOK(task'[v], touched'[v], broken'[v])
      <3>1. CASE v = w
        BY <3>1 DEF Inv, Types
      <3>2. CASE v # w
        BY <3>2 DEF Inv, Types
      <3> QED BY <3>1, <3>2
    <2>2. PICK t2, s2, b2 : t2 = task'[v] /\ s2 = touched'[v] /\ b2 = broken'[v]
      OBVIOUS
    <2>3. TaskOK(t2, s2, b2)'
      BY <2>1, <2>2, TaskKept
    <2> QED BY <2>2, <2>3
  <1> QED BY <1>1, <1>2, <1>3, <1>4 DEF Inv

LEMMA ReplyKeeps ==
  ASSUME Inv, NEW w \in Workers, NEW code, NEW p, Reply(w, code, p)
  PROVE  Inv'
  BY TaskChanged, IdleTask DEF Reply, Answer, catalog

LEMMA ContinueKeeps ==
  ASSUME Inv, NEW w \in Workers, NEW t \in Task, Continue(w, t), TaskOK(t, touched[w], broken[w])
  PROVE  Inv'
  <1>1. touched[w] \in SUBSET (Compositions \cup XRDs) /\ broken[w] \in SUBSET {l.ServiceID : l \in PlanLabels}
    BY DEF Inv, Types
  <1>2. touched' = [touched EXCEPT ![w] = touched[w]] /\ broken' = [broken EXCEPT ![w] = broken[w]]
    BY DEF Inv, Types, Continue, Goto
  <1>3. UNCHANGED <<compositions, xrds, instances, drifted>> /\ task' = [task EXCEPT ![w] = t]
    BY DEF Continue, Goto, catalog
  <1> QED BY <1>1, <1>2, <1>3, TaskChanged
-----------------------------------------------------------------------------
(***************************************************************************)
(* The handlers.                                                           *)
(***************************************************************************)

\* What a List call returns.
LEMMA ListedType ==
  ASSUME Types, NEW ids
  PROVE  Listed(compositions, ids) \subseteq ReadPlan /\ Listed(xrds, ids) \subseteq ReadXRD
  BY LiveCatalogAssumption DEF Types, Listed, ReadPlan, ReadXRD

\* A task and what is known of it.
LEMMA TaskFacts ==
  ASSUME Inv, NEW w \in Workers
  PROVE  /\ task[w] \in Task
         /\ task[w].req \in Request \cup {NoRequest}
         /\ TaskOK(task[w], touched[w], broken[w])
  BY DEF Inv, Types, Task

LEMMA RefuseKeeps ==
  ASSUME Inv, NEW w \in Workers, NEW code, Refuse(w, code)
  PROVE  Inv'
  BY ReplyKeeps DEF Refuse

LEMMA ServicesKeeps ==
  ASSUME Inv, NEW w \in Workers, Services(w)
  PROVE  Inv'
  <1>1. CASE Refuse(w, "error")
    BY <1>1, RefuseKeeps
  <1>2. CASE ServiceXRDsFound /\ Continue(w, [task[w] EXCEPT !.pc = "servicePlans", !.todo = ServiceXRDs])
    <2> DEFINE t == task[w]
               u == [t EXCEPT !.pc = "servicePlans", !.todo = ServiceXRDs]
    <2>1. t \in Task /\ TaskOK(t, touched[w], broken[w]) /\ t.pc = "xrds"
      BY TaskFacts DEF Services
    <2>2. ServiceXRDs \subseteq ReadXRD
      BY ListedType DEF Inv, ServiceXRDs
    <2>3. u \in Task /\ u.pc = "servicePlans" /\ u.todo = ServiceXRDs /\ u.req = t.req /\ u.plans = t.plans
            /\ u.services = t.services /\ u.had = t.had /\ u.lost = t.lost
      BY <2>1, <2>2 DEF Task
    <2> HIDE DEF t, u
    <2>4. TaskOK(u, touched[w], broken[w])
      BY <2>1, <2>3 DEF TaskOK, StepOK, XRDsOK, PlansOK, HadOK, OfferOK
    <2> QED BY <1>2, <2>3, <2>4, ContinueKeeps DEF t, u
  <1> QED BY <1>1, <1>2 DEF Services

\* An XRD that was read becomes a service of the list.
LEMMA OfferKeeps ==
  ASSUME Inv, NEW w \in Workers, task[w].pc = "servicePlans", NEW x \in task[w].todo,
         NEW plans \in SUBSET {newServicePlan(c) : c \in ReadPlan}, NEW lost \in BOOLEAN,
         OfferOK(newService(x, plans), task[w].lost \/ lost, touched[w], broken[w]),
         Continue(w, [task[w] EXCEPT !.todo = @ \ {x}, !.services = @ \cup {newService(x, plans)},
                                     !.lost = @ \/ lost])
  PROVE  Inv'
  <1> DEFINE t == task[w]
             e == newService(x, plans)
             u == [t EXCEPT !.todo = @ \ {x}, !.services = @ \cup {e}, !.lost = @ \/ lost]
  <1>1. t \in Task /\ TaskOK(t, touched[w], broken[w]) /\ t.pc = "servicePlans"
    BY TaskFacts
  <1>2. x \in ReadXRD /\ e \in Service
    BY <1>1 DEF Task, Service
  <1>3. e.XRD = x.name /\ e.ID = x.labels.ServiceID
    BY DEF newService
  <1>4. u \in Task /\ u.pc = t.pc /\ u.todo = t.todo \ {x} /\ u.req = t.req /\ u.plans = t.plans
          /\ u.services = t.services \cup {e} /\ u.had = t.had /\ u.lost = (t.lost \/ lost)
    <2> HIDE DEF e
    <2> QED BY <1>1, <1>2 DEF Task
  <1>5. OfferOK(e, t.lost \/ lost, touched[w], broken[w])
    OBVIOUS
  <1>6. Continue(w, u)
    OBVIOUS
  <1> HIDE DEF t, e, u
  <1>7. StepOK(u) /\ PlansOK(u, touched[w]) /\ HadOK(u, touched[w])
    BY <1>1, <1>4 DEF TaskOK, StepOK, PlansOK, HadOK
  <1>8. \A f \in u.services : OfferOK(f, u.lost, touched[w], broken[w])
    BY <1>1, <1>4, <1>5 DEF TaskOK, OfferOK
  <1>9. XRDsOK(u, touched[w])
    BY <1>1, <1>3, <1>4 DEF TaskOK, XRDsOK
  <1>10. TaskOK(u, touched[w], broken[w])
    BY <1>1, <1>4, <1>7, <1>8, <1>9 DEF TaskOK
  <1> QED BY <1>4, <1>6, <1>10, ContinueKeeps

LEMMA servicePlansKeeps ==
  ASSUME Inv, NEW w \in Workers, servicePlans(w)
  PROVE  Inv'
  <1> DEFINE Offer(x, plans, lost) ==
        Continue(w, [task[w] EXCEPT !.todo = @ \ {x}, !.services = @ \cup {newService(x, plans)},
                                    !.lost = @ \/ lost])
  <1>1. CASE Refuse(w, "ok")
    BY <1>1, RefuseKeeps
  <1>2. ASSUME NEW x \in task[w].todo, task[w].pc = "servicePlans",
               \/ ~PlansFound({x.labels.ServiceID}) /\ Offer(x, {}, FALSE)
               \/ /\ PlansFound({x.labels.ServiceID})
                  /\ Offer(x, {newServicePlan(c) : c \in Plans({x.labels.ServiceID})}, FALSE)
               \/ Offer(x, {}, TRUE)
        PROVE  Inv'
    <2> DEFINE ids == {x.labels.ServiceID}
    <2> HIDE DEF Offer
    <2>1. Unparsed(compositions) \subseteq broken[w]
      BY <1>2, TaskFacts DEF TaskOK
    <2>2. CASE ~PlansFound(ids) /\ Offer(x, {}, FALSE)
      <3>1. PICK c \in Listed(compositions, ids) : ~LabelsParse(c.labels)
        BY <2>2 DEF PlansFound
      <3>2. x.labels.ServiceID \in Unparsed(compositions)
        BY <3>1 DEF Listed, Unparsed, Inv, Types
      <3>3. OfferOK(newService(x, {}), task[w].lost \/ FALSE, touched[w], broken[w])
        BY <2>1, <3>2 DEF OfferOK, newService, OfferedPlans
      <3> QED BY <1>2, <2>2, <3>3, OfferKeeps DEF Offer
    <2>3. CASE Offer(x, {newServicePlan(c) : c \in Plans(ids)}, FALSE)
      <3> DEFINE plans == {newServicePlan(c) : c \in Plans(ids)}
      <3>1. plans \in SUBSET {newServicePlan(c) : c \in ReadPlan}
        BY ListedType DEF Inv, Plans
      <3>2. OfferedPlans(newService(x, plans)) = {c.name : c \in Listed(compositions, ids)}
        <4>1. OfferedPlans(newService(x, plans)) = {p.ID : p \in plans}
          BY DEF OfferedPlans, newService
        <4>2. \A c : newServicePlan(c).ID = c.name
          BY DEF newServicePlan
        <4> HIDE DEF ids
        <4>3. {p.ID : p \in plans} = {newServicePlan(c).ID : c \in Listed(compositions, ids)}
          BY DEF Plans
        <4> QED BY <4>1, <4>2, <4>3
      <3>3. newService(x, plans).ID = x.labels.ServiceID
        BY DEF newService
      <3> HIDE DEF plans
      <3>4. OfferOK(newService(x, plans), task[w].lost \/ FALSE, touched[w], broken[w])
        BY <3>2, <3>3 DEF OfferOK
      <3> QED BY <1>2, <2>3, <3>1, <3>4, OfferKeeps DEF Offer, plans
    <2>4. CASE Offer(x, {}, TRUE)
      <3>1. OfferOK(newService(x, {}), task[w].lost \/ TRUE, touched[w], broken[w])
        BY DEF OfferOK, newService, OfferedPlans
      <3> QED BY <1>2, <2>4, <3>1, OfferKeeps DEF Offer
    <2> QED BY <1>2, <2>2, <2>3, <2>4
  <1> QED BY <1>1, <1>2 DEF servicePlans

LEMMA PlanKeeps ==
  ASSUME Inv, NEW w \in Workers, Plan(w)
  PROVE  Inv'
  <1> DEFINE t == task[w]
             l == compositions[t.req.plan]
             c == [name |-> t.req.plan, labels |-> l]
             u == [t EXCEPT !.pc = "get", !.plans = {c}]
  <1>1. CASE Refuse(w, "noPlan") \/ Refuse(w, "error")
    BY <1>1, RefuseKeeps
  <1>2. CASE l # Absent /\ LabelsParse(l) /\ Continue(w, u)
    <2>1. t \in Task /\ TaskOK(t, touched[w], broken[w]) /\ t.pc = "plan"
      BY TaskFacts DEF Plan
    <2>2. t.req.plan \in Compositions /\ c \in ReadPlan
      BY <1>2, <2>1 DEF TaskOK, StepOK, Inv, Types, ReadPlan
    <2>3. LabelsParse(c.labels) /\ c.name = t.req.plan /\ compositions[c.name] = c.labels
      BY <1>2
    <2> HIDE DEF c
    <2>4. u \in Task /\ u.pc = "get" /\ u.plans = {c} /\ u.req = t.req /\ u.services = t.services
            /\ u.had = t.had /\ u.lost = t.lost
      BY <2>1, <2>2 DEF Task
    <2> HIDE DEF t, u
    <2>5. TaskOK(u, touched[w], broken[w])
      BY <2>1, <2>3, <2>4 DEF TaskOK, StepOK, PlansOK, HadOK, OfferOK
    <2> QED BY <1>2, <2>4, <2>5, ContinueKeeps
  <1> QED BY <1>1, <1>2 DEF Plan

LEMMA ListPlansKeeps ==
  ASSUME Inv, NEW w \in Workers, ListPlans(w)
  PROVE  Inv'
  <1> DEFINE t == task[w]
             u == [t EXCEPT !.pc = "find", !.plans = Plans(ServiceIDs)]
  <1>1. CASE Refuse(w, "error")
    BY <1>1, RefuseKeeps
  <1>2. CASE Continue(w, u)
    <2>1. t \in Task /\ TaskOK(t, touched[w], broken[w]) /\ t.pc = "plans"
      BY TaskFacts DEF ListPlans
    <2>2. Plans(ServiceIDs) \subseteq ReadPlan
      BY ListedType DEF Inv, Plans
    <2>3. u \in Task /\ u.pc = "find" /\ u.plans = Plans(ServiceIDs) /\ u.req = t.req
            /\ u.services = t.services /\ u.had = t.had /\ u.lost = t.lost
      BY <2>1, <2>2 DEF Task
    <2> HIDE DEF t, u
    <2>4. \A c \in Plans(ServiceIDs) : compositions[c.name] = c.labels
      BY DEF Plans, Listed
    <2>5. ASSUME NEW k \in t.had, k \notin drifted, compositions[instances[k].plan].ServiceID \in ServiceIDs
          PROVE  [name |-> instances[k].plan, labels |-> compositions[instances[k].plan]] \in Plans(ServiceIDs)
      <3>1. k \in Keys /\ instances[k] # Absent
        BY <2>1, <2>5 DEF TaskOK, HadOK, Task
      <3>2. instances[k].plan \in Compositions /\ compositions[instances[k].plan] # Absent
        BY <2>5, <3>1 DEF Inv, InstanceOK, Types, Instance
      <3>3. DOMAIN compositions = Compositions
        BY DEF Inv, Types
      <3> QED BY <2>5, <3>2, <3>3 DEF Plans, Listed
    <2>6. StepOK(u) /\ PlansOK(u, touched[w])
      BY <2>1, <2>3, <2>4 DEF TaskOK, StepOK, PlansOK
    <2>7. HadOK(u, touched[w])
      BY <2>1, <2>3, <2>5 DEF TaskOK, HadOK
    <2>8. TaskOK(u, touched[w], broken[w])
      BY <2>1, <2>3, <2>6, <2>7 DEF TaskOK, OfferOK
    <2> QED BY <1>2, <2>3, <2>8, ContinueKeeps
  <1> QED BY <1>1, <1>2 DEF ListPlans

LEMMA GetInstanceKeeps ==
  ASSUME Inv, NEW w \in Workers, GetInstance(w)
  PROVE  Inv'
  <1> DEFINE t == task[w]
             u == [t EXCEPT !.pc = "create"]
  <1>1. CASE \E code : Refuse(w, code)
    BY <1>1, RefuseKeeps
  <1>2. CASE t.req.op = "Provision" /\ Continue(w, u)
    <2>1. t \in Task /\ TaskOK(t, touched[w], broken[w]) /\ t.pc = "get"
      BY TaskFacts DEF GetInstance
    <2>2. u \in Task /\ u.pc = "create" /\ u.plans = t.plans /\ u.req = t.req /\ u.services = t.services
            /\ u.had = t.had /\ u.lost = t.lost
      BY <2>1 DEF Task
    <2> HIDE DEF t, u
    <2>3. TaskOK(u, touched[w], broken[w])
      BY <1>2, <2>1, <2>2 DEF TaskOK, StepOK, PlansOK, HadOK, OfferOK
    <2> QED BY <1>2, <2>2, <2>3, ContinueKeeps
  <1> QED BY <1>1, <1>2 DEF GetInstance

\* The search passes over c only when the instance it is after is not c's.
LEMMA FindKeeps ==
  ASSUME Inv, NEW w \in Workers, FindInstanceWithoutPlan(w)
  PROVE  Inv'
  <1>1. CASE \E code, p : Reply(w, code, p)
    BY <1>1, ReplyKeeps
  <1>2. ASSUME NEW c \in task[w].plans, ~Matches(Found(w, c), c),
               Continue(w, [task[w] EXCEPT !.plans = @ \ {c}])
        PROVE  Inv'
    <2> DEFINE t == task[w]
               u == [t EXCEPT !.plans = @ \ {c}]
    <2>1. t \in Task /\ TaskOK(t, touched[w], broken[w]) /\ t.pc = "find"
      BY TaskFacts DEF FindInstanceWithoutPlan
    <2>2. u \in Task /\ u.pc = "find" /\ u.plans = t.plans \ {c} /\ u.req = t.req
            /\ u.services = t.services /\ u.had = t.had /\ u.lost = t.lost
      BY <2>1 DEF Task
    <2>3. ASSUME NEW k \in t.had, k \notin drifted
          PROVE  c # [name |-> instances[k].plan, labels |-> compositions[instances[k].plan]]
      <3> DEFINE p == instances[k].plan
      <3>1. k \in Keys /\ instances[k] # Absent /\ k[2] = t.req.id
        BY <2>1, <2>3 DEF TaskOK, HadOK, Task
      <3>2. GVK[p] = k[1] /\ compositions[p].PlanName = instances[k].PlanName
        BY <2>3, <3>1 DEF Inv, InstanceOK
      <3>3. k = <<GVK[p], t.req.id>>
        BY <3>1, <3>2 DEF Keys
      <3> SUFFICES ASSUME c = [name |-> p, labels |-> compositions[p]]
                   PROVE  FALSE
        OBVIOUS
      <3>4. c.name = p /\ c.labels = compositions[p]
        OBVIOUS
      <3> QED BY <1>2, <3>1, <3>2, <3>3, <3>4 DEF Matches, Found
    <2> HIDE DEF t, u
    <2>4. StepOK(u) /\ PlansOK(u, touched[w])
      BY <2>1, <2>2 DEF TaskOK, StepOK, PlansOK
    <2>5. HadOK(u, touched[w])
      BY <2>1, <2>2, <2>3 DEF TaskOK, HadOK
    <2>6. TaskOK(u, touched[w], broken[w])
      BY <2>1, <2>2, <2>4, <2>5 DEF TaskOK, OfferOK
    <2> QED BY <1>2, <2>2, <2>6, ContinueKeeps DEF t, u
  <1> QED BY <1>1, <1>2 DEF FindInstanceWithoutPlan, Refuse, First

LEMMA ReceiveKeeps ==
  ASSUME Inv, NEW w \in Workers, NEW r \in Request, Receive(w, r)
  PROVE  Inv'
  <1> DEFINE pc == CASE r.op = "Services" -> "xrds" [] r.plan # NoPlan -> "plan" [] OTHER -> "plans"
             had == {k \in Keys : k[2] = r.id /\ instances[k] # Absent}
             u == [Idle EXCEPT !.req = r, !.pc = pc, !.had = had]
  <1>1. task[w] = Idle /\ task' = [task EXCEPT ![w] = u]
          /\ broken' = [broken EXCEPT ![w] = Unparsed(compositions)]
          /\ UNCHANGED <<compositions, xrds, instances, touched, drifted>>
    BY DEF Receive, Goto, catalog
  <1>2. touched[w] = {} /\ touched' = [touched EXCEPT ![w] = {}]
    <2>1. touched[w] = {}
      BY <1>1, TaskFacts DEF TaskOK, Idle
    <2> QED BY <1>1, <2>1 DEF Inv, Types
  <1>3. pc \in {"xrds", "plan", "plans"}
    OBVIOUS
  <1>4. /\ pc = "xrds" => r.op = "Services"
        /\ pc = "plan" => r.op # "Services" /\ r.plan # NoPlan
        /\ pc = "plans" => r.op # "Services" /\ r.plan = NoPlan
    <2>1. CASE r.op = "Services"
      <3>1. r.plan = NoPlan
        BY <2>1 DEF Request
      <3> QED BY <2>1, <3>1
    <2>2. CASE r.op # "Services" /\ r.plan # NoPlan
      BY <2>2
    <2>3. CASE r.op # "Services" /\ r.plan = NoPlan
      BY <2>3
    <2> HIDE DEF pc
    <2> QED BY <2>1, <2>2, <2>3
  <1> HIDE DEF pc, had
  <1>5. Idle.plans = {} /\ Idle.services = {}
    BY DEF Idle
  <1>6. u \in Task /\ u.pc = pc /\ u.req = r /\ u.plans = Idle.plans /\ u.services = Idle.services /\ u.had = had
    BY <1>3, IdleTask DEF Task, had
  <1>7. u.pc = pc /\ u.req = r /\ u.plans = {} /\ u.services = {} /\ u.had = had
    BY <1>5, <1>6
  <1> HIDE DEF u
  <1>8. StepOK(u)
    <2>1. r.op # "Services" => r.op \in {"Provision", "GetInstance"}
      BY DEF Request
    <2>2. r.op # "Services" => r.plan \in Compositions \cup {NoPlan}
      BY DEF Request
    <2>3. (r.op = "Provision") => r.plan # NoPlan
      BY LiveCatalogAssumption DEF Request
    <2> QED BY <1>3, <1>4, <1>7, <2>1, <2>2, <2>3 DEF StepOK
  <1>9. HadOK(u, {})
    BY <1>3, <1>7 DEF HadOK, had
  <1>10. TaskOK(u, {}, Unparsed(compositions))
    BY <1>3, <1>7, <1>8, <1>9 DEF TaskOK, PlansOK
  <1>11. Unparsed(compositions) \in SUBSET {l.ServiceID : l \in PlanLabels}
    BY DEF Inv, Types, Unparsed
  <1> QED BY <1>1, <1>2, <1>6, <1>10, <1>11, TaskChanged

LEMMA CreateKeeps ==
  ASSUME Inv, NEW w \in Workers, CreateInstance(w)
  PROVE  Inv'
  <1>1. CASE Refuse(w, "error")
    BY <1>1, RefuseKeeps
  <1>2. ASSUME NEW c \in task[w].plans, task[w].pc = "create",
               NEW k, k = <<GVK[c.name], task[w].req.id>>, instances[k] = Absent,
               instances' = [instances EXCEPT ![k] = [plan |-> c.name, PlanName |-> c.labels.PlanName]],
               drifted' = IF c.name \in touched[w] THEN drifted \cup {k} ELSE drifted,
               Answer(w, "accepted", c.name), UNCHANGED catalog
        PROVE  Inv'
    <2> DEFINE obj == [plan |-> c.name, PlanName |-> c.labels.PlanName]
    <2>1. task[w] \in Task /\ TaskOK(task[w], touched[w], broken[w])
      BY TaskFacts
    <2>2. c \in ReadPlan /\ LabelsParse(c.labels) /\ (c.name \in touched[w] \/ compositions[c.name] = c.labels)
      BY <1>2, <2>1 DEF Task, TaskOK, PlansOK
    <2>3. k \in Keys /\ k[1] = GVK[c.name]
      <3>1. task[w].req.id \in InstanceIDs
        BY <1>2, <2>1 DEF TaskOK, StepOK, Request
      <3> QED BY <1>2, <2>2, <3>1 DEF Keys, ReadPlan
    <2>4. obj \in Instance /\ obj # Absent /\ obj.plan = c.name /\ obj.PlanName = c.labels.PlanName
      BY <2>2, LiveCatalogAssumption DEF Instance, ReadPlan
    <2> HIDE DEF obj
    <2>5. instances' = [instances EXCEPT ![k] = obj]
      BY <1>2 DEF obj
    <2>6. UNCHANGED <<compositions, xrds>> /\ task' = [task EXCEPT ![w] = Idle]
            /\ touched' = [touched EXCEPT ![w] = {}] /\ broken' = [broken EXCEPT ![w] = {}]
      BY <1>2 DEF Answer, catalog
    <2>7. drifted \subseteq drifted' /\ drifted' \subseteq drifted \cup {k}
            /\ (c.name \in touched[w] => k \in drifted')
      BY <1>2
    <2>8. Types'
      BY <2>3, <2>4, <2>5, <2>6, <2>7, IdleTask DEF Inv, Types
    <2>9. Unambiguous(compositions)'
      BY <2>6 DEF Inv, Unambiguous
    <2>10. ASSUME NEW j \in Keys' PROVE InstanceOK(j)'
      <3>1. j \in Keys /\ InstanceOK(j)
        BY DEF Inv, Keys
      <3>2. CASE j = k
        <4>1. instances'[j] = obj
          BY <2>3, <2>5, <3>2 DEF Inv, Types
        <4>2. c.labels \in PlanLabels /\ c.labels # Absent
          BY <2>2, LiveCatalogAssumption DEF ReadPlan
        <4>3. compositions' = compositions
          BY <2>6
        <4> QED BY <2>2, <2>3, <2>4, <2>7, <3>2, <4>1, <4>2, <4>3 DEF InstanceOK, LabelsParse
      <3>3. CASE j # k
        <4>1. instances'[j] = instances[j] /\ (j \in drifted' <=> j \in drifted) /\ compositions' = compositions
          BY <2>3, <2>5, <2>6, <2>7, <3>1, <3>3 DEF Inv, Types
        <4> QED BY <3>1, <4>1 DEF InstanceOK, LabelsParse
      <3> QED BY <3>2, <3>3
    <2>11. ASSUME NEW v \in Workers PROVE TaskOK(task[v], touched[v], broken[v])'
      <3>1. CASE v = w
        <4>1. task'[v] = Idle /\ touched'[v] = {} /\ broken'[v] = {}
          BY <2>6, <3>1 DEF Inv, Types
        <4> QED BY <4>1 DEF Idle, TaskOK, StepOK, PlansOK, HadOK
      <3>2. CASE v # w
        <4>1. task'[v] = task[v] /\ touched'[v] = touched[v] /\ broken'[v] = broken[v]
          BY <2>6, <3>2 DEF Inv, Types
        <4>2. PICK t, seen, bad : t = task[v] /\ seen = touched[v] /\ bad = broken[v]
          OBVIOUS
        <4>3. t \in Task /\ TaskOK(t, seen, bad)
          BY <4>2, TaskFacts
        <4>4. \A j \in t.had : j # k /\ instances'[j] = instances[j] /\ (j \in drifted' <=> j \in drifted)
          <5>1. \A j \in t.had : j \in Keys /\ j # k
            BY <1>2, <4>3 DEF Task, TaskOK, HadOK
          <5> QED BY <2>3, <2>5, <2>7, <5>1 DEF Inv, Types
        <4>5. HadOK(t, seen)'
          BY <2>6, <4>3, <4>4 DEF TaskOK, HadOK
        <4>6. StepOK(t)' /\ PlansOK(t, seen)' /\ (t.pc = "servicePlans" => XRDsOK(t, seen)')
          BY <2>6, <4>3 DEF TaskOK, StepOK, PlansOK, XRDsOK, ServiceXRDs, Listed, Idle, LabelsParse
        <4>7. TaskOK(t, seen, bad)'
          BY <2>6, <4>3, <4>5, <4>6 DEF TaskOK, OfferOK, Listed, OfferedPlans, Unparsed, LabelsParse
        <4> QED BY <4>1, <4>2, <4>7
      <3> QED BY <3>1, <3>2
    <2> QED BY <2>8, <2>9, <2>10, <2>11 DEF Inv
  <1> QED BY <1>1, <1>2 DEF CreateInstance
-----------------------------------------------------------------------------
(***************************************************************************)
(* The administrator.                                                      *)
(***************************************************************************)

\* What remains to be shown when object n changes: that each task knows which.
LEMMA TouchKeeps ==
  ASSUME Inv, NEW n \in Compositions \cup XRDs, Touch(n, compositions'),
         compositions' \in [Compositions -> PlanLabels \cup {Absent}],
         xrds' \in [XRDs -> XRDLabels \cup {Absent}], Unambiguous(compositions)',
         \A p \in Compositions : p # n => compositions'[p] = compositions[p],
         \A x \in XRDs : x # n => xrds'[x] = xrds[x]
  PROVE  Inv'
  <1> DEFINE new == Unparsed(compositions')
             lost == {k \in Keys : instances[k] # Absent /\ instances[k].plan = n}
  <1>1. /\ touched' = [w \in Workers |-> IF task[w] = Idle THEN {} ELSE touched[w] \cup {n}]
        /\ broken' = [w \in Workers |-> IF task[w] = Idle THEN {} ELSE broken[w] \cup new]
        /\ drifted' = drifted \cup lost
        /\ UNCHANGED <<instances, task>>
    BY DEF Touch
  <1>2. new \subseteq {l.ServiceID : l \in PlanLabels}
    BY DEF Unparsed
  <1>3. Types'
    BY <1>1, <1>2 DEF Inv, Types
  <1>4. ASSUME NEW k \in Keys' PROVE InstanceOK(k)'
    <2>1. k \in Keys /\ InstanceOK(k) /\ (instances[k] # Absent => instances[k].plan \in Compositions)
      BY DEF Inv, Keys, Types, Instance
    <2> QED BY <1>1, <2>1 DEF InstanceOK, LabelsParse
  <1>5. \A ids : \A m : m \in {c.name : c \in Listed(compositions', ids)} =>
          m = n \/ m \in {c.name : c \in Listed(compositions, ids)}
    BY DEF Listed, Inv, Types
  <1>6. \A ids : \A m : m \in {c.name : c \in Listed(compositions, ids)} =>
          m = n \/ m \in {c.name : c \in Listed(compositions', ids)}
    BY DEF Listed, Inv, Types
  <1>7. ASSUME NEW w \in Workers PROVE TaskOK(task[w], touched[w], broken[w])'
    <2>1. CASE task[w] = Idle
      <3>1. task'[w] = Idle /\ touched'[w] = {} /\ broken'[w] = {}
        BY <1>1, <2>1
      <3> QED BY <3>1 DEF Idle, TaskOK, StepOK, PlansOK, HadOK
    <2>2. CASE task[w] # Idle
      <3>1. PICK t, seen, bad, seen2, bad2 :
              t = task[w] /\ seen = touched[w] /\ bad = broken[w] /\ seen2 = touched'[w] /\ bad2 = broken'[w]
        OBVIOUS
      <3>2. task'[w] = t /\ seen2 = seen \cup {n} /\ bad2 = bad \cup new
        BY <1>1, <2>2, <3>1
      <3>3. t \in Task /\ TaskOK(t, seen, bad) /\ t.pc # "idle"
        BY <2>2, <3>1, TaskFacts DEF TaskOK, StepOK
      <3>4. StepOK(t)'
        BY <3>3 DEF TaskOK, StepOK, Idle
      <3>5. Unparsed(compositions)' \subseteq bad2
        BY <3>2 DEF Unparsed, LabelsParse
      <3>6. ASSUME NEW e \in t.services PROVE OfferOK(e, t.lost, seen2, bad2)'
        <4>1. OfferOK(e, t.lost, seen, bad)
          BY <3>3 DEF TaskOK
        <4>2. OfferedPlans(e)' = OfferedPlans(e)
          BY DEF OfferedPlans
        <4> DEFINE old == {c.name : c \in Listed(compositions, {e.ID})}
                   now == {c.name : c \in Listed(compositions', {e.ID})}
        <4>3. now \subseteq old \cup {n} /\ old \subseteq now \cup {n}
          BY <1>5, <1>6
        <4> HIDE DEF old, now
        <4>4. /\ OfferedPlans(e) \subseteq old \cup seen
              /\ e.ID \in bad \/ t.lost \/ old \subseteq OfferedPlans(e) \cup seen
          BY <4>1 DEF OfferOK, old
        <4>5. /\ OfferedPlans(e) \subseteq now \cup seen2
              /\ e.ID \in bad2 \/ t.lost \/ now \subseteq OfferedPlans(e) \cup seen2
          BY <3>2, <4>3, <4>4
        <4> QED BY <4>2, <4>5 DEF OfferOK, now, Listed
      <3>7. t.pc = "servicePlans" => XRDsOK(t, seen2)'
        <4>1. \A x \in ServiceXRDs' : x.name \notin seen2 => x \in ServiceXRDs /\ x.name \notin seen
          BY <3>2 DEF ServiceXRDs, Listed, Inv, Types
        <4> QED BY <3>3, <4>1 DEF TaskOK, XRDsOK
      <3>8. PlansOK(t, seen2)'
        <4>1. \A c \in t.plans : c.name \in Compositions
          BY <3>3 DEF Task, ReadPlan
        <4> QED BY <3>2, <3>3, <4>1 DEF TaskOK, PlansOK, LabelsParse
      <3>9. HadOK(t, seen2)'
        <4> SUFFICES ASSUME NEW k \in t.had
                     PROVE  /\ k[2] = t.req.id /\ instances'[k] # Absent
                            /\ k \notin drifted' =>
                                 /\ instances'[k].plan \notin seen2
                                 /\ (t.pc = "find" /\ compositions'[instances'[k].plan].ServiceID \in ServiceIDs) =>
                                      [name |-> instances'[k].plan, labels |-> compositions'[instances'[k].plan]]
                                        \in t.plans
          BY DEF HadOK
        <4>1. k \in Keys /\ k[2] = t.req.id /\ instances[k] # Absent
          BY <3>3 DEF TaskOK, HadOK, Task
        <4>2. instances[k].plan \in Compositions
          BY <4>1 DEF Inv, Types, Instance
        <4>3. k \notin drifted' => k \notin drifted /\ instances[k].plan # n
          BY <1>1, <4>1
        <4> QED BY <1>1, <3>2, <3>3, <4>1, <4>2, <4>3 DEF TaskOK, HadOK
      <3>10. TaskOK(t, seen2, bad2)'
        BY <3>3, <3>4, <3>5, <3>6, <3>7, <3>8, <3>9 DEF TaskOK
      <3> QED BY <3>1, <3>2, <3>10
    <2> QED BY <2>1, <2>2
  <1> QED BY <1>3, <1>4, <1>7 DEF Inv

LEMMA ApplyCompositionKeeps ==
  ASSUME Inv, NEW p \in Compositions, NEW l \in PlanLabels \cup {Absent}, ApplyComposition(p, l)
  PROVE  Inv'
  <1>1. /\ compositions' = [compositions EXCEPT ![p] = l]
        /\ Unambiguous(compositions') /\ Touch(p, compositions') /\ xrds' = xrds
    BY DEF ApplyComposition
  <1>2. Unambiguous(compositions)'
    BY <1>1 DEF Unambiguous
  <1> QED BY <1>1, <1>2, TouchKeeps DEF Inv, Types

LEMMA ApplyXRDKeeps ==
  ASSUME Inv, NEW x \in XRDs, NEW l \in XRDLabels \cup {Absent}, ApplyXRD(x, l)
  PROVE  Inv'
  <1>1. /\ xrds' = [xrds EXCEPT ![x] = l] /\ compositions' = compositions
        /\ Touch(x, compositions')
    BY DEF ApplyXRD
  <1>2. Unambiguous(compositions)'
    BY <1>1 DEF Inv, Unambiguous
  <1> QED BY <1>1, <1>2, TouchKeeps DEF Inv, Types
-----------------------------------------------------------------------------
LEMMA InitInv == Init => Inv
  <1> SUFFICES ASSUME Init PROVE Inv
    OBVIOUS
  <1>1. Types
    BY IdleTask DEF Init, Types
  <1>2. Unambiguous(compositions)
    BY DEF Init, Unambiguous
  <1>3. \A k \in Keys : InstanceOK(k)
    BY DEF Init, InstanceOK
  <1>4. \A w \in Workers : TaskOK(task[w], touched[w], broken[w])
    BY IdleTask DEF Init
  <1> QED BY <1>1, <1>2, <1>3, <1>4 DEF Inv

LEMMA NextInv == Inv /\ [Next]_vars => Inv'
  <1> SUFFICES ASSUME Inv, [Next]_vars PROVE Inv'
    OBVIOUS
  <1>1. ASSUME NEW w \in Workers, Step(w) PROVE Inv'
    BY <1>1, ServicesKeeps, servicePlansKeeps, PlanKeeps, ListPlansKeeps, GetInstanceKeeps, FindKeeps, CreateKeeps
       DEF Step
  <1>2. ASSUME NEW w \in Workers, Abort(w) PROVE Inv'
    BY <1>2, RefuseKeeps DEF Abort
  <1>3. ASSUME NEW w \in Workers, NEW r \in Request, Receive(w, r) PROVE Inv'
    BY <1>3, ReceiveKeeps
  <1>4. ASSUME NEW p \in Compositions, NEW l \in PlanLabels \cup {Absent}, ApplyComposition(p, l) PROVE Inv'
    BY <1>4, ApplyCompositionKeeps
  <1>5. ASSUME NEW x \in XRDs, NEW l \in XRDLabels \cup {Absent}, ApplyXRD(x, l) PROVE Inv'
    BY <1>5, ApplyXRDKeeps
  <1>6. CASE UNCHANGED vars
    <2>1. UNCHANGED <<compositions, xrds, instances, task, touched, broken, drifted>>
      BY <1>6 DEF vars
    <2>2. Types' /\ Unambiguous(compositions)'
      BY <2>1 DEF Inv, Types, Unambiguous
    <2>3. \A k \in Keys' : InstanceOK(k)'
      BY <2>1, InstanceKept DEF Inv, Keys
    <2>4. ASSUME NEW w \in Workers PROVE TaskOK(task[w], touched[w], broken[w])'
      <3>1. PICK t, seen, bad : t = task[w] /\ seen = touched[w] /\ bad = broken[w]
        OBVIOUS
      <3>2. TaskOK(t, seen, bad)'
        BY <2>1, <3>1, TaskFacts, TaskKept
      <3> QED BY <2>1, <3>1, <3>2
    <2> QED BY <2>2, <2>3, <2>4 DEF Inv
  <1> QED BY <1>1, <1>2, <1>3, <1>4, <1>5, <1>6 DEF Next

\* What a handler has read, of XRDs, Compositions and instances, is still true
\* of all that nobody touched since its request came.
THEOREM InvHolds == Spec => []Inv
  BY InitInv, NextInv, PTL DEF Spec

\* Types: the objects, and what a handler has read of them.
THEOREM TypeCorrect == Spec => []TypeOK
  <1>1. Inv => TypeOK
    <2> SUFFICES ASSUME Inv PROVE TypeOK
      OBVIOUS
    <2>1. ASSUME NEW w \in Workers
          PROVE  /\ task[w].pc \in {"idle", "xrds", "servicePlans", "plan", "get", "create", "plans", "find"}
                 /\ task[w].req \in Request \cup {NoRequest}
                 /\ task[w].todo \subseteq [name : XRDs, labels : XRDLabels]
                 /\ task[w].plans \subseteq [name : Compositions, labels : PlanLabels]
                 /\ task[w].had \subseteq Keys
      BY DEF Inv, Types, Task, ReadPlan, ReadXRD
    <2> QED BY <2>1 DEF Inv, Types, TypeOK
  <1> QED BY <1>1, InvHolds, PTL
-----------------------------------------------------------------------------
(***************************************************************************)
(* The responses.  A step that answers shows the task it ends, and what    *)
(* was touched since; all other steps show nothing.                        *)
(***************************************************************************)

\* A complete catalogue, or an instance of the plan that was read.
Success(w, p) ==
  /\ Reply(w, "ok", p)
  /\ \/ task[w].pc = "servicePlans" /\ task[w].todo = {}
     \/ /\ task[w].pc \in {"get", "find"}
        /\ \E c \in task[w].plans : p = c.name /\ Matches(Found(w, c), c)

\* Why a lookup comes to nothing.
Failure(w, code) ==
  /\ Refuse(w, code)
  /\ code \in {"gone", "noPlan", "error", "notFound"}
  /\ task[w].req.op = "GetInstance" =>
       \/ task[w].pc = "plan" /\ code # "notFound"
            /\ (compositions[task[w].req.plan] = Absent \/ ~LabelsParse(compositions[task[w].req.plan]))
       \/ task[w].pc = "plans" /\ code = "error" /\ ~PlansFound(ServiceIDs)
       \/ task[w].pc = "get" /\ code # "notFound" /\ \E c \in task[w].plans : ~Matches(Found(w, c), c)
       \/ task[w].pc = "find" /\ code = "notFound" /\ task[w].plans = {}

Other(w) == \E code \in {"accepted", "exists", "failedCall"}, p \in Compositions \cup {NoPlan} : Answer(w, code, p)

LEMMA Responses ==
  ASSUME Inv, Next, resp' # NoResp
  PROVE  \E w \in Workers : (\E p : Success(w, p)) \/ (\E code : Failure(w, code)) \/ Other(w)
  <1>1. ASSUME NEW w \in Workers, Services(w)
        PROVE  Failure(w, "error")
    <2>1. Refuse(w, "error")
      BY <1>1 DEF Services, Continue, Goto
    <2>2. task[w].req.op = "Services"
      BY <1>1, TaskFacts DEF Services, TaskOK, StepOK
    <2> QED BY <2>1, <2>2 DEF Failure
  <1>2. ASSUME NEW w \in Workers, servicePlans(w)
        PROVE  \E p : Success(w, p)
    <2>1. task[w].pc = "servicePlans" /\ task[w].todo = {} /\ Refuse(w, "ok")
      BY <1>2 DEF servicePlans, Continue, Goto
    <2> QED BY <2>1 DEF Success, Refuse
  <1>3. ASSUME NEW w \in Workers, Plan(w)
        PROVE  \E code : Failure(w, code)
    BY <1>3 DEF Plan, Continue, Goto, Failure
  <1>4. ASSUME NEW w \in Workers, ListPlans(w)
        PROVE  Failure(w, "error")
    BY <1>4 DEF ListPlans, Continue, Goto, Failure
  <1>5. ASSUME NEW w \in Workers, GetInstance(w)
        PROVE  (\E p : Success(w, p)) \/ (\E code : Failure(w, code)) \/ Other(w)
    <2>1. PICK c \in task[w].plans :
            /\ task[w].pc = "get"
            /\ \/ Found(w, c) = Absent /\ Refuse(w, "gone")
               \/ ~Matches(Found(w, c), c) /\ Refuse(w, "error")
               \/ Matches(Found(w, c), c) /\ Refuse(w, IF task[w].req.op = "Provision" THEN "exists" ELSE "ok")
      BY <1>5 DEF GetInstance, Continue, Goto
    <2>2. c.name = task[w].req.plan /\ task[w].req.plan \in Compositions
      BY <2>1, TaskFacts DEF TaskOK, PlansOK, StepOK
    <2>3. CASE Found(w, c) = Absent /\ Refuse(w, "gone")
      BY <2>1, <2>3 DEF Failure, Matches
    <2>4. CASE ~Matches(Found(w, c), c) /\ Refuse(w, "error")
      BY <2>1, <2>4 DEF Failure
    <2>5. CASE Matches(Found(w, c), c) /\ Refuse(w, "exists")
      BY <2>2, <2>5 DEF Other, Refuse, Reply
    <2>6. CASE Matches(Found(w, c), c) /\ Refuse(w, "ok")
      BY <2>1, <2>2, <2>6 DEF Success, Refuse
    <2> QED BY <2>1, <2>3, <2>4, <2>5, <2>6
  <1>6. ASSUME NEW w \in Workers, FindInstanceWithoutPlan(w)
        PROVE  (\E p : Success(w, p)) \/ (\E code : Failure(w, code))
    <2>1. CASE task[w].plans = {} /\ Refuse(w, "notFound")
      BY <1>6, <2>1 DEF FindInstanceWithoutPlan, Failure
    <2>2. ASSUME NEW c \in task[w].plans, Matches(Found(w, c), c), Reply(w, "ok", c.name)
          PROVE  Success(w, c.name)
      BY <1>6, <2>2 DEF FindInstanceWithoutPlan, Success
    <2> QED BY <1>6, <2>1, <2>2 DEF FindInstanceWithoutPlan, Continue, Goto, First
  <1>7. ASSUME NEW w \in Workers, CreateInstance(w)
        PROVE  (\E code : Failure(w, code)) \/ Other(w)
    <2>1. task[w].pc = "create" /\ task[w].plans \subseteq ReadPlan
      BY <1>7, TaskFacts DEF CreateInstance, Task
    <2>2. task[w].req.op = "Provision"
      BY <2>1, TaskFacts DEF TaskOK, StepOK
    <2>3. CASE Refuse(w, "error")
      BY <2>2, <2>3 DEF Failure
    <2>4. ASSUME NEW c \in task[w].plans, Answer(w, "accepted", c.name)
          PROVE  Other(w)
      BY <2>1, <2>4 DEF Other, ReadPlan
    <2> QED BY <1>7, <2>3, <2>4 DEF CreateInstance
  <1>8. ASSUME NEW w \in Workers, Abort(w)
        PROVE  Other(w)
    <2>1. task[w].req.plan \in Compositions \cup {NoPlan}
      BY <1>8, TaskFacts DEF Abort, TaskOK, StepOK, Request
    <2> QED BY <1>8, <2>1 DEF Abort, Refuse, Reply, Other
  <1>9. ASSUME NEW w \in Workers, NEW r \in Request, Receive(w, r)
        PROVE  FALSE
    BY <1>9 DEF Receive, Goto
  <1>10. ASSUME NEW p \in Compositions, NEW l \in PlanLabels \cup {Absent}, ApplyComposition(p, l)
         PROVE  FALSE
    BY <1>10 DEF ApplyComposition, Touch
  <1>11. ASSUME NEW x \in XRDs, NEW l \in XRDLabels \cup {Absent}, ApplyXRD(x, l)
         PROVE  FALSE
    BY <1>11 DEF ApplyXRD, Touch
  <1> QED BY <1>1, <1>2, <1>3, <1>4, <1>5, <1>6, <1>7, <1>8, <1>9, <1>10, <1>11 DEF Next, Step

\* A response says nothing after the step that gave it.
LEMMA Silent ==
  ASSUME resp' = NoResp
  PROVE  UntouchedIsOffered' /\ PlansOfTheirService' /\ UntouchedIsFound' /\ ReportedPlanIsRight'
  <1>1. resp'.code = "none" /\ resp'.task = Idle /\ Idle.req = NoRequest
    BY DEF NoResp, Idle
  <1> QED BY <1>1 DEF UntouchedIsOffered, PlansOfTheirService, UntouchedIsFound, ReportedPlanIsRight, Offered

\* Nor does a step that only stutters.
LEMMA Stutter ==
  ASSUME UNCHANGED vars
  PROVE  /\ UntouchedIsOffered => UntouchedIsOffered'
         /\ PlansOfTheirService => PlansOfTheirService'
         /\ UntouchedIsFound => UntouchedIsFound'
         /\ ReportedPlanIsRight => ReportedPlanIsRight'
  <1>1. UNCHANGED <<compositions, xrds, instances, resp, drifted>>
    BY DEF vars
  <1> QED BY <1>1 DEF UntouchedIsOffered, PlansOfTheirService, UntouchedIsFound, ReportedPlanIsRight, Offered,
       ServiceXRDs, Listed, OfferedPlans, Undrifted, PlansFound, LabelsParse

\* What the step of worker w that gave the response left in it.
LEMMA ResponseFields ==
  ASSUME NEW w, NEW code, NEW p, Answer(w, code, p)
  PROVE  resp'.code = code /\ resp'.plan = p /\ resp'.task = task[w] /\ resp'.touched = touched[w]
           /\ resp'.broken = broken[w]
  BY DEF Answer

\* A service whose XRD nobody touched is in a catalogue that is answered, with
\* the plans whose Compositions nobody touched, whatever else changed meanwhile.
THEOREM UntouchedServicesAreOffered == Spec => []UntouchedIsOffered
  <1>1. Init => UntouchedIsOffered
    BY DEF Init, UntouchedIsOffered, NoResp
  <1>2. Inv /\ UntouchedIsOffered /\ [Next]_vars => UntouchedIsOffered'
    <2> SUFFICES ASSUME Inv, UntouchedIsOffered, Next, resp' # NoResp
                 PROVE  UntouchedIsOffered'
      BY Silent, Stutter
    <2> SUFFICES ASSUME resp'.code = "ok", resp'.task.req.op = "Services"
                 PROVE  \A x \in ServiceXRDs' : x.name \notin resp'.touched =>
                          \E e \in Offered' :
                            /\ e.XRD = x.name /\ e.ID = x.labels.ServiceID
                            /\ \/ e.ID \in resp'.broken \/ resp'.task.lost
                               \/ {c.name : c \in Listed(compositions', {e.ID})} \ resp'.touched
                                    \subseteq OfferedPlans(e)
      BY DEF UntouchedIsOffered, Listed, OfferedPlans
    <2>1. PICK w \in Workers : \E p : Success(w, p)
      BY Responses, ResponseFields DEF Failure, Refuse, Reply, Other
    <2>2. /\ resp'.task = task[w] /\ resp'.touched = touched[w] /\ resp'.broken = broken[w]
          /\ compositions' = compositions /\ xrds' = xrds
      BY <2>1, ResponseFields DEF Success, Reply, catalog
    <2>3. TaskOK(task[w], touched[w], broken[w]) /\ task[w].pc = "servicePlans" /\ task[w].todo = {}
      BY <2>1, <2>2, TaskFacts DEF Success, TaskOK, StepOK
    <2>4. ServiceXRDs' = ServiceXRDs /\ Offered' = task[w].services
      BY <2>2 DEF ServiceXRDs, Listed, Offered
    <2> SUFFICES ASSUME NEW x \in ServiceXRDs, x.name \notin touched[w]
                 PROVE  \E e \in task[w].services :
                          /\ e.XRD = x.name /\ e.ID = x.labels.ServiceID
                          /\ \/ e.ID \in broken[w] \/ task[w].lost
                             \/ {c.name : c \in Listed(compositions, {e.ID})} \ touched[w] \subseteq OfferedPlans(e)
      BY <2>2, <2>4
    <2>5. PICK e \in task[w].services : e.XRD = x.name /\ e.ID = x.labels.ServiceID
      BY <2>3 DEF TaskOK, XRDsOK
    <2>6. OfferOK(e, task[w].lost, touched[w], broken[w])
      BY <2>3, <2>5 DEF TaskOK
    <2> QED BY <2>5, <2>6 DEF OfferOK
  <1> QED BY <1>1, <1>2, InvHolds, PTL DEF Spec

\* No plan is offered by two services unless its Composition was touched.
THEOREM PlansStayWithTheirService == Spec => []PlansOfTheirService
  <1>1. Init => PlansOfTheirService
    BY DEF Init, PlansOfTheirService, Offered, NoResp
  <1>2. Inv /\ PlansOfTheirService /\ [Next]_vars => PlansOfTheirService'
    <2> SUFFICES ASSUME Inv, PlansOfTheirService, Next, resp' # NoResp
                 PROVE  PlansOfTheirService'
      BY Silent, Stutter
    <2> SUFFICES ASSUME resp'.code = "ok", NEW e \in resp'.task.services, NEW f \in resp'.task.services,
                        e.ID # f.ID, NEW m \in OfferedPlans(e), m \in OfferedPlans(f)
                 PROVE  m \in resp'.touched
      BY DEF PlansOfTheirService, Offered, OfferedPlans
    <2>1. PICK w \in Workers : \E p : Success(w, p)
      BY Responses, ResponseFields DEF Failure, Refuse, Reply, Other
    <2>2. resp'.task = task[w] /\ resp'.touched = touched[w]
      BY <2>1, ResponseFields DEF Success, Reply
    <2>3. OfferOK(e, task[w].lost, touched[w], broken[w]) /\ OfferOK(f, task[w].lost, touched[w], broken[w])
      BY <2>2, TaskFacts DEF TaskOK
    <2>4. CASE m \notin touched[w]
      <3>1. m \in {c.name : c \in Listed(compositions, {e.ID})} /\ m \in {c.name : c \in Listed(compositions, {f.ID})}
        BY <2>3, <2>4 DEF OfferOK
      <3>2. compositions[m].ServiceID = e.ID /\ compositions[m].ServiceID = f.ID
        BY <3>1 DEF Listed
      <3> QED BY <3>2
    <2> QED BY <2>2, <2>4
  <1> QED BY <1>1, <1>2, InvHolds, PTL DEF Spec

\* An instance that was there when the request came, and whose Composition
\* nobody touched, is found.
THEOREM UntouchedInstancesAreFound == Spec => []UntouchedIsFound
  <1>1. Init => UntouchedIsFound
    BY DEF Init, UntouchedIsFound, NoResp, Idle
  <1>2. Inv /\ UntouchedIsFound /\ [Next]_vars => UntouchedIsFound'
    <2> SUFFICES ASSUME Inv, UntouchedIsFound, Next, resp' # NoResp
                 PROVE  UntouchedIsFound'
      BY Silent, Stutter
    <2> SUFFICES ASSUME resp'.task.req.op = "GetInstance",
                        resp'.code \in {"gone", "noPlan", "error", "notFound"},
                        NEW k \in resp'.task.had, k \notin drifted'
                 PROVE  /\ resp'.code # "notFound" => resp'.task.req.plan # instances'[k].plan
                        /\ (resp'.code = "error" /\ resp'.task.req.plan = NoPlan) => ~PlansFound(ServiceIDs)'
                        /\ resp'.code = "notFound" => compositions'[instances'[k].plan].ServiceID \notin ServiceIDs
      BY DEF UntouchedIsFound
    <2>0. PICK w \in Workers : \E code : Failure(w, code)
      BY Responses, ResponseFields DEF Success, Reply, Other
    <2>1. PICK code : Failure(w, code)
      BY <2>0
    <2> DEFINE t == task[w]
               p == instances[k].plan
    <2>2. resp'.task = t /\ resp'.code = code /\ UNCHANGED <<compositions, instances, drifted>>
      BY <2>1, ResponseFields DEF Failure, Refuse, Reply, catalog
    <2>3. TaskOK(t, touched[w], broken[w]) /\ t \in Task
      BY TaskFacts
    <2>4. k \in Keys /\ k[2] = t.req.id /\ instances[k] # Absent /\ k \notin drifted /\ p \notin touched[w]
      BY <2>2, <2>3 DEF TaskOK, HadOK, Task
    <2>5. /\ p \in Compositions /\ GVK[p] = k[1] /\ compositions[p] # Absent
          /\ LabelsParse(compositions[p]) /\ compositions[p].PlanName = instances[k].PlanName
      BY <2>4 DEF Inv, InstanceOK, Types, Instance
    <2>6. k = <<GVK[p], t.req.id>>
      BY <2>4, <2>5 DEF Keys
    <2>7. PlansFound(ServiceIDs)' = PlansFound(ServiceIDs)
      BY <2>2 DEF PlansFound, Listed, LabelsParse
    <2>8. CASE t.pc = "plan" /\ code # "notFound"
                 /\ (compositions[t.req.plan] = Absent \/ ~LabelsParse(compositions[t.req.plan]))
      <3>1. t.req.plan \in Compositions /\ t.req.plan # NoPlan
        BY <2>3, <2>8, LiveCatalogAssumption DEF TaskOK, StepOK
      <3> QED BY <2>2, <2>5, <2>8, <3>1
    <2>9. CASE t.pc = "plans" /\ code = "error" /\ ~PlansFound(ServiceIDs)
      <3>1. t.req.plan = NoPlan
        BY <2>3, <2>9 DEF TaskOK, StepOK
      <3> QED BY <2>2, <2>5, <2>7, <2>9, <3>1, LiveCatalogAssumption
    <2>10. CASE t.pc = "get" /\ code # "notFound" /\ \E c \in t.plans : ~Matches(Found(w, c), c)
      <3>1. PICK c \in t.plans : ~Matches(Found(w, c), c)
        BY <2>10
      <3>2. /\ c.name = t.req.plan /\ t.req.plan # NoPlan
            /\ c.name \in touched[w] \/ compositions[c.name] = c.labels
        BY <2>3, <2>10, LiveCatalogAssumption DEF TaskOK, StepOK, PlansOK
      <3>3. t.req.plan # p
        BY <2>4, <2>5, <2>6, <3>1, <3>2 DEF Matches, Found
      <3> QED BY <2>2, <2>10, <3>2, <3>3
    <2>11. CASE t.pc = "find" /\ code = "notFound" /\ t.plans = {}
      <3>1. compositions[p].ServiceID \notin ServiceIDs
        BY <2>2, <2>3, <2>4, <2>11 DEF TaskOK, HadOK
      <3> QED BY <2>2, <2>11, <3>1
    <2> QED BY <2>1, <2>2, <2>8, <2>9, <2>10, <2>11 DEF Failure
  <1> QED BY <1>1, <1>2, InvHolds, PTL DEF Spec

\* The plan that a lookup reports is the instance's Composition, unless one of
\* the two was touched.
THEOREM ReportedPlansAreRight == Spec => []ReportedPlanIsRight
  <1>1. Init => ReportedPlanIsRight
    BY DEF Init, ReportedPlanIsRight, NoResp
  <1>2. Inv /\ ReportedPlanIsRight /\ [Next]_vars => ReportedPlanIsRight'
    <2> SUFFICES ASSUME Inv, ReportedPlanIsRight, Next, resp' # NoResp
                 PROVE  ReportedPlanIsRight'
      BY Silent, Stutter
    <2> SUFFICES ASSUME resp'.code = "ok", resp'.task.req.op = "GetInstance",
                        NEW k \in Keys, k \notin drifted', k[2] = resp'.task.req.id, instances'[k] # Absent,
                        GVK[resp'.plan] = k[1]
                 PROVE  resp'.plan = instances'[k].plan \/ resp'.plan \in resp'.touched
      BY DEF ReportedPlanIsRight, Undrifted, Keys
    <2>0. PICK w \in Workers : \E p : Success(w, p)
      BY Responses, ResponseFields DEF Failure, Refuse, Reply, Other
    <2>1. PICK p : Success(w, p)
      BY <2>0
    <2>2. /\ resp'.task = task[w] /\ resp'.plan = p /\ resp'.touched = touched[w]
          /\ UNCHANGED <<compositions, instances, drifted>>
      BY <2>1, ResponseFields DEF Success, Reply, catalog
    <2>3. TaskOK(task[w], touched[w], broken[w]) /\ task[w] \in Task
      BY TaskFacts
    <2>4. PICK c \in task[w].plans : p = c.name /\ Matches(Found(w, c), c)
      BY <2>1, <2>2, <2>3 DEF Success, TaskOK, StepOK
    <2>5. c \in ReadPlan /\ (c.name \in touched[w] \/ compositions[c.name] = c.labels)
      BY <2>3, <2>4 DEF TaskOK, PlansOK, Task
    <2>6. k = <<GVK[p], task[w].req.id>>
      BY <2>2 DEF Keys
    <2>7. instances[k].PlanName = c.labels.PlanName
      BY <2>4, <2>6 DEF Matches, Found
    <2>8. /\ instances[k].plan \in Compositions /\ GVK[instances[k].plan] = k[1]
          /\ compositions[instances[k].plan] # Absent
          /\ compositions[instances[k].plan].PlanName = instances[k].PlanName
      BY <2>2 DEF Inv, InstanceOK, Types, Instance
    <2>9. CASE compositions[c.name] = c.labels
      <3>1. c.name \in Compositions /\ c.labels # Absent
        BY <2>5, LiveCatalogAssumption DEF ReadPlan
      <3>2. c.name = instances[k].plan
        BY <2>2, <2>4, <2>7, <2>8, <2>9, <3>1 DEF Inv, Unambiguous
      <3> QED BY <2>2, <2>4, <3>2
    <2> QED BY <2>2, <2>4, <2>5, <2>9
  <1> QED BY <1>1, <1>2, InvHolds, PTL DEF Spec
=============================================================================
