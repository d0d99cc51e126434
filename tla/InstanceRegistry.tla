-------------------------- MODULE InstanceRegistry --------------------------
(***************************************************************************)
(* What the instance operations promise: a registry of instances in which  *)
(* every request takes effect, and is answered, in a single step.  There   *)
(* are no workers, no copies and no versions here; module                  *)
(* InstancesRegistry shows that the steps of Instances amount to this.     *)
(***************************************************************************)
EXTENDS Catalog

CONSTANTS InstanceIDs, Requests, Principals, NoParent, NoRequest, Absent

VARIABLES
  entry,  \* entry[<<kind, id>>]: the instance
  resp    \* the response given by the last step, if it gave one

Entry == [plan : Plans, parent : InstanceIDs \cup {NoParent}, principal : Principals, ending : BOOLEAN]

Keys == Kinds \X InstanceIDs
Key(p, id) == <<GVK(p), id>>

Init ==
  /\ entry = [k \in Keys |-> Absent]
  /\ resp = [code |-> "none", req |-> NoRequest, plan |-> NoPlan]

Answer(code, r, p) == resp' = [code |-> code, req |-> r, plan |-> p]

\* Provision makes a new instance, in the name of who asked for it, ...
Provision(r) ==
  /\ Answer("accepted", r, r.plan)
  /\ r.op = "Provision" /\ r.plan \in Plans /\ r.principal \in Principals
  /\ entry[Key(r.plan, r.id)] = Absent
  /\ \E parent \in InstanceIDs \cup {NoParent} :
       entry' = [entry EXCEPT ![Key(r.plan, r.id)] =
                   [plan |-> r.plan, parent |-> parent, principal |-> r.principal, ending |-> FALSE]]

\* The instance of request r exists and has plan p.
HasPlan(r, p) ==
  /\ p \in Plans
  /\ entry[Key(p, r.id)] # Absent
  /\ entry[Key(p, r.id)].plan = p

\* ... or says that there is one with this plan.
Exists(r) ==
  /\ Answer("exists", r, r.plan) \/ Answer("conflict", r, r.plan)
  /\ r.op = "Provision"
  /\ HasPlan(r, r.plan)
  /\ UNCHANGED entry

\* Update changes the plan, from the one the instance has, along the rules and
\* nothing else.
Update(r) ==
  /\ Answer("ok", r, r.newPlan)
  /\ r.op = "Update" /\ r.newPlan \in Plans
  /\ \E p \in Plans :
       /\ HasPlan(r, p) /\ GVK(p) = GVK(r.newPlan)
       /\ AllowUpdate(p, r.newPlan)
       /\ entry' = [entry EXCEPT ![Key(p, r.id)].plan = r.newPlan]

\* Deprovision removes an instance, at once or by and by.  The registry does not
\* promise that no database refers to it by then: a database may come between
\* Deprovisionable and the deletion.
Deprovision(r, p) ==
  /\ Answer("ok", r, p)
  /\ r.op = "Deprovision"
  /\ entry[Key(p, r.id)] # Absent
  /\ \/ entry' = [entry EXCEPT ![Key(p, r.id)] = Absent]
     \/ entry' = [entry EXCEPT ![Key(p, r.id)].ending = TRUE]

\* When Deprovision is refused because of its databases, there is one.
InUse(r, p) ==
  /\ Answer("inUse", r, p)
  /\ r.op = "Deprovision"
  /\ \E d \in InstanceIDs :
       entry[<<DatabaseKind, d>>] # Absent /\ entry[<<DatabaseKind, d>>].parent = r.id
  /\ UNCHANGED entry

\* What is reported about an instance is about the plan it has.
Report(r, p) ==
  /\ \/ r.op = "GetInstance" /\ Answer("ok", r, p)
     \/ r.op = "LastOperation" /\ \E s \in {"succeeded", "inProgress", "failed"} : Answer(s, r, p)
  /\ HasPlan(r, p)
  /\ UNCHANGED entry

\* An instance that is said to be gone is not there.
Gone(r) ==
  /\ Answer("gone", r, r.plan)
  /\ r.plan \in Plans /\ entry[Key(r.plan, r.id)] = Absent
  /\ UNCHANGED entry

\* Any other request is refused, and changes nothing.
Refusals == {"asyncRequired", "badParams", "panic", "notFound", "notPermitted", "error"}
Refuse(r) ==
  /\ resp' \in [code : Refusals, req : {r}, plan : Plans \cup {NoPlan}]
  /\ UNCHANGED entry

\* A step of a request without an answer, or of a controller: instances that
\* are ending disappear.
Silent == resp' = [code |-> "none", req |-> NoRequest, plan |-> NoPlan]
Quiet == Silent /\ UNCHANGED entry
Vanish(k) ==
  /\ Silent
  /\ entry[k] # Absent /\ entry[k].ending
  /\ entry' = [entry EXCEPT ![k] = Absent]

Next ==
  \/ Quiet
  \/ \E k \in Keys : Vanish(k)
  \/ \E r \in Requests :
       \/ Refuse(r)
       \/ Provision(r) \/ Exists(r) \/ Update(r) \/ Gone(r)
       \/ \E p \in Plans : Deprovision(r, p) \/ InUse(r, p) \/ Report(r, p)

Spec == Init /\ [][Next]_<<entry, resp>>
=============================================================================
