------------------------- MODULE InstancesRegistry -------------------------
(***************************************************************************)
(* Instances implements InstanceRegistry: the entry of an instance is what *)
(* its composite says, and the last API call of a request is the moment at *)
(* which the request takes effect.                                         *)
(***************************************************************************)
EXTENDS Instances

EntryOf(o) ==
  IF o = Absent THEN Absent
  ELSE [plan |-> o.plan, parent |-> o.parent, principal |-> o.principal, ending |-> o.deleting]

Entries == [k \in Keys |-> EntryOf(composites[k])]

Registry == INSTANCE InstanceRegistry WITH entry <- Entries

ASSUME EntryAssumption == Absent \notin Registry!Entry

\* Although a request is a sequence of API calls that others interleave with,
\* every answer of Provision, Update, Deprovision, GetInstance and
\* LastOperation is that of an atomic operation on the registry: it is true of
\* the instances at the moment it is given, an update replaces the plan the
\* instance has at that moment, and no step changes anything else.
ImplementsRegistry == Registry!Spec
=============================================================================
