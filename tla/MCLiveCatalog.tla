--------------------------- MODULE MCLiveCatalog ---------------------------
(***************************************************************************)
(* Two Compositions and two XRDs.  What is written on them makes plans     *)
(* move between two services and to one that is not configured, swap their *)
(* names, lose their metadata and stop parsing.                            *)
(***************************************************************************)
EXTENDS LiveCatalog, TLC

CONSTANTS plan1, plan2, xrd1, xrd2

L(id, name, plan) ==
  [ServiceID |-> id, ServiceName |-> name, PlanName |-> plan, Bindable |-> "", Metadata |-> "valid"]

MCPlanLabels ==
  { L("A", "redis-k8s", "small"), L("B", "mariadb-k8s", "small"), L("other", "redis-k8s", "small"),
    [L("A", "redis-k8s", "large") EXCEPT !.Metadata = "malformed", !.Bindable = "false"],
    [L("B", "mariadb-k8s", "large") EXCEPT !.Bindable = "malformed"] }

X(id, name) == [ServiceID |-> id, ServiceName |-> name, Bindable |-> "true", Metadata |-> "valid"]

MCXRDLabels ==
  {X("A", "redis-k8s"), X("B", "mariadb-k8s"), [X("B", "unknown") EXCEPT !.Metadata = "malformed"]}

MCGVK == [p \in Compositions |-> "CompositeInstance"]
MCNameRank == [large |-> 1, small |-> 2]

\* Objects of the same kind are interchangeable.
MCSymmetry == Permutations(Compositions) \cup Permutations(XRDs)
=============================================================================
