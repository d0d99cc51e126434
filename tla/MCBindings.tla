----------------------------- MODULE MCBindings -----------------------------
(***************************************************************************)
(* One binding: the objects of different bindings have different names and *)
(* no call touches those of two bindings.  Workers and passwords are       *)
(* interchangeable.                                                        *)
(***************************************************************************)
EXTENDS Bindings, TLC

CONSTANTS b1, w1, w2, p1, p2, p3

MCSymmetry == Permutations(Workers) \cup Permutations(Passwords)
=============================================================================
