----------------------------- MODULE MCDynTrail -----------------------------
(* Model-checking instance of DynTrail: one variable the root context sets *)
(* ($fn) and $children, which it does not.                                 *)
EXTENDS DynTrail, TLC

MCSeed == [n \in Names |-> IF n = Children THEN Unset ELSE 0]
Symmetry == Permutations(Scopes)
=============================================================================
