---------------------------- MODULE MCScopeTrail ----------------------------
(* Model-checking instance of ScopeTrail. *)
EXTENDS ScopeTrail, TLC

Symmetry == Permutations(Views) \cup Permutations(Names)
=============================================================================
