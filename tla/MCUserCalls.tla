---------------------------- MODULE MCUserCalls ----------------------------
(***************************************************************************)
(* Instances of UserCalls: a compiled function, with a literal in its      *)
(* body, an interpreted function, a compiled and an interpreted module.    *)
(***************************************************************************)
EXTENDS UserCalls

MCFunctions == {"f", "lit", "g"}
MCLiterals == {"lit"}
MCModules == {"m", "n"}
MCCompiled == {"f", "lit", "m"}
MCStops == {"f"}
MCEncloses == {<<"f", "lit">>}
=============================================================================
