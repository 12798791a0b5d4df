----------------------------- MODULE MCDebugger -----------------------------
(***************************************************************************)
(* Scripts for Debugger.  "m" is the file being debugged, "u" a file it    *)
(* uses.                                                                   *)
(*   m1  x = render() { m2 } + f(..);      u1  function f(..) = [for (;;)  *)
(*   m3  for (..) m4;                      u2     ..], h(..) then t(..)    *)
(*   m5  w() m6;                           u3  function t(..) = c ? .. : ..*)
(*   m7  breakpoint(); assert(..);         u5  module w() children();      *)
(*   m9  function h(..) = ..                                               *)
(***************************************************************************)
EXTENDS Debugger

M(l) == <<"m", l>>
U(l) == <<"u", l>>
Stmt(at) == [op |-> "stmt", at |-> at]
Parent(at, children) == [op |-> "stmt", at |-> at, kids |-> children]
Entry(at) == [op |-> "entry", at |-> at]
Marker(at) == [op |-> "marker", at |-> at]
Site(at, of) == [op |-> "site", at |-> at, of |-> of]
Jump(op, to) == [op |-> op, to |-> to]

MCProcs == {"main", "rend", "body", "f", "h", "t", "w", "kid"}
MCKind == [p \in MCProcs |-> IF p \in {"f", "h", "t"} THEN "function" ELSE "module"]
MCChunk == [main |-> [o |-> "m", lo |-> 1, hi |-> 8], rend |-> [o |-> "m", lo |-> 2, hi |-> 2],
            body |-> [o |-> "m", lo |-> 4, hi |-> 4], kid |-> [o |-> "m", lo |-> 6, hi |-> 6],
            f |-> [o |-> "u", lo |-> 1, hi |-> 2], h |-> [o |-> "m", lo |-> 9, hi |-> 9],
            t |-> [o |-> "u", lo |-> 3, hi |-> 3], w |-> [o |-> "u", lo |-> 5, hi |-> 5]]
MCBody ==
    [main |-> << Stmt(M(1)), Jump("measure", "rend"), Site(M(1), M(1)), Jump("call", "f"),
                 Stmt(M(3)), Marker(M(4)), Jump("block", "body"), Jump("loop", 6),
                 Parent(M(5), {M(6)}), Jump("call", "w"), Jump("loop", 14),
                 Stmt(M(7)), [op |-> "forced", at |-> M(7)], Jump("loop", 16),
                 [op |-> "fail", at |-> M(8)] >>,
     rend |-> << Stmt(M(2)) >>,
     body |-> << Stmt(M(4)) >>,
     f |-> << Entry(U(1)), Marker(U(1)), Jump("loop", 2), Site(U(2), U(1)), Jump("call", "h"),
              Site(U(1), U(1)), Jump("tail", "t") >>,
     h |-> << Entry(M(9)) >>,
     t |-> << Entry(U(3)), Stmt(U(3)) >>,
     w |-> << Parent(U(5), {M(6)}), Jump("block", "kid") >>,
     kid |-> << Stmt(M(6)) >>]

MCBreakLocs == {U(3), M(6)}

(* What the theorem about call sites assumes of a script is so of this one. *)
MCCurrent ==
    [p \in MCProcs |-> [i \in 1..(Len(MCBody[p]) + 1) |->
        CASE p = "main" /\ i \in 2..4 -> M(1) [] p = "f" /\ i \in 2..8 -> U(1) [] OTHER -> NoLoc]]
MCHops == [p \in MCProcs |-> IF p = "t" THEN {U(1)} ELSE {}]
ASSUME SitesAssumption == SitesPlaced(MCCurrent, MCHops)
==============================================================================
