----------------------------- MODULE CallFrames -----------------------------
(***************************************************************************)
(* The evaluation contexts a running script holds, as far as $-variables   *)
(* see them: a stack of frames, each with its chain of contexts            *)
(* (VmFrame::ctxChain, bytecode_vm.hpp; the `chain` of the interpreter's   *)
(* trampoline, user_calls.cpp).  The last context of the last frame is the *)
(* one that evaluates.                                                     *)
(*                                                                         *)
(* A context is reduced to the scope it reads and writes (its dyn/         *)
(* dynExplicit view) and to childrenCallerCtx, a raw pointer: the place of *)
(* another context in these chains.                                        *)
(***************************************************************************)
EXTENDS Integers, Sequences, SequencesExt

CONSTANTS
  Names,      (* $-variable names                                          *)
  Children,   (* the name $children                                        *)
  Values,     (* what a $-variable may hold                                *)
  Unset,      (* no such variable                                          *)
  Scopes,     (* identities of scopes                                      *)
  MaxFrames,  (* bound: frames at once                                     *)
  MaxChain    (* bound: contexts of one frame                              *)

ASSUME NamesAssumption == Children \in Names /\ Unset \notin Values
ASSUME BoundsAssumption == MaxFrames \in Nat \ {0} /\ MaxChain \in Nat \ {0}

(* What a scope shows of a name, DynEntry: its value and whether the       *)
(* script itself assigned it.                                              *)
DynEntry(x, explicit) == [value |-> x, explicitlySet |-> explicit]

NoCaller == [frame |-> 0, at |-> 0]
EvalContext(s, caller, kind) == [scope |-> s, caller |-> caller, kind |-> kind]
Frame(kind, c, held) == [kind |-> kind, chain |-> << c >>, held |-> held]

Top(fs) == fs[Len(fs)]
Cur(fs) == Last(Top(fs).chain)
Here(fs) == [frame |-> Len(fs), at |-> Len(Top(fs).chain)]
At(fs, p) == fs[p.frame].chain[p.at]

WithCtx(fs, c) == [fs EXCEPT ![Len(fs)].chain = Append(@, c)]
Room(fs) == Len(fs) < MaxFrames
ChainRoom(fs) == Len(Top(fs).chain) < MaxChain

(* The scopes somebody holds. *)
ScopesOf(f) == {f.chain[i].scope : i \in DOMAIN f.chain} \cup f.held
Held(fs) == UNION {ScopesOf(fs[i]) : i \in DOMAIN fs}
Fresh(fs) == Scopes \ Held(fs)

(* The shapes a step gives the frames; s is the scope it opens. *)

(* A function is entered: callCtx forgets the caller's children. *)
Called(fs, s) == Append(fs, Frame("function", EvalContext(s, NoCaller, "body"), {}))

(* A module is entered: it will find its children's context here. *)
ModuleCalled(fs, s) ==
  Append(fs, Frame("module", EvalContext(s, Here(fs), "body"), {}))

(* A tail hop adds to the chain and drops nothing. *)
Hopped(fs, s) == WithCtx(fs, EvalContext(s, NoCaller, "body"))

(* A let, a loop iteration, a wrapper with a $-argument; one without a     *)
(* $-argument copies its context, scope and all.                           *)
Scoped(fs, s) == WithCtx(fs, EvalContext(s, Cur(fs).caller, "scope"))

ScopeClosed(fs) == [fs EXCEPT ![Len(fs)].chain = Front(@)]

(* children() runs in a context derived from the caller's; the context of  *)
(* the call itself, e, stays only when the block is interpreted.           *)
Forwarded(fs, s, e, compiled) ==
  Append(fs, Frame("forward", EvalContext(s, At(fs, Cur(fs).caller).caller, "body"),
                   IF compiled THEN {} ELSE {e}))
=============================================================================
