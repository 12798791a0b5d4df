--------------------------- MODULE DynamicScoping ---------------------------
(***************************************************************************)
(* What the trail of $-variables promises: dynamic scoping by copying.     *)
(* Every scope carries its own table of all the $-variables, copied from   *)
(* the scope it is opened under; writing changes one table.  (The design   *)
(* the trail replaced, eval_context.hpp: "a shared_ptr<unordered_map>      *)
(* copied wholesale on every derivation".)                                 *)
(***************************************************************************)
EXTENDS CallFrames

CONSTANT Seed   (* the table of the root context: name -> value, Unset     *)

VARIABLES
  frames,   (* as in CallFrames                                            *)
  table     (* held scope -> name -> DynEntry                              *)

vars == << frames, table >>

Mine == table[Cur(frames).scope]

(* The tables after a step: of `opened`, and of the scopes still held.     *)
Tables(opened) ==
  LET old == table
  IN  table' = [s \in Held(frames') |-> IF s \in DOMAIN opened THEN opened[s] ELSE old[s]]

Value(t, n, x) == [t EXCEPT ![n].value = x]
One(s, t) == [r \in {s} |-> t]

Init ==
  \E r \in Scopes :
    /\ frames = << Frame("root", EvalContext(r, NoCaller, "body"), {}) >>
    /\ table = One(r, [n \in Names |-> DynEntry(Seed[n], FALSE)])

(* A parameter bound to an argument or to its default is not "assigned".   *)
Call(s, n, x) ==
  /\ Room(frames)
  /\ frames' = Called(frames, s)
  /\ Tables(One(s, Value(Mine, n, x)))

CallModule(s, x) ==
  /\ Room(frames)
  /\ frames' = ModuleCalled(frames, s)
  /\ Tables(One(s, Value(Mine, Children, x)))

TailHop(s, n, x) ==
  /\ Top(frames).kind = "function" /\ ChainRoom(frames)
  /\ frames' = Hopped(frames, s)
  /\ Tables(One(s, Value(Mine, n, x)))

OpenScope(s) ==
  /\ ChainRoom(frames)
  /\ frames' = Scoped(frames, s)
  /\ Tables(One(s, Mine))

CopyContext ==
  /\ ChainRoom(frames)
  /\ frames' = Scoped(frames, Cur(frames).scope)
  /\ UNCHANGED table

CloseScope ==
  /\ Cur(frames).kind = "scope"
  /\ frames' = ScopeClosed(frames)
  /\ Tables(<< >>)

Assign(n, x) ==
  /\ table' = [table EXCEPT ![Cur(frames).scope][n] = DynEntry(x, TRUE)]
  /\ UNCHANGED frames

(* The forwarded statements run in the scope of the caller's block, under  *)
(* the $-values of the module that forwards them, but with the $children   *)
(* of their own block.                                                     *)
Forward(e, given, s, compiled) ==
  /\ Cur(frames).caller # NoCaller /\ Room(frames)
  /\ frames' = Forwarded(frames, s, e, compiled)
  /\ LET block == table[At(frames, Cur(frames).caller).scope]
         call == [n \in Names |-> IF n \in DOMAIN given THEN given[n] ELSE Mine[n].value]
         run == [n \in Names |->
                   IF n = Children \/ call[n] = Unset THEN block[n]
                   ELSE [block[n] EXCEPT !.value = call[n]]]
         theCall == [n \in Names |-> [Mine[n] EXCEPT !.value = call[n]]]
     IN  Tables([r \in {s, e} |-> IF r = s THEN run ELSE theCall])

Leave ==
  /\ Len(frames) > 1
  /\ frames' = Front(frames)
  /\ Tables(<< >>)

Next ==
  \/ \E s \in Fresh(frames), x \in Values : \E n \in Names \ {Children} : Call(s, n, x)
  \/ \E s \in Fresh(frames), x \in Values : CallModule(s, x)
  \/ \E s \in Fresh(frames), x \in Values : \E n \in Names \ {Children} : TailHop(s, n, x)
  \/ \E s \in Fresh(frames) : OpenScope(s)
  \/ CopyContext
  \/ CloseScope
  \/ \E n \in Names \ {Children}, x \in Values : Assign(n, x)
  \/ \E s \in Fresh(frames), compiled \in BOOLEAN :
       \/ Forward(Cur(frames).scope, << >>, s, compiled)
       \/ \E e \in Fresh(frames) \ {s}, n \in Names \ {Children}, x \in Values :
            Forward(e, [m \in {n} |-> x], s, compiled)
  \/ Leave

Spec == Init /\ [][Next]_vars
=============================================================================
