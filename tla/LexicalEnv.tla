----------------------------- MODULE LexicalEnv -----------------------------
(***************************************************************************)
(* What the scope trail promises: lexical scoping with closures, as a      *)
(* textbook interpreter with a heap of environment frames would do it.     *)
(* Every scope is a cell of the heap with its own bindings and a link to   *)
(* the enclosing scope; a name denotes its innermost binding; a cell stays *)
(* as long as anything can still reach it.  There are no levels, stacks or *)
(* ancestry walks here.                                                    *)
(***************************************************************************)
EXTENDS Integers, Sequences, FiniteSets

CONSTANTS Names, Plain, Views, NoView, Undef, MaxFrames

VARIABLES
  heap,     (* cell -> [up |-> enclosing cell, own |-> its bindings]       *)
  frames,   (* active contexts, innermost last                             *)
  acc       (* value in flight; a closure is the cell it captured          *)

vars == << heap, frames, acc >>

(* A cell has a value for each name it binds. *)
Cell(enclosing, own) == [up |-> enclosing, own |-> own]
Bare == [n \in {} |-> Undef]

Top == Len(frames)
Cur == frames[Top].view

(* The value a name denotes in a scope. *)
Denotes(n, v) ==
  LET find[c \in DOMAIN heap \cup {NoView}] ==
        IF c = NoView THEN Undef
        ELSE IF n \in DOMAIN heap[c].own THEN heap[c].own[n]
        ELSE find[heap[c].up]
  IN  find[v]

(* No context, value or cell refers to a cell that is not in h. *)
NothingDangles(h, fs, a) ==
  /\ \A i \in 1 .. Len(fs) : fs[i].view \in DOMAIN h
  /\ a \in Views => a \in DOMAIN h
  /\ \A c \in DOMAIN h :
       /\ h[c].up \in DOMAIN h \cup {NoView}
       /\ \A n \in DOMAIN h[c].own : h[c].own[n] \in Views => h[c].own[n] \in DOMAIN h

(* The next heap is h, less cells that nothing needs any more. *)
HeapBecomes(h) ==
  LET next == heap'
  IN  /\ DOMAIN next \subseteq DOMAIN h
      /\ \A c \in DOMAIN next : next[c] = h[c]
      /\ NothingDangles(next, frames', acc')

With(v, cell) ==
  LET old == heap IN [c \in DOMAIN old \cup {v} |-> IF c = v THEN cell ELSE old[c]]
Binding(own, n, val) == [m \in DOMAIN own \cup {n} |-> IF m = n THEN val ELSE own[m]]
Bound(n, val, v) == [heap EXCEPT ![v].own = Binding(@, n, val)]

Init ==
  \E r \in Views :
    /\ heap = [c \in {r} |-> Cell(NoView, Bare)]
    /\ frames = << [kind |-> "ctx", view |-> r] >>
    /\ acc = Undef

(* Enter a scope enclosed by cell `from` (none for a call's own scope). *)
Enter(kind, from) ==
  \E v \in Views \ DOMAIN heap :
    /\ frames' = Append(frames, [kind |-> kind, view |-> v])
    /\ HeapBecomes(With(v, Cell(from, Bare)))

EnterNested == Enter("ctx", Cur) /\ acc' = acc
EnterCall == \E k \in {"ctx", "default"} : Enter(k, NoView) /\ acc' = acc
EnterClosure == acc \in Views /\ Enter("ctx", acc) /\ acc' = Undef
EnterChildren == (\E i \in 1 .. (Top - 1) : Enter("ctx", frames[i].view)) /\ acc' = acc

Leave ==
  /\ Top > 1
  /\ frames' = SubSeq(frames, 1, Top - 1)
  /\ acc' \in {acc, Undef}
  /\ HeapBecomes(heap)

Eval ==
  /\ \/ acc' \in Plain
     \/ \E n \in Names : acc' = Denotes(n, Cur)
     \/ acc' = Cur
  /\ frames' = frames
  /\ HeapBecomes(heap)

(* A closure over a cell of its own, holding copies of what it captured. *)
CloseOver(copied, self) ==
  \E v \in Views \ DOMAIN heap :
    LET own == [n \in copied \cup self |-> IF n \in self THEN v ELSE Denotes(n, Cur)]
    IN  /\ acc' = v
        /\ frames' = frames
        /\ HeapBecomes(With(v, Cell(Cur, own)))

Patch(n) ==
  /\ acc \in Views
  /\ acc' = acc
  /\ frames' = frames
  /\ \E val \in Plain \cup {acc} : HeapBecomes(Bound(n, val, acc))

Bind(n) ==
  /\ acc' = Undef
  /\ frames' = frames
  /\ \E i \in {Top - 1, Top} \ {0} :
       /\ i = IF frames[Top].kind = "default" THEN Top - 1 ELSE Top
       /\ HeapBecomes(Bound(n, acc, frames[i].view))

Forget == HeapBecomes(heap) /\ frames' = frames /\ acc' = acc

Next ==
  \/ EnterNested \/ EnterCall \/ EnterClosure \/ EnterChildren \/ Leave
  \/ Eval
  \/ \E copied, self \in SUBSET Names : CloseOver(copied, self)
  \/ \E n \in Names : Patch(n) \/ Bind(n)
  \/ Forget

Spec == Init /\ [][Next]_vars
=============================================================================
