----------------------------- MODULE ScopeTrail -----------------------------
(***************************************************************************)
(* The lexical half of the evaluator's environment: one                    *)
(* ScopeTrailStorage<Value>, the TrailView handles onto it (scope_trail.hpp)*)
(* and the EvalContexts and closures that hold those handles               *)
(* (eval_context.cpp, expr_eval.cpp, user_calls.cpp, bytecode_vm.cpp).     *)
(*                                                                         *)
(* A view is alive while somebody holds a shared_ptr to it: a context, a   *)
(* closure value, or a child view (parentView_).  Its destructor pops its  *)
(* level.  A closure can outlive the call that made it, so levels are not  *)
(* popped in the order in which they were opened, and their numbers are    *)
(* handed out again.                                                       *)
(*                                                                         *)
(* A closure value is modelled by the view it captured.  acc is the one    *)
(* temporary of the model: the value an expression has just produced.      *)
(***************************************************************************)
EXTENDS TrailStorage, FiniteSets

CONSTANTS
  Names,      (* variable names bound in let_                              *)
  Plain,      (* values that hold no view                                  *)
  Views,      (* identities of TrailView objects                           *)
  NoView,     (* the null parentView_                                      *)
  Undef,      (* the undef value                                           *)
  MaxLevel,   (* bound: level slots of the storage                         *)
  MaxFrames,  (* bound: contexts alive at once                             *)
  MaxEntries  (* bound: entries of one name                                *)

ASSUME BoundsAssumption ==
  MaxLevel \in Nat \ {0} /\ MaxFrames \in Nat /\ MaxEntries \in Nat
ASSUME DistinctAssumption ==
  /\ NoView \notin Views
  /\ Views \cap (Plain \cup {Undef}) = {}

VARIABLES
  parent,     (* parent_                                                   *)
  stacks,     (* stacks_: name -> its entries                              *)
  dirty,      (* dirty_: level -> name -> how often it is recorded         *)
  level,      (* level_ of each view, 0 for an object that does not exist  *)
  up,         (* parentView_ of each view                                  *)
  frames,     (* live contexts, oldest first: the last one is evaluating   *)
  acc         (* the value in flight                                       *)

vars == << parent, stacks, dirty, level, up, frames, acc >>
storage == << parent, stacks, dirty >>

Values == Plain \cup {Undef} \cup Views
Levels == 1 .. MaxLevel
Entries == [value : Values, level : Levels]
NoDirt == [n \in Names |-> 0]
Frame(k, v) == [kind |-> k, view |-> v]

Live == {v \in Views : level[v] # 0}
Top == Len(frames)
Cur == frames[Top].view

-----------------------------------------------------------------------------
(* Ownership: the shared_ptrs to a view.                                   *)

HeldByContext(v) == \E i \in 1 .. Len(frames) : frames[i].view = v
(* Mutants: a closure being returned is not counted; no parentView_. *)
HeldByBinding(v) ==
  \E n \in Names : \E i \in 1 .. Len(stacks[n]) : stacks[n][i].value = v
HeldByNoChild(v) == FALSE

HeldByClosure(v) ==
  \/ acc = v
  \/ \E n \in Names : \E i \in 1 .. Len(stacks[n]) : stacks[n][i].value = v
HeldByChild(v) == \E w \in Live : up[w] = v
Owned(v) == HeldByContext(v) \/ HeldByClosure(v) \/ HeldByChild(v)

Garbage(v) == v \in Live /\ ~Owned(v)

(* Destructors run at once: the program goes on only when none is pending. *)
Settled == \A v \in Live : Owned(v)

-----------------------------------------------------------------------------
(* TrailView *)

TypeOK ==
  /\ parent \in Seq({Dead} \cup 0 .. MaxLevel)
  /\ Len(parent) <= MaxLevel
  /\ stacks \in [Names -> Seq(Entries)]
  /\ dirty \in [Levels -> [Names -> Nat]]
  /\ level \in [Views -> 0 .. MaxLevel]
  /\ up \in [Views -> Views \cup {NoView}]
  /\ frames \in Seq([kind : {"ctx", "default"}, view : Views])
  /\ acc \in Values
  /\ frames # << >> /\ frames[1].kind = "ctx"

Init ==
  \E r \in Views :
    /\ parent = << 0 >>
    /\ stacks = [n \in Names |-> << >>]
    /\ dirty = [l \in Levels |-> NoDirt]
    /\ level = [v \in Views |-> IF v = r THEN 1 ELSE 0]
    /\ up = [v \in Views |-> NoView]
    /\ frames = << Frame("ctx", r) >>
    /\ acc = Undef

(* openChild: `from` is the view whose ancestry the child continues and    *)
(* which it keeps alive, NoView for an isolating derivation.               *)
OpenChild(v, from) ==
  /\ v \in Views \ Live
  /\ Len(parent) < MaxLevel
  /\ parent' = OpenLevel(parent, IF from = NoView THEN 0 ELSE level[from])
  /\ level' = [level EXCEPT ![v] = Len(parent) + 1]
  /\ up' = [up EXCEPT ![v] = from]

(* Mutant: an overwrite is recorded in dirty_ like a push. *)
SetRecordingTwice(n, val, v) ==
  /\ BoundLast(stacks[n], level[v]) \/ Len(stacks[n]) < MaxEntries
  /\ stacks' = [stacks EXCEPT ![n] = SetEntry(@, val, level[v])]
  /\ dirty' = [dirty EXCEPT ![level[v]][n] = @ + 1]

Set(n, val, v) ==
  /\ BoundLast(stacks[n], level[v]) \/ Len(stacks[n]) < MaxEntries
  /\ stacks' = [stacks EXCEPT ![n] = SetEntry(@, val, level[v])]
  /\ dirty' = IF BoundLast(stacks[n], level[v]) THEN dirty
              ELSE [dirty EXCEPT ![level[v]][n] = @ + 1]

Find(n, v) ==
  LET i == Lookup(parent, stacks[n], level[v])
  IN  IF i \in 1 .. Len(stacks[n]) THEN stacks[n][i].value ELSE Undef

-----------------------------------------------------------------------------
(* Deriving and leaving contexts *)

Push(kind, v) ==
  /\ Top < MaxFrames
  /\ frames' = Append(frames, Frame(kind, v))

(* childCtx / letChildCtx: a nested scope of the current context. *)
ChildCtx ==
  /\ Settled
  /\ \E v \in Views : OpenChild(v, Cur) /\ Push("ctx", v)
  /\ UNCHANGED << stacks, dirty, acc >>

(* callCtx: a call scope that sees none of the caller's locals. *)
CallCtx ==
  /\ Settled
  /\ \E v \in Views : OpenChild(v, NoView) /\ Push("ctx", v)
  /\ UNCHANGED << stacks, dirty, acc >>

(* Mutant: the closure's body runs in the caller's scope. *)
CallCtxFromCallersLet ==
  /\ Settled
  /\ acc \in Views
  /\ \E v \in Views : OpenChild(v, Cur) /\ Push("ctx", v)
  /\ acc' = Undef
  /\ UNCHANGED << stacks, dirty >>

(* callCtxFromCapturedLet: calling the closure in acc. *)
CallCtxFromCapturedLet ==
  /\ Settled
  /\ acc \in Views
  /\ \E v \in Views : OpenChild(v, acc) /\ Push("ctx", v)
  /\ acc' = Undef
  /\ UNCHANGED << stacks, dirty >>

(* applyDefaults: default values are evaluated in an isolated view opened  *)
(* on top of the callee's own context, whose parameters they then fill.    *)
OpenDefaultCtx ==
  /\ Settled
  /\ Top > 1
  /\ frames[Top].kind = "ctx"
  /\ \E v \in Views : OpenChild(v, NoView) /\ Push("default", v)
  /\ UNCHANGED << stacks, dirty, acc >>

BindDefault(n) ==
  /\ Settled
  /\ frames[Top].kind = "default"
  /\ Set(n, acc, frames[Top - 1].view)
  /\ acc' = Undef
  /\ UNCHANGED << parent, level, up, frames >>

(* children(): the forwarded nodes run in a child of the context that      *)
(* called the module, frames[i].  With a named $-argument the arguments'   *)
(* own child context is opened first and destroyed first, so its level     *)
(* dies below the newer one.                                               *)
CallChildren(i, dollarArg) ==
  /\ Settled
  /\ i < Top
  /\ frames[i].kind = "ctx" /\ frames[Top].kind = "ctx"
  /\ Len(parent) + 2 <= MaxLevel
  /\ \E v \in Views \ Live :
       LET before == IF dollarArg THEN Append(parent, Dead) ELSE parent
       IN  /\ parent' = OpenLevel(before, level[frames[i].view])
           /\ level' = [level EXCEPT ![v] = Len(before) + 1]
           /\ up' = [up EXCEPT ![v] = frames[i].view]
           /\ Push("ctx", v)
  /\ UNCHANGED << stacks, dirty, acc >>

(* Mutant: also leaves the root context. *)
LeaveAnyCtx(returns) ==
  /\ Settled
  /\ frames' = SubSeq(frames, 1, Top - 1)
  /\ acc' = IF returns THEN acc ELSE Undef
  /\ UNCHANGED << storage, level, up >>

(* Return (the result stays in flight) or unwind by an exception. *)
LeaveCtx(returns) ==
  /\ Settled
  /\ Top > 1
  /\ frames' = SubSeq(frames, 1, Top - 1)
  /\ acc' = IF returns THEN acc ELSE Undef
  /\ UNCHANGED << storage, level, up >>

-----------------------------------------------------------------------------
(* Expressions and bindings *)

Literal(p) ==
  /\ Settled
  /\ acc' = p
  /\ UNCHANGED << storage, level, up, frames >>

Identifier(n) ==
  /\ Settled
  /\ acc' = Find(n, Cur)
  /\ UNCHANGED << storage, level, up, frames >>

(* FunctionLiteral in the tree walker captures the current let_ itself. *)
FunctionLiteral ==
  /\ Settled
  /\ acc' = Cur
  /\ UNCHANGED << storage, level, up, frames >>

(* Op::MakeClosure with captureDefiningLet: a fresh level below the        *)
(* defining one receives copies of the captured names, and the names that  *)
(* refer to the closure itself.                                            *)
MakeClosure(captured, self) ==
  /\ Settled
  /\ \E v \in Views :
       /\ OpenChild(v, Cur)
       /\ \A n \in captured \cup self : Len(stacks[n]) < MaxEntries
       /\ LET l == Len(parent) + 1
              copy(n) == IF n \in self THEN v ELSE Find(n, Cur)
          IN  /\ stacks' = [n \in Names |->
                              IF n \in captured \cup self
                              THEN SetEntry(stacks[n], copy(n), l) ELSE stacks[n]]
              /\ dirty' = [dirty EXCEPT ![l] = [n \in Names |->
                              IF n \in captured \cup self THEN @[n] + 1 ELSE @[n]]]
       /\ acc' = v
  /\ UNCHANGED frames

(* Op::PatchClosureCapture: a later binding is written into the level the  *)
(* closure captured.                                                       *)
PatchClosureCapture(n, val) ==
  /\ Settled
  /\ acc \in Views
  /\ Set(n, val, acc)
  /\ UNCHANGED << parent, level, up, frames, acc >>

(* evalAssignment, loop variables, bound arguments: the current level. *)
Assign(n) ==
  /\ Settled
  /\ frames[Top].kind = "ctx"
  /\ Set(n, acc, Cur)
  /\ acc' = Undef
  /\ UNCHANGED << parent, level, up, frames >>

-----------------------------------------------------------------------------
(* ~TrailView: popLevel, then the release of parentView_.  Destroying an   *)
(* entry may destroy a closure and so start another destructor; the steps  *)
(* of pending destructors interleave in any order, which includes the      *)
(* nesting of the recursive calls.                                         *)

PopEntry(v, n) ==
  /\ Garbage(v)
  /\ dirty[level[v]][n] > 0
  /\ \E i \in 1 .. Len(stacks[n]) :
       /\ LastOfLevel(stacks[n], level[v], i)
       /\ stacks' = [stacks EXCEPT ![n] = EraseAt(@, i)]
  /\ dirty' = [dirty EXCEPT ![level[v]][n] = @ - 1]
  /\ UNCHANGED << parent, level, up, frames, acc >>

(* Mutant: the level is given back with entries still in its name. *)
PopAtOnce(v) ==
  /\ Garbage(v)
  /\ \E k \in 0 .. Len(parent) :
       /\ ShrinksTo(parent, level[v], k)
       /\ parent' = MarkDead(parent, level[v], k)
  /\ level' = [level EXCEPT ![v] = 0]
  /\ up' = [up EXCEPT ![v] = NoView]
  /\ UNCHANGED << stacks, dirty, frames, acc >>

PopDone(v) ==
  /\ Garbage(v)
  /\ dirty[level[v]] = NoDirt
  /\ \E k \in 0 .. Len(parent) :
       /\ ShrinksTo(parent, level[v], k)
       /\ parent' = MarkDead(parent, level[v], k)
  /\ level' = [level EXCEPT ![v] = 0]
  /\ up' = [up EXCEPT ![v] = NoView]
  /\ UNCHANGED << stacks, dirty, frames, acc >>

Next ==
  \/ ChildCtx
  \/ CallCtx
  \/ CallCtxFromCapturedLet
  \/ OpenDefaultCtx
  \/ \E n \in Names : BindDefault(n)
  \/ \E i \in 1 .. MaxFrames, d \in BOOLEAN : CallChildren(i, d)
  \/ \E returns \in BOOLEAN : LeaveCtx(returns)
  \/ \E p \in Plain : Literal(p)
  \/ \E n \in Names : Identifier(n)
  \/ FunctionLiteral
  \/ \E captured, self \in SUBSET Names : MakeClosure(captured \ self, self)
  \/ \E n \in Names, val \in Plain \cup {acc} : PatchClosureCapture(n, val)
  \/ \E n \in Names : Assign(n)
  \/ \E v \in Views, n \in Names : PopEntry(v, n)
  \/ \E v \in Views : PopDone(v)

Spec == Init /\ [][Next]_vars

-----------------------------------------------------------------------------
(* What has to hold whatever escapes, and in whatever order scopes end.    *)

(* A level number names one scope at a time: markDead may hand a number    *)
(* out again only when nothing alive still answers to it.                  *)
LevelsDistinct ==
  \A v, w \in Live : level[v] = level[w] => v = w

(* The chain lookup walks is whole: the slot of a live level leads to a    *)
(* live, older level (parentView_ keeps it alive) or ends the chain.       *)
AncestryIntact ==
  \A v \in Live :
    parent[level[v]] = IF up[v] = NoView THEN 0 ELSE level[up[v]]

AncestorsLive ==
  \A v \in Live : up[v] # NoView => up[v] \in Live /\ level[up[v]] < level[v]

(* No binding outlives its scope: popLevel has removed every entry of a    *)
(* level by the time the number can be handed out again.                   *)
EntriesOfLiveLevels ==
  \A n \in Names : \A i \in 1 .. Len(stacks[n]) :
    \E v \in Live : level[v] = stacks[n][i].level

(* dirty_ records every entry of a level exactly once, which is what lets  *)
(* popLevel find them all without searching.                               *)
OfLevel(stack, l) == {i \in 1 .. Len(stack) : stack[i].level = l}

DirtyExact ==
  \A l \in Levels, n \in Names :
    dirty[l][n] = Cardinality(OfLevel(stacks[n], l))

(* A slot is live exactly as long as the view of its level.                *)
SlotsMatchViews ==
  /\ \A v \in Live : level[v] <= Len(parent)
  /\ \A l \in 1 .. Len(parent) : parent[l] # Dead => \E v \in Live : level[v] = l

(* Slots are given back: the newest slot is always that of a live level,   *)
(* so an escaping closure pins its own level's number and nothing above.   *)
SlotsTight ==
  parent # << >> /\ \E v \in Live : level[v] = Len(parent)

(* Nobody holds a view that was destroyed. *)
HoldersLive ==
  /\ \A i \in 1 .. Len(frames) : frames[i].view \in Live
  /\ acc \in Views => acc \in Live
  /\ \A n \in Names : \A i \in 1 .. Len(stacks[n]) :
       stacks[n][i].value \in Views => stacks[n][i].value \in Live

(* The storage is sound, whichever views die and in whatever order: level  *)
(* numbers, parent slots, stacks and views tell the same story, and nobody *)
(* looks at what has gone (scope_trail.hpp:120-310).                       *)
StorageSound ==
  /\ SlotsMatchViews
  /\ LevelsDistinct
  /\ AncestryIntact
  /\ EntriesOfLiveLevels
  /\ SlotsTight
  /\ HoldersLive

(* The inductive invariant (ScopeTrailProofs). *)
IInv ==
  /\ TypeOK
  /\ LevelsDistinct
  /\ AncestryIntact
  /\ AncestorsLive
  /\ EntriesOfLiveLevels
  /\ DirtyExact
  /\ SlotsMatchViews
  /\ SlotsTight
  /\ HoldersLive

(* A scope that is still held loses none of its bindings, whichever other  *)
(* scopes end meanwhile: the pop of one level never takes another's entry. *)
Binds(v, n) == OfLevel(stacks[n], level[v]) # {}

BindingsKept ==
  [][\A v \in Live, n \in Names :
       Owned(v) /\ Binds(v, n) => v \in Live' /\ Binds(v, n)']_vars

-----------------------------------------------------------------------------
(* The scope trail implements lexical scoping (LexicalEnv) in every step   *)
(* between states in which the pushes of each name are in level order, the *)
(* premise ScopeTrailStorage::lookup is built on.                          *)

(* The refinement mapping: the cells are the views somebody still holds,   *)
(* the bindings of a cell are the last entries of its level.               *)
OwnBindings(st, l) ==
  [n \in {m \in Names : OfLevel(st[m], l) # {}} |->
     st[n][CHOOSE i \in 1 .. Len(st[n]) : LastOfLevel(st[n], l, i)].value]

cells ==
  [v \in {w \in Live : Owned(w)} |-> [up |-> up[v], own |-> OwnBindings(stacks, level[v])]]

Lexical == INSTANCE LexicalEnv WITH heap <- cells

(* The states in which every stack is in level order. *)
InOrder == \A n \in Names : Ascending(stacks[n])

(* Every step of the trail between such states is a step of the textbook   *)
(* interpreter: a read gives the innermost lexical binding, a closure      *)
(* finds its captured bindings after the call that made them returned, and *)
(* scopes that end out of order take nothing with them but their own       *)
(* bindings.  It holds again once the stacks are back in order.            *)
ImplementsLexicalScoping ==
  Lexical!Init /\ [][(InOrder /\ InOrder') => Lexical!Next]_vars
=============================================================================
