------------------------------ MODULE DynTrail ------------------------------
(***************************************************************************)
(* The $-variables of the evaluator: one IndexedScopeTrailStorage<DynEntry>*)
(* shared by all contexts, the IndexedTrailView every context holds onto   *)
(* it, and the two projections DynValueView and DynExplicitView            *)
(* (scope_trail.hpp).                                                      *)
(*                                                                         *)
(* Unlike the views of plain variables these have no parentView_: nothing  *)
(* keeps the level of an enclosing scope alive.  A scope still sees its    *)
(* ancestors only because the evaluator lets go of contexts in an order    *)
(* that suits the trail (ctxChain, the trampoline's chain), or because the *)
(* context that goes first is nobody's parent (children()).                *)
(*                                                                         *)
(* dirty_ records one element per push of a level, and ScopeTrail checks   *)
(* the same bookkeeping; here a level's entries are erased together.       *)
(***************************************************************************)
EXTENDS CallFrames, TrailStorage, FiniteSets

CONSTANT Seed   (* the $-variables makeRoot sets                           *)

VARIABLES
  frames,   (* as in CallFrames                                            *)
  store,    (* the storage: [parent, stacks], as in TrailStorage           *)
  level     (* level_ of each view; 0 when nobody holds the view           *)

vars == << frames, store, level >>

-----------------------------------------------------------------------------
(* IndexedScopeTrailStorage *)

(* Mutant: pops the end of the stack, whoever owns it. *)
ErasedBlindly(stack, l) ==
  IF \E i \in DOMAIN stack : stack[i].level = l THEN Front(stack) ELSE stack

(* dirty_ has a record of a level for each of its entries, which is at     *)
(* most one of each name (StacksOrdered).                                  *)
Erased(stack, l) ==
  IF \E i \in 1 .. Len(stack) : LastOfLevel(stack, l, i)
  THEN EraseAt(stack, CHOOSE i \in 1 .. Len(stack) : LastOfLevel(stack, l, i))
  ELSE stack

(* markDead: the slots at the end that are dead go. *)
Shrunk(p, l) == MarkDead(p, l, CHOOSE k \in 0 .. Len(p) : ShrinksTo(p, l, k))

(* popLevel *)
Popped(st, l) ==
  [parent |-> Shrunk(st.parent, l),
   stacks |-> [n \in Names |-> Erased(st.stacks[n], l)]]

Opened(st, l) == [st EXCEPT !.parent = OpenLevel(@, l)]

(* lookupById, with the value and the flag of no entry. *)
Find(st, n, l) ==
  LET i == Lookup(st.parent, st.stacks[n], l)
  IN  IF i = 0 THEN DynEntry(Unset, FALSE) ELSE st.stacks[n][i].value

(* Mutant: the other field starts afresh. *)
ValueSetAfresh(st, n, x, l) ==
  [st EXCEPT !.stacks[n] = SetEntry(@, DynEntry(x, FALSE), l)]

(* DynValueView::set and DynExplicitView::set: the other field is the one  *)
(* visible so far.                                                         *)
ValueSet(st, n, x, l) ==
  [st EXCEPT !.stacks[n] = SetEntry(@, DynEntry(x, Find(st, n, l).explicitlySet), l)]
ExplicitSet(st, n, l) ==
  [st EXCEPT !.stacks[n] = SetEntry(@, DynEntry(Find(st, n, l).value, TRUE), l)]

-----------------------------------------------------------------------------
(* Steps of the evaluator.                                                 *)

Mine == level[Cur(frames).scope]
New(st) == Len(st.parent)

Init ==
  \E r \in Scopes :
    /\ frames = << Frame("root", EvalContext(r, NoCaller, "body"), {}) >>
    /\ level = [s \in Scopes |-> IF s = r THEN 1 ELSE 0]
    /\ store =
         [parent |-> << 0 >>,
          stacks |-> [n \in Names |->
                        IF Seed[n] = Unset THEN << >>
                        ELSE << Entry(DynEntry(Seed[n], FALSE), 1) >>]]

(* The frames become gs and s a scope that continues the current one;      *)
(* nobody lets go of a scope.                                              *)
Opens(gs, s, st) ==
  /\ frames' = gs
  /\ store' = st
  /\ level' = [level EXCEPT ![s] = New(st)]

(* callCtx / childCtx / callCtxFromCapturedLet and a parameter with a      *)
(* $-name: pushBracketedCallFrame, evalUserFunctionCore.                   *)
Call(s, n, x) ==
  LET st == Opened(store, Mine)
  IN  Room(frames) /\ Opens(Called(frames, s), s, ValueSet(st, n, x, New(st)))

(* buildModuleChildCtx *)
CallModule(s, x) ==
  LET st == Opened(store, Mine)
  IN  Room(frames) /\ Opens(ModuleCalled(frames, s), s, ValueSet(st, Children, x, New(st)))

(* evalFunctionBodyTrampoline, Op::CallFnTail, Op::CallDynamicTail *)
TailHop(s, n, x) ==
  LET st == Opened(store, Mine)
  IN  /\ Top(frames).kind = "function" /\ ChainRoom(frames)
      /\ Opens(Hopped(frames, s), s, ValueSet(st, n, x, New(st)))

(* letChildCtx, childCtx: let() and for() bodies, wrappers with a          *)
(* $-argument.                                                             *)
OpenScope(s) ==
  ChainRoom(frames) /\ Opens(Scoped(frames, s), s, Opened(store, Mine))

(* resolveCallArgs without a $-argument: ResolvedCallArgs{args, ctx}. *)
CopyContext ==
  /\ ChainRoom(frames)
  /\ frames' = Scoped(frames, Cur(frames).scope)
  /\ UNCHANGED << store, level >>

(* A context goes: its view is destroyed unless somebody else, of `kept`,  *)
(* holds it too.                                                           *)
LetGo(st, s, kept) == IF s \in kept THEN st ELSE Popped(st, level[s])

CloseScope ==
  /\ Cur(frames).kind = "scope"
  /\ frames' = ScopeClosed(frames)
  /\ store' = LetGo(store, Cur(frames).scope, Held(ScopeClosed(frames)))
  /\ level' = [s \in Scopes |-> IF s \in Held(ScopeClosed(frames)) THEN level[s] ELSE 0]

(* bindLetName, evalAssignment, Op::StoreDyn: value, then flag. *)
Assign(n, x) ==
  /\ store' = ExplicitSet(ValueSet(store, n, x, Mine), n, Mine)
  /\ UNCHANGED << frames, level >>

(* The stacks after evalCtx (level l) was given every value visible at lc. *)
Given(st, l, lc) ==
  [st EXCEPT !.stacks =
     [n \in Names |->
        IF n = Children \/ Find(st, n, lc).value = Unset THEN st.stacks[n]
        ELSE ValueSet(st, n, Find(st, n, lc).value, l).stacks[n]]]

(* resolveCallArgs, then prepareChildrenForward, then the block: compiled, *)
(* its frame outlives effCtx; interpreted, effCtx stays to its end.        *)
Forward(e, given, s, compiled) ==
  LET own == e = Cur(frames).scope
      st1 == IF own THEN store ELSE Opened(store, Mine)
      le == IF own THEN Mine ELSE New(st1)
      st2 == [st1 EXCEPT !.stacks =
                [n \in Names |-> IF n \in DOMAIN given
                                 THEN ValueSet(st1, n, given[n], le).stacks[n]
                                 ELSE st1.stacks[n]]]
      st3 == Opened(st2, level[At(frames, Cur(frames).caller).scope])
      gs == Forwarded(frames, s, e, compiled)
      st4 == Given(st3, New(st3), le)
  IN  /\ Cur(frames).caller # NoCaller /\ Room(frames)
      /\ frames' = gs
      /\ store' = IF own \/ ~compiled THEN st4 ELSE Popped(st4, le)
      /\ level' = [level EXCEPT ![s] = New(st3),
                                ![e] = IF own \/ ~compiled THEN le ELSE 0]

(* The frame on top returns or an exception takes it, and maybe the next   *)
(* one after it: it lets go of its chain back to front (after[i]: of the   *)
(* last i contexts), then of the context of the call.                      *)
Leave ==
  LET rest == Front(frames)
      chain == Top(frames).chain
      held == Top(frames).held
      kept(i) == Held(rest) \cup held \cup {chain[j].scope : j \in 1 .. (Len(chain) - i)}
      after[i \in 0 .. Len(chain)] ==
        IF i = 0 THEN store
        ELSE LetGo(after[i - 1], chain[Len(chain) + 1 - i].scope, kept(i))
      calls == held \ Held(rest)
  IN  /\ Len(frames) > 1
      /\ frames' = rest
      /\ store' = IF calls = {} THEN after[Len(chain)]
                  ELSE Popped(after[Len(chain)], level[CHOOSE e \in calls : TRUE])
      /\ level' = [s \in Scopes |-> IF s \in Held(rest) THEN level[s] ELSE 0]

Next ==
  \/ \E s \in Fresh(frames), x \in Values : \E n \in Names \ {Children} : Call(s, n, x)
  \/ \E s \in Fresh(frames), x \in Values : CallModule(s, x)
  \/ \E s \in Fresh(frames), x \in Values : \E n \in Names \ {Children} : TailHop(s, n, x)
  \/ \E s \in Fresh(frames) : OpenScope(s)
  \/ CopyContext
  \/ CloseScope
  \/ \E n \in Names \ {Children}, x \in Values : Assign(n, x)
  \/ \E s \in Fresh(frames), compiled \in BOOLEAN :
       \/ Forward(Cur(frames).scope, << >>, s, compiled)
       \/ \E e \in Fresh(frames) \ {s}, n \in Names \ {Children}, x \in Values :
            Forward(e, [m \in {n} |-> x], s, compiled)
  \/ Leave

Spec == Init /\ [][Next]_vars

-----------------------------------------------------------------------------
DynEntries == [value : Values \cup {Unset} \cup {Seed[n] : n \in Names},
               explicitlySet : BOOLEAN]
Entries == [value : DynEntries, level : Nat \ {0}]
Storages == [parent : Seq({Dead} \cup Nat), stacks : [Names -> Seq(Entries)]]
Contexts == [scope : Scopes, caller : [frame : Nat, at : Nat], kind : {"body", "scope"}]
Frames == [kind : {"root", "function", "module", "forward"},
           chain : Seq(Contexts), held : SUBSET Scopes]

TypeOK ==
  /\ frames \in Seq(Frames) /\ Len(frames) \in 1 .. MaxFrames
  /\ \A i \in 1 .. Len(frames) : Len(frames[i].chain) \in 1 .. MaxChain
  /\ level \in [Scopes -> Nat]
  /\ store \in Storages

(* Every scope a context reads from hangs under living scopes up to the    *)
(* root: no level of the chain was popped, although no view keeps its      *)
(* parent's level alive and exceptions, tail calls and children() let go   *)
(* of contexts in different orders (IndexedTrailView, scope_trail.hpp).    *)
Levels(lv, R) == {lv[s] : s \in R}
LiveLevels == Levels(level, Held(frames))
EnclosingScopesLive ==
  \A l \in LiveLevels : store.parent[l] \in LiveLevels \cup {0}

(* What IndexedScopeTrailStorage::lookup relies on and plain variables do  *)
(* not keep: whatever order scopes end in, the entries of a $-variable     *)
(* stand in the order of their levels, and belong to scopes still held.    *)
StacksOrdered ==
  \A n \in Names :
    /\ Ascending(store.stacks[n])
    /\ \A i \in DOMAIN store.stacks[n] : store.stacks[n][i].level \in LiveLevels

(* Reading a $-variable, its value and its "assigned by the script" flag   *)
(* alike, gives what a table copied at every scope opening would give: one *)
(* shared trail with combined entries implements dynamic scoping, through  *)
(* tail hops, forwarded children and exceptions.                           *)
table == [s \in Held(frames) |-> [n \in Names |-> Find(store, n, level[s])]]
Copies == INSTANCE DynamicScoping
ImplementsDynamicScoping == Copies!Spec

(* The trail is sound without parent links: what a reader needs is there,  *)
(* and where lookup expects it.                                            *)
TrailSound == EnclosingScopesLive /\ StacksOrdered

-----------------------------------------------------------------------------
(* The inductive invariant behind TrailSound (DynTrailProofs).             *)

(* A storage whose live levels are H: each continues an older one of them  *)
(* or none, the newest slot is live, every stack is in order and has       *)
(* entries of H only.                                                      *)
StorageOK(st, H) ==
  /\ st \in Storages
  /\ H \subseteq 1 .. Len(st.parent)
  /\ \A l \in 1 .. Len(st.parent) :
       IF l \in H THEN st.parent[l] \in H \cup {0} /\ st.parent[l] < l
                  ELSE st.parent[l] = Dead
  /\ Len(st.parent) \in H \cup {0}
  /\ \A n \in Names :
       /\ Ascending(st.stacks[n])
       /\ \A i \in 1 .. Len(st.stacks[n]) : st.stacks[n][i].level \in H

(* The scopes of the frames before fs[i]; and those held when its j-th     *)
(* context came.                                                           *)
Earlier(fs, i) == UNION {ScopesOf(fs[m]) : m \in 1 .. (i - 1)}
Before(fs, i, j) ==
  Earlier(fs, i) \cup fs[i].held \cup {fs[i].chain[m].scope : m \in 1 .. (j - 1)}

(* A scope goes after every scope it continues, whatever the order in      *)
(* which contexts are let go: a context continues one that came before it, *)
(* and has the newest level so far.                                        *)
Continues(p, lv, s, R) == p[lv[s]] \in {0} \cup Levels(lv, R)
ContextInOrder(fs, p, lv, i, j) ==
  /\ Continues(p, lv, fs[i].chain[j].scope, Before(fs, i, j))
  /\ \A r \in Before(fs, i, j) : lv[r] <= lv[fs[i].chain[j].scope]
HeldInOrder(fs, p, lv, i) ==
  /\ \A e, g \in fs[i].held : e = g
  /\ \A e \in fs[i].held : Continues(p, lv, e, Earlier(fs, i))
ScopesInOrder(fs, p, lv) ==
  \A i \in 1 .. Len(fs) :
    /\ HeldInOrder(fs, p, lv, i)
    /\ \A j \in 1 .. Len(fs[i].chain) : ContextInOrder(fs, p, lv, i, j)

(* The frames: childrenCallerCtx points into an earlier frame; the first   *)
(* context of a frame is no scope of its own.                              *)
CallerOK(fs, c, i) ==
  c = NoCaller \/ (c.frame \in 1 .. (i - 1) /\ c.at \in 1 .. Len(fs[c.frame].chain))
FramesOK(fs) ==
  \A i \in 1 .. Len(fs) :
    /\ fs[i].chain[1].kind = "body"
    /\ \A j \in 1 .. Len(fs[i].chain) : CallerOK(fs, fs[i].chain[j].caller, i)

(* Scopes that somebody holds have levels of their own.                    *)
LevelsOK(R, lv) == \A r, s \in R : lv[r] = lv[s] => r = s

TrailInv ==
  /\ TypeOK /\ FramesOK(frames) /\ LevelsOK(Held(frames), level)
  /\ ScopesInOrder(frames, store.parent, level)
  /\ StorageOK(store, LiveLevels)
=============================================================================
