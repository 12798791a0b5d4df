---------------------------- MODULE TrailStorage ----------------------------
(***************************************************************************)
(* The data structure of ScopeTrailStorage (scope_trail.hpp), as operators *)
(* on its three fields.  A trail keeps one stack of entries per name and   *)
(* never copies a scope: opening a scope hands out a level number, binding *)
(* a name pushes an entry tagged with the level, leaving the scope erases  *)
(* the entries of its level.                                               *)
(*                                                                         *)
(*   parent  the sequence parent_[1 .. nextLevel_]: the level each level   *)
(*           continues, 0 if it continues none, Dead once it was popped.   *)
(*           nextLevel_ is Len(parent); slot 0 is never read.              *)
(*   stack   the entries of one name, oldest push first.                   *)
(*                                                                         *)
(* The same operators describe IndexedScopeTrailStorage, the trail of      *)
(* $-variables: only the key of a stack differs.                           *)
(***************************************************************************)
EXTENDS Integers, Sequences

Dead == -1

Entry(v, l) == [value |-> v, level |-> l]

(* Slips used as mutants stand before the definition they replace.         *)

(* Continues whatever level is newest instead of the one asked for. *)
OpenAboveNewest(parent, continued) ==
  Append(parent, IF continued = 0 THEN 0 ELSE Len(parent))

(* openLevel: the new level's number is Len(parent) + 1. *)
OpenLevel(parent, continued) == Append(parent, continued)

(* set: a name already bound last at this level is overwritten in place,   *)
(* otherwise an entry is pushed (and recorded in dirty_ by the caller).    *)
BoundLast(stack, l) == stack # << >> /\ stack[Len(stack)].level = l

SetEntry(stack, v, l) ==
  IF BoundLast(stack, l) THEN [stack EXCEPT ![Len(stack)].value = v]
                         ELSE Append(stack, Entry(v, l))

(* Pops the end of the stack, whoever owns it. *)
EndOfStack(stack, l, i) == i = Len(stack) /\ i > 0

(* popLevel, one name: the entry to erase is the last one OF THIS LEVEL,   *)
(* wherever it stands in the stack.                                        *)
LastOfLevel(stack, l, i) ==
  /\ i \in 1 .. Len(stack)
  /\ stack[i].level = l
  /\ \A j \in (i + 1) .. Len(stack) : stack[j].level # l

EraseAt(stack, i) ==
  [j \in 1 .. (Len(stack) - 1) |-> IF j < i THEN stack[j] ELSE stack[j + 1]]

(* Buries nothing but the newest slot. *)
BuriedIfNewest(parent, l) ==
  IF l = Len(parent) THEN [parent EXCEPT ![l] = Dead] ELSE parent

(* Drops the newest slot whichever level was popped. *)
ShrinksAlways(parent, l, k) == k = Len(parent) - 1

(* Leaves dead slots behind at the end. *)
ShrinksByOne(parent, l, k) == k = IF l = Len(parent) THEN l - 1 ELSE Len(parent)

(* markDead: the slot reads Dead; when it was the newest, the vector       *)
(* shrinks to k, its newest live slot (0 if there is none).                *)
Buried(parent, l) == [parent EXCEPT ![l] = Dead]

ShrinksTo(parent, l, k) ==
  IF l = Len(parent)
  THEN /\ k \in 0 .. (l - 1)
       /\ k > 0 => parent[k] # Dead
       /\ \A m \in (k + 1) .. (l - 1) : parent[m] = Dead
  ELSE k = Len(parent)

MarkDead(parent, l, k) == SubSeq(Buried(parent, l), 1, k)

(* Takes any entry that is not newer than the reading level. *)
DynamicLookup(parent, stack, level) ==
  LET older == {i \in 1 .. Len(stack) : stack[i].level <= level}
  IN  IF older = {} THEN 0 ELSE CHOOSE i \in older : \A j \in older : j <= i

(* lookup: the merge of the stack (from its end) with the ancestry of the  *)
(* reading level.  The result is a position in the stack, 0 for nullptr.   *)
Lookup(parent, stack, level) ==
  LET walk[at \in ({Dead} \cup 0 .. Len(parent)) \X (0 .. Len(stack))] ==
        LET ancestor == at[1]
            i == at[2]
        IN  IF ancestor <= 0 \/ i = 0 THEN 0
            ELSE IF stack[i].level > ancestor THEN walk[<< ancestor, i - 1 >>]
            ELSE IF stack[i].level = ancestor THEN i
            ELSE walk[<< parent[ancestor], i >>]
  IN  walk[<< level, Len(stack) >>]

(* What lookup relies on: a name's pushes stand in the order of their      *)
(* levels.                                                                 *)
Ascending(stack) ==
  \A i, j \in 1 .. Len(stack) : i < j => stack[i].level < stack[j].level
=============================================================================
