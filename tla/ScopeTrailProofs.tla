-------------------------- MODULE ScopeTrailProofs --------------------------
(***************************************************************************)
(* Proofs about ScopeTrail for every number of names, views, levels,       *)
(* contexts and entries.                                                   *)
(***************************************************************************)
EXTENDS ScopeTrail, TrailStorageProofs, FiniteSetTheorems

-----------------------------------------------------------------------------
(* Lemmas about one name's stack.                                          *)

(* The positions of a level form a finite set.                             *)
LEMMA OfLevelFinite ==
  ASSUME NEW S, NEW s \in Seq(S), NEW l
  PROVE  /\ IsFiniteSet(OfLevel(s, l))
         /\ Cardinality(OfLevel(s, l)) \in Nat
<1>1. IsFiniteSet(1 .. Len(s))
  BY FS_Interval
<1>2. OfLevel(s, l) \subseteq 1 .. Len(s)
  BY DEF OfLevel
<1> QED
  BY <1>1, <1>2, FS_Subset, FS_CardinalityType

(* Erasing a position keeps the other entries, in their order.             *)
LEMMA EraseAtShape ==
  ASSUME NEW S, NEW s \in Seq(S), NEW i \in 1 .. Len(s)
  PROVE  /\ EraseAt(s, i) \in Seq(S)
         /\ Len(EraseAt(s, i)) = Len(s) - 1
         /\ \A j \in 1 .. (Len(s) - 1) :
              EraseAt(s, i)[j] = IF j < i THEN s[j] ELSE s[j + 1]
<1>1. \A j \in 1 .. (Len(s) - 1) : s[j] \in S /\ s[j + 1] \in S
  OBVIOUS
<1> QED
  BY <1>1 DEF EraseAt

(* Popping one entry of level l leaves one fewer of that level and as many *)
(* of every other level: the arithmetic behind dirty_.                     *)
LEMMA EraseAtCounts ==
  ASSUME NEW s \in Seq(Entries), NEW i \in 1 .. Len(s), NEW l \in Levels
  PROVE  Cardinality(OfLevel(EraseAt(s, i), l)) =
           IF s[i].level = l THEN Cardinality(OfLevel(s, l)) - 1
                             ELSE Cardinality(OfLevel(s, l))
<1> DEFINE e == EraseAt(s, i)
           A == OfLevel(e, l)
           B == OfLevel(s, l) \ {i}
           f == [j \in A |-> IF j < i THEN j ELSE j + 1]
<1>1. /\ Len(e) = Len(s) - 1
      /\ \A j \in 1 .. Len(e) : e[j] = IF j < i THEN s[j] ELSE s[j + 1]
  BY EraseAtShape
<1>2. f \in [A -> B]
  BY <1>1 DEF OfLevel
<1>3. \A a, b \in A : f[a] = f[b] => a = b
  BY <1>1 DEF OfLevel
<1>4. \A b \in B : \E a \in A : f[a] = b
  <2> TAKE b \in B
  <2>1. CASE b < i
    <3>1. b \in A /\ f[b] = b
      BY <1>1, <2>1 DEF OfLevel
    <3> QED
      BY <3>1
  <2>2. CASE b > i
    <3>1. (b - 1) \in A /\ f[b - 1] = b
      BY <1>1, <2>2 DEF OfLevel
    <3> QED
      BY <3>1
  <2> QED
    BY <2>1, <2>2 DEF OfLevel
<1>5. f \in Bijection(A, B)
  BY <1>2, <1>3, <1>4 DEF Bijection, Injection, Surjection, IsInjective
<1>6. IsFiniteSet(A) /\ IsFiniteSet(OfLevel(s, l)) /\ e \in Seq(Entries)
  BY OfLevelFinite, EraseAtShape
<1>7. Cardinality(A) = Cardinality(B)
  <2>1. ExistsBijection(A, B)
    BY <1>5 DEF ExistsBijection
  <2> QED
    BY <2>1, <1>6, FS_Bijection
<1>8. Cardinality(B) = IF i \in OfLevel(s, l) THEN Cardinality(OfLevel(s, l)) - 1
                                              ELSE Cardinality(OfLevel(s, l))
  BY <1>6, FS_RemoveElement
<1>9. i \in OfLevel(s, l) <=> s[i].level = l
  BY DEF OfLevel
<1> QED
  BY <1>7, <1>8, <1>9

(* What set does to a stack: shape.                                        *)
LEMMA SetEntryShape ==
  ASSUME NEW s \in Seq(Entries), NEW v \in Values, NEW l \in Levels
  PROVE  /\ SetEntry(s, v, l) \in Seq(Entries)
         /\ BoundLast(s, l) =>
              /\ Len(SetEntry(s, v, l)) = Len(s)
              /\ \A j \in 1 .. Len(s) : SetEntry(s, v, l)[j].level = s[j].level
              /\ \A j \in 1 .. Len(s) : SetEntry(s, v, l)[j].value \in {s[j].value, v}
         /\ ~BoundLast(s, l) =>
              /\ Len(SetEntry(s, v, l)) = Len(s) + 1
              /\ \A j \in 1 .. Len(s) : SetEntry(s, v, l)[j] = s[j]
              /\ SetEntry(s, v, l)[Len(s) + 1] = Entry(v, l)
<1>1. Entry(v, l) \in Entries
  BY DEF Entry, Entries
<1>2. CASE BoundLast(s, l)
  <2> DEFINE k == Len(s)
             t == [s EXCEPT ![k].value = v]
  <2>1. k \in 1 .. Len(s) /\ s # << >>
    BY <1>2 DEF BoundLast
  <2>2. \A j \in 1 .. k : s[j] \in Entries
    OBVIOUS
  <2>3. t = [j \in 1 .. k |-> IF j = k THEN [s[k] EXCEPT !.value = v] ELSE s[j]]
    BY <2>1
  <2>4. [s[k] EXCEPT !.value = v] = [value |-> v, level |-> s[k].level]
    BY <2>1, <2>2 DEF Entries
  <2>5. \A j \in 1 .. k : t[j] \in Entries
    BY <2>1, <2>2, <2>3, <2>4 DEF Entries
  <2>7. SetEntry(s, v, l) = t
    BY <1>2 DEF SetEntry
  <2> HIDE DEF t
  <2>6. t \in Seq(Entries) /\ Len(t) = k
    <3>1. t \in [1 .. k -> Entries]
      BY <2>3, <2>5
    <3>2. k \in Nat
      OBVIOUS
    <3> HIDE DEF k
    <3> QED
      BY <3>1, <3>2
  <2>8. \A j \in 1 .. k : t[j].level = s[j].level /\ t[j].value \in {s[j].value, v}
    BY <2>1, <2>3, <2>4
  <2> QED
    BY <1>2, <2>6, <2>7, <2>8
<1>3. CASE ~BoundLast(s, l)
  <2>1. SetEntry(s, v, l) = Append(s, Entry(v, l))
    BY <1>3 DEF SetEntry
  <2> QED
    BY <1>1, <1>3, <2>1
<1> QED
  BY <1>2, <1>3

(* set keeps every entry where it is; a push adds one at the end.         *)
LEMMA SetEntryGrows ==
  ASSUME NEW s \in Seq(Entries), NEW v \in Values, NEW l \in Levels
  PROVE  /\ Len(SetEntry(s, v, l)) >= Len(s)
         /\ \A j \in 1 .. Len(s) : SetEntry(s, v, l)[j].level = s[j].level
<1> DEFINE t == SetEntry(s, v, l)
<1>1. Len(s) \in Nat
  OBVIOUS
<1>2. BoundLast(s, l) => Len(t) = Len(s) /\ \A j \in 1 .. Len(s) : t[j].level = s[j].level
  BY SetEntryShape
<1>3. ~BoundLast(s, l) => Len(t) = Len(s) + 1 /\ \A j \in 1 .. Len(s) : t[j] = s[j]
  BY SetEntryShape
<1> HIDE DEF t
<1>4. Len(t) >= Len(s) /\ \A j \in 1 .. Len(s) : t[j].level = s[j].level
  BY <1>1, <1>2, <1>3
<1> QED
  BY <1>4 DEF t

(* What set does to a stack: one more entry of the level exactly when      *)
(* dirty_ records one more.                                                *)
LEMMA SetEntryCounts ==
  ASSUME NEW s \in Seq(Entries), NEW v \in Values, NEW l \in Levels, NEW m \in Levels
  PROVE  Cardinality(OfLevel(SetEntry(s, v, l), m)) =
           IF m = l /\ ~BoundLast(s, l) THEN Cardinality(OfLevel(s, m)) + 1
                                        ELSE Cardinality(OfLevel(s, m))
<1> DEFINE t == SetEntry(s, v, l)
<1>1. CASE BoundLast(s, l)
  <2>1. OfLevel(t, m) = OfLevel(s, m)
    BY <1>1, SetEntryShape DEF OfLevel
  <2> QED
    BY <2>1, <1>1
<1>2. CASE ~BoundLast(s, l)
  <2>1. /\ Len(t) = Len(s) + 1
        /\ \A j \in 1 .. Len(s) : t[j] = s[j]
        /\ t[Len(s) + 1].level = l
    <3>1. /\ Len(t) = Len(s) + 1
          /\ \A j \in 1 .. Len(s) : t[j] = s[j]
          /\ t[Len(s) + 1] = Entry(v, l)
      BY <1>2, SetEntryShape
    <3> HIDE DEF t
    <3> QED
      BY <3>1 DEF Entry
  <2>2. OfLevel(t, m) = IF m = l THEN OfLevel(s, m) \cup {Len(s) + 1} ELSE OfLevel(s, m)
    BY <2>1 DEF OfLevel
  <2>3. Len(s) + 1 \notin OfLevel(s, m)
    BY DEF OfLevel
  <2> QED
    BY <1>2, <2>2, <2>3, OfLevelFinite, FS_AddElement
<1> QED
  BY <1>1, <1>2

-----------------------------------------------------------------------------
(* The invariant in three parts: the level slots and their views, the      *)
(* entries, and the holders of views.                                      *)

LevelInv ==
  /\ parent \in Seq({Dead} \cup 0 .. MaxLevel)
  /\ Len(parent) <= MaxLevel
  /\ level \in [Views -> 0 .. MaxLevel]
  /\ up \in [Views -> Views \cup {NoView}]
  /\ LevelsDistinct
  /\ AncestryIntact
  /\ AncestorsLive
  /\ SlotsMatchViews
  /\ SlotsTight

EntryInv ==
  /\ stacks \in [Names -> Seq(Entries)]
  /\ dirty \in [Levels -> [Names -> Nat]]
  /\ EntriesOfLiveLevels
  /\ DirtyExact

HolderInv ==
  /\ frames \in Seq([kind : {"ctx", "default"}, view : Views])
  /\ frames # << >> /\ frames[1].kind = "ctx"
  /\ acc \in Values
  /\ HoldersLive

(* The inductive invariant in three parts, by the variables they speak of. *)
LEMMA InvParts ==
  /\ IInv <=> LevelInv /\ EntryInv /\ HolderInv
  /\ IInv' <=> LevelInv' /\ EntryInv' /\ HolderInv'
BY DEF IInv, TypeOK, LevelInv, EntryInv, HolderInv

(* The parts speak of the variables they name only.                        *)
LEMMA LevelsUntouched ==
  ASSUME LevelInv, UNCHANGED << parent, level, up >>
  PROVE  LevelInv' /\ Live' = Live
<1>1. Live' = Live
  BY DEF Live
<1>2. LevelsDistinct' /\ AncestryIntact' /\ AncestorsLive'
  BY <1>1 DEF LevelInv, LevelsDistinct, AncestryIntact, AncestorsLive
<1>3. SlotsMatchViews' /\ SlotsTight'
  BY <1>1 DEF LevelInv, SlotsMatchViews, SlotsTight
<1> QED
  BY <1>1, <1>2, <1>3 DEF LevelInv

(* A step that leaves entries, levels and dirty_ alone keeps their part.   *)
LEMMA EntriesUntouched ==
  ASSUME EntryInv, UNCHANGED << stacks, dirty, level >>
  PROVE  EntryInv'
<1>1. EntriesOfLiveLevels'
  BY DEF EntryInv, EntriesOfLiveLevels, Live
<1>2. DirtyExact'
  BY DEF EntryInv, DirtyExact
<1> QED
  BY <1>1, <1>2 DEF EntryInv

(* Opening a level above all slots in use, with or without a dead slot in  *)
(* between, keeps the level structure and disturbs no live view.           *)
LEMMA OpenKeepsLevels ==
  ASSUME LevelInv,
         NEW v \in Views \ Live, NEW from \in Live \cup {NoView},
         NEW before \in {parent, Append(parent, Dead)},
         Len(before) < MaxLevel,
         parent' = OpenLevel(before, IF from = NoView THEN 0 ELSE level[from]),
         level' = [level EXCEPT ![v] = Len(before) + 1],
         up' = [up EXCEPT ![v] = from]
  PROVE  /\ LevelInv'
         /\ Live' = Live \cup {v}
         /\ level'[v] \in Levels /\ level'[v] > Len(parent)
         /\ \A w \in Live : level'[w] = level[w]
<1> DEFINE p == IF from = NoView THEN 0 ELSE level[from]
<1> USE DEF Live
<1>1. /\ before \in Seq({Dead} \cup 0 .. MaxLevel)
      /\ Len(before) \in Nat
      /\ Len(parent) \in Nat /\ Len(parent) <= Len(before)
      /\ \A l \in 1 .. Len(parent) : before[l] = parent[l]
      /\ \A l \in (Len(parent) + 1) .. Len(before) : before[l] = Dead
  <2>1. parent \in Seq({Dead} \cup 0 .. MaxLevel)
    BY DEF LevelInv
  <2>2. CASE before = parent
    BY <2>1, <2>2
  <2>3. CASE before = Append(parent, Dead)
    BY <2>1, <2>3
  <2> QED
    BY <2>2, <2>3
<1>2. p \in 0 .. MaxLevel
  BY DistinctAssumption DEF LevelInv
<1>3. /\ parent' \in Seq({Dead} \cup 0 .. MaxLevel)
      /\ Len(parent') = Len(before) + 1
      /\ Len(parent') <= MaxLevel
      /\ \A l \in 1 .. Len(before) : parent'[l] = before[l]
      /\ parent'[Len(before) + 1] = p
  BY <1>1, <1>2, BoundsAssumption DEF OpenLevel
<1>4. /\ level' \in [Views -> 0 .. MaxLevel]
      /\ up' \in [Views -> Views \cup {NoView}]
      /\ level'[v] = Len(before) + 1 /\ up'[v] = from
      /\ \A w \in Views : w # v => level'[w] = level[w] /\ up'[w] = up[w]
  BY <1>1, BoundsAssumption DEF LevelInv
<1>5. Live' = Live \cup {v}
  BY <1>1, <1>4
<1>6. \A w \in Live : level[w] \in 1 .. Len(parent) /\ w # v
  BY DEF LevelInv, SlotsMatchViews
<1>7. LevelsDistinct'
  BY <1>1, <1>4, <1>5, <1>6 DEF LevelInv, LevelsDistinct
<1>8. AncestorsLive'
  BY <1>1, <1>4, <1>5, <1>6, DistinctAssumption DEF LevelInv, AncestorsLive
<1>9. AncestryIntact'
  <2> SUFFICES ASSUME NEW w \in Live'
               PROVE  parent'[level'[w]] = IF up'[w] = NoView THEN 0 ELSE level'[up'[w]]
    BY DEF AncestryIntact
  <2>1. CASE w = v
    BY <2>1, <1>3, <1>4, <1>6
  <2>2. CASE w # v
    <3>1. w \in Live /\ level'[w] = level[w] /\ up'[w] = up[w]
      BY <2>2, <1>4, <1>5
    <3>2. parent[level[w]] = IF up[w] = NoView THEN 0 ELSE level[up[w]]
      BY <3>1 DEF LevelInv, AncestryIntact
    <3>3. up[w] # NoView => level'[up[w]] = level[up[w]]
      BY <3>1, <1>4, <1>6 DEF LevelInv, AncestorsLive
    <3> QED
      BY <3>1, <3>2, <3>3, <1>1, <1>3, <1>6
  <2> QED
    BY <2>1, <2>2
<1>10. SlotsMatchViews'
  <2>1. \A w \in Live' : level'[w] <= Len(parent')
    BY <1>1, <1>3, <1>4, <1>5, <1>6
  <2>2. ASSUME NEW l \in 1 .. Len(parent'), parent'[l] # Dead
        PROVE  \E w \in Live' : level'[w] = l
    <3>1. CASE l = Len(before) + 1
      BY <3>1, <1>4, <1>5
    <3>2. CASE l # Len(before) + 1
      <4>1. l \in 1 .. Len(parent) /\ parent[l] # Dead
        BY <3>2, <2>2, <1>1, <1>3
      <4>2. PICK w \in Live : level[w] = l
        BY <4>1 DEF LevelInv, SlotsMatchViews
      <4> QED
        BY <4>2, <1>4, <1>5, <1>6
    <3> QED
      BY <3>1, <3>2
  <2> QED
    BY <2>1, <2>2 DEF SlotsMatchViews
<1>11. SlotsTight'
  BY <1>1, <1>3, <1>4, <1>5 DEF SlotsTight
<1> QED
  BY <1>1, <1>3, <1>4, <1>5, <1>6, <1>7, <1>8, <1>9, <1>10, <1>11 DEF LevelInv, Levels

(* ~TrailView of a view nobody holds: its slot dies, the vector shrinks to *)
(* its newest live slot, and no other live view is disturbed.              *)
LEMMA PopKeepsLevels ==
  ASSUME LevelInv, HolderInv,
         NEW v \in Views, Garbage(v),
         NEW k \in 0 .. Len(parent),
         ShrinksTo(parent, level[v], k),
         parent' = MarkDead(parent, level[v], k),
         level' = [level EXCEPT ![v] = 0],
         up' = [up EXCEPT ![v] = NoView]
  PROVE  /\ LevelInv'
         /\ Live' = Live \ {v}
         /\ \A w \in Live : w # v => level'[w] = level[w]
<1> DEFINE l == level[v]
           n == Len(parent)
<1>1. /\ parent \in Seq({Dead} \cup 0 .. MaxLevel)
      /\ n \in Nat /\ n <= MaxLevel
      /\ level \in [Views -> 0 .. MaxLevel]
      /\ up \in [Views -> Views \cup {NoView}]
  BY DEF LevelInv
<1>2. v \in Live /\ l \in 1 .. n
  BY DEF Garbage, LevelInv, SlotsMatchViews, Live
<1>3. \A w \in Live : w # v => level[w] \in 1 .. n /\ level[w] # l
  BY <1>2 DEF LevelInv, SlotsMatchViews, LevelsDistinct, Live
<1>4. \A w \in Live : parent[level[w]] # Dead
  BY <1>1 DEF LevelInv, AncestryIntact, AncestorsLive, Live, Dead
<1>5. \A w \in Live : w # v => level[w] <= k
  BY <1>1, <1>2, <1>3, <1>4 DEF ShrinksTo
<1>6. /\ parent' \in Seq({Dead} \cup 0 .. MaxLevel)
      /\ Len(parent') = k
      /\ \A m \in 1 .. k : parent'[m] = IF m = l THEN Dead ELSE parent[m]
  <2>1. /\ Buried(parent, l) \in Seq({Dead} \cup 0 .. MaxLevel)
        /\ Len(Buried(parent, l)) = n
        /\ \A m \in 1 .. n : Buried(parent, l)[m] = IF m = l THEN Dead ELSE parent[m]
    BY <1>1, <1>2 DEF Buried
  <2> QED
    BY <2>1, <1>1 DEF MarkDead
<1>7. /\ level' \in [Views -> 0 .. MaxLevel]
      /\ up' \in [Views -> Views \cup {NoView}]
      /\ Live' = Live \ {v}
      /\ \A w \in Views : w # v => level'[w] = level[w] /\ up'[w] = up[w]
  BY <1>1, BoundsAssumption DEF Live
<1>8. \A w \in Live : up[w] # v
  BY DEF Garbage, Owned, HeldByChild
<1>9. LevelsDistinct'
  BY <1>7 DEF LevelInv, LevelsDistinct
<1>10. AncestorsLive'
  BY <1>7, <1>8 DEF LevelInv, AncestorsLive, Live
<1>11. AncestryIntact'
  <2> SUFFICES ASSUME NEW w \in Live'
               PROVE  parent'[level'[w]] = IF up'[w] = NoView THEN 0 ELSE level'[up'[w]]
    BY DEF AncestryIntact
  <2>1. w \in Live /\ w # v /\ level'[w] = level[w] /\ up'[w] = up[w]
    BY <1>7 DEF Live
  <2>2. parent[level[w]] = IF up[w] = NoView THEN 0 ELSE level[up[w]]
    BY <2>1 DEF LevelInv, AncestryIntact
  <2>3. parent'[level[w]] = parent[level[w]]
    BY <2>1, <1>3, <1>5, <1>6
  <2>4. up[w] # NoView => level'[up[w]] = level[up[w]]
    BY <2>1, <1>7, <1>8 DEF LevelInv, AncestorsLive, Live
  <2> QED
    BY <2>1, <2>2, <2>3, <2>4
<1>12. SlotsMatchViews'
  <2>1. \A w \in Live' : level'[w] <= Len(parent')
    BY <1>5, <1>6, <1>7 DEF Live
  <2>2. ASSUME NEW m \in 1 .. Len(parent'), parent'[m] # Dead
        PROVE  \E w \in Live' : level'[w] = m
    <3>1. m \in 1 .. n /\ m # l /\ parent[m] # Dead
      BY <2>2, <1>1, <1>6
    <3>2. PICK w \in Live : level[w] = m
      BY <3>1 DEF LevelInv, SlotsMatchViews
    <3> QED
      BY <3>1, <3>2, <1>7 DEF Live
  <2> QED
    BY <2>1, <2>2 DEF SlotsMatchViews
<1>13. SlotsTight'
  <2>1. PICK r \in Live : r # v
    BY DEF HolderInv, HoldersLive, Garbage, Owned, HeldByContext
  <2>2. k > 0
    BY <2>1, <1>3, <1>5
  <2>3. parent'[k] # Dead
    <3>1. CASE l = n
      BY <3>1, <2>2, <1>1, <1>6 DEF ShrinksTo
    <3>2. CASE l # n
      <4>1. k = n
        BY <3>2 DEF ShrinksTo
      <4>2. parent[n] # Dead
        BY <1>4 DEF LevelInv, SlotsTight
      <4> QED
        BY <4>1, <4>2, <3>2, <2>2, <1>6
    <3> QED
      BY <3>1, <3>2
  <2>4. \E w \in Live' : level'[w] = k
    BY <2>2, <2>3, <1>6, <1>12 DEF SlotsMatchViews
  <2> QED
    BY <2>2, <2>4, <1>6 DEF SlotsTight
<1>14. \A w \in Live : w # v => level'[w] = level[w]
  BY <1>7 DEF Live
<1>15. Len(parent') <= MaxLevel
  BY <1>1, <1>6, BoundsAssumption
<1> HIDE DEF l, n
<1>16. LevelInv'
  BY ONLY <1>6, <1>7, <1>9, <1>10, <1>11, <1>12, <1>13, <1>15 DEF LevelInv
<1> QED
  BY <1>7, <1>14, <1>16

-----------------------------------------------------------------------------
(* Entries *)

(* Opening a view leaves every entry at the level of a live view.          *)
LEMMA OpenKeepsEntries ==
  ASSUME EntryInv, UNCHANGED << stacks, dirty >>,
         \A w \in Live : w \in Live' /\ level'[w] = level[w]
  PROVE  EntryInv'
<1>1. EntriesOfLiveLevels'
  BY DEF EntryInv, EntriesOfLiveLevels
<1>2. DirtyExact'
  BY DEF EntryInv, DirtyExact
<1> QED
  BY <1>1, <1>2 DEF EntryInv

(* set, seen from the invariant.                                           *)
LEMMA SetKeepsEntries ==
  ASSUME LevelInv, EntryInv,
         NEW n \in Names, NEW val \in Values, NEW v \in Live,
         Set(n, val, v), UNCHANGED level
  PROVE  /\ EntryInv'
         /\ \A m \in Names : \A i \in 1 .. Len(stacks'[m]) :
              \/ stacks'[m][i].value = val
              \/ \E j \in 1 .. Len(stacks[m]) : stacks'[m][i].value = stacks[m][j].value
<1> DEFINE l == level[v]
           s == stacks[n]
           t == SetEntry(s, val, l)
<1>1. l \in Levels /\ s \in Seq(Entries)
  BY DEF LevelInv, EntryInv, Live, Levels
<1>2. /\ t \in Seq(Entries)
      /\ BoundLast(s, l) =>
           /\ Len(t) = Len(s)
           /\ \A j \in 1 .. Len(s) : t[j].level = s[j].level
           /\ \A j \in 1 .. Len(s) : t[j].value \in {s[j].value, val}
      /\ ~BoundLast(s, l) =>
           /\ Len(t) = Len(s) + 1
           /\ \A j \in 1 .. Len(s) : t[j] = s[j]
           /\ t[Len(s) + 1] = Entry(val, l)
  BY <1>1, SetEntryShape
<1>3. \A m \in Levels :
        Cardinality(OfLevel(t, m)) =
          IF m = l /\ ~BoundLast(s, l) THEN Cardinality(OfLevel(s, m)) + 1
                                       ELSE Cardinality(OfLevel(s, m))
  BY <1>1, SetEntryCounts
<1>4. /\ stacks' \in [Names -> Seq(Entries)]
      /\ stacks'[n] = t
      /\ \A m \in Names : m # n => stacks'[m] = stacks[m]
  BY <1>2 DEF Set, EntryInv
<1>5. /\ dirty' \in [Levels -> [Names -> Nat]]
      /\ \A j \in Levels, m \in Names :
           dirty'[j][m] = IF m = n /\ j = l /\ ~BoundLast(s, l) THEN dirty[j][m] + 1
                                                                ELSE dirty[j][m]
  <2>1. dirty \in [Levels -> [Names -> Nat]]
    BY DEF EntryInv
  <2>2. dirty' = IF BoundLast(s, l) THEN dirty ELSE [dirty EXCEPT ![l][n] = @ + 1]
    BY DEF Set
  <2> HIDE DEF s, l
  <2>3. CASE BoundLast(s, l)
    BY <2>1, <2>2, <2>3
  <2>4. CASE ~BoundLast(s, l)
    BY <1>1, <2>1, <2>2, <2>4
  <2> QED
    BY <2>3, <2>4
<1> HIDE DEF t
<1>6. \A j \in 1 .. Len(t) : t[j].level = l \/ \E i \in 1 .. Len(s) : t[j].level = s[i].level
  BY <1>1, <1>2 DEF Entry
<1>7. \A j \in 1 .. Len(t) : t[j].value = val \/ \E i \in 1 .. Len(s) : t[j].value = s[i].value
  BY <1>1, <1>2 DEF Entry
<1>8. EntriesOfLiveLevels'
  <2> SUFFICES ASSUME NEW m \in Names, NEW i \in 1 .. Len(stacks'[m])
               PROVE  \E w \in Live : level[w] = stacks'[m][i].level
    BY DEF EntriesOfLiveLevels, Live
  <2>1. CASE m = n
    <3>1. stacks'[m] = t /\ v \in Live /\ level[v] = l
      BY <1>4, <2>1
    <3>2. \A j \in 1 .. Len(s) : \E w \in Live : level[w] = s[j].level
      BY DEF EntryInv, EntriesOfLiveLevels
    <3> HIDE DEF s, l
    <3> QED
      BY <1>6, <3>1, <3>2
  <2>2. CASE m # n
    BY <2>2, <1>4 DEF EntryInv, EntriesOfLiveLevels
  <2> QED
    BY <2>1, <2>2
<1>9. DirtyExact'
  <2> SUFFICES ASSUME NEW j \in Levels, NEW m \in Names
               PROVE  dirty'[j][m] = Cardinality(OfLevel(stacks'[m], j))
    BY DEF DirtyExact
  <2>1. dirty[j][m] = Cardinality(OfLevel(stacks[m], j))
    BY DEF EntryInv, DirtyExact
  <2>2. CASE m = n
    BY <2>1, <2>2, <1>3, <1>4, <1>5
  <2>3. CASE m # n
    BY <2>1, <2>3, <1>4, <1>5
  <2> QED
    BY <2>2, <2>3
<1>10. \A m \in Names : \A i \in 1 .. Len(stacks'[m]) :
         \/ stacks'[m][i].value = val
         \/ \E j \in 1 .. Len(stacks[m]) : stacks'[m][i].value = stacks[m][j].value
  <2> TAKE m \in Names
  <2>1. CASE m = n
    BY <2>1, <1>4, <1>7
  <2>2. CASE m # n
    BY <2>2, <1>4
  <2> QED
    BY <2>1, <2>2
<1> QED
  BY <1>4, <1>5, <1>8, <1>9, <1>10 DEF EntryInv

(* One round of popLevel's loop.                                           *)
LEMMA PopEntryKeepsEntries ==
  ASSUME LevelInv, EntryInv,
         NEW n \in Names, NEW v \in Live, NEW i \in 1 .. Len(stacks[n]),
         LastOfLevel(stacks[n], level[v], i),
         stacks' = [stacks EXCEPT ![n] = EraseAt(@, i)],
         dirty[level[v]][n] > 0,
         dirty' = [dirty EXCEPT ![level[v]][n] = @ - 1],
         UNCHANGED level
  PROVE  /\ EntryInv'
         /\ \A m \in Names : \A j \in 1 .. Len(stacks'[m]) :
              \E h \in 1 .. Len(stacks[m]) : stacks'[m][j] = stacks[m][h]
<1> DEFINE l == level[v]
           s == stacks[n]
           t == EraseAt(s, i)
<1>1. l \in Levels /\ s \in Seq(Entries) /\ s[i].level = l
  BY DEF LevelInv, EntryInv, Live, Levels, LastOfLevel
<1>2. /\ t \in Seq(Entries)
      /\ Len(t) = Len(s) - 1
      /\ \A j \in 1 .. (Len(s) - 1) : t[j] = IF j < i THEN s[j] ELSE s[j + 1]
  BY <1>1, EraseAtShape
<1>3. \A m \in Levels :
        Cardinality(OfLevel(t, m)) =
          IF m = l THEN Cardinality(OfLevel(s, m)) - 1 ELSE Cardinality(OfLevel(s, m))
  BY <1>1, EraseAtCounts
<1>4. /\ stacks' \in [Names -> Seq(Entries)]
      /\ stacks'[n] = t
      /\ \A m \in Names : m # n => stacks'[m] = stacks[m]
  BY <1>2 DEF EntryInv
<1>5. /\ dirty' \in [Levels -> [Names -> Nat]]
      /\ \A j \in Levels, m \in Names :
           dirty'[j][m] = IF m = n /\ j = l THEN dirty[j][m] - 1 ELSE dirty[j][m]
  BY <1>1 DEF EntryInv
<1> HIDE DEF t
<1>6. \A m \in Names : \A j \in 1 .. Len(stacks'[m]) :
        \E h \in 1 .. Len(stacks[m]) : stacks'[m][j] = stacks[m][h]
  <2> TAKE m \in Names
  <2> TAKE j \in 1 .. Len(stacks'[m])
  <2>1. CASE m = n
    <3> PICK k \in Nat : k = Len(s)
      BY <1>1
    <3>1. j \in 1 .. (k - 1) /\ stacks'[m][j] = t[j]
      BY <2>1, <1>2, <1>4
    <3>2. j \in 1 .. k /\ j + 1 \in 1 .. k
      BY <3>1
    <3>3. t[j] = s[j] \/ t[j] = s[j + 1]
      BY <3>1, <1>2
    <3> QED
      BY <2>1, <3>1, <3>2, <3>3
  <2>2. CASE m # n
    BY <2>2, <1>4
  <2> QED
    BY <2>1, <2>2
<1>7. EntriesOfLiveLevels'
  <2> SUFFICES ASSUME NEW m \in Names, NEW j \in 1 .. Len(stacks'[m])
               PROVE  \E w \in Live : level[w] = stacks'[m][j].level
    BY DEF EntriesOfLiveLevels, Live
  <2>1. PICK h \in 1 .. Len(stacks[m]) : stacks'[m][j] = stacks[m][h]
    BY <1>6
  <2> QED
    BY <2>1 DEF EntryInv, EntriesOfLiveLevels
<1>8. DirtyExact'
  <2> SUFFICES ASSUME NEW j \in Levels, NEW m \in Names
               PROVE  dirty'[j][m] = Cardinality(OfLevel(stacks'[m], j))
    BY DEF DirtyExact
  <2>1. dirty[j][m] = Cardinality(OfLevel(stacks[m], j))
    BY DEF EntryInv, DirtyExact
  <2>2. CASE m = n
    BY <2>1, <2>2, <1>3, <1>4, <1>5
  <2>3. CASE m # n
    BY <2>1, <2>3, <1>4, <1>5
  <2> QED
    BY <2>2, <2>3
<1> QED
  BY <1>4, <1>5, <1>6, <1>7, <1>8 DEF EntryInv

(* markDead comes when the level has no entry left.                        *)
LEMMA PopDoneKeepsEntries ==
  ASSUME LevelInv, EntryInv, NEW v \in Live,
         dirty[level[v]] = NoDirt,
         UNCHANGED << stacks, dirty >>,
         Live' = Live \ {v},
         \A w \in Live : w # v => level'[w] = level[w]
  PROVE  EntryInv'
<1>1. level[v] \in Levels
  BY DEF LevelInv, Live, Levels
<1>2. \A n \in Names : OfLevel(stacks[n], level[v]) = {}
  <2> TAKE n \in Names
  <2>1. Cardinality(OfLevel(stacks[n], level[v])) = 0
    BY <1>1 DEF EntryInv, DirtyExact, NoDirt
  <2>2. IsFiniteSet(OfLevel(stacks[n], level[v]))
    BY OfLevelFinite DEF EntryInv
  <2> QED
    BY <2>1, <2>2, FS_EmptySet
<1>3. EntriesOfLiveLevels'
  <2> SUFFICES ASSUME NEW n \in Names, NEW i \in 1 .. Len(stacks[n])
               PROVE  \E w \in Live' : level'[w] = stacks[n][i].level
    BY DEF EntriesOfLiveLevels
  <2>1. PICK w \in Live : level[w] = stacks[n][i].level
    BY DEF EntryInv, EntriesOfLiveLevels
  <2>2. w # v
    BY <2>1, <1>2 DEF OfLevel
  <2> QED
    BY <2>1, <2>2
<1>4. DirtyExact'
  BY DEF EntryInv, DirtyExact
<1> QED
  BY <1>3, <1>4 DEF EntryInv

-----------------------------------------------------------------------------
(* Holders *)

(* The view of every context is live, and there is a current one.          *)
LEMMA CurLive ==
  ASSUME HolderInv
  PROVE  /\ Top \in Nat /\ Top >= 1
         /\ Cur \in Live /\ Cur \in Views
         /\ \A i \in 1 .. Top : frames[i].view \in Live
BY DEF HolderInv, HoldersLive, Top, Cur, Live

(* A lookup yields a value, and a closure it yields is alive.              *)
LEMMA FindLive ==
  ASSUME EntryInv, HolderInv, NEW n \in Names, NEW v
  PROVE  Find(n, v) \in Values /\ (Find(n, v) \in Views => Find(n, v) \in Live)
<1> DEFINE i == Lookup(parent, stacks[n], level[v])
<1> HIDE DEF i
<1>1. Find(n, v) = IF i \in 1 .. Len(stacks[n]) THEN stacks[n][i].value ELSE Undef
  BY DEF Find, i
<1>2. CASE i \in 1 .. Len(stacks[n])
  <2>1. stacks[n][i] \in Entries
    BY <1>2 DEF EntryInv
  <2> QED
    BY <1>1, <1>2, <2>1 DEF Entries, HolderInv, HoldersLive
<1>3. CASE i \notin 1 .. Len(stacks[n])
  BY <1>1, <1>3, DistinctAssumption DEF Values
<1> QED
  BY <1>2, <1>3

(* A new context on top, entries as they were.                             *)
LEMMA PushKeepsHolders ==
  ASSUME HolderInv, NEW v \in Views, NEW kind \in {"ctx", "default"},
         Live \subseteq Live', v \in Live',
         Push(kind, v), acc' \in {acc, Undef}, UNCHANGED stacks
  PROVE  HolderInv'
<1>1. Frame(kind, v) \in [kind : {"ctx", "default"}, view : Views]
  BY DEF Frame
<1>2. /\ frames' \in Seq([kind : {"ctx", "default"}, view : Views])
      /\ Len(frames') = Len(frames) + 1
      /\ \A i \in 1 .. Len(frames) : frames'[i] = frames[i]
      /\ frames'[Len(frames) + 1] = Frame(kind, v)
      /\ Len(frames) \in Nat \ {0}
  BY <1>1 DEF Push, HolderInv
<1>3. frames' # << >> /\ frames'[1].kind = "ctx"
  BY <1>2 DEF HolderInv
<1>4. \A i \in 1 .. Len(frames') : frames'[i].view \in Live'
  BY <1>2 DEF Frame, HolderInv, HoldersLive
<1>5. acc' \in Values /\ (acc' \in Views => acc' \in Live')
  BY DistinctAssumption DEF HolderInv, HoldersLive, Values
<1>6. HoldersLive'
  BY <1>4, <1>5 DEF HolderInv, HoldersLive
<1> QED
  BY <1>2, <1>3, <1>5, <1>6 DEF HolderInv

(* Same contexts; every stored value is the one in flight or was stored    *)
(* before.                                                                 *)
LEMMA StoreKeepsHolders ==
  ASSUME HolderInv, Live \subseteq Live', UNCHANGED frames,
         acc' \in Values, acc' \in Views => acc' \in Live',
         NEW val, val \in Views => val \in Live',
         \A m \in Names : \A i \in 1 .. Len(stacks'[m]) :
           \/ stacks'[m][i].value = val
           \/ \E j \in 1 .. Len(stacks[m]) : stacks'[m][i].value = stacks[m][j].value
  PROVE  HolderInv'
<1>1. \A n \in Names : \A i \in 1 .. Len(stacks'[n]) :
        stacks'[n][i].value \in Views => stacks'[n][i].value \in Live'
  BY DEF HolderInv, HoldersLive
<1>2. \A i \in 1 .. Len(frames') : frames'[i].view \in Live'
  BY DEF HolderInv, HoldersLive
<1>3. HoldersLive'
  BY <1>1, <1>2 DEF HoldersLive
<1> QED
  BY <1>3 DEF HolderInv

-----------------------------------------------------------------------------
(* The initial state and each action.                                      *)

(* A fresh storage with the root context's level.                          *)
LEMMA InitEstablishesIInv == Init => IInv
<1> SUFFICES ASSUME NEW r \in Views,
                    parent = << 0 >>,
                    stacks = [n \in Names |-> << >>],
                    dirty = [l \in Levels |-> NoDirt],
                    level = [v \in Views |-> IF v = r THEN 1 ELSE 0],
                    up = [v \in Views |-> NoView],
                    frames = << Frame("ctx", r) >>,
                    acc = Undef
             PROVE  IInv
  BY DEF Init
<1>1. Live = {r}
  BY DEF Live
<1>2. LevelInv
  BY <1>1, BoundsAssumption
  DEF LevelInv, LevelsDistinct, AncestryIntact, AncestorsLive, SlotsMatchViews, SlotsTight
<1>3. DirtyExact
  <2> SUFFICES ASSUME NEW l \in Levels, NEW n \in Names
               PROVE  dirty[l][n] = Cardinality(OfLevel(stacks[n], l))
    BY DEF DirtyExact
  <2>1. OfLevel(stacks[n], l) = {}
    BY DEF OfLevel
  <2> QED
    BY <2>1, FS_EmptySet DEF NoDirt
<1>4. EntryInv
  BY <1>3 DEF EntryInv, EntriesOfLiveLevels, NoDirt
<1>5. HolderInv
  <2>1. /\ frames \in Seq([kind : {"ctx", "default"}, view : Views])
        /\ Len(frames) = 1 /\ frames[1] = Frame("ctx", r)
    BY DEF Frame
  <2>2. frames # << >> /\ frames[1].kind = "ctx" /\ frames[1].view \in Live
    BY <1>1, <2>1 DEF Frame
  <2>3. acc \in Values /\ acc \notin Views
    BY DistinctAssumption DEF Values
  <2>4. HoldersLive
    BY <2>1, <2>2, <2>3 DEF HoldersLive
  <2> QED
    BY <2>1, <2>2, <2>3, <2>4 DEF HolderInv
<1> QED
  BY <1>2, <1>4, <1>5, InvParts

(* The three derivations that open a view over an existing one, or over    *)
(* none, and enter it.                                                     *)
LEMMA DeriveStep ==
  ASSUME IInv, NEW v \in Views, NEW from \in Live \cup {NoView},
         NEW kind \in {"ctx", "default"},
         OpenChild(v, from), Push(kind, v),
         acc' \in {acc, Undef}, UNCHANGED << stacks, dirty >>
  PROVE  IInv'
<1>1. LevelInv /\ EntryInv /\ HolderInv
  BY InvParts
<1>2. /\ LevelInv'
      /\ Live' = Live \cup {v}
      /\ \A w \in Live : level'[w] = level[w]
  BY <1>1, OpenKeepsLevels DEF OpenChild
<1>3. EntryInv'
  BY <1>1, <1>2, OpenKeepsEntries
<1>4. HolderInv'
  BY <1>1, <1>2, PushKeepsHolders
<1> QED
  BY <1>2, <1>3, <1>4, InvParts

(* children() opens its level from a context further down the stack.       *)
LEMMA CallChildrenStep ==
  ASSUME IInv, NEW i \in 1 .. MaxFrames, NEW d \in BOOLEAN, CallChildren(i, d)
  PROVE  IInv'
<1>1. LevelInv /\ EntryInv /\ HolderInv
  BY InvParts
<1> DEFINE before == IF d THEN Append(parent, Dead) ELSE parent
           from == frames[i].view
<1>2. PICK v \in Views \ Live :
        /\ parent' = OpenLevel(before, level[from])
        /\ level' = [level EXCEPT ![v] = Len(before) + 1]
        /\ up' = [up EXCEPT ![v] = from]
        /\ Push("ctx", v)
  BY DEF CallChildren
<1>3. from \in Live /\ from # NoView
  BY <1>1, CurLive, DistinctAssumption DEF CallChildren, Live
<1>4. before \in {parent, Append(parent, Dead)} /\ Len(before) < MaxLevel
  <2>1. Len(parent) \in Nat /\ Len(Append(parent, Dead)) = Len(parent) + 1
    BY <1>1 DEF LevelInv
  <2> QED
    BY <2>1, BoundsAssumption DEF CallChildren
<1> HIDE DEF before, from
<1>5. parent' = OpenLevel(before, IF from = NoView THEN 0 ELSE level[from])
  BY <1>2, <1>3
<1>6. /\ LevelInv'
      /\ Live' = Live \cup {v}
      /\ \A w \in Live : level'[w] = level[w]
  BY <1>1, <1>2, <1>3, <1>4, <1>5, OpenKeepsLevels
<1>7. UNCHANGED << stacks, dirty, acc >>
  BY DEF CallChildren
<1>8. EntryInv'
  BY <1>1, <1>6, <1>7, OpenKeepsEntries
<1>9. HolderInv'
  BY <1>1, <1>2, <1>6, <1>7, PushKeepsHolders
<1> QED
  BY <1>6, <1>8, <1>9, InvParts

(* All but the last element of a sequence.                                 *)
LEMMA FrontShape ==
  ASSUME NEW S, NEW s \in Seq(S), Len(s) > 1
  PROVE  /\ SubSeq(s, 1, Len(s) - 1) \in Seq(S)
         /\ Len(SubSeq(s, 1, Len(s) - 1)) = Len(s) - 1
         /\ \A i \in 1 .. (Len(s) - 1) : SubSeq(s, 1, Len(s) - 1)[i] = s[i]
OBVIOUS

(* Leaving a context only lets go of its view.                             *)
LEMMA LeaveCtxStep ==
  ASSUME IInv, NEW returns \in BOOLEAN, LeaveCtx(returns)
  PROVE  IInv'
<1>1. LevelInv /\ EntryInv /\ HolderInv
  BY InvParts
<1>2. /\ frames' = SubSeq(frames, 1, Top - 1) /\ Top > 1
      /\ acc' \in {acc, Undef}
      /\ UNCHANGED << parent, stacks, dirty, level, up >>
  BY DEF LeaveCtx, storage
<1>3. LevelInv' /\ EntryInv' /\ Live' = Live
  BY <1>1, <1>2, LevelsUntouched, EntriesUntouched
<1>4. /\ frames' \in Seq([kind : {"ctx", "default"}, view : Views])
      /\ Len(frames') = Top - 1
      /\ \A i \in 1 .. (Top - 1) : frames'[i] = frames[i]
      /\ Top - 1 \in 1 .. Top
  <2>1. /\ frames \in Seq([kind : {"ctx", "default"}, view : Views])
        /\ Top \in Nat /\ Top = Len(frames)
    BY <1>1 DEF HolderInv, Top
  <2>2. Top - 1 \in 1 .. Top
    BY <2>1, <1>2
  <2> HIDE DEF Top
  <2> QED
    BY <2>1, <2>2, <1>2, FrontShape
<1>5. frames' # << >> /\ frames'[1].kind = "ctx"
  BY <1>1, <1>4 DEF HolderInv
<1>6. acc' \in Values /\ (acc' \in Views => acc' \in Live)
  BY <1>1, <1>2, DistinctAssumption DEF HolderInv, HoldersLive, Values
<1>7. HoldersLive'
  BY <1>1, <1>2, <1>3, <1>4, <1>6 DEF HolderInv, HoldersLive, Top
<1> QED
  BY <1>3, <1>4, <1>5, <1>6, <1>7, InvParts DEF HolderInv

(* Expressions that only replace the value in flight.                      *)
LEMMA EvalStep ==
  ASSUME IInv, acc' \in Values, acc' \in Views => acc' \in Live,
         UNCHANGED << storage, level, up, frames >>
  PROVE  IInv'
<1>1. LevelInv /\ EntryInv /\ HolderInv
  BY InvParts
<1>2. UNCHANGED << parent, stacks, dirty, level, up, frames >>
  BY DEF storage
<1>3. LevelInv' /\ EntryInv' /\ Live' = Live
  BY <1>1, <1>2, LevelsUntouched, EntriesUntouched
<1>4. HolderInv'
  BY <1>1, <1>2, <1>3 DEF HolderInv, HoldersLive
<1> QED
  BY <1>3, <1>4, InvParts

(* A binding written into the level of a live view.                        *)
LEMMA SetStep ==
  ASSUME IInv, NEW n \in Names, NEW v \in Live,
         NEW val \in Values, val \in Views => val \in Live,
         Set(n, val, v), acc' \in {acc, Undef},
         UNCHANGED << parent, level, up, frames >>
  PROVE  IInv'
<1>1. LevelInv /\ EntryInv /\ HolderInv
  BY InvParts
<1>2. /\ EntryInv'
      /\ \A m \in Names : \A i \in 1 .. Len(stacks'[m]) :
           \/ stacks'[m][i].value = val
           \/ \E j \in 1 .. Len(stacks[m]) : stacks'[m][i].value = stacks[m][j].value
  BY <1>1, SetKeepsEntries
<1>3. LevelInv' /\ Live' = Live
  BY <1>1, LevelsUntouched
<1>4. acc' \in Values /\ (acc' \in Views => acc' \in Live')
  BY <1>1, <1>3, DistinctAssumption DEF HolderInv, HoldersLive, Values
<1>5. HolderInv'
  <2>1. Live \subseteq Live' /\ (val \in Views => val \in Live') /\ frames' = frames
    BY <1>3
  <2> QED
    BY <1>1, <1>2, <1>4, <2>1, StoreKeepsHolders
<1> QED
  BY <1>2, <1>3, <1>5, InvParts

(* The destructor's rounds.                                                *)
LEMMA PopEntryStep ==
  ASSUME IInv, NEW v \in Views, NEW n \in Names, PopEntry(v, n)
  PROVE  IInv'
<1>1. LevelInv /\ EntryInv /\ HolderInv /\ v \in Live
  BY InvParts DEF PopEntry, Garbage
<1>2. PICK i \in 1 .. Len(stacks[n]) :
        /\ LastOfLevel(stacks[n], level[v], i)
        /\ stacks' = [stacks EXCEPT ![n] = EraseAt(@, i)]
  BY DEF PopEntry
<1>3. /\ dirty[level[v]][n] > 0
      /\ dirty' = [dirty EXCEPT ![level[v]][n] = @ - 1]
      /\ UNCHANGED << parent, level, up, frames, acc >>
  BY DEF PopEntry
<1>4. /\ EntryInv'
      /\ \A m \in Names : \A j \in 1 .. Len(stacks'[m]) :
           \E h \in 1 .. Len(stacks[m]) : stacks'[m][j] = stacks[m][h]
  BY <1>1, <1>2, <1>3, PopEntryKeepsEntries
<1>5. LevelInv' /\ Live' = Live
  BY <1>1, <1>3, LevelsUntouched
<1>6. \A m \in Names : \A j \in 1 .. Len(stacks'[m]) :
        stacks'[m][j].value \in Views => stacks'[m][j].value \in Live
  BY <1>1, <1>4 DEF HolderInv, HoldersLive
<1>7. HolderInv'
  BY <1>1, <1>3, <1>5, <1>6 DEF HolderInv, HoldersLive
<1> QED
  BY <1>4, <1>5, <1>7, InvParts

(* The destructor's end: the level is given back.                          *)
LEMMA PopDoneStep ==
  ASSUME IInv, NEW v \in Views, PopDone(v)
  PROVE  IInv'
<1>1. LevelInv /\ EntryInv /\ HolderInv /\ Garbage(v) /\ v \in Live
  BY InvParts DEF PopDone, Garbage
<1>2. PICK k \in 0 .. Len(parent) :
        /\ ShrinksTo(parent, level[v], k)
        /\ parent' = MarkDead(parent, level[v], k)
  BY DEF PopDone
<1>3. /\ dirty[level[v]] = NoDirt
      /\ level' = [level EXCEPT ![v] = 0]
      /\ up' = [up EXCEPT ![v] = NoView]
      /\ UNCHANGED << stacks, dirty, frames, acc >>
  BY DEF PopDone
<1>4. /\ LevelInv'
      /\ Live' = Live \ {v}
      /\ \A w \in Live : w # v => level'[w] = level[w]
  BY <1>1, <1>2, <1>3, PopKeepsLevels
<1>5. EntryInv'
  BY <1>1, <1>3, <1>4, PopDoneKeepsEntries
<1>6. HolderInv'
  <2>1. /\ \A i \in 1 .. Len(frames) : frames[i].view # v
        /\ acc # v
        /\ \A n \in Names : \A i \in 1 .. Len(stacks[n]) : stacks[n][i].value # v
    BY <1>1 DEF Garbage, Owned, HeldByContext, HeldByClosure
  <2> QED
    BY <1>1, <1>3, <1>4, <2>1 DEF HolderInv, HoldersLive
<1> QED
  BY <1>4, <1>5, <1>6, InvParts

(* A capture level receives its entries as it is opened: no stack holds an *)
(* entry at a number that is not in use, so each captured name gets one.   *)
LEMMA MakeClosureStep ==
  ASSUME IInv, NEW captured \in SUBSET Names, NEW self \in SUBSET Names,
         MakeClosure(captured, self)
  PROVE  IInv'
<1>1. LevelInv /\ EntryInv /\ HolderInv
  BY InvParts
<1> DEFINE l == Len(parent) + 1
           C == captured \cup self
<1>2. PICK v \in Views :
        /\ OpenChild(v, Cur)
        /\ stacks' = [n \in Names |->
                         IF n \in C
                         THEN SetEntry(stacks[n], IF n \in self THEN v ELSE Find(n, Cur), l)
                         ELSE stacks[n]]
        /\ dirty' = [dirty EXCEPT ![l] = [n \in Names |->
                         IF n \in C THEN @[n] + 1 ELSE @[n]]]
        /\ acc' = v
        /\ UNCHANGED frames
  BY DEF MakeClosure
<1>3. /\ LevelInv'
      /\ Live' = Live \cup {v}
      /\ level'[v] = l /\ l \in Levels
      /\ \A w \in Live : level'[w] = level[w]
  <2>1. Cur \in Live
    BY <1>1, CurLive
  <2>2. level'[v] = l
    BY <1>1, <1>2 DEF OpenChild, LevelInv
  <2> QED
    BY <1>1, <1>2, <2>1, <2>2, OpenKeepsLevels DEF OpenChild
<1> DEFINE val(n) == IF n \in self THEN v ELSE Find(n, Cur)
<1>4. \A n \in Names : val(n) \in Values /\ (val(n) \in Views => val(n) \in Live')
  BY <1>1, <1>3, FindLive DEF Values
<1>5. \A n \in Names : stacks[n] \in Seq(Entries) /\ ~BoundLast(stacks[n], l)
  <2> TAKE n \in Names
  <2>1. stacks[n] \in Seq(Entries)
    BY <1>1 DEF EntryInv
  <2>2. ASSUME BoundLast(stacks[n], l) PROVE FALSE
    <3>1. PICK w \in Live : level[w] = l
      BY <1>1, <2>1, <2>2 DEF BoundLast, EntryInv, EntriesOfLiveLevels
    <3>2. level[w] <= Len(parent) /\ Len(parent) \in Nat
      BY <1>1 DEF LevelInv, SlotsMatchViews
    <3> QED
      BY <3>1, <3>2
  <2> QED
    BY <2>1, <2>2
<1> HIDE DEF C, l, val
<1>6. \A n \in Names : stacks'[n] = IF n \in C THEN SetEntry(stacks[n], val(n), l) ELSE stacks[n]
  BY <1>2 DEF val
<1>7. \A n \in Names : n \in C =>
        /\ stacks'[n] \in Seq(Entries)
        /\ Len(stacks'[n]) = Len(stacks[n]) + 1
        /\ \A j \in 1 .. Len(stacks[n]) : stacks'[n][j] = stacks[n][j]
        /\ stacks'[n][Len(stacks[n]) + 1] = Entry(val(n), l)
  BY <1>3, <1>4, <1>5, <1>6, SetEntryShape
<1>8. stacks' \in [Names -> Seq(Entries)]
  <2>1. \A n \in Names : stacks'[n] \in Seq(Entries)
    BY <1>5, <1>6, <1>7
  <2> QED
    BY <1>2, <2>1
<1>9. /\ dirty' \in [Levels -> [Names -> Nat]]
      /\ \A j \in Levels, n \in Names :
           dirty'[j][n] = IF j = l /\ n \in C THEN dirty[j][n] + 1 ELSE dirty[j][n]
  BY <1>1, <1>2, <1>3 DEF EntryInv
<1>10. \A n \in Names : \A i \in 1 .. Len(stacks'[n]) :
         \/ stacks'[n][i] = Entry(val(n), l)
         \/ \E j \in 1 .. Len(stacks[n]) : stacks'[n][i] = stacks[n][j]
  BY <1>5, <1>6, <1>7
<1>11. EntriesOfLiveLevels'
  <2> SUFFICES ASSUME NEW n \in Names, NEW i \in 1 .. Len(stacks'[n])
               PROVE  \E w \in Live' : level'[w] = stacks'[n][i].level
    BY DEF EntriesOfLiveLevels
  <2>1. CASE stacks'[n][i] = Entry(val(n), l)
    BY <2>1, <1>3 DEF Entry
  <2>2. CASE \E j \in 1 .. Len(stacks[n]) : stacks'[n][i] = stacks[n][j]
    BY <2>2, <1>1, <1>3 DEF EntryInv, EntriesOfLiveLevels
  <2> QED
    BY <1>10, <2>1, <2>2
<1>12. DirtyExact'
  <2> SUFFICES ASSUME NEW j \in Levels, NEW n \in Names
               PROVE  dirty'[j][n] = Cardinality(OfLevel(stacks'[n], j))
    BY DEF DirtyExact
  <2>1. dirty[j][n] = Cardinality(OfLevel(stacks[n], j))
    BY <1>1 DEF EntryInv, DirtyExact
  <2>2. n \in C => Cardinality(OfLevel(stacks'[n], j)) =
                     IF j = l THEN Cardinality(OfLevel(stacks[n], j)) + 1
                              ELSE Cardinality(OfLevel(stacks[n], j))
    BY <1>3, <1>4, <1>5, <1>6, SetEntryCounts
  <2> QED
    BY <2>1, <2>2, <1>6, <1>9
<1>13. HolderInv'
  <2>1. \A n \in Names : \A i \in 1 .. Len(stacks'[n]) :
          stacks'[n][i].value \in Views => stacks'[n][i].value \in Live'
    <3> TAKE n \in Names
    <3> TAKE i \in 1 .. Len(stacks'[n])
    <3>1. CASE stacks'[n][i] = Entry(val(n), l)
      BY <3>1, <1>4 DEF Entry
    <3>2. CASE \E j \in 1 .. Len(stacks[n]) : stacks'[n][i] = stacks[n][j]
      BY <3>2, <1>1, <1>3 DEF HolderInv, HoldersLive
    <3> QED
      BY <1>10, <3>1, <3>2
  <2>2. acc' \in Values /\ acc' \in Live'
    BY <1>2, <1>3 DEF Values
  <2>3. HoldersLive'
    BY <2>1, <2>2, <1>1, <1>2, <1>3 DEF HolderInv, HoldersLive
  <2> QED
    BY <2>2, <2>3, <1>1, <1>2 DEF HolderInv
<1> QED
  BY <1>3, <1>8, <1>9, <1>11, <1>12, <1>13, InvParts DEF EntryInv

-----------------------------------------------------------------------------
(* The step.                                                               *)

(* Every step keeps the inductive invariant: one case per action.          *)
LEMMA NextKeepsIInv == IInv /\ [Next]_vars => IInv'
<1> SUFFICES ASSUME IInv, [Next]_vars PROVE IInv'
  OBVIOUS
<1>1. LevelInv /\ EntryInv /\ HolderInv
  BY InvParts
<1>2. /\ Cur \in Live /\ Cur \in Views
      /\ \A i \in 1 .. Top : frames[i].view \in Live
      /\ Top \in Nat
  BY <1>1, CurLive
<1>3. /\ acc \in Values /\ (acc \in Views => acc \in Live)
      /\ Undef \in Values /\ Undef \notin Views
  BY <1>1, DistinctAssumption DEF HolderInv, HoldersLive, Values
<1>4. CASE ChildCtx
  BY <1>2, <1>4, DeriveStep DEF ChildCtx
<1>5. CASE CallCtx
  BY <1>5, DeriveStep DEF CallCtx
<1>6. CASE CallCtxFromCapturedLet
  BY <1>3, <1>6, DeriveStep DEF CallCtxFromCapturedLet
<1>7. CASE OpenDefaultCtx
  BY <1>7, DeriveStep DEF OpenDefaultCtx
<1>8. ASSUME NEW n \in Names, BindDefault(n) PROVE IInv'
  <2>1. Top - 1 \in 1 .. Top
    <3>1. Top # 1
      BY <1>1, <1>8 DEF BindDefault, HolderInv
    <3> QED
      BY <3>1, <1>1, CurLive
  <2>2. frames[Top - 1].view \in Live
    BY <2>1, <1>2
  <2> QED
    BY <1>3, <1>8, <2>2, SetStep DEF BindDefault
<1>9. ASSUME NEW i \in 1 .. MaxFrames, NEW d \in BOOLEAN, CallChildren(i, d) PROVE IInv'
  BY <1>9, CallChildrenStep
<1>10. ASSUME NEW returns \in BOOLEAN, LeaveCtx(returns) PROVE IInv'
  BY <1>10, LeaveCtxStep
<1>11. ASSUME NEW p \in Plain, Literal(p) PROVE IInv'
  BY <1>11, EvalStep, DistinctAssumption DEF Literal, Values
<1>12. ASSUME NEW n \in Names, Identifier(n) PROVE IInv'
  BY <1>1, <1>12, EvalStep, FindLive DEF Identifier
<1>13. CASE FunctionLiteral
  BY <1>2, <1>13, EvalStep DEF FunctionLiteral, Values
<1>14. ASSUME NEW captured \in SUBSET Names, NEW self \in SUBSET Names,
              MakeClosure(captured \ self, self)
       PROVE  IInv'
  BY <1>14, MakeClosureStep
<1>15. ASSUME NEW n \in Names, NEW val \in Plain \cup {acc}, PatchClosureCapture(n, val)
       PROVE  IInv'
  <2>1. val \in Values /\ (val \in Views => val \in Live)
    BY <1>3, DistinctAssumption DEF Values
  <2> QED
    BY <1>3, <1>15, <2>1, SetStep DEF PatchClosureCapture
<1>16. ASSUME NEW n \in Names, Assign(n) PROVE IInv'
  BY <1>2, <1>3, <1>16, SetStep DEF Assign
<1>17. ASSUME NEW v \in Views, NEW n \in Names, PopEntry(v, n) PROVE IInv'
  BY <1>17, PopEntryStep
<1>18. ASSUME NEW v \in Views, PopDone(v) PROVE IInv'
  BY <1>18, PopDoneStep
<1>19. CASE UNCHANGED vars
  BY <1>3, <1>19, EvalStep DEF vars, storage
<1> QED
  BY <1>4, <1>5, <1>6, <1>7, <1>8, <1>9, <1>10, <1>11, <1>12, <1>13, <1>14, <1>15,
     <1>16, <1>17, <1>18, <1>19 DEF Next

(* The inductive invariant holds in every behaviour: levels name one live  *)
(* scope each, ancestry is whole, entries and dirty_ agree, and nobody     *)
(* holds a destroyed view.                                                 *)
THEOREM IInvHolds == Spec => []IInv
<1>1. Init => IInv
  BY InitEstablishesIInv
<1>2. IInv /\ [Next]_vars => IInv'
  BY NextKeepsIInv
<1> QED
  BY <1>1, <1>2, PTL DEF Spec

(* TypeOK, for every number of names, views, levels and contexts.          *)
THEOREM TypeCorrect == Spec => []TypeOK
<1>1. IInv => TypeOK
  BY DEF IInv
<1> QED
  BY <1>1, IInvHolds, PTL

(* A level number names one live scope at a time, although markDead hands  *)
(* numbers out again.                                                      *)
THEOREM NumbersDistinct == Spec => []LevelsDistinct
<1>1. IInv => LevelsDistinct
  BY DEF IInv
<1> QED
  BY <1>1, IInvHolds, PTL

(* The slot of every live level leads to its own, live ancestor: a closure *)
(* keeps the whole chain its lookups walk, not only its innermost scope.   *)
THEOREM AncestryWhole == Spec => [](AncestryIntact /\ AncestorsLive)
<1>1. IInv => AncestryIntact /\ AncestorsLive
  BY DEF IInv
<1> QED
  BY <1>1, IInvHolds, PTL

(* No entry survives its level, so a reused number starts out empty.       *)
THEOREM NoStaleEntries == Spec => [](EntriesOfLiveLevels /\ DirtyExact)
<1>1. IInv => EntriesOfLiveLevels /\ DirtyExact
  BY DEF IInv
<1> QED
  BY <1>1, IInvHolds, PTL

(* A slot reads as live exactly as long as its view exists.                *)
THEOREM SlotsFollowViews == Spec => []SlotsMatchViews
<1>1. IInv => SlotsMatchViews
  BY DEF IInv
<1> QED
  BY <1>1, IInvHolds, PTL

(* No context, closure value or stored binding refers to a destroyed view. *)
THEOREM NobodyHoldsTheDead == Spec => []HoldersLive
<1>1. IInv => HoldersLive
  BY DEF IInv
<1> QED
  BY <1>1, IInvHolds, PTL

(* parent_ ends at a live slot: popped levels are given back.              *)
THEOREM SlotsGivenBack == Spec => []SlotsTight
<1>1. IInv => SlotsTight
  BY DEF IInv
<1> QED
  BY <1>1, IInvHolds, PTL

(* Whatever outlives its call and in whatever order scopes end, the storage *)
(* of the trail is sound: the theorems above, together.                     *)
THEOREM StorageStaysSound == Spec => []StorageSound
<1>1. IInv => StorageSound
  BY DEF IInv, StorageSound
<1> QED
  BY <1>1, IInvHolds, PTL

-----------------------------------------------------------------------------
(* The action properties.                                                  *)

(* Entries that stay where they are keep a scope's bindings.               *)
LEMMA SetKeepsBindings ==
  ASSUME LevelInv, EntryInv,
         NEW n \in Names, NEW val \in Values, NEW w \in Live, Set(n, val, w),
         NEW m \in Names, NEW l, OfLevel(stacks[m], l) # {}
  PROVE  OfLevel(stacks'[m], l) # {}
<1> DEFINE s == stacks[n]
           t == SetEntry(s, val, level[w])
<1>1. level[w] \in Levels /\ s \in Seq(Entries)
  BY DEF LevelInv, EntryInv, Live, Levels
<1>2. stacks'[m] = IF m = n THEN t ELSE stacks[m]
  BY DEF Set, EntryInv
<1>3. Len(t) >= Len(s) /\ \A j \in 1 .. Len(s) : t[j].level = s[j].level
  BY <1>1, SetEntryGrows
<1> HIDE DEF t
<1>4. OfLevel(s, l) \subseteq OfLevel(t, l)
  BY <1>1, <1>3 DEF OfLevel
<1> QED
  BY <1>2, <1>4

(* popLevel of one scope removes none of another's entries.                *)
LEMMA PopKeepsOthersBindings ==
  ASSUME EntryInv, NEW n \in Names, NEW i \in 1 .. Len(stacks[n]),
         stacks' = [stacks EXCEPT ![n] = EraseAt(@, i)],
         NEW m \in Names, NEW l, l # stacks[n][i].level,
         OfLevel(stacks[m], l) # {}
  PROVE  OfLevel(stacks'[m], l) # {}
<1>1. CASE m # n
  BY <1>1 DEF EntryInv
<1>2. CASE m = n
  <2> DEFINE s == stacks[n]
             t == EraseAt(s, i)
  <2>1. s \in Seq(Entries) /\ stacks'[m] = t
    BY <1>2 DEF EntryInv
  <2>2. /\ Len(t) = Len(s) - 1
        /\ \A j \in 1 .. (Len(s) - 1) : t[j] = IF j < i THEN s[j] ELSE s[j + 1]
    BY <2>1, EraseAtShape
  <2>3. PICK j \in 1 .. Len(s) : s[j].level = l
    BY <1>2 DEF OfLevel
  <2>4. j # i
    BY <2>3
  <2> HIDE DEF t
  <2>5. CASE j < i
    <3>1. j \in 1 .. Len(t) /\ t[j].level = l
      BY <2>1, <2>2, <2>3, <2>5
    <3> QED
      BY <3>1, <2>1 DEF OfLevel
  <2>6. CASE j > i
    <3>1. (j - 1) \in 1 .. Len(t) /\ t[j - 1].level = l
      BY <2>1, <2>2, <2>3, <2>6
    <3> QED
      BY <3>1, <2>1 DEF OfLevel
  <2> QED
    BY <2>4, <2>5, <2>6
<1> QED
  BY <1>1, <1>2

(* Every step keeps the bindings of the scopes something holds.            *)
LEMMA NextKeepsBindings ==
  ASSUME IInv, [Next]_vars, NEW v \in Live, NEW n \in Names, Owned(v), Binds(v, n)
  PROVE  v \in Live' /\ Binds(v, n)'
<1>1. LevelInv /\ EntryInv /\ HolderInv
  BY InvParts
<1>2. Cur \in Live /\ v \in Views /\ level[v] # 0
  BY <1>1, CurLive DEF Live
<1>3. /\ acc \in Values /\ Undef \in Values
      /\ acc \in Views => acc \in Live
  BY <1>1 DEF HolderInv, HoldersLive, Values
<1>4. ASSUME UNCHANGED << stacks, level >> PROVE v \in Live' /\ Binds(v, n)'
  BY <1>4 DEF Binds, Live
<1>5. ASSUME UNCHANGED stacks, level'[v] = level[v] PROVE v \in Live' /\ Binds(v, n)'
  BY <1>2, <1>5 DEF Binds, Live
<1>6. ASSUME NEW m \in Names, NEW val \in Values, NEW w \in Live, Set(m, val, w), UNCHANGED level
      PROVE  v \in Live' /\ Binds(v, n)'
  BY <1>1, <1>2, <1>6, SetKeepsBindings DEF Binds, Live
<1>7. ASSUME NEW w, NEW from, OpenChild(w, from) PROVE level'[v] = level[v]
  BY <1>1, <1>7 DEF OpenChild, LevelInv, Live
<1>8. CASE ChildCtx \/ CallCtx \/ CallCtxFromCapturedLet \/ OpenDefaultCtx
  BY <1>5, <1>7, <1>8 DEF ChildCtx, CallCtx, CallCtxFromCapturedLet, OpenDefaultCtx
<1>9. ASSUME NEW m \in Names, BindDefault(m) PROVE v \in Live' /\ Binds(v, n)'
  <2>1. Top - 1 \in 1 .. Top
    <3>1. Top # 1
      BY <1>1, <1>9 DEF BindDefault, HolderInv
    <3> QED
      BY <3>1, <1>1, CurLive
  <2>2. frames[Top - 1].view \in Live
    BY <2>1, <1>1, CurLive
  <2> QED
    BY <1>3, <1>6, <1>9, <2>2 DEF BindDefault
<1>10. ASSUME NEW i \in 1 .. MaxFrames, NEW d \in BOOLEAN, CallChildren(i, d)
       PROVE  v \in Live' /\ Binds(v, n)'
  <2>1. level'[v] = level[v]
    BY <1>1, <1>10 DEF CallChildren, LevelInv, Live
  <2> QED
    BY <1>5, <1>10, <2>1 DEF CallChildren
<1>11. ASSUME \/ \E returns \in BOOLEAN : LeaveCtx(returns)
              \/ \E p \in Plain : Literal(p)
              \/ \E m \in Names : Identifier(m)
              \/ FunctionLiteral
       PROVE  v \in Live' /\ Binds(v, n)'
  BY <1>4, <1>11 DEF LeaveCtx, Literal, Identifier, FunctionLiteral, storage
<1>12. ASSUME NEW captured \in SUBSET Names, NEW self \in SUBSET Names,
              MakeClosure(captured, self)
       PROVE  v \in Live' /\ Binds(v, n)'
  <2> DEFINE l == Len(parent) + 1
             val(w) == IF n \in self THEN w ELSE Find(n, Cur)
  <2>1. PICK w \in Views :
          /\ OpenChild(w, Cur)
          /\ stacks'[n] = IF n \in captured \cup self
                          THEN SetEntry(stacks[n], val(w), l) ELSE stacks[n]
    BY <1>12 DEF MakeClosure
  <2>2. level'[v] = level[v] /\ v \in Live'
    BY <1>2, <1>7, <2>1 DEF Live
  <2>3. val(w) \in Values /\ l \in Levels /\ stacks[n] \in Seq(Entries)
    BY <1>1, <2>1, FindLive, BoundsAssumption DEF OpenChild, LevelInv, EntryInv, Values, Levels
  <2> HIDE DEF val, l
  <2>4. /\ Len(SetEntry(stacks[n], val(w), l)) >= Len(stacks[n])
        /\ \A j \in 1 .. Len(stacks[n]) : SetEntry(stacks[n], val(w), l)[j].level = stacks[n][j].level
    BY <2>3, SetEntryGrows
  <2>5. OfLevel(stacks[n], level[v]) \subseteq OfLevel(stacks'[n], level[v])
    BY <2>1, <2>3, <2>4 DEF OfLevel
  <2> QED
    BY <2>2, <2>5 DEF Binds
<1>13. ASSUME NEW m \in Names, NEW val \in Plain \cup {acc}, PatchClosureCapture(m, val)
       PROVE  v \in Live' /\ Binds(v, n)'
  BY <1>3, <1>6, <1>13 DEF PatchClosureCapture, Values
<1>14. ASSUME NEW m \in Names, Assign(m) PROVE v \in Live' /\ Binds(v, n)'
  BY <1>2, <1>3, <1>6, <1>14 DEF Assign
<1>15. ASSUME NEW w \in Views, NEW m \in Names, PopEntry(w, m)
       PROVE  v \in Live' /\ Binds(v, n)'
  <2>1. w \in Live /\ w # v
    BY <1>15 DEF PopEntry, Garbage
  <2>2. level[w] # level[v]
    BY <2>1, <1>1 DEF LevelInv, LevelsDistinct
  <2>3. PICK i \in 1 .. Len(stacks[m]) :
          /\ LastOfLevel(stacks[m], level[w], i)
          /\ stacks' = [stacks EXCEPT ![m] = EraseAt(@, i)]
    BY <1>15 DEF PopEntry
  <2>4. level[v] # stacks[m][i].level
    BY <2>2, <2>3 DEF LastOfLevel
  <2>5. OfLevel(stacks'[n], level[v]) # {}
    BY <1>1, <2>3, <2>4, PopKeepsOthersBindings DEF Binds
  <2> QED
    BY <1>2, <1>15, <2>5 DEF PopEntry, Binds, Live
<1>16. ASSUME NEW w \in Views, PopDone(w) PROVE v \in Live' /\ Binds(v, n)'
  <2>1. w # v
    BY <1>16 DEF PopDone, Garbage
  <2>2. level'[v] = level[v]
    BY <2>1, <1>1, <1>2, <1>16 DEF PopDone, LevelInv
  <2> QED
    BY <1>5, <1>16, <2>2 DEF PopDone
<1>17. CASE UNCHANGED vars
  BY <1>4, <1>17 DEF vars
<1> QED
  BY <1>8, <1>9, <1>10, <1>11, <1>12, <1>13, <1>14, <1>15, <1>16, <1>17 DEF Next

(* A scope that something still holds keeps its bindings through every     *)
(* step, whichever other scopes are popped before, after or around it.     *)
THEOREM HeldScopesKeepBindings == Spec => BindingsKept
<1>1. IInv /\ [Next]_vars =>
        [\A v \in Live, n \in Names :
           Owned(v) /\ Binds(v, n) => v \in Live' /\ Binds(v, n)']_vars
  BY NextKeepsBindings
<1> QED
  BY <1>1, IInvHolds, PTL DEF Spec, BindingsKept

-----------------------------------------------------------------------------
(* The refinement of LexicalEnv.                                           *)

(* Stacks in which a level has one entry of a name at most.                *)
Readable(st) == \A n \in Names : Leveled(st[n]) /\ Ascending(st[n])

(* The bindings of a level are its entries.                                *)
LEMMA OwnHolds ==
  ASSUME NEW st, NEW l, NEW n \in Names, Readable(st), NEW w, Holds(st[n], l, w)
  PROVE  n \in DOMAIN OwnBindings(st, l) /\ OwnBindings(st, l)[n] = w
<1> DEFINE s == st[n]
<1>1. PICK i \in 1 .. Len(s) : s[i].level = l /\ s[i].value = w
  BY DEF Holds
<1>2. ASSUME NEW j \in 1 .. Len(s), s[j].level = l PROVE j = i
  <2>1. /\ i < j => s[i].level < s[j].level
        /\ j < i => s[j].level < s[i].level
        /\ s[i].level \in Nat /\ Len(s) \in Nat
    BY DEF Readable, Ascending, Leveled
  <2>2. ~(i < j) /\ ~(j < i)
    BY <2>1, <1>1, <1>2
  <2> QED
    BY <2>1, <2>2
<1>3. Len(s) \in Nat
  BY DEF Readable, Leveled
<1> HIDE DEF s
<1>4. LastOfLevel(s, l, i)
  BY <1>1, <1>2, <1>3 DEF LastOfLevel
<1>5. ASSUME NEW j \in 1 .. Len(s), LastOfLevel(s, l, j) PROVE j = i
  BY <1>2, <1>5 DEF LastOfLevel
<1>6. (CHOOSE j \in 1 .. Len(s) : LastOfLevel(s, l, j)) = i
  BY <1>4, <1>5
<1>7. OfLevel(s, l) # {}
  BY <1>1 DEF OfLevel
<1> QED
  BY <1>1, <1>6, <1>7 DEF OwnBindings, s

LEMMA OwnBare ==
  ASSUME NEW st, NEW l, NEW n \in Names, Bare(st[n], l)
  PROVE  n \notin DOMAIN OwnBindings(st, l)
BY DEF OwnBindings, Bare, OfLevel

LEMMA HoldsOrBare ==
  ASSUME NEW s, NEW l
  PROVE  Bare(s, l) \/ \E w : Holds(s, l, w)
BY DEF Holds, Bare

LEMMA OwnIsFunction ==
  ASSUME NEW st, NEW l
  PROVE  /\ OwnBindings(st, l) = [n \in DOMAIN OwnBindings(st, l) |-> OwnBindings(st, l)[n]]
         /\ DOMAIN OwnBindings(st, l) \subseteq Names
BY DEF OwnBindings

(* Two levels with the same entries are the same scope.                    *)
SameOwn(st, l, tt, k) == \A n \in Names : \A w : Holds(st[n], l, w) <=> Holds(tt[n], k, w)

LEMMA OwnSame ==
  ASSUME NEW st, NEW tt, NEW l, NEW k, Readable(st), Readable(tt), SameOwn(st, l, tt, k)
  PROVE  OwnBindings(st, l) = OwnBindings(tt, k)
<1> DEFINE a == OwnBindings(st, l)
           b == OwnBindings(tt, k)
<1>1. /\ a = [n \in DOMAIN a |-> a[n]] /\ DOMAIN a \subseteq Names
      /\ b = [n \in DOMAIN b |-> b[n]] /\ DOMAIN b \subseteq Names
  BY OwnIsFunction
<1>2. ASSUME NEW n \in Names
      PROVE  (n \in DOMAIN a <=> n \in DOMAIN b) /\ (n \in DOMAIN a => a[n] = b[n])
  <2>1. CASE Bare(st[n], l)
    <3>1. \A w : ~Holds(st[n], l, w)
      BY <2>1 DEF Bare, Holds
    <3>2. \A w : ~Holds(tt[n], k, w)
      BY <3>1 DEF SameOwn
    <3>3. Bare(tt[n], k)
      BY <3>2, HoldsOrBare
    <3> QED
      BY <2>1, <3>3, OwnBare
  <2>2. CASE \E w : Holds(st[n], l, w)
    <3>1. PICK w : Holds(st[n], l, w)
      BY <2>2
    <3>2. Holds(tt[n], k, w)
      BY <3>1 DEF SameOwn
    <3>3. n \in DOMAIN a /\ a[n] = w
      BY <3>1, OwnHolds
    <3>4. n \in DOMAIN b /\ b[n] = w
      BY <3>2, OwnHolds
    <3> HIDE DEF a, b
    <3> QED
      BY <3>3, <3>4
  <2> QED
    BY <2>1, <2>2, HoldsOrBare
<1> HIDE DEF a, b
<1>3. DOMAIN a = DOMAIN b
  BY <1>1, <1>2
<1>4. a = b
  BY <1>1, <1>2, <1>3
<1> QED
  BY <1>4 DEF a, b

(* set at level l: what Lexical!Bound says of the cell.                    *)
LEMMA OwnSet ==
  ASSUME NEW st, NEW tt, Readable(st), Readable(tt), NEW n \in Names, NEW l, NEW val,
         HoldsNow(st[n], tt[n], l, val), \A m \in Names : m # n => tt[m] = st[m]
  PROVE  /\ OwnBindings(tt, l) = Lexical!Binding(OwnBindings(st, l), n, val)
         /\ \A k : k # l => OwnBindings(tt, k) = OwnBindings(st, k)
<1>1. ASSUME NEW k, k # l PROVE OwnBindings(tt, k) = OwnBindings(st, k)
  <2>1. ASSUME NEW m \in Names, NEW w PROVE Holds(tt[m], k, w) <=> Holds(st[m], k, w)
    <3>1. CASE m = n
      BY <1>1, <3>1 DEF HoldsNow
    <3>2. CASE m # n
      BY <3>2
    <3> QED
      BY <3>1, <3>2
  <2>2. SameOwn(tt, k, st, k)
    BY <2>1 DEF SameOwn
  <2> QED
    BY <2>2, OwnSame
<1> DEFINE a == OwnBindings(st, l)
           b == OwnBindings(tt, l)
<1>2. /\ a = [m \in DOMAIN a |-> a[m]] /\ DOMAIN a \subseteq Names
      /\ b = [m \in DOMAIN b |-> b[m]] /\ DOMAIN b \subseteq Names
  BY OwnIsFunction
<1>3. n \in DOMAIN b /\ b[n] = val
  <2>1. Holds(tt[n], l, val)
    BY DEF HoldsNow
  <2> QED
    BY <2>1, OwnHolds
<1>4. ASSUME NEW m \in Names, m # n
      PROVE  (m \in DOMAIN a <=> m \in DOMAIN b) /\ (m \in DOMAIN a => a[m] = b[m])
  <2>0. tt[m] = st[m]
    BY <1>4
  <2>1. CASE Bare(st[m], l)
    BY <2>0, <2>1, OwnBare
  <2>2. CASE \E w : Holds(st[m], l, w)
    <3>1. PICK w : Holds(st[m], l, w)
      BY <2>2
    <3>2. Holds(tt[m], l, w)
      BY <3>1, <2>0
    <3>3. m \in DOMAIN a /\ a[m] = w
      BY ONLY <3>1, OwnHolds, m \in Names, Readable(st)
    <3>4. m \in DOMAIN b /\ b[m] = w
      BY ONLY <3>2, OwnHolds, m \in Names, Readable(tt)
    <3> HIDE DEF a, b
    <3> QED
      BY <3>3, <3>4
  <2> QED
    BY <2>1, <2>2, HoldsOrBare
<1> HIDE DEF a, b
<1>5. DOMAIN b = DOMAIN a \cup {n}
  BY <1>2, <1>3, <1>4
<1>6. b = [m \in DOMAIN a \cup {n} |-> IF m = n THEN val ELSE a[m]]
  BY <1>2, <1>3, <1>4, <1>5
<1>7. b = Lexical!Binding(a, n, val)
  BY <1>6 DEF Lexical!Binding
<1> QED
  BY <1>1, <1>7 DEF a, b

(* What the refinement rests on, in every state it speaks of.              *)
Ready == LevelInv /\ EntryInv /\ HolderInv /\ InOrder

LEMMA StacksReadable ==
  ASSUME EntryInv, InOrder
  PROVE  /\ Readable(stacks)
         /\ \A n \in Names : stacks[n] \in Stacks(Values, Levels)
<1>1. Levels \subseteq Nat \ {0}
  BY BoundsAssumption DEF Levels
<1>2. \A n \in Names : stacks[n] \in Stacks(Values, Levels)
  BY DEF EntryInv, Stacks, Entries
<1>3. ASSUME NEW n \in Names PROVE Leveled(stacks[n])
  BY ONLY <1>1, <1>2, StackLeveled, n \in Names
<1> QED
  BY <1>2, <1>3 DEF Readable, InOrder

(* The cells are the live views that somebody holds.                       *)
LEMMA CellOf ==
  /\ DOMAIN cells = {v \in Live : Owned(v)}
  /\ cells = [v \in DOMAIN cells |-> cells[v]]
  /\ \A v \in DOMAIN cells :
       cells[v] = [up |-> up[v], own |-> OwnBindings(stacks, level[v])]
BY DEF cells

(* What a live scope binds, in terms of what its cell's own bindings are.  *)
LEMMA OwnValues ==
  ASSUME EntryInv, InOrder, NEW l, NEW n \in DOMAIN OwnBindings(stacks, l)
  PROVE  /\ n \in Names
         /\ Holds(stacks[n], l, OwnBindings(stacks, l)[n])
<1>1. n \in Names
  BY OwnIsFunction
<1>2. ~Bare(stacks[n], l)
  BY <1>1, OwnBare
<1>3. PICK w : Holds(stacks[n], l, w)
  BY <1>2, HoldsOrBare
<1>4. Readable(stacks)
  BY StacksReadable
<1>5. OwnBindings(stacks, l)[n] = w
  BY ONLY <1>1, <1>3, <1>4, OwnHolds
<1> QED
  BY <1>1, <1>3, <1>5

(* Owners keep what they refer to: no reference out of the cells dangles.  *)
LEMMA NoneDangles ==
  ASSUME Ready
  PROVE  Lexical!NothingDangles(cells, frames, acc)
<1> USE CellOf
<1>1. \A i \in 1 .. Len(frames) : frames[i].view \in DOMAIN cells
  BY DEF Ready, HolderInv, HoldersLive, Owned, HeldByContext, Live
<1>2. acc \in Views => acc \in DOMAIN cells
  BY DEF Ready, HolderInv, HoldersLive, Owned, HeldByClosure, Live
<1>3. ASSUME NEW c \in DOMAIN cells
      PROVE  cells[c].up \in DOMAIN cells \cup {NoView}
  <2>1. c \in Live /\ cells[c].up = up[c]
    OBVIOUS
  <2>2. up[c] # NoView => up[c] \in Live
    BY <2>1 DEF Ready, LevelInv, AncestorsLive
  <2>3. up[c] # NoView => Owned(up[c])
    BY <2>1 DEF Owned, HeldByChild
  <2> QED
    BY <2>1, <2>2, <2>3
<1>4. ASSUME NEW c \in DOMAIN cells, NEW n \in DOMAIN cells[c].own,
             cells[c].own[n] \in Views
      PROVE  cells[c].own[n] \in DOMAIN cells
  <2> DEFINE x == cells[c].own[n]
  <2>1. cells[c].own = OwnBindings(stacks, level[c])
    OBVIOUS
  <2>2. n \in Names /\ Holds(stacks[n], level[c], x)
    BY <2>1, OwnValues DEF Ready
  <2>3. PICK i \in 1 .. Len(stacks[n]) : stacks[n][i].value = x
    BY <2>2 DEF Holds
  <2> HIDE DEF x
  <2>4. x \in Views
    BY <1>4 DEF x
  <2>5. x \in Live
    BY <2>2, <2>3, <2>4 DEF Ready, HolderInv, HoldersLive
  <2>6. Owned(x)
    BY <2>2, <2>3 DEF Owned, HeldByClosure
  <2>7. x \in DOMAIN cells
    BY <2>5, <2>6
  <2> QED
    BY <2>7 DEF x
<1> QED
  BY <1>1, <1>2, <1>3, <1>4 DEF Lexical!NothingDangles

(* The trail's reading of a name is the innermost binding.                 *)
LEMMA TrailChained ==
  ASSUME LevelInv
  PROVE  Chained(parent) /\ \A v \in Live : level[v] \in 1 .. Len(parent)
<1>1. Len(parent) \in Nat
  BY DEF LevelInv
<1>2. \A v \in Live : level[v] \in 1 .. Len(parent)
  BY <1>1 DEF LevelInv, SlotsMatchViews, Live
<1>3. ASSUME NEW l \in 1 .. Len(parent) PROVE parent[l] \in -1 .. (l - 1)
  <2>1. CASE parent[l] = Dead
    BY <1>1, <2>1 DEF Dead
  <2>2. CASE parent[l] # Dead
    <3>1. PICK v \in Live : level[v] = l
      BY <2>2 DEF LevelInv, SlotsMatchViews
    <3>2. parent[l] = IF up[v] = NoView THEN 0 ELSE level[up[v]]
      BY <3>1 DEF LevelInv, AncestryIntact
    <3>3. up[v] # NoView => level[up[v]] \in Nat /\ level[up[v]] < l
      BY <3>1, <1>2 DEF LevelInv, AncestorsLive
    <3> QED
      BY <3>2, <3>3, <1>1
  <2> QED
    BY <2>1, <2>2
<1> QED
  BY <1>1, <1>2, <1>3 DEF Chained

LEMMA FindHere ==
  ASSUME Ready, NEW n \in Names, NEW v \in Live, NEW w, Holds(stacks[n], level[v], w)
  PROVE  Find(n, v) = w
<1> DEFINE s == stacks[n]
           l == level[v]
<1>1. /\ Chained(parent) /\ l \in 1 .. Len(parent)
      /\ Leveled(s) /\ Ascending(s)
  BY TrailChained, StacksReadable DEF Ready, Readable
<1>2. Find(n, v) = IF Lookup(parent, s, l) \in 1 .. Len(s) THEN s[Lookup(parent, s, l)].value ELSE Undef
  BY DEF Find
<1>3. PICK i \in 1 .. Len(s) : s[i].level = l /\ s[i].value = w
  BY DEF Holds
<1> HIDE DEF s, l
<1>4. Lookup(parent, s, l) = i
  BY ONLY <1>1, <1>3, LookupHere, i \in 1 .. Len(s)
<1> QED
  BY <1>2, <1>3, <1>4

LEMMA FindAbove ==
  ASSUME Ready, NEW n \in Names, NEW v \in Live, Bare(stacks[n], level[v])
  PROVE  Find(n, v) = IF up[v] = NoView THEN Undef ELSE Find(n, up[v])
<1> DEFINE s == stacks[n]
           l == level[v]
           FindAt(k) == IF Lookup(parent, s, k) \in 1 .. Len(s)
                        THEN s[Lookup(parent, s, k)].value ELSE Undef
<1>1. /\ Chained(parent) /\ l \in 1 .. Len(parent)
      /\ Leveled(s) /\ Ascending(s) /\ Bare(s, l)
  BY TrailChained, StacksReadable DEF Ready, Readable
<1>2. Find(n, v) = FindAt(l) /\ (up[v] # NoView => Find(n, up[v]) = FindAt(level[up[v]]))
  BY DEF Find
<1>3. parent[l] = IF up[v] = NoView THEN 0 ELSE level[up[v]]
  BY DEF Ready, LevelInv, AncestryIntact
<1>4. \A i \in 1 .. Len(s) : s[i].level # l
  BY <1>1 DEF Bare
<1> HIDE DEF s, l
<1>5. Lookup(parent, s, l) = Lookup(parent, s, parent[l])
  BY ONLY <1>1, <1>4, LookupAbove
<1>6. Lookup(parent, s, 0) = 0
  <2>1. PICK z \in {Dead, 0} : z = 0
    OBVIOUS
  <2>2. Lookup(parent, s, z) = 0
    BY ONLY <1>1, LookupNone, z \in {Dead, 0}
  <2> QED
    BY <2>1, <2>2
<1>7. 0 \notin 1 .. Len(s)
  BY <1>1 DEF Leveled
<1> QED
  BY <1>2, <1>3, <1>5, <1>6, <1>7

(* The textbook search of LexicalEnv for name n, one step and all of it.   *)
SearchStep(n, f, c) ==
  IF c = NoView THEN Undef
  ELSE IF n \in DOMAIN cells[c].own THEN cells[c].own[n]
  ELSE f[cells[c].up]
IsSearch(n, f) == f = [c \in DOMAIN cells \cup {NoView} |-> SearchStep(n, f, c)]

LEMMA DenotesSearches ==
  ASSUME NEW n, NEW v
  PROVE  Lexical!Denotes(n, v) = (CHOOSE f : IsSearch(n, f))[v]
BY DEF Lexical!Denotes, IsSearch, SearchStep

LEMMA DenotesIsFind ==
  ASSUME Ready, Settled, NEW n \in Names, NEW v \in Live
  PROVE  Lexical!Denotes(n, v) = Find(n, v)
<1> DEFINE found == [c \in DOMAIN cells \cup {NoView} |->
                       IF c = NoView THEN Undef ELSE Find(n, c)]
<1>1. /\ DOMAIN cells = Live /\ NoView \notin Live
      /\ \A c \in Live : cells[c] = [up |-> up[c], own |-> OwnBindings(stacks, level[c])]
  BY CellOf, DistinctAssumption DEF Settled, Live
<1>2. ASSUME NEW c \in Live
      PROVE  Find(n, c) = IF n \in DOMAIN cells[c].own THEN cells[c].own[n]
                          ELSE IF cells[c].up = NoView THEN Undef ELSE Find(n, cells[c].up)
  <2>0. cells[c].own = OwnBindings(stacks, level[c]) /\ cells[c].up = up[c]
    BY <1>1
  <2>1. CASE Bare(stacks[n], level[c])
    BY <2>0, <2>1, OwnBare, FindAbove
  <2>2. CASE \E w : Holds(stacks[n], level[c], w)
    <3>1. PICK w : Holds(stacks[n], level[c], w)
      BY <2>2
    <3>2. Find(n, c) = w
      BY <3>1, FindHere
    <3>3. Readable(stacks)
      BY StacksReadable DEF Ready
    <3>4. n \in DOMAIN OwnBindings(stacks, level[c]) /\ OwnBindings(stacks, level[c])[n] = w
      BY ONLY <3>1, <3>3, OwnHolds, n \in Names
    <3> QED
      BY <2>0, <3>2, <3>4
  <2> QED
    BY <2>1, <2>2, HoldsOrBare
<1>3. ASSUME NEW c \in Live
      PROVE  cells[c].up = up[c] /\ (up[c] # NoView => up[c] \in Live /\ level[up[c]] < level[c])
  BY <1>1 DEF Ready, LevelInv, AncestorsLive
<1>4. ASSUME NEW c \in DOMAIN cells \cup {NoView} PROVE found[c] = SearchStep(n, found, c)
  <2>1. CASE c = NoView
    BY <2>1 DEF SearchStep
  <2>2. CASE c # NoView
    <3>1. c \in Live /\ found[c] = Find(n, c)
      BY <2>2, <1>1
    <3>2. cells[c].up = NoView => found[cells[c].up] = Undef
      OBVIOUS
    <3>3. cells[c].up # NoView => found[cells[c].up] = Find(n, cells[c].up)
      BY <1>1, <1>3, <3>1
    <3> HIDE DEF found
    <3> QED
      BY <2>2, <3>1, <3>2, <3>3, <1>2 DEF SearchStep
  <2> QED
    BY <2>1, <2>2
<1>5. IsSearch(n, found)
  <2>1. found = [c \in DOMAIN cells \cup {NoView} |-> found[c]]
    OBVIOUS
  <2> HIDE DEF found
  <2>2. found = [c \in DOMAIN cells \cup {NoView} |-> SearchStep(n, found, c)]
    BY <2>1, <1>4
  <2> QED
    BY <2>2 DEF IsSearch
<1> DEFINE g == CHOOSE f : IsSearch(n, f)
<1>6. IsSearch(n, g)
  BY <1>5
<1>7. \A c \in Live : found[c] = Find(n, c)
  BY <1>1
<1> HIDE DEF g, found
<1>8. \A c \in DOMAIN cells \cup {NoView} : g[c] = SearchStep(n, g, c)
  BY <1>6 DEF IsSearch
<1> DEFINE Right == {k \in Nat : \A c \in Live : level[c] <= k => g[c] = Find(n, c)}
<1>9. 0 \in Right
  BY TrailChained DEF Ready
<1>10. ASSUME NEW k \in Nat, k \in Right PROVE k + 1 \in Right
  <2>1. ASSUME NEW c \in Live, level[c] <= k + 1 PROVE g[c] = Find(n, c)
    <3>1. g[c] = SearchStep(n, g, c) /\ c # NoView
      BY <1>1, <1>8
    <3>2. up[c] # NoView => g[up[c]] = Find(n, up[c])
      <4>1. level[c] \in Nat
        BY TrailChained DEF Ready
      <4>2. up[c] # NoView => level[up[c]] \in Nat
        BY <1>3, TrailChained DEF Ready
      <4>3. up[c] # NoView => level[up[c]] <= k
        BY <1>3, <2>1, <4>1, <4>2
      <4> QED
        BY <1>3, <1>10, <4>3
    <3>3. g[NoView] = Undef
      BY <1>8 DEF SearchStep
    <3> QED
      BY <3>1, <3>2, <3>3, <1>2, <1>3 DEF SearchStep
  <2> QED
    BY <2>1
<1>11. \A k \in Nat : k \in Right
  <2> HIDE DEF Right
  <2> QED
    BY <1>9, <1>10, Induction
<1>12. level[v] \in Nat
  BY TrailChained DEF Ready
<1>13. level[v] \in Right
  BY <1>11, <1>12
<1>14. g[v] = Find(n, v)
  BY <1>12, <1>13
<1> QED
  BY <1>14, DenotesSearches DEF g

(* After a step. *)
LEMMA ReadyNext ==
  Ready' => /\ Lexical!NothingDangles(cells, frames, acc)'
            /\ Readable(stacks)'
            /\ (\A n \in Names : stacks[n] \in Stacks(Values, Levels))'
<1>1. Ready => Lexical!NothingDangles(cells, frames, acc)
  BY NoneDangles
<1>2. Ready => Readable(stacks)
  BY StacksReadable DEF Ready
<1>3. Ready => \A n \in Names : stacks[n] \in Stacks(Values, Levels)
  BY StacksReadable DEF Ready
<1> QED
  BY <1>1, <1>2, <1>3, PTL

LEMMA CellNext ==
  /\ DOMAIN cells' = {v \in Live' : Owned(v)'}
  /\ \A v \in DOMAIN cells' :
       cells'[v] = [up |-> up'[v], own |-> OwnBindings(stacks', level'[v])]
BY DEF cells

(* The cells that are left are those of h.                                 *)
LEMMA Becomes ==
  ASSUME Ready', NEW h, DOMAIN cells' \subseteq DOMAIN h, \A c \in DOMAIN cells' : cells'[c] = h[c]
  PROVE  Lexical!HeapBecomes(h)
BY ReadyNext DEF Lexical!HeapBecomes

(* When no destructor is pending every live view is a cell.                *)
LEMMA SettledCells ==
  ASSUME Settled
  PROVE  /\ DOMAIN cells = Live
         /\ \A c \in Live : cells[c] = [up |-> up[c], own |-> OwnBindings(stacks, level[c])]
BY CellOf DEF Settled

(* Contexts and values come and go, the storage stays.                     *)
LEMMA StorageStays ==
  ASSUME Ready', Settled, UNCHANGED << stacks, level, up >>
  PROVE  Lexical!HeapBecomes(cells)
<1>1. Live' = Live
  BY DEF Live
<1>2. DOMAIN cells' \subseteq DOMAIN cells
  BY <1>1, CellNext, SettledCells
<1>3. \A c \in DOMAIN cells' : cells'[c] = cells[c]
  BY <1>1, CellNext, SettledCells
<1> QED
  BY <1>2, <1>3, Becomes

(* A view is opened: a new cell, the others as they were.                  *)
LEMMA NewCell ==
  ASSUME Ready', Settled, NEW v \in Views \ Live, NEW from, NEW own,
         Live' = Live \cup {v},
         \A w \in Live : /\ OwnBindings(stacks', level'[w]) = OwnBindings(stacks, level[w])
                         /\ up'[w] = up[w],
         OwnBindings(stacks', level'[v]) = own, up'[v] = from
  PROVE  /\ v \in Views \ DOMAIN cells
         /\ Lexical!HeapBecomes(Lexical!With(v, Lexical!Cell(from, own)))
<1> DEFINE h == Lexical!With(v, Lexical!Cell(from, own))
<1>1. v \in Views \ DOMAIN cells
  BY SettledCells
<1>2. h = [c \in DOMAIN cells \cup {v} |-> IF c = v THEN [up |-> from, own |-> own] ELSE cells[c]]
  BY DEF Lexical!With, Lexical!Cell
<1>3. DOMAIN cells' \subseteq DOMAIN h
  BY <1>2, CellNext, SettledCells
<1>4. ASSUME NEW c \in DOMAIN cells' PROVE cells'[c] = h[c]
  <2>1. c \in Live \cup {v} /\ cells'[c] = [up |-> up'[c], own |-> OwnBindings(stacks', level'[c])]
    BY CellNext
  <2>2. CASE c = v
    BY <2>1, <2>2, <1>2
  <2>3. CASE c # v
    <3>1. c \in Live /\ h[c] = cells[c]
      BY <2>1, <2>3, <1>2, SettledCells
    <3>2. cells[c] = [up |-> up[c], own |-> OwnBindings(stacks, level[c])]
      BY <3>1, SettledCells
    <3> QED
      BY <2>1, <3>1, <3>2
  <2> QED
    BY <2>2, <2>3
<1> HIDE DEF h
<1>5. Lexical!HeapBecomes(h)
  BY <1>3, <1>4, Becomes
<1> QED
  BY <1>1, <1>5 DEF h

(* A level above all slots in use has no entries.                          *)
LEMMA NewLevelBare ==
  ASSUME LevelInv, EntryInv, NEW l \in Nat, l > Len(parent), NEW n \in Names
  PROVE  Bare(stacks[n], l)
<1> SUFFICES ASSUME NEW i \in 1 .. Len(stacks[n]), stacks[n][i].level = l PROVE FALSE
  BY DEF Bare
<1>1. PICK v \in Live : level[v] = l
  BY DEF EntryInv, EntriesOfLiveLevels
<1>2. level[v] \in 1 .. Len(parent)
  BY TrailChained
<1> QED
  BY <1>1, <1>2

(* A context is entered whose view is new.                                 *)
LEMMA EntersCell ==
  ASSUME Ready, Ready', Settled, NEW v \in Views \ Live, NEW from,
         Live' = Live \cup {v}, \A w \in Live : level'[w] = level[w],
         level'[v] \in Levels, level'[v] > Len(parent),
         up' = [up EXCEPT ![v] = from], UNCHANGED stacks,
         NEW kind, Push(kind, v)
  PROVE  Lexical!Enter(kind, from)
<1>1. ASSUME NEW n \in Names PROVE n \notin DOMAIN OwnBindings(stacks, level'[v])
  <2>1. level'[v] \in Nat
    BY DEF Levels
  <2>2. Bare(stacks[n], level'[v])
    BY <2>1, NewLevelBare DEF Ready
  <2> QED
    BY <2>2, OwnBare
<1>2. OwnBindings(stacks', level'[v]) = Lexical!Bare
  <2> DEFINE o == OwnBindings(stacks, level'[v])
  <2>1. o = [n \in DOMAIN o |-> o[n]] /\ DOMAIN o \subseteq Names
    BY OwnIsFunction
  <2>2. DOMAIN o = {}
    BY <2>1, <1>1
  <2> HIDE DEF o
  <2>3. o = [n \in {} |-> Undef]
    BY <2>1, <2>2
  <2> QED
    BY <2>3 DEF o, Lexical!Bare
<1>3. up'[v] = from /\ \A w \in Live : up'[w] = up[w]
  BY DEF Ready, LevelInv, Live
<1>4. \A w \in Live : OwnBindings(stacks', level'[w]) = OwnBindings(stacks, level[w])
  OBVIOUS
<1>5. /\ v \in Views \ DOMAIN cells
      /\ Lexical!HeapBecomes(Lexical!With(v, Lexical!Cell(from, Lexical!Bare)))
  BY <1>2, <1>3, <1>4, NewCell
<1>6. frames' = Append(frames, [kind |-> kind, view |-> v])
  BY DEF Push, Frame
<1> QED
  BY <1>5, <1>6 DEF Lexical!Enter

(* A name is bound in a live scope.                                        *)
LEMMA SetHoldsNow ==
  ASSUME EntryInv, InOrder, InOrder', NEW n \in Names, NEW val \in Values,
         NEW l \in Levels, stacks'[n] = SetEntry(stacks[n], val, l)
  PROVE  HoldsNow(stacks[n], stacks'[n], l, val)
<1> DEFINE s == stacks[n]
<1>1. /\ s \in Stacks(Values, Levels) /\ Leveled(s) /\ Ascending(s)
      /\ Levels \subseteq Nat \ {0} /\ l \in Nat
  BY StacksReadable, BoundsAssumption DEF Readable, Levels
<1>2. Ascending(SetEntry(s, val, l))
  BY DEF InOrder
<1>3. Len(s) \in Nat /\ \A i \in 1 .. Len(s) : s[i].level \in Nat
  BY <1>1 DEF Leveled
<1> HIDE DEF s
<1>4. ASSUME NEW i \in 1 .. Len(s) PROVE s[i].level <= l
  <2>1. CASE BoundLast(s, l)
    <3>1. s[Len(s)].level = l /\ Len(s) \in 1 .. Len(s)
      BY <2>1, <1>3 DEF BoundLast
    <3>2. i < Len(s) => s[i].level < s[Len(s)].level
      BY <3>1, <1>1 DEF Ascending
    <3> QED
      BY <3>1, <3>2, <1>3
  <2>2. CASE ~BoundLast(s, l)
    <3> DEFINE t == SetEntry(s, val, l)
    <3>1. s \in Seq([value : Values, level : Levels]) /\ t = Append(s, Entry(val, l))
      BY <2>2, <1>1 DEF SetEntry, Stacks
    <3>2. /\ Len(t) = Len(s) + 1 /\ t[Len(s) + 1] = Entry(val, l)
          /\ t[i] = s[i]
      BY <3>1
    <3>3. i \in 1 .. Len(t) /\ Len(s) + 1 \in 1 .. Len(t) /\ i < Len(s) + 1
      BY <3>2, <1>3
    <3>4. t[i].level < t[Len(s) + 1].level
      <4> HIDE DEF t
      <4>1. Ascending(t)
        BY <1>2 DEF t
      <4> QED
        BY <4>1, <3>3 DEF Ascending
    <3>5. s[i].level < l
      BY <3>2, <3>4 DEF Entry
    <3> QED
      BY <3>5, <1>3, <1>1
  <2> QED
    BY <2>1, <2>2
<1>5. HoldsNow(s, SetEntry(s, val, l), l, val)
  BY ONLY <1>1, <1>4, SetEntryInOrder, val \in Values, l \in Levels
<1> QED
  BY <1>5 DEF s

LEMMA BindsCell ==
  ASSUME Ready, Ready', Settled, NEW n \in Names, NEW val \in Values, NEW w \in Live,
         Set(n, val, w), UNCHANGED << level, up >>
  PROVE  Lexical!HeapBecomes(Lexical!Bound(n, val, w))
<1> DEFINE h == Lexical!Bound(n, val, w)
           l == level[w]
<1>1. Live' = Live /\ w \in DOMAIN cells /\ l \in Levels
  BY SettledCells DEF Live, Ready, LevelInv, Levels
<1>2. stacks' = [stacks EXCEPT ![n] = SetEntry(@, val, l)]
  BY DEF Set
<1>3. stacks'[n] = SetEntry(stacks[n], val, l) /\ \A m \in Names : m # n => stacks'[m] = stacks[m]
  BY <1>2 DEF Ready, EntryInv
<1>4. HoldsNow(stacks[n], stacks'[n], l, val)
  BY <1>1, <1>3, SetHoldsNow DEF Ready
<1>5. Readable(stacks) /\ Readable(stacks')
  BY StacksReadable, ReadyNext DEF Ready
<1> HIDE DEF l
<1>6. /\ OwnBindings(stacks', l) = Lexical!Binding(OwnBindings(stacks, l), n, val)
      /\ \A k : k # l => OwnBindings(stacks', k) = OwnBindings(stacks, k)
  BY ONLY <1>3, <1>4, <1>5, OwnSet, n \in Names
<1>7. h = [cells EXCEPT ![w] = [up |-> up[w], own |-> OwnBindings(stacks', l)]]
  <2>1. h = [cells EXCEPT ![w].own = Lexical!Binding(@, n, val)]
    BY DEF Lexical!Bound
  <2>2. cells[w] = [up |-> up[w], own |-> OwnBindings(stacks, l)]
    BY SettledCells DEF l
  <2>3. h = [cells EXCEPT ![w] = [cells[w] EXCEPT !.own = Lexical!Binding(cells[w].own, n, val)]]
    BY <2>1
  <2>4. cells[w].own = OwnBindings(stacks, l)
    BY <2>2
  <2>5. Lexical!Binding(cells[w].own, n, val) = OwnBindings(stacks', l)
    BY <2>4, <1>6
  <2>6. [cells[w] EXCEPT !.own = OwnBindings(stacks', l)] = [up |-> up[w], own |-> OwnBindings(stacks', l)]
    BY ONLY <2>2
  <2> HIDE DEF h
  <2> QED
    BY ONLY <2>3, <2>5, <2>6
<1>8. DOMAIN h = DOMAIN cells /\ h[w] = [up |-> up[w], own |-> OwnBindings(stacks', l)]
      /\ \A c \in DOMAIN cells : c # w => h[c] = cells[c]
  BY <1>1, <1>7, CellOf
<1> HIDE DEF h
<1>9. DOMAIN cells' \subseteq DOMAIN h
  BY <1>1, <1>8, CellNext, SettledCells
<1>10. ASSUME NEW c \in DOMAIN cells' PROVE cells'[c] = h[c]
  <2>1. c \in Live /\ cells'[c] = [up |-> up[c], own |-> OwnBindings(stacks', level[c])]
    BY <1>1, CellNext
  <2>2. CASE c = w
    BY <2>1, <2>2, <1>8 DEF l
  <2>3. CASE c # w
    <3>1. level[c] # l
      BY <2>1, <2>3 DEF l, Ready, LevelInv, LevelsDistinct
    <3>2. cells[c] = [up |-> up[c], own |-> OwnBindings(stacks, level[c])] /\ h[c] = cells[c]
      BY <2>1, <2>3, <1>8, SettledCells
    <3> QED
      BY <2>1, <3>1, <3>2, <1>6
  <2> QED
    BY <2>2, <2>3
<1>11. Lexical!HeapBecomes(h)
  BY <1>9, <1>10, Becomes
<1> QED
  BY <1>11 DEF h

(* Destructors: what they take belongs to no cell.                         *)
LEMMA PopEntryForgets ==
  ASSUME Ready, Ready', NEW v \in Views, NEW n \in Names, PopEntry(v, n)
  PROVE  Lexical!Forget
<1>1. PICK i \in 1 .. Len(stacks[n]) :
        /\ LastOfLevel(stacks[n], level[v], i)
        /\ stacks' = [stacks EXCEPT ![n] = EraseAt(@, i)]
  BY DEF PopEntry
<1>2. UNCHANGED << parent, level, up, frames, acc >> /\ Live' = Live
  BY DEF PopEntry, Live
<1>3. /\ stacks[n] \in Seq(Entries) /\ stacks[n] \in Stacks(Values, Levels)
      /\ Ascending(stacks[n]) /\ stacks[n][i].level = level[v]
      /\ stacks'[n] = EraseAt(stacks[n], i)
      /\ \A m \in Names : m # n => stacks'[m] = stacks[m]
      /\ Levels \subseteq Nat \ {0}
  BY <1>1, StacksReadable, BoundsAssumption DEF Ready, EntryInv, InOrder, LastOfLevel, Levels
<1>4. ASSUME NEW m \in Names, NEW j \in 1 .. Len(stacks'[m])
      PROVE  \E k \in 1 .. Len(stacks[m]) : stacks'[m][j].value = stacks[m][k].value
  <2>1. CASE m # n
    BY <2>1, <1>3
  <2>2. CASE m = n
    <3> DEFINE s == stacks[n]
               t == EraseAt(s, i)
    <3>1. /\ Len(t) = Len(s) - 1 /\ Len(s) \in Nat
          /\ \A a \in 1 .. (Len(s) - 1) : t[a] = IF a < i THEN s[a] ELSE s[a + 1]
      <4> HIDE DEF s
      <4>1. s \in Seq(Entries) /\ i \in 1 .. Len(s)
        BY <1>3 DEF s
      <4>2. Len(s) \in Nat
        BY <4>1
      <4> QED
        BY ONLY <4>1, <4>2, EraseAtShape
    <3>2. j \in 1 .. Len(t) /\ stacks'[m] = t
      BY <2>2, <1>3
    <3> HIDE DEF t
    <3>3. t[j] = s[j] \/ t[j] = s[j + 1]
      BY <3>1, <3>2
    <3>4. j \in 1 .. Len(s) /\ j + 1 \in 1 .. Len(s)
      BY <3>1, <3>2
    <3> QED
      BY <2>2, <3>2, <3>3, <3>4
  <2> QED
    BY <2>1, <2>2
<1>5. ASSUME NEW c, Owned(c)' PROVE Owned(c)
  <2>1. CASE HeldByContext(c)' \/ HeldByChild(c)' \/ acc' = c
    BY <2>1, <1>2 DEF Owned, HeldByContext, HeldByChild, HeldByClosure
  <2>2. CASE \E m \in Names : \E j \in 1 .. Len(stacks'[m]) : stacks'[m][j].value = c
    BY <2>2, <1>4 DEF Owned, HeldByClosure
  <2> QED
    BY <1>5, <2>1, <2>2 DEF Owned, HeldByClosure
<1>6. ~Owned(v) /\ v \in Live
  BY DEF PopEntry, Garbage
<1>7. ASSUME NEW c \in DOMAIN cells' PROVE c \in DOMAIN cells /\ cells'[c] = cells[c]
  <2>1. /\ c \in Live /\ Owned(c) /\ c # v
        /\ cells'[c] = [up |-> up[c], own |-> OwnBindings(stacks', level[c])]
    BY <1>2, <1>5, <1>6, CellNext
  <2>2. level[c] # level[v]
    BY <2>1, <1>6 DEF Ready, LevelInv, LevelsDistinct
  <2>3. ASSUME NEW m \in Names, NEW w
        PROVE  Holds(stacks'[m], level[c], w) <=> Holds(stacks[m], level[c], w)
    <3>1. CASE m # n
      BY <3>1, <1>3
    <3>2. CASE m = n
      <4> DEFINE s == stacks[n]
      <4>1. \A k, x : Holds(EraseAt(s, i), k, x) <=> k # s[i].level /\ Holds(s, k, x)
        <5> HIDE DEF s
        <5>1. s \in Stacks(Values, Levels) /\ Ascending(s) /\ Levels \subseteq Nat \ {0} /\ i \in 1 .. Len(s)
          BY <1>3 DEF s
        <5> QED
          BY ONLY <5>1, EraseInOrder
      <4> QED
        BY <3>2, <4>1, <1>3, <2>2
    <3> QED
      BY <3>1, <3>2
  <2>4. SameOwn(stacks', level[c], stacks, level[c])
    BY <2>3 DEF SameOwn
  <2>5. Readable(stacks) /\ Readable(stacks')
    BY StacksReadable, ReadyNext DEF Ready
  <2>6. OwnBindings(stacks', level[c]) = OwnBindings(stacks, level[c])
    BY ONLY <2>4, <2>5, OwnSame
  <2> QED
    BY <2>1, <2>6, CellOf
<1>8. Lexical!HeapBecomes(cells)
  BY <1>7, Becomes
<1> QED
  BY <1>2, <1>8 DEF Lexical!Forget

LEMMA PopDoneForgets ==
  ASSUME Ready, Ready', NEW v \in Views, PopDone(v)
  PROVE  Lexical!Forget
<1>1. /\ level' = [level EXCEPT ![v] = 0] /\ up' = [up EXCEPT ![v] = NoView]
      /\ UNCHANGED << stacks, frames, acc >>
      /\ v \in Live /\ ~Owned(v)
  BY DEF PopDone, Garbage
<1>2. /\ Live' = Live \ {v}
      /\ \A c \in Live' : level'[c] = level[c] /\ up'[c] = up[c]
  BY <1>1 DEF Live, Ready, LevelInv
<1>3. ASSUME NEW c, Owned(c)' PROVE Owned(c)
  BY <1>1, <1>2, <1>3 DEF Owned, HeldByContext, HeldByChild, HeldByClosure
<1>4. ASSUME NEW c \in DOMAIN cells' PROVE c \in DOMAIN cells /\ cells'[c] = cells[c]
  <2>1. /\ c \in Live' /\ c \in Live /\ Owned(c)
        /\ cells'[c] = [up |-> up'[c], own |-> OwnBindings(stacks', level'[c])]
    BY <1>2, <1>3, CellNext
  <2> QED
    BY <2>1, <1>1, <1>2, CellOf
<1>5. Lexical!HeapBecomes(cells)
  BY <1>4, Becomes
<1> QED
  BY <1>1, <1>5 DEF Lexical!Forget

(* A closure over a level of its own.                                      *)
LEMMA MakeClosureCloses ==
  ASSUME Ready, Ready', NEW captured \in SUBSET Names, NEW self \in SUBSET Names,
         MakeClosure(captured, self)
  PROVE  Lexical!CloseOver(captured, self)
<1> DEFINE l == Len(parent) + 1
           bound == captured \cup self
           copy(v, n) == IF n \in self THEN v ELSE Find(n, Cur)
<1>1. PICK v \in Views :
        /\ OpenChild(v, Cur)
        /\ stacks' = [n \in Names |-> IF n \in bound THEN SetEntry(stacks[n], copy(v, n), l)
                                      ELSE stacks[n]]
        /\ acc' = v
  BY DEF MakeClosure
<1>2. Settled /\ frames' = frames
  BY DEF MakeClosure
<1>3. Cur \in Live /\ Cur \in Views
  BY CurLive DEF Ready
<1>4. /\ v \in Views \ Live
      /\ Live' = Live \cup {v}
      /\ level'[v] = l /\ l \in Levels /\ l > Len(parent) /\ l \in Nat
      /\ \A w \in Live : level'[w] = level[w] /\ up'[w] = up[w]
      /\ up'[v] = Cur
  <2>1. v \in Views \ Live /\ LevelInv /\ Len(parent) \in Nat
    BY <1>1 DEF OpenChild, Ready, LevelInv
  <2>2. parent \in {parent, Append(parent, Dead)} /\ Cur \in Live \cup {NoView}
    BY <1>3
  <2>3. Live' = Live \cup {v} /\ \A w \in Live : level'[w] = level[w]
    BY <1>1, <2>1, <2>2, OpenKeepsLevels DEF OpenChild
  <2>4. level'[v] = l /\ up'[v] = Cur /\ \A w \in Live : up'[w] = up[w]
    BY <1>1, <2>1 DEF OpenChild, LevelInv, Live
  <2>5. l \in Levels /\ l > Len(parent) /\ l \in Nat
    BY <1>1, <2>1, BoundsAssumption DEF OpenChild, Levels
  <2> QED
    BY <2>1, <2>3, <2>4, <2>5
<1> HIDE DEF l
<1>5. ASSUME NEW n \in Names PROVE copy(v, n) \in Values
  BY FindLive DEF Ready, Values
<1>6. ASSUME NEW n \in bound PROVE HoldsNow(stacks[n], stacks'[n], l, copy(v, n))
  <2>1. n \in Names /\ stacks'[n] = SetEntry(stacks[n], copy(v, n), l) /\ copy(v, n) \in Values
    BY <1>1, <1>5
  <2> HIDE DEF copy, bound
  <2> QED
    BY <2>1, <1>4, SetHoldsNow DEF Ready
<1>7. \A n \in Names : n \notin bound => stacks'[n] = stacks[n]
  BY <1>1
<1>8. Readable(stacks) /\ Readable(stacks')
  BY StacksReadable, ReadyNext DEF Ready
<1>9. bound \subseteq Names
  OBVIOUS
<1> HIDE DEF copy, bound
<1>10. ASSUME NEW w \in Live PROVE OwnBindings(stacks', level'[w]) = OwnBindings(stacks, level[w])
  <2>1. level'[w] = level[w] /\ level[w] # l
    <3>1. level[w] \in 1 .. Len(parent) /\ Len(parent) \in Nat
      BY TrailChained DEF Ready, LevelInv
    <3> QED
      BY <1>4, <3>1
  <2>2. ASSUME NEW n \in Names, NEW x
        PROVE  Holds(stacks'[n], level[w], x) <=> Holds(stacks[n], level[w], x)
    <3>1. CASE n \in bound
      BY <3>1, <1>6, <2>1 DEF HoldsNow
    <3>2. CASE n \notin bound
      BY <3>2, <1>7
    <3> QED
      BY <3>1, <3>2
  <2>3. SameOwn(stacks', level[w], stacks, level[w])
    BY <2>2 DEF SameOwn
  <2>4. OwnBindings(stacks', level[w]) = OwnBindings(stacks, level[w])
    BY ONLY <1>8, <2>3, OwnSame
  <2> QED
    BY <2>1, <2>4
<1> DEFINE o == OwnBindings(stacks', l)
<1>11. ASSUME NEW n \in bound PROVE n \in DOMAIN o /\ o[n] = copy(v, n)
  <2>1. Holds(stacks'[n], l, copy(v, n)) /\ n \in Names
    BY <1>6, <1>9 DEF HoldsNow
  <2> QED
    BY ONLY <2>1, <1>8, OwnHolds
<1>12. ASSUME NEW n \in Names, n \notin bound PROVE n \notin DOMAIN o
  <2>1. Bare(stacks[n], l)
    BY <1>4, NewLevelBare DEF Ready
  <2>2. Bare(stacks'[n], l)
    BY <2>1, <1>7, <1>12
  <2> QED
    BY <2>2, OwnBare
<1>13. o = [n \in bound |-> copy(v, n)]
  <2>1. o = [n \in DOMAIN o |-> o[n]] /\ DOMAIN o \subseteq Names
    BY OwnIsFunction
  <2> HIDE DEF o
  <2>2. DOMAIN o = bound
    BY <2>1, <1>9, <1>11, <1>12
  <2> QED
    BY <2>1, <2>2, <1>11
<1>14. o = [n \in captured \cup self |-> IF n \in self THEN v ELSE Lexical!Denotes(n, Lexical!Cur)]
  <2>1. ASSUME NEW n \in bound PROVE copy(v, n) = IF n \in self THEN v ELSE Lexical!Denotes(n, Lexical!Cur)
    <3>1. Lexical!Cur = Cur
      BY DEF Lexical!Cur, Cur, Lexical!Top, Top
    <3>2. Lexical!Denotes(n, Cur) = Find(n, Cur)
      BY <1>2, <1>3, <1>9, DenotesIsFind
    <3> QED
      BY <3>1, <3>2 DEF copy
  <2> HIDE DEF o
  <2> QED
    BY <1>13, <2>1 DEF bound
<1>15. OwnBindings(stacks', level'[v]) = o
  BY <1>4
<1> HIDE DEF o
<1>16. /\ v \in Views \ DOMAIN cells
       /\ Lexical!HeapBecomes(Lexical!With(v, Lexical!Cell(Cur, o)))
  BY <1>2, <1>4, <1>10, <1>15, NewCell
<1>17. Lexical!Cur = Cur
  BY DEF Lexical!Cur, Cur, Lexical!Top, Top
<1> QED
  BY <1>1, <1>2, <1>14, <1>16, <1>17 DEF Lexical!CloseOver

(* Each action of the trail is an action of the textbook interpreter.      *)
LEMMA OpeningEnters ==
  ASSUME Ready, Ready', Settled, NEW v \in Views, NEW from \in Live \cup {NoView},
         NEW kind, OpenChild(v, from), Push(kind, v), UNCHANGED stacks
  PROVE  Lexical!Enter(kind, from)
<1>1. v \in Views \ Live /\ LevelInv /\ up' = [up EXCEPT ![v] = from]
  BY DEF OpenChild, Ready
<1>2. parent \in {parent, Append(parent, Dead)}
  OBVIOUS
<1>3. /\ Live' = Live \cup {v} /\ \A w \in Live : level'[w] = level[w]
      /\ level'[v] \in Levels /\ level'[v] > Len(parent)
  BY <1>1, <1>2, OpenKeepsLevels DEF OpenChild
<1> QED
  BY <1>1, <1>3, EntersCell

LEMMA ChildrenEnters ==
  ASSUME Ready, Ready', NEW i \in 1 .. MaxFrames, NEW d \in BOOLEAN, CallChildren(i, d)
  PROVE  Lexical!EnterChildren
<1> DEFINE before == IF d THEN Append(parent, Dead) ELSE parent
           from == frames[i].view
<1>1. PICK v \in Views \ Live :
        /\ parent' = OpenLevel(before, level[from])
        /\ level' = [level EXCEPT ![v] = Len(before) + 1]
        /\ up' = [up EXCEPT ![v] = from]
        /\ Push("ctx", v)
  BY DEF CallChildren
<1>2. /\ Settled /\ UNCHANGED << stacks, acc >> /\ LevelInv
      /\ i \in 1 .. (Top - 1) /\ Top \in Nat
  BY CurLive, BoundsAssumption DEF CallChildren, Ready
<1>3. from \in Live /\ from # NoView
  BY <1>2, CurLive, DistinctAssumption DEF Ready, Live
<1>4. before \in {parent, Append(parent, Dead)} /\ Len(before) < MaxLevel
  <2>1. Len(parent) \in Nat /\ Len(Append(parent, Dead)) = Len(parent) + 1
    BY DEF Ready, LevelInv
  <2> QED
    BY <2>1, BoundsAssumption DEF CallChildren
<1> HIDE DEF before
<1>5. /\ Live' = Live \cup {v} /\ \A w \in Live : level'[w] = level[w]
      /\ level'[v] \in Levels /\ level'[v] > Len(parent)
  <2> HIDE DEF from
  <2>1. parent' = OpenLevel(before, IF from = NoView THEN 0 ELSE level[from])
    BY <1>1, <1>3
  <2> QED
    BY <1>1, <1>2, <1>3, <1>4, <2>1, OpenKeepsLevels
<1>6. Lexical!Enter("ctx", from)
  <2> HIDE DEF from
  <2> QED
    BY <1>1, <1>2, <1>3, <1>5, EntersCell
<1>7. Lexical!Top = Top
  BY DEF Lexical!Top, Top
<1> QED
  BY <1>2, <1>6, <1>7 DEF Lexical!EnterChildren

(* Values that are evaluated.                                              *)
LEMMA Evaluates ==
  ASSUME Ready, Ready', Settled, UNCHANGED << stacks, level, up, frames >>,
         acc' \in Plain \/ acc' = Cur \/ \E n \in Names : acc' = Find(n, Cur)
  PROVE  Lexical!Eval
<1>1. Lexical!HeapBecomes(cells)
  BY StorageStays
<1>2. Lexical!Cur = Cur /\ Cur \in Live
  BY CurLive DEF Lexical!Cur, Cur, Lexical!Top, Top, Ready
<1>3. \A n \in Names : Lexical!Denotes(n, Cur) = Find(n, Cur)
  BY <1>2, DenotesIsFind
<1>4. acc' \in Plain \/ acc' = Lexical!Cur \/ \E n \in Names : acc' = Lexical!Denotes(n, Lexical!Cur)
  BY <1>2, <1>3
<1> QED
  BY <1>1, <1>4 DEF Lexical!Eval

LEMMA Leaves ==
  ASSUME Ready, Ready', NEW returns \in BOOLEAN, LeaveCtx(returns)
  PROVE  Lexical!Leave
<1>1. /\ Settled /\ Top > 1 /\ frames' = SubSeq(frames, 1, Top - 1)
      /\ acc' \in {acc, Undef} /\ UNCHANGED << stacks, level, up >>
  BY DEF LeaveCtx, storage
<1>2. Lexical!HeapBecomes(cells)
  BY <1>1, StorageStays
<1>3. Lexical!Top = Top
  BY DEF Lexical!Top, Top
<1> QED
  BY <1>1, <1>2, <1>3 DEF Lexical!Leave

LEMMA Patches ==
  ASSUME Ready, Ready', NEW n \in Names, NEW val \in Plain \cup {acc}, PatchClosureCapture(n, val)
  PROVE  Lexical!Patch(n)
<1>1. /\ Settled /\ acc \in Views /\ acc \in Live /\ val \in Values
      /\ Set(n, val, acc) /\ UNCHANGED << level, up, frames, acc >>
  BY DEF PatchClosureCapture, Ready, HolderInv, HoldersLive, Values
<1>2. Lexical!HeapBecomes(Lexical!Bound(n, val, acc))
  BY <1>1, BindsCell
<1> QED
  BY <1>1, <1>2 DEF Lexical!Patch

LEMMA Assigns ==
  ASSUME Ready, Ready', NEW n \in Names, Assign(n) \/ BindDefault(n)
  PROVE  Lexical!Bind(n)
<1> DEFINE i == IF frames[Top].kind = "default" THEN Top - 1 ELSE Top
<1>1. /\ frames[1].kind = "ctx" /\ Top \in Nat /\ Top >= 1
      /\ \A j \in 1 .. Top : frames[j].view \in Live
  BY CurLive DEF Ready, HolderInv
<1>2. Settled /\ acc \in Values /\ acc' = Undef /\ UNCHANGED << level, up, frames >>
  BY DEF Assign, BindDefault, Ready, HolderInv
<1>3. Set(n, acc, frames[i].view)
  BY DEF Assign, BindDefault, Cur
<1>4. i \in {Top - 1, Top} \ {0} /\ i \in 1 .. Top
  BY <1>1
<1>5. frames[i].view \in Live
  BY <1>1, <1>4
<1>6. Lexical!HeapBecomes(Lexical!Bound(n, acc, frames[i].view))
  <2> HIDE DEF i
  <2> QED
    BY <1>2, <1>3, <1>5, BindsCell
<1>7. Lexical!Top = Top
  BY DEF Lexical!Top, Top
<1> QED
  BY <1>2, <1>4, <1>6, <1>7 DEF Lexical!Bind

LEMMA NextIsLexical ==
  ASSUME Ready, Ready', Next
  PROVE  Lexical!Next
<1>1. /\ Cur \in Live /\ Cur \in Live \cup {NoView} /\ NoView \in Live \cup {NoView}
      /\ Lexical!Cur = Cur
      /\ acc \in Views => acc \in Live \cup {NoView}
  BY CurLive DEF Ready, HolderInv, HoldersLive, Lexical!Cur, Cur, Lexical!Top, Top
<1> USE DEF Lexical!Next
<1>2. CASE ChildCtx
  <2>1. PICK v \in Views : OpenChild(v, Cur) /\ Push("ctx", v)
    BY <1>2 DEF ChildCtx
  <2>2. Settled /\ UNCHANGED << stacks, acc >>
    BY <1>2 DEF ChildCtx
  <2>3. Lexical!Enter("ctx", Cur)
    BY <1>1, <2>1, <2>2, OpeningEnters
  <2>4. Lexical!EnterNested
    BY <1>1, <2>2, <2>3 DEF Lexical!EnterNested
  <2> QED
    BY <2>4
<1>3. CASE CallCtx
  <2>1. PICK v \in Views : OpenChild(v, NoView) /\ Push("ctx", v)
    BY <1>3 DEF CallCtx
  <2>2. Settled /\ UNCHANGED << stacks, acc >>
    BY <1>3 DEF CallCtx
  <2>3. Lexical!Enter("ctx", NoView)
    BY <1>1, <2>1, <2>2, OpeningEnters
  <2>4. Lexical!EnterCall
    BY <2>2, <2>3 DEF Lexical!EnterCall
  <2> QED
    BY <2>4
<1>4. CASE CallCtxFromCapturedLet
  <2>1. PICK v \in Views : OpenChild(v, acc) /\ Push("ctx", v)
    BY <1>4 DEF CallCtxFromCapturedLet
  <2>2. Settled /\ UNCHANGED stacks /\ acc \in Views /\ acc' = Undef
    BY <1>4 DEF CallCtxFromCapturedLet
  <2>3. Lexical!Enter("ctx", acc)
    BY <1>1, <2>1, <2>2, OpeningEnters
  <2>4. Lexical!EnterClosure
    BY <2>2, <2>3 DEF Lexical!EnterClosure
  <2> QED
    BY <2>4
<1>5. CASE OpenDefaultCtx
  <2>1. PICK v \in Views : OpenChild(v, NoView) /\ Push("default", v)
    BY <1>5 DEF OpenDefaultCtx
  <2>2. Settled /\ UNCHANGED << stacks, acc >>
    BY <1>5 DEF OpenDefaultCtx
  <2>3. Lexical!Enter("default", NoView)
    BY <1>1, <2>1, <2>2, OpeningEnters
  <2>4. Lexical!EnterCall
    BY <2>2, <2>3 DEF Lexical!EnterCall
  <2> QED
    BY <2>4
<1>6. ASSUME NEW n \in Names, BindDefault(n) PROVE Lexical!Next
  <2>1. Lexical!Bind(n)
    BY <1>6, Assigns
  <2> QED
    BY <2>1
<1>7. ASSUME NEW i \in 1 .. MaxFrames, NEW d \in BOOLEAN, CallChildren(i, d) PROVE Lexical!Next
  <2>1. Lexical!EnterChildren /\ acc' = acc
    BY <1>7, ChildrenEnters DEF CallChildren
  <2> QED
    BY <2>1
<1>8. ASSUME NEW returns \in BOOLEAN, LeaveCtx(returns) PROVE Lexical!Next
  <2>1. Lexical!Leave
    BY <1>8, Leaves
  <2> QED
    BY <2>1
<1>9. ASSUME \/ \E p \in Plain : Literal(p)
             \/ \E n \in Names : Identifier(n)
             \/ FunctionLiteral
      PROVE  Lexical!Next
  <2>1. Settled /\ UNCHANGED << stacks, level, up, frames >>
    BY <1>9 DEF Literal, Identifier, FunctionLiteral, storage
  <2>2. acc' \in Plain \/ acc' = Cur \/ \E n \in Names : acc' = Find(n, Cur)
    BY <1>9 DEF Literal, Identifier, FunctionLiteral
  <2>3. Lexical!Eval
    BY <2>1, <2>2, Evaluates
  <2> QED
    BY <2>3
<1>10. ASSUME NEW captured \in SUBSET Names, NEW self \in SUBSET Names,
              MakeClosure(captured \ self, self)
       PROVE  Lexical!Next
  <2>1. captured \ self \in SUBSET Names
    OBVIOUS
  <2>2. Lexical!CloseOver(captured \ self, self)
    BY <1>10, <2>1, MakeClosureCloses
  <2> QED
    BY <2>1, <2>2
<1>11. ASSUME NEW n \in Names, NEW val \in Plain \cup {acc}, PatchClosureCapture(n, val)
       PROVE  Lexical!Next
  <2>1. Lexical!Patch(n)
    BY <1>11, Patches
  <2> QED
    BY <2>1
<1>12. ASSUME NEW n \in Names, Assign(n) PROVE Lexical!Next
  <2>1. Lexical!Bind(n)
    BY <1>12, Assigns
  <2> QED
    BY <2>1
<1>13. ASSUME NEW v \in Views, NEW n \in Names, PopEntry(v, n) PROVE Lexical!Next
  <2>1. Lexical!Forget
    BY <1>13, PopEntryForgets
  <2> QED
    BY <2>1
<1>14. ASSUME NEW v \in Views, PopDone(v) PROVE Lexical!Next
  <2>1. Lexical!Forget
    BY <1>14, PopDoneForgets
  <2> QED
    BY <2>1
<1> HIDE DEF Lexical!Next
<1> QED
  BY <1>2, <1>3, <1>4, <1>5, <1>6, <1>7, <1>8, <1>9, <1>10, <1>11, <1>12, <1>13, <1>14 DEF Next

LEMMA InitIsLexical == Init => Lexical!Init
<1> SUFFICES ASSUME NEW r \in Views,
                    stacks = [n \in Names |-> << >>],
                    level = [v \in Views |-> IF v = r THEN 1 ELSE 0],
                    up = [v \in Views |-> NoView],
                    frames = << Frame("ctx", r) >>,
                    acc = Undef
             PROVE  Lexical!Init
  BY DEF Init
<1>1. Live = {r} /\ Owned(r) /\ level[r] = 1 /\ up[r] = NoView
  BY DEF Live, Owned, HeldByContext, Frame
<1>2. OwnBindings(stacks, 1) = [n \in {} |-> Undef]
  <2>1. {n \in Names : OfLevel(stacks[n], 1) # {}} = {}
    BY DEF OfLevel
  <2> QED
    BY <2>1 DEF OwnBindings
<1>3. cells = [c \in {r} |-> [up |-> NoView, own |-> [n \in {} |-> Undef]]]
  BY <1>1, <1>2 DEF cells
<1>4. cells = [c \in {r} |-> Lexical!Cell(NoView, Lexical!Bare)]
  BY <1>3 DEF Lexical!Cell, Lexical!Bare
<1> QED
  BY <1>4 DEF Lexical!Init, Frame

(* The refinement: every step of the trail between states whose stacks are *)
(* in level order is a step of lexical scoping with a heap of scopes.      *)
THEOREM ScopingIsLexical == Spec => ImplementsLexicalScoping
<1>1. IInv /\ IInv' /\ [Next]_vars => [(InOrder /\ InOrder') => Lexical!Next]_vars
  <2> SUFFICES ASSUME IInv, IInv', Next, InOrder, InOrder' PROVE Lexical!Next
    OBVIOUS
  <2>1. Ready /\ Ready'
    BY InvParts DEF Ready
  <2> QED
    BY <2>1, NextIsLexical
<1>2. Init => Lexical!Init
  BY InitIsLexical
<1> QED
  BY <1>1, <1>2, IInvHolds, PTL DEF Spec, ImplementsLexicalScoping
=============================================================================
