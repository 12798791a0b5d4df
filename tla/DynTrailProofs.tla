--------------------------- MODULE DynTrailProofs ---------------------------
(***************************************************************************)
(* Theorems about DynTrail.                                                *)
(***************************************************************************)
EXTENDS DynTrail, TrailStorageProofs

-----------------------------------------------------------------------------
(* Storages.                                                               *)

NoEntry == DynEntry(Unset, FALSE)

LEMMA NoEntryTyped == NoEntry \in DynEntries
BY DEF NoEntry, DynEntry, DynEntries

LEMMA RecordSet ==
  ASSUME NEW P, NEW S, NEW st \in [parent : P, stacks : S], NEW q
  PROVE  /\ [st EXCEPT !.parent = q] = [parent |-> q, stacks |-> st.stacks]
         /\ [st EXCEPT !.stacks = q] = [parent |-> st.parent, stacks |-> q]
OBVIOUS

(* What StorageOK says of one stack and of the chain of levels.            *)
LEMMA StorageFacts ==
  ASSUME NEW st, NEW H, StorageOK(st, H)
  PROVE  /\ Chained(st.parent) /\ st.parent \in Seq({Dead} \cup Nat) /\ Len(st.parent) \in Nat
         /\ H \subseteq 1 .. Len(st.parent) /\ H \subseteq Nat \ {0}
         /\ \A l \in H : st.parent[l] \in H \cup {0} /\ st.parent[l] < l
         /\ \A n \in Names : /\ st.stacks[n] \in Stacks(DynEntries, Nat \ {0})
                             /\ Leveled(st.stacks[n]) /\ Ascending(st.stacks[n])
                             /\ \A i \in 1 .. Len(st.stacks[n]) : st.stacks[n][i].level \in H
<1>1. /\ st.parent \in Seq({Dead} \cup Nat) /\ st.stacks \in [Names -> Seq(Entries)]
      /\ Len(st.parent) \in Nat
  BY DEF StorageOK, Storages
<1>2. H \subseteq 1 .. Len(st.parent) /\ H \subseteq Nat \ {0}
  BY <1>1 DEF StorageOK
<1>3. \A l \in H : st.parent[l] \in H \cup {0} /\ st.parent[l] < l
  BY <1>2 DEF StorageOK
<1>4. Chained(st.parent)
  <2>1. ASSUME NEW l \in 1 .. Len(st.parent) PROVE st.parent[l] \in -1 .. (l - 1)
    <3>1. CASE l \in H
      <4>1. st.parent[l] \in H \cup {0} /\ st.parent[l] < l /\ l \in Nat
        BY <1>2, <1>3, <3>1
      <4>2. H \cup {0} \subseteq Nat
        BY <1>2
      <4>3. st.parent[l] \in Nat
        BY <4>1, <4>2
      <4> QED
        BY <4>1, <4>3
    <3>2. CASE l \notin H
      BY <3>2 DEF StorageOK, Dead
    <3> QED
      BY <3>1, <3>2
  <2> QED
    BY <1>1, <2>1 DEF Chained
<1>5. ASSUME NEW n \in Names
      PROVE  /\ st.stacks[n] \in Stacks(DynEntries, Nat \ {0})
             /\ Leveled(st.stacks[n]) /\ Ascending(st.stacks[n])
             /\ \A i \in 1 .. Len(st.stacks[n]) : st.stacks[n][i].level \in H
  <2>1. st.stacks[n] \in Stacks(DynEntries, Nat \ {0})
    BY <1>1 DEF Stacks, Entries
  <2>2. Leveled(st.stacks[n])
    BY <2>1, StackLeveled
  <2> QED
    BY <2>1, <2>2 DEF StorageOK
<1> QED
  BY <1>1, <1>2, <1>3, <1>4, <1>5

(* openLevel: a new live level, above all others; nothing else changes.    *)
LEMMA OpenedOK ==
  ASSUME NEW st, NEW H, StorageOK(st, H), NEW c \in H \cup {0}
  PROVE  /\ StorageOK(Opened(st, c), H \cup {New(Opened(st, c))})
         /\ New(Opened(st, c)) \notin H
         /\ \A l \in H : l < New(Opened(st, c)) /\ Opened(st, c).parent[l] = st.parent[l]
         /\ Opened(st, c).parent[New(Opened(st, c))] = c
         /\ Opened(st, c).stacks = st.stacks
<1> DEFINE o == Opened(st, c)
           n == Len(st.parent) + 1
<1>1. /\ st \in Storages /\ st.parent \in Seq({Dead} \cup Nat) /\ Len(st.parent) \in Nat
      /\ H \subseteq 1 .. Len(st.parent) /\ H \subseteq Nat \ {0}
      /\ \A l \in H : st.parent[l] \in H \cup {0} /\ st.parent[l] < l
  BY StorageFacts DEF StorageOK
<1>2. o = [parent |-> Append(st.parent, c), stacks |-> st.stacks]
  <2>1. o = [st EXCEPT !.parent = Append(st.parent, c)]
    BY DEF Opened, OpenLevel
  <2> HIDE DEF o
  <2> QED
    BY <1>1, <2>1, RecordSet DEF Storages
<1>3. /\ o.parent \in Seq({Dead} \cup Nat) /\ Len(o.parent) = n /\ n \in Nat \ {0}
      /\ \A l \in 1 .. Len(st.parent) : o.parent[l] = st.parent[l]
      /\ o.parent[n] = c
  <2>1. c \in {Dead} \cup Nat
    <3>1. c \in H \/ c = 0
      OBVIOUS
    <3>2. H \subseteq Nat
      BY <1>1
    <3> HIDE DEF o, n
    <3> QED
      BY ONLY <3>1, <3>2
  <2>2. o.parent = Append(st.parent, c)
    BY <1>2
  <2> HIDE DEF o
  <2> QED
    BY <1>1, <2>1, <2>2
<1>4. n \notin H /\ \A l \in H : l < n /\ o.parent[l] = st.parent[l]
  <2> DEFINE len == Len(st.parent)
  <2>1. n = len + 1 /\ len \in Nat /\ H \subseteq 1 .. len
    BY <1>1
  <2>2. \A l \in 1 .. len : o.parent[l] = st.parent[l]
    BY <1>3
  <2> HIDE DEF o, n, len
  <2>3. \A l \in H : l \in 1 .. len /\ l \in Nat /\ l < n
    BY ONLY <2>1
  <2> QED
    BY ONLY <2>1, <2>2, <2>3
<1>5. o \in Storages
  <2>1. st.stacks \in [Names -> Seq(Entries)]
    BY <1>1 DEF Storages
  <2> QED
    BY <1>2, <1>3, <2>1 DEF Storages
<1>6. ASSUME NEW l \in 1 .. Len(o.parent)
      PROVE  IF l \in H \cup {n}
             THEN o.parent[l] \in H \cup {n} \cup {0} /\ o.parent[l] < l
             ELSE o.parent[l] = Dead
  <2> HIDE DEF o
  <2>1. l = n \/ l \in 1 .. Len(st.parent)
    BY <1>1, <1>3
  <2>2. CASE l = n
    BY <1>1, <1>3, <2>2
  <2>3. CASE l \in 1 .. Len(st.parent) /\ l # n
    <3>1. o.parent[l] = st.parent[l]
      BY <1>3, <2>3
    <3>2. CASE l \in H
      BY <1>1, <3>1, <3>2
    <3>3. CASE l \notin H
      BY <2>3, <3>1, <3>3 DEF StorageOK
    <3> QED
      BY <3>2, <3>3
  <2> QED
    BY <2>1, <2>2, <2>3
<1>7. o.stacks = st.stacks
  BY <1>2
<1>8. StorageOK(o, H \cup {n})
  <2> HIDE DEF o
  <2>1. H \cup {n} \subseteq 1 .. Len(o.parent)
    BY <1>1, <1>3
  <2>2. Len(o.parent) \in H \cup {n} \cup {0}
    BY <1>3
  <2>3. ASSUME NEW m \in Names
        PROVE  /\ Ascending(o.stacks[m])
               /\ \A i \in 1 .. Len(o.stacks[m]) : o.stacks[m][i].level \in H \cup {n}
    BY <1>7 DEF StorageOK
  <2> HIDE DEF n
  <2> QED
    BY <1>5, <1>6, <2>1, <2>2, <2>3 DEF StorageOK
<1>9. New(o) = n
  BY <1>3 DEF New
<1> QED
  BY <1>3, <1>4, <1>7, <1>8, <1>9

(* Setting names at level l: every name of C its value of v.               *)
Sets(st, l, C, v) ==
  [parent |-> st.parent,
   stacks |-> [n \in Names |-> IF n \in C THEN SetEntry(st.stacks[n], v[n], l)
                               ELSE st.stacks[n]]]

(* set at the newest level keeps every stack in order.                     *)
LEMMA SetsOK ==
  ASSUME NEW st, NEW H, StorageOK(st, H), NEW l \in H, l = Len(st.parent),
         NEW C, NEW v \in [Names -> DynEntries]
  PROVE  StorageOK(Sets(st, l, C, v), H)
<1> DEFINE t == Sets(st, l, C, v)
<1>1. /\ st \in Storages /\ st.parent \in Seq({Dead} \cup Nat) /\ Len(st.parent) \in Nat
      /\ H \subseteq 1 .. Len(st.parent) /\ H \subseteq Nat \ {0}
      /\ \A n \in Names : /\ st.stacks[n] \in Stacks(DynEntries, Nat \ {0})
                          /\ Ascending(st.stacks[n])
                          /\ \A i \in 1 .. Len(st.stacks[n]) : st.stacks[n][i].level \in H
  BY StorageFacts DEF StorageOK
<1>2. /\ t.parent = st.parent
      /\ t.stacks = [n \in Names |-> IF n \in C THEN SetEntry(st.stacks[n], v[n], l)
                                     ELSE st.stacks[n]]
  BY DEF Sets
<1>3. ASSUME NEW n \in Names
      PROVE  /\ t.stacks[n] \in Stacks(DynEntries, Nat \ {0}) /\ Ascending(t.stacks[n])
             /\ \A i \in 1 .. Len(t.stacks[n]) : t.stacks[n][i].level \in H
  <2>1. CASE n \notin C
    <3>1. t.stacks[n] = st.stacks[n]
      BY <1>2, <2>1
    <3> HIDE DEF t
    <3> QED
      BY <1>1, <3>1
  <2>2. CASE n \in C
    <3> DEFINE s == st.stacks[n]
    <3>1. t.stacks[n] = SetEntry(s, v[n], l)
      BY <1>2, <2>2
    <3>2. ASSUME NEW i \in 1 .. Len(s) PROVE s[i].level <= l
      <4>1. s[i].level \in H
        BY <1>1
      <4>2. s[i].level \in 1 .. l
        BY <1>1, <4>1
      <4> HIDE DEF s
      <4> QED
        BY <4>2
    <3>3. v[n] \in DynEntries /\ l \in Nat \ {0} /\ s \in Stacks(DynEntries, Nat \ {0})
          /\ Ascending(s)
      BY <1>1
    <3> DEFINE L == Nat \ {0}
    <3>4. L \subseteq Nat \ {0}
      OBVIOUS
    <3>5. l \in L /\ s \in Stacks(DynEntries, L)
      BY <3>3
    <3>5a. \A j \in 1 .. Len(s) : s[j].level \in H
      BY <1>1
    <3>6. PICK x \in DynEntries : x = v[n]
      BY <3>3
    <3> HIDE DEF s, L, t
    <3>7. SetEntry(s, x, l) \in Stacks(DynEntries, L) /\ Ascending(SetEntry(s, x, l))
      BY ONLY <3>2, <3>3, <3>4, <3>5, x \in DynEntries, SetEntryInOrder
    <3>7a. \A i \in 1 .. Len(SetEntry(s, x, l)) :
             SetEntry(s, x, l)[i].level \in {l} \cup {s[j].level : j \in 1 .. Len(s)}
      BY ONLY <3>2, <3>3, <3>4, <3>5, x \in DynEntries, SetEntryInOrder
    <3>8. ASSUME NEW i \in 1 .. Len(SetEntry(s, x, l)) PROVE SetEntry(s, x, l)[i].level \in H
      BY <3>5a, <3>7a
    <3> QED
      BY <3>1, <3>6, <3>7, <3>8 DEF L
  <2> QED
    BY <2>1, <2>2
<1>4. t \in Storages
  <2>1. \A n \in Names : t.stacks[n] \in Seq(Entries)
    BY <1>3 DEF Stacks, Entries
  <2>2. t.stacks \in [Names -> Seq(Entries)]
    <3>1. t.stacks = [n \in Names |-> t.stacks[n]]
      BY <1>2
    <3> HIDE DEF t
    <3> QED
      BY <2>1, <3>1
  <2>3. t = [parent |-> t.parent, stacks |-> t.stacks]
    BY DEF Sets
  <2> HIDE DEF t
  <2> QED
    BY <1>1, <1>2, <2>2, <2>3 DEF Storages
<1> HIDE DEF t
<1>5. \A k \in 1 .. Len(st.parent) :
        IF k \in H THEN st.parent[k] \in H \cup {0} /\ st.parent[k] < k
                   ELSE st.parent[k] = Dead
  BY DEF StorageOK
<1>6. Len(st.parent) \in H \cup {0}
  BY DEF StorageOK
<1> QED
  BY <1>1, <1>2, <1>3, <1>4, <1>5, <1>6 DEF StorageOK, t

(* popLevel of a level nothing continues.                                  *)
LEMMA ErasedInOrder ==
  ASSUME NEW L, L \subseteq Nat \ {0}, NEW s \in Stacks(DynEntries, L), Ascending(s), NEW l
  PROVE  /\ Erased(s, l) \in Stacks(DynEntries, L) /\ Ascending(Erased(s, l))
         /\ \A i \in 1 .. Len(Erased(s, l)) :
              Erased(s, l)[i].level \in {s[j].level : j \in 1 .. Len(s)} \ {l}
         /\ \A k, w : Holds(Erased(s, l), k, w) <=> k # l /\ Holds(s, k, w)
<1>1. CASE \E i \in 1 .. Len(s) : LastOfLevel(s, l, i)
  <2>1. PICK i \in 1 .. Len(s) : LastOfLevel(s, l, i) /\ Erased(s, l) = EraseAt(s, i)
    BY <1>1 DEF Erased
  <2>2. s[i].level = l
    BY <2>1 DEF LastOfLevel
  <2>3. /\ EraseAt(s, i) \in Stacks(DynEntries, L) /\ Ascending(EraseAt(s, i))
        /\ \A j \in 1 .. Len(EraseAt(s, i)) :
             EraseAt(s, i)[j].level \in {s[m].level : m \in 1 .. Len(s)} \ {s[i].level}
        /\ \A k, w : Holds(EraseAt(s, i), k, w) <=> k # s[i].level /\ Holds(s, k, w)
    BY EraseInOrder
  <2> QED
    BY <2>1, <2>2, <2>3
<1>2. CASE ~ \E i \in 1 .. Len(s) : LastOfLevel(s, l, i)
  <2>1. Erased(s, l) = s
    BY <1>2 DEF Erased
  <2>2. Len(s) \in Nat /\ \A i \in 1 .. Len(s) : s[i].level \in Nat
    BY StackLeveled DEF Leveled
  <2>3. ASSUME NEW i \in 1 .. Len(s) PROVE s[i].level # l
    <3>1. SUFFICES ASSUME s[i].level = l PROVE FALSE
      OBVIOUS
    <3> DEFINE T == {j \in 1 .. Len(s) : s[j].level = l}
    <3>2. i \in T /\ T \subseteq 0 .. Len(s) /\ T # {}
      BY <3>1, <2>2
    <3>3. PICK j \in T : \A m \in T : m <= j
      <4> HIDE DEF T
      <4> QED
        BY <2>2, <3>2, GreatestNumber
    <3>4. LastOfLevel(s, l, j)
      <4>1. ASSUME NEW m \in (j + 1) .. Len(s) PROVE s[m].level # l
        <5>1. m \in 1 .. Len(s) /\ ~ (m <= j)
          BY <2>2, <3>3
        <5> QED
          BY <3>3, <5>1
      <4> QED
        BY <3>3, <4>1 DEF LastOfLevel
    <3> QED
      BY <1>2, <3>3, <3>4
  <2>4. ASSUME NEW k, NEW w PROVE Holds(s, k, w) => k # l
    BY <2>3 DEF Holds
  <2> QED
    BY <2>1, <2>3, <2>4
<1> QED
  BY <1>1, <1>2

LEMMA ShrunkKeeps ==
  ASSUME NEW st, NEW H, StorageOK(st, H), NEW l \in H
  PROVE  /\ Shrunk(st.parent, l) \in Seq({Dead} \cup Nat) /\ Len(Shrunk(st.parent, l)) \in Nat
         /\ H \ {l} \subseteq 1 .. Len(Shrunk(st.parent, l))
         /\ Len(Shrunk(st.parent, l)) \in (H \ {l}) \cup {0}
         /\ \A m \in 1 .. Len(Shrunk(st.parent, l)) :
              Shrunk(st.parent, l)[m] = IF m \in H \ {l} THEN st.parent[m] ELSE Dead
<1> DEFINE p == st.parent
<1>1. /\ p \in Seq({Dead} \cup Nat) /\ Len(p) \in Nat /\ H \subseteq 1 .. Len(p)
      /\ H \subseteq Nat \ {0} /\ \A m \in H : p[m] \in H \cup {0}
  BY StorageFacts
<1>2. /\ \A m \in 1 .. Len(p) : m \notin H => p[m] = Dead
      /\ Len(p) \in H \cup {0}
  BY DEF StorageOK
<1> HIDE DEF p
<1>3. l \in 1 .. Len(p) /\ Len(p) \in H
  BY <1>1, <1>2
<1>4. \A m \in H : p[m] # Dead
  <2>1. H \cup {0} \subseteq Nat
    BY <1>1
  <2> QED
    BY <1>1, <2>1 DEF Dead
<1>5. PICK k \in 0 .. Len(p) : ShrinksTo(p, l, k) /\ Shrunk(p, l) = MarkDead(p, l, k)
  <2>1. \E k \in 0 .. Len(p) : ShrinksTo(p, l, k)
    BY <1>1, <1>3, ShrinkExists
  <2> QED
    BY <2>1 DEF Shrunk
<1>6. /\ MarkDead(p, l, k) \in Seq({Dead} \cup Nat)
      /\ Len(MarkDead(p, l, k)) = k
  BY <1>1, <1>3, <1>5, MarkDeadKeeps
<1>7. \A m \in 1 .. k : MarkDead(p, l, k)[m] = IF m = l THEN Dead ELSE p[m]
  BY <1>1, <1>3, <1>5, MarkDeadKeeps
<1>8. /\ \A m \in (k + 1) .. Len(p) : m = l \/ p[m] = Dead
      /\ k > 0 /\ p[Len(p)] # Dead => k # l /\ p[k] # Dead
  BY <1>1, <1>3, <1>5, MarkDeadKeeps
<1>9. ASSUME NEW h \in H \ {l} PROVE h \in 1 .. k
  <2>1. h \in 1 .. Len(p) /\ p[h] # Dead /\ h # l
    BY <1>1, <1>4
  <2>2. h \notin (k + 1) .. Len(p)
    BY <1>8, <2>1
  <2> QED
    BY <1>1, <2>1, <2>2
<1>10. k \in (H \ {l}) \cup {0}
  <2>1. SUFFICES ASSUME k > 0 PROVE k \in H /\ k # l
    BY <1>5
  <2>2. k # l /\ p[k] # Dead
    BY <1>3, <1>4, <1>8, <2>1
  <2>3. k \in 1 .. Len(p)
    BY <1>1, <2>1
  <2> QED
    BY <1>2, <2>2, <2>3
<1>11. ASSUME NEW m \in 1 .. k
       PROVE  MarkDead(p, l, k)[m] = IF m \in H \ {l} THEN p[m] ELSE Dead
  <2>1. m \in 1 .. Len(p)
    BY <1>1
  <2> QED
    BY <1>2, <1>7, <2>1
<1> QED
  BY <1>5, <1>6, <1>9, <1>10, <1>11 DEF p

LEMMA PoppedOK ==
  ASSUME NEW st, NEW H, StorageOK(st, H), NEW l \in H, \A k \in H \ {l} : st.parent[k] # l
  PROVE  /\ StorageOK(Popped(st, l), H \ {l})
         /\ \A k \in H \ {l} : Popped(st, l).parent[k] = st.parent[k]
<1> DEFINE t == Popped(st, l)
           q == Shrunk(st.parent, l)
<1>1. /\ q \in Seq({Dead} \cup Nat) /\ Len(q) \in Nat
      /\ H \ {l} \subseteq 1 .. Len(q) /\ Len(q) \in (H \ {l}) \cup {0}
      /\ \A m \in 1 .. Len(q) : q[m] = IF m \in H \ {l} THEN st.parent[m] ELSE Dead
  BY ShrunkKeeps
<1>2. t = [parent |-> q, stacks |-> [n \in Names |-> Erased(st.stacks[n], l)]]
  BY DEF Popped
<1>3. t.parent = q /\ t.stacks = [n \in Names |-> Erased(st.stacks[n], l)]
  BY <1>2
<1>4. /\ H \subseteq Nat \ {0}
      /\ \A k \in H : st.parent[k] \in H \cup {0} /\ st.parent[k] < k
      /\ \A n \in Names : /\ st.stacks[n] \in Stacks(DynEntries, Nat \ {0})
                          /\ Ascending(st.stacks[n])
                          /\ \A i \in 1 .. Len(st.stacks[n]) : st.stacks[n][i].level \in H
  BY StorageFacts
<1>5. ASSUME NEW n \in Names
      PROVE  /\ t.stacks[n] \in Stacks(DynEntries, Nat \ {0}) /\ Ascending(t.stacks[n])
             /\ \A i \in 1 .. Len(t.stacks[n]) : t.stacks[n][i].level \in H \ {l}
  <2> DEFINE s == st.stacks[n]
             L == Nat \ {0}
  <2>1. t.stacks[n] = Erased(s, l)
    BY <1>3
  <2>2. s \in Stacks(DynEntries, L) /\ L \subseteq Nat \ {0} /\ Ascending(s)
        /\ \A i \in 1 .. Len(s) : s[i].level \in H
    BY <1>4
  <2> HIDE DEF s, L, t
  <2>3. Erased(s, l) \in Stacks(DynEntries, L) /\ Ascending(Erased(s, l))
    BY ONLY <2>2, ErasedInOrder
  <2>4. \A i \in 1 .. Len(Erased(s, l)) :
          Erased(s, l)[i].level \in {s[j].level : j \in 1 .. Len(s)} \ {l}
    BY ONLY <2>2, ErasedInOrder
  <2>5. ASSUME NEW i \in 1 .. Len(Erased(s, l)) PROVE Erased(s, l)[i].level \in H \ {l}
    BY <2>2, <2>4
  <2> QED
    BY <2>1, <2>3, <2>5 DEF L
<1>6. t \in Storages
  <2>1. \A n \in Names : t.stacks[n] \in Seq(Entries)
    BY <1>5 DEF Stacks, Entries
  <2>2. t.stacks \in [Names -> Seq(Entries)]
    <3>1. t.stacks = [n \in Names |-> t.stacks[n]]
      BY <1>3
    <3> HIDE DEF t
    <3> QED
      BY <2>1, <3>1
  <2>3. t = [parent |-> t.parent, stacks |-> t.stacks]
    BY <1>2, <1>3
  <2> HIDE DEF t, q
  <2> QED
    BY <1>1, <1>3, <2>2, <2>3 DEF Storages
<1>7. ASSUME NEW k \in H \ {l}
      PROVE  q[k] = st.parent[k] /\ q[k] \in (H \ {l}) \cup {0} /\ q[k] < k
  <2>1. q[k] = st.parent[k]
    BY <1>1
  <2> HIDE DEF q
  <2> QED
    BY <1>4, <2>1
<1> HIDE DEF t, q
<1> QED
  BY <1>1, <1>3, <1>5, <1>6, <1>7 DEF StorageOK, t

-----------------------------------------------------------------------------
(* What a level shows, after each of the three.                            *)

LEMMA FindIsShown ==
  ASSUME NEW st, NEW n, NEW l
  PROVE  Find(st, n, l) = Shown(st.parent, st.stacks[n], l, NoEntry)
BY DEF Find, Shown, NoEntry

(* ShownSame, for two storages.                                            *)
LEMMA FindSame ==
  ASSUME NEW st, NEW H, StorageOK(st, H), NEW t, NEW G, StorageOK(t, G),
         NEW K, NEW n \in Names,
         Agree(st.parent, st.stacks[n], t.parent, t.stacks[n], K)
  PROVE  \A l \in K : Find(st, n, l) = Find(t, n, l)
<1> DEFINE p == st.parent
           s == st.stacks[n]
           q == t.parent
           u == t.stacks[n]
<1>1. /\ Chained(p) /\ Leveled(s) /\ Ascending(s)
      /\ Chained(q) /\ Leveled(u) /\ Ascending(u)
  BY StorageFacts
<1>3. Agree(p, s, q, u, K)
  OBVIOUS
<1>5. PICK none : none = NoEntry
  OBVIOUS
<1> HIDE DEF p, s, q, u
<1>6. ASSUME NEW l \in K \cup {0} PROVE Shown(p, s, l, none) = Shown(q, u, l, none)
  BY ONLY l \in K \cup {0}, <1>1, <1>3, ShownSame
<1> QED
  BY <1>5, <1>6, FindIsShown DEF p, s, q, u

LEMMA OpenedShows ==
  ASSUME NEW st, NEW H, StorageOK(st, H), NEW c \in H \cup {0}, NEW n \in Names
  PROVE  /\ \A l \in H : Find(Opened(st, c), n, l) = Find(st, n, l)
         /\ Find(Opened(st, c), n, New(Opened(st, c))) = Find(st, n, c)
<1> DEFINE o == Opened(st, c)
           m == New(o)
           G == H \cup {m}
<1>1. /\ StorageOK(o, G) /\ o.stacks = st.stacks /\ o.parent[m] = c
      /\ \A l \in H : o.parent[l] = st.parent[l]
      /\ m \notin H
  BY OpenedOK
<1>2. /\ \A l \in H : st.parent[l] \in H \cup {0}
      /\ Chained(st.parent) /\ Leveled(st.stacks[n])
      /\ \A i \in 1 .. Len(st.stacks[n]) : st.stacks[n][i].level \in H
  BY StorageFacts
<1> HIDE DEF o, m
<1>3. \A l \in H : Find(st, n, l) = Find(o, n, l)
  <2>1. \A l \in H : st.parent[l] = o.parent[l] /\ st.parent[l] \in H \cup {0}
    BY <1>1, <1>2
  <2>2. H \subseteq 1 .. Len(st.parent) /\ H \subseteq 1 .. Len(o.parent)
    <3>1. H \subseteq 1 .. Len(st.parent) /\ G \subseteq 1 .. Len(o.parent)
      BY <1>1, StorageFacts
    <3> QED
      BY <3>1
  <2>3. Agree(st.parent, st.stacks[n], o.parent, o.stacks[n], H)
    BY <1>1, <2>1, <2>2 DEF Agree
  <2> HIDE DEF G
  <2> QED
    BY <1>1, <2>3, FindSame
<1>4. Find(o, n, m) = Find(o, n, c)
  <2> DEFINE p == o.parent
             s == o.stacks[n]
  <2>1. /\ Chained(p) /\ Leveled(s) /\ Ascending(s) /\ m \in 1 .. Len(p)
    BY <1>1, StorageFacts
  <2>2. Bare(s, m)
    BY <1>1, <1>2 DEF Bare
  <2>3. PICK none : none = NoEntry
    OBVIOUS
  <2> HIDE DEF p, s
  <2>4. Shown(p, s, m, none) = Shown(p, s, p[m], none)
    BY ONLY <2>1, <2>2, ShownAbove
  <2> QED
    BY <1>1, <2>3, <2>4, FindIsShown DEF p, s
<1>5. CASE c \in H
  BY <1>3, <1>4, <1>5 DEF o, m
<1>6. CASE c = 0
  <2>1. Chained(o.parent) /\ Leveled(o.stacks[n])
    BY <1>1, StorageFacts
  <2>2. Shown(o.parent, o.stacks[n], c, NoEntry) = NoEntry
    BY <1>6, <2>1, ShownNone
  <2>3. Shown(st.parent, st.stacks[n], c, NoEntry) = NoEntry
    BY <1>6, <1>2, ShownNone
  <2>4. Find(o, n, c) = Find(st, n, c)
    BY <2>2, <2>3, FindIsShown
  <2> QED
    BY <1>3, <1>4, <2>4 DEF o, m
<1> QED
  BY <1>5, <1>6

LEMMA SetsShow ==
  ASSUME NEW st, NEW H, StorageOK(st, H), NEW l \in H, l = Len(st.parent),
         NEW C, NEW v \in [Names -> DynEntries], NEW n \in Names
  PROVE  /\ \A k \in H \ {l} : Find(Sets(st, l, C, v), n, k) = Find(st, n, k)
         /\ Find(Sets(st, l, C, v), n, l) = IF n \in C THEN v[n] ELSE Find(st, n, l)
<1> DEFINE t == Sets(st, l, C, v)
           s == st.stacks[n]
           L == Nat \ {0}
<1>1. StorageOK(t, H)
  BY SetsOK
<1>2. /\ Chained(st.parent) /\ Leveled(s) /\ Ascending(s) /\ H \subseteq 1 .. Len(st.parent)
      /\ s \in Stacks(DynEntries, L) /\ L \subseteq Nat \ {0}
      /\ \A i \in 1 .. Len(s) : s[i].level \in H
      /\ \A k \in H : st.parent[k] \in H \cup {0} /\ st.parent[k] < k
      /\ Len(st.parent) \in Nat
  BY StorageFacts
<1>3. t.parent = st.parent /\ t.stacks[n] = IF n \in C THEN SetEntry(s, v[n], l) ELSE s
  BY DEF Sets
<1>4. PICK x \in DynEntries : x = v[n]
  OBVIOUS
<1>5. \A k, w : n \in C =>
        (Holds(t.stacks[n], k, w) <=> IF k = l THEN w = x ELSE Holds(s, k, w))
  <2>1. SUFFICES ASSUME n \in C
        PROVE \A k, w : Holds(t.stacks[n], k, w) <=> IF k = l THEN w = x ELSE Holds(s, k, w)
    OBVIOUS
  <2>2. t.stacks[n] = SetEntry(s, x, l)
    BY <1>3, <1>4, <2>1
  <2>3. ASSUME NEW i \in 1 .. Len(s) PROVE s[i].level <= l
    <3>1. s[i].level \in 1 .. l
      BY <1>2
    <3> HIDE DEF s
    <3> QED
      BY <3>1
  <2>4. l \in L
    BY <1>2
  <2> HIDE DEF s, L, t
  <2>5. HoldsNow(s, SetEntry(s, x, l), l, x)
    BY ONLY <1>2, <2>3, <2>4, x \in DynEntries, SetEntryInOrder
  <2> QED
    BY <2>2, <2>5 DEF HoldsNow
<1> HIDE DEF t, s, L
<1>6. \A k \in H \ {l} : Find(st, n, k) = Find(t, n, k)
  <2> DEFINE K == H \ {l}
  <2>1. ASSUME NEW k \in K PROVE st.parent[k] = t.parent[k] /\ st.parent[k] \in K \cup {0}
    <3>1. k \in 1 .. l /\ st.parent[k] < k /\ st.parent[k] \in H \cup {0}
      BY <1>2
    <3>2. l \in Nat
      BY <1>2
    <3>3. st.parent[k] # l
      BY <3>1, <3>2
    <3> QED
      BY <1>3, <3>1, <3>3
  <2>2. ASSUME NEW k \in K, NEW w PROVE Holds(st.stacks[n], k, w) <=> Holds(t.stacks[n], k, w)
    BY <1>3, <1>5 DEF s
  <2>3. K \subseteq 1 .. Len(st.parent) /\ K \subseteq 1 .. Len(t.parent)
    BY <1>2, <1>3
  <2>5. Agree(st.parent, st.stacks[n], t.parent, t.stacks[n], K)
    BY <2>1, <2>2, <2>3 DEF Agree
  <2> HIDE DEF K
  <2>4. \A k \in K : Find(st, n, k) = Find(t, n, k)
    BY <1>1, <2>5, FindSame
  <2> QED
    BY <2>4 DEF K
<1>7. CASE n \notin C
  <2>1. Find(t, n, l) = Find(st, n, l)
    BY <1>3, <1>7, FindIsShown DEF s
  <2> QED
    BY <1>6, <1>7, <2>1 DEF t
<1>8. CASE n \in C
  <2>1. Holds(t.stacks[n], l, x)
    BY <1>5, <1>8
  <2> DEFINE p == t.parent
             u == t.stacks[n]
  <2>2. Chained(p) /\ Leveled(u) /\ Ascending(u) /\ l \in 1 .. Len(p)
    BY <1>1, StorageFacts
  <2>3. PICK none : none = NoEntry
    OBVIOUS
  <2> HIDE DEF p, u
  <2>4. Shown(p, u, l, none) = x
    BY <2>1, <2>2, ShownHere DEF u
  <2>5. Find(t, n, l) = x
    BY <2>3, <2>4, FindIsShown DEF p, u
  <2> QED
    BY <1>4, <1>6, <1>8, <2>5 DEF t
<1> QED
  BY <1>7, <1>8

LEMMA PoppedShows ==
  ASSUME NEW st, NEW H, StorageOK(st, H), NEW l \in H, \A k \in H \ {l} : st.parent[k] # l,
         NEW n \in Names
  PROVE  \A k \in H \ {l} : Find(Popped(st, l), n, k) = Find(st, n, k)
<1> DEFINE t == Popped(st, l)
           K == H \ {l}
           s == st.stacks[n]
           L == Nat \ {0}
<1>1. StorageOK(t, K) /\ \A k \in K : t.parent[k] = st.parent[k]
  BY PoppedOK
<1>2. /\ \A k \in H : st.parent[k] \in H \cup {0}
      /\ s \in Stacks(DynEntries, L) /\ Ascending(s) /\ L \subseteq Nat \ {0}
  BY StorageFacts
<1>3. t.stacks[n] = Erased(s, l)
  BY DEF Popped
<1>4. ASSUME NEW k \in K PROVE st.parent[k] = t.parent[k] /\ st.parent[k] \in K \cup {0}
  BY <1>1, <1>2
<1>5. ASSUME NEW k \in K, NEW w PROVE Holds(st.stacks[n], k, w) <=> Holds(t.stacks[n], k, w)
  <2> HIDE DEF t, s, L
  <2>1. \A j, u : Holds(Erased(s, l), j, u) <=> j # l /\ Holds(s, j, u)
    BY ONLY <1>2, ErasedInOrder
  <2>2. k # l
    OBVIOUS
  <2> QED
    BY <1>3, <2>1, <2>2 DEF s
<1>6. K \subseteq 1 .. Len(st.parent) /\ K \subseteq 1 .. Len(t.parent)
  <2>1. H \subseteq 1 .. Len(st.parent) /\ K \subseteq 1 .. Len(t.parent)
    BY <1>1, StorageFacts
  <2> QED
    BY <2>1
<1>8. Agree(st.parent, st.stacks[n], t.parent, t.stacks[n], K)
  BY <1>4, <1>5, <1>6 DEF Agree
<1> HIDE DEF t, K
<1>7. \A k \in K : Find(st, n, k) = Find(t, n, k)
  BY <1>1, <1>8, FindSame
<1> QED
  BY <1>7 DEF t, K

-----------------------------------------------------------------------------
(* Frames.                                                                 *)

ScopeAt(fs, i, j) == fs[i].chain[j].scope

LEMMA FrameFacts ==
  ASSUME NEW fs \in Seq(Frames)
  PROVE  /\ Len(fs) \in Nat /\ DOMAIN fs = 1 .. Len(fs)
         /\ \A i \in 1 .. Len(fs) :
              /\ fs[i] \in Frames /\ fs[i].chain \in Seq(Contexts)
              /\ Len(fs[i].chain) \in Nat /\ DOMAIN fs[i].chain = 1 .. Len(fs[i].chain)
              /\ fs[i].held \in SUBSET Scopes
<1>1. Len(fs) \in Nat /\ DOMAIN fs = 1 .. Len(fs) /\ \A i \in 1 .. Len(fs) : fs[i] \in Frames
  OBVIOUS
<1>2. ASSUME NEW f \in Frames
      PROVE  /\ f.chain \in Seq(Contexts) /\ f.held \in SUBSET Scopes
             /\ Len(f.chain) \in Nat /\ DOMAIN f.chain = 1 .. Len(f.chain)
  <2>1. f.chain \in Seq(Contexts) /\ f.held \in SUBSET Scopes
    BY DEF Frames
  <2> QED
    BY <2>1
<1> QED
  BY <1>1, <1>2

(* One of the first n frames holds s.                                      *)
HeldBy(fs, n, s) ==
  \E i \in 1 .. n : \/ s \in fs[i].held
                    \/ \E j \in 1 .. Len(fs[i].chain) : s = ScopeAt(fs, i, j)

LEMMA InHeld ==
  ASSUME NEW fs \in Seq(Frames), NEW s
  PROVE  s \in Held(fs) <=> HeldBy(fs, Len(fs), s)
<1>1. ASSUME NEW i \in 1 .. Len(fs)
      PROVE  s \in ScopesOf(fs[i]) <=>
               s \in fs[i].held \/ \E j \in 1 .. Len(fs[i].chain) : s = ScopeAt(fs, i, j)
  <2>1. DOMAIN fs[i].chain = 1 .. Len(fs[i].chain)
    BY FrameFacts
  <2> QED
    BY <2>1 DEF ScopesOf, ScopeAt
<1>2. s \in Held(fs) <=> \E i \in 1 .. Len(fs) : s \in ScopesOf(fs[i])
  <2>1. DOMAIN fs = 1 .. Len(fs)
    BY FrameFacts
  <2> QED
    BY <2>1 DEF Held
<1> QED
  BY <1>1, <1>2 DEF HeldBy

LEMMA InEarlier ==
  ASSUME NEW fs \in Seq(Frames), NEW i \in 1 .. (Len(fs) + 1), NEW s
  PROVE  s \in Earlier(fs, i) <=> HeldBy(fs, i - 1, s)
<1>1. ASSUME NEW m \in 1 .. (i - 1)
      PROVE  s \in ScopesOf(fs[m]) <=>
               s \in fs[m].held \/ \E j \in 1 .. Len(fs[m].chain) : s = ScopeAt(fs, m, j)
  <2>0. m \in 1 .. Len(fs)
    BY FrameFacts
  <2>1. DOMAIN fs[m].chain = 1 .. Len(fs[m].chain)
    BY <2>0, FrameFacts
  <2> QED
    BY <2>1 DEF ScopesOf, ScopeAt
<1>2. s \in Earlier(fs, i) <=> \E m \in 1 .. (i - 1) : s \in ScopesOf(fs[m])
  BY DEF Earlier
<1> QED
  BY <1>1, <1>2 DEF HeldBy

LEMMA InBefore ==
  ASSUME NEW fs, NEW i, NEW j, NEW s
  PROVE  s \in Before(fs, i, j) <=>
           s \in Earlier(fs, i) \/ s \in fs[i].held \/ \E m \in 1 .. (j - 1) : s = ScopeAt(fs, i, m)
BY DEF Before, ScopeAt

(* Everything that came before is held.                                    *)
LEMMA BeforeHeld ==
  ASSUME NEW fs \in Seq(Frames), NEW i \in 1 .. Len(fs), NEW j \in 1 .. (Len(fs[i].chain) + 1)
  PROVE  /\ Earlier(fs, i) \subseteq Before(fs, i, j) /\ fs[i].held \subseteq Before(fs, i, j)
         /\ Before(fs, i, j) \subseteq Held(fs)
         /\ j \in 1 .. Len(fs[i].chain) => ScopeAt(fs, i, j) \in Held(fs)
<1>0. Len(fs) \in Nat /\ Len(fs[i].chain) \in Nat
  BY FrameFacts
<1>1. ASSUME NEW s \in Before(fs, i, j) PROVE s \in Held(fs)
  <2>1. CASE s \in Earlier(fs, i)
    <3>1. PICK m \in 1 .. (i - 1) : \/ s \in fs[m].held
                                    \/ \E k \in 1 .. Len(fs[m].chain) : s = ScopeAt(fs, m, k)
      <4>1. i \in 1 .. (Len(fs) + 1)
        BY <1>0
      <4> QED
        BY <2>1, <4>1, InEarlier DEF HeldBy
    <3>2. m \in 1 .. Len(fs)
      BY <1>0
    <3> QED
      BY <3>1, <3>2, InHeld DEF HeldBy
  <2>2. CASE s \in fs[i].held
    BY <2>2, InHeld DEF HeldBy
  <2>3. CASE \E m \in 1 .. (j - 1) : s = ScopeAt(fs, i, m)
    <3>1. PICK m \in 1 .. (j - 1) : s = ScopeAt(fs, i, m)
      BY <2>3
    <3>2. m \in 1 .. Len(fs[i].chain)
      BY <1>0
    <3> QED
      BY <3>1, <3>2, InHeld DEF HeldBy
  <2> QED
    BY <2>1, <2>2, <2>3, InBefore
<1>2. Earlier(fs, i) \subseteq Before(fs, i, j) /\ fs[i].held \subseteq Before(fs, i, j)
  BY DEF Before
<1>3. j \in 1 .. Len(fs[i].chain) => ScopeAt(fs, i, j) \in Held(fs)
  BY InHeld DEF HeldBy
<1> QED
  BY <1>1, <1>2, <1>3

-----------------------------------------------------------------------------
(* The order of scopes, when frames come or go.                            *)

(* The levels of R and what they continue are the same.                    *)
SameLevels(p, lv, q, kv, R) == \A s \in R : kv[s] = lv[s] /\ q[kv[s]] = p[lv[s]]

LEMMA ContinuesKept ==
  ASSUME NEW p, NEW lv, NEW q, NEW kv, NEW R, NEW s, NEW T, R \subseteq T, s \in T,
         SameLevels(p, lv, q, kv, T), Continues(p, lv, s, R)
  PROVE  Continues(q, kv, s, R)
<1>1. \A r \in R : kv[r] = lv[r]
  BY DEF SameLevels
<1>2. q[kv[s]] = p[lv[s]]
  BY DEF SameLevels
<1>3. Levels(kv, R) = Levels(lv, R)
  BY <1>1 DEF Levels
<1> QED
  BY <1>2, <1>3 DEF Continues

LEMMA ContinuesMore ==
  ASSUME NEW p, NEW lv, NEW R, NEW T, R \subseteq T, NEW s, Continues(p, lv, s, R)
  PROVE  Continues(p, lv, s, T)
BY DEF Continues, Levels

(* fs and gs are the same up to context n of frame i.                      *)
SameUpTo(fs, gs, i, n) ==
  /\ \A m \in 1 .. (i - 1) : gs[m] = fs[m]
  /\ gs[i].held = fs[i].held
  /\ \A m \in 1 .. n : gs[i].chain[m] = fs[i].chain[m]

LEMMA SamePast ==
  ASSUME NEW fs, NEW gs, NEW i \in Nat, NEW j \in Nat, SameUpTo(fs, gs, i, j)
  PROVE  Earlier(gs, i) = Earlier(fs, i) /\ Before(gs, i, j) = Before(fs, i, j)
<1>1. Earlier(gs, i) = Earlier(fs, i)
  BY DEF Earlier, SameUpTo
<1>2. \A m \in 1 .. (j - 1) : gs[i].chain[m] = fs[i].chain[m]
  <2>1. 1 .. (j - 1) \subseteq 1 .. j
    OBVIOUS
  <2> QED
    BY <2>1 DEF SameUpTo
<1>3. {gs[i].chain[m].scope : m \in 1 .. (j - 1)} = {fs[i].chain[m].scope : m \in 1 .. (j - 1)}
  BY <1>2
<1> QED
  BY <1>1, <1>3 DEF Before, SameUpTo

LEMMA OrderKept ==
  ASSUME NEW fs \in Seq(Frames), NEW gs \in Seq(Frames), NEW p, NEW lv, NEW q, NEW kv,
         ScopesInOrder(fs, p, lv), SameLevels(p, lv, q, kv, Held(fs) \cap Held(gs)),
         NEW i \in 1 .. Len(fs), i \in 1 .. Len(gs),
         NEW j \in 1 .. Len(fs[i].chain), j \in 1 .. Len(gs[i].chain), SameUpTo(fs, gs, i, j)
  PROVE  HeldInOrder(gs, q, kv, i) /\ ContextInOrder(gs, q, kv, i, j)
<1> DEFINE T == Held(fs) \cap Held(gs)
           s == ScopeAt(fs, i, j)
           B == Before(fs, i, j)
           E == Earlier(fs, i)
<1>0. Len(fs) \in Nat /\ Len(gs) \in Nat /\ Len(fs[i].chain) \in Nat /\ Len(gs[i].chain) \in Nat
  BY FrameFacts
<1>1. E = Earlier(gs, i) /\ B = Before(gs, i, j) /\ s = ScopeAt(gs, i, j)
      /\ gs[i].held = fs[i].held
  <2>1. i \in Nat /\ j \in Nat /\ j \in 1 .. j
    BY <1>0
  <2> QED
    BY <2>1, SamePast DEF SameUpTo, ScopeAt
<1>2. B \subseteq T /\ s \in T /\ E \subseteq T /\ fs[i].held \subseteq T
  <2>1. j \in 1 .. (Len(fs[i].chain) + 1) /\ j \in 1 .. (Len(gs[i].chain) + 1)
    BY <1>0
  <2>2. /\ E \subseteq B /\ fs[i].held \subseteq B /\ B \subseteq Held(fs) /\ s \in Held(fs)
    BY <2>1, BeforeHeld
  <2>3. Before(gs, i, j) \subseteq Held(gs) /\ ScopeAt(gs, i, j) \in Held(gs)
    BY <2>1, BeforeHeld
  <2> QED
    BY <1>1, <2>2, <2>3
<1>3. HeldInOrder(fs, p, lv, i) /\ ContextInOrder(fs, p, lv, i, j)
  BY DEF ScopesInOrder
<1> HIDE DEF T
<1>4. HeldInOrder(gs, q, kv, i)
  <2>1. ASSUME NEW e \in fs[i].held PROVE Continues(q, kv, e, E)
    <3>1. e \in T /\ Continues(p, lv, e, E)
      BY <1>2, <1>3 DEF HeldInOrder
    <3> HIDE DEF E
    <3> QED
      BY <1>2, <3>1, ContinuesKept DEF T
  <2> QED
    BY <1>1, <1>3, <2>1 DEF HeldInOrder
<1>5. ContextInOrder(gs, q, kv, i, j)
  <2>1. Continues(p, lv, s, B) /\ \A r \in B : lv[r] <= lv[s]
    BY <1>3 DEF ContextInOrder, ScopeAt
  <2>2. \A r \in T : kv[r] = lv[r]
    BY DEF SameLevels, T
  <2> HIDE DEF B, s
  <2>3. Continues(q, kv, s, B)
    BY <1>2, <2>1, ContinuesKept DEF T
  <2>4. \A r \in B : kv[r] <= kv[s]
    BY <1>2, <2>1, <2>2
  <2> QED
    BY <1>1, <2>3, <2>4 DEF ContextInOrder, ScopeAt, B, s
<1> QED
  BY <1>4, <1>5

(* What is held at a time continues only what is.                          *)
Closed(p, lv, R) == \A s \in R : Continues(p, lv, s, R)

LEMMA PastClosed ==
  ASSUME NEW fs \in Seq(Frames), NEW p, NEW lv, ScopesInOrder(fs, p, lv),
         NEW i \in 1 .. Len(fs), NEW j \in 1 .. (Len(fs[i].chain) + 1)
  PROVE  Closed(p, lv, Earlier(fs, i)) /\ Closed(p, lv, Before(fs, i, j))
<1>0. Len(fs) \in Nat /\ Len(fs[i].chain) \in Nat /\ i \in 1 .. (Len(fs) + 1)
  BY FrameFacts
<1>1. ASSUME NEW m \in 1 .. Len(fs)
      PROVE  /\ \A e \in fs[m].held : Continues(p, lv, e, Earlier(fs, m))
             /\ \A k \in 1 .. Len(fs[m].chain) :
                  Continues(p, lv, ScopeAt(fs, m, k), Before(fs, m, k))
  BY DEF ScopesInOrder, HeldInOrder, ContextInOrder, ScopeAt
<1>2. ASSUME NEW m \in 1 .. (i - 1), NEW k \in 1 .. (Len(fs[m].chain) + 1)
      PROVE  /\ m \in 1 .. Len(fs)
             /\ Earlier(fs, m) \subseteq Earlier(fs, i) /\ Before(fs, m, k) \subseteq Earlier(fs, i)
  <2>1. m \in 1 .. Len(fs) /\ Len(fs[m].chain) \in Nat /\ m \in 1 .. (Len(fs) + 1)
    BY <1>0, FrameFacts
  <2>2. ASSUME NEW s \in Earlier(fs, m) PROVE s \in Earlier(fs, i)
    <3>1. PICK o \in 1 .. (m - 1) : \/ s \in fs[o].held
                                    \/ \E l \in 1 .. Len(fs[o].chain) : s = ScopeAt(fs, o, l)
      BY <2>1, InEarlier DEF HeldBy
    <3>2. o \in 1 .. (i - 1)
      BY <2>1
    <3> QED
      BY <1>0, <3>1, <3>2, InEarlier DEF HeldBy
  <2>3. ASSUME NEW s \in Before(fs, m, k) PROVE s \in Earlier(fs, i)
    <3>1. CASE s \in Earlier(fs, m)
      BY <2>2, <3>1
    <3>2. CASE s \in fs[m].held
      BY <1>0, <3>2, InEarlier DEF HeldBy
    <3>3. CASE \E o \in 1 .. (k - 1) : s = ScopeAt(fs, m, o)
      <4>1. \E o \in 1 .. Len(fs[m].chain) : s = ScopeAt(fs, m, o)
        BY <2>1, <3>3
      <4> QED
        BY <1>0, <4>1, InEarlier DEF HeldBy
    <3> QED
      BY <3>1, <3>2, <3>3, InBefore
  <2> QED
    BY <2>1, <2>2, <2>3
<1>3. ASSUME NEW s \in Earlier(fs, i) PROVE Continues(p, lv, s, Earlier(fs, i))
  <2>1. PICK m \in 1 .. (i - 1) : \/ s \in fs[m].held
                                  \/ \E k \in 1 .. Len(fs[m].chain) : s = ScopeAt(fs, m, k)
    BY <1>0, InEarlier DEF HeldBy
  <2>2. m \in 1 .. Len(fs) /\ Len(fs[m].chain) \in Nat
    BY <1>0, FrameFacts
  <2>3. CASE s \in fs[m].held
    <3>1. Continues(p, lv, s, Earlier(fs, m))
      BY <1>1, <2>2, <2>3
    <3>2. Earlier(fs, m) \subseteq Earlier(fs, i)
      <4>1. 1 \in 1 .. (Len(fs[m].chain) + 1)
        BY <2>2
      <4> QED
        BY <1>2, <4>1
    <3> QED
      BY <3>1, <3>2, ContinuesMore
  <2>4. CASE \E k \in 1 .. Len(fs[m].chain) : s = ScopeAt(fs, m, k)
    <3>1. PICK k \in 1 .. Len(fs[m].chain) : s = ScopeAt(fs, m, k)
      BY <2>4
    <3>2. k \in 1 .. (Len(fs[m].chain) + 1)
      BY <2>2
    <3>3. Continues(p, lv, s, Before(fs, m, k))
      BY <1>1, <2>2, <3>1
    <3>4. Before(fs, m, k) \subseteq Earlier(fs, i)
      BY <1>2, <3>2
    <3> QED
      BY <3>3, <3>4, ContinuesMore
  <2> QED
    BY <2>1, <2>3, <2>4
<1>4. ASSUME NEW s \in Before(fs, i, j) PROVE Continues(p, lv, s, Before(fs, i, j))
  <2>1. Earlier(fs, i) \subseteq Before(fs, i, j)
    BY BeforeHeld
  <2>2. CASE s \in Earlier(fs, i)
    BY <1>3, <2>1, <2>2, ContinuesMore
  <2>3. CASE s \in fs[i].held
    <3>1. Continues(p, lv, s, Earlier(fs, i))
      BY <1>1, <2>3
    <3> QED
      BY <2>1, <3>1, ContinuesMore
  <2>4. CASE \E m \in 1 .. (j - 1) : s = ScopeAt(fs, i, m)
    <3>1. PICK m \in 1 .. (j - 1) : s = ScopeAt(fs, i, m)
      BY <2>4
    <3>2. m \in 1 .. Len(fs[i].chain) /\ 1 .. (m - 1) \subseteq 1 .. (j - 1)
      BY <1>0
    <3>3. Continues(p, lv, s, Before(fs, i, m))
      BY <1>1, <3>1, <3>2
    <3>4. Before(fs, i, m) \subseteq Before(fs, i, j)
      BY <3>2 DEF Before
    <3> QED
      BY <3>3, <3>4, ContinuesMore
  <2> QED
    BY <2>2, <2>3, <2>4, InBefore
<1> QED
  BY <1>3, <1>4 DEF Closed

-----------------------------------------------------------------------------
(* A frame is pushed.                                                      *)

Kinds == {"root", "function", "module", "forward"}

(* f has c for its only context.                                           *)
OnlyContext(f, c) ==
  /\ 1 \in 1 .. Len(f.chain) /\ f.chain[1] = c
  /\ \A j \in 1 .. Len(f.chain) : j = 1

LEMMA FrameIs ==
  ASSUME NEW k \in Kinds, NEW c \in Contexts, NEW h \in SUBSET Scopes
  PROVE  /\ Frame(k, c, h) \in Frames /\ Frame(k, c, h).held = h
         /\ OnlyContext(Frame(k, c, h), c)
<1>1. Frame(k, c, h) = [kind |-> k, chain |-> << c >>, held |-> h]
  BY DEF Frame
<1>2. << c >> \in Seq(Contexts) /\ Len(<< c >>) = 1 /\ << c >>[1] = c
  OBVIOUS
<1>3. /\ Frame(k, c, h).chain = << c >> /\ Frame(k, c, h).held = h
      /\ Frame(k, c, h) \in Frames
  BY <1>1, <1>2 DEF Frames, Kinds
<1>4. 1 \in 1 .. 1 /\ \A j \in 1 .. 1 : j = 1
  OBVIOUS
<1>5. 1 \in 1 .. Len(<< c >>) /\ \A j \in 1 .. Len(<< c >>) : j = 1
  BY <1>2, <1>4
<1> QED
  BY <1>2, <1>3, <1>5 DEF OnlyContext


(* gs has one frame more than fs, which holds h and has the context c.     *)
IsPushed(fs, gs, c, h) ==
  /\ gs \in Seq(Frames) /\ Len(gs) = Len(fs) + 1
  /\ \A i \in 1 .. Len(fs) : gs[i] = fs[i]
  /\ gs[Len(fs) + 1].held = h /\ OnlyContext(gs[Len(fs) + 1], c)
  /\ Held(gs) = Held(fs) \cup h \cup {c.scope}
  /\ Earlier(gs, Len(fs) + 1) = Held(fs)

LEMMA Pushed ==
  ASSUME NEW fs \in Seq(Frames), NEW k \in Kinds, NEW c \in Contexts, NEW h \in SUBSET Scopes,
         NEW gs, gs = Append(fs, Frame(k, c, h))
  PROVE  IsPushed(fs, gs, c, h)
<1> DEFINE n == Len(fs) + 1
           f == Frame(k, c, h)
<1>1. /\ f \in Frames /\ f.held = h /\ OnlyContext(f, c)
  BY FrameIs
<1>3. /\ gs \in Seq(Frames) /\ Len(gs) = n /\ n \in Nat /\ Len(fs) \in Nat
      /\ \A i \in 1 .. Len(fs) : gs[i] = fs[i]
      /\ gs[n] = f
  <2> HIDE DEF f
  <2> QED
    BY <1>1 DEF f
<1> HIDE DEF f
<1>4. ASSUME NEW s PROVE s \in Earlier(gs, n) <=> s \in Held(fs)
  <2>1. n \in 1 .. (Len(gs) + 1) /\ 1 .. (n - 1) = 1 .. Len(fs)
    BY <1>3
  <2> HIDE DEF n
  <2>2. s \in Earlier(gs, n) <=> HeldBy(gs, n - 1, s)
    BY <1>3, <2>1, InEarlier
  <2>3. s \in Held(fs) <=> HeldBy(fs, Len(fs), s)
    BY InHeld
  <2> QED
    BY <1>3, <2>1, <2>2, <2>3 DEF HeldBy, ScopeAt
<1>5. ASSUME NEW s PROVE s \in Held(gs) <=> s \in Held(fs) \cup h \cup {c.scope}
  <2>0. s \in Held(gs) <=> HeldBy(gs, Len(gs), s)
    BY <1>3, InHeld
  <2>1. s \in Held(gs) <=>
          \E m \in 1 .. n : \/ s \in gs[m].held
                            \/ \E j \in 1 .. Len(gs[m].chain) : s = ScopeAt(gs, m, j)
    BY <1>3, <2>0 DEF HeldBy
  <2>2. \A m \in 1 .. n : m \in 1 .. Len(fs) \/ m = n
    BY <1>3
  <2>3. \A m \in 1 .. Len(fs) : m \in 1 .. n
    BY <1>3
  <2>4. n \in 1 .. n
    BY <1>3
  <2>5. 1 \in 1 .. Len(gs[n].chain) /\ \A j \in 1 .. Len(gs[n].chain) : j = 1
    BY <1>1, <1>3 DEF OnlyContext
  <2>5a. s \in Held(fs) <=> HeldBy(fs, Len(fs), s)
    BY InHeld
  <2>6. s \in Held(fs) <=>
          \E m \in 1 .. Len(fs) : \/ s \in gs[m].held
                                  \/ \E j \in 1 .. Len(gs[m].chain) : s = ScopeAt(gs, m, j)
    BY <1>3, <2>5a DEF HeldBy, ScopeAt
  <2>7. gs[n].held = h /\ ScopeAt(gs, n, 1) = c.scope
    BY <1>1, <1>3 DEF ScopeAt, OnlyContext
  <2> HIDE DEF n
  <2> QED
    BY <2>1, <2>2, <2>3, <2>4, <2>5, <2>6, <2>7
<1> QED
  BY <1>1, <1>3, <1>4, <1>5 DEF IsPushed

(* s is on top of the scopes of R; of h there is at most one, on R.        *)
OnTop(p, lv, s, R) == Continues(p, lv, s, R) /\ \A r \in R : lv[r] <= lv[s]
HeldOver(p, lv, h, R) == /\ \A e, g \in h : e = g
                         /\ \A e \in h : Continues(p, lv, e, R)

LEMMA PushedInOrder ==
  ASSUME NEW fs \in Seq(Frames), NEW gs, NEW c, NEW h, IsPushed(fs, gs, c, h),
         NEW p, NEW lv, NEW q, NEW kv,
         ScopesInOrder(fs, p, lv), SameLevels(p, lv, q, kv, Held(fs)),
         HeldOver(q, kv, h, Held(fs)), OnTop(q, kv, c.scope, Held(fs) \cup h)
  PROVE  ScopesInOrder(gs, q, kv)
<1> DEFINE n == Len(fs) + 1
<1>1. /\ gs \in Seq(Frames) /\ Len(gs) = n
      /\ \A i \in 1 .. Len(fs) : gs[i] = fs[i]
      /\ gs[n].held = h /\ OnlyContext(gs[n], c)
      /\ Held(gs) = Held(fs) \cup h \cup {c.scope} /\ Earlier(gs, n) = Held(fs)
  BY DEF IsPushed
<1>2. Len(fs) \in Nat /\ n \in Nat
  BY FrameFacts
<1>3. ASSUME NEW i \in 1 .. Len(fs)
      PROVE  /\ HeldInOrder(fs, p, lv, i) => HeldInOrder(gs, q, kv, i)
             /\ \A j \in 1 .. Len(fs[i].chain) :
                  HeldInOrder(gs, q, kv, i) /\ ContextInOrder(gs, q, kv, i, j)
  <2>1. SameLevels(p, lv, q, kv, Held(fs) \cap Held(gs))
    BY DEF SameLevels
  <2>2. ASSUME NEW j \in 1 .. Len(fs[i].chain)
        PROVE  HeldInOrder(gs, q, kv, i) /\ ContextInOrder(gs, q, kv, i, j)
    <3>1. SameUpTo(fs, gs, i, j)
      <4>1. ASSUME NEW m \in 1 .. (i - 1) PROVE gs[m] = fs[m]
        <5>1. m \in 1 .. Len(fs)
          BY <1>2
        <5> QED
          BY <1>1, <5>1
      <4>2. gs[i] = fs[i]
        BY <1>1
      <4> QED
        BY <4>1, <4>2 DEF SameUpTo
    <3>2. i \in 1 .. Len(gs) /\ j \in 1 .. Len(gs[i].chain)
      BY <1>1, <1>2
    <3> QED
      BY <1>1, <2>1, <3>1, <3>2, OrderKept
  <2>3. HeldInOrder(fs, p, lv, i) => HeldInOrder(gs, q, kv, i)
    <3>1. Earlier(gs, i) = Earlier(fs, i)
      <4>1. \A m \in 1 .. (i - 1) : gs[m] = fs[m]
        BY <1>1, <1>2
      <4> QED
        BY <4>1 DEF Earlier
    <3>2. Earlier(fs, i) \subseteq Held(fs) /\ fs[i].held \subseteq Held(fs) /\ gs[i] = fs[i]
      <4>1. 1 \in 1 .. (Len(fs[i].chain) + 1)
        BY FrameFacts
      <4> QED
        BY <1>1, <4>1, BeforeHeld
    <3>3. ASSUME NEW e \in fs[i].held, Continues(p, lv, e, Earlier(fs, i))
          PROVE  Continues(q, kv, e, Earlier(fs, i))
      <4> DEFINE E == Earlier(fs, i)
                 T == Held(fs)
      <4>1. E \subseteq T /\ e \in T
        BY <3>2
      <4> HIDE DEF E, T
      <4> QED
        BY <3>3, <4>1, ContinuesKept DEF E, T
    <3> QED
      BY <3>1, <3>2, <3>3 DEF HeldInOrder
  <2> QED
    BY <2>2, <2>3
<1>4. HeldInOrder(gs, q, kv, n)
  BY <1>1 DEF HeldInOrder, HeldOver
<1>5. ContextInOrder(gs, q, kv, n, 1)
  <2>1. Before(gs, n, 1) = Held(fs) \cup h
    BY <1>1 DEF Before
  <2> HIDE DEF n
  <2> QED
    BY <1>1, <2>1 DEF ContextInOrder, OnlyContext, OnTop
<1>6. ASSUME NEW i \in 1 .. Len(gs)
      PROVE  /\ HeldInOrder(gs, q, kv, i)
             /\ \A j \in 1 .. Len(gs[i].chain) : ContextInOrder(gs, q, kv, i, j)
  <2>1. CASE i \in 1 .. Len(fs)
    <3>1. HeldInOrder(fs, p, lv, i)
      BY <2>1 DEF ScopesInOrder
    <3> QED
      BY <1>1, <1>3, <2>1, <3>1
  <2>2. CASE i = n
    <3>1. /\ gs[i].chain[1] = c /\ \A j \in 1 .. Len(gs[i].chain) : j = 1
      BY <1>1, <2>2 DEF OnlyContext
    <3> HIDE DEF n
    <3> QED
      BY <1>4, <1>5, <2>2, <3>1
  <2> QED
    BY <1>1, <1>2, <2>1, <2>2
<1> QED
  BY <1>6 DEF ScopesInOrder

LEMMA PushedFramesOK ==
  ASSUME NEW fs \in Seq(Frames), NEW gs, NEW c, NEW h, IsPushed(fs, gs, c, h),
         FramesOK(fs), c.kind = "body", CallerOK(fs, c.caller, Len(fs) + 1)
  PROVE  FramesOK(gs)
<1> DEFINE n == Len(fs) + 1
<1>1. /\ Len(gs) = n /\ \A i \in 1 .. Len(fs) : gs[i] = fs[i]
      /\ OnlyContext(gs[n], c)
  BY DEF IsPushed
<1>2. Len(fs) \in Nat
  BY FrameFacts
<1>3. ASSUME NEW i \in 1 .. n, NEW x, CallerOK(fs, x, i) PROVE CallerOK(gs, x, i)
  <2>1. 1 .. (i - 1) \subseteq 1 .. Len(fs)
    BY <1>2
  <2> QED
    BY <1>1, <1>3, <2>1 DEF CallerOK
<1>4. ASSUME NEW i \in 1 .. Len(gs)
      PROVE  /\ gs[i].chain[1].kind = "body"
             /\ \A j \in 1 .. Len(gs[i].chain) : CallerOK(gs, gs[i].chain[j].caller, i)
  <2>1. CASE i \in 1 .. Len(fs)
    <3>1. gs[i] = fs[i] /\ i \in 1 .. n
      BY <1>1, <2>1
    <3> HIDE DEF n
    <3> QED
      BY <1>3, <2>1, <3>1 DEF FramesOK
  <2>2. CASE i = n
    <3>1. /\ gs[i].chain[1] = c /\ \A j \in 1 .. Len(gs[i].chain) : j = 1
      BY <1>1, <2>2 DEF OnlyContext
    <3>2. CallerOK(gs, c.caller, n)
      BY <1>1, <1>3
    <3> QED
      BY <1>1, <2>2, <3>1, <3>2
  <2> QED
    BY <1>1, <1>2, <2>1, <2>2
<1> QED
  BY <1>4 DEF FramesOK

-----------------------------------------------------------------------------
(* A context is added to the frame on top.                                 *)
IsExtended(fs, gs, c) ==
  LET n == Len(fs)
      m == Len(fs[n].chain) + 1
  IN  /\ gs \in Seq(Frames) /\ Len(gs) = n /\ n \in 1 .. n
      /\ \A i \in 1 .. (n - 1) : gs[i] = fs[i]
      /\ gs[n].held = fs[n].held /\ gs[n].kind = fs[n].kind
      /\ Len(gs[n].chain) = m /\ m \in Nat \ {0}
      /\ \A j \in 1 .. (m - 1) : gs[n].chain[j] = fs[n].chain[j]
      /\ gs[n].chain[m] = c
      /\ Held(gs) = Held(fs) \cup {c.scope}
      /\ Before(gs, n, m) = Held(fs)

LEMMA Extended ==
  ASSUME NEW fs \in Seq(Frames), fs # << >>, NEW c \in Contexts, NEW gs, gs = WithCtx(fs, c)
  PROVE  IsExtended(fs, gs, c)
<1> DEFINE n == Len(fs)
           f == fs[n]
           m == Len(f.chain) + 1
           g == [f EXCEPT !.chain = Append(@, c)]
<1>1. /\ n \in Nat /\ n \in 1 .. n /\ f \in Frames /\ f.chain \in Seq(Contexts)
      /\ Len(f.chain) \in Nat /\ m \in Nat \ {0}
  <2>1. n \in Nat /\ n \in 1 .. n
    OBVIOUS
  <2> QED
    BY <2>1, FrameFacts
<1>2. Append(f.chain, c) \in Seq(Contexts) /\ Len(Append(f.chain, c)) = m
      /\ \A j \in 1 .. (m - 1) : Append(f.chain, c)[j] = f.chain[j]
      /\ Append(f.chain, c)[m] = c
  <2>1. ASSUME NEW s \in Seq(Contexts)
        PROVE  /\ Append(s, c) \in Seq(Contexts) /\ Len(Append(s, c)) = Len(s) + 1
               /\ \A j \in 1 .. ((Len(s) + 1) - 1) : Append(s, c)[j] = s[j]
               /\ Append(s, c)[Len(s) + 1] = c
    <3> HIDE DEF Contexts
    <3> QED
      OBVIOUS
  <2> QED
    BY <1>1, <2>1
<1>3. /\ g \in Frames /\ g.chain = Append(f.chain, c) /\ g.held = f.held /\ g.kind = f.kind
  <2> HIDE DEF f
  <2> QED
    BY <1>1, <1>2 DEF Frames
<1>4. gs = [fs EXCEPT ![n] = g]
  BY DEF WithCtx
<1>5. /\ gs \in Seq(Frames) /\ Len(gs) = n /\ gs[n] = g
      /\ \A i \in 1 .. (n - 1) : gs[i] = fs[i]
  <2> HIDE DEF g
  <2> QED
    BY <1>1, <1>3, <1>4
<1> HIDE DEF g
<1>6. /\ gs[n].chain = Append(f.chain, c) /\ gs[n].held = f.held /\ Len(gs[n].chain) = m
      /\ \A j \in 1 .. (m - 1) : gs[n].chain[j] = f.chain[j]
      /\ gs[n].chain[m] = c
  BY <1>2, <1>3, <1>5
<1>7. ASSUME NEW s PROVE s \in Before(gs, n, m) <=> s \in Held(fs)
  <2>1. s \in Earlier(gs, n) <=> HeldBy(gs, n - 1, s)
    <3>1. n \in 1 .. (Len(gs) + 1)
      BY <1>1, <1>5
    <3> QED
      BY <1>5, <3>1, InEarlier
  <2>2. s \in Held(fs) <=> HeldBy(fs, n, s)
    BY InHeld
  <2>3. HeldBy(gs, n - 1, s) <=> HeldBy(fs, n - 1, s)
    BY <1>5 DEF HeldBy, ScopeAt
  <2>4. s \in Before(gs, n, m) <=>
          s \in Earlier(gs, n) \/ s \in f.held \/ \E j \in 1 .. (m - 1) : s = ScopeAt(gs, n, j)
    BY <1>6, InBefore
  <2>5. (\E j \in 1 .. (m - 1) : s = ScopeAt(gs, n, j)) <=>
          \E j \in 1 .. Len(f.chain) : s = ScopeAt(fs, n, j)
    <3>1. 1 .. (m - 1) = 1 .. Len(f.chain)
      BY <1>1
    <3> QED
      BY <1>6, <3>1 DEF ScopeAt
  <2>6. HeldBy(fs, n, s) <=>
          HeldBy(fs, n - 1, s) \/ s \in f.held \/ \E j \in 1 .. Len(f.chain) : s = ScopeAt(fs, n, j)
    <3>1. \A i : i \in 1 .. n <=> i \in 1 .. (n - 1) \/ i = n
      BY <1>1
    <3> HIDE DEF n
    <3> QED
      BY <3>1 DEF HeldBy
  <2> QED
    BY <2>1, <2>2, <2>3, <2>4, <2>5, <2>6
<1>8. ASSUME NEW s PROVE s \in Held(gs) <=> s \in Held(fs) \cup {c.scope}
  <2>1. s \in Held(gs) <=> HeldBy(gs, Len(gs), s)
    BY <1>5, InHeld
  <2>2. HeldBy(gs, n, s) <=>
          HeldBy(gs, n - 1, s) \/ s \in f.held \/ \E j \in 1 .. m : s = ScopeAt(gs, n, j)
    <3>1. \A i : i \in 1 .. n <=> i \in 1 .. (n - 1) \/ i = n
      BY <1>1
    <3>2. Len(gs[n].chain) = m /\ gs[n].held = f.held
      BY <1>6
    <3> HIDE DEF n, m
    <3> QED
      BY <3>1, <3>2 DEF HeldBy
  <2>3. (\E j \in 1 .. m : s = ScopeAt(gs, n, j)) <=>
          (\E j \in 1 .. (m - 1) : s = ScopeAt(gs, n, j)) \/ s = c.scope
    <3>1. \A j : j \in 1 .. m <=> j \in 1 .. (m - 1) \/ j = m
      BY <1>1
    <3>2. ScopeAt(gs, n, m) = c.scope
      BY <1>6 DEF ScopeAt
    <3> HIDE DEF n, m
    <3> QED
      BY <3>1, <3>2
  <2>4. s \in Before(gs, n, m) <=>
          s \in Earlier(gs, n) \/ s \in f.held \/ \E j \in 1 .. (m - 1) : s = ScopeAt(gs, n, j)
    BY <1>6, InBefore
  <2>5. s \in Earlier(gs, n) <=> HeldBy(gs, n - 1, s)
    <3>1. n \in 1 .. (Len(gs) + 1)
      BY <1>1, <1>5
    <3> QED
      BY <1>5, <3>1, InEarlier
  <2>6. Len(gs) = n
    BY <1>5
  <2> QED
    BY <1>7, <2>1, <2>2, <2>3, <2>4, <2>5, <2>6
<1>9. Before(gs, n, m) = Held(fs) /\ Held(gs) = Held(fs) \cup {c.scope}
  BY <1>7, <1>8
<1>10. gs[n].kind = fs[n].kind
  BY <1>3, <1>5
<1> QED
  BY <1>1, <1>5, <1>6, <1>9, <1>10 DEF IsExtended

LEMMA ExtendedInOrder ==
  ASSUME NEW fs \in Seq(Frames), NEW gs, NEW c, IsExtended(fs, gs, c),
         1 <= Len(fs[Len(fs)].chain),
         NEW p, NEW lv, NEW q, NEW kv,
         ScopesInOrder(fs, p, lv), SameLevels(p, lv, q, kv, Held(fs)),
         OnTop(q, kv, c.scope, Held(fs))
  PROVE  ScopesInOrder(gs, q, kv)
<1> DEFINE n == Len(fs)
           m == Len(fs[n].chain) + 1
<1>1. /\ gs \in Seq(Frames) /\ Len(gs) = n /\ n \in 1 .. n
      /\ \A i \in 1 .. (n - 1) : gs[i] = fs[i]
      /\ gs[n].held = fs[n].held
      /\ Len(gs[n].chain) = m /\ m \in Nat \ {0}
      /\ \A j \in 1 .. (m - 1) : gs[n].chain[j] = fs[n].chain[j]
      /\ gs[n].chain[m] = c
      /\ Before(gs, n, m) = Held(fs)
  BY DEF IsExtended
<1>2. n \in Nat /\ \A i \in 1 .. n : Len(fs[i].chain) \in Nat /\ i \in 1 .. Len(gs)
  BY <1>1, FrameFacts
<1>3. SameLevels(p, lv, q, kv, Held(fs) \cap Held(gs))
  BY DEF SameLevels
<1>4. ASSUME NEW i \in 1 .. n, NEW j \in 1 .. Len(fs[i].chain)
      PROVE  HeldInOrder(gs, q, kv, i) /\ ContextInOrder(gs, q, kv, i, j)
  <2>1. \A k \in 1 .. (i - 1) : gs[k] = fs[k]
    BY <1>1, <1>2
  <2>2. gs[i].held = fs[i].held /\ \A k \in 1 .. j : gs[i].chain[k] = fs[i].chain[k]
        /\ j \in 1 .. Len(gs[i].chain)
    <3>1. CASE i = n
      <4>1. j \in 1 .. Len(fs[n].chain) /\ 1 .. j \subseteq 1 .. (m - 1) /\ j \in 1 .. m
        BY <1>2, <3>1
      <4> HIDE DEF n, m
      <4> QED
        BY <1>1, <3>1, <4>1
    <3>2. CASE i # n
      <4>1. gs[i] = fs[i]
        BY <1>1, <1>2, <3>2
      <4> QED
        BY <4>1
    <3> QED
      BY <3>1, <3>2
  <2>3. SameUpTo(fs, gs, i, j)
    BY <2>1, <2>2 DEF SameUpTo
  <2>4. gs \in Seq(Frames) /\ i \in 1 .. Len(fs) /\ i \in 1 .. Len(gs)
    BY <1>1, <1>2
  <2> HIDE DEF n, m
  <2> QED
    BY <1>3, <2>2, <2>3, <2>4, OrderKept
<1>5. ContextInOrder(gs, q, kv, n, m)
  <2> HIDE DEF n, m
  <2> QED
    BY <1>1 DEF ContextInOrder, OnTop
<1>6. HeldInOrder(fs, p, lv, n) /\ \A i \in 1 .. (n - 1) : HeldInOrder(fs, p, lv, i)
  BY <1>1, <1>2 DEF ScopesInOrder
<1>7. ASSUME NEW i \in 1 .. n PROVE HeldInOrder(gs, q, kv, i)
  <2>1. gs[i].held = fs[i].held /\ HeldInOrder(fs, p, lv, i)
    BY <1>1, <1>2, <1>6
  <2>2. Earlier(gs, i) = Earlier(fs, i)
    <3>1. \A k \in 1 .. (i - 1) : gs[k] = fs[k]
      BY <1>1, <1>2
    <3> QED
      BY <3>1 DEF Earlier
  <2>3. Earlier(fs, i) \subseteq Held(fs) /\ fs[i].held \subseteq Held(fs)
    <3>1. 1 \in 1 .. (Len(fs[i].chain) + 1)
      BY <1>2
    <3> QED
      BY <3>1, BeforeHeld
  <2>4. ASSUME NEW e \in fs[i].held PROVE Continues(q, kv, e, Earlier(fs, i))
    <3> DEFINE E == Earlier(fs, i)
               T == Held(fs)
    <3>1. E \subseteq T /\ e \in T /\ Continues(p, lv, e, E)
      BY <2>1, <2>3 DEF HeldInOrder
    <3> HIDE DEF E, T
    <3> QED
      BY <3>1, ContinuesKept DEF E, T
  <2> QED
    BY <2>1, <2>2, <2>4 DEF HeldInOrder
<1>8. ASSUME NEW i \in 1 .. Len(gs), NEW j \in 1 .. Len(gs[i].chain)
      PROVE  ContextInOrder(gs, q, kv, i, j)
  <2>0. i \in 1 .. n
    BY <1>1
  <2>1. CASE j \in 1 .. Len(fs[i].chain)
    BY <1>4, <2>0, <2>1
  <2>2. CASE j \notin 1 .. Len(fs[i].chain)
    <3>1. i = n
      <4>1. i # n => gs[i] = fs[i]
        BY <1>1, <1>2, <2>0
      <4> QED
        BY <2>2, <4>1
    <3>2. j = m
      <4>1. j \in 1 .. m /\ j \notin 1 .. (m - 1)
        BY <1>1, <1>2, <2>2, <3>1
      <4> QED
        BY <1>1, <4>1
    <3> HIDE DEF n, m
    <3> QED
      BY <1>5, <3>1, <3>2
  <2> QED
    BY <2>1, <2>2
<1> QED
  BY <1>1, <1>7, <1>8 DEF ScopesInOrder

LEMMA ExtendedFramesOK ==
  ASSUME NEW fs \in Seq(Frames), NEW gs, NEW c, IsExtended(fs, gs, c),
         1 <= Len(fs[Len(fs)].chain),
         FramesOK(fs), CallerOK(fs, c.caller, Len(fs))
  PROVE  FramesOK(gs)
<1> DEFINE n == Len(fs)
           m == Len(fs[n].chain) + 1
<1>1. /\ gs \in Seq(Frames) /\ Len(gs) = n /\ n \in 1 .. n
      /\ \A i \in 1 .. (n - 1) : gs[i] = fs[i]
      /\ Len(gs[n].chain) = m /\ m \in Nat \ {0}
      /\ \A j \in 1 .. (m - 1) : gs[n].chain[j] = fs[n].chain[j]
      /\ gs[n].chain[m] = c
  BY DEF IsExtended
<1>2. n \in Nat /\ Len(fs[n].chain) \in Nat
  BY <1>1, FrameFacts
<1>3. ASSUME NEW i \in 1 .. n, NEW x, CallerOK(fs, x, i) PROVE CallerOK(gs, x, i)
  <2>1. 1 .. (i - 1) \subseteq 1 .. (n - 1)
    BY <1>2
  <2> HIDE DEF n, m
  <2> QED
    BY <1>1, <1>3, <2>1 DEF CallerOK
<1>4. ASSUME NEW i \in 1 .. Len(gs)
      PROVE  /\ gs[i].chain[1].kind = "body"
             /\ \A j \in 1 .. Len(gs[i].chain) : CallerOK(gs, gs[i].chain[j].caller, i)
  <2>0. /\ fs[i].chain[1].kind = "body" /\ i \in 1 .. n
        /\ \A j \in 1 .. Len(fs[i].chain) : CallerOK(fs, fs[i].chain[j].caller, i)
    BY <1>1 DEF FramesOK
  <2>1. CASE i # n
    <3>1. gs[i] = fs[i]
      BY <1>1, <1>2, <2>0, <2>1
    <3> HIDE DEF n, m
    <3> QED
      BY <1>3, <2>0, <3>1
  <2>2. CASE i = n
    <3>1. gs[i].chain[1] = fs[i].chain[1]
      <4>1. 1 \in 1 .. (m - 1)
        BY <1>2
      <4> HIDE DEF n, m
      <4> QED
        BY <1>1, <2>2, <4>1
    <3>2. ASSUME NEW j \in 1 .. Len(gs[i].chain) PROVE CallerOK(fs, gs[i].chain[j].caller, i)
      <4>1. j \in 1 .. (m - 1) \/ j = m
        BY <1>1, <2>2
      <4>2. 1 .. (m - 1) = 1 .. Len(fs[n].chain)
        BY <1>2
      <4> HIDE DEF m
      <4> QED
        BY <1>1, <2>0, <2>2, <4>1, <4>2
    <3> HIDE DEF n, m
    <3> QED
      BY <1>3, <2>0, <3>1, <3>2
  <2> QED
    BY <2>1, <2>2
<1> QED
  BY <1>4 DEF FramesOK

-----------------------------------------------------------------------------
(* Contexts or frames are dropped from the end.                            *)
IsShorter(fs, gs) ==
  /\ gs \in Seq(Frames) /\ Len(gs) \in 1 .. Len(fs)
  /\ \A i \in 1 .. Len(gs) :
       /\ gs[i].held = fs[i].held /\ Len(gs[i].chain) \in 1 .. Len(fs[i].chain)
       /\ \A j \in 1 .. Len(gs[i].chain) : gs[i].chain[j] = fs[i].chain[j]
  /\ \A i \in 1 .. (Len(gs) - 1) : gs[i] = fs[i]
  /\ Held(gs) \subseteq Held(fs)

LEMMA ShorterInOrder ==
  ASSUME NEW fs \in Seq(Frames), NEW gs, IsShorter(fs, gs),
         NEW p, NEW lv, NEW q, NEW kv,
         ScopesInOrder(fs, p, lv), SameLevels(p, lv, q, kv, Held(gs))
  PROVE  ScopesInOrder(gs, q, kv)
<1>1. /\ gs \in Seq(Frames) /\ Len(gs) \in 1 .. Len(fs)
      /\ \A i \in 1 .. Len(gs) :
           /\ gs[i].held = fs[i].held /\ Len(gs[i].chain) \in 1 .. Len(fs[i].chain)
           /\ \A j \in 1 .. Len(gs[i].chain) : gs[i].chain[j] = fs[i].chain[j]
      /\ \A i \in 1 .. (Len(gs) - 1) : gs[i] = fs[i]
  BY DEF IsShorter
<1>2. SameLevels(p, lv, q, kv, Held(fs) \cap Held(gs))
  BY DEF SameLevels
<1>3. ASSUME NEW i \in 1 .. Len(gs), NEW j \in 1 .. Len(gs[i].chain)
      PROVE  HeldInOrder(gs, q, kv, i) /\ ContextInOrder(gs, q, kv, i, j)
  <2>1. /\ Len(fs) \in Nat /\ Len(gs) \in Nat /\ i \in 1 .. Len(fs)
        /\ Len(gs[i].chain) \in Nat /\ Len(fs[i].chain) \in Nat
        /\ j \in 1 .. Len(fs[i].chain)
    <3>1. Len(fs) \in Nat /\ Len(gs) \in Nat /\ i \in 1 .. Len(fs)
      BY <1>1, FrameFacts
    <3>2. Len(gs[i].chain) \in Nat /\ Len(fs[i].chain) \in Nat
      BY <1>1, <3>1, FrameFacts
    <3>3. Len(gs[i].chain) \in 1 .. Len(fs[i].chain)
      BY <1>1
    <3> QED
      BY <3>1, <3>2, <3>3
  <2>2. SameUpTo(fs, gs, i, j)
    <3>1. 1 .. (i - 1) \subseteq 1 .. (Len(gs) - 1) /\ 1 .. j \subseteq 1 .. Len(gs[i].chain)
      BY <2>1
    <3> QED
      BY <1>1, <3>1 DEF SameUpTo
  <2> QED
    BY <1>1, <1>2, <2>1, <2>2, OrderKept
<1>4. ASSUME NEW i \in 1 .. Len(gs) PROVE HeldInOrder(gs, q, kv, i)
  <2>1. 1 \in 1 .. Len(gs[i].chain)
    <3>1. Len(gs[i].chain) \in Nat /\ Len(gs[i].chain) \in 1 .. Len(fs[i].chain)
      BY <1>1, FrameFacts
    <3> QED
      BY <3>1
  <2> QED
    BY <1>3, <2>1
<1> QED
  BY <1>3, <1>4 DEF ScopesInOrder

LEMMA ShorterFramesOK ==
  ASSUME NEW fs \in Seq(Frames), NEW gs, IsShorter(fs, gs), FramesOK(fs)
  PROVE  FramesOK(gs)
<1>1. /\ gs \in Seq(Frames) /\ Len(gs) \in 1 .. Len(fs)
      /\ \A i \in 1 .. Len(gs) :
           /\ gs[i].held = fs[i].held /\ Len(gs[i].chain) \in 1 .. Len(fs[i].chain)
           /\ \A j \in 1 .. Len(gs[i].chain) : gs[i].chain[j] = fs[i].chain[j]
      /\ \A i \in 1 .. (Len(gs) - 1) : gs[i] = fs[i]
  BY DEF IsShorter
<1>2. Len(fs) \in Nat /\ Len(gs) \in Nat
  BY <1>1, FrameFacts
<1>3. ASSUME NEW i \in 1 .. Len(gs)
      PROVE  /\ gs[i].chain[1].kind = "body"
             /\ \A j \in 1 .. Len(gs[i].chain) : CallerOK(gs, gs[i].chain[j].caller, i)
  <2>1. /\ i \in 1 .. Len(fs) /\ Len(gs[i].chain) \in Nat
        /\ Len(gs[i].chain) \in 1 .. Len(fs[i].chain) /\ Len(fs[i].chain) \in Nat
    <3>1. i \in 1 .. Len(fs)
      BY <1>1, <1>2
    <3> QED
      BY <1>1, <3>1, FrameFacts
  <2>2. /\ fs[i].chain[1].kind = "body"
        /\ \A j \in 1 .. Len(fs[i].chain) : CallerOK(fs, fs[i].chain[j].caller, i)
    BY <2>1 DEF FramesOK
  <2>3. 1 \in 1 .. Len(gs[i].chain) /\ 1 .. Len(gs[i].chain) \subseteq 1 .. Len(fs[i].chain)
    BY <2>1
  <2>4. gs[i].chain[1] = fs[i].chain[1]
    BY <1>1, <2>3
  <2>5. ASSUME NEW x, CallerOK(fs, x, i) PROVE CallerOK(gs, x, i)
    <3>1. 1 .. (i - 1) \subseteq 1 .. (Len(gs) - 1)
      BY <1>2
    <3> QED
      BY <1>1, <2>5, <3>1 DEF CallerOK
  <2>6. ASSUME NEW j \in 1 .. Len(gs[i].chain) PROVE CallerOK(gs, gs[i].chain[j].caller, i)
    <3>1. gs[i].chain[j] = fs[i].chain[j] /\ CallerOK(fs, fs[i].chain[j].caller, i)
      BY <1>1, <2>2, <2>3
    <3> QED
      BY <2>5, <3>1
  <2> QED
    BY <2>2, <2>4, <2>6
<1> QED
  BY <1>3 DEF FramesOK

LEMMA FrontOf ==
  ASSUME NEW S, NEW s \in Seq(S), Len(s) - 1 \in Nat
  PROVE  /\ Front(s) \in Seq(S) /\ Len(Front(s)) = Len(s) - 1
         /\ \A j \in 1 .. (Len(s) - 1) : Front(s)[j] = s[j]
<1>1. PICK k \in 0 .. Len(s) : k = Len(s) - 1
  <2> DEFINE n == Len(s)
  <2>1. n \in Nat /\ n - 1 \in Nat
    BY Len(s) \in Nat
  <2> HIDE DEF n
  <2>2. n - 1 \in 0 .. n
    BY ONLY <2>1
  <2>3. \E k \in 0 .. n : k = n - 1
    BY ONLY <2>2
  <2> QED
    BY <2>3 DEF n
<1>2. Front(s) = SubSeq(s, 1, k)
  BY <1>1 DEF Front
<1>3. SubSeq(s, 1, k) \in Seq(S) /\ Len(SubSeq(s, 1, k)) = k
  OBVIOUS
<1>4. \A j \in 1 .. k : SubSeq(s, 1, k)[j] = s[j]
  OBVIOUS
<1> QED
  BY <1>1, <1>2, <1>3, <1>4

(* The last context is closed.                                             *)
LEMMA Shortened ==
  ASSUME NEW fs \in Seq(Frames), fs # << >>,
         \A i \in 1 .. Len(fs) : 1 <= Len(fs[i].chain),
         2 <= Len(fs[Len(fs)].chain), NEW gs, gs = ScopeClosed(fs)
  PROVE  /\ IsShorter(fs, gs) /\ Len(gs) = Len(fs)
         /\ Len(gs[Len(fs)].chain) = Len(fs[Len(fs)].chain) - 1
         /\ Held(fs) = Held(gs) \cup {Cur(fs).scope}
<1> DEFINE n == Len(fs)
           f == fs[n]
           m == Len(f.chain) - 1
           g == [f EXCEPT !.chain = Front(@)]
<1>1. /\ n \in Nat /\ n \in 1 .. n /\ f \in Frames /\ f.chain \in Seq(Contexts)
      /\ Len(f.chain) \in Nat /\ m \in Nat \ {0}
  <2>1. n \in Nat /\ n \in 1 .. n
    OBVIOUS
  <2>2. f \in Frames /\ f.chain \in Seq(Contexts) /\ Len(f.chain) \in Nat
    BY <2>1, FrameFacts
  <2>3. m \in Nat \ {0}
    <3>1. PICK k \in Nat : k = Len(f.chain)
      BY <2>2
    <3>2. 2 <= k
      BY <3>1
    <3>3. k - 1 \in Nat \ {0}
      BY ONLY <3>2, k \in Nat
    <3>4. m = k - 1
      BY ONLY <3>1
    <3> QED
      BY ONLY <3>3, <3>4
  <2> QED
    BY <2>1, <2>2, <2>3
<1>2. /\ Front(f.chain) \in Seq(Contexts) /\ Len(Front(f.chain)) = m
      /\ \A j \in 1 .. m : Front(f.chain)[j] = f.chain[j]
  BY <1>1, FrontOf
<1>3. g \in Frames /\ g.chain = Front(f.chain) /\ g.held = f.held
  <2> HIDE DEF f
  <2> QED
    BY <1>1, <1>2 DEF Frames
<1>4. gs = [fs EXCEPT ![n] = g]
  BY DEF ScopeClosed
<1>5. /\ gs \in Seq(Frames) /\ Len(gs) = n /\ gs[n] = g
      /\ \A i \in 1 .. (n - 1) : gs[i] = fs[i]
  <2> HIDE DEF g
  <2> QED
    BY <1>1, <1>3, <1>4
<1> HIDE DEF g
<1>6. /\ gs[n].chain = Front(f.chain) /\ gs[n].held = f.held /\ Len(gs[n].chain) = m
      /\ \A j \in 1 .. m : gs[n].chain[j] = f.chain[j]
  BY <1>2, <1>3, <1>5
<1>7. ASSUME NEW s PROVE s \in Held(fs) <=> s \in Held(gs) \cup {Cur(fs).scope}
  <2>1. (s \in Held(gs) <=> HeldBy(gs, n, s)) /\ (s \in Held(fs) <=> HeldBy(fs, n, s))
    BY <1>5, InHeld
  <2>2. \A i : i \in 1 .. n <=> i \in 1 .. (n - 1) \/ i = n
    BY <1>1
  <2>3. \A j : j \in 1 .. Len(f.chain) <=> j \in 1 .. m \/ j = Len(f.chain)
    BY <1>1
  <2>4. ScopeAt(fs, n, Len(f.chain)) = Cur(fs).scope
    BY DEF ScopeAt, Cur, Last, Top
  <2>5. (\E j \in 1 .. Len(f.chain) : s = ScopeAt(fs, n, j)) <=>
          (\E j \in 1 .. m : s = ScopeAt(gs, n, j)) \/ s = Cur(fs).scope
    <3>1. \A j \in 1 .. m : ScopeAt(gs, n, j) = ScopeAt(fs, n, j)
      BY <1>6 DEF ScopeAt
    <3> HIDE DEF n, m
    <3> QED
      BY <2>3, <2>4, <3>1
  <2>6. HeldBy(fs, n, s) <=>
          HeldBy(fs, n - 1, s) \/ s \in f.held \/ \E j \in 1 .. Len(f.chain) : s = ScopeAt(fs, n, j)
    <3> HIDE DEF n
    <3> QED
      BY <2>2 DEF HeldBy
  <2>7. HeldBy(gs, n, s) <=>
          HeldBy(gs, n - 1, s) \/ s \in f.held \/ \E j \in 1 .. m : s = ScopeAt(gs, n, j)
    <3>1. Len(gs[n].chain) = m /\ gs[n].held = f.held
      BY <1>6
    <3> HIDE DEF n, m
    <3> QED
      BY <2>2, <3>1 DEF HeldBy
  <2>8. HeldBy(gs, n - 1, s) <=> HeldBy(fs, n - 1, s)
    BY <1>5 DEF HeldBy, ScopeAt
  <2> QED
    BY <2>1, <2>5, <2>6, <2>7, <2>8
<1>8. ASSUME NEW i \in 1 .. Len(gs)
      PROVE  /\ gs[i].held = fs[i].held /\ Len(gs[i].chain) \in 1 .. Len(fs[i].chain)
             /\ \A j \in 1 .. Len(gs[i].chain) : gs[i].chain[j] = fs[i].chain[j]
  <2>1. CASE i = n
    <3>1. m \in 1 .. Len(f.chain)
      BY <1>1
    <3> HIDE DEF n, m
    <3> QED
      BY <1>6, <2>1, <3>1
  <2>2. CASE i # n
    <3>1. gs[i] = fs[i] /\ i \in 1 .. Len(fs)
      BY <1>1, <1>5, <2>2
    <3>2. Len(fs[i].chain) \in 1 .. Len(fs[i].chain)
      <4>1. Len(fs[i].chain) \in Nat /\ 1 <= Len(fs[i].chain)
        BY <3>1, FrameFacts
      <4> QED
        BY <4>1
    <3> QED
      BY <3>1, <3>2
  <2> QED
    BY <2>1, <2>2
<1>9. Held(fs) = Held(gs) \cup {Cur(fs).scope}
  BY <1>7
<1>10. Len(gs) \in 1 .. Len(fs) /\ \A i \in 1 .. (Len(gs) - 1) : gs[i] = fs[i]
  BY <1>1, <1>5
<1>11. IsShorter(fs, gs)
  BY <1>5, <1>8, <1>9, <1>10 DEF IsShorter
<1> QED
  BY <1>5, <1>6, <1>9, <1>11

(* The last frame leaves.                                                  *)
LEMMA Dropped ==
  ASSUME NEW fs \in Seq(Frames), Len(fs) > 1,
         \A i \in 1 .. Len(fs) : 1 <= Len(fs[i].chain), NEW gs, gs = Front(fs)
  PROVE  /\ IsShorter(fs, gs) /\ Len(gs) = Len(fs) - 1
         /\ Held(gs) = Earlier(fs, Len(fs))
<1> DEFINE n == Len(fs)
<1>1. n \in Nat /\ n - 1 \in 1 .. n /\ n \in 1 .. (n + 1)
  OBVIOUS
<1>2. /\ gs \in Seq(Frames) /\ Len(gs) = n - 1
      /\ \A i \in 1 .. (n - 1) : gs[i] = fs[i]
  <2> HIDE DEF Frames
  <2> QED
    BY DEF Front
<1>3. ASSUME NEW s PROVE s \in Held(gs) <=> s \in Earlier(fs, n)
  <2>1. s \in Held(gs) <=> HeldBy(gs, n - 1, s)
    BY <1>2, InHeld
  <2>2. s \in Earlier(fs, n) <=> HeldBy(fs, n - 1, s)
    BY <1>1, InEarlier
  <2>3. HeldBy(gs, n - 1, s) <=> HeldBy(fs, n - 1, s)
    BY <1>2 DEF HeldBy, ScopeAt
  <2> QED
    BY <2>1, <2>2, <2>3
<1>4. ASSUME NEW i \in 1 .. Len(gs)
      PROVE  /\ gs[i].held = fs[i].held /\ Len(gs[i].chain) \in 1 .. Len(fs[i].chain)
             /\ \A j \in 1 .. Len(gs[i].chain) : gs[i].chain[j] = fs[i].chain[j]
  <2>1. gs[i] = fs[i] /\ i \in 1 .. Len(fs)
    BY <1>1, <1>2
  <2>2. Len(fs[i].chain) \in Nat /\ 1 <= Len(fs[i].chain)
    BY <2>1, FrameFacts
  <2> QED
    BY <2>1, <2>2
<1>5. Earlier(fs, n) \subseteq Held(fs)
  <2>1. n \in 1 .. Len(fs) /\ 1 \in 1 .. (Len(fs[n].chain) + 1)
    BY <1>1, FrameFacts
  <2> QED
    BY <2>1, BeforeHeld
<1>6. \A i \in 1 .. (Len(gs) - 1) : gs[i] = fs[i]
  BY <1>1, <1>2
<1> QED
  BY <1>1, <1>2, <1>3, <1>4, <1>5, <1>6 DEF IsShorter

LEMMA HeldIsBefore ==
  ASSUME NEW fs \in Seq(Frames), fs # << >>
  PROVE  Held(fs) = Before(fs, Len(fs), Len(fs[Len(fs)].chain) + 1)
<1> DEFINE n == Len(fs)
           m == Len(fs[n].chain)
<1>1. /\ n \in Nat /\ n \in 1 .. n /\ n \in 1 .. (n + 1) /\ m \in Nat /\ 1 .. ((m + 1) - 1) = 1 .. m
  <2>1. n \in Nat /\ n \in 1 .. n /\ n \in 1 .. (n + 1)
    OBVIOUS
  <2>2. m \in Nat
    BY <2>1, FrameFacts
  <2>3. 1 .. ((m + 1) - 1) = 1 .. m
    BY <2>2
  <2> QED
    BY <2>1, <2>2, <2>3
<1>2. ASSUME NEW s PROVE s \in Held(fs) <=> s \in Before(fs, n, m + 1)
  <2>1. s \in Held(fs) <=> HeldBy(fs, n, s)
    BY InHeld
  <2>2. s \in Earlier(fs, n) <=> HeldBy(fs, n - 1, s)
    BY <1>1, InEarlier
  <2>3. \A i : i \in 1 .. n <=> i \in 1 .. (n - 1) \/ i = n
    BY <1>1
  <2>4. s \in Before(fs, n, m + 1) <=>
          s \in Earlier(fs, n) \/ s \in fs[n].held \/ \E j \in 1 .. m : s = ScopeAt(fs, n, j)
    BY <1>1, InBefore
  <2>5. HeldBy(fs, n, s) <=>
          HeldBy(fs, n - 1, s) \/ s \in fs[n].held \/ \E j \in 1 .. m : s = ScopeAt(fs, n, j)
    <3> HIDE DEF n
    <3> QED
      BY <2>3 DEF HeldBy
  <2> QED
    BY <2>1, <2>2, <2>4, <2>5
<1> QED
  BY <1>2

LEMMA HeldClosed ==
  ASSUME NEW fs \in Seq(Frames), NEW p, NEW lv, ScopesInOrder(fs, p, lv)
  PROVE  Closed(p, lv, Held(fs))
<1>1. CASE fs # << >>
  <2> DEFINE n == Len(fs)
             m == Len(fs[n].chain) + 1
  <2>1. n \in 1 .. n /\ n \in Nat
    BY <1>1
  <2>2. m \in 1 .. m
    <3>1. Len(fs[n].chain) \in Nat
      BY <2>1, FrameFacts
    <3> QED
      BY <3>1
  <2>3. Closed(p, lv, Before(fs, n, m))
    BY <2>1, <2>2, PastClosed
  <2> QED
    BY <1>1, <2>3, HeldIsBefore
<1>2. CASE fs = << >>
  <2>1. ASSUME NEW s PROVE s \notin Held(fs)
    <3>1. Len(fs) = 0 /\ 1 .. 0 = {}
      BY <1>2
    <3>2. s \in Held(fs) <=> HeldBy(fs, Len(fs), s)
      BY InHeld
    <3>3. ~ HeldBy(fs, 0, s)
      BY <3>1 DEF HeldBy
    <3> QED
      BY <3>1, <3>2, <3>3
  <2> QED
    BY <2>1 DEF Closed
<1> QED
  BY <1>1, <1>2

-----------------------------------------------------------------------------
(* A scope goes that none of the remaining ones continues.                 *)

(* What the scopes of R continue and show is the same in t.                *)
KeepsView(st, t, R) ==
  \A r \in R : /\ t.parent[level[r]] = st.parent[level[r]]
               /\ \A n \in Names : Find(t, n, level[r]) = Find(st, n, level[r])

LEMMA ViewOn ==
  ASSUME NEW st, NEW t, NEW u, NEW R, NEW T, R \subseteq T, KeepsView(st, t, T), KeepsView(t, u, R)
  PROVE  KeepsView(st, u, R)
BY DEF KeepsView

LEMMA ClosedInView ==
  ASSUME NEW st, NEW t, NEW R, NEW T, R \subseteq T, KeepsView(st, t, T), Closed(st.parent, level, R)
  PROVE  Closed(t.parent, level, R)
BY DEF KeepsView, Closed, Continues

LEMMA LetGoOK ==
  ASSUME NEW st, NEW R, NEW s, NEW T, T = R \cup {s},
         StorageOK(st, Levels(level, T)), LevelsOK(T, level), Closed(st.parent, level, R)
  PROVE  StorageOK(LetGo(st, s, R), Levels(level, R)) /\ KeepsView(st, LetGo(st, s, R), R)
<1>1. CASE s \in R
  <2>1. T = R /\ LetGo(st, s, R) = st
    BY <1>1 DEF LetGo
  <2> QED
    BY <2>1 DEF KeepsView
<1>2. CASE s \notin R
  <2> DEFINE H == Levels(level, T)
             l == level[s]
             K == Levels(level, R)
  <2>1. l \in H /\ K = H \ {l}
    BY <1>2 DEF Levels, LevelsOK
  <2>2. l # 0 /\ l \in Nat
    <3>1. StorageOK(st, H)
      OBVIOUS
    <3>2. H \subseteq Nat \ {0}
      <4> HIDE DEF H
      <4> QED
        BY <3>1, StorageFacts
    <3> HIDE DEF l, H
    <3> QED
      BY <2>1, <3>2
  <2>3. ASSUME NEW k \in K PROVE st.parent[k] # l
    <3>1. PICK r \in R : k = level[r]
      BY DEF Levels
    <3>2. st.parent[k] \in {0} \cup K
      BY <3>1 DEF Closed, Continues
    <3> HIDE DEF K, H, l
    <3> QED
      BY <2>1, <2>2, <3>2
  <2>4. LetGo(st, s, R) = Popped(st, l)
    BY <1>2 DEF LetGo
  <2>5. StorageOK(st, H)
    OBVIOUS
  <2>6. \A r \in R : level[r] \in K
    BY DEF Levels
  <2> HIDE DEF H, l, K
  <2>7. StorageOK(Popped(st, l), K) /\ \A k \in K : Popped(st, l).parent[k] = st.parent[k]
    BY <2>1, <2>3, <2>5, PoppedOK
  <2>8. ASSUME NEW n \in Names PROVE \A k \in K : Find(Popped(st, l), n, k) = Find(st, n, k)
    BY <2>1, <2>3, <2>5, PoppedShows
  <2>9. KeepsView(st, Popped(st, l), R)
    BY <2>6, <2>7, <2>8 DEF KeepsView
  <2> QED
    BY <2>4, <2>7, <2>9 DEF K
<1> QED
  BY <1>1, <1>2

-----------------------------------------------------------------------------
(* The invariant.                                                          *)
FrameInv(fs) ==
  /\ fs \in Seq(Frames) /\ Len(fs) \in 1 .. MaxFrames
  /\ \A i \in 1 .. Len(fs) : Len(fs[i].chain) \in 1 .. MaxChain
  /\ FramesOK(fs)

LEMMA ParsedInv ==
  TrailInv <=> /\ FrameInv(frames)
               /\ level \in [Scopes -> Nat]
               /\ LevelsOK(Held(frames), level)
               /\ ScopesInOrder(frames, store.parent, level)
               /\ StorageOK(store, Levels(level, Held(frames)))
BY DEF TrailInv, TypeOK, FrameInv, StorageOK, LiveLevels

LEMMA ShapeFacts ==
  ASSUME NEW fs, FrameInv(fs)
  PROVE  /\ fs \in Seq(Frames) /\ fs # << >> /\ Len(fs) \in Nat /\ Len(fs) \in 1 .. Len(fs)
         /\ \A i \in 1 .. Len(fs) : Len(fs[i].chain) \in Nat /\ 1 <= Len(fs[i].chain)
         /\ Len(fs[Len(fs)].chain) \in Nat
         /\ Len(fs[Len(fs)].chain) \in 1 .. Len(fs[Len(fs)].chain)
         /\ 1 <= Len(fs[Len(fs)].chain)
         /\ Cur(fs) = fs[Len(fs)].chain[Len(fs[Len(fs)].chain)]
         /\ Cur(fs) \in Contexts /\ Cur(fs).scope \in Held(fs)
         /\ Held(fs) = Before(fs, Len(fs), Len(fs[Len(fs)].chain)) \cup {Cur(fs).scope}
         /\ CallerOK(fs, Cur(fs).caller, Len(fs))
<1> DEFINE n == Len(fs)
           m == Len(fs[n].chain)
<1>1. /\ fs \in Seq(Frames) /\ n \in Nat /\ n \in 1 .. n
  BY BoundsAssumption DEF FrameInv
<1>2. fs # << >>
  BY <1>1
<1>3. ASSUME NEW i \in 1 .. n PROVE Len(fs[i].chain) \in Nat /\ 1 <= Len(fs[i].chain)
  BY BoundsAssumption DEF FrameInv
<1>4. m \in Nat /\ 1 <= m /\ m \in 1 .. m
  BY <1>1, <1>3
<1>5. Cur(fs) = fs[n].chain[m]
  BY DEF Cur, Last, Top
<1>6. Cur(fs) \in Contexts
  <2>1. fs[n].chain \in Seq(Contexts)
    BY <1>1, FrameFacts
  <2> DEFINE s == fs[n].chain
  <2> HIDE DEF s, n
  <2>2. s[Len(s)] \in Contexts
    BY <1>4, <2>1 DEF s
  <2> QED
    BY <1>5, <2>2 DEF s
<1>7. Held(fs) = Before(fs, n, m) \cup {Cur(fs).scope}
  <2>1. Held(fs) = Before(fs, n, m + 1)
    BY <1>1, <1>2, HeldIsBefore
  <2>2. ASSUME NEW s
        PROVE  s \in Before(fs, n, m + 1) <=> s \in Before(fs, n, m) \cup {Cur(fs).scope}
    <3>1. \A j : j \in 1 .. ((m + 1) - 1) <=> j \in 1 .. (m - 1) \/ j = m
      BY <1>4
    <3>2. ScopeAt(fs, n, m) = Cur(fs).scope
      BY <1>5 DEF ScopeAt
    <3>3. s \in Before(fs, n, m + 1) <=>
            s \in Earlier(fs, n) \/ s \in fs[n].held
            \/ \E j \in 1 .. ((m + 1) - 1) : s = ScopeAt(fs, n, j)
      BY InBefore
    <3>4. s \in Before(fs, n, m) <=>
            s \in Earlier(fs, n) \/ s \in fs[n].held \/ \E j \in 1 .. (m - 1) : s = ScopeAt(fs, n, j)
      BY InBefore
    <3> HIDE DEF n, m
    <3> QED
      BY <3>1, <3>2, <3>3, <3>4
  <2> QED
    BY <2>1, <2>2
<1>8. Cur(fs).scope \in Held(fs)
  BY <1>7
<1>9. CallerOK(fs, Cur(fs).caller, n)
  <2>1. FramesOK(fs)
    BY DEF FrameInv
  <2> QED
    BY <1>1, <1>4, <1>5, <2>1 DEF FramesOK
<1> QED
  BY <1>1, <1>2, <1>3, <1>4, <1>5, <1>6, <1>7, <1>8, <1>9

(* The current scope has the newest level.                                 *)
LEMMA MineIsNewest ==
  ASSUME TrailInv
  PROVE  /\ Mine \in Levels(level, Held(frames)) /\ Mine = Len(store.parent)
         /\ \A r \in Held(frames) : level[r] <= Mine
         /\ Mine \in Nat
<1> DEFINE R == Held(frames)
           H == Levels(level, R)
           n == Len(frames)
           m == Len(frames[n].chain)
<1>1. /\ FrameInv(frames) /\ level \in [Scopes -> Nat]
      /\ ScopesInOrder(frames, store.parent, level) /\ StorageOK(store, H)
  BY ParsedInv
<1>2. /\ n \in 1 .. n /\ m \in 1 .. m /\ Cur(frames) = frames[n].chain[m]
      /\ R = Before(frames, n, m) \cup {Cur(frames).scope}
      /\ Cur(frames).scope \in R
  BY <1>1, ShapeFacts
<1>3. Mine \in H
  BY <1>2 DEF Mine, Levels
<1>4. Len(store.parent) \in Nat /\ H \subseteq 1 .. Len(store.parent)
  <2> HIDE DEF H
  <2> QED
    BY <1>1, StorageFacts
<1>5. Mine \in Nat
  <2> HIDE DEF H
  <2> QED
    BY <1>3, <1>4
<1>6. ASSUME NEW r \in R PROVE level[r] <= Mine
  <2>1. \A q \in Before(frames, n, m) : level[q] <= level[frames[n].chain[m].scope]
    BY <1>1, <1>2 DEF ScopesInOrder, ContextInOrder
  <2>2. CASE r \in Before(frames, n, m)
    BY <1>2, <2>1, <2>2 DEF Mine
  <2>3. CASE r = Cur(frames).scope
    <3>1. level[r] = Mine
      BY <2>3 DEF Mine
    <3> QED
      BY <1>5, <3>1
  <2> QED
    BY <1>2, <2>2, <2>3
<1>7. Mine = Len(store.parent)
  <2>1. Len(store.parent) \in H \cup {0}
    BY <1>1 DEF StorageOK
  <2>2. Mine \in 1 .. Len(store.parent)
    <3> HIDE DEF H
    <3> QED
      BY <1>3, <1>4
  <2>3. Len(store.parent) \in H
    BY <1>4, <2>1, <2>2
  <2>4. PICK r \in R : Len(store.parent) = level[r]
    BY <2>3 DEF Levels
  <2>5. Len(store.parent) <= Mine
    BY <1>6, <2>4
  <2> QED
    BY <1>4, <2>2, <2>5
<1> QED
  BY <1>3, <1>5, <1>6, <1>7

-----------------------------------------------------------------------------
(* A scope is opened.                                                      *)

(* st is the storage with a new level, which continues level c and shows   *)
(* what c shows, the names of C their value of v instead.                  *)
OpenedTrail(st, c, C, v) ==
  /\ StorageOK(st, LiveLevels \cup {New(st)})
  /\ New(st) \notin LiveLevels /\ \A l \in LiveLevels : l < New(st)
  /\ st.parent[New(st)] = c
  /\ KeepsView(store, st, Held(frames))
  /\ \A n \in Names : Find(st, n, New(st)) = IF n \in C THEN v[n] ELSE Find(store, n, c)

LEMMA OpenedIsTrail ==
  ASSUME TrailInv, NEW c \in LiveLevels \cup {0}, NEW v \in [Names -> DynEntries]
  PROVE  OpenedTrail(Opened(store, c), c, {}, v)
<1> DEFINE o == Opened(store, c)
<1>1. StorageOK(store, LiveLevels)
  BY DEF TrailInv
<1>2. /\ StorageOK(o, LiveLevels \cup {New(o)}) /\ New(o) \notin LiveLevels
      /\ \A l \in LiveLevels : l < New(o) /\ o.parent[l] = store.parent[l]
      /\ o.parent[New(o)] = c
  BY <1>1, OpenedOK
<1>3. ASSUME NEW n \in Names
      PROVE  /\ \A l \in LiveLevels : Find(o, n, l) = Find(store, n, l)
             /\ Find(o, n, New(o)) = Find(store, n, c)
  BY <1>1, OpenedShows
<1> HIDE DEF o
<1>4. \A r \in Held(frames) : level[r] \in LiveLevels
  BY DEF LiveLevels, Levels
<1>5. KeepsView(store, o, Held(frames))
  BY <1>2, <1>3, <1>4 DEF KeepsView
<1> QED
  BY <1>2, <1>3, <1>5 DEF OpenedTrail, o

(* t is st with the names of C bound on the newest level.                  *)
SetTrail(st, t, C, v) ==
  /\ New(t) = New(st) /\ t.parent = st.parent
  /\ StorageOK(t, LiveLevels \cup {New(st)})
  /\ KeepsView(store, t, Held(frames))
  /\ \A n \in Names : Find(t, n, New(st)) = IF n \in C THEN v[n] ELSE Find(st, n, New(st))

LEMMA SetsOnOpened ==
  ASSUME TrailInv, NEW st, NEW c, NEW C0, NEW v0, OpenedTrail(st, c, C0, v0),
         NEW C, NEW v \in [Names -> DynEntries]
  PROVE  SetTrail(st, Sets(st, New(st), C, v), C, v)
<1> DEFINE l == New(st)
           t == Sets(st, l, C, v)
           H == LiveLevels \cup {l}
<1>1. /\ StorageOK(st, H) /\ l \notin LiveLevels /\ KeepsView(store, st, Held(frames))
      /\ l \in H /\ l = Len(st.parent)
  BY DEF OpenedTrail, New
<1>2. t.parent = st.parent /\ New(t) = l
  BY DEF Sets, New
<1> HIDE DEF l, H
<1>3. StorageOK(t, H)
  BY <1>1, SetsOK
<1>4. ASSUME NEW n \in Names
      PROVE  /\ \A k \in H \ {l} : Find(t, n, k) = Find(st, n, k)
             /\ Find(t, n, l) = IF n \in C THEN v[n] ELSE Find(st, n, l)
  BY <1>1, SetsShow
<1> HIDE DEF t
<1>5. \A r \in Held(frames) : level[r] \in H \ {l}
  BY <1>1 DEF LiveLevels, Levels, H
<1>6. KeepsView(store, t, Held(frames))
  BY <1>1, <1>2, <1>4, <1>5 DEF KeepsView
<1> QED
  BY <1>2, <1>3, <1>4, <1>6 DEF SetTrail, t, H, l

(* What a view's set writes, one name.                                     *)
ValueOf(st, n, x, l) == [m \in Names |-> DynEntry(x, Find(st, n, l).explicitlySet)]

LEMMA FindTyped ==
  ASSUME NEW st, NEW H, StorageOK(st, H), NEW n \in Names, NEW l \in H \cup {0}
  PROVE  Find(st, n, l) \in DynEntries
<1> DEFINE s == st.stacks[n]
           p == st.parent
           V == DynEntries
           L == Nat \ {0}
<1>1. /\ s \in Stacks(V, L) /\ Chained(p) /\ Leveled(s) /\ Ascending(s)
      /\ H \subseteq 1 .. Len(p) /\ Len(p) \in Nat /\ L \subseteq Nat \ {0}
  BY StorageFacts
<1>2. PICK none \in V : none = NoEntry
  BY NoEntryTyped
<1>3. l \in {Dead} \cup 0 .. Len(p)
  <2> HIDE DEF p
  <2> QED
    BY <1>1
<1> HIDE DEF s, p, V, L
<1>4. ASSUME NEW i \in 1 .. Len(s) PROVE s[i].value \in V
  <2>1. s[i] \in [value : V, level : L]
    BY <1>1, StackLeveled
  <2> QED
    BY <2>1
<1>5. Shown(p, s, l, none) \in V
  BY ONLY <1>1, <1>3, <1>4, none \in V, ShownTyped
<1> QED
  BY <1>2, <1>5, FindIsShown DEF p, s, V

LEMMA ValueOfTyped ==
  ASSUME NEW st, NEW H, StorageOK(st, H), NEW n \in Names, NEW l \in H \cup {0},
         NEW x \in Values \cup {Unset}
  PROVE  ValueOf(st, n, x, l) \in [Names -> DynEntries]
<1>1. Find(st, n, l) \in DynEntries
  BY FindTyped
<1>2. PICK b \in BOOLEAN : b = Find(st, n, l).explicitlySet
  BY <1>1 DEF DynEntries
<1>3. DynEntry(x, b) \in DynEntries
  BY DEF DynEntry, DynEntries
<1> QED
  BY <1>2, <1>3 DEF ValueOf

LEMMA ValueSetIsSets ==
  ASSUME NEW st, NEW H, StorageOK(st, H), NEW n \in Names, NEW x, NEW l
  PROVE  ValueSet(st, n, x, l) = Sets(st, l, {n}, ValueOf(st, n, x, l))
<1> DEFINE e == DynEntry(x, Find(st, n, l).explicitlySet)
           ss == [st.stacks EXCEPT ![n] = SetEntry(st.stacks[n], e, l)]
<1>1. st \in [parent : Seq({Dead} \cup Nat), stacks : [Names -> Seq(Entries)]]
  BY DEF StorageOK, Storages
<1>2. ValueSet(st, n, x, l) = [st EXCEPT !.stacks = ss]
  BY DEF ValueSet
<1>3. [st EXCEPT !.stacks = ss] = [parent |-> st.parent, stacks |-> ss]
  <2> HIDE DEF ss
  <2> QED
    BY <1>1, RecordSet
<1>4. st.stacks \in [Names -> Seq(Entries)]
  BY <1>1
<1>5. ss = [m \in Names |-> IF m \in {n} THEN SetEntry(st.stacks[m], ValueOf(st, n, x, l)[m], l)
                            ELSE st.stacks[m]]
  <2>1. ValueOf(st, n, x, l)[n] = e
    BY DEF ValueOf
  <2> HIDE DEF e
  <2> QED
    BY <1>4, <2>1
<1> QED
  BY <1>2, <1>3, <1>5 DEF Sets

(* A scope opened with one parameter.                                      *)
LEMMA BoundIsTrail ==
  ASSUME TrailInv, NEW c \in LiveLevels \cup {0}, NEW n \in Names, NEW x \in Values
  PROVE  LET o == Opened(store, c)
         IN  OpenedTrail(ValueSet(o, n, x, New(o)), c, {n}, ValueOf(o, n, x, New(o)))
<1> DEFINE o == Opened(store, c)
           l == New(o)
           v == ValueOf(o, n, x, l)
           t == ValueSet(o, n, x, l)
           H == LiveLevels \cup {l}
<1>1. PICK w \in [Names -> DynEntries] : OpenedTrail(o, c, {}, w)
  <2>1. [m \in Names |-> NoEntry] \in [Names -> DynEntries]
    BY NoEntryTyped
  <2> QED
    BY <2>1, OpenedIsTrail
<1>2. StorageOK(o, H)
  BY <1>1 DEF OpenedTrail
<1> HIDE DEF o
<1>3. l \in H \cup {0}
  OBVIOUS
<1> HIDE DEF H, l
<1>4. v \in [Names -> DynEntries] /\ t = Sets(o, l, {n}, v)
  BY <1>2, <1>3, ValueOfTyped, ValueSetIsSets
<1> HIDE DEF v
<1>5. /\ New(t) = l /\ StorageOK(t, H) /\ t.parent = o.parent
      /\ KeepsView(store, t, Held(frames))
      /\ \A m \in Names : Find(t, m, l) = IF m \in {n} THEN v[m] ELSE Find(o, m, l)
  <2>1. SetTrail(o, t, {n}, v)
    BY <1>1, <1>4, SetsOnOpened DEF l
  <2> QED
    BY <2>1 DEF SetTrail, l, H
<1>6. /\ l \notin LiveLevels /\ \A k \in LiveLevels : k < l
      /\ o.parent[l] = c
      /\ \A m \in Names : Find(o, m, l) = Find(store, m, c)
  BY <1>1 DEF OpenedTrail, l
<1> HIDE DEF t
<1> QED
  BY <1>5, <1>6 DEF OpenedTrail, o, l, v, t, H

(* s, and no other scope, gets level l.                                    *)
GetsLevel(kv, s, l) ==
  kv \in [Scopes -> Nat] /\ kv[s] = l /\ \A r \in Held(frames) : kv[r] = level[r]

LEMMA HeldScopes ==
  ASSUME NEW fs \in Seq(Frames)
  PROVE  Held(fs) \subseteq Scopes
<1>1. ASSUME NEW r \in Held(fs) PROVE r \in Scopes
  <2>1. PICK i \in 1 .. Len(fs) :
          \/ r \in fs[i].held
          \/ \E j \in 1 .. Len(fs[i].chain) : r = ScopeAt(fs, i, j)
    BY InHeld DEF HeldBy
  <2>2. fs[i].held \subseteq Scopes /\ fs[i].chain \in Seq(Contexts)
    BY FrameFacts
  <2>3. ASSUME NEW q \in Seq(Contexts), NEW j \in 1 .. Len(q) PROVE q[j].scope \in Scopes
    <3>1. q[j] \in Contexts
      OBVIOUS
    <3> QED
      BY <3>1 DEF Contexts
  <2> QED
    BY <2>1, <2>2, <2>3 DEF ScopeAt
<1> QED
  BY <1>1

LEMMA OpensGetsLevel ==
  ASSUME TrailInv, NEW s \in Fresh(frames), NEW l \in Nat
  PROVE  GetsLevel([level EXCEPT ![s] = l], s, l)
<1>1. level \in [Scopes -> Nat] /\ s \in Scopes /\ s \notin Held(frames)
      /\ frames \in Seq(Frames)
  BY DEF TrailInv, TypeOK, Fresh
<1>2. Held(frames) \subseteq Scopes
  BY <1>1, HeldScopes
<1> QED
  BY <1>1, <1>2 DEF GetsLevel

LEMMA NewScopeOnTop ==
  ASSUME TrailInv, NEW s \in Fresh(frames), NEW c \in LiveLevels \cup {0},
         NEW st, NEW C, NEW v, OpenedTrail(st, c, C, v),
         NEW kv, GetsLevel(kv, s, New(st))
  PROVE  /\ SameLevels(store.parent, level, st.parent, kv, Held(frames))
         /\ OnTop(st.parent, kv, s, Held(frames))
         /\ LevelsOK(Held(frames) \cup {s}, kv)
         /\ Levels(kv, Held(frames) \cup {s}) = LiveLevels \cup {New(st)}
<1> DEFINE R == Held(frames)
           l == New(st)
<1>1. /\ StorageOK(st, LiveLevels \cup {l}) /\ l \notin LiveLevels
      /\ \A k \in LiveLevels : k < l
      /\ st.parent[l] = c /\ KeepsView(store, st, R)
  BY DEF OpenedTrail
<1>2. s \in Scopes /\ s \notin R /\ level \in [Scopes -> Nat] /\ LevelsOK(R, level)
  BY ParsedInv DEF Fresh
<1>3. l \in Nat \ {0} /\ LiveLevels \subseteq Nat
  <2> DEFINE H == LiveLevels \cup {l}
  <2>1. StorageOK(st, H) /\ l \in H /\ LiveLevels \subseteq H
    BY <1>1
  <2> HIDE DEF H, l
  <2>2. H \subseteq Nat \ {0}
    BY <2>1, StorageFacts
  <2> QED
    BY <2>1, <2>2
<1> HIDE DEF l, R
<1>4. /\ kv \in [Scopes -> Nat] /\ kv[s] = l
      /\ \A r \in R : kv[r] = level[r]
  BY DEF GetsLevel, l, R
<1>5. SameLevels(store.parent, level, st.parent, kv, R)
  BY <1>1, <1>4 DEF SameLevels, KeepsView
<1>6. Levels(kv, R) = LiveLevels
  BY <1>4 DEF Levels, LiveLevels, R
<1>7. OnTop(st.parent, kv, s, R)
  <2>1. Continues(st.parent, kv, s, R)
    BY <1>1, <1>4, <1>6 DEF Continues
  <2>2. ASSUME NEW r \in R PROVE kv[r] <= kv[s]
    <3>1. level[r] \in LiveLevels
      BY DEF LiveLevels, Levels, R
    <3>2. level[r] < l
      BY <1>1, <3>1
    <3>3. kv[r] \in Nat /\ level[r] \in Nat
      BY <1>3, <1>4, <3>1
    <3> QED
      BY <1>3, <1>4, <3>2, <3>3
  <2> QED
    BY <2>1, <2>2 DEF OnTop
<1>8. LevelsOK(R \cup {s}, kv)
  <2>1. ASSUME NEW r \in R PROVE kv[r] # l
    BY <1>1, <1>4 DEF LiveLevels, Levels, R
  <2> QED
    BY <1>2, <1>4, <2>1 DEF LevelsOK
<1>9. Levels(kv, R \cup {s}) = LiveLevels \cup {l}
  BY <1>4, <1>6 DEF Levels
<1> QED
  BY <1>4, <1>5, <1>7, <1>8, <1>9 DEF l, R

LEMMA NextInv ==
  ASSUME FrameInv(frames'), level' \in [Scopes -> Nat], LevelsOK(Held(frames'), level'),
         ScopesInOrder(frames', store'.parent, level'),
         StorageOK(store', Levels(level', Held(frames')))
  PROVE  TrailInv'
BY DEF TrailInv, TypeOK, FrameInv, StorageOK, LiveLevels

LEMMA OpensInv ==
  ASSUME TrailInv, NEW s \in Fresh(frames), NEW c \in LiveLevels \cup {0},
         NEW st, NEW C, NEW v, OpenedTrail(st, c, C, v),
         NEW gs, FrameInv(gs), Held(gs) = Held(frames) \cup {s},
         frames' = gs, store' = st, GetsLevel(level', s, New(st)),
         ScopesInOrder(gs, st.parent, level')
  PROVE  TrailInv'
<1>1. PICK kv : kv = level'
  OBVIOUS
<1>2. /\ kv \in [Scopes -> Nat] /\ LevelsOK(Held(frames) \cup {s}, kv)
      /\ Levels(kv, Held(frames) \cup {s}) = LiveLevels \cup {New(st)}
  BY <1>1, NewScopeOnTop DEF GetsLevel
<1>3. StorageOK(st, LiveLevels \cup {New(st)})
  BY DEF OpenedTrail
<1>4. frames' = gs /\ store' = st /\ level' = kv
  BY <1>1
<1>5. ScopesInOrder(gs, st.parent, kv)
  BY <1>1
<1>6. /\ FrameInv(frames') /\ level' \in [Scopes -> Nat] /\ LevelsOK(Held(frames'), level')
      /\ ScopesInOrder(frames', store'.parent, level')
      /\ StorageOK(store', Levels(level', Held(frames')))
  BY <1>2, <1>3, <1>4, <1>5
<1> QED
  BY <1>6, NextInv

LEMMA PushedInv ==
  ASSUME NEW fs, FrameInv(fs), Len(fs) < MaxFrames, NEW gs, NEW c, NEW h, IsPushed(fs, gs, c, h),
         c.kind = "body", CallerOK(fs, c.caller, Len(fs) + 1)
  PROVE  FrameInv(gs)
<1> DEFINE n == Len(fs) + 1
<1>1. /\ fs \in Seq(Frames) /\ Len(fs) \in Nat /\ FramesOK(fs)
      /\ \A i \in 1 .. Len(fs) : Len(fs[i].chain) \in 1 .. MaxChain
  BY ShapeFacts DEF FrameInv
<1>2. /\ gs \in Seq(Frames) /\ Len(gs) = n
      /\ \A i \in 1 .. Len(fs) : gs[i] = fs[i]
      /\ OnlyContext(gs[n], c)
  BY DEF IsPushed
<1>3. FramesOK(gs)
  BY <1>1, PushedFramesOK
<1>4. n \in 1 .. MaxFrames
  BY <1>1, BoundsAssumption
<1>5. Len(gs[n].chain) \in 1 .. MaxChain
  <2>1. n \in 1 .. Len(gs)
    BY <1>1, <1>2
  <2>2. Len(gs[n].chain) \in Nat
    BY <1>2, <2>1, FrameFacts
  <2>3. PICK k \in Nat : k = Len(gs[n].chain)
    BY <2>2
  <2>4. 1 \in 1 .. k /\ \A j \in 1 .. k : j = 1
    BY <1>2, <2>3 DEF OnlyContext
  <2>5. k \in 1 .. k
    BY <2>4
  <2>6. k = 1
    BY <2>4, <2>5
  <2> QED
    BY <2>3, <2>6, BoundsAssumption
<1>6. ASSUME NEW i \in 1 .. Len(gs) PROVE Len(gs[i].chain) \in 1 .. MaxChain
  <2>1. i \in 1 .. Len(fs) \/ i = n
    BY <1>1, <1>2
  <2> HIDE DEF n
  <2> QED
    BY <1>1, <1>2, <1>5, <2>1
<1> QED
  BY <1>2, <1>3, <1>4, <1>6 DEF FrameInv

LEMMA ExtendedInv ==
  ASSUME NEW fs, FrameInv(fs), ChainRoom(fs), NEW gs, NEW c, IsExtended(fs, gs, c),
         CallerOK(fs, c.caller, Len(fs))
  PROVE  FrameInv(gs)
<1> DEFINE n == Len(fs)
           m == Len(fs[n].chain) + 1
<1>1. /\ fs \in Seq(Frames) /\ n \in Nat /\ FramesOK(fs) /\ n \in 1 .. MaxFrames
      /\ \A i \in 1 .. n : Len(fs[i].chain) \in 1 .. MaxChain
      /\ Len(fs[n].chain) \in Nat /\ 1 <= Len(fs[n].chain)
  BY ShapeFacts DEF FrameInv
<1>2. /\ gs \in Seq(Frames) /\ Len(gs) = n
      /\ \A i \in 1 .. (n - 1) : gs[i] = fs[i]
      /\ Len(gs[n].chain) = m
  BY DEF IsExtended
<1>3. FramesOK(gs)
  BY <1>1, ExtendedFramesOK
<1>4. m \in 1 .. MaxChain
  BY <1>1, BoundsAssumption DEF ChainRoom, Top
<1>5. ASSUME NEW i \in 1 .. Len(gs) PROVE Len(gs[i].chain) \in 1 .. MaxChain
  <2>1. i \in 1 .. (n - 1) \/ i = n
    BY <1>1, <1>2
  <2>2. 1 .. (n - 1) \subseteq 1 .. n
    BY <1>1
  <2> HIDE DEF n, m
  <2> QED
    BY <1>1, <1>2, <1>4, <2>1, <2>2
<1> QED
  BY <1>1, <1>2, <1>3, <1>5 DEF FrameInv

LEMMA ContextTyped ==
  ASSUME NEW s \in Scopes, NEW c \in [frame : Nat, at : Nat], NEW k \in {"body", "scope"}
  PROVE  /\ EvalContext(s, c, k) \in Contexts /\ EvalContext(s, c, k).scope = s
         /\ EvalContext(s, c, k).caller = c /\ EvalContext(s, c, k).kind = k
BY DEF EvalContext, Contexts

(* A new frame, or a new context of the frame on top.                      *)
LEMMA OpensFrameInv ==
  ASSUME TrailInv, NEW s \in Fresh(frames), NEW d \in LiveLevels \cup {0},
         NEW st, NEW C, NEW v, OpenedTrail(st, d, C, v),
         NEW c, c.scope = s, c.kind = "body", CallerOK(frames, c.caller, Len(frames) + 1),
         NEW h \in SUBSET Held(frames), \A e, g \in h : e = g,
         NEW gs, IsPushed(frames, gs, c, h), Room(frames),
         frames' = gs, store' = st, GetsLevel(level', s, New(st))
  PROVE  TrailInv'
<1>0. /\ FrameInv(frames) /\ ScopesInOrder(frames, store.parent, level)
      /\ frames \in Seq(Frames)
  BY ParsedInv DEF FrameInv
<1>1. FrameInv(gs)
  BY <1>0, PushedInv DEF Room
<1>2. Held(gs) = Held(frames) \cup {s}
  BY DEF IsPushed
<1>3. PICK kv : kv = level'
  OBVIOUS
<1>4. /\ SameLevels(store.parent, level, st.parent, kv, Held(frames))
      /\ OnTop(st.parent, kv, s, Held(frames))
  BY <1>3, NewScopeOnTop
<1>5. ScopesInOrder(gs, st.parent, kv)
  <2>1. HeldOver(st.parent, kv, h, Held(frames))
    <3>1. ASSUME NEW e \in h PROVE Continues(st.parent, kv, e, Held(frames))
      <4>1. e \in Held(frames) /\ Continues(store.parent, level, e, Held(frames))
        BY <1>0, HeldClosed DEF Closed
      <4> QED
        BY <1>4, <4>1, ContinuesKept
    <3> QED
      BY <3>1 DEF HeldOver
  <2>2. OnTop(st.parent, kv, c.scope, Held(frames) \cup h)
    <3>1. Held(frames) \cup h = Held(frames)
      OBVIOUS
    <3> QED
      BY <1>4, <3>1
  <2> QED
    BY <1>0, <1>4, <2>1, <2>2, PushedInOrder
<1> QED
  BY <1>1, <1>2, <1>3, <1>5, OpensInv

LEMMA OpensContextInv ==
  ASSUME TrailInv, NEW s \in Fresh(frames), NEW d \in LiveLevels \cup {0},
         NEW st, NEW C, NEW v, OpenedTrail(st, d, C, v),
         NEW c, c.scope = s, CallerOK(frames, c.caller, Len(frames)),
         NEW gs, IsExtended(frames, gs, c), ChainRoom(frames),
         frames' = gs, store' = st, GetsLevel(level', s, New(st))
  PROVE  TrailInv'
<1>0. FrameInv(frames) /\ ScopesInOrder(frames, store.parent, level)
  BY ParsedInv
<1>1. FrameInv(gs)
  BY <1>0, ExtendedInv
<1>2. Held(gs) = Held(frames) \cup {s}
  BY DEF IsExtended
<1>3. PICK kv : kv = level'
  OBVIOUS
<1>4. /\ SameLevels(store.parent, level, st.parent, kv, Held(frames))
      /\ OnTop(st.parent, kv, c.scope, Held(frames))
  BY <1>3, NewScopeOnTop
<1>5. ScopesInOrder(gs, st.parent, kv)
  <2>1. frames \in Seq(Frames) /\ 1 <= Len(frames[Len(frames)].chain)
    BY <1>0, ShapeFacts
  <2> QED
    BY <1>0, <1>4, <2>1, ExtendedInOrder
<1> QED
  BY <1>1, <1>2, <1>3, <1>5, OpensInv

LEMMA OpensSteps ==
  ASSUME TrailInv, NEW s \in Fresh(frames), NEW d, NEW C, NEW v,
         NEW st, OpenedTrail(st, d, C, v), NEW gs, Opens(gs, s, st)
  PROVE  frames' = gs /\ store' = st /\ GetsLevel(level', s, New(st))
<1>1. New(st) \in Nat
  <2>1. st \in Storages
    BY DEF OpenedTrail, StorageOK
  <2> QED
    BY <2>1 DEF Storages, New
<1> QED
  BY <1>1, OpensGetsLevel DEF Opens

-----------------------------------------------------------------------------
(* The steps that open a scope.                                            *)
LEMMA MineLive == ASSUME TrailInv PROVE Mine \in LiveLevels \cup {0}
BY MineIsNewest DEF LiveLevels

LEMMA NoCallerTyped ==
  /\ NoCaller \in [frame : Nat, at : Nat]
  /\ \A fs, i : CallerOK(fs, NoCaller, i)
BY DEF NoCaller, CallerOK

LEMMA CalledPushes ==
  ASSUME FrameInv(frames), NEW s \in Scopes
  PROVE  LET c == EvalContext(s, NoCaller, "body")
         IN  /\ IsPushed(frames, Called(frames, s), c, {}) /\ c.scope = s /\ c.kind = "body"
             /\ CallerOK(frames, c.caller, Len(frames) + 1)
<1> DEFINE c == EvalContext(s, NoCaller, "body")
<1>1. c \in Contexts /\ c.scope = s /\ c.caller = NoCaller /\ c.kind = "body"
  BY ContextTyped, NoCallerTyped
<1>2. Called(frames, s) = Append(frames, Frame("function", c, {}))
  BY DEF Called
<1>3. frames \in Seq(Frames) /\ {} \in SUBSET Scopes
  BY DEF FrameInv
<1>4. PICK k \in Kinds : k = "function"
  BY DEF Kinds
<1> HIDE DEF c
<1>5. IsPushed(frames, Called(frames, s), c, {})
  BY <1>1, <1>2, <1>3, <1>4, Pushed
<1>6. CallerOK(frames, c.caller, Len(frames) + 1)
  BY <1>1, NoCallerTyped
<1> QED
  BY <1>1, <1>5, <1>6 DEF c

LEMMA CallInv ==
  ASSUME TrailInv, NEW s \in Fresh(frames), NEW n \in Names, NEW x \in Values, Call(s, n, x)
  PROVE  TrailInv'
<1> DEFINE c == EvalContext(s, NoCaller, "body")
           o == Opened(store, Mine)
           st == ValueSet(o, n, x, New(o))
           gs == Called(frames, s)
<1>1. Mine \in LiveLevels \cup {0}
  BY MineLive
<1>2. OpenedTrail(st, Mine, {n}, ValueOf(o, n, x, New(o)))
  BY <1>1, BoundIsTrail
<1>3. /\ IsPushed(frames, gs, c, {}) /\ c.scope = s /\ c.kind = "body"
      /\ CallerOK(frames, c.caller, Len(frames) + 1)
  BY ParsedInv, CalledPushes DEF Fresh
<1>4. Room(frames) /\ Opens(gs, s, st)
  BY DEF Call
<1> HIDE DEF c, gs, st, o
<1>5. frames' = gs /\ store' = st /\ GetsLevel(level', s, New(st))
  BY <1>2, <1>4, OpensSteps
<1> QED
  BY <1>1, <1>2, <1>3, <1>4, <1>5, OpensFrameInv

LEMMA ModuleCalledPushes ==
  ASSUME FrameInv(frames), NEW s \in Scopes
  PROVE  LET c == EvalContext(s, Here(frames), "body")
         IN  /\ IsPushed(frames, ModuleCalled(frames, s), c, {}) /\ c.scope = s /\ c.kind = "body"
             /\ CallerOK(frames, c.caller, Len(frames) + 1)
<1> DEFINE c == EvalContext(s, Here(frames), "body")
<1>1. Here(frames) \in [frame : Nat, at : Nat] /\ CallerOK(frames, Here(frames), Len(frames) + 1)
  <2>1. /\ Len(frames) \in Nat /\ Len(frames) \in 1 .. Len(frames)
        /\ Len(frames[Len(frames)].chain) \in Nat
        /\ Len(frames[Len(frames)].chain) \in 1 .. Len(frames[Len(frames)].chain)
    BY ShapeFacts
  <2>2. Here(frames) = [frame |-> Len(frames), at |-> Len(frames[Len(frames)].chain)]
    BY DEF Here, Top
  <2>3. Len(frames) \in 1 .. ((Len(frames) + 1) - 1)
    BY <2>1
  <2> QED
    BY <2>1, <2>2, <2>3 DEF CallerOK
<1>2. c \in Contexts /\ c.scope = s /\ c.caller = Here(frames) /\ c.kind = "body"
  BY <1>1, ContextTyped
<1>3. ModuleCalled(frames, s) = Append(frames, Frame("module", c, {}))
  BY DEF ModuleCalled
<1>4. frames \in Seq(Frames) /\ {} \in SUBSET Scopes
  BY DEF FrameInv
<1>5. PICK k \in Kinds : k = "module"
  BY DEF Kinds
<1> HIDE DEF c
<1>6. IsPushed(frames, ModuleCalled(frames, s), c, {})
  BY <1>2, <1>3, <1>4, <1>5, Pushed
<1>7. CallerOK(frames, c.caller, Len(frames) + 1)
  BY <1>1, <1>2
<1> QED
  BY <1>2, <1>6, <1>7 DEF c

LEMMA CallModuleInv ==
  ASSUME TrailInv, NEW s \in Fresh(frames), NEW x \in Values, CallModule(s, x)
  PROVE  TrailInv'
<1> DEFINE c == EvalContext(s, Here(frames), "body")
           o == Opened(store, Mine)
           st == ValueSet(o, Children, x, New(o))
           gs == ModuleCalled(frames, s)
<1>1. Mine \in LiveLevels \cup {0}
  BY MineLive
<1>2. OpenedTrail(st, Mine, {Children}, ValueOf(o, Children, x, New(o)))
  BY <1>1, BoundIsTrail, NamesAssumption
<1>3. /\ IsPushed(frames, gs, c, {}) /\ c.scope = s /\ c.kind = "body"
      /\ CallerOK(frames, c.caller, Len(frames) + 1)
  BY ParsedInv, ModuleCalledPushes DEF Fresh
<1>4. Room(frames) /\ Opens(gs, s, st)
  BY DEF CallModule
<1> HIDE DEF c, gs, st, o
<1>5. frames' = gs /\ store' = st /\ GetsLevel(level', s, New(st))
  BY <1>2, <1>4, OpensSteps
<1> QED
  BY <1>1, <1>2, <1>3, <1>4, <1>5, OpensFrameInv

LEMMA HoppedExtends ==
  ASSUME FrameInv(frames), NEW s \in Scopes
  PROVE  LET c == EvalContext(s, NoCaller, "body")
         IN  /\ IsExtended(frames, Hopped(frames, s), c) /\ c.scope = s
             /\ CallerOK(frames, c.caller, Len(frames))
<1> DEFINE c == EvalContext(s, NoCaller, "body")
<1>1. c \in Contexts /\ c.scope = s /\ c.caller = NoCaller
  BY ContextTyped, NoCallerTyped
<1>2. Hopped(frames, s) = WithCtx(frames, c)
  BY DEF Hopped
<1>3. frames \in Seq(Frames) /\ frames # << >>
  BY ShapeFacts
<1> HIDE DEF c
<1>4. IsExtended(frames, Hopped(frames, s), c)
  BY <1>1, <1>2, <1>3, Extended
<1>5. CallerOK(frames, c.caller, Len(frames))
  BY <1>1, NoCallerTyped
<1> QED
  BY <1>1, <1>4, <1>5 DEF c

LEMMA TailHopInv ==
  ASSUME TrailInv, NEW s \in Fresh(frames), NEW n \in Names, NEW x \in Values, TailHop(s, n, x)
  PROVE  TrailInv'
<1> DEFINE c == EvalContext(s, NoCaller, "body")
           o == Opened(store, Mine)
           st == ValueSet(o, n, x, New(o))
           gs == Hopped(frames, s)
<1>1. Mine \in LiveLevels \cup {0}
  BY MineLive
<1>2. OpenedTrail(st, Mine, {n}, ValueOf(o, n, x, New(o)))
  BY <1>1, BoundIsTrail
<1>3. IsExtended(frames, gs, c) /\ c.scope = s /\ CallerOK(frames, c.caller, Len(frames))
  BY ParsedInv, HoppedExtends DEF Fresh
<1>4. ChainRoom(frames) /\ Opens(gs, s, st)
  BY DEF TailHop
<1> HIDE DEF c, gs, st, o
<1>5. frames' = gs /\ store' = st /\ GetsLevel(level', s, New(st))
  BY <1>2, <1>4, OpensSteps
<1> QED
  BY <1>1, <1>2, <1>3, <1>4, <1>5, OpensContextInv

(* The context of a let or a loop iteration.                               *)
LEMMA ScopedExtends ==
  ASSUME FrameInv(frames), NEW s \in Scopes
  PROVE  LET c == EvalContext(s, Cur(frames).caller, "scope")
         IN  /\ IsExtended(frames, Scoped(frames, s), c) /\ c.scope = s
             /\ CallerOK(frames, c.caller, Len(frames))
<1> DEFINE c == EvalContext(s, Cur(frames).caller, "scope")
<1>1. /\ frames \in Seq(Frames) /\ frames # << >> /\ Cur(frames) \in Contexts
      /\ CallerOK(frames, Cur(frames).caller, Len(frames))
  BY ShapeFacts
<1>2. Cur(frames).caller \in [frame : Nat, at : Nat]
  BY <1>1 DEF Contexts
<1>3. c \in Contexts /\ c.scope = s /\ c.caller = Cur(frames).caller
  BY <1>2, ContextTyped
<1>4. Scoped(frames, s) = WithCtx(frames, c)
  BY DEF Scoped
<1> HIDE DEF c
<1>5. IsExtended(frames, Scoped(frames, s), c)
  BY <1>1, <1>3, <1>4, Extended
<1> QED
  BY <1>1, <1>3, <1>5 DEF c

LEMMA OpenScopeInv ==
  ASSUME TrailInv, NEW s \in Fresh(frames), OpenScope(s)
  PROVE  TrailInv'
<1> DEFINE c == EvalContext(s, Cur(frames).caller, "scope")
           st == Opened(store, Mine)
           gs == Scoped(frames, s)
<1>1. Mine \in LiveLevels \cup {0}
  BY MineLive
<1>2. PICK v \in [Names -> DynEntries] : OpenedTrail(st, Mine, {}, v)
  <2>1. [m \in Names |-> NoEntry] \in [Names -> DynEntries]
    BY NoEntryTyped
  <2> QED
    BY <1>1, <2>1, OpenedIsTrail
<1>3. IsExtended(frames, gs, c) /\ c.scope = s /\ CallerOK(frames, c.caller, Len(frames))
  BY ParsedInv, ScopedExtends DEF Fresh
<1>4. ChainRoom(frames) /\ Opens(gs, s, st)
  BY DEF OpenScope
<1> HIDE DEF c, gs, st
<1>5. frames' = gs /\ store' = st /\ GetsLevel(level', s, New(st))
  BY <1>2, <1>4, OpensSteps
<1> QED
  BY <1>1, <1>2, <1>3, <1>4, <1>5, OpensContextInv

LEMMA CopyContextInv ==
  ASSUME TrailInv, CopyContext
  PROVE  TrailInv'
<1> DEFINE s == Cur(frames).scope
           c == EvalContext(s, Cur(frames).caller, "scope")
           gs == Scoped(frames, s)
           R == Held(frames)
<1>1. /\ FrameInv(frames) /\ ScopesInOrder(frames, store.parent, level)
      /\ level \in [Scopes -> Nat] /\ LevelsOK(R, level)
      /\ StorageOK(store, Levels(level, R))
  BY ParsedInv
<1>2. s \in R /\ s \in Scopes /\ frames \in Seq(Frames)
      /\ 1 <= Len(frames[Len(frames)].chain)
  BY <1>1, ShapeFacts DEF Contexts
<1>3. IsExtended(frames, gs, c) /\ c.scope = s /\ CallerOK(frames, c.caller, Len(frames))
  BY <1>1, <1>2, ScopedExtends
<1>4. ChainRoom(frames) /\ frames' = gs /\ store' = store /\ level' = level
  BY DEF CopyContext
<1> HIDE DEF c, gs
<1>5. FrameInv(gs)
  BY <1>1, <1>3, <1>4, ExtendedInv
<1>6. Held(gs) = R
  BY <1>2, <1>3 DEF IsExtended
<1>7. ScopesInOrder(gs, store.parent, level)
  <2>1. SameLevels(store.parent, level, store.parent, level, R)
    BY DEF SameLevels
  <2>2. OnTop(store.parent, level, s, R)
    <3>1. Continues(store.parent, level, s, R)
      BY <1>1, <1>2, HeldClosed DEF Closed
    <3>2. \A r \in R : level[r] <= level[s]
      BY MineIsNewest DEF Mine
    <3> QED
      BY <3>1, <3>2 DEF OnTop
  <2> QED
    BY <1>1, <1>2, <1>3, <2>1, <2>2, ExtendedInOrder
<1> QED
  BY <1>1, <1>4, <1>5, <1>6, <1>7, NextInv

-----------------------------------------------------------------------------
(* The steps that let go of contexts.                                      *)
LEMMA ShorterInv ==
  ASSUME FrameInv(frames), NEW gs, IsShorter(frames, gs)
  PROVE  FrameInv(gs)
<1>1. /\ frames \in Seq(Frames) /\ Len(frames) \in 1 .. MaxFrames
      /\ \A i \in 1 .. Len(frames) : Len(frames[i].chain) \in 1 .. MaxChain
      /\ FramesOK(frames) /\ MaxFrames \in Nat /\ MaxChain \in Nat
  BY BoundsAssumption DEF FrameInv
<1>2. /\ gs \in Seq(Frames) /\ Len(gs) \in 1 .. Len(frames)
      /\ \A i \in 1 .. Len(gs) : Len(gs[i].chain) \in 1 .. Len(frames[i].chain)
  BY DEF IsShorter
<1>3. FramesOK(gs)
  BY <1>1, ShorterFramesOK
<1>4. PICK n \in Nat : n = Len(frames)
  BY <1>1
<1>5. PICK m \in Nat : m = Len(gs)
  BY <1>2
<1>6. m \in 1 .. n /\ n \in 1 .. MaxFrames
  BY <1>1, <1>2, <1>4, <1>5
<1>7. Len(gs) \in 1 .. MaxFrames
  BY ONLY <1>1, <1>5, <1>6, m \in Nat, n \in Nat
<1>8. ASSUME NEW i \in 1 .. Len(gs) PROVE Len(gs[i].chain) \in 1 .. MaxChain
  <2>1. i \in 1 .. Len(frames)
    BY ONLY <1>4, <1>5, <1>6, m \in Nat, n \in Nat, i \in 1 .. Len(gs)
  <2>2. PICK k \in Nat : k = Len(frames[i].chain)
    BY <1>1, <2>1
  <2>3. k \in 1 .. MaxChain /\ Len(gs[i].chain) \in 1 .. k
    BY <1>1, <1>2, <2>1, <2>2
  <2> QED
    BY ONLY <1>1, <2>3, k \in Nat
<1> QED
  BY <1>2, <1>3, <1>7, <1>8 DEF FrameInv

LEMMA LeavesInv ==
  ASSUME TrailInv, NEW gs, IsShorter(frames, gs), NEW st,
         StorageOK(st, Levels(level, Held(gs))), KeepsView(store, st, Held(gs)),
         frames' = gs, store' = st,
         level' = [s \in Scopes |-> IF s \in Held(gs) THEN level[s] ELSE 0]
  PROVE  TrailInv'
<1> DEFINE R == Held(gs)
<1>1. /\ FrameInv(frames) /\ ScopesInOrder(frames, store.parent, level)
      /\ level \in [Scopes -> Nat] /\ LevelsOK(Held(frames), level)
      /\ frames \in Seq(Frames)
  BY ParsedInv DEF FrameInv
<1>2. FrameInv(gs)
  BY <1>1, ShorterInv
<1>3. R \subseteq Held(frames) /\ R \subseteq Scopes
  BY <1>2, HeldScopes DEF IsShorter, FrameInv
<1>4. PICK kv : kv = level'
  OBVIOUS
<1>5. kv \in [Scopes -> Nat] /\ \A s \in R : kv[s] = level[s]
  BY <1>1, <1>3, <1>4
<1> HIDE DEF R
<1>6. LevelsOK(R, kv)
  BY <1>1, <1>3, <1>5 DEF LevelsOK
<1>7. Levels(kv, R) = Levels(level, R)
  BY <1>5 DEF Levels
<1>8. SameLevels(store.parent, level, st.parent, kv, R)
  BY <1>5 DEF SameLevels, KeepsView, R
<1>9. ScopesInOrder(gs, st.parent, kv)
  BY <1>1, <1>8, ShorterInOrder DEF R
<1> QED
  BY <1>2, <1>4, <1>5, <1>6, <1>7, <1>9, NextInv DEF R

LEMMA CloseScopeKeeps ==
  ASSUME TrailInv, CloseScope
  PROVE  LET gs == ScopeClosed(frames)
         IN  /\ IsShorter(frames, gs) /\ frames' = gs
             /\ StorageOK(store', Levels(level, Held(gs))) /\ KeepsView(store, store', Held(gs))
<1> DEFINE gs == ScopeClosed(frames)
           s == Cur(frames).scope
<1>1. /\ FrameInv(frames) /\ ScopesInOrder(frames, store.parent, level)
      /\ LevelsOK(Held(frames), level) /\ StorageOK(store, Levels(level, Held(frames)))
  BY ParsedInv
<1>2. /\ Cur(frames).kind = "scope" /\ frames' = gs /\ store' = LetGo(store, s, Held(gs))
      /\ level' = [r \in Scopes |-> IF r \in Held(gs) THEN level[r] ELSE 0]
  BY DEF CloseScope
<1>3. /\ frames \in Seq(Frames) /\ frames # << >>
      /\ \A i \in 1 .. Len(frames) : 1 <= Len(frames[i].chain)
      /\ Len(frames) \in 1 .. Len(frames) /\ Len(frames[Len(frames)].chain) \in Nat
      /\ Cur(frames) = frames[Len(frames)].chain[Len(frames[Len(frames)].chain)]
  BY <1>1, ShapeFacts
<1>4. 2 <= Len(frames[Len(frames)].chain)
  <2>1. frames[Len(frames)].chain[1].kind = "body"
    BY <1>1, <1>3 DEF FrameInv, FramesOK
  <2>2. PICK k \in Nat : k = Len(frames[Len(frames)].chain)
    BY <1>3
  <2>3. 1 <= k
    BY <1>3, <2>2
  <2>4. k # 1
    <3>1. Cur(frames) = frames[Len(frames)].chain[k]
      BY ONLY <1>3, <2>2
    <3>2. Cur(frames).kind # "body"
      BY <1>2
    <3> QED
      BY ONLY <2>1, <3>1, <3>2
  <2>5. 2 <= k
    BY ONLY <2>3, <2>4, k \in Nat
  <2> QED
    BY ONLY <2>2, <2>5
<1> HIDE DEF gs, s
<1>5. IsShorter(frames, gs) /\ Held(frames) = Held(gs) \cup {s}
  BY <1>3, <1>4, Shortened DEF gs, s
<1>6. Closed(store.parent, level, Held(gs))
  <2>1. SameLevels(store.parent, level, store.parent, level, Held(gs))
    BY DEF SameLevels
  <2>2. ScopesInOrder(gs, store.parent, level)
    BY <1>1, <1>3, <1>5, <2>1, ShorterInOrder
  <2> QED
    BY <1>5, <2>2, HeldClosed DEF IsShorter
<1>7. /\ StorageOK(LetGo(store, s, Held(gs)), Levels(level, Held(gs)))
      /\ KeepsView(store, LetGo(store, s, Held(gs)), Held(gs))
  BY <1>1, <1>5, <1>6, LetGoOK
<1> QED
  BY <1>2, <1>5, <1>7 DEF gs

LEMMA CloseScopeInv ==
  ASSUME TrailInv, CloseScope
  PROVE  TrailInv'
<1>1. PICK st : st = store'
  OBVIOUS
<1>2. level' = [r \in Scopes |-> IF r \in Held(ScopeClosed(frames)) THEN level[r] ELSE 0]
  BY DEF CloseScope
<1> QED
  BY <1>1, <1>2, CloseScopeKeeps, LeavesInv

(* One context after another goes: the storage after the last i of the     *)
(* frame on top did, as Leave defines it.                                  *)
TopChain == Top(frames).chain
LeaveStep(f, i) ==
  IF i = 0 THEN store
  ELSE LetGo(f[i - 1], TopChain[Len(TopChain) + 1 - i].scope,
             Held(Front(frames)) \cup Top(frames).held
               \cup {TopChain[j].scope : j \in 1 .. (Len(TopChain) - i)})
After == CHOOSE f : f = [i \in 0 .. Len(TopChain) |-> LeaveStep(f, i)]

LEMMA LeaveIs ==
  ASSUME Leave
  PROVE  LET calls == Top(frames).held \ Held(Front(frames))
         IN  /\ Len(frames) > 1 /\ frames' = Front(frames)
             /\ store' = IF calls = {} THEN After[Len(TopChain)]
                         ELSE Popped(After[Len(TopChain)], level[CHOOSE e \in calls : TRUE])
             /\ level' = [s \in Scopes |-> IF s \in Held(Front(frames)) THEN level[s] ELSE 0]
BY DEF Leave, After, LeaveStep, TopChain

LEMMA AfterIs ==
  ASSUME Len(TopChain) \in Nat
  PROVE  \A i \in 0 .. Len(TopChain) : After[i] = LeaveStep(After, i)
<1> DEFINE Good(m, w) == \A i \in Nat : i < m => w[i] = LeaveStep(w, i)
           M == {m \in Nat : \E w : Good(m, w)}
<1>1. 0 \in M
  OBVIOUS
<1>2. ASSUME NEW m \in Nat, m \in M PROVE m + 1 \in M
  <2>1. PICK w : Good(m, w)
    BY <1>2
  <2> DEFINE v == [i \in Nat |-> IF i < m THEN w[i] ELSE LeaveStep(w, i)]
  <2>2. ASSUME NEW i \in Nat, i < m + 1 PROVE v[i] = LeaveStep(v, i)
    <3>1. v[i] = LeaveStep(w, i)
      BY <2>1
    <3>2. i = 0 \/ v[i - 1] = w[i - 1]
      BY <2>2
    <3> HIDE DEF v
    <3> QED
      BY <3>1, <3>2 DEF LeaveStep
  <2> HIDE DEF v
  <2>3. Good(m + 1, v)
    BY <2>2
  <2> QED
    BY <2>3
<1> HIDE DEF M
<1>3. Len(TopChain) + 1 \in M
  BY <1>1, <1>2, Induction
<1>4. PICK w : Good(Len(TopChain) + 1, w)
  BY <1>3 DEF M
<1> DEFINE v == [i \in 0 .. Len(TopChain) |-> w[i]]
<1>5. ASSUME NEW i \in 0 .. Len(TopChain) PROVE w[i] = LeaveStep(v, i)
  <2>1. w[i] = LeaveStep(w, i)
    BY <1>4
  <2>2. i = 0 \/ v[i - 1] = w[i - 1]
    OBVIOUS
  <2> HIDE DEF v
  <2> QED
    BY <2>1, <2>2 DEF LeaveStep
<1>6. v = [i \in 0 .. Len(TopChain) |-> LeaveStep(v, i)]
  BY <1>5
<1>7. After = [i \in 0 .. Len(TopChain) |-> LeaveStep(After, i)]
  BY <1>6 DEF After
<1> QED
  BY <1>7

LEMMA LetGoKeeps ==
  ASSUME TrailInv, NEW R, NEW s, NEW T, T = R \cup {s}, T \subseteq Held(frames),
         Closed(store.parent, level, R),
         NEW st, StorageOK(st, Levels(level, T)), KeepsView(store, st, T)
  PROVE  /\ StorageOK(LetGo(st, s, R), Levels(level, R))
         /\ KeepsView(store, LetGo(st, s, R), R)
<1>1. LevelsOK(T, level)
  BY ParsedInv DEF LevelsOK
<1>2. Closed(st.parent, level, R)
  BY ClosedInView
<1>3. /\ StorageOK(LetGo(st, s, R), Levels(level, R))
      /\ KeepsView(st, LetGo(st, s, R), R)
  BY <1>1, <1>2, LetGoOK
<1> QED
  BY <1>3, ViewOn

(* After i contexts went, the storage is in order and shows the same.      *)
LeavesFrom(i) == Before(frames, Len(frames), (Len(TopChain) - i) + 1)
AfterOK(st, i) == StorageOK(st, Levels(level, LeavesFrom(i))) /\ KeepsView(store, st, LeavesFrom(i))

LEMMA AfterKeeps ==
  ASSUME TrailInv, Leave
  PROVE  AfterOK(After[Len(TopChain)], Len(TopChain))
<1>1. /\ FrameInv(frames) /\ ScopesInOrder(frames, store.parent, level)
      /\ StorageOK(store, Levels(level, Held(frames)))
  BY ParsedInv
<1>2. /\ frames \in Seq(Frames) /\ frames # << >> /\ Len(frames) \in 1 .. Len(frames)
      /\ \A i \in 1 .. Len(frames) : 1 <= Len(frames[i].chain)
      /\ Len(TopChain) \in Nat /\ Len(frames) > 1 /\ TopChain = frames[Len(frames)].chain
  BY <1>1, ShapeFacts, LeaveIs DEF TopChain, Top
<1>3. Held(Front(frames)) = Earlier(frames, Len(frames))
  BY <1>2, Dropped
<1>4. ASSUME NEW i \in 0 .. Len(TopChain)
      PROVE  /\ LeavesFrom(i) \subseteq Held(frames)
             /\ Closed(store.parent, level, LeavesFrom(i))
             /\ LeavesFrom(i) = Held(Front(frames)) \cup Top(frames).held
                                  \cup {TopChain[j].scope : j \in 1 .. (Len(TopChain) - i)}
  <2>1. (Len(TopChain) - i) + 1 \in 1 .. (Len(TopChain) + 1)
    BY <1>2
  <2>2. /\ LeavesFrom(i) \subseteq Held(frames)
        /\ Closed(store.parent, level, LeavesFrom(i))
    BY <1>1, <1>2, <2>1, BeforeHeld, PastClosed DEF LeavesFrom
  <2>3. ((Len(TopChain) - i) + 1) - 1 = Len(TopChain) - i
    BY <1>2
  <2>4. LeavesFrom(i) = Earlier(frames, Len(frames)) \cup Top(frames).held
          \cup {TopChain[j].scope : j \in 1 .. (((Len(TopChain) - i) + 1) - 1)}
    BY DEF LeavesFrom, Before, Top, TopChain
  <2> QED
    BY ONLY <1>3, <2>2, <2>3, <2>4
<1>5. AfterOK(After[0], 0)
  <2>0. 0 \in 0 .. Len(TopChain)
    BY <1>2
  <2>1. After[0] = store
    <3>1. After[0] = LeaveStep(After, 0)
      BY <1>2, <2>0, AfterIs
    <3> QED
      BY <3>1 DEF LeaveStep
  <2>2. LeavesFrom(0) = Held(frames)
    <3>1. (Len(TopChain) - 0) + 1 = Len(TopChain) + 1
      BY <1>2
    <3> QED
      BY <1>2, <3>1, HeldIsBefore DEF LeavesFrom
  <2> QED
    BY <1>1, <2>1, <2>2 DEF AfterOK, KeepsView
<1>6. ASSUME NEW i \in Nat, i + 1 <= Len(TopChain), AfterOK(After[i], i)
      PROVE  AfterOK(After[i + 1], i + 1)
  <2> DEFINE s == TopChain[Len(TopChain) - i].scope
  <2>1. /\ i \in 0 .. Len(TopChain) /\ i + 1 \in 0 .. Len(TopChain) /\ i + 1 # 0
        /\ Len(TopChain) + 1 - (i + 1) = Len(TopChain) - i /\ (i + 1) - 1 = i
        /\ Len(TopChain) - i \in Nat \ {0} /\ Len(TopChain) - (i + 1) = (Len(TopChain) - i) - 1
    <3>1. PICK k \in Nat : k = Len(TopChain)
      BY <1>2
    <3> QED
      BY ONLY <1>6, <3>1, i \in Nat, k \in Nat
  <2>2. After[i + 1] = LetGo(After[i], s, LeavesFrom(i + 1))
    <3>1. After[i + 1] = LeaveStep(After, i + 1)
      BY <1>2, <2>1, AfterIs
    <3>2. LeavesFrom(i + 1) = Held(Front(frames)) \cup Top(frames).held
             \cup {TopChain[j].scope : j \in 1 .. (Len(TopChain) - (i + 1))}
      BY <1>4, <2>1
    <3>3. LeaveStep(After, i + 1) = LetGo(After[(i + 1) - 1],
             TopChain[Len(TopChain) + 1 - (i + 1)].scope, LeavesFrom(i + 1))
      BY ONLY <2>1, <3>2 DEF LeaveStep
    <3> QED
      BY ONLY <2>1, <3>1, <3>3
  <2>3. LeavesFrom(i) = LeavesFrom(i + 1) \cup {s}
    <3>1. PICK k \in Nat \ {0} : k = Len(TopChain) - i
      BY <2>1
    <3>2. 1 .. k = (1 .. (k - 1)) \cup {k}
      BY <3>1
    <3>3. {TopChain[j].scope : j \in 1 .. k}
            = {TopChain[j].scope : j \in 1 .. (k - 1)} \cup {TopChain[k].scope}
      BY <3>2
    <3> QED
      BY <1>4, <2>1, <3>1, <3>3
  <2> HIDE DEF s
  <2> QED
    BY <1>4, <1>6, <2>1, <2>2, <2>3, LetGoKeeps DEF AfterOK
<1> DEFINE S == {k \in Nat : k <= Len(TopChain) => AfterOK(After[k], k)}
<1>7. 0 \in S
  BY <1>5
<1>8. ASSUME NEW k \in Nat, k \in S PROVE k + 1 \in S
  BY <1>2, <1>6, <1>8
<1>9. Len(TopChain) \in S
  <2> HIDE DEF S
  <2> QED
    BY <1>2, <1>7, <1>8, Induction
<1> QED
  BY <1>2, <1>9

(* The storage when the frame is gone, and the context of its call.        *)
LEMMA LeaveKeeps ==
  ASSUME TrailInv, Leave
  PROVE  /\ IsShorter(frames, Front(frames)) /\ frames' = Front(frames)
         /\ StorageOK(store', Levels(level, Held(Front(frames))))
         /\ KeepsView(store, store', Held(Front(frames)))
<1> DEFINE R == Held(Front(frames))
           h == Top(frames).held
           X == After[Len(TopChain)]
           calls == h \ R
           B == LeavesFrom(Len(TopChain))
<1>1. /\ FrameInv(frames) /\ ScopesInOrder(frames, store.parent, level)
      /\ StorageOK(store, Levels(level, Held(frames)))
  BY ParsedInv
<1>2. /\ frames \in Seq(Frames) /\ Len(frames) \in 1 .. Len(frames) /\ Len(frames) > 1
      /\ \A i \in 1 .. Len(frames) : 1 <= Len(frames[i].chain)
      /\ Len(TopChain) \in Nat /\ frames[Len(frames)] = Top(frames)
      /\ 1 <= Len(frames[Len(frames)].chain)
  BY <1>1, ShapeFacts, LeaveIs DEF TopChain, Top
<1>3. /\ frames' = Front(frames)
      /\ store' = IF calls = {} THEN X ELSE Popped(X, level[CHOOSE e \in calls : TRUE])
  BY LeaveIs
<1>4. IsShorter(frames, Front(frames)) /\ R = Earlier(frames, Len(frames))
  BY <1>2, Dropped
<1>5. B = R \cup h
  <2>1. (Len(TopChain) - Len(TopChain)) + 1 = 1
    BY <1>2
  <2>2. B = Before(frames, Len(frames), 1)
    BY ONLY <2>1 DEF LeavesFrom
  <2> QED
    BY <1>2, <1>4, <2>2 DEF Before
<1>6. StorageOK(X, Levels(level, B)) /\ KeepsView(store, X, B)
  BY AfterKeeps DEF AfterOK
<1>7. R \subseteq Held(frames) /\ B \subseteq Held(frames) /\ Closed(store.parent, level, R)
  <2>1. 1 \in 1 .. (Len(frames[Len(frames)].chain) + 1)
    <3>1. PICK k \in Nat : k = Len(frames[Len(frames)].chain)
      BY <1>1, ShapeFacts
    <3> QED
      BY ONLY <3>1, k \in Nat
  <2>2. h \subseteq Held(frames) /\ Closed(store.parent, level, R)
    BY <1>1, <1>2, <1>4, <2>1, BeforeHeld, PastClosed
  <2> QED
    BY <1>4, <1>5, <2>2 DEF IsShorter
<1>8. \A e, g \in h : e = g
  BY <1>1, <1>2 DEF ScopesInOrder, HeldInOrder
<1> HIDE DEF R, X, B, h
<1>9. CASE calls = {}
  <2>1. B = R
    BY <1>5, <1>9
  <2> QED
    BY <1>3, <1>4, <1>6, <1>9, <2>1 DEF R
<1>10. CASE calls # {}
  <2>1. PICK e \in calls : e = CHOOSE g \in calls : TRUE
    BY <1>10
  <2>2. B = R \cup {e} /\ e \notin R
    BY <1>5, <1>8, <2>1
  <2>3. store' = LetGo(X, e, R)
    BY <1>3, <1>10, <2>1, <2>2 DEF LetGo
  <2>4. /\ StorageOK(LetGo(X, e, R), Levels(level, R))
        /\ KeepsView(store, LetGo(X, e, R), R)
    BY <1>6, <1>7, <2>2, LetGoKeeps
  <2> QED
    BY <1>3, <1>4, <2>3, <2>4 DEF R
<1> QED
  BY <1>9, <1>10

LEMMA LeaveInv ==
  ASSUME TrailInv, Leave
  PROVE  TrailInv'
<1>1. PICK st : st = store'
  OBVIOUS
<1>2. level' = [s \in Scopes |-> IF s \in Held(Front(frames)) THEN level[s] ELSE 0]
  BY LeaveIs
<1> QED
  BY <1>1, <1>2, LeaveKeeps, LeavesInv

-----------------------------------------------------------------------------
(* A $-variable is assigned.                                               *)

LEMMA ExplicitSetIsSets ==
  ASSUME NEW st, NEW H, StorageOK(st, H), NEW n \in Names, NEW l
  PROVE  ExplicitSet(st, n, l)
           = Sets(st, l, {n}, [m \in Names |-> DynEntry(Find(st, n, l).value, TRUE)])
<1> DEFINE v == [m \in Names |-> DynEntry(Find(st, n, l).value, TRUE)]
           ss == [st.stacks EXCEPT ![n] = SetEntry(st.stacks[n], v[n], l)]
<1>1. st \in [parent : Seq({Dead} \cup Nat), stacks : [Names -> Seq(Entries)]]
  BY DEF StorageOK, Storages
<1>2. ExplicitSet(st, n, l) = [st EXCEPT !.stacks = ss]
  BY DEF ExplicitSet
<1>3. [st EXCEPT !.stacks = ss] = [parent |-> st.parent, stacks |-> ss]
  <2> HIDE DEF ss
  <2> QED
    BY <1>1, RecordSet
<1>4. st.stacks \in [Names -> Seq(Entries)]
  BY <1>1
<1>5. ss = [m \in Names |-> IF m \in {n} THEN SetEntry(st.stacks[m], v[m], l) ELSE st.stacks[m]]
  <2> HIDE DEF v
  <2> QED
    BY <1>4
<1> QED
  BY <1>2, <1>3, <1>5 DEF Sets

(* What Assign leaves: the entry, on the level of the current scope only.  *)
LEMMA AssignKeeps ==
  ASSUME TrailInv, NEW n \in Names, NEW x \in Values, Assign(n, x)
  PROVE  /\ frames' = frames /\ level' = level
         /\ StorageOK(store', Levels(level, Held(frames))) /\ store'.parent = store.parent
         /\ \A m \in Names : Find(store', m, Mine) = IF m = n THEN DynEntry(x, TRUE)
                                                   ELSE Find(store, m, Mine)
         /\ \A m \in Names : \A k \in Levels(level, Held(frames)) \ {Mine} :
              Find(store', m, k) = Find(store, m, k)
<1> DEFINE l == Mine
           H == Levels(level, Held(frames))
           s1 == ValueSet(store, n, x, l)
           v1 == ValueOf(store, n, x, l)
           s2 == ExplicitSet(s1, n, l)
           v2 == [m \in Names |-> DynEntry(Find(s1, n, l).value, TRUE)]
<1>0. frames' = frames /\ level' = level /\ store' = s2
  BY DEF Assign
<1>1. StorageOK(store, H) /\ l \in H /\ l = Len(store.parent) /\ l \in H \cup {0}
  BY ParsedInv, MineIsNewest
<1> HIDE DEF H, l
<1>2. v1 \in [Names -> DynEntries]
  BY <1>1, ValueOfTyped
<1>3. s1 = Sets(store, l, {n}, v1)
  BY <1>1, ValueSetIsSets
<1>4. StorageOK(s1, H) /\ s1.parent = store.parent
  <2>1. StorageOK(Sets(store, l, {n}, v1), H)
    BY ONLY <1>1, <1>2, SetsOK
  <2> QED
    BY ONLY <1>3, <2>1 DEF Sets
<1>5. ASSUME NEW m \in Names
      PROVE  /\ \A k \in H \ {l} : Find(s1, m, k) = Find(store, m, k)
             /\ Find(s1, m, l) = IF m \in {n} THEN v1[m] ELSE Find(store, m, l)
  <2>1. /\ \A k \in H \ {l} : Find(Sets(store, l, {n}, v1), m, k) = Find(store, m, k)
        /\ Find(Sets(store, l, {n}, v1), m, l) = IF m \in {n} THEN v1[m] ELSE Find(store, m, l)
    BY ONLY <1>1, <1>2, m \in Names, SetsShow
  <2> QED
    BY ONLY <1>3, <2>1
<1>6. Find(s1, n, l).value = x
  <2>1. Find(s1, n, l) = v1[n]
    BY <1>5
  <2> QED
    BY <2>1 DEF ValueOf, DynEntry
<1>7. v2 = [m \in Names |-> DynEntry(x, TRUE)] /\ v2 \in [Names -> DynEntries]
  BY <1>6 DEF DynEntry, DynEntries
<1>8. s2 = Sets(s1, l, {n}, v2)
  <2> HIDE DEF s1
  <2> QED
    BY <1>4, ExplicitSetIsSets
<1> HIDE DEF s1, s2, v1, v2
<1>9. StorageOK(s2, H) /\ s2.parent = s1.parent
  <2>1. StorageOK(Sets(s1, l, {n}, v2), H)
    BY <1>1, <1>4, <1>7, SetsOK
  <2> QED
    BY ONLY <1>8, <2>1 DEF Sets
<1>10. ASSUME NEW m \in Names
       PROVE  /\ \A k \in H \ {l} : Find(s2, m, k) = Find(s1, m, k)
              /\ Find(s2, m, l) = IF m \in {n} THEN v2[m] ELSE Find(s1, m, l)
  <2>0. StorageOK(s1, H) /\ l \in H /\ l = Len(s1.parent) /\ v2 \in [Names -> DynEntries]
    BY <1>1, <1>4, <1>7
  <2>1. /\ \A k \in H \ {l} : Find(Sets(s1, l, {n}, v2), m, k) = Find(s1, m, k)
        /\ Find(Sets(s1, l, {n}, v2), m, l) = IF m \in {n} THEN v2[m] ELSE Find(s1, m, l)
    BY ONLY <2>0, m \in Names, SetsShow
  <2> QED
    BY ONLY <1>8, <2>1
<1>11. ASSUME NEW m \in Names
       PROVE  /\ \A k \in H \ {l} : Find(s2, m, k) = Find(store, m, k)
              /\ Find(s2, m, l) = IF m = n THEN DynEntry(x, TRUE) ELSE Find(store, m, l)
  BY <1>5, <1>7, <1>10
<1> QED
  BY <1>0, <1>4, <1>9, <1>11 DEF H, l

LEMMA AssignInv ==
  ASSUME TrailInv, NEW n \in Names, NEW x \in Values, Assign(n, x)
  PROVE  TrailInv'
<1>1. PICK st : st = store'
  OBVIOUS
<1>2. /\ FrameInv(frames) /\ level \in [Scopes -> Nat] /\ LevelsOK(Held(frames), level)
      /\ ScopesInOrder(frames, store.parent, level)
  BY ParsedInv
<1>3. /\ frames' = frames /\ level' = level /\ st.parent = store.parent
      /\ StorageOK(st, Levels(level, Held(frames)))
  BY <1>1, AssignKeeps
<1>4. ScopesInOrder(frames, st.parent, level)
  BY <1>2, <1>3
<1> QED
  BY <1>1, <1>2, <1>3, <1>4, NextInv

-----------------------------------------------------------------------------
(* A block is forwarded.                                                   *)

(* The call's values and entries, and those the block runs under.          *)
CallValue(given, n) == IF n \in DOMAIN given THEN given[n] ELSE Find(store, n, Mine).value
CallEntry(given, n) == DynEntry(CallValue(given, n), Find(store, n, Mine).explicitlySet)
RunEntry(given, lc, n) ==
  IF n = Children \/ CallValue(given, n) = Unset THEN Find(store, n, lc)
  ELSE DynEntry(CallValue(given, n), Find(store, n, lc).explicitlySet)

LEMMA SetsStack ==
  ASSUME NEW st, NEW H, StorageOK(st, H), NEW l, NEW n \in Names, NEW x
  PROVE  ValueSet(st, n, x, l).stacks[n]
           = SetEntry(st.stacks[n], DynEntry(x, Find(st, n, l).explicitlySet), l)
<1>1. ValueSet(st, n, x, l) = Sets(st, l, {n}, ValueOf(st, n, x, l))
  BY ValueSetIsSets
<1> QED
  BY <1>1 DEF Sets, ValueOf

LEMMA GivenIsSets ==
  ASSUME NEW st, NEW H, StorageOK(st, H), NEW l, NEW k
  PROVE  Given(st, l, k)
           = Sets(st, l, {n \in Names : n # Children /\ Find(st, n, k).value # Unset},
                  [n \in Names |-> DynEntry(Find(st, n, k).value, Find(st, n, l).explicitlySet)])
<1> DEFINE C == {n \in Names : n # Children /\ Find(st, n, k).value # Unset}
           v == [n \in Names |-> DynEntry(Find(st, n, k).value, Find(st, n, l).explicitlySet)]
           ss == [n \in Names |->
                    IF n = Children \/ Find(st, n, k).value = Unset THEN st.stacks[n]
                    ELSE ValueSet(st, n, Find(st, n, k).value, l).stacks[n]]
           tt == [n \in Names |-> IF n \in C THEN SetEntry(st.stacks[n], v[n], l)
                                  ELSE st.stacks[n]]
<1>1. st \in [parent : Seq({Dead} \cup Nat), stacks : [Names -> Seq(Entries)]]
  BY DEF StorageOK, Storages
<1>2. Given(st, l, k) = [st EXCEPT !.stacks = ss]
  BY DEF Given
<1>3. [st EXCEPT !.stacks = ss] = [parent |-> st.parent, stacks |-> ss]
  <2> HIDE DEF ss
  <2> QED
    BY <1>1, RecordSet
<1>4. ASSUME NEW n \in Names PROVE ss[n] = tt[n]
  <2>1. CASE n \in C
    <3>1. ss[n] = ValueSet(st, n, Find(st, n, k).value, l).stacks[n]
      BY <2>1
    <3>2. tt[n] = SetEntry(st.stacks[n], DynEntry(Find(st, n, k).value,
                                                  Find(st, n, l).explicitlySet), l)
      BY <2>1
    <3> QED
      BY <3>1, <3>2, SetsStack
  <2>2. CASE n \notin C
    BY <2>2
  <2> QED
    BY <2>1, <2>2
<1>5. ss = tt
  BY <1>4
<1> QED
  BY <1>2, <1>3, <1>5 DEF Sets

(* prepareChildrenForward: what the newest level shows afterwards.         *)
LEMMA GivenKeeps ==
  ASSUME NEW st, NEW H, StorageOK(st, H), NEW l \in H, l = Len(st.parent), NEW k \in H \cup {0}
  PROVE  /\ StorageOK(Given(st, l, k), H) /\ Given(st, l, k).parent = st.parent
         /\ \A n \in Names : \A m \in H \ {l} : Find(Given(st, l, k), n, m) = Find(st, n, m)
         /\ \A n \in Names : Find(Given(st, l, k), n, l)
              = IF n = Children \/ Find(st, n, k).value = Unset THEN Find(st, n, l)
                ELSE DynEntry(Find(st, n, k).value, Find(st, n, l).explicitlySet)
<1> DEFINE C == {n \in Names : n # Children /\ Find(st, n, k).value # Unset}
           v == [n \in Names |-> DynEntry(Find(st, n, k).value, Find(st, n, l).explicitlySet)]
<1>1. Given(st, l, k) = Sets(st, l, C, v)
  BY GivenIsSets
<1>2. v \in [Names -> DynEntries]
  <2>1. ASSUME NEW n \in Names PROVE v[n] \in DynEntries
    <3>1. Find(st, n, k) \in DynEntries
      BY FindTyped
    <3>2. Find(st, n, l) \in DynEntries
      <4>1. l \in H \cup {0}
        OBVIOUS
      <4> QED
        BY <4>1, FindTyped
    <3>3. PICK b \in BOOLEAN : b = Find(st, n, l).explicitlySet
      BY <3>2 DEF DynEntries
    <3> QED
      BY <3>1, <3>3 DEF DynEntry, DynEntries
  <2> QED
    BY <2>1
<1>3. \A n \in Names : /\ n \in C <=> ~ (n = Children \/ Find(st, n, k).value = Unset)
                       /\ v[n] = DynEntry(Find(st, n, k).value, Find(st, n, l).explicitlySet)
  OBVIOUS
<1> HIDE DEF C, v
<1>4. StorageOK(Sets(st, l, C, v), H) /\ Sets(st, l, C, v).parent = st.parent
  BY <1>2, SetsOK DEF Sets
<1>5. ASSUME NEW n \in Names
      PROVE  /\ \A m \in H \ {l} : Find(Sets(st, l, C, v), n, m) = Find(st, n, m)
             /\ Find(Sets(st, l, C, v), n, l) = IF n \in C THEN v[n] ELSE Find(st, n, l)
  BY <1>2, SetsShow
<1> QED
  BY <1>1, <1>3, <1>4, <1>5

(* The place of the caller's block.                                        *)
LEMMA ForwardFrame ==
  ASSUME FrameInv(frames), Cur(frames).caller # NoCaller, NEW s \in Scopes,
         NEW e \in Scopes, NEW compiled \in BOOLEAN
  PROVE  LET b == At(frames, Cur(frames).caller)
             c == EvalContext(s, b.caller, "body")
         IN  /\ b.scope \in Held(frames) /\ CallerOK(frames, b.caller, Len(frames) + 1)
             /\ c.scope = s /\ c.caller = b.caller /\ c.kind = "body"
             /\ IsPushed(frames, Forwarded(frames, s, e, compiled), c,
                         IF compiled THEN {} ELSE {e})
<1> DEFINE p == Cur(frames).caller
           b == At(frames, p)
           c == EvalContext(s, b.caller, "body")
           h == IF compiled THEN {} ELSE {e}
<1>1. /\ frames \in Seq(Frames) /\ frames # << >> /\ Len(frames) \in Nat
      /\ CallerOK(frames, p, Len(frames)) /\ FramesOK(frames)
  BY ShapeFacts DEF FrameInv
<1> HIDE DEF p
<1>2. p.frame \in 1 .. (Len(frames) - 1) /\ p.at \in 1 .. Len(frames[p.frame].chain)
  BY <1>1 DEF CallerOK, p
<1>3. PICK i \in Nat : i = p.frame
  BY <1>2
<1>4. i \in 1 .. Len(frames) /\ i \in 1 .. (Len(frames) - 1)
  BY <1>1, <1>2, <1>3
<1>5. PICK j : j = p.at
  OBVIOUS
<1>6. j \in 1 .. Len(frames[i].chain) /\ b = frames[i].chain[j]
  BY <1>2, <1>3, <1>5 DEF At
<1>7. b \in Contexts
  <2>1. frames[i].chain \in Seq(Contexts)
    BY <1>1, <1>4, FrameFacts
  <2> QED
    BY <1>6, <2>1
<1>8. b.scope \in Held(frames)
  <2>1. ScopeAt(frames, i, j) \in Held(frames)
    <3>1. j \in 1 .. (Len(frames[i].chain) + 1)
      <4>1. Len(frames[i].chain) \in Nat
        BY <1>1, <1>4, FrameFacts
      <4> QED
        BY <1>6, <4>1
    <3> QED
      BY <1>1, <1>4, <1>6, <3>1, BeforeHeld
  <2> QED
    BY <1>6, <2>1 DEF ScopeAt
<1>9. CallerOK(frames, b.caller, Len(frames) + 1)
  <2>1. CallerOK(frames, b.caller, i)
    BY <1>1, <1>4, <1>6 DEF FramesOK
  <2>2. PICK q : q = b.caller
    OBVIOUS
  <2>3. CASE q = NoCaller
    BY <2>2, <2>3 DEF CallerOK
  <2>4. CASE q.frame \in 1 .. (i - 1) /\ q.at \in 1 .. Len(frames[q.frame].chain)
    <3>1. q.frame \in 1 .. ((Len(frames) + 1) - 1)
      BY <1>1, <1>4, <2>4
    <3> QED
      BY <2>2, <2>4, <3>1 DEF CallerOK
  <2> QED
    BY <2>1, <2>2, <2>3, <2>4 DEF CallerOK
<1>10. b.caller \in [frame : Nat, at : Nat]
  BY <1>7 DEF Contexts
<1> HIDE DEF b
<1>11. c \in Contexts /\ c.scope = s /\ c.caller = b.caller /\ c.kind = "body"
  BY <1>10, ContextTyped
<1>12. Forwarded(frames, s, e, compiled) = Append(frames, Frame("forward", c, h))
  BY DEF Forwarded, b, p
<1>13. h \in SUBSET Scopes
  OBVIOUS
<1>14. PICK k \in Kinds : k = "forward"
  BY DEF Kinds
<1>15. IsPushed(frames, Forwarded(frames, s, e, compiled), c, h)
  <2> HIDE DEF c, h
  <2> QED
    BY <1>1, <1>11, <1>12, <1>13, <1>14, Pushed
<1> QED
  BY <1>8, <1>9, <1>11, <1>15 DEF b, p

(* The call's context is the current one.                                  *)
LEMMA ForwardOwnTrail ==
  ASSUME TrailInv, NEW lc \in LiveLevels \cup {0}, NEW given, DOMAIN given = {}
  PROVE  LET st3 == Opened(store, lc)
         IN  /\ New(Given(st3, New(st3), Mine)) = New(st3)
             /\ OpenedTrail(Given(st3, New(st3), Mine), lc, Names,
                            [n \in Names |-> RunEntry(given, lc, n)])
<1> DEFINE st3 == Opened(store, lc)
           l3 == New(st3)
           st4 == Given(st3, l3, Mine)
           H == LiveLevels \cup {l3}
<1>1. PICK v \in [Names -> DynEntries] : OpenedTrail(st3, lc, {}, v)
  <2>1. [m \in Names |-> NoEntry] \in [Names -> DynEntries]
    BY NoEntryTyped
  <2> QED
    BY <2>1, OpenedIsTrail
<1>2. /\ StorageOK(st3, H) /\ l3 \notin LiveLevels /\ \A k \in LiveLevels : k < l3
      /\ st3.parent[l3] = lc /\ KeepsView(store, st3, Held(frames))
      /\ \A n \in Names : Find(st3, n, l3) = Find(store, n, lc)
  BY <1>1 DEF OpenedTrail
<1>3. PICK cur : cur = Cur(frames).scope
  OBVIOUS
<1>4. cur \in Held(frames) /\ Mine = level[cur] /\ Mine \in LiveLevels
  BY <1>3, ParsedInv, ShapeFacts, MineIsNewest DEF Mine, LiveLevels
<1>5. \A n \in Names : Find(st3, n, Mine) = Find(store, n, Mine)
  BY <1>2, <1>4 DEF KeepsView
<1>6. l3 = Len(st3.parent) /\ l3 \in H /\ Mine \in H \cup {0}
  BY <1>4 DEF New
<1> HIDE DEF st3, l3
<1>7. /\ StorageOK(st4, H) /\ st4.parent = st3.parent
      /\ \A n \in Names : \A m \in H \ {l3} : Find(st4, n, m) = Find(st3, n, m)
      /\ \A n \in Names : Find(st4, n, l3)
           = IF n = Children \/ Find(st3, n, Mine).value = Unset THEN Find(st3, n, l3)
             ELSE DynEntry(Find(st3, n, Mine).value, Find(st3, n, l3).explicitlySet)
  <2> HIDE DEF H
  <2> QED
    BY ONLY <1>2, <1>6, GivenKeeps
<1> HIDE DEF st4
<1>8. New(st4) = l3
  BY <1>6, <1>7 DEF New
<1>9. KeepsView(store, st4, Held(frames))
  <2>1. KeepsView(st3, st4, Held(frames))
    <3>1. ASSUME NEW r \in Held(frames) PROVE level[r] \in H \ {l3}
      BY <1>2 DEF LiveLevels, Levels
    <3> QED
      BY <1>7, <3>1 DEF KeepsView
  <2> QED
    BY <1>2, <2>1, ViewOn
<1>10. ASSUME NEW n \in Names PROVE Find(st4, n, l3) = RunEntry(given, lc, n)
  BY <1>2, <1>5, <1>7 DEF RunEntry, CallValue
<1>11. OpenedTrail(st4, lc, Names, [n \in Names |-> RunEntry(given, lc, n)])
  BY <1>2, <1>7, <1>8, <1>9, <1>10 DEF OpenedTrail
<1> QED
  BY <1>8, <1>11 DEF st3, l3, st4

(* The call has a context of its own: its level first, then the block's.   *)
CallTrail(given) ==
  LET o == Opened(store, Mine)
  IN  [o EXCEPT !.stacks =
         [n \in Names |-> IF n \in DOMAIN given THEN ValueSet(o, n, given[n], New(o)).stacks[n]
                          ELSE o.stacks[n]]]

LEMMA CallTrailIs ==
  ASSUME TrailInv, NEW given, \A n \in DOMAIN given : given[n] \in Values
  PROVE  /\ New(CallTrail(given)) = New(Opened(store, Mine))
         /\ OpenedTrail(CallTrail(given), Mine, Names, [n \in Names |-> CallEntry(given, n)])
<1> DEFINE o == Opened(store, Mine)
           l == New(o)
           C == DOMAIN given
           v == [n \in Names |-> IF n \in C THEN DynEntry(given[n], Find(o, n, l).explicitlySet)
                                 ELSE NoEntry]
           ss == [n \in Names |-> IF n \in C THEN ValueSet(o, n, given[n], l).stacks[n]
                                  ELSE o.stacks[n]]
           tt == [n \in Names |-> IF n \in C THEN SetEntry(o.stacks[n], v[n], l)
                                  ELSE o.stacks[n]]
           H == LiveLevels \cup {l}
<1>1. PICK w \in [Names -> DynEntries] : OpenedTrail(o, Mine, {}, w)
  <2>1. [m \in Names |-> NoEntry] \in [Names -> DynEntries]
    BY NoEntryTyped
  <2> QED
    BY <2>1, MineLive, OpenedIsTrail
<1> HIDE DEF o, l
<1>2. StorageOK(o, H) /\ \A n \in Names : Find(o, n, l) = Find(store, n, Mine)
  BY <1>1 DEF OpenedTrail, l
<1>3. v \in [Names -> DynEntries]
  <2>1. ASSUME NEW n \in Names, n \in C
        PROVE  DynEntry(given[n], Find(o, n, l).explicitlySet) \in DynEntries
    <3>1. Find(o, n, l) \in DynEntries
      <4>1. l \in H \cup {0}
        OBVIOUS
      <4> HIDE DEF H
      <4> QED
        BY <1>2, <4>1, FindTyped
    <3>2. PICK b \in BOOLEAN : b = Find(o, n, l).explicitlySet
      BY <3>1 DEF DynEntries
    <3> QED
      BY <2>1, <3>2 DEF DynEntry, DynEntries
  <2> QED
    BY <2>1, NoEntryTyped
<1>4. o \in [parent : Seq({Dead} \cup Nat), stacks : [Names -> Seq(Entries)]]
  BY <1>2 DEF StorageOK, Storages
<1>5. CallTrail(given) = [o EXCEPT !.stacks = ss]
  BY DEF CallTrail, o, l
<1>6. [o EXCEPT !.stacks = ss] = [parent |-> o.parent, stacks |-> ss]
  <2> HIDE DEF ss
  <2> QED
    BY <1>4, RecordSet
<1>7. ss = tt
  <2>1. ASSUME NEW n \in Names PROVE ss[n] = tt[n]
    <3>1. CASE n \in C
      <4>1. ss[n] = ValueSet(o, n, given[n], l).stacks[n]
        BY <3>1
      <4>2. tt[n] = SetEntry(o.stacks[n], DynEntry(given[n], Find(o, n, l).explicitlySet), l)
        BY <3>1
      <4> QED
        BY <1>2, <4>1, <4>2, SetsStack
    <3>2. CASE n \notin C
      BY <3>2
    <3> QED
      BY <3>1, <3>2
  <2> QED
    BY <2>1
<1>8. CallTrail(given) = Sets(o, l, C, v)
  BY <1>5, <1>6, <1>7 DEF Sets
<1>9. SetTrail(o, Sets(o, l, C, v), C, v)
  <2> HIDE DEF C, v
  <2> QED
    BY <1>1, <1>3, SetsOnOpened DEF l
<1>10. \A n \in Names : (IF n \in C THEN v[n] ELSE Find(o, n, l)) = CallEntry(given, n)
  <2>1. ASSUME NEW n \in Names, n \notin C PROVE Find(store, n, Mine) = CallEntry(given, n)
    <3>1. Find(store, n, Mine) \in DynEntries
      <4>1. StorageOK(store, LiveLevels)
        BY DEF TrailInv
      <4> QED
        BY <4>1, MineLive, FindTyped
    <3> QED
      BY <2>1, <3>1 DEF DynEntries, DynEntry, CallEntry, CallValue
  <2>2. ASSUME NEW n \in Names, n \in C PROVE v[n] = CallEntry(given, n)
    BY <1>2, <2>2 DEF CallEntry, CallValue
  <2> QED
    BY <1>2, <2>1, <2>2
<1> HIDE DEF C, v, H, tt, ss
<1>11. PICK t : t = CallTrail(given)
  OBVIOUS
<1>12. SetTrail(o, t, C, v)
  BY <1>8, <1>9, <1>11
<1>13. New(t) = l /\ OpenedTrail(t, Mine, Names, [n \in Names |-> CallEntry(given, n)])
  <2>1. /\ New(t) = l /\ t.parent = o.parent /\ StorageOK(t, LiveLevels \cup {l})
        /\ KeepsView(store, t, Held(frames))
        /\ \A n \in Names : Find(t, n, l) = IF n \in C THEN v[n] ELSE Find(o, n, l)
    BY <1>12 DEF SetTrail, l
  <2>2. l \notin LiveLevels /\ (\A k \in LiveLevels : k < l) /\ o.parent[l] = Mine
    BY <1>1 DEF OpenedTrail, l
  <2> QED
    BY <1>10, <2>1, <2>2 DEF OpenedTrail
<1> QED
  BY <1>11, <1>13 DEF l, o

(* u has two new levels: le for the call, above it l3 for the block.       *)
TwoOpened(u, le, l3, lc, given) ==
  /\ StorageOK(u, LiveLevels \cup {le, l3}) /\ New(u) = l3
  /\ le \notin LiveLevels /\ l3 \notin LiveLevels /\ le < l3
  /\ le \in Nat \ {0} /\ l3 \in Nat \ {0}
  /\ \A k \in LiveLevels : k < le /\ k < l3
  /\ u.parent[le] = Mine /\ u.parent[l3] = lc
  /\ KeepsView(store, u, Held(frames))
  /\ \A n \in Names : /\ Find(u, n, le) = CallEntry(given, n)
                      /\ Find(u, n, l3) = RunEntry(given, lc, n)

LEMMA CallValueIs ==
  ASSUME NEW given, NEW n
  PROVE  CallEntry(given, n).value = CallValue(given, n)
BY DEF CallEntry, DynEntry

LEMMA RunTrailIs ==
  ASSUME TrailInv, NEW lc \in LiveLevels,
         NEW given, \A n \in DOMAIN given : given[n] \in Values
  PROVE  LET t == CallTrail(given)
             o == Opened(t, lc)
         IN  TwoOpened(Given(o, New(o), New(t)), New(t), New(o), lc, given)
<1> DEFINE t == CallTrail(given)
           le == New(t)
           o == Opened(t, lc)
           l3 == New(o)
           u == Given(o, l3, le)
           H == LiveLevels \cup {le}
           G == H \cup {l3}
<1>1. OpenedTrail(t, Mine, Names, [n \in Names |-> CallEntry(given, n)])
  BY CallTrailIs
<1> HIDE DEF t
<1>2. /\ StorageOK(t, H) /\ le \notin LiveLevels /\ \A k \in LiveLevels : k < le
      /\ t.parent[le] = Mine /\ KeepsView(store, t, Held(frames))
      /\ \A n \in Names : Find(t, n, le) = CallEntry(given, n)
  BY <1>1 DEF OpenedTrail
<1>3. lc \in H \cup {0} /\ le \in H
  OBVIOUS
<1> HIDE DEF le
<1>4. /\ StorageOK(o, G) /\ l3 \notin H
      /\ \A k \in H : k < l3 /\ o.parent[k] = t.parent[k]
      /\ o.parent[l3] = lc
  <2> HIDE DEF H
  <2> QED
    BY ONLY <1>2, <1>3, OpenedOK
<1>5. ASSUME NEW n \in Names
      PROVE  (\A k \in H : Find(o, n, k) = Find(t, n, k)) /\ Find(o, n, l3) = Find(t, n, lc)
  <2> HIDE DEF H
  <2> QED
    BY ONLY <1>2, <1>3, n \in Names, OpenedShows
<1>6. l3 = Len(o.parent) /\ l3 \in G /\ le \in G \cup {0}
  BY <1>3 DEF New
<1> HIDE DEF o, l3
<1>7. /\ StorageOK(u, G) /\ u.parent = o.parent
      /\ \A n \in Names : \A m \in G \ {l3} : Find(u, n, m) = Find(o, n, m)
      /\ \A n \in Names : Find(u, n, l3)
           = IF n = Children \/ Find(o, n, le).value = Unset THEN Find(o, n, l3)
             ELSE DynEntry(Find(o, n, le).value, Find(o, n, l3).explicitlySet)
  <2> HIDE DEF G
  <2> QED
    BY ONLY <1>4, <1>6, GivenKeeps
<1> HIDE DEF u
<1>8. H \subseteq G \ {l3} /\ le \in H /\ lc \in LiveLevels \cup {0}
  BY <1>3, <1>4
<1>9. New(u) = l3
  BY <1>6, <1>7 DEF New
<1>10. /\ le \in Nat \ {0} /\ l3 \in Nat \ {0} /\ G = LiveLevels \cup {le, l3}
  <2>1. G \subseteq Nat \ {0}
    <3> HIDE DEF G
    <3> QED
      BY <1>4, StorageFacts
  <2> QED
    BY <1>3, <1>6, <2>1
<1>11. \A k \in LiveLevels : k < le /\ k < l3 /\ k \in H
  BY <1>2, <1>4
<1>12. u.parent[le] = Mine /\ u.parent[l3] = lc
  BY <1>2, <1>3, <1>4, <1>7
<1>13. KeepsView(store, u, Held(frames))
  <2>1. KeepsView(t, u, Held(frames))
    <3>1. ASSUME NEW r \in Held(frames) PROVE level[r] \in H
      BY DEF LiveLevels, Levels
    <3> QED
      BY <1>4, <1>5, <1>7, <1>8, <3>1 DEF KeepsView
  <2> QED
    BY <1>2, <2>1, ViewOn
<1>14. ASSUME NEW n \in Names PROVE Find(u, n, le) = CallEntry(given, n)
  BY <1>2, <1>5, <1>7, <1>8
<1>15. ASSUME NEW n \in Names PROVE Find(u, n, l3) = RunEntry(given, lc, n)
  <2>1. Find(o, n, le).value = CallValue(given, n)
    BY <1>2, <1>3, <1>5, CallValueIs
  <2>2. Find(o, n, l3) = Find(store, n, lc)
    <3>1. Find(t, n, lc) = Find(store, n, lc)
      <4>1. PICK r \in Held(frames) : lc = level[r]
        BY DEF LiveLevels, Levels
      <4> QED
        BY <1>2, <4>1 DEF KeepsView
    <3> QED
      BY <1>5, <3>1
  <2> QED
    BY <1>7, <2>1, <2>2 DEF RunEntry
<1>16. TwoOpened(u, le, l3, lc, given)
  BY <1>2, <1>4, <1>7, <1>8, <1>9, <1>10, <1>11, <1>12, <1>13, <1>14, <1>15 DEF TwoOpened
<1> QED
  BY <1>16 DEF u, le, l3, o, t

(* Compiled: the call's context goes before the block runs.                *)
LEMMA CompiledTrail ==
  ASSUME TrailInv, NEW lc \in LiveLevels, NEW given, NEW u, NEW le, NEW l3,
         TwoOpened(u, le, l3, lc, given)
  PROVE  /\ New(Popped(u, le)) = l3
         /\ OpenedTrail(Popped(u, le), lc, Names, [n \in Names |-> RunEntry(given, lc, n)])
<1> DEFINE G == LiveLevels \cup {le, l3}
           H == LiveLevels \cup {l3}
           t == Popped(u, le)
<1>1. /\ StorageOK(u, G) /\ le \notin LiveLevels /\ l3 \notin LiveLevels /\ le < l3
      /\ le \in Nat \ {0} /\ l3 \in Nat \ {0}
      /\ \A k \in LiveLevels : k < le /\ k < l3
      /\ u.parent[l3] = lc /\ KeepsView(store, u, Held(frames))
      /\ \A n \in Names : Find(u, n, l3) = RunEntry(given, lc, n)
  BY DEF TwoOpened
<1>2. le \in G /\ G \ {le} = H /\ l3 \in H
  BY <1>1
<1>3. ASSUME NEW k \in H PROVE u.parent[k] # le
  <2>1. CASE k = l3
    BY <1>1, <2>1
  <2>2. CASE k \in LiveLevels
    <3>1. PICK r \in Held(frames) : k = level[r]
      BY <2>2 DEF LiveLevels, Levels
    <3>2. u.parent[k] = store.parent[k]
      BY <1>1, <3>1 DEF KeepsView
    <3>3. store.parent[k] \in LiveLevels \cup {0}
      <4>1. StorageOK(store, LiveLevels)
        BY DEF TrailInv
      <4> QED
        BY <2>2, <4>1, StorageFacts
    <3> QED
      BY <1>1, <3>2, <3>3
  <2> QED
    BY <2>1, <2>2
<1> HIDE DEF G, H, t
<1>4. /\ StorageOK(t, H) /\ \A k \in H : t.parent[k] = u.parent[k]
      /\ \A n \in Names : \A k \in H : Find(t, n, k) = Find(u, n, k)
  <2>1. StorageOK(u, G)
    BY <1>1 DEF G
  <2>2. le \in G /\ \A k \in G \ {le} : u.parent[k] # le
    BY <1>2, <1>3
  <2>3. /\ StorageOK(Popped(u, le), G \ {le})
        /\ \A k \in G \ {le} : Popped(u, le).parent[k] = u.parent[k]
    BY ONLY <2>1, <2>2, PoppedOK
  <2>4. ASSUME NEW n \in Names
        PROVE  \A k \in G \ {le} : Find(Popped(u, le), n, k) = Find(u, n, k)
    BY ONLY <2>1, <2>2, n \in Names, PoppedShows
  <2> QED
    BY ONLY <1>2, <2>3, <2>4 DEF t
<1>5. New(t) = l3
  <2>1. Len(t.parent) \in H \cup {0} /\ H \subseteq 1 .. Len(t.parent)
    BY <1>4 DEF StorageOK
  <2>2. PICK m : m = Len(t.parent)
    OBVIOUS
  <2>3. m \in H \cup {0} /\ H \subseteq 1 .. m
    BY ONLY <2>1, <2>2
  <2>4. m = l3
    BY <1>1, <1>2, <2>3 DEF H
  <2> QED
    BY <2>2, <2>4 DEF New
<1>6. KeepsView(store, t, Held(frames))
  <2>1. KeepsView(u, t, Held(frames))
    <3>1. ASSUME NEW r \in Held(frames) PROVE level[r] \in H
      BY DEF LiveLevels, Levels, H
    <3> QED
      BY <1>4, <3>1 DEF KeepsView
  <2> QED
    BY <1>1, <2>1, ViewOn
<1>7. t.parent[l3] = lc /\ \A n \in Names : Find(t, n, l3) = RunEntry(given, lc, n)
  BY <1>1, <1>2, <1>4
<1>8. OpenedTrail(t, lc, Names, [n \in Names |-> RunEntry(given, lc, n)])
  BY <1>1, <1>4, <1>5, <1>6, <1>7 DEF OpenedTrail, H
<1> QED
  BY <1>5, <1>8 DEF t

(* The block's scope is opened in the frame Forwarded gives it.            *)
BlockLevel == level[At(frames, Cur(frames).caller).scope]
RunsBlock(s, given, st) ==
  /\ BlockLevel \in LiveLevels
  /\ OpenedTrail(st, BlockLevel, Names, [n \in Names |-> RunEntry(given, BlockLevel, n)])
  /\ store' = st /\ GetsLevel(level', s, New(st))

LEMMA ForwardPlace ==
  ASSUME TrailInv, NEW e, NEW given, NEW s \in Scopes, NEW compiled, Forward(e, given, s, compiled)
  PROVE  /\ frames' = Forwarded(frames, s, e, compiled) /\ Room(frames)
         /\ Cur(frames).caller # NoCaller /\ BlockLevel \in LiveLevels
<1>1. /\ frames' = Forwarded(frames, s, e, compiled) /\ Room(frames)
      /\ Cur(frames).caller # NoCaller
  BY DEF Forward
<1>2. At(frames, Cur(frames).caller).scope \in Held(frames)
  <2>1. FrameInv(frames) /\ TRUE \in BOOLEAN
    BY ParsedInv
  <2> QED
    BY <1>1, <2>1, ForwardFrame
<1> QED
  BY <1>1, <1>2 DEF BlockLevel, LiveLevels, Levels

LEMMA ForwardOwnSteps ==
  ASSUME TrailInv, NEW s \in Fresh(frames), NEW given, DOMAIN given = {}, NEW compiled,
         NEW e, e = Cur(frames).scope, Forward(e, given, s, compiled)
  PROVE  \E st : RunsBlock(s, given, st)
<1> DEFINE lc == BlockLevel
           st3 == Opened(store, lc)
           st4 == Given(st3, New(st3), Mine)
           st2 == [store EXCEPT !.stacks =
                     [n \in Names |-> IF n \in DOMAIN given
                                      THEN ValueSet(store, n, given[n], Mine).stacks[n]
                                      ELSE store.stacks[n]]]
<1>1. lc \in LiveLevels
  BY ForwardPlace DEF Fresh
<1>2. st2 = store
  <2>1. store \in [parent : Seq({Dead} \cup Nat), stacks : [Names -> Seq(Entries)]]
    BY DEF TrailInv, TypeOK, Storages
  <2>2. st2 = [store EXCEPT !.stacks = [n \in Names |-> store.stacks[n]]]
    OBVIOUS
  <2>3. [n \in Names |-> store.stacks[n]] = store.stacks
    BY <2>1
  <2>4. st2 = [parent |-> store.parent, stacks |-> store.stacks]
    BY <2>1, <2>2, <2>3, RecordSet
  <2> HIDE DEF st2
  <2> QED
    BY <2>1, <2>4
<1>3. /\ store' = Given(Opened(st2, lc), New(Opened(st2, lc)), Mine)
      /\ level' = [level EXCEPT ![s] = New(Opened(st2, lc)), ![e] = Mine]
  BY DEF Forward, BlockLevel
<1>4. store' = st4 /\ level' = [level EXCEPT ![s] = New(st3), ![e] = Mine]
  <2> HIDE DEF st2
  <2> QED
    BY <1>2, <1>3
<1>5. New(st4) = New(st3) /\ OpenedTrail(st4, lc, Names, [n \in Names |-> RunEntry(given, lc, n)])
  BY <1>1, ForwardOwnTrail
<1> HIDE DEF st4, st2
<1>6. PICK l : l = New(st3)
  OBVIOUS
<1> HIDE DEF st3, lc
<1>7. GetsLevel(level', s, l)
  <2>1. /\ e \in Held(frames) /\ e \in Scopes /\ Mine = level[e] /\ level \in [Scopes -> Nat]
        /\ s \in Scopes /\ s \notin Held(frames)
    BY ParsedInv, ShapeFacts DEF Mine, Contexts, Fresh
  <2>2. l \in Nat
    <3>1. New(st4) \in Nat
      <4>1. st4 \in Storages
        BY <1>5 DEF OpenedTrail, StorageOK
      <4> QED
        BY <4>1 DEF Storages, New
    <3> QED
      BY <1>5, <1>6, <3>1
  <2>3. level' = [level EXCEPT ![s] = l]
    BY <1>4, <1>6, <2>1
  <2> QED
    BY <2>2, <2>3, OpensGetsLevel
<1>8. RunsBlock(s, given, st4)
  BY <1>1, <1>4, <1>5, <1>6, <1>7 DEF RunsBlock, lc
<1> QED
  BY <1>8

(* The call's own context: what Forward leaves.                            *)
LEMMA ForwardCallSteps ==
  ASSUME TrailInv, NEW s \in Fresh(frames), NEW e \in Fresh(frames) \ {s}, NEW compiled,
         NEW given, \A n \in DOMAIN given : given[n] \in Values, Forward(e, given, s, compiled)
  PROVE  \E u, le, l3 :
           /\ TwoOpened(u, le, l3, BlockLevel, given)
           /\ store' = IF compiled THEN Popped(u, le) ELSE u
           /\ level' = [level EXCEPT ![s] = l3, ![e] = IF compiled THEN 0 ELSE le]
<1> DEFINE lc == BlockLevel
           t == CallTrail(given)
           le == New(Opened(store, Mine))
           o == Opened(t, lc)
           u == Given(o, New(o), le)
<1>1. lc \in LiveLevels
  BY ForwardPlace DEF Fresh
<1>2. e # Cur(frames).scope
  BY ParsedInv, ShapeFacts DEF Fresh
<1>3. le = New(t)
  BY CallTrailIs
<1>4. TwoOpened(u, le, New(o), lc, given)
  BY <1>1, <1>3, RunTrailIs
<1>5. /\ store' = IF ~compiled THEN u ELSE Popped(u, le)
      /\ level' = [level EXCEPT ![s] = New(o), ![e] = IF ~compiled THEN le ELSE 0]
  BY <1>2 DEF Forward, BlockLevel, CallTrail
<1> HIDE DEF u, o, le, t, lc
<1>6. /\ store' = IF compiled THEN Popped(u, le) ELSE u
      /\ level' = [level EXCEPT ![s] = New(o), ![e] = IF compiled THEN 0 ELSE le]
  BY <1>5
<1> QED
  BY <1>4, <1>6 DEF lc

(* Nothing but the block's scope is left: compiled, or the call's context  *)
(* is the current one.                                                     *)
LEMMA ForwardCompiledSteps ==
  ASSUME TrailInv, NEW s \in Fresh(frames), NEW e \in Fresh(frames) \ {s},
         NEW given, \A n \in DOMAIN given : given[n] \in Values, Forward(e, given, s, TRUE)
  PROVE  \E st : RunsBlock(s, given, st)
<1>1. PICK u, le, l3 :
        /\ TwoOpened(u, le, l3, BlockLevel, given) /\ store' = Popped(u, le)
        /\ level' = [level EXCEPT ![s] = l3, ![e] = 0]
  <2>1. PICK c0 \in BOOLEAN : c0 = TRUE
    OBVIOUS
  <2>2. Forward(e, given, s, c0)
    BY <2>1
  <2>3. \E u, le, l3 :
          /\ TwoOpened(u, le, l3, BlockLevel, given)
          /\ store' = IF c0 THEN Popped(u, le) ELSE u
          /\ level' = [level EXCEPT ![s] = l3, ![e] = IF c0 THEN 0 ELSE le]
    BY ONLY TrailInv, s \in Fresh(frames), e \in Fresh(frames) \ {s},
            \A n \in DOMAIN given : given[n] \in Values, <2>2, ForwardCallSteps
  <2> QED
    BY <2>1, <2>3
<1>2. BlockLevel \in LiveLevels
  BY ForwardPlace DEF Fresh
<1>3. PICK st : st = Popped(u, le)
  OBVIOUS
<1>4. /\ New(st) = l3
      /\ OpenedTrail(st, BlockLevel, Names, [n \in Names |-> RunEntry(given, BlockLevel, n)])
  BY <1>1, <1>2, <1>3, CompiledTrail
<1>5. GetsLevel(level', s, l3)
  <2>1. l3 \in Nat /\ level \in [Scopes -> Nat]
    BY <1>1, ParsedInv DEF TwoOpened
  <2>2. s \in Scopes /\ e \in Scopes /\ s # e /\ e \notin Held(frames) /\ s \notin Held(frames)
    BY DEF Fresh
  <2>3. Held(frames) \subseteq Scopes
    BY ParsedInv, HeldScopes DEF FrameInv
  <2>4. level' = [level EXCEPT ![s] = l3, ![e] = 0]
    BY <1>1
  <2> QED
    BY ONLY <2>1, <2>2, <2>3, <2>4 DEF GetsLevel
<1>6. RunsBlock(s, given, st)
  BY <1>1, <1>2, <1>3, <1>4, <1>5 DEF RunsBlock
<1> QED
  BY <1>6

LEMMA RunsBlockInv ==
  ASSUME TrailInv, NEW s \in Fresh(frames), NEW e \in Scopes, NEW given,
         NEW compiled \in BOOLEAN, Forward(e, given, s, compiled),
         compiled \/ e \in Held(frames), NEW st, RunsBlock(s, given, st)
  PROVE  TrailInv'
<1> DEFINE b == At(frames, Cur(frames).caller)
           c == EvalContext(s, b.caller, "body")
           h == IF compiled THEN {} ELSE {e}
           gs == Forwarded(frames, s, e, compiled)
<1>1. frames' = gs /\ Room(frames) /\ Cur(frames).caller # NoCaller
  BY ForwardPlace DEF Fresh
<1>2. /\ CallerOK(frames, b.caller, Len(frames) + 1)
      /\ c.scope = s /\ c.caller = b.caller /\ c.kind = "body" /\ IsPushed(frames, gs, c, h)
  <2>1. FrameInv(frames) /\ s \in Scopes
    BY ParsedInv DEF Fresh
  <2> QED
    BY <1>1, <2>1, ForwardFrame
<1>3. h \in SUBSET Held(frames) /\ \A x, y \in h : x = y
  OBVIOUS
<1> HIDE DEF b, c, h, gs
<1>4. /\ BlockLevel \in LiveLevels \cup {0}
      /\ OpenedTrail(st, BlockLevel, Names, [n \in Names |-> RunEntry(given, BlockLevel, n)])
      /\ store' = st /\ GetsLevel(level', s, New(st))
  BY DEF RunsBlock
<1>5. CallerOK(frames, c.caller, Len(frames) + 1)
  BY <1>2
<1> QED
  BY <1>1, <1>2, <1>3, <1>4, <1>5, OpensFrameInv

(* Interpreted: both new levels stay.                                      *)
LEMMA ForwardInterpretedInv ==
  ASSUME TrailInv, NEW s \in Fresh(frames), NEW e \in Fresh(frames) \ {s},
         NEW given, \A n \in DOMAIN given : given[n] \in Values, Forward(e, given, s, FALSE)
  PROVE  TrailInv'
<1> DEFINE b == At(frames, Cur(frames).caller)
           c == EvalContext(s, b.caller, "body")
           gs == Forwarded(frames, s, e, FALSE)
           R == Held(frames)
<1>1. frames' = gs /\ Room(frames) /\ Cur(frames).caller # NoCaller /\ BlockLevel \in LiveLevels
  BY ForwardPlace DEF Fresh
<1>2. /\ FrameInv(frames) /\ frames \in Seq(Frames)
      /\ ScopesInOrder(frames, store.parent, level)
      /\ level \in [Scopes -> Nat] /\ LevelsOK(R, level)
  BY ParsedInv DEF FrameInv
<1>3. /\ s \in Scopes /\ e \in Scopes /\ s # e /\ e \notin R /\ s \notin R /\ R \subseteq Scopes
  BY <1>2, HeldScopes DEF Fresh
<1>4. /\ CallerOK(frames, c.caller, Len(frames) + 1)
      /\ c.scope = s /\ c.kind = "body" /\ IsPushed(frames, gs, c, {e})
  <2>1. PICK no \in BOOLEAN : no = FALSE
    OBVIOUS
  <2>2. /\ CallerOK(frames, b.caller, Len(frames) + 1)
        /\ c.scope = s /\ c.caller = b.caller /\ c.kind = "body"
        /\ IsPushed(frames, Forwarded(frames, s, e, no), c, IF no THEN {} ELSE {e})
    BY <1>1, <1>2, <1>3, ForwardFrame
  <2> HIDE DEF b, c
  <2> QED
    BY <2>1, <2>2
<1> HIDE DEF b, c, gs
<1>5. PICK u, le, l3 : /\ TwoOpened(u, le, l3, BlockLevel, given) /\ store' = u
                       /\ level' = [level EXCEPT ![s] = l3, ![e] = le]
  <2>1. PICK c0 \in BOOLEAN : c0 = FALSE
    OBVIOUS
  <2>2. Forward(e, given, s, c0)
    BY <2>1
  <2>3. \E u, le, l3 :
          /\ TwoOpened(u, le, l3, BlockLevel, given)
          /\ store' = IF c0 THEN Popped(u, le) ELSE u
          /\ level' = [level EXCEPT ![s] = l3, ![e] = IF c0 THEN 0 ELSE le]
    BY ONLY TrailInv, s \in Fresh(frames), e \in Fresh(frames) \ {s},
            \A n \in DOMAIN given : given[n] \in Values, <2>2, ForwardCallSteps
  <2> QED
    BY <2>1, <2>3
<1>6. PICK lc : lc = BlockLevel
  OBVIOUS
<1>7. /\ StorageOK(u, LiveLevels \cup {le, l3})
      /\ le \notin LiveLevels /\ l3 \notin LiveLevels /\ le < l3
      /\ le \in Nat \ {0} /\ l3 \in Nat \ {0}
      /\ \A k \in LiveLevels : k < le /\ k < l3
      /\ u.parent[le] = Mine /\ u.parent[l3] = lc
      /\ KeepsView(store, u, R)
  BY <1>5, <1>6 DEF TwoOpened
<1>8. PICK kv : kv = level'
  OBVIOUS
<1> HIDE DEF R
<1>9. /\ kv \in [Scopes -> Nat] /\ kv[s] = l3 /\ kv[e] = le
      /\ \A r \in R : kv[r] = level[r]
  BY ONLY <1>2, <1>3, <1>5, <1>7, <1>8
<1>10. Levels(kv, R) = LiveLevels
  BY <1>9 DEF Levels, LiveLevels, R
<1>11. FrameInv(gs) /\ Held(gs) = R \cup {e} \cup {s}
  <2>1. FrameInv(gs)
    BY <1>1, <1>2, <1>4, PushedInv DEF Room
  <2> QED
    BY <1>4, <2>1 DEF IsPushed, R
<1>12. \A r \in R : level[r] \in LiveLevels
  BY DEF LiveLevels, Levels, R
<1>13. LevelsOK(R \cup {e} \cup {s}, kv)
  <2>1. ASSUME NEW r \in R PROVE kv[r] # le /\ kv[r] # l3
    BY <1>7, <1>9, <1>12
  <2>2. kv[e] # kv[s]
    BY <1>7, <1>9
  <2> QED
    BY <1>2, <1>9, <2>1, <2>2 DEF LevelsOK
<1>14. Levels(kv, R \cup {e} \cup {s}) = LiveLevels \cup {le, l3}
  BY <1>9, <1>10 DEF Levels
<1>15. SameLevels(store.parent, level, u.parent, kv, R)
  BY <1>7, <1>9 DEF SameLevels, KeepsView
<1>16. HeldOver(u.parent, kv, {e}, R)
  <2>1. Continues(u.parent, kv, e, R)
    <3>1. Mine \in LiveLevels
      BY MineIsNewest DEF LiveLevels
    <3> QED
      BY <1>7, <1>9, <1>10, <3>1 DEF Continues
  <2> QED
    BY <2>1 DEF HeldOver
<1>17. OnTop(u.parent, kv, s, R \cup {e})
  <2>1. Continues(u.parent, kv, s, R \cup {e})
    <3>1. Continues(u.parent, kv, s, R)
      BY <1>1, <1>6, <1>7, <1>9, <1>10 DEF Continues
    <3> QED
      BY <3>1, ContinuesMore
  <2>2. ASSUME NEW r \in R PROVE kv[r] <= kv[s]
    <3>1. kv[r] \in LiveLevels /\ kv[r] \in Nat /\ kv[s] = l3
      BY <1>3, <1>9, <1>12 DEF R
    <3> QED
      BY <1>7, <3>1
  <2>3. kv[e] <= kv[s]
    BY <1>7, <1>9
  <2> QED
    BY <2>1, <2>2, <2>3 DEF OnTop
<1>18. ScopesInOrder(gs, u.parent, kv)
  BY <1>2, <1>4, <1>15, <1>16, <1>17, PushedInOrder DEF R
<1>19. /\ FrameInv(frames') /\ level' \in [Scopes -> Nat] /\ LevelsOK(Held(frames'), level')
       /\ ScopesInOrder(frames', store'.parent, level')
       /\ StorageOK(store', Levels(level', Held(frames')))
  BY <1>1, <1>5, <1>7, <1>8, <1>9, <1>11, <1>13, <1>14, <1>18
<1> QED
  BY <1>19, NextInv

-----------------------------------------------------------------------------
(* The root context of makeRoot.                                           *)

LEMMA SeedStorage ==
  ASSUME NEW st,
         st = [parent |-> << 0 >>,
               stacks |-> [n \in Names |->
                             IF Seed[n] = Unset THEN << >>
                             ELSE << Entry(DynEntry(Seed[n], FALSE), 1) >>]]
  PROVE  StorageOK(st, {1}) /\ st.parent[1] = 0
<1>1. st.parent = << 0 >> /\ Len(st.parent) = 1 /\ st.parent[1] = 0
      /\ st.parent \in Seq({Dead} \cup Nat)
  OBVIOUS
<1>2. ASSUME NEW n \in Names
      PROVE  /\ st.stacks[n] \in Seq(Entries) /\ Ascending(st.stacks[n])
             /\ \A i \in 1 .. Len(st.stacks[n]) : st.stacks[n][i].level \in {1}
  <2>1. PICK e : e = Entry(DynEntry(Seed[n], FALSE), 1)
    OBVIOUS
  <2>2. e \in Entries /\ e.level = 1
    BY <2>1 DEF Entry, DynEntry, Entries, DynEntries
  <2>3. st.stacks[n] = << >> \/ st.stacks[n] = << e >>
    BY <2>1
  <2>4. CASE st.stacks[n] = << >>
    <3>1. PICK s : s = << >>
      OBVIOUS
    <3>2. s \in Seq(Entries) /\ 1 .. Len(s) = {}
      BY <3>1
    <3>3. Ascending(s)
      BY <3>2 DEF Ascending
    <3> QED
      BY ONLY <2>4, <3>1, <3>2, <3>3
  <2>5. CASE st.stacks[n] = << e >>
    <3>1. PICK s : s = << e >>
      OBVIOUS
    <3>2. s \in Seq(Entries)
      <4> HIDE DEF Entries
      <4> QED
        BY <2>2, <3>1
    <3>3. Len(s) = 1 /\ s[1] = e
      BY <3>1
    <3>4. Ascending(s)
      BY <3>3 DEF Ascending
    <3>5. \A i \in 1 .. Len(s) : s[i].level \in {1}
      BY <2>2, <3>3
    <3> QED
      BY ONLY <2>5, <3>1, <3>2, <3>4, <3>5
  <2> QED
    BY <2>3, <2>4, <2>5
<1>3. st \in Storages
  <2>1. st.stacks \in [Names -> Seq(Entries)]
    <3>1. st.stacks = [n \in Names |-> st.stacks[n]]
      OBVIOUS
    <3> QED
      BY <1>2, <3>1
  <2>2. st = [parent |-> st.parent, stacks |-> st.stacks]
    OBVIOUS
  <2> QED
    BY <1>1, <2>1, <2>2 DEF Storages
<1>4. PICK p : p = st.parent
  OBVIOUS
<1>5. Len(p) = 1 /\ p[1] = 0
  BY <1>1, <1>4
<1>6. /\ {1} \subseteq 1 .. Len(p) /\ Len(p) \in {1} \cup {0}
      /\ \A l \in 1 .. Len(p) : IF l \in {1} THEN p[l] \in {1} \cup {0} /\ p[l] < l
                                ELSE p[l] = Dead
  BY ONLY <1>5
<1> QED
  BY ONLY <1>1, <1>2, <1>3, <1>4, <1>6 DEF StorageOK

LEMMA InitInv == ASSUME Init PROVE TrailInv
<1>1. PICK r \in Scopes :
        /\ frames = << Frame("root", EvalContext(r, NoCaller, "body"), {}) >>
        /\ level = [s \in Scopes |-> IF s = r THEN 1 ELSE 0]
        /\ store =
             [parent |-> << 0 >>,
              stacks |-> [n \in Names |->
                            IF Seed[n] = Unset THEN << >>
                            ELSE << Entry(DynEntry(Seed[n], FALSE), 1) >>]]
  BY DEF Init
<1> DEFINE c == EvalContext(r, NoCaller, "body")
<1>2. c \in Contexts /\ c.scope = r /\ c.caller = NoCaller /\ c.kind = "body"
  BY ContextTyped, NoCallerTyped
<1>3. PICK fs \in Seq(Frames) : fs = << >>
  <2>1. << >> \in Seq(Frames)
    OBVIOUS
  <2> QED
    BY ONLY <2>1
<1>4. Len(fs) = 0 /\ Held(fs) = {}
  BY <1>3 DEF Held
<1>5. IsPushed(fs, frames, c, {})
  <2>1. PICK k \in Kinds : k = "root"
    BY DEF Kinds
  <2>2. frames = Append(fs, Frame(k, c, {}))
    <3>1. PICK f : f = Frame(k, c, {})
      OBVIOUS
    <3>2. frames = << f >>
      BY <1>1, <2>1, <3>1
    <3> QED
      BY <1>3, <3>1, <3>2
  <2>3. {} \in SUBSET Scopes
    OBVIOUS
  <2> HIDE DEF c
  <2> QED
    BY <1>2, <2>2, <2>3, Pushed
<1> HIDE DEF c
<1>6. /\ frames \in Seq(Frames) /\ Len(frames) = 1 /\ Held(frames) = {r}
      /\ OnlyContext(frames[1], c)
  BY <1>2, <1>4, <1>5 DEF IsPushed
<1>7. StorageOK(store, {1}) /\ store.parent[1] = 0
  <2>1. PICK st : st = store
    OBVIOUS
  <2>2. StorageOK(st, {1}) /\ st.parent[1] = 0
    BY <1>1, <2>1, SeedStorage
  <2> QED
    BY <2>1, <2>2
<1>8. level \in [Scopes -> Nat] /\ level[r] = 1
  BY <1>1
<1>9. FrameInv(frames)
  <2>1. FramesOK(frames)
    <3>1. FramesOK(fs)
      BY <1>4 DEF FramesOK
    <3> QED
      BY <1>2, <1>5, <3>1, NoCallerTyped, PushedFramesOK
  <2>2. ASSUME NEW i \in 1 .. Len(frames) PROVE Len(frames[i].chain) \in 1 .. MaxChain
    <3>1. i = 1
      BY <1>6
    <3>2. 1 \in 1 .. Len(frames)
      BY <1>6
    <3>3. PICK k \in Nat : k = Len(frames[1].chain)
      BY <1>6, <3>2, FrameFacts
    <3>4. 1 \in 1 .. k /\ \A j \in 1 .. k : j = 1
      BY <1>6, <3>3 DEF OnlyContext
    <3>5. k = 1
      BY <3>4
    <3> QED
      BY <3>1, <3>3, <3>5, BoundsAssumption
  <2> QED
    BY <1>6, <2>1, <2>2, BoundsAssumption DEF FrameInv
<1>10. ScopesInOrder(frames, store.parent, level)
  <2>1. ScopesInOrder(fs, store.parent, level)
    BY <1>4 DEF ScopesInOrder
  <2>2. SameLevels(store.parent, level, store.parent, level, Held(fs))
    BY DEF SameLevels
  <2>3. HeldOver(store.parent, level, {}, Held(fs))
    BY DEF HeldOver
  <2>4. OnTop(store.parent, level, c.scope, Held(fs) \cup {})
    BY <1>2, <1>4, <1>7, <1>8 DEF OnTop, Continues
  <2> QED
    BY <1>5, <2>1, <2>2, <2>3, <2>4, PushedInOrder
<1>11. Levels(level, Held(frames)) = {1} /\ LevelsOK(Held(frames), level)
  BY <1>6, <1>8 DEF Levels, LevelsOK
<1> QED
  BY <1>7, <1>8, <1>9, <1>10, <1>11, ParsedInv

-----------------------------------------------------------------------------
(* The theorems.                                                           *)

LEMMA ForwardInv ==
  ASSUME TrailInv, NEW s \in Fresh(frames), NEW compiled \in BOOLEAN,
         NEW e, NEW given, Forward(e, given, s, compiled),
         \/ e = Cur(frames).scope /\ DOMAIN given = {}
         \/ e \in Fresh(frames) \ {s} /\ \A n \in DOMAIN given : given[n] \in Values
  PROVE  TrailInv'
<1>1. CASE e = Cur(frames).scope /\ DOMAIN given = {}
  <2>1. PICK st : RunsBlock(s, given, st)
    BY <1>1, ForwardOwnSteps
  <2>2. e \in Held(frames) /\ e \in Scopes
    BY <1>1, ParsedInv, ShapeFacts DEF Contexts
  <2> QED
    BY <2>1, <2>2, RunsBlockInv
<1>2. CASE e \in Fresh(frames) \ {s} /\ \A n \in DOMAIN given : given[n] \in Values
  <2>1. CASE compiled
    <3>1. Forward(e, given, s, TRUE)
      BY <2>1
    <3>2. PICK st : RunsBlock(s, given, st)
      BY <1>2, <3>1, ForwardCompiledSteps
    <3>3. e \in Scopes
      BY <1>2 DEF Fresh
    <3> QED
      BY <2>1, <3>2, <3>3, RunsBlockInv
  <2>2. CASE ~compiled
    <3>1. Forward(e, given, s, FALSE)
      BY <2>2
    <3> QED
      BY <1>2, <3>1, ForwardInterpretedInv
  <2> QED
    BY <2>1, <2>2
<1> QED
  BY <1>1, <1>2

(* Every $-variable reader finds what it needs, whatever the order in      *)
(* which contexts are let go: the invariant every action keeps.            *)
THEOREM Invariance == Spec => []TrailInv
<1>1. Init => TrailInv
  BY InitInv
<1>2. TrailInv /\ [Next]_vars => TrailInv'
  <2> SUFFICES ASSUME TrailInv, [Next]_vars PROVE TrailInv'
    OBVIOUS
  <2>1. CASE \E s \in Fresh(frames), x \in Values : \E n \in Names \ {Children} : Call(s, n, x)
    BY <2>1, CallInv
  <2>2. CASE \E s \in Fresh(frames), x \in Values : CallModule(s, x)
    BY <2>2, CallModuleInv
  <2>3. CASE \E s \in Fresh(frames), x \in Values :
               \E n \in Names \ {Children} : TailHop(s, n, x)
    BY <2>3, TailHopInv
  <2>4. CASE \E s \in Fresh(frames) : OpenScope(s)
    BY <2>4, OpenScopeInv
  <2>5. CASE CopyContext
    BY <2>5, CopyContextInv
  <2>6. CASE CloseScope
    BY <2>6, CloseScopeInv
  <2>7. CASE \E n \in Names \ {Children}, x \in Values : Assign(n, x)
    BY <2>7, AssignInv
  <2>8. CASE \E s \in Fresh(frames), compiled \in BOOLEAN :
               \/ Forward(Cur(frames).scope, << >>, s, compiled)
               \/ \E e \in Fresh(frames) \ {s}, n \in Names \ {Children}, x \in Values :
                    Forward(e, [m \in {n} |-> x], s, compiled)
    <3>1. PICK s \in Fresh(frames), compiled \in BOOLEAN :
            \/ Forward(Cur(frames).scope, << >>, s, compiled)
            \/ \E e \in Fresh(frames) \ {s}, n \in Names \ {Children}, x \in Values :
                 Forward(e, [m \in {n} |-> x], s, compiled)
      BY <2>8
    <3>2. CASE Forward(Cur(frames).scope, << >>, s, compiled)
      <4>1. PICK given : given = << >>
        OBVIOUS
      <4>2. DOMAIN given = {}
        BY <4>1
      <4>3. Forward(Cur(frames).scope, given, s, compiled)
        BY <3>2, <4>1
      <4> QED
        BY <4>2, <4>3, ForwardInv
    <3>3. CASE \E e \in Fresh(frames) \ {s}, n \in Names \ {Children}, x \in Values :
                 Forward(e, [m \in {n} |-> x], s, compiled)
      <4>1. PICK e \in Fresh(frames) \ {s}, n \in Names \ {Children}, x \in Values :
              Forward(e, [m \in {n} |-> x], s, compiled)
        BY <3>3
      <4>2. PICK given : given = [m \in {n} |-> x]
        OBVIOUS
      <4>3. \A m \in DOMAIN given : given[m] \in Values
        BY <4>2
      <4>4. Forward(e, given, s, compiled)
        BY <4>1, <4>2
      <4> QED
        BY <4>3, <4>4, ForwardInv
    <3> QED
      BY <3>1, <3>2, <3>3
  <2>9. CASE Leave
    BY <2>9, LeaveInv
  <2>10. CASE UNCHANGED vars
    BY <2>10 DEF vars, TrailInv, TypeOK, LiveLevels
  <2> QED
    BY <2>1, <2>2, <2>3, <2>4, <2>5, <2>6, <2>7, <2>8, <2>9, <2>10 DEF Next
<1> QED
  BY <1>1, <1>2, PTL DEF Spec

(* The types of DynTrail's state hold in every reachable state.            *)
THEOREM TypeCorrect == Spec => []TypeOK
<1>1. TrailInv => TypeOK
  BY DEF TrailInv
<1> QED
  BY <1>1, Invariance, PTL

(* No level a scope in use reads from was popped, and every stack of       *)
(* $-entries is in the order lookup relies on, although the views of       *)
(* $-variables keep no parent alive and contexts are let go in different   *)
(* orders by returns, tail calls, children() and exceptions.               *)
THEOREM TrailStaysSound == Spec => []TrailSound
<1>1. TrailInv => TrailSound
  <2> SUFFICES ASSUME TrailInv PROVE TrailSound
    OBVIOUS
  <2>1. StorageOK(store, LiveLevels)
    BY DEF TrailInv
  <2>2. EnclosingScopesLive
    BY <2>1, StorageFacts DEF EnclosingScopesLive
  <2>3. ASSUME NEW n \in Names
        PROVE  DOMAIN store.stacks[n] = 1 .. Len(store.stacks[n])
    <3>1. store.stacks[n] \in Seq(Entries)
      BY <2>1 DEF StorageOK, Storages
    <3> QED
      BY <3>1
  <2>4. StacksOrdered
    BY <2>1, <2>3, StorageFacts DEF StacksOrdered
  <2> QED
    BY <2>2, <2>4 DEF TrailSound
<1> QED
  BY <1>1, Invariance, PTL

-----------------------------------------------------------------------------
(* The trail implements dynamic scoping by copying.                        *)

(* Both modules extend CallFrames: its operators, as Copies has them.      *)
LEMMA SameShapes ==
  /\ Copies!Top(frames) = Top(frames) /\ Copies!Cur(frames) = Cur(frames)
  /\ Copies!Room(frames) = Room(frames) /\ Copies!ChainRoom(frames) = ChainRoom(frames)
  /\ Copies!NoCaller = NoCaller
  /\ Copies!At(frames, Cur(frames).caller) = At(frames, Cur(frames).caller)
  /\ Copies!ScopeClosed(frames) = ScopeClosed(frames) /\ Copies!Front(frames) = Front(frames)
  /\ Copies!Held(frames) = Held(frames) /\ Copies!Fresh(frames) = Fresh(frames)
<1>1. Copies!Top(frames) = Top(frames) /\ Copies!Cur(frames) = Cur(frames)
  BY DEF Copies!Top, Top, Copies!Cur, Cur, Copies!Last, Last
<1>2. Copies!Room(frames) = Room(frames) /\ Copies!ChainRoom(frames) = ChainRoom(frames)
  BY DEF Copies!Room, Room, Copies!ChainRoom, ChainRoom, Copies!Top, Top
<1>3. /\ Copies!NoCaller = NoCaller
      /\ Copies!At(frames, Cur(frames).caller) = At(frames, Cur(frames).caller)
  BY DEF Copies!NoCaller, NoCaller, Copies!At, At
<1>4. Copies!ScopeClosed(frames) = ScopeClosed(frames) /\ Copies!Front(frames) = Front(frames)
  BY DEF Copies!ScopeClosed, ScopeClosed, Copies!Front, Front
<1>5. Copies!Held(frames) = Held(frames) /\ Copies!Fresh(frames) = Fresh(frames)
  BY DEF Copies!Held, Held, Copies!ScopesOf, ScopesOf, Copies!Fresh, Fresh
<1> QED
  BY <1>1, <1>2, <1>3, <1>4, <1>5

LEMMA SameHeldNext == Copies!Held(frames)' = Held(frames)'
BY DEF Copies!Held, Held, Copies!ScopesOf, ScopesOf

LEMMA SameFrames ==
  ASSUME NEW s, NEW e, NEW compiled
  PROVE  /\ Copies!Called(frames, s) = Called(frames, s)
         /\ Copies!ModuleCalled(frames, s) = ModuleCalled(frames, s)
         /\ Copies!Hopped(frames, s) = Hopped(frames, s)
         /\ Copies!Scoped(frames, s) = Scoped(frames, s)
         /\ Copies!Forwarded(frames, s, e, compiled) = Forwarded(frames, s, e, compiled)
<1>1. Copies!Called(frames, s) = Called(frames, s)
  BY DEF Copies!Called, Called, Copies!Frame, Frame, Copies!EvalContext, EvalContext,
         Copies!NoCaller, NoCaller
<1>2. Copies!ModuleCalled(frames, s) = ModuleCalled(frames, s)
  BY DEF Copies!ModuleCalled, ModuleCalled, Copies!Frame, Frame, Copies!EvalContext, EvalContext,
         Copies!Here, Here, Copies!Top, Top
<1>3. Copies!Hopped(frames, s) = Hopped(frames, s)
  BY DEF Copies!Hopped, Hopped, Copies!WithCtx, WithCtx, Copies!EvalContext, EvalContext,
         Copies!NoCaller, NoCaller
<1>4. Copies!Scoped(frames, s) = Scoped(frames, s)
  BY SameShapes DEF Copies!Scoped, Scoped, Copies!WithCtx, WithCtx, Copies!EvalContext, EvalContext
<1>5. Copies!Forwarded(frames, s, e, compiled) = Forwarded(frames, s, e, compiled)
  BY SameShapes DEF Copies!Forwarded, Forwarded, Copies!Frame, Frame,
                    Copies!EvalContext, EvalContext
<1> QED
  BY <1>1, <1>2, <1>3, <1>4, <1>5

(* The table of one scope.                                                 *)
Shows(st, l) == [n \in Names |-> Find(st, n, l)]

LEMMA Mapped ==
  /\ table = [s \in Held(frames) |-> Shows(store, level[s])]
  /\ table' = [s \in Held(frames') |-> Shows(store', level'[s])]
BY DEF table, Shows, Held, ScopesOf, Find, Lookup, DynEntry

LEMMA ShowsTyped ==
  ASSUME NEW st, NEW H, StorageOK(st, H), NEW l \in H \cup {0}
  PROVE  Shows(st, l) \in [Names -> DynEntries]
BY FindTyped DEF Shows

LEMMA MineTable ==
  ASSUME TrailInv
  PROVE  Copies!Mine = Shows(store, Mine) /\ Shows(store, Mine) \in [Names -> DynEntries]
<1>1. PICK cur : cur = Cur(frames).scope
  OBVIOUS
<1>2. cur \in Held(frames) /\ Mine = level[cur]
  BY <1>1, ParsedInv, ShapeFacts DEF Mine
<1>3. Copies!Mine = table[cur]
  BY <1>1, SameShapes DEF Copies!Mine
<1>4. StorageOK(store, LiveLevels)
  BY DEF TrailInv
<1> QED
  BY <1>2, <1>3, <1>4, Mapped, MineLive, ShowsTyped

LEMMA TablesAre ==
  ASSUME NEW opened
  PROVE  Copies!Tables(opened)
           <=> table' = [s \in Held(frames') |-> IF s \in DOMAIN opened THEN opened[s] ELSE table[s]]
<1>1. Copies!Held(frames') = Held(frames')
  BY DEF Copies!Held, Held, Copies!ScopesOf, ScopesOf
<1> QED
  BY <1>1 DEF Copies!Tables

(* A scope that is opened gets its table, the others keep theirs.          *)
LEMMA OpenedTable ==
  ASSUME TrailInv, NEW s \in Fresh(frames), NEW d, NEW st, NEW C, NEW v,
         OpenedTrail(st, d, C, v), store' = st, GetsLevel(level', s, New(st)),
         Held(frames') = Held(frames) \cup {s},
         NEW t, t = [n \in Names |-> IF n \in C THEN v[n] ELSE Find(store, n, d)]
  PROVE  Copies!Tables(Copies!One(s, t))
<1> DEFINE R == Held(frames)
<1>1. PICK kv : kv = level'
  OBVIOUS
<1>2. kv[s] = New(st) /\ \A r \in R : kv[r] = level[r]
  BY <1>1 DEF GetsLevel
<1>3. s \notin R
  BY DEF Fresh
<1>4. table' = [r \in R \cup {s} |-> Shows(st, kv[r])]
  BY <1>1, Mapped
<1>5. Shows(st, kv[s]) = t
  BY <1>2 DEF OpenedTrail, Shows
<1>6. ASSUME NEW r \in R PROVE Shows(st, kv[r]) = table[r]
  <2>1. \A n \in Names : Find(st, n, level[r]) = Find(store, n, level[r])
    BY DEF OpenedTrail, KeepsView
  <2>2. table[r] = Shows(store, level[r])
    BY Mapped
  <2> QED
    BY <1>2, <2>1, <2>2 DEF Shows
<1>7. PICK one : one = Copies!One(s, t)
  OBVIOUS
<1>8. DOMAIN one = {s} /\ one[s] = t
  BY <1>7 DEF Copies!One
<1> HIDE DEF R
<1>9. table' = [r \in R \cup {s} |-> IF r \in DOMAIN one THEN one[r] ELSE table[r]]
  <2>1. ASSUME NEW r \in R \cup {s}
        PROVE  Shows(st, kv[r]) = IF r \in DOMAIN one THEN one[r] ELSE table[r]
    BY <1>3, <1>5, <1>6, <1>8
  <2> QED
    BY ONLY <1>4, <2>1
<1> QED
  BY <1>7, <1>9, TablesAre DEF R

(* A parameter: the table of the caller with one value changed.            *)
LEMMA BoundTable ==
  ASSUME TrailInv, NEW n \in Names, NEW x \in Values
  PROVE  LET o == Opened(store, Mine)
         IN  Copies!Value(Copies!Mine, n, x)
               = [m \in Names |-> IF m \in {n} THEN ValueOf(o, n, x, New(o))[m]
                                  ELSE Find(store, m, Mine)]
<1> DEFINE o == Opened(store, Mine)
<1>1. Find(o, n, New(o)) = Find(store, n, Mine)
  <2>1. [m \in Names |-> NoEntry] \in [Names -> DynEntries]
    BY NoEntryTyped
  <2>2. OpenedTrail(o, Mine, {}, [m \in Names |-> NoEntry])
    BY <2>1, MineLive, OpenedIsTrail
  <2> HIDE DEF o
  <2> QED
    BY <2>2 DEF OpenedTrail
<1> HIDE DEF o
<1>2. PICK t \in [Names -> DynEntries] : t = Shows(store, Mine)
  BY MineTable
<1>3. t[n] = Find(store, n, Mine) /\ t[n] \in DynEntries
  BY <1>2 DEF Shows
<1>4. [t[n] EXCEPT !.value = x] = DynEntry(x, t[n].explicitlySet)
  BY <1>3 DEF DynEntries, DynEntry
<1>5. ValueOf(o, n, x, New(o))[n] = DynEntry(x, t[n].explicitlySet)
  BY <1>1, <1>3 DEF ValueOf
<1>6. Copies!Value(Copies!Mine, n, x) = [t EXCEPT ![n] = [t[n] EXCEPT !.value = x]]
  BY <1>2, MineTable DEF Copies!Value
<1>7. ASSUME NEW m \in Names PROVE t[m] = Find(store, m, Mine)
  BY <1>2 DEF Shows
<1>8. PICK e : e = DynEntry(x, t[n].explicitlySet)
  OBVIOUS
<1>9. Copies!Value(Copies!Mine, n, x)
        = [m \in Names |-> IF m \in {n} THEN e ELSE Find(store, m, Mine)]
  <2>1. Copies!Value(Copies!Mine, n, x) = [t EXCEPT ![n] = e]
    BY ONLY <1>4, <1>6, <1>8
  <2> QED
    BY ONLY <2>1, <1>7, t \in [Names -> DynEntries]
<1>10. \A m \in Names : (IF m \in {n} THEN ValueOf(o, n, x, New(o))[m] ELSE Find(store, m, Mine))
                       = (IF m \in {n} THEN e ELSE Find(store, m, Mine))
  BY <1>5, <1>8
<1>11. [m \in Names |-> IF m \in {n} THEN ValueOf(o, n, x, New(o))[m] ELSE Find(store, m, Mine)]
         = [m \in Names |-> IF m \in {n} THEN e ELSE Find(store, m, Mine)]
  BY ONLY <1>10
<1> QED
  BY <1>9, <1>11 DEF o

LEMMA BoundOpens ==
  ASSUME TrailInv, NEW s \in Fresh(frames), NEW n \in Names, NEW x \in Values,
         NEW gs, Held(gs) = Held(frames) \cup {s}, NEW o, o = Opened(store, Mine),
         Opens(gs, s, ValueSet(o, n, x, New(o)))
  PROVE  frames' = gs /\ Copies!Tables(Copies!One(s, Copies!Value(Copies!Mine, n, x)))
<1> DEFINE st == ValueSet(o, n, x, New(o))
           v == ValueOf(o, n, x, New(o))
<1>1. OpenedTrail(st, Mine, {n}, v)
  BY MineLive, BoundIsTrail
<1>2. PICK t : t = Copies!Value(Copies!Mine, n, x)
  OBVIOUS
<1>3. t = [m \in Names |-> IF m \in {n} THEN v[m] ELSE Find(store, m, Mine)]
  BY <1>2, BoundTable
<1> HIDE DEF st, v
<1>4. Opens(gs, s, st)
  BY DEF st
<1>5. frames' = gs /\ store' = st /\ GetsLevel(level', s, New(st))
  BY <1>1, <1>4, OpensSteps
<1>6. Held(frames') = Held(frames) \cup {s}
  BY <1>5
<1> QED
  BY <1>1, <1>2, <1>3, <1>5, <1>6, OpenedTable

LEMMA CallMaps ==
  ASSUME TrailInv, NEW s \in Fresh(frames), NEW n \in Names, NEW x \in Values, Call(s, n, x)
  PROVE  Copies!Call(s, n, x)
<1>1. PICK o : o = Opened(store, Mine)
  OBVIOUS
<1>2. Room(frames) /\ Opens(Called(frames, s), s, ValueSet(o, n, x, New(o)))
  BY <1>1 DEF Call
<1>3. Held(Called(frames, s)) = Held(frames) \cup {s}
  BY ParsedInv, CalledPushes DEF IsPushed, Fresh
<1>4. /\ frames' = Called(frames, s)
      /\ Copies!Tables(Copies!One(s, Copies!Value(Copies!Mine, n, x)))
  BY <1>1, <1>2, <1>3, BoundOpens
<1> QED
  BY <1>2, <1>4, SameShapes, SameFrames DEF Copies!Call

LEMMA CallModuleMaps ==
  ASSUME TrailInv, NEW s \in Fresh(frames), NEW x \in Values, CallModule(s, x)
  PROVE  Copies!CallModule(s, x)
<1>1. PICK o : o = Opened(store, Mine)
  OBVIOUS
<1>2. Room(frames) /\ Opens(ModuleCalled(frames, s), s, ValueSet(o, Children, x, New(o)))
  BY <1>1 DEF CallModule
<1>3. Held(ModuleCalled(frames, s)) = Held(frames) \cup {s}
  BY ParsedInv, ModuleCalledPushes DEF IsPushed, Fresh
<1>4. /\ frames' = ModuleCalled(frames, s)
      /\ Copies!Tables(Copies!One(s, Copies!Value(Copies!Mine, Children, x)))
  BY <1>1, <1>2, <1>3, NamesAssumption, BoundOpens
<1> QED
  BY <1>2, <1>4, SameShapes, SameFrames DEF Copies!CallModule

LEMMA TailHopMaps ==
  ASSUME TrailInv, NEW s \in Fresh(frames), NEW n \in Names, NEW x \in Values, TailHop(s, n, x)
  PROVE  Copies!TailHop(s, n, x)
<1>1. PICK o : o = Opened(store, Mine)
  OBVIOUS
<1>2. /\ Top(frames).kind = "function" /\ ChainRoom(frames)
      /\ Opens(Hopped(frames, s), s, ValueSet(o, n, x, New(o)))
  BY <1>1 DEF TailHop
<1>3. Held(Hopped(frames, s)) = Held(frames) \cup {s}
  BY ParsedInv, HoppedExtends DEF IsExtended, Fresh
<1>4. /\ frames' = Hopped(frames, s)
      /\ Copies!Tables(Copies!One(s, Copies!Value(Copies!Mine, n, x)))
  BY <1>1, <1>2, <1>3, BoundOpens
<1> QED
  BY <1>2, <1>4, SameShapes, SameFrames DEF Copies!TailHop

LEMMA OpenScopeMaps ==
  ASSUME TrailInv, NEW s \in Fresh(frames), OpenScope(s)
  PROVE  Copies!OpenScope(s)
<1>1. PICK st : st = Opened(store, Mine)
  OBVIOUS
<1>2. ChainRoom(frames) /\ Opens(Scoped(frames, s), s, st)
  BY <1>1 DEF OpenScope
<1>3. PICK v \in [Names -> DynEntries] : OpenedTrail(st, Mine, {}, v)
  <2>1. [m \in Names |-> NoEntry] \in [Names -> DynEntries]
    BY NoEntryTyped
  <2> QED
    BY <1>1, <2>1, MineLive, OpenedIsTrail
<1>4. Held(Scoped(frames, s)) = Held(frames) \cup {s}
  BY ParsedInv, ScopedExtends DEF IsExtended, Fresh
<1>5. frames' = Scoped(frames, s) /\ store' = st /\ GetsLevel(level', s, New(st))
  BY <1>2, <1>3, OpensSteps
<1>6. PICK t : t = Copies!Mine
  OBVIOUS
<1>7. t = [m \in Names |-> IF m \in {} THEN v[m] ELSE Find(store, m, Mine)]
  BY <1>6, MineTable DEF Shows
<1>8. Held(frames') = Held(frames) \cup {s}
  BY <1>4, <1>5
<1>9. Copies!Tables(Copies!One(s, t))
  BY <1>3, <1>5, <1>7, <1>8, OpenedTable
<1> QED
  BY <1>2, <1>5, <1>6, <1>9, SameShapes, SameFrames DEF Copies!OpenScope

LEMMA CopyContextMaps == ASSUME TrailInv, CopyContext PROVE Copies!CopyContext
<1>1. /\ ChainRoom(frames) /\ frames' = Scoped(frames, Cur(frames).scope)
      /\ store' = store /\ level' = level
  BY DEF CopyContext
<1>2. PICK s : s = Cur(frames).scope
  OBVIOUS
<1>3. FrameInv(frames) /\ s \in Held(frames) /\ s \in Scopes
  BY <1>2, ParsedInv, ShapeFacts DEF Contexts
<1>4. Held(Scoped(frames, s)) = Held(frames)
  <2>1. Held(Scoped(frames, s)) = Held(frames) \cup {s}
    BY <1>3, ScopedExtends DEF IsExtended
  <2> QED
    BY <1>3, <2>1
<1>5. table' = table
  BY <1>1, <1>2, <1>4, Mapped
<1> QED
  BY <1>1, <1>5, SameShapes, SameFrames DEF Copies!CopyContext

(* Contexts go: the tables left are those of before.                       *)
LEMMA ShorterTable ==
  ASSUME TrailInv, NEW gs, IsShorter(frames, gs), frames' = gs,
         KeepsView(store, store', Held(gs)),
         level' = [s \in Scopes |-> IF s \in Held(gs) THEN level[s] ELSE 0]
  PROVE  Copies!Tables(<< >>)
<1>1. PICK st : st = store'
  OBVIOUS
<1>2. PICK kv : kv = level'
  OBVIOUS
<1>3. PICK R : R = Held(gs)
  OBVIOUS
<1>4. R \subseteq Held(frames) /\ R \subseteq Scopes
  BY <1>3, HeldScopes DEF IsShorter
<1>5. table' = [r \in R |-> Shows(st, kv[r])]
  BY <1>1, <1>2, <1>3, Mapped
<1>6. ASSUME NEW r \in R PROVE Shows(st, kv[r]) = table[r]
  <2>1. kv[r] = level[r]
    BY <1>2, <1>3, <1>4
  <2>2. \A n \in Names : Find(st, n, level[r]) = Find(store, n, level[r])
    BY <1>1, <1>3 DEF KeepsView
  <2>3. table[r] = Shows(store, level[r])
    BY <1>4, Mapped
  <2> QED
    BY <2>1, <2>2, <2>3 DEF Shows
<1>7. PICK none : none = << >>
  OBVIOUS
<1>8. DOMAIN none = {}
  BY <1>7
<1>9. table' = [r \in R |-> IF r \in DOMAIN none THEN none[r] ELSE table[r]]
  <2>1. \A r \in R : Shows(st, kv[r]) = IF r \in DOMAIN none THEN none[r] ELSE table[r]
    BY <1>6, <1>8
  <2> QED
    BY ONLY <1>5, <2>1
<1> QED
  BY <1>3, <1>7, <1>9, TablesAre

LEMMA CloseScopeMaps == ASSUME TrailInv, CloseScope PROVE Copies!CloseScope
<1>1. PICK gs : gs = ScopeClosed(frames)
  OBVIOUS
<1>2. /\ Cur(frames).kind = "scope" /\ frames' = gs
      /\ level' = [s \in Scopes |-> IF s \in Held(gs) THEN level[s] ELSE 0]
  BY <1>1 DEF CloseScope
<1>3. IsShorter(frames, gs) /\ KeepsView(store, store', Held(gs))
  BY <1>1, CloseScopeKeeps
<1>4. Copies!Tables(<< >>)
  BY <1>2, <1>3, ShorterTable
<1> QED
  BY <1>1, <1>2, <1>4, SameShapes DEF Copies!CloseScope

LEMMA LeaveMaps == ASSUME TrailInv, Leave PROVE Copies!Leave
<1>1. PICK gs : gs = Front(frames)
  OBVIOUS
<1>2. /\ Len(frames) > 1 /\ frames' = gs
      /\ level' = [s \in Scopes |-> IF s \in Held(gs) THEN level[s] ELSE 0]
  BY <1>1, LeaveIs
<1>3. IsShorter(frames, gs) /\ KeepsView(store, store', Held(gs))
  BY <1>1, LeaveKeeps
<1>4. Copies!Tables(<< >>)
  BY <1>2, <1>3, ShorterTable
<1> QED
  BY <1>1, <1>2, <1>4, SameShapes DEF Copies!Leave

LEMMA AssignMaps ==
  ASSUME TrailInv, NEW n \in Names, NEW x \in Values, Assign(n, x)
  PROVE  Copies!Assign(n, x)
<1> DEFINE R == Held(frames)
<1>1. PICK st : st = store'
  OBVIOUS
<1>2. PICK cur : cur = Cur(frames).scope
  OBVIOUS
<1>3. cur \in R /\ Mine = level[cur] /\ LevelsOK(R, level)
  BY <1>2, ParsedInv, ShapeFacts DEF Mine
<1>4. PICK e : e = DynEntry(x, TRUE)
  OBVIOUS
<1>5. /\ frames' = frames /\ level' = level
      /\ \A m \in Names : Find(st, m, level[cur]) = IF m = n THEN e ELSE Find(store, m, level[cur])
      /\ \A m \in Names : \A k \in Levels(level, R) \ {level[cur]} : Find(st, m, k) = Find(store, m, k)
  BY <1>1, <1>3, <1>4, AssignKeeps
<1>6. table' = [r \in R |-> Shows(st, level[r])] /\ table = [r \in R |-> Shows(store, level[r])]
  BY <1>1, <1>5, Mapped
<1> HIDE DEF R
<1>7. ASSUME NEW r \in R, r # cur PROVE Shows(st, level[r]) = Shows(store, level[r])
  <2>1. level[r] \in Levels(level, R) \ {level[cur]}
    BY <1>3, <1>7 DEF Levels, LevelsOK
  <2>2. PICK k \in Levels(level, R) \ {level[cur]} : k = level[r]
    BY <2>1
  <2>3. \A m \in Names : Find(st, m, k) = Find(store, m, k)
    BY <1>5
  <2> QED
    BY <2>2, <2>3 DEF Shows
<1>8. Shows(st, level[cur]) = [Shows(store, level[cur]) EXCEPT ![n] = e]
  BY <1>5 DEF Shows
<1>9. table' = [table EXCEPT ![cur] = [table[cur] EXCEPT ![n] = e]]
  <2>1. table[cur] = Shows(store, level[cur])
    BY <1>3, <1>6
  <2>2. ASSUME NEW r \in R
        PROVE  Shows(st, level[r]) = IF r = cur THEN [table[cur] EXCEPT ![n] = e]
                                     ELSE Shows(store, level[r])
    BY <1>7, <1>8, <2>1
  <2>3. PICK f : f = [table[cur] EXCEPT ![n] = e]
    OBVIOUS
  <2>4. table' = [r \in R |-> IF r = cur THEN f ELSE Shows(store, level[r])]
    BY <1>6, <2>2, <2>3
  <2>5. [table EXCEPT ![cur] = f] = [r \in R |-> IF r = cur THEN f ELSE Shows(store, level[r])]
    BY ONLY <1>6
  <2> QED
    BY <2>3, <2>4, <2>5
<1>10. table' = [table EXCEPT ![cur][n] = Copies!DynEntry(x, TRUE)]
  BY <1>4, <1>9 DEF Copies!DynEntry, DynEntry
<1> QED
  BY <1>2, <1>5, <1>10, SameShapes DEF Copies!Assign

(* The tables of a forwarded block and of the call, as Copies has them.    *)
ForwardTables(given, e, s) ==
  [r \in {s, e} |-> IF r = s THEN [n \in Names |-> RunEntry(given, BlockLevel, n)]
                    ELSE [n \in Names |-> CallEntry(given, n)]]

LEMMA ForwardTablesAre ==
  ASSUME TrailInv, NEW e, NEW given, NEW s \in Scopes, NEW compiled, Forward(e, given, s, compiled),
         Copies!Tables(ForwardTables(given, e, s))
  PROVE  Copies!Forward(e, given, s, compiled)
<1> DEFINE b == At(frames, Cur(frames).caller).scope
           block == table[b]
           mine == Copies!Mine
           call == [n \in Names |-> IF n \in DOMAIN given THEN given[n] ELSE mine[n].value]
           run == [n \in Names |->
                     IF n = Children \/ call[n] = Unset THEN block[n]
                     ELSE [block[n] EXCEPT !.value = call[n]]]
           theCall == [n \in Names |-> [mine[n] EXCEPT !.value = call[n]]]
<1>1. /\ frames' = Forwarded(frames, s, e, compiled) /\ Room(frames)
      /\ Cur(frames).caller # NoCaller /\ BlockLevel \in LiveLevels
  BY ForwardPlace
<1>2. b \in Held(frames) /\ BlockLevel = level[b]
  <2>1. FrameInv(frames) /\ TRUE \in BOOLEAN
    BY ParsedInv
  <2> QED
    BY <1>1, <2>1, ForwardFrame DEF BlockLevel
<1> HIDE DEF b
<1>3. block = Shows(store, BlockLevel)
  BY <1>2, Mapped
<1>4. mine = Shows(store, Mine)
  BY MineTable
<1>5. StorageOK(store, LiveLevels)
  BY DEF TrailInv
<1>6. ASSUME NEW n \in Names
      PROVE  /\ block[n] = Find(store, n, BlockLevel) /\ block[n] \in DynEntries
             /\ mine[n] = Find(store, n, Mine) /\ mine[n] \in DynEntries
  BY <1>1, <1>3, <1>4, <1>5, MineLive, FindTyped DEF Shows
<1> HIDE DEF block, mine
<1>7. ASSUME NEW n \in Names PROVE call[n] = CallValue(given, n)
  BY <1>6 DEF CallValue
<1> HIDE DEF call
<1>8. ASSUME NEW n \in Names PROVE run[n] = RunEntry(given, BlockLevel, n)
  <2>1. [block[n] EXCEPT !.value = call[n]] = DynEntry(call[n], block[n].explicitlySet)
    BY <1>6 DEF DynEntries, DynEntry
  <2> QED
    BY <1>6, <1>7, <2>1 DEF RunEntry
<1>9. ASSUME NEW n \in Names PROVE theCall[n] = CallEntry(given, n)
  <2>1. [mine[n] EXCEPT !.value = call[n]] = DynEntry(call[n], mine[n].explicitlySet)
    BY <1>6 DEF DynEntries, DynEntry
  <2> QED
    BY <1>6, <1>7, <2>1 DEF CallEntry
<1>10. /\ run = [n \in Names |-> RunEntry(given, BlockLevel, n)]
       /\ theCall = [n \in Names |-> CallEntry(given, n)]
  BY <1>8, <1>9
<1>11. Copies!Tables([r \in {s, e} |-> IF r = s THEN run ELSE theCall])
  BY <1>10 DEF ForwardTables
<1> QED
  BY <1>1, <1>11, SameShapes, SameFrames DEF Copies!Forward, b, block, mine, call

LEMMA RunsBlockTable ==
  ASSUME TrailInv, NEW s \in Fresh(frames), NEW e, NEW given, NEW st, RunsBlock(s, given, st),
         Held(frames') = Held(frames) \cup {s}, e # s,
         e \in Held(frames) => table[e] = [n \in Names |-> CallEntry(given, n)]
  PROVE  Copies!Tables(ForwardTables(given, e, s))
<1> DEFINE run == [n \in Names |-> RunEntry(given, BlockLevel, n)]
           theCall == [n \in Names |-> CallEntry(given, n)]
<1>1. /\ OpenedTrail(st, BlockLevel, Names, run) /\ store' = st /\ GetsLevel(level', s, New(st))
  BY DEF RunsBlock
<1>2. PICK t : t = [n \in Names |-> IF n \in Names THEN run[n] ELSE Find(store, n, BlockLevel)]
  OBVIOUS
<1>3. t = run
  BY <1>2
<1> HIDE DEF run, theCall
<1>4. PICK one : one = Copies!One(s, t)
  OBVIOUS
<1>5. Copies!Tables(one)
  BY <1>1, <1>2, <1>4, OpenedTable
<1>6. DOMAIN one = {s} /\ one[s] = run
  BY <1>3, <1>4 DEF Copies!One
<1>7. PICK both : both = ForwardTables(given, e, s)
  OBVIOUS
<1>8. DOMAIN both = {s, e} /\ both[s] = run /\ both[e] = theCall
  BY <1>7 DEF ForwardTables, run, theCall
<1>9. PICK R : R = Held(frames)
  OBVIOUS
<1>10. table' = [r \in R \cup {s} |-> IF r \in DOMAIN one THEN one[r] ELSE table[r]]
  BY <1>5, <1>9, TablesAre
<1>11. ASSUME NEW r \in R \cup {s}
       PROVE  (IF r \in DOMAIN one THEN one[r] ELSE table[r])
                = IF r \in DOMAIN both THEN both[r] ELSE table[r]
  <2>1. s \notin R /\ (e \in R => table[e] = theCall)
    BY <1>9 DEF Fresh, theCall
  <2>2. CASE r = s
    BY <1>6, <1>8, <2>2
  <2>3. CASE r # s
    BY <1>6, <1>8, <2>1, <2>3
  <2> QED
    BY <2>2, <2>3
<1>12. table' = [r \in R \cup {s} |-> IF r \in DOMAIN both THEN both[r] ELSE table[r]]
  BY ONLY <1>10, <1>11
<1> QED
  BY <1>7, <1>9, <1>12, TablesAre

LEMMA ForwardedHeld ==
  ASSUME TrailInv, NEW s \in Fresh(frames), NEW e \in Scopes, NEW given,
         NEW compiled \in BOOLEAN, Forward(e, given, s, compiled)
  PROVE  Held(frames') = Held(frames) \cup (IF compiled THEN {} ELSE {e}) \cup {s}
<1>1. frames' = Forwarded(frames, s, e, compiled) /\ Cur(frames).caller # NoCaller
  BY ForwardPlace DEF Fresh
<1>2. Held(Forwarded(frames, s, e, compiled))
        = Held(frames) \cup (IF compiled THEN {} ELSE {e}) \cup {s}
  <2> DEFINE c == EvalContext(s, At(frames, Cur(frames).caller).caller, "body")
  <2>1. FrameInv(frames) /\ s \in Scopes
    BY ParsedInv DEF Fresh
  <2>2. c.scope = s /\ IsPushed(frames, Forwarded(frames, s, e, compiled), c,
                                IF compiled THEN {} ELSE {e})
    BY <1>1, <2>1, ForwardFrame
  <2> HIDE DEF c
  <2>3. PICK h : h = IF compiled THEN {} ELSE {e}
    OBVIOUS
  <2> QED
    BY <2>2, <2>3 DEF IsPushed
<1> QED
  BY <1>1, <1>2

LEMMA InterpretedTable ==
  ASSUME TrailInv, NEW s \in Fresh(frames), NEW e \in Fresh(frames) \ {s},
         NEW given, NEW u, NEW le, NEW l3, TwoOpened(u, le, l3, BlockLevel, given),
         store' = u, level' = [level EXCEPT ![s] = l3, ![e] = le],
         Held(frames') = Held(frames) \cup {e} \cup {s}
  PROVE  Copies!Tables(ForwardTables(given, e, s))
<1> DEFINE run == [n \in Names |-> RunEntry(given, BlockLevel, n)]
           theCall == [n \in Names |-> CallEntry(given, n)]
<1>1. PICK kv : kv = level'
  OBVIOUS
<1>2. PICK R : R = Held(frames)
  OBVIOUS
<1>3. /\ s \in Scopes /\ e \in Scopes /\ s # e /\ e \notin R /\ s \notin R /\ R \subseteq Scopes
      /\ level \in [Scopes -> Nat]
  BY <1>2, ParsedInv, HeldScopes DEF Fresh, FrameInv
<1>4. kv[s] = l3 /\ kv[e] = le /\ \A r \in R : kv[r] = level[r]
  BY ONLY <1>1, <1>3, level' = [level EXCEPT ![s] = l3, ![e] = le]
<1>5. Shows(u, kv[s]) = run /\ Shows(u, kv[e]) = theCall
  BY <1>4 DEF TwoOpened, Shows
<1>6. ASSUME NEW r \in R PROVE Shows(u, kv[r]) = table[r]
  <2>1. \A n \in Names : Find(u, n, level[r]) = Find(store, n, level[r])
    BY <1>2 DEF TwoOpened, KeepsView
  <2>2. table[r] = Shows(store, level[r])
    BY <1>2, Mapped
  <2> QED
    BY <1>4, <2>1, <2>2 DEF Shows
<1>7. table' = [r \in R \cup {e} \cup {s} |-> Shows(u, kv[r])]
  BY <1>1, <1>2, Mapped
<1>8. PICK both : both = ForwardTables(given, e, s)
  OBVIOUS
<1>9. DOMAIN both = {s, e} /\ both[s] = run /\ both[e] = theCall
  BY <1>3, <1>8 DEF ForwardTables
<1> HIDE DEF run, theCall
<1>10. ASSUME NEW r \in R \cup {e} \cup {s}
       PROVE  Shows(u, kv[r]) = IF r \in DOMAIN both THEN both[r] ELSE table[r]
  <2>1. CASE r \in {s, e}
    BY <1>5, <1>9, <2>1
  <2>2. CASE r \notin {s, e}
    BY <1>6, <1>9, <2>2
  <2> QED
    BY <2>1, <2>2
<1>11. table' = [r \in R \cup {e} \cup {s} |-> IF r \in DOMAIN both THEN both[r] ELSE table[r]]
  BY ONLY <1>7, <1>10
<1> QED
  BY <1>2, <1>8, <1>11, TablesAre

LEMMA ForwardMaps ==
  ASSUME TrailInv, NEW s \in Fresh(frames), NEW compiled \in BOOLEAN,
         NEW e, NEW given, Forward(e, given, s, compiled),
         \/ e = Cur(frames).scope /\ DOMAIN given = {}
         \/ e \in Fresh(frames) \ {s} /\ \A n \in DOMAIN given : given[n] \in Values
  PROVE  Copies!Forward(e, given, s, compiled)
<1>0. s \in Scopes /\ s \notin Held(frames)
  BY DEF Fresh
<1>1. CASE e = Cur(frames).scope /\ DOMAIN given = {}
  <2>1. PICK st : RunsBlock(s, given, st)
    BY <1>1, ForwardOwnSteps
  <2>2. e \in Held(frames) /\ e \in Scopes
    BY <1>1, ParsedInv, ShapeFacts DEF Contexts
  <2>3. Held(frames') = Held(frames) \cup {s}
    <3>1. Held(frames') = Held(frames) \cup (IF compiled THEN {} ELSE {e}) \cup {s}
      BY <2>2, ForwardedHeld
    <3> QED
      BY <2>2, <3>1
  <2>4. table[e] = [n \in Names |-> CallEntry(given, n)]
    <3>1. table[e] = Shows(store, Mine)
      BY <1>1, <2>2, Mapped DEF Mine
    <3>2. ASSUME NEW n \in Names PROVE Find(store, n, Mine) = CallEntry(given, n)
      <4>1. StorageOK(store, LiveLevels)
        BY DEF TrailInv
      <4>2. Find(store, n, Mine) \in DynEntries
        BY <4>1, MineLive, FindTyped
      <4> QED
        BY <1>1, <4>2 DEF CallEntry, CallValue, DynEntries, DynEntry
    <3> QED
      BY <3>1, <3>2 DEF Shows
  <2>5. Copies!Tables(ForwardTables(given, e, s))
    BY <1>0, <2>1, <2>2, <2>3, <2>4, RunsBlockTable
  <2> QED
    BY <1>0, <2>5, ForwardTablesAre
<1>2. CASE e \in Fresh(frames) \ {s} /\ \A n \in DOMAIN given : given[n] \in Values
  <2>0. e \in Scopes /\ e \notin Held(frames) /\ e # s
    BY <1>2 DEF Fresh
  <2>1. CASE compiled
    <3>1. Forward(e, given, s, TRUE)
      BY <2>1
    <3>2. PICK st : RunsBlock(s, given, st)
      BY <1>2, <3>1, ForwardCompiledSteps
    <3>3. Held(frames') = Held(frames) \cup {s}
      <4>1. Held(frames') = Held(frames) \cup (IF compiled THEN {} ELSE {e}) \cup {s}
        BY <2>0, ForwardedHeld
      <4> QED
        BY <2>1, <4>1
    <3>4. Copies!Tables(ForwardTables(given, e, s))
      BY <2>0, <3>2, <3>3, RunsBlockTable
    <3> QED
      BY <1>0, <3>4, ForwardTablesAre
  <2>2. CASE ~compiled
    <3>1. PICK u, le, l3 :
            /\ TwoOpened(u, le, l3, BlockLevel, given)
            /\ store' = IF compiled THEN Popped(u, le) ELSE u
            /\ level' = [level EXCEPT ![s] = l3, ![e] = IF compiled THEN 0 ELSE le]
      BY <1>2, ForwardCallSteps
    <3>2. store' = u /\ level' = [level EXCEPT ![s] = l3, ![e] = le]
      BY <2>2, <3>1
    <3>3. Held(frames') = Held(frames) \cup {e} \cup {s}
      <4>1. Held(frames') = Held(frames) \cup (IF compiled THEN {} ELSE {e}) \cup {s}
        BY <2>0, ForwardedHeld
      <4> QED
        BY <2>2, <4>1
    <3>4. Copies!Tables(ForwardTables(given, e, s))
      BY <1>2, <3>1, <3>2, <3>3, InterpretedTable
    <3> QED
      BY <1>0, <3>4, ForwardTablesAre
  <2> QED
    BY <2>1, <2>2
<1> QED
  BY <1>1, <1>2

LEMMA SeedShown ==
  ASSUME NEW st,
         st = [parent |-> << 0 >>,
               stacks |-> [n \in Names |->
                             IF Seed[n] = Unset THEN << >>
                             ELSE << Entry(DynEntry(Seed[n], FALSE), 1) >>]],
         NEW n \in Names
  PROVE  Find(st, n, 1) = DynEntry(Seed[n], FALSE)
<1> DEFINE p == st.parent
           s == st.stacks[n]
           e == DynEntry(Seed[n], FALSE)
<1>1. StorageOK(st, {1}) /\ p[1] = 0
  BY SeedStorage
<1>2. Chained(p) /\ Leveled(s) /\ Ascending(s) /\ 1 \in 1 .. Len(p)
  BY <1>1, StorageFacts
<1>3. Find(st, n, 1) = Shown(p, s, 1, NoEntry)
  BY FindIsShown
<1>4. CASE Seed[n] = Unset
  <2>1. s = << >>
    BY <1>4
  <2>2. Bare(s, 1)
    <3>1. PICK q : q = << >>
      OBVIOUS
    <3>2. 1 .. Len(q) = {}
      BY <3>1
    <3>3. Bare(q, 1)
      BY <3>2 DEF Bare
    <3> HIDE DEF s
    <3> QED
      BY <2>1, <3>1, <3>3
  <2> HIDE DEF p, s
  <2>3. PICK l : l = 1
    OBVIOUS
  <2>4. PICK none : none = NoEntry
    OBVIOUS
  <2>5. Shown(p, s, l, none) = Shown(p, s, p[l], none)
    BY <1>2, <2>2, <2>3, ShownAbove
  <2>6. Shown(p, s, p[l], none) = none
    BY <1>1, <1>2, <2>3, ShownNone
  <2> QED
    BY <1>3, <1>4, <2>3, <2>4, <2>5, <2>6 DEF NoEntry
<1>5. CASE Seed[n] # Unset
  <2>1. s = << Entry(e, 1) >>
    BY <1>5
  <2> HIDE DEF p, s, e
  <2>2. Holds(s, 1, e)
    <3>1. Len(s) = 1 /\ s[1].level = 1 /\ s[1].value = e
      BY <2>1 DEF Entry
    <3> QED
      BY <3>1 DEF Holds
  <2>3. PICK l : l = 1
    OBVIOUS
  <2>4. PICK none : none = NoEntry
    OBVIOUS
  <2>5. Shown(p, s, l, none) = e
    BY <1>2, <2>2, <2>3, ShownHere
  <2> QED
    BY <1>3, <2>3, <2>4, <2>5 DEF e
<1> QED
  BY <1>4, <1>5

LEMMA InitMaps == ASSUME Init PROVE Copies!Init
<1>1. PICK r \in Scopes :
        /\ frames = << Frame("root", EvalContext(r, NoCaller, "body"), {}) >>
        /\ level = [s \in Scopes |-> IF s = r THEN 1 ELSE 0]
        /\ store =
             [parent |-> << 0 >>,
              stacks |-> [n \in Names |->
                            IF Seed[n] = Unset THEN << >>
                            ELSE << Entry(DynEntry(Seed[n], FALSE), 1) >>]]
  BY DEF Init
<1>2. Held(frames) = {r}
  <2>1. PICK f : f = Frame("root", EvalContext(r, NoCaller, "body"), {})
    OBVIOUS
  <2>2. frames = << f >>
    BY <1>1, <2>1
  <2>3. ScopesOf(f) = {r}
    <3>1. PICK c : c = EvalContext(r, NoCaller, "body")
      OBVIOUS
    <3>2. f.chain = << c >> /\ f.held = {} /\ c.scope = r
      BY <2>1, <3>1 DEF Frame, EvalContext
    <3>3. PICK ch : ch = << c >>
      OBVIOUS
    <3>4. DOMAIN ch = {1} /\ ch[1] = c
      BY <3>3
    <3> QED
      BY <3>2, <3>3, <3>4 DEF ScopesOf
  <2>4. PICK fs : fs = << f >>
    OBVIOUS
  <2>5. DOMAIN fs = {1} /\ fs[1] = f
    BY <2>4
  <2>6. Held(fs) = {r}
    BY <2>3, <2>5 DEF Held
  <2> QED
    BY <2>2, <2>4, <2>6
<1>3. level[r] = 1
  BY <1>1
<1>4. PICK st : st = store
  OBVIOUS
<1>5. \A n \in Names : Find(st, n, 1) = DynEntry(Seed[n], FALSE)
  BY <1>1, <1>4, SeedShown
<1>6. Shows(st, 1) = [n \in Names |-> Copies!DynEntry(Seed[n], FALSE)]
  BY <1>5 DEF Shows, Copies!DynEntry, DynEntry
<1>7. table = [s \in {r} |-> Shows(st, level[s])]
  BY <1>2, <1>4, Mapped
<1>8. table = Copies!One(r, [n \in Names |-> Copies!DynEntry(Seed[n], FALSE)])
  <2>1. PICK t : t = [n \in Names |-> Copies!DynEntry(Seed[n], FALSE)]
    OBVIOUS
  <2>2. table = [s \in {r} |-> t]
    BY <1>3, <1>6, <1>7, <2>1
  <2> QED
    BY <2>1, <2>2 DEF Copies!One
<1>9. frames = << Copies!Frame("root", Copies!EvalContext(r, Copies!NoCaller, "body"), {}) >>
  BY <1>1 DEF Copies!Frame, Frame, Copies!EvalContext, EvalContext, Copies!NoCaller, NoCaller
<1> QED
  BY <1>8, <1>9 DEF Copies!Init

(* Reading a $-variable through the trail gives what copying every table   *)
(* at every scope opening would give: each action of DynTrail is the       *)
(* action of the same name of DynamicScoping.                              *)
THEOREM ScopingIsDynamic == Spec => ImplementsDynamicScoping
<1>1. Init => Copies!Init
  BY InitMaps
<1>2. TrailInv /\ [Next]_vars => [Copies!Next]_(Copies!vars)
  <2> SUFFICES ASSUME TrailInv, [Next]_vars PROVE [Copies!Next]_(Copies!vars)
    OBVIOUS
  <2>0. Copies!Fresh(frames) = Fresh(frames) /\ Copies!Cur(frames) = Cur(frames)
    BY SameShapes
  <2>1. CASE \E s \in Fresh(frames), x \in Values : \E n \in Names \ {Children} : Call(s, n, x)
    <3>1. \E s \in Fresh(frames), x \in Values :
            \E n \in Names \ {Children} : Copies!Call(s, n, x)
      BY <2>1, CallMaps
    <3> QED
      BY <2>0, <3>1 DEF Copies!Next
  <2>2. CASE \E s \in Fresh(frames), x \in Values : CallModule(s, x)
    <3>1. \E s \in Fresh(frames), x \in Values : Copies!CallModule(s, x)
      BY <2>2, CallModuleMaps
    <3> QED
      BY <2>0, <3>1 DEF Copies!Next
  <2>3. CASE \E s \in Fresh(frames), x \in Values :
               \E n \in Names \ {Children} : TailHop(s, n, x)
    <3>1. \E s \in Fresh(frames), x \in Values :
            \E n \in Names \ {Children} : Copies!TailHop(s, n, x)
      BY <2>3, TailHopMaps
    <3> QED
      BY <2>0, <3>1 DEF Copies!Next
  <2>4. CASE \E s \in Fresh(frames) : OpenScope(s)
    <3>1. \E s \in Fresh(frames) : Copies!OpenScope(s)
      BY <2>4, OpenScopeMaps
    <3> QED
      BY <2>0, <3>1 DEF Copies!Next
  <2>5. CASE CopyContext
    BY <2>5, CopyContextMaps DEF Copies!Next
  <2>6. CASE CloseScope
    BY <2>6, CloseScopeMaps DEF Copies!Next
  <2>7. CASE \E n \in Names \ {Children}, x \in Values : Assign(n, x)
    <3>1. \E n \in Names \ {Children}, x \in Values : Copies!Assign(n, x)
      BY <2>7, AssignMaps
    <3> QED
      BY <3>1 DEF Copies!Next
  <2>8. CASE \E s \in Fresh(frames), compiled \in BOOLEAN :
               \/ Forward(Cur(frames).scope, << >>, s, compiled)
               \/ \E e \in Fresh(frames) \ {s}, n \in Names \ {Children}, x \in Values :
                    Forward(e, [m \in {n} |-> x], s, compiled)
    <3>1. PICK s \in Fresh(frames), compiled \in BOOLEAN :
            \/ Forward(Cur(frames).scope, << >>, s, compiled)
            \/ \E e \in Fresh(frames) \ {s}, n \in Names \ {Children}, x \in Values :
                 Forward(e, [m \in {n} |-> x], s, compiled)
      BY <2>8
    <3>2. CASE Forward(Cur(frames).scope, << >>, s, compiled)
      <4>1. PICK given : given = << >>
        OBVIOUS
      <4>2. DOMAIN given = {}
        BY <4>1
      <4>3. Forward(Cur(frames).scope, given, s, compiled)
        BY <3>2, <4>1
      <4>4. Copies!Forward(Cur(frames).scope, given, s, compiled)
        BY <4>2, <4>3, ForwardMaps
      <4>5. Copies!Forward(Copies!Cur(frames).scope, << >>, s, compiled)
        BY <2>0, <4>1, <4>4
      <4> QED
        BY <2>0, <4>5 DEF Copies!Next
    <3>3. CASE \E e \in Fresh(frames) \ {s}, n \in Names \ {Children}, x \in Values :
                 Forward(e, [m \in {n} |-> x], s, compiled)
      <4>1. PICK e \in Fresh(frames) \ {s}, n \in Names \ {Children}, x \in Values :
              Forward(e, [m \in {n} |-> x], s, compiled)
        BY <3>3
      <4>2. PICK given : given = [m \in {n} |-> x]
        OBVIOUS
      <4>3. \A m \in DOMAIN given : given[m] \in Values
        BY <4>2
      <4>4. Forward(e, given, s, compiled)
        BY <4>1, <4>2
      <4>5. Copies!Forward(e, given, s, compiled)
        BY <4>3, <4>4, ForwardMaps
      <4>6. Copies!Forward(e, [m \in {n} |-> x], s, compiled)
        BY <4>2, <4>5
      <4>7. s \in Copies!Fresh(frames) /\ e \in Copies!Fresh(frames) \ {s}
        BY <2>0
      <4>8. \E ee \in Copies!Fresh(frames) \ {s}, nn \in Names \ {Children}, xx \in Values :
              Copies!Forward(ee, [m \in {nn} |-> xx], s, compiled)
        BY ONLY <4>6, <4>7, n \in Names \ {Children}, x \in Values, Zenon
      <4>9. \E ss \in Copies!Fresh(frames), cc \in BOOLEAN :
              \/ Copies!Forward(Copies!Cur(frames).scope, << >>, ss, cc)
              \/ \E ee \in Copies!Fresh(frames) \ {ss}, nn \in Names \ {Children}, xx \in Values :
                   Copies!Forward(ee, [m \in {nn} |-> xx], ss, cc)
        BY ONLY <4>7, <4>8, compiled \in BOOLEAN, Zenon
      <4> QED
        BY ONLY <4>9, Zenon DEF Copies!Next
    <3> QED
      BY <3>1, <3>2, <3>3
  <2>9. CASE Leave
    BY <2>9, LeaveMaps DEF Copies!Next
  <2>10. CASE UNCHANGED vars
    <3>1. frames' = frames /\ store' = store /\ level' = level
      BY <2>10 DEF vars
    <3>2. table' = table
      BY <3>1, Mapped
    <3> QED
      BY <3>1, <3>2 DEF Copies!vars
  <2> QED
    BY <2>1, <2>2, <2>3, <2>4, <2>5, <2>6, <2>7, <2>8, <2>9, <2>10 DEF Next
<1> QED
  BY <1>1, <1>2, Invariance, PTL DEF Spec, ImplementsDynamicScoping, Copies!Spec
=====
