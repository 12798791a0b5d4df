------------------------- MODULE TrailStorageProofs -------------------------
(***************************************************************************)
(* What the operators of TrailStorage do, for every trail: lemmas for the  *)
(* proofs about the trail of plain variables (ScopeTrailProofs) and that   *)
(* of $-variables (DynTrailProofs).                                        *)
(***************************************************************************)
EXTENDS TrailStorage, FiniteSetTheorems, NaturalsInduction, WellFoundedInduction, TLAPS

-----------------------------------------------------------------------------
(* Numbers.                                                                *)

(* A set of numbers that has a member has a least one.                     *)
LEMMA LeastNumber ==
  ASSUME NEW T, T \subseteq Nat, T # {}
  PROVE  \E x \in T : \A y \in T : x <= y
<1>1. \E x \in T : \A y \in T : ~ (<< y, x >> \in OpToRel(<, Nat))
  BY NatLessThanWellFounded, WFMin
<1>2. PICK x \in T : \A y \in T : ~ (<< y, x >> \in OpToRel(<, Nat))
  BY <1>1
<1>3. ASSUME NEW y \in T PROVE x <= y
  <2>1. x \in Nat /\ y \in Nat
    OBVIOUS
  <2>2. << y, x >> \notin OpToRel(<, Nat)
    BY <1>2
  <2>3. ~ (y < x)
    BY <2>1, <2>2, SMT DEF OpToRel
  <2> QED
    BY <2>1, <2>3
<1> QED
  BY <1>3

(* A set with 0 and each member's successor holds every number.            *)
LEMMA Induction ==
  ASSUME NEW S, 0 \in S, \A k \in Nat : k \in S => k + 1 \in S
  PROVE  \A k \in Nat : k \in S
<1> DEFINE Bad == {k \in Nat : k \notin S}
<1>1. SUFFICES ASSUME Bad # {} PROVE FALSE
  OBVIOUS
<1>2. PICK k \in Bad : \A y \in Bad : k <= y
  <2>1. Bad \subseteq Nat
    OBVIOUS
  <2> HIDE DEF Bad
  <2> QED
    BY <1>1, <2>1, LeastNumber
<1>3. k \in Nat /\ k \notin S /\ k - 1 \in Nat /\ (k - 1) + 1 = k
  BY <1>2
<1>4. k - 1 \in S
  BY <1>2, <1>3
<1> QED
  BY <1>3, <1>4

(* A set of numbers below a bound that has a member has a greatest one.    *)
LEMMA GreatestNumber ==
  ASSUME NEW T, NEW b \in Nat, T \subseteq 0 .. b, T # {}
  PROVE  \E x \in T : \A y \in T : y <= x
<1> DEFINE Over == {n \in Nat : \A y \in T : y <= n}
<1>1. b \in Over
  OBVIOUS
<1>2. PICK x \in Over : \A y \in Over : x <= y
  <2>1. Over \subseteq Nat
    OBVIOUS
  <2> HIDE DEF Over
  <2> QED
    BY <1>1, <2>1, LeastNumber
<1>3. x \in Nat /\ \A y \in T : y <= x
  BY <1>2
<1>4. x \in T
  <2> SUFFICES ASSUME x \notin T PROVE FALSE
    OBVIOUS
  <2>1. ASSUME NEW y \in T PROVE y \in Nat /\ y <= x - 1
    <3>1. y \in Nat /\ y <= x /\ y # x
      BY <1>3
    <3> QED
      BY <3>1, <1>3
  <2>2. x - 1 \in Nat
    <3>1. PICK y \in T : TRUE
      OBVIOUS
    <3>2. y \in Nat /\ y <= x - 1
      BY <2>1
    <3> QED
      BY <1>3, <3>2
  <2>3. x - 1 \in Over
    BY <2>1, <2>2
  <2> QED
    BY <1>2, <1>3, <2>3
<1> QED
  BY <1>3, <1>4

-----------------------------------------------------------------------------
(* lookup.                                                                 *)

(* The parents of a trail: every level continues an older one.             *)
Chained(p) == Len(p) \in Nat /\ \A a \in 1 .. Len(p) : p[a] \in -1 .. (a - 1)

(* A stack whose entries carry levels.                                     *)
Leveled(s) == Len(s) \in Nat /\ \A i \in 1 .. Len(s) : s[i].level \in Nat \ {0}

(* One step of the walk of lookup: from level a and entry i on.            *)
WalkStep(p, s, w, a, i) ==
  IF a <= 0 \/ i = 0 THEN 0
  ELSE IF s[i].level > a THEN w[<< a, i - 1 >>]
  ELSE IF s[i].level = a THEN i
  ELSE w[<< p[a], i >>]

Places(p, s) == ({Dead} \cup 0 .. Len(p)) \X (0 .. Len(s))
IsWalk(p, s, w) == w = [at \in Places(p, s) |-> WalkStep(p, s, w, at[1], at[2])]
Walk(p, s) == CHOOSE w : IsWalk(p, s, w)

LEMMA LookupIsWalk ==
  ASSUME NEW p, NEW s, NEW l
  PROVE  Lookup(p, s, l) = Walk(p, s)[<< l, Len(s) >>]
BY DEF Lookup, Walk, IsWalk, WalkStep, Places

(* The walk ends: there is a function that satisfies its equation.         *)
WalksTo(p, s, m, w) ==
  \A a \in {Dead} \cup 0 .. Len(p), i \in 0 .. Len(s) :
    a + i < m => w[<< a, i >>] = WalkStep(p, s, w, a, i)

LEMMA WalkFurther ==
  ASSUME NEW p, NEW s, Chained(p), Leveled(s), NEW m \in Nat, NEW w, WalksTo(p, s, m, w)
  PROVE  \E v : WalksTo(p, s, m + 1, v)
<1> DEFINE v == [at \in Places(p, s) |-> IF at[1] + at[2] < m THEN w[at]
                                        ELSE WalkStep(p, s, w, at[1], at[2])]
<1>1. ASSUME NEW a \in {Dead} \cup 0 .. Len(p), NEW i \in 0 .. Len(s)
      PROVE  v[<< a, i >>] = IF a + i < m THEN w[<< a, i >>] ELSE WalkStep(p, s, w, a, i)
  BY DEF Places
<1> HIDE DEF v
<1>2. ASSUME NEW a \in {Dead} \cup 0 .. Len(p), NEW i \in 0 .. Len(s), a + i < m + 1
      PROVE  v[<< a, i >>] = WalkStep(p, s, v, a, i)
  <2>1. v[<< a, i >>] = WalkStep(p, s, w, a, i)
    BY <1>1 DEF WalksTo
  <2>2. CASE a <= 0 \/ i = 0
    BY <2>1, <2>2 DEF WalkStep
  <2>3. CASE ~ (a <= 0 \/ i = 0)
    <3>1. a \in 1 .. Len(p) /\ i \in 1 .. Len(s) /\ p[a] \in -1 .. (a - 1)
      BY <2>3 DEF Chained, Dead
    <3>2. a \in {Dead} \cup 0 .. Len(p) /\ i - 1 \in 0 .. Len(s) /\ a + (i - 1) < m
      BY <3>1, <1>2 DEF Leveled, Chained
    <3>3. p[a] \in {Dead} \cup 0 .. Len(p) /\ i \in 0 .. Len(s) /\ p[a] + i < m
      BY <3>1, <1>2 DEF Leveled, Chained, Dead
    <3>4. v[<< a, i - 1 >>] = w[<< a, i - 1 >>]
      BY <1>1, <3>2
    <3>5. v[<< p[a], i >>] = w[<< p[a], i >>]
      BY <1>1, <3>3
    <3> QED
      BY <2>1, <3>4, <3>5 DEF WalkStep
  <2> QED
    BY <2>2, <2>3
<1>3. WalksTo(p, s, m + 1, v)
  BY <1>2 DEF WalksTo
<1> QED
  BY <1>3

LEMMA WalkExists ==
  ASSUME NEW p, NEW s, Chained(p), Leveled(s)
  PROVE  \A a \in {Dead} \cup 0 .. Len(p), i \in 0 .. Len(s) :
           Walk(p, s)[<< a, i >>] = WalkStep(p, s, Walk(p, s), a, i)
<1> DEFINE M == {m \in Nat : \E w : WalksTo(p, s, m, w)}
<1>0. Len(p) \in Nat /\ Len(s) \in Nat
  BY DEF Chained, Leveled
<1>1. 0 \in M
  <2>1. \E w : WalksTo(p, s, 0, w)
    <3> DEFINE w == [at \in Places(p, s) |-> 0]
    <3>1. ASSUME NEW a \in {Dead} \cup 0 .. Len(p), NEW i \in 0 .. Len(s), a + i < 0
          PROVE  w[<< a, i >>] = WalkStep(p, s, w, a, i)
      <4>1. a <= 0
        BY <3>1, <1>0 DEF Dead
      <4>2. w[<< a, i >>] = 0
        BY DEF Places
      <4> QED
        BY <4>1, <4>2 DEF WalkStep
    <3> QED
      BY <3>1 DEF WalksTo
  <2> QED
    BY <2>1
<1>2. ASSUME NEW m \in Nat, m \in M PROVE m + 1 \in M
  BY <1>2, WalkFurther
<1> HIDE DEF M
<1>3. \A m \in Nat : m \in M
  BY <1>1, <1>2, Induction
<1>4. Len(p) + Len(s) + 1 \in M
  BY <1>0, <1>3
<1>5. PICK w : WalksTo(p, s, Len(p) + Len(s) + 1, w)
  BY <1>4 DEF M
<1> DEFINE v == [at \in Places(p, s) |-> w[at]]
<1>6. ASSUME NEW a \in {Dead} \cup 0 .. Len(p), NEW i \in 0 .. Len(s)
      PROVE  v[<< a, i >>] = w[<< a, i >>]
  BY DEF Places
<1>7. ASSUME NEW a \in {Dead} \cup 0 .. Len(p), NEW i \in 0 .. Len(s)
      PROVE  w[<< a, i >>] = WalkStep(p, s, v, a, i)
  <2>1. w[<< a, i >>] = WalkStep(p, s, w, a, i)
    BY <1>0, <1>5 DEF WalksTo, Dead
  <2>2. CASE a <= 0 \/ i = 0
    BY <2>1, <2>2 DEF WalkStep
  <2>3. CASE ~ (a <= 0 \/ i = 0)
    <3>1. a \in 1 .. Len(p) /\ i \in 1 .. Len(s) /\ p[a] \in -1 .. (a - 1)
      BY <2>3 DEF Chained, Dead
    <3>2. i - 1 \in 0 .. Len(s) /\ p[a] \in {Dead} \cup 0 .. Len(p)
      BY <3>1, <1>0 DEF Dead
    <3>3. v[<< a, i - 1 >>] = w[<< a, i - 1 >>] /\ v[<< p[a], i >>] = w[<< p[a], i >>]
      BY <1>6, <3>2
    <3> HIDE DEF v
    <3> QED
      BY <2>1, <3>3 DEF WalkStep
  <2> QED
    BY <2>2, <2>3
<1>8. IsWalk(p, s, v)
  <2>1. ASSUME NEW at \in Places(p, s) PROVE w[at] = WalkStep(p, s, v, at[1], at[2])
    <3>1. at[1] \in {Dead} \cup 0 .. Len(p) /\ at[2] \in 0 .. Len(s) /\ at = << at[1], at[2] >>
      BY DEF Places
    <3> QED
      BY <1>7, <3>1
  <2> QED
    BY <2>1, Zenon DEF IsWalk
<1>9. IsWalk(p, s, Walk(p, s))
  BY <1>8, Zenon DEF Walk
<1> HIDE DEF v
<1> DEFINE u == Walk(p, s)
<1>10. u = [at \in Places(p, s) |-> WalkStep(p, s, u, at[1], at[2])]
  BY <1>9 DEF IsWalk
<1> HIDE DEF u
<1>11. ASSUME NEW a \in {Dead} \cup 0 .. Len(p), NEW i \in 0 .. Len(s)
       PROVE  u[<< a, i >>] = WalkStep(p, s, u, a, i)
  <2>1. << a, i >> \in Places(p, s)
    BY DEF Places
  <2> QED
    BY <1>10, <2>1, Zenon
<1> QED
  BY <1>11 DEF u

(* The walk passes over the entries of levels newer than the one it is at. *)
LEMMA WalkSkips ==
  ASSUME NEW p, NEW s, Chained(p), Leveled(s), NEW a \in 1 .. Len(p), NEW k \in 0 .. Len(s),
         \A j \in (k + 1) .. Len(s) : s[j].level > a
  PROVE  Walk(p, s)[<< a, Len(s) >>] = Walk(p, s)[<< a, k >>]
<1> DEFINE W(i) == Walk(p, s)[<< a, i >>]
           T == {d \in Nat : d <= Len(s) - k => W(Len(s)) = W(Len(s) - d)}
<1>0. Len(s) \in Nat /\ a \in {Dead} \cup 0 .. Len(p) /\ Len(p) \in Nat
  BY DEF Chained, Leveled
<1>1. 0 \in T
  BY <1>0
<1>2. ASSUME NEW d \in Nat, d \in T PROVE d + 1 \in T
  <2> SUFFICES ASSUME d + 1 <= Len(s) - k PROVE W(Len(s)) = W(Len(s) - (d + 1))
    BY <1>2
  <2>0. Len(s) - d \in 1 .. Len(s) /\ Len(s) - d \in (k + 1) .. Len(s)
    BY <1>0
  <2>1. PICK i \in 1 .. Len(s) : i = Len(s) - d /\ i \in (k + 1) .. Len(s)
    BY <2>0
  <2>2. W(Len(s)) = W(i)
    BY <1>0, <1>2, <2>1
  <2>3. W(i) = W(i - 1)
    <3>1. s[i].level > a /\ i \in 0 .. Len(s) /\ a > 0
      BY <2>1, <1>0
    <3>2. W(i) = WalkStep(p, s, Walk(p, s), a, i)
      BY <1>0, <3>1, WalkExists
    <3> QED
      BY <3>1, <3>2, <2>1 DEF WalkStep
  <2>4. i - 1 = Len(s) - (d + 1)
    BY <1>0, <2>1
  <2> HIDE DEF W
  <2> QED
    BY <2>2, <2>3, <2>4
<1> HIDE DEF T
<1>3. \A d \in Nat : d \in T
  BY <1>1, <1>2, Induction
<1>4. Len(s) - k \in T
  BY <1>0, <1>3
<1>5. Len(s) - (Len(s) - k) = k
  BY <1>0
<1>6. W(Len(s)) = W(Len(s) - (Len(s) - k))
  BY <1>0, <1>4 DEF T
<1> QED
  BY <1>5, <1>6

(* No level, no entry.                                                     *)
LEMMA LookupNone ==
  ASSUME NEW p, NEW s, Chained(p), Leveled(s), NEW l \in {Dead, 0}
  PROVE  Lookup(p, s, l) = 0
<1>1. l \in {Dead} \cup 0 .. Len(p) /\ Len(s) \in 0 .. Len(s) /\ l <= 0
  BY DEF Chained, Leveled, Dead
<1>2. Walk(p, s)[<< l, Len(s) >>] = WalkStep(p, s, Walk(p, s), l, Len(s))
  BY <1>1, WalkExists
<1>3. Walk(p, s)[<< l, Len(s) >>] = 0
  BY <1>1, <1>2 DEF WalkStep
<1> QED
  BY <1>3, LookupIsWalk

(* The innermost entry of the reading level itself is found.               *)
LEMMA LookupHere ==
  ASSUME NEW p, NEW s, Chained(p), Leveled(s), Ascending(s),
         NEW l \in 1 .. Len(p), NEW i \in 1 .. Len(s), s[i].level = l
  PROVE  Lookup(p, s, l) = i
<1>1. ASSUME NEW j \in (i + 1) .. Len(s) PROVE s[j].level > l
  <2>1. j \in 1 .. Len(s) /\ i < j
    BY DEF Leveled
  <2> QED
    BY <2>1 DEF Ascending, Leveled
<1>2. i \in 0 .. Len(s) /\ l \in {Dead} \cup 0 .. Len(p) /\ l > 0 /\ i # 0
  BY DEF Leveled, Chained
<1>3. Walk(p, s)[<< l, Len(s) >>] = Walk(p, s)[<< l, i >>]
  BY <1>1, <1>2, WalkSkips
<1>4. Walk(p, s)[<< l, i >>] = WalkStep(p, s, Walk(p, s), l, i)
  BY <1>2, WalkExists
<1>5. Walk(p, s)[<< l, i >>] = i
  BY <1>2, <1>4 DEF WalkStep
<1> QED
  BY <1>3, <1>5, LookupIsWalk

(* A level without an entry of its own shows what its parent shows.        *)
LEMMA LookupAbove ==
  ASSUME NEW p, NEW s, Chained(p), Leveled(s), Ascending(s),
         NEW l \in 1 .. Len(p), \A i \in 1 .. Len(s) : s[i].level # l
  PROVE  Lookup(p, s, l) = Lookup(p, s, p[l])
<1> DEFINE n == Len(s)
           Below == {i \in 1 .. n : s[i].level < l}
           W(a, i) == Walk(p, s)[<< a, i >>]
<1>0. /\ n \in Nat /\ Len(p) \in Nat /\ l \in Nat /\ l > 0
      /\ p[l] \in -1 .. (l - 1) /\ p[l] \in {Dead} \cup 0 .. Len(p)
      /\ l \in {Dead} \cup 0 .. Len(p)
  BY DEF Chained, Leveled, Dead
<1>1. PICK k \in 0 .. n : /\ \A j \in (k + 1) .. n : s[j].level > l
                          /\ k # 0 => s[k].level < l
  <2>1. CASE Below = {}
    <3>1. \A j \in 1 .. n : s[j].level > l
      BY <2>1, <1>0 DEF Leveled
    <3>2. 0 \in 0 .. n /\ 0 + 1 = 1
      BY <1>0
    <3> QED
      BY <3>1, <3>2
  <2>2. CASE Below # {}
    <3>1. Below \subseteq 0 .. n
      OBVIOUS
    <3>2. PICK k \in Below : \A y \in Below : y <= k
      <4> HIDE DEF Below
      <4> QED
        BY <2>2, <3>1, <1>0, GreatestNumber
    <3>3. ASSUME NEW j \in (k + 1) .. n PROVE s[j].level > l
      <4>1. j \in 1 .. n /\ j \notin Below
        BY <3>2, <1>0
      <4> QED
        BY <4>1, <1>0 DEF Leveled
    <3> QED
      BY <3>2, <3>3
  <2> QED
    BY <2>1, <2>2
<1>2. W(l, n) = W(l, k)
  BY <1>1, WalkSkips
<1>3. W(l, k) = WalkStep(p, s, Walk(p, s), l, k)
  BY <1>0, <1>1, WalkExists
<1>4. CASE k = 0
  <2>1. W(l, n) = 0
    BY <1>2, <1>3, <1>4 DEF WalkStep
  <2>2. CASE p[l] <= 0
    <3>1. p[l] \in {Dead, 0}
      BY <2>2, <1>0 DEF Dead
    <3> QED
      BY <2>1, <3>1, LookupNone, LookupIsWalk
  <2>3. CASE p[l] > 0
    <3>1. p[l] \in 1 .. Len(p)
      BY <1>0, <2>3 DEF Dead
    <3>2. ASSUME NEW j \in (k + 1) .. n PROVE s[j].level > p[l]
      <4>1. j \in 1 .. n /\ s[j].level > l
        BY <1>1, <1>4
      <4> QED
        BY <4>1, <1>0 DEF Leveled
    <3>3. W(p[l], n) = W(p[l], k)
      BY <3>1, <3>2, <1>1, WalkSkips
    <3>4. W(p[l], k) = WalkStep(p, s, Walk(p, s), p[l], k)
      BY <1>0, <1>1, WalkExists
    <3>5. W(p[l], n) = 0
      BY <3>3, <3>4, <1>4 DEF WalkStep
    <3> QED
      BY <2>1, <3>5, LookupIsWalk
  <2> QED
    BY <2>2, <2>3, <1>0
<1>5. CASE k # 0
  <2>1. s[k].level < l /\ k \in 1 .. n /\ s[k].level \in Nat \ {0}
    BY <1>1, <1>5, <1>0 DEF Leveled
  <2>2. W(l, n) = W(p[l], k)
    BY <1>2, <1>3, <1>0, <2>1 DEF WalkStep
  <2>3. CASE p[l] <= 0
    <3>1. p[l] \in {Dead, 0}
      BY <2>3, <1>0 DEF Dead
    <3>2. W(p[l], k) = WalkStep(p, s, Walk(p, s), p[l], k)
      BY <1>0, <1>1, WalkExists
    <3>3. W(p[l], k) = 0
      BY <3>2, <2>3 DEF WalkStep
    <3> QED
      BY <2>2, <3>1, <3>3, LookupNone, LookupIsWalk
  <2>4. CASE p[l] > 0
    <3>1. p[l] \in 1 .. Len(p)
      BY <1>0, <2>4 DEF Dead
    <3>2. ASSUME NEW j \in (k + 1) .. n PROVE s[j].level > p[l]
      <4>1. s[j].level > l /\ j \in 1 .. n
        BY <1>1, <1>0
      <4> QED
        BY <4>1, <1>0 DEF Leveled
    <3>3. W(p[l], n) = W(p[l], k)
      BY <3>1, <3>2, <1>1, WalkSkips
    <3> QED
      BY <2>2, <3>3, LookupIsWalk
  <2> QED
    BY <2>3, <2>4, <1>0
<1> QED
  BY <1>4, <1>5

(* What the stack of a name shows at a level, none standing for nothing;   *)
(* whether it holds an entry of a level with a value.                      *)
Shown(p, s, l, none) == LET i == Lookup(p, s, l) IN IF i = 0 THEN none ELSE s[i].value
Holds(s, l, v) == \E i \in 1 .. Len(s) : s[i].level = l /\ s[i].value = v
Bare(s, l) == \A i \in 1 .. Len(s) : s[i].level # l

LEMMA ShownHere ==
  ASSUME NEW p, NEW s, Chained(p), Leveled(s), Ascending(s),
         NEW l \in 1 .. Len(p), NEW v, NEW none, Holds(s, l, v)
  PROVE  Shown(p, s, l, none) = v
<1>1. PICK i \in 1 .. Len(s) : s[i].level = l /\ s[i].value = v
  BY DEF Holds
<1>2. Lookup(p, s, l) = i
  BY <1>1, LookupHere
<1>3. i # 0
  BY DEF Leveled
<1> QED
  BY <1>1, <1>2, <1>3 DEF Shown

LEMMA ShownAbove ==
  ASSUME NEW p, NEW s, Chained(p), Leveled(s), Ascending(s),
         NEW l \in 1 .. Len(p), NEW none, Bare(s, l)
  PROVE  Shown(p, s, l, none) = Shown(p, s, p[l], none)
<1>1. Lookup(p, s, l) = Lookup(p, s, p[l])
  BY LookupAbove DEF Bare
<1> QED
  BY <1>1 DEF Shown

LEMMA ShownNone ==
  ASSUME NEW p, NEW s, Chained(p), Leveled(s), NEW l \in {Dead, 0}, NEW none
  PROVE  Shown(p, s, l, none) = none
<1>1. Lookup(p, s, l) = 0
  BY LookupNone
<1> QED
  BY <1>1 DEF Shown

(* Two trails that agree on a set of levels that holds its members'        *)
(* parents show the same there: what happens at other levels goes unseen.  *)
Agree(p, s, q, t, H) ==
  /\ H \subseteq 1 .. Len(p) /\ H \subseteq 1 .. Len(q)
  /\ \A l \in H : p[l] = q[l] /\ p[l] \in H \cup {0}
  /\ \A l \in H : \A v : Holds(s, l, v) <=> Holds(t, l, v)

LEMMA ShownSame ==
  ASSUME NEW p, NEW s, Chained(p), Leveled(s), Ascending(s),
         NEW q, NEW t, Chained(q), Leveled(t), Ascending(t),
         NEW H, Agree(p, s, q, t, H), NEW none, NEW k \in H \cup {0}
  PROVE  Shown(p, s, k, none) = Shown(q, t, k, none)
<1> DEFINE Same(l) == Shown(p, s, l, none) = Shown(q, t, l, none)
           T == {m \in Nat : \A l \in H \cup {0} : l <= m => Same(l)}
<1>0. /\ Len(p) \in Nat
      /\ H \subseteq 1 .. Len(p) /\ H \subseteq 1 .. Len(q)
      /\ \A l \in H \cup {0} : l \in Nat /\ (l # 0 => l \in H /\ l \in 1 .. Len(p))
  BY DEF Chained, Agree
<1>a. /\ \A l \in H : p[l] = q[l] /\ p[l] \in H \cup {0}
      /\ \A l \in H : \A v : Holds(s, l, v) <=> Holds(t, l, v)
  BY DEF Agree
<1>1. Same(0)
  <2>1. Shown(p, s, 0, none) = none /\ Shown(q, t, 0, none) = none
    BY ShownNone
  <2> QED
    BY <2>1
<1>2. 0 \in T
  <2>1. ASSUME NEW l \in H \cup {0}, l <= 0 PROVE l = 0
    BY <1>0, <2>1
  <2> HIDE DEF Same
  <2> QED
    BY <1>1, <2>1
<1>3. ASSUME NEW m \in Nat, m \in T PROVE m + 1 \in T
  <2> SUFFICES ASSUME NEW l \in H \cup {0}, l <= m + 1 PROVE Same(l)
    BY <1>3
  <2>1. CASE l <= m
    <3> HIDE DEF Same
    <3> QED
      BY <2>1, <1>3
  <2>2. CASE l = 0
    BY <1>1, <2>2
  <2>3. CASE ~ (l <= m) /\ l # 0
    <3>1. l \in H /\ l \in 1 .. Len(p) /\ l \in 1 .. Len(q) /\ l = m + 1
      BY <1>0, <2>3
    <3>2. CASE \E v : Holds(s, l, v)
      <4>1. PICK v : Holds(s, l, v)
        BY <3>2
      <4>2. Holds(t, l, v)
        BY <1>a, <3>1, <4>1
      <4>3. Shown(p, s, l, none) = v
        BY <3>1, <4>1, ShownHere
      <4>4. Shown(q, t, l, none) = v
        BY <3>1, <4>2, ShownHere
      <4> QED
        BY <4>3, <4>4
    <3>3. CASE ~ \E v : Holds(s, l, v)
      <4>1. Bare(s, l)
        BY <3>3 DEF Bare, Holds
      <4>2. Bare(t, l)
        <5>1. \A v : ~ Holds(t, l, v)
          BY <1>a, <3>1, <3>3
        <5> QED
          BY <5>1 DEF Bare, Holds
      <4>3. Shown(p, s, l, none) = Shown(p, s, p[l], none)
        BY <3>1, <4>1, ShownAbove
      <4>4. Shown(q, t, l, none) = Shown(q, t, q[l], none)
        BY <3>1, <4>2, ShownAbove
      <4>5. p[l] = q[l] /\ p[l] \in H \cup {0}
        BY <1>a, <3>1
      <4>6. p[l] <= m
        BY <3>1, <1>0 DEF Chained
      <4>7. Same(p[l])
        <5> HIDE DEF Same
        <5> QED
          BY <4>5, <4>6, <1>3
      <4> QED
        BY <4>3, <4>4, <4>5, <4>7
    <3> QED
      BY <3>2, <3>3
  <2> QED
    BY <2>1, <2>2, <2>3
<1> HIDE DEF T
<1>4. \A m \in Nat : m \in T
  BY <1>2, <1>3, Induction
<1>5. ASSUME NEW l \in H \cup {0} PROVE Same(l)
  <2>1. l \in Nat /\ l \in T
    BY <1>0, <1>4
  <2> HIDE DEF Same
  <2> QED
    BY <2>1 DEF T
<1> QED
  BY <1>5

(* What a level shows is what some entry holds, or nothing.                *)
LEMMA ShownTyped ==
  ASSUME NEW p, NEW s, Chained(p), Leveled(s), Ascending(s),
         NEW V, NEW none \in V, \A i \in 1 .. Len(s) : s[i].value \in V
  PROVE  \A k \in {Dead} \cup 0 .. Len(p) : Shown(p, s, k, none) \in V
<1> DEFINE P == {Dead} \cup 0 .. Len(p)
           Typed(l) == Shown(p, s, l, none) \in V
           T == {m \in Nat : \A l \in P : l <= m => Typed(l)}
<1>0. Len(p) \in Nat /\ \A l \in P : l \in Int /\ (l > 0 => l \in 1 .. Len(p) /\ p[l] \in P)
  BY DEF Chained, Dead
<1>1. ASSUME NEW l \in {Dead, 0} PROVE Typed(l)
  <2>1. Shown(p, s, l, none) = none
    BY ShownNone
  <2> QED
    BY <2>1
<1>2. 0 \in T
  <2>1. ASSUME NEW l \in P, l <= 0 PROVE l \in {Dead, 0}
    BY <1>0, <2>1
  <2> HIDE DEF Typed, P
  <2> QED
    BY <1>1, <2>1
<1>3. ASSUME NEW m \in Nat, m \in T PROVE m + 1 \in T
  <2> SUFFICES ASSUME NEW l \in P, l <= m + 1 PROVE Typed(l)
    BY <1>3
  <2>1. CASE l <= m
    <3> HIDE DEF Typed, P
    <3> QED
      BY <2>1, <1>3
  <2>2. CASE ~ (l <= m)
    <3>1. l \in 1 .. Len(p) /\ p[l] \in P
      BY <1>0, <2>2
    <3>2. CASE \E v : Holds(s, l, v)
      <4>1. PICK v : Holds(s, l, v)
        BY <3>2
      <4>2. v \in V
        BY <4>1 DEF Holds
      <4>3. Shown(p, s, l, none) = v
        BY <3>1, <4>1, ShownHere
      <4> QED
        BY <4>2, <4>3
    <3>3. CASE ~ \E v : Holds(s, l, v)
      <4>1. Bare(s, l)
        BY <3>3 DEF Bare, Holds
      <4>2. Shown(p, s, l, none) = Shown(p, s, p[l], none)
        BY <3>1, <4>1, ShownAbove
      <4>3. p[l] <= m
        BY <3>1, <1>0 DEF Chained
      <4>4. Typed(p[l])
        <5> HIDE DEF Typed, P
        <5> QED
          BY <3>1, <4>3, <1>3
      <4> QED
        BY <4>2, <4>4
    <3> QED
      BY <3>2, <3>3
  <2> QED
    BY <2>1, <2>2
<1> HIDE DEF T
<1>4. \A m \in Nat : m \in T
  BY <1>2, <1>3, Induction
<1>5. ASSUME NEW l \in P PROVE Typed(l)
  <2>1. PICK m \in Nat : l <= m
    BY <1>0
  <2>2. m \in T
    BY <1>4
  <2> HIDE DEF Typed, P
  <2> QED
    BY <2>1, <2>2 DEF T
<1> QED
  BY <1>5

-----------------------------------------------------------------------------
(* set, popLevel and markDead.                                             *)

Stacks(V, L) == Seq([value : V, level : L])

LEMMA StackLeveled ==
  ASSUME NEW V, NEW L, L \subseteq Nat \ {0}, NEW s \in Stacks(V, L)
  PROVE  /\ Leveled(s) /\ Len(s) \in Nat
         /\ \A i \in 1 .. Len(s) : s[i] \in [value : V, level : L]
<1> DEFINE E == [value : V, level : L]
<1>0. s \in Seq(E)
  BY DEF Stacks
<1>1. Len(s) \in Nat /\ \A i \in 1 .. Len(s) : s[i] \in E
  <2> HIDE DEF E
  <2> QED
    BY <1>0
<1>2. \A i \in 1 .. Len(s) : s[i].level \in Nat \ {0}
  BY <1>1
<1> QED
  BY <1>1, <1>2 DEF Leveled

(* A level as new as any in the stack: set leaves one entry of it, which   *)
(* has the new value, and those of the other levels as they are.           *)
(* Of level l now v alone; elsewhere as before.                            *)
HoldsNow(s, t, l, v) ==
  \A k, w : Holds(t, k, w) <=> IF k = l THEN w = v ELSE Holds(s, k, w)

LEMMA SetEntryInOrder ==
  ASSUME NEW V, NEW L, L \subseteq Nat \ {0}, NEW s \in Stacks(V, L), Ascending(s),
         NEW v \in V, NEW l \in L, \A i \in 1 .. Len(s) : s[i].level <= l
  PROVE  /\ SetEntry(s, v, l) \in Stacks(V, L) /\ Ascending(SetEntry(s, v, l))
         /\ \A i \in 1 .. Len(SetEntry(s, v, l)) :
              SetEntry(s, v, l)[i].level \in {l} \cup {s[j].level : j \in 1 .. Len(s)}
         /\ HoldsNow(s, SetEntry(s, v, l), l, v)
<1> DEFINE t == SetEntry(s, v, l)
           E == [value : V, level : L]
<1>0. /\ Len(s) \in Nat /\ s \in Seq(E) /\ \A i \in 1 .. Len(s) : s[i] \in E
      /\ l \in Nat
  BY StackLeveled DEF Stacks
<1>e. Entry(v, l) = [value |-> v, level |-> l] /\ Entry(v, l) \in E
  BY DEF Entry
<1>1. CASE BoundLast(s, l)
  <2> DEFINE n == Len(s)
  <2>1. n \in 1 .. n /\ s # << >> /\ s[n].level = l
    BY <1>0, <1>1 DEF BoundLast
  <2>2. t = [s EXCEPT ![n].value = v]
    BY <1>1 DEF SetEntry
  <2>3. [s[n] EXCEPT !.value = v] = Entry(v, l)
    <3>1. s[n] \in E
      BY <1>0, <2>1
    <3> QED
      BY <3>1, <2>1, <1>e
  <2>4. t = [i \in 1 .. n |-> IF i = n THEN Entry(v, l) ELSE s[i]]
    <3>1. DOMAIN s = 1 .. n
      BY <1>0
    <3>2. t = [s EXCEPT ![n] = [s[n] EXCEPT !.value = v]]
      BY <2>2
    <3>3. t = [s EXCEPT ![n] = Entry(v, l)]
      BY <3>2, <2>3
    <3> HIDE DEF t
    <3> QED
      BY <3>1, <3>3, <2>1
  <2>5. t \in Seq(E) /\ Len(t) = n
    <3>1. t \in [1 .. n -> E]
      BY <2>4, <1>0, <1>e
    <3> HIDE DEF t, E
    <3> QED
      BY <3>1, <1>0
  <2>6. /\ t[n] = Entry(v, l)
        /\ \A i \in 1 .. n : i # n => t[i] = s[i]
        /\ \A i \in 1 .. n : t[i].level = s[i].level
    BY <2>1, <2>4, <1>e
  <2> HIDE DEF t
  <2>7. Ascending(t)
    BY <2>5, <2>6 DEF Ascending
  <2>8. \A i \in 1 .. Len(t) : t[i].level \in {l} \cup {s[j].level : j \in 1 .. Len(s)}
    BY <2>5, <2>6
  <2>9. ASSUME NEW k, NEW w PROVE Holds(t, k, w) <=> IF k = l THEN w = v ELSE Holds(s, k, w)
    <3>1. ASSUME NEW i \in 1 .. n, s[i].level = l PROVE i = n
      <4> SUFFICES ASSUME i # n PROVE FALSE
        OBVIOUS
      <4>1. i < n /\ n \in 1 .. Len(s) /\ i \in 1 .. Len(s)
        BY <2>1, <1>0
      <4>2. s[i].level < s[n].level
        BY <4>1 DEF Ascending
      <4> QED
        BY <4>2, <3>1, <2>1, <1>0
    <3>2. t[n].value = v /\ t[n].level = l
      BY <2>6, <1>e
    <3>3. CASE k = l
      BY <3>1, <3>2, <3>3, <2>1, <2>5, <2>6 DEF Holds
    <3>4. CASE k # l
      BY <3>2, <3>4, <2>1, <2>5, <2>6 DEF Holds
    <3> QED
      BY <3>3, <3>4
  <2> QED
    BY <2>5, <2>7, <2>8, <2>9 DEF t, Stacks, HoldsNow
<1>2. CASE ~ BoundLast(s, l)
  <2> DEFINE n == Len(s)
  <2>1. t = Append(s, Entry(v, l))
    BY <1>2 DEF SetEntry
  <2>2. /\ t \in Seq(E) /\ Len(t) = n + 1 /\ t[n + 1] = Entry(v, l)
        /\ \A i \in 1 .. n : t[i] = s[i]
    <3> HIDE DEF E
    <3> QED
      BY <2>1, <1>0, <1>e
  <2> HIDE DEF t
  <2>3. t[n + 1].value = v /\ t[n + 1].level = l
    BY <2>2, <1>e
  <2>4. ASSUME NEW i \in 1 .. n PROVE s[i].level < l
    <3>1. s[i].level \in Nat /\ s[i].level <= l /\ n \in 1 .. n /\ s # << >>
      BY <1>0, StackLeveled
    <3>2. s[n].level # l
      BY <3>1, <1>2 DEF BoundLast
    <3>3. s[n].level <= l /\ s[n].level \in Nat
      BY <3>1, <1>0
    <3>4. i = n \/ s[i].level < s[n].level
      BY <3>1, <1>0 DEF Ascending
    <3> QED
      BY <3>1, <3>2, <3>3, <3>4, <1>0
  <2>5. Ascending(t)
    <3> SUFFICES ASSUME NEW i \in 1 .. Len(t), NEW j \in 1 .. Len(t), i < j
                 PROVE  t[i].level < t[j].level
      BY DEF Ascending
    <3>0. n \in Nat /\ Len(t) = n + 1
      BY <1>0, <2>2
    <3>1. i \in 1 .. n /\ (j \in 1 .. n \/ j = n + 1)
      <4> HIDE DEF n
      <4> QED
        BY <3>0
    <3>2. CASE j = n + 1
      BY <3>1, <3>2, <2>2, <2>3, <2>4
    <3>3. CASE j \in 1 .. n
      BY <3>1, <3>3, <2>2 DEF Ascending
    <3> QED
      BY <3>1, <3>2, <3>3
  <2>6. \A i \in 1 .. Len(t) : t[i].level \in {l} \cup {s[j].level : j \in 1 .. Len(s)}
    BY <1>0, <2>2, <2>3
  <2>7. ASSUME NEW k, NEW w PROVE Holds(t, k, w) <=> IF k = l THEN w = v ELSE Holds(s, k, w)
    <3>1. Holds(t, k, w) <=> (k = l /\ w = v) \/ Holds(s, k, w)
      BY <1>0, <2>2, <2>3 DEF Holds
    <3>2. ~ Holds(s, l, w)
      BY <2>4, <1>0 DEF Holds
    <3> QED
      BY <3>1, <3>2
  <2> QED
    BY <2>2, <2>5, <2>6, <2>7 DEF t, Stacks, HoldsNow
<1> QED
  BY <1>1, <1>2

(* Erasing the entry of a level takes that level's binding and no other.   *)
LEMMA EraseInOrder ==
  ASSUME NEW V, NEW L, L \subseteq Nat \ {0}, NEW s \in Stacks(V, L), Ascending(s),
         NEW i \in 1 .. Len(s)
  PROVE  /\ EraseAt(s, i) \in Stacks(V, L) /\ Ascending(EraseAt(s, i))
         /\ \A j \in 1 .. Len(EraseAt(s, i)) :
              EraseAt(s, i)[j].level \in {s[m].level : m \in 1 .. Len(s)} \ {s[i].level}
         /\ \A k, w : Holds(EraseAt(s, i), k, w) <=> k # s[i].level /\ Holds(s, k, w)
<1> DEFINE t == EraseAt(s, i)
           n == Len(s)
           E == [value : V, level : L]
<1>0. n \in Nat /\ n - 1 \in Nat /\ \A j \in 1 .. n : s[j] \in E
  <2>1. n \in Nat /\ \A j \in 1 .. n : s[j] \in E
    BY StackLeveled
  <2> HIDE DEF E
  <2> QED
    BY <2>1
<1>1. /\ t \in Seq(E) /\ Len(t) = n - 1
      /\ \A j \in 1 .. (n - 1) : t[j] = IF j < i THEN s[j] ELSE s[j + 1]
  <2>1. t = [j \in 1 .. (n - 1) |-> IF j < i THEN s[j] ELSE s[j + 1]]
    BY DEF EraseAt
  <2>2. ASSUME NEW j \in 1 .. (n - 1) PROVE j \in 1 .. n /\ j + 1 \in 1 .. n
    BY <1>0
  <2> HIDE DEF t, E
  <2>3. t \in [1 .. (n - 1) -> E]
    BY <1>0, <2>1, <2>2
  <2> HIDE DEF n
  <2>4. t \in Seq(E) /\ Len(t) = n - 1
    BY <1>0, <2>3
  <2> QED
    BY <2>1, <2>4
<1>2. ASSUME NEW j \in 1 .. (n - 1)
      PROVE  \E m \in 1 .. n : m # i /\ t[j] = s[m] /\ m = IF j < i THEN j ELSE j + 1
  BY <1>0, <1>1
<1>3. ASSUME NEW m \in 1 .. n, m # i PROVE \E j \in 1 .. (n - 1) : t[j] = s[m]
  <2>1. CASE m < i
    <3>1. m \in 1 .. (n - 1)
      BY <1>0, <2>1
    <3> QED
      BY <3>1, <2>1, <1>1
  <2>2. CASE ~ (m < i)
    <3>1. m - 1 \in 1 .. (n - 1) /\ ~ (m - 1 < i) /\ (m - 1) + 1 = m
      BY <1>0, <1>3, <2>2
    <3>2. t[m - 1] = s[(m - 1) + 1]
      BY <3>1, <1>1
    <3> QED
      BY <3>1, <3>2
  <2> QED
    BY <2>1, <2>2
<1> HIDE DEF t
<1>4. ASSUME NEW a \in 1 .. n, NEW b \in 1 .. n, a # b PROVE s[a].level # s[b].level
  <2>1. s[a].level \in Nat /\ s[b].level \in Nat
    BY <1>0
  <2>2. a < b \/ b < a
    BY <1>0, <1>4
  <2>3. s[a].level < s[b].level \/ s[b].level < s[a].level
    BY <2>2 DEF Ascending
  <2> QED
    BY <2>1, <2>3
<1>5. Ascending(t)
  <2> SUFFICES ASSUME NEW a \in 1 .. Len(t), NEW b \in 1 .. Len(t), a < b
               PROVE  t[a].level < t[b].level
    BY DEF Ascending
  <2>1. a \in 1 .. (n - 1) /\ b \in 1 .. (n - 1)
    BY <1>1
  <2>2. PICK x \in 1 .. n : t[a] = s[x] /\ x = IF a < i THEN a ELSE a + 1
    BY <2>1, <1>2
  <2>3. PICK y \in 1 .. n : t[b] = s[y] /\ y = IF b < i THEN b ELSE b + 1
    BY <2>1, <1>2
  <2>4. x < y
    BY <2>1, <2>2, <2>3, <1>0
  <2>5. s[x].level < s[y].level
    BY <2>4 DEF Ascending
  <2> QED
    BY <2>2, <2>3, <2>5
<1>6. ASSUME NEW j \in 1 .. Len(t)
      PROVE  t[j].level \in {s[m].level : m \in 1 .. Len(s)} \ {s[i].level}
  <2>1. j \in 1 .. (n - 1)
    BY <1>1
  <2>2. PICK m \in 1 .. n : m # i /\ t[j] = s[m]
    BY <2>1, <1>2
  <2> QED
    BY <2>2, <1>4
<1>7. ASSUME NEW k, NEW w PROVE Holds(t, k, w) <=> k # s[i].level /\ Holds(s, k, w)
  <2>1. ASSUME Holds(t, k, w) PROVE k # s[i].level /\ Holds(s, k, w)
    <3>1. PICK j \in 1 .. Len(t) : t[j].level = k /\ t[j].value = w
      BY <2>1 DEF Holds
    <3>2. j \in 1 .. (n - 1)
      BY <1>1
    <3>3. PICK m \in 1 .. n : m # i /\ t[j] = s[m]
      BY <3>2, <1>2
    <3> QED
      BY <3>1, <3>3, <1>4 DEF Holds
  <2>2. ASSUME k # s[i].level, Holds(s, k, w) PROVE Holds(t, k, w)
    <3>1. PICK m \in 1 .. n : s[m].level = k /\ s[m].value = w
      BY <2>2 DEF Holds
    <3>2. m # i
      BY <2>2, <3>1
    <3>3. PICK j \in 1 .. (n - 1) : t[j] = s[m]
      BY <3>2, <1>3
    <3> QED
      BY <3>1, <3>3, <1>1 DEF Holds
  <2> QED
    BY <2>1, <2>2
<1> QED
  BY <1>1, <1>5, <1>6, <1>7 DEF t, Stacks

(* markDead: there is a newest live slot to shrink to, and no live slot    *)
(* goes.                                                                   *)
LEMMA ShrinkExists ==
  ASSUME NEW P, NEW p \in Seq(P), NEW l \in 1 .. Len(p)
  PROVE  \E k \in 0 .. Len(p) : ShrinksTo(p, l, k)
<1>0. Len(p) \in Nat
  OBVIOUS
<1>1. CASE l # Len(p)
  BY <1>0, <1>1 DEF ShrinksTo
<1>2. CASE l = Len(p)
  <2> DEFINE T == {m \in 0 .. (l - 1) : m = 0 \/ p[m] # Dead}
  <2>1. T \subseteq 0 .. Len(p) /\ T # {}
    <3>1. 0 \in T
      BY <1>0
    <3> QED
      BY <3>1, <1>0, <1>2
  <2>2. PICK k \in T : \A m \in T : m <= k
    <3> HIDE DEF T
    <3> QED
      BY <2>1, <1>0, GreatestNumber
  <2>3. ASSUME NEW m \in (k + 1) .. (l - 1) PROVE p[m] = Dead
    <3>1. m \notin T
      BY <2>2, <1>0
    <3>2. m \in 0 .. (l - 1) /\ m # 0
      BY <2>2, <1>0
    <3> QED
      BY <3>1, <3>2
  <2>4. k \in 0 .. (l - 1) /\ (k > 0 => p[k] # Dead) /\ k \in 0 .. Len(p)
    BY <2>2, <1>0, <1>2
  <2> QED
    BY <2>3, <2>4, <1>2 DEF ShrinksTo
<1> QED
  BY <1>1, <1>2

LEMMA MarkDeadKeeps ==
  ASSUME NEW P, Dead \in P, NEW p \in Seq(P), NEW l \in 1 .. Len(p),
         NEW k \in 0 .. Len(p), ShrinksTo(p, l, k)
  PROVE  /\ MarkDead(p, l, k) \in Seq(P)
         /\ Len(MarkDead(p, l, k)) = k
         /\ \A m \in 1 .. k : MarkDead(p, l, k)[m] = IF m = l THEN Dead ELSE p[m]
         /\ \A m \in (k + 1) .. Len(p) : m = l \/ p[m] = Dead
         /\ k > 0 /\ p[Len(p)] # Dead => k # l /\ p[k] # Dead
<1> DEFINE n == Len(p)
           b == Buried(p, l)
<1>0. n \in Nat /\ \A m \in 1 .. n : p[m] \in P
  OBVIOUS
<1>1. b \in Seq(P) /\ Len(b) = n /\ \A m \in 1 .. n : b[m] = IF m = l THEN Dead ELSE p[m]
  BY DEF Buried
<1> HIDE DEF b
<1>2. /\ MarkDead(p, l, k) \in Seq(P) /\ Len(MarkDead(p, l, k)) = k
      /\ \A m \in 1 .. k : MarkDead(p, l, k)[m] = b[m]
  BY <1>0, <1>1 DEF MarkDead, b
<1>3. \A m \in (k + 1) .. n : m = l \/ p[m] = Dead
  BY <1>0 DEF ShrinksTo
<1>4. k > 0 /\ p[n] # Dead => k # l /\ p[k] # Dead
  BY <1>0 DEF ShrinksTo
<1> QED
  BY <1>0, <1>1, <1>2, <1>3, <1>4
=============================================================================
