--------------------------- MODULE ProfilerProofs ---------------------------
(***************************************************************************)
(* The profile is the time that was spent, for any sites, limits, bounds.  *)
(*                                                                         *)
(* What a call spends itself is reported only once it has returned.  Until *)
(* then it lies between its start and that of the call above it, less the  *)
(* time that the calls it made handed down.  The invariant says that what  *)
(* is reported and these slices are the ticks: for each site, and for each *)
(* node of the tree.  A site is open exactly when the innermost call is at *)
(* or below one of its nodes, which is why the sum over the nodes below is *)
(* the time that the site was open.                                        *)
(***************************************************************************)
EXTENDS Profiler, FiniteSetTheorems, SequenceTheorems, NaturalsInduction, WellFoundedInduction, TLAPS

Handles == [site : Sites, reentry : BOOLEAN, start : Nat, node : Nat, prev : Nat]
Records == [calls : Nat, self : Int, cumulative : Nat]
NodeRecords == [site : Sites \union {"<toplevel>"}, parent : Nat, calls : Nat, self : Int]

(* What call i spent itself up to t, of the calls hs with child times ct;  *)
(* what of it counts for the calls in M; and a running total of that.      *)
Slice(hs, ct, i, t) == (IF i = Len(hs) THEN t ELSE hs[i + 1].start) - hs[i].start - ct[i]
Share(hs, ct, M, i, t) == IF i \in M THEN Slice(hs, ct, i, t) ELSE 0
IsTally(w, hs, ct, M, t) ==
  /\ w \in [0 .. Len(hs) -> Int] /\ w[0] = 0
  /\ \A i \in 1 .. Len(hs) : w[i] = w[i - 1] + Share(hs, ct, M, i, t)
Tallied(hs, ct, M, t, d) == \E w : IsTally(w, hs, ct, M, t) /\ w[Len(hs)] = d

From(hs, s) == {i \in 1 .. Len(hs) : hs[i].site = s}
At(hs, j) == {i \in 1 .. Len(hs) : hs[i].node = j}

------------------------------------------------------------------------------
(* Types.                                                                  *)

(* A tree of calls: every node but the root is a site's and comes after    *)
(* its parent.                                                             *)
TreeOK(t) ==
  /\ t \in Seq(NodeRecords) /\ Len(t) \in Nat \ {0}
  /\ t[Root].parent = NoPath /\ t[Root].site = "<toplevel>"
  /\ \A j \in 2 .. Len(t) : t[j].parent \in 1 .. (j - 1) /\ t[j].site \in Sites
HandlesOK ==
  \A i \in 1 .. Len(handles) :
    /\ handles[i].start <= now
    /\ handles[i].node \in 1 .. Len(paths) /\ handles[i].prev \in 0 .. Len(paths)
Untouched == paths = << >> /\ ~ cut /\ current = NoPath /\ phase = "idle"
TypeInv ==
  /\ phase \in {"idle", "running", "failing", "reported"} /\ runs \in 0 .. MaxRuns
  /\ flat \in [Sites -> Records]
  /\ active \subseteq Sites /\ childTime \in Seq(Nat)
  /\ paths \in Seq(NodeRecords) /\ TreeOK(Tree) /\ Len(Tree) <= MaxNodes
  /\ current \in 0 .. Len(paths) /\ cut \in BOOLEAN
  /\ handles \in Seq(Handles) /\ HandlesOK /\ Len(handles) <= Len(childTime)
  /\ phase \in {"idle", "reported"} => handles = << >>
  /\ now \in Nat /\ onTop \in [Sites -> Nat] /\ inside \in [Sites -> Nat]
  /\ runs = 0 => Untouched

(* The table.  A handle is a re-entry when an earlier call from its site   *)
(* goes on.                                                                *)
ReentriesExact ==
  \A i \in 1 .. Len(handles) :
    handles[i].reentry <=> \E j \in 1 .. (i - 1) : handles[j].site = handles[i].site
SelfExact ==
  \A s \in Sites : Tallied(handles, childTime, From(handles, s), now, onTop[s] - flat[s].self)
CumulativeExact ==
  /\ \A i \in 1 .. Len(handles) :
       ~ handles[i].reentry =>
         flat[handles[i].site].cumulative + (now - handles[i].start) = inside[handles[i].site]
  /\ \A s \in Sites \ OpenSites : flat[s].cumulative = inside[s]
TableInv ==
  /\ Len(childTime) = Len(handles)
  /\ active = OpenSites
  /\ ReentriesExact /\ SelfExact /\ CumulativeExact
------------------------------------------------------------------------------
(* Running totals.                                                         *)

(* With no call in progress nothing is under way.                          *)
LEMMA TallyNone ==
  ASSUME NEW hs, Len(hs) = 0, NEW ct, NEW M, NEW t, NEW d
  PROVE  Tallied(hs, ct, M, t, d) <=> d = 0
<1>1. ASSUME Tallied(hs, ct, M, t, d) PROVE d = 0
  BY <1>1 DEF Tallied, IsTally
<1>2. ASSUME d = 0 PROVE Tallied(hs, ct, M, t, d)
  <2> DEFINE w == [i \in 0 .. 0 |-> 0]
  <2>1. IsTally(w, hs, ct, M, t)
    BY DEF IsTally
  <2>2. w[0] = 0
    OBVIOUS
  <2> HIDE DEF w
  <2> QED
    BY <1>2, <2>1, <2>2 DEF Tallied
<1> QED
  BY <1>1, <1>2

(* The calls as far as the totals see them.                                *)
Calls(hs, ct, n) ==
  /\ n \in Nat /\ Len(hs) = n /\ Len(ct) = n
  /\ \A i \in 1 .. n : hs[i].start \in Nat /\ ct[i] \in Nat

(* A call starts: the slice of the one below ends where it was.            *)
LEMMA TallyPush ==
  ASSUME NEW n, NEW hs, NEW ct, Calls(hs, ct, n), NEW M, NEW t \in Nat, NEW d \in Int,
         Tallied(hs, ct, M, t, d),
         NEW gs, NEW gt, Calls(gs, gt, n + 1), NEW K, K \cap (1 .. n) = M \cap (1 .. n),
         \A i \in 1 .. n : gs[i] = hs[i] /\ gt[i] = ct[i],
         gs[n + 1].start = t, gt[n + 1] = 0
  PROVE  Tallied(gs, gt, K, t, d)
<1>1. PICK w : IsTally(w, hs, ct, M, t) /\ w[n] = d
  BY DEF Tallied, Calls
<1> DEFINE v == [i \in 0 .. n + 1 |-> IF i = n + 1 THEN d ELSE w[i]]
<1>2. /\ n \in Nat /\ Len(hs) = n /\ Len(gs) = n + 1
      /\ w \in [0 .. n -> Int] /\ w[0] = 0
      /\ \A i \in 1 .. n : w[i] = w[i - 1] + Share(hs, ct, M, i, t)
  BY <1>1 DEF IsTally, Calls
<1>3. v \in [0 .. n + 1 -> Int] /\ v[0] = 0 /\ v[n + 1] = d
      /\ \A i \in 0 .. n : v[i] = w[i]
  BY <1>2
<1>4. ASSUME NEW i \in 1 .. n PROVE Share(gs, gt, K, i, t) = Share(hs, ct, M, i, t)
  <2>0. i \in K <=> i \in M
    OBVIOUS
  <2>1. CASE i = n
    <3>1. i + 1 = n + 1 /\ i # n + 1
      BY <1>2, <2>1
    <3> QED
      BY <1>2, <2>0, <2>1, <3>1 DEF Share, Slice
  <2>2. CASE i # n
    <3>1. i + 1 \in 1 .. n /\ i # n + 1
      BY <1>2, <2>2
    <3> QED
      BY <1>2, <2>0, <2>2, <3>1 DEF Share, Slice
  <2> QED
    BY <2>1, <2>2
<1>5. Share(gs, gt, K, n + 1, t) = 0
  BY <1>2 DEF Share, Slice
<1> HIDE DEF v
<1>6. ASSUME NEW i \in 1 .. n + 1 PROVE v[i] = v[i - 1] + Share(gs, gt, K, i, t)
  <2>1. CASE i = n + 1
    <3>1. v[i] = d /\ v[i - 1] = w[n] /\ w[n] = d
      BY <1>1, <1>2, <1>3, <2>1
    <3> QED
      BY <1>5, <2>1, <3>1
  <2>2. CASE i # n + 1
    <3>1. i \in 1 .. n /\ i \in 0 .. n /\ i - 1 \in 0 .. n
      BY <1>2, <2>2
    <3>2. v[i] = w[i] /\ v[i - 1] = w[i - 1]
      BY <1>3, <3>1
    <3> QED
      BY <1>2, <1>4, <3>1, <3>2
  <2> QED
    BY <2>1, <2>2
<1>7. IsTally(v, gs, gt, K, t)
  BY <1>2, <1>3, <1>6 DEF IsTally
<1> QED
  BY <1>2, <1>3, <1>7 DEF Tallied

(* The last call returns: its share is out, and the slice of the one below *)
(* goes on, less the whole time of the call.                               *)
LEMMA TallyPop ==
  ASSUME NEW n, NEW hs, NEW ct, Calls(hs, ct, n + 1), n \in Nat, NEW M, NEW t \in Nat, NEW d \in Int,
         Tallied(hs, ct, M, t, d),
         NEW gs, NEW gt, Calls(gs, gt, n), NEW K, K \cap (1 .. n) = M \cap (1 .. n),
         \A i \in 1 .. n : gs[i] = hs[i],
         \A i \in 1 .. n : gt[i] = IF i = n THEN ct[n] + (t - hs[n + 1].start) ELSE ct[i]
  PROVE  Tallied(gs, gt, K, t, d - Share(hs, ct, M, n + 1, t))
<1>1. PICK w : IsTally(w, hs, ct, M, t) /\ w[n + 1] = d
  BY DEF Tallied, Calls
<1> DEFINE v == [i \in 0 .. n |-> w[i]]
<1>2. /\ Len(hs) = n + 1 /\ Len(gs) = n
      /\ w \in [0 .. n + 1 -> Int] /\ w[0] = 0
      /\ \A i \in 1 .. n + 1 : w[i] = w[i - 1] + Share(hs, ct, M, i, t)
  BY <1>1 DEF IsTally, Calls
<1>3. v \in [0 .. n -> Int] /\ v[0] = 0 /\ \A i \in 0 .. n : v[i] = w[i]
  BY <1>2
<1>4. ASSUME NEW i \in 1 .. n PROVE Share(gs, gt, K, i, t) = Share(hs, ct, M, i, t)
  <2>0. i \in K <=> i \in M
    OBVIOUS
  <2>1. hs[i].start \in Nat /\ ct[i] \in Nat /\ hs[n + 1].start \in Nat /\ i # n + 1
    BY DEF Calls
  <2>2. CASE i = n
    <3>1. gs[i].start = hs[i].start
          /\ gt[i] = ct[i] + (t - hs[i + 1].start)
      BY <2>2
    <3>2. Slice(gs, gt, i, t) = t - gs[i].start - gt[i]
      BY <1>2, <2>2 DEF Slice
    <3>3. Slice(hs, ct, i, t) = hs[i + 1].start - hs[i].start - ct[i]
      BY <1>2, <2>1 DEF Slice
    <3>4. hs[i + 1].start \in Nat
      BY <2>1, <2>2
    <3>5. Slice(gs, gt, i, t) = Slice(hs, ct, i, t)
      BY <2>1, <3>1, <3>2, <3>3, <3>4
    <3> QED
      BY <2>0, <3>5 DEF Share
  <2>3. CASE i # n
    <3>1. i + 1 \in 1 .. n
      BY <2>3
    <3> QED
      BY <1>2, <2>0, <2>1, <2>3, <3>1 DEF Share, Slice
  <2> QED
    BY <2>2, <2>3
<1>5. Share(hs, ct, M, n + 1, t) \in Int /\ w[n] \in Int /\ d = w[n] + Share(hs, ct, M, n + 1, t)
  <2>1. n + 1 \in 1 .. n + 1 /\ (n + 1) - 1 = n /\ n \in 0 .. n + 1
    OBVIOUS
  <2>2. hs[n + 1].start \in Nat /\ ct[n + 1] \in Nat
    BY <2>1 DEF Calls
  <2>3. Share(hs, ct, M, n + 1, t) \in Int
    BY <1>2, <2>2 DEF Share, Slice
  <2> QED
    BY <1>1, <1>2, <2>1, <2>3
<1> HIDE DEF v
<1>6. ASSUME NEW i \in 1 .. n PROVE v[i] = v[i - 1] + Share(gs, gt, K, i, t)
  <2>1. i \in 1 .. n + 1 /\ i \in 0 .. n /\ i - 1 \in 0 .. n
    OBVIOUS
  <2> QED
    BY <1>2, <1>3, <1>4, <2>1
<1>7. IsTally(v, gs, gt, K, t)
  BY <1>2, <1>3, <1>6 DEF IsTally
<1>8. v[n] = d - Share(hs, ct, M, n + 1, t)
  BY <1>3, <1>5
<1> QED
  BY <1>2, <1>7, <1>8 DEF Tallied

(* A tick goes to the last call.                                           *)
LEMMA TallyTick ==
  ASSUME NEW n, NEW hs, NEW ct, Calls(hs, ct, n + 1), n \in Nat, NEW M, NEW t \in Nat, NEW d \in Int,
         Tallied(hs, ct, M, t, d)
  PROVE  Tallied(hs, ct, M, t + 1, d + IF n + 1 \in M THEN 1 ELSE 0)
<1>1. PICK w : IsTally(w, hs, ct, M, t) /\ w[n + 1] = d
  BY DEF Tallied, Calls
<1> DEFINE e == IF n + 1 \in M THEN 1 ELSE 0
           v == [i \in 0 .. n + 1 |-> IF i = n + 1 THEN d + e ELSE w[i]]
<1>2. /\ Len(hs) = n + 1
      /\ w \in [0 .. n + 1 -> Int] /\ w[0] = 0
      /\ \A i \in 1 .. n + 1 : w[i] = w[i - 1] + Share(hs, ct, M, i, t)
  BY <1>1 DEF IsTally, Calls
<1>3. e \in Int /\ v \in [0 .. n + 1 -> Int] /\ v[0] = 0 /\ v[n + 1] = d + e
      /\ \A i \in 0 .. n : v[i] = w[i]
  BY <1>2
<1>4. ASSUME NEW i \in 1 .. n PROVE Share(hs, ct, M, i, t + 1) = Share(hs, ct, M, i, t)
  BY <1>2 DEF Share, Slice
<1>5. Share(hs, ct, M, n + 1, t + 1) = Share(hs, ct, M, n + 1, t) + e
      /\ Share(hs, ct, M, n + 1, t) \in Int
  <2>1. hs[n + 1].start \in Nat /\ ct[n + 1] \in Nat
    BY DEF Calls
  <2>2. Slice(hs, ct, n + 1, t) \in Int /\ Slice(hs, ct, n + 1, t + 1) = Slice(hs, ct, n + 1, t) + 1
    <3>1. \A u : Slice(hs, ct, n + 1, u) = u - hs[n + 1].start - ct[n + 1]
      BY <1>2 DEF Slice
    <3>2. /\ Slice(hs, ct, n + 1, t) = t - hs[n + 1].start - ct[n + 1]
          /\ Slice(hs, ct, n + 1, t + 1) = (t + 1) - hs[n + 1].start - ct[n + 1]
      BY ONLY <3>1
    <3> QED
      BY ONLY <2>1, <3>2, t \in Nat
  <2> QED
    BY <2>2 DEF Share
<1> HIDE DEF v, e
<1>6. ASSUME NEW i \in 1 .. n + 1 PROVE v[i] = v[i - 1] + Share(hs, ct, M, i, t + 1)
  <2>1. CASE i = n + 1
    <3>1. v[i] = d + e /\ v[i - 1] = w[n] /\ w[n] \in Int /\ d = w[n] + Share(hs, ct, M, n + 1, t)
      <4>1. n + 1 \in 1 .. n + 1 /\ (n + 1) - 1 = n /\ n \in 0 .. n /\ n \in 0 .. n + 1
        OBVIOUS
      <4> QED
        BY <1>1, <1>2, <1>3, <2>1, <4>1
    <3> QED
      BY <1>3, <1>5, <2>1, <3>1
  <2>2. CASE i # n + 1
    <3>1. i \in 1 .. n /\ i \in 0 .. n /\ i - 1 \in 0 .. n
      BY <2>2
    <3> QED
      BY <1>2, <1>3, <1>4, <3>1
  <2> QED
    BY <2>1, <2>2
<1>7. IsTally(v, hs, ct, M, t + 1)
  BY <1>2, <1>3, <1>6 DEF IsTally
<1> QED
  BY <1>2, <1>3, <1>7 DEF Tallied, e

(* None of the calls counts.                                               *)
LEMMA TallyOther ==
  ASSUME NEW n, NEW hs, NEW ct, Calls(hs, ct, n), NEW M, M \cap (1 .. n) = {}, NEW t
  PROVE  Tallied(hs, ct, M, t, 0)
<1> DEFINE w == [i \in 0 .. n |-> 0]
<1>1. n \in Nat /\ Len(hs) = n
  BY DEF Calls
<1>2. w \in [0 .. n -> Int] /\ w[0] = 0 /\ w[n] = 0
  BY <1>1
<1>3. ASSUME NEW i \in 1 .. n PROVE w[i] = w[i - 1] + Share(hs, ct, M, i, t)
  <2>1. Share(hs, ct, M, i, t) = 0
    BY DEF Share
  <2>2. i \in 0 .. n /\ i - 1 \in 0 .. n
    BY <1>1
  <2> QED
    BY <2>1, <2>2
<1> HIDE DEF w
<1> QED
  BY <1>1, <1>2, <1>3 DEF Tallied, IsTally

------------------------------------------------------------------------------
(* Numbers.                                                                *)

(* A set of numbers that has a member has a least one.                     *)
LEMMA Least ==
  ASSUME NEW S, S \subseteq Nat, S # {}
  PROVE  \E n \in S : \A m \in S : n <= m
<1> DEFINE Less == OpToRel(<, Nat)
<1>1. PICK n \in S : \A m \in S : << m, n >> \notin Less
  BY NatLessThanWellFounded, WFMin
<1>2. ASSUME NEW m \in S PROVE n <= m
  <2>1. m \in Nat /\ n \in Nat
    BY <1>1
  <2>2. << m, n >> \notin Less
    BY <1>1
  <2>3. ~ (m < n)
    BY <2>1, <2>2, SMT DEF OpToRel
  <2> QED
    BY ONLY <2>1, <2>3
<1> QED
  BY <1>2

(* A set that has every number all of whose predecessors it has.           *)
LEMMA AllNumbers ==
  ASSUME NEW S, \A n \in Nat : (\A m \in Nat : m < n => m \in S) => n \in S
  PROVE  Nat \subseteq S
<1> SUFFICES ASSUME Nat \ S # {} PROVE FALSE
  OBVIOUS
<1>1. PICK n \in Nat \ S : \A m \in Nat \ S : n <= m
  BY Least
<1>2. ASSUME NEW m \in Nat, m < n PROVE m \in S
  BY <1>1, <1>2
<1> QED
  BY <1>1, <1>2

------------------------------------------------------------------------------
(* Sums of functions over finite sets.                                     *)

Chosen(s) == CHOOSE x \in s : TRUE
SumStep(f, it, s) == IF s = {} THEN 0 ELSE f[Chosen(s)] + it[s \ {Chosen(s)}]
IsSum(f, S, it) == it = [s \in SUBSET S |-> SumStep(f, it, s)]

LEMMA SumByDefinition ==
  ASSUME NEW f, NEW S
  PROVE  SumFunctionOnSet(f, S) = (CHOOSE it : IsSum(f, S, it))[S]
BY DEF SumFunctionOnSet, FoldFunctionOnSet, MapThenFoldSet, IsSum, SumStep, Chosen

(* The set without the element chosen is smaller.                          *)
LEMMA OneFewer ==
  ASSUME NEW s, IsFiniteSet(s), NEW x \in s
  PROVE  /\ IsFiniteSet(s \ {x}) /\ Cardinality(s) \in Nat /\ Cardinality(s \ {x}) \in Nat
         /\ Cardinality(s \ {x}) = Cardinality(s) - 1
BY FS_RemoveElement, FS_CardinalityType

LEMMA ChosenIn ==
  ASSUME NEW s, s # {}
  PROVE  Chosen(s) \in s
BY DEF Chosen

(* The equation has a solution.                                            *)
SumsBelow(f, S, k, it) ==
  /\ it \in [SUBSET S -> {it[s] : s \in SUBSET S}]
  /\ \A s \in SUBSET S : Cardinality(s) < k => it[s] = SumStep(f, it, s)

LEMMA SumExists ==
  ASSUME NEW f, NEW S, IsFiniteSet(S)
  PROVE  \E it : IsSum(f, S, it)
<1> DEFINE Solved == {k \in Nat : \E it : SumsBelow(f, S, k, it)}
<1>1. ASSUME NEW s \in SUBSET S PROVE IsFiniteSet(s) /\ Cardinality(s) \in Nat
  BY FS_Subset, FS_CardinalityType
<1>2. ASSUME NEW k \in Nat, \A m \in Nat : m < k => m \in Solved PROVE k \in Solved
  <2>1. CASE k = 0
    <3> DEFINE it == [s \in SUBSET S |-> 0]
    <3>1. SumsBelow(f, S, k, it)
      BY <1>1, <2>1 DEF SumsBelow
    <3> HIDE DEF it
    <3> QED
      BY <3>1
  <2>2. CASE k # 0
    <3>1. k - 1 \in Nat /\ k - 1 < k
      BY <2>2
    <3>2. PICK it : SumsBelow(f, S, k - 1, it)
      BY <1>2, <3>1
    <3> DEFINE next == [s \in SUBSET S |-> SumStep(f, it, s)]
    <3>3. ASSUME NEW s \in SUBSET S, Cardinality(s) < k PROVE next[s] = SumStep(f, next, s)
      <4>1. CASE s = {}
        BY <4>1 DEF SumStep
      <4>2. CASE s # {}
        <5> DEFINE r == s \ {Chosen(s)}
        <5>1. r \in SUBSET S /\ Cardinality(r) < k - 1
          BY <1>1, <3>3, <4>2, ChosenIn, OneFewer
        <5>2. it[r] = next[r]
          BY <3>2, <5>1 DEF SumsBelow
        <5> QED
          BY <4>2, <5>2 DEF SumStep
      <4> QED
        BY <4>1, <4>2
    <3>4. SumsBelow(f, S, k, next)
      <4>1. next \in [SUBSET S -> {next[s] : s \in SUBSET S}]
        OBVIOUS
      <4> HIDE DEF next
      <4> QED
        BY <3>3, <4>1 DEF SumsBelow
    <3> HIDE DEF next
    <3> QED
      BY <3>4
  <2> QED
    BY <2>1, <2>2
<1>3. Nat \subseteq Solved
  <2> HIDE DEF Solved
  <2> QED
    BY <1>2, AllNumbers
<1>4. Cardinality(S) + 1 \in Solved
  BY <1>1, <1>3
<1>5. PICK it : SumsBelow(f, S, Cardinality(S) + 1, it)
  BY <1>4
<1>6. ASSUME NEW s \in SUBSET S PROVE it[s] = SumStep(f, it, s)
  <2>1. Cardinality(s) <= Cardinality(S)
    BY FS_Subset
  <2> QED
    BY <1>1, <1>5, <2>1 DEF SumsBelow
<1>7. IsSum(f, S, it)
  BY <1>5, <1>6 DEF SumsBelow, IsSum
<1> QED
  BY <1>7

(* Two solutions agree where their functions do.                           *)
LEMMA SumUnique ==
  ASSUME NEW f, NEW g, NEW S, NEW T, IsFiniteSet(T), T \subseteq S, NEW a, NEW b,
         IsSum(f, S, a), IsSum(g, T, b), \A x \in T : f[x] = g[x]
  PROVE  \A s \in SUBSET T : a[s] = b[s]
<1> DEFINE Agree == {k \in Nat : \A s \in SUBSET T : Cardinality(s) = k => a[s] = b[s]}
<1>1. ASSUME NEW s \in SUBSET T
      PROVE  /\ IsFiniteSet(s) /\ Cardinality(s) \in Nat
             /\ a[s] = SumStep(f, a, s) /\ b[s] = SumStep(g, b, s)
  BY FS_Subset, FS_CardinalityType DEF IsSum
<1>2. ASSUME NEW k \in Nat, \A m \in Nat : m < k => m \in Agree PROVE k \in Agree
  <2> SUFFICES ASSUME NEW s \in SUBSET T, Cardinality(s) = k PROVE a[s] = b[s]
    OBVIOUS
  <2>1. CASE s = {}
    BY <1>1, <2>1 DEF SumStep
  <2>2. CASE s # {}
    <3> DEFINE r == s \ {Chosen(s)}
    <3>1. Chosen(s) \in T /\ r \in SUBSET T /\ Cardinality(r) \in Nat /\ Cardinality(r) < k
      BY <1>1, <2>2, ChosenIn, OneFewer
    <3>2. a[r] = b[r]
      BY <1>2, <3>1
    <3> QED
      BY <1>1, <2>2, <3>1, <3>2 DEF SumStep
  <2> QED
    BY <2>1, <2>2
<1>3. Nat \subseteq Agree
  <2> HIDE DEF Agree
  <2> QED
    BY <1>2, AllNumbers
<1> QED
  BY <1>1, <1>3

LEMMA SumIsOne ==
  ASSUME NEW f, NEW S, IsFiniteSet(S)
  PROVE  \E it : IsSum(f, S, it) /\ \A s \in SUBSET S : SumFunctionOnSet(f, s) = it[s]
<1> DEFINE it == CHOOSE h : IsSum(f, S, h)
<1>1. IsSum(f, S, it)
  BY SumExists
<1>2. ASSUME NEW s \in SUBSET S PROVE SumFunctionOnSet(f, s) = it[s]
  <2> DEFINE is == CHOOSE h : IsSum(f, s, h)
  <2>1. IsFiniteSet(s)
    BY FS_Subset
  <2>2. IsSum(f, s, is) /\ SumFunctionOnSet(f, s) = is[s]
    BY <2>1, SumExists, SumByDefinition
  <2> HIDE DEF it, is
  <2>3. it[s] = is[s]
    BY <1>1, <2>1, <2>2, SumUnique
  <2> QED
    BY <2>2, <2>3
<1> HIDE DEF it
<1> QED
  BY <1>1, <1>2

LEMMA SumSame ==
  ASSUME NEW f, NEW g, NEW S, IsFiniteSet(S), \A x \in S : f[x] = g[x]
  PROVE  SumFunctionOnSet(f, S) = SumFunctionOnSet(g, S)
<1>1. PICK a : IsSum(f, S, a) /\ \A s \in SUBSET S : SumFunctionOnSet(f, s) = a[s]
  BY SumIsOne
<1>2. PICK b : IsSum(g, S, b) /\ \A s \in SUBSET S : SumFunctionOnSet(g, s) = b[s]
  BY SumIsOne
<1>3. \A s \in SUBSET S : a[s] = b[s]
  <2>1. IsSum(f, S, a) /\ IsSum(g, S, b) /\ S \subseteq S
    BY <1>1, <1>2
  <2> QED
    BY ONLY <2>1, SumUnique, IsFiniteSet(S), \A x \in S : f[x] = g[x]
<1> QED
  BY <1>1, <1>2, <1>3

LEMMA SumNone ==
  ASSUME NEW f
  PROVE  SumFunctionOnSet(f, {}) = 0
<1>1. IsFiniteSet({})
  BY FS_EmptySet
<1>2. PICK a : IsSum(f, {}, a) /\ \A s \in SUBSET {} : SumFunctionOnSet(f, s) = a[s]
  BY <1>1, SumIsOne
<1> QED
  BY <1>2 DEF IsSum, SumStep

LEMMA SumChosen ==
  ASSUME NEW f, NEW S, IsFiniteSet(S), S # {}
  PROVE  SumFunctionOnSet(f, S) = f[Chosen(S)] + SumFunctionOnSet(f, S \ {Chosen(S)})
<1>1. PICK a : IsSum(f, S, a) /\ \A s \in SUBSET S : SumFunctionOnSet(f, s) = a[s]
  BY SumIsOne
<1>2. a[S] = SumStep(f, a, S)
  BY <1>1 DEF IsSum
<1> QED
  BY <1>1, <1>2 DEF SumStep

LEMMA SumType ==
  ASSUME NEW f, NEW S, IsFiniteSet(S), \A x \in S : f[x] \in Int
  PROVE  SumFunctionOnSet(f, S) \in Int
<1> DEFINE Typed == {k \in Nat : \A s \in SUBSET S : Cardinality(s) = k => SumFunctionOnSet(f, s) \in Int}
<1>1. ASSUME NEW s \in SUBSET S PROVE IsFiniteSet(s) /\ Cardinality(s) \in Nat
  BY FS_Subset, FS_CardinalityType
<1>2. ASSUME NEW k \in Nat, \A m \in Nat : m < k => m \in Typed PROVE k \in Typed
  <2> SUFFICES ASSUME NEW s \in SUBSET S, Cardinality(s) = k PROVE SumFunctionOnSet(f, s) \in Int
    OBVIOUS
  <2>1. CASE s = {}
    BY <2>1, SumNone
  <2>2. CASE s # {}
    <3> DEFINE r == s \ {Chosen(s)}
    <3>1. Chosen(s) \in S /\ r \in SUBSET S /\ Cardinality(r) \in Nat /\ Cardinality(r) < k
      BY <1>1, <2>2, ChosenIn, OneFewer
    <3>2. SumFunctionOnSet(f, r) \in Int
      BY <1>2, <3>1
    <3> QED
      BY <1>1, <2>2, <3>1, <3>2, SumChosen
  <2> QED
    BY <2>1, <2>2
<1>3. Nat \subseteq Typed
  <2> HIDE DEF Typed
  <2> QED
    BY <1>2, AllNumbers
<1> QED
  BY <1>1, <1>3

(* Out element may be taken first.                                         *)
LEMMA SumLess ==
  ASSUME NEW f, NEW S, IsFiniteSet(S), \A x \in S : f[x] \in Int, NEW x \in S
  PROVE  SumFunctionOnSet(f, S) = f[x] + SumFunctionOnSet(f, S \ {x})
<1> DEFINE Out == {k \in Nat : \A s \in SUBSET S : Cardinality(s) = k =>
                     \A y \in s : SumFunctionOnSet(f, s) = f[y] + SumFunctionOnSet(f, s \ {y})}
<1>1. ASSUME NEW s \in SUBSET S
      PROVE  /\ IsFiniteSet(s) /\ Cardinality(s) \in Nat /\ SumFunctionOnSet(f, s) \in Int
  BY FS_Subset, FS_CardinalityType, SumType
<1>2. ASSUME NEW k \in Nat, \A m \in Nat : m < k => m \in Out PROVE k \in Out
  <2> SUFFICES ASSUME NEW s \in SUBSET S, Cardinality(s) = k, NEW y \in s
               PROVE  SumFunctionOnSet(f, s) = f[y] + SumFunctionOnSet(f, s \ {y})
    OBVIOUS
  <2> DEFINE c == Chosen(s)
  <2>1. c \in s
    BY ChosenIn
  <2>2. SumFunctionOnSet(f, s) = f[c] + SumFunctionOnSet(f, s \ {c})
    BY <1>1, SumChosen
  <2>3. CASE c = y
    BY <2>2, <2>3
  <2>4. CASE c # y
    <3> HIDE DEF c
    <3> DEFINE u == s \ {c}
               v == s \ {y}
               w == u \ {y}
    <3>1. /\ u \in SUBSET S /\ v \in SUBSET S /\ y \in u /\ c \in v /\ w \in SUBSET S
          /\ w = v \ {c}
      BY <2>1, <2>4
    <3>2. /\ Cardinality(u) \in Nat /\ Cardinality(u) < k
          /\ Cardinality(v) \in Nat /\ Cardinality(v) < k
      BY <1>1, <2>1, OneFewer
    <3> HIDE DEF u, v, w
    <3>3. SumFunctionOnSet(f, u) = f[y] + SumFunctionOnSet(f, u \ {y})
      BY <1>2, <3>1, <3>2
    <3>4. SumFunctionOnSet(f, v) = f[c] + SumFunctionOnSet(f, v \ {c})
      BY <1>2, <3>1, <3>2
    <3>5. SumFunctionOnSet(f, w) \in Int /\ f[c] \in Int /\ f[y] \in Int
      BY <1>1, <2>1, <3>1
    <3>6. SumFunctionOnSet(f, s) = f[c] + (f[y] + SumFunctionOnSet(f, w))
      BY <2>2, <3>3 DEF u, w
    <3>7. SumFunctionOnSet(f, v) = f[c] + SumFunctionOnSet(f, w)
      BY <3>1, <3>4
    <3>8. SumFunctionOnSet(f, s) = f[y] + SumFunctionOnSet(f, v)
      BY <3>5, <3>6, <3>7
    <3> QED
      BY <3>8 DEF v
  <2> QED
    BY <2>3, <2>4
<1>3. Nat \subseteq Out
  <2> HIDE DEF Out
  <2> QED
    BY <1>2, AllNumbers
<1> QED
  BY <1>1, <1>3

(* An element more.                                                        *)
LEMMA SumMore ==
  ASSUME NEW f, NEW S, IsFiniteSet(S), NEW x, x \notin S, \A y \in S \cup {x} : f[y] \in Int
  PROVE  SumFunctionOnSet(f, S \cup {x}) = f[x] + SumFunctionOnSet(f, S)
<1> DEFINE T == S \cup {x}
<1>1. IsFiniteSet(T) /\ x \in T /\ T \ {x} = S
  BY FS_AddElement
<1>2. \A y \in T : f[y] \in Int
  OBVIOUS
<1> HIDE DEF T
<1>3. SumFunctionOnSet(f, T) = f[x] + SumFunctionOnSet(f, T \ {x})
  BY <1>1, <1>2, SumLess
<1> QED
  BY <1>1, <1>3 DEF T

(* One element has a value greater by one.                                 *)
LEMMA SumRaised ==
  ASSUME NEW f, NEW g, NEW S, IsFiniteSet(S), NEW x, \A y \in S : f[y] \in Int,
         \A y \in S : y # x => g[y] = f[y], x \in S => g[x] = f[x] + 1
  PROVE  SumFunctionOnSet(g, S) = SumFunctionOnSet(f, S) + IF x \in S THEN 1 ELSE 0
<1>1. SumFunctionOnSet(f, S) \in Int
  BY SumType
<1>2. CASE x \notin S
  <2>1. \A y \in S : g[y] = f[y]
    BY <1>2
  <2>2. SumFunctionOnSet(g, S) = SumFunctionOnSet(f, S)
    BY <2>1, SumSame
  <2> QED
    BY <1>1, <1>2, <2>2
<1>3. CASE x \in S
  <2> DEFINE r == S \ {x}
  <2>1. IsFiniteSet(r) /\ x \notin r /\ r \subseteq S
    BY FS_Subset
  <2>2. \A y \in S : g[y] \in Int
    <3>1. f[x] + 1 \in Int
      BY <1>3
    <3> QED
      BY <1>3, <3>1
  <2>3. SumFunctionOnSet(f, S) = f[x] + SumFunctionOnSet(f, r)
    BY <1>3, SumLess
  <2>4. SumFunctionOnSet(g, S) = g[x] + SumFunctionOnSet(g, r)
    BY <1>3, <2>2, SumLess
  <2> HIDE DEF r
  <2>5. SumFunctionOnSet(f, r) = SumFunctionOnSet(g, r) /\ SumFunctionOnSet(f, r) \in Int
    <3>1. \A y \in r : f[y] = g[y] /\ f[y] \in Int
      BY <2>1
    <3> QED
      BY <2>1, <3>1, SumSame, SumType
  <2>6. g[x] = f[x] + 1 /\ f[x] \in Int
    BY <1>3
  <2> QED
    BY <1>3, <2>3, <2>4, <2>5, <2>6
<1> QED
  BY <1>2, <1>3

(* Two sets that share nothing.                                            *)
LEMMA SumOfTwo ==
  ASSUME NEW f, NEW S, NEW T, IsFiniteSet(S), IsFiniteSet(T), S \cap T = {},
         \A y \in S \cup T : f[y] \in Int
  PROVE  SumFunctionOnSet(f, S \cup T) = SumFunctionOnSet(f, S) + SumFunctionOnSet(f, T)
<1> DEFINE Right == {k \in Nat : \A s \in SUBSET T : Cardinality(s) = k =>
              SumFunctionOnSet(f, S \cup s) = SumFunctionOnSet(f, S) + SumFunctionOnSet(f, s)}
<1>1. ASSUME NEW s \in SUBSET T
      PROVE  IsFiniteSet(s) /\ Cardinality(s) \in Nat /\ SumFunctionOnSet(f, s) \in Int
  BY FS_Subset, FS_CardinalityType, SumType
<1>2. SumFunctionOnSet(f, S) \in Int
  BY SumType
<1>3. ASSUME NEW k \in Nat, \A m \in Nat : m < k => m \in Right PROVE k \in Right
  <2> SUFFICES ASSUME NEW s \in SUBSET T, Cardinality(s) = k
               PROVE  SumFunctionOnSet(f, S \cup s) = SumFunctionOnSet(f, S) + SumFunctionOnSet(f, s)
    OBVIOUS
  <2>1. CASE s = {}
    <3>1. S \cup s = S /\ SumFunctionOnSet(f, s) = 0
      BY <2>1, SumNone
    <3>2. SumFunctionOnSet(f, S \cup s) = SumFunctionOnSet(f, S)
      BY <3>1
    <3> QED
      BY ONLY <1>2, <3>1, <3>2
  <2>2. CASE s # {}
    <3> DEFINE c == Chosen(s)
               r == s \ {c}
    <3>1. /\ c \in T /\ c \in s /\ r \in SUBSET T
          /\ Cardinality(r) \in Nat /\ Cardinality(r) < k
      BY <1>1, <2>2, ChosenIn, OneFewer
    <3>2. S \cup s = (S \cup r) \cup {c} /\ c \notin S \cup r /\ c \notin r /\ s = r \cup {c}
      BY <3>1
    <3>3. IsFiniteSet(S \cup r) /\ IsFiniteSet(r)
      BY <1>1, <3>1, FS_Union
    <3>4. \A y \in (S \cup r) \cup {c} : f[y] \in Int
      BY <3>1
    <3> HIDE DEF c, r
    <3>5. SumFunctionOnSet(f, S \cup r) = SumFunctionOnSet(f, S) + SumFunctionOnSet(f, r)
      BY <1>3, <3>1
    <3>6. SumFunctionOnSet(f, (S \cup r) \cup {c}) = f[c] + SumFunctionOnSet(f, S \cup r)
      BY <3>2, <3>3, <3>4, SumMore
    <3>7. SumFunctionOnSet(f, r \cup {c}) = f[c] + SumFunctionOnSet(f, r)
      BY <3>2, <3>3, <3>4, SumMore
    <3>8. f[c] \in Int /\ SumFunctionOnSet(f, r) \in Int
      BY <1>1, <3>1, <3>4
    <3>9. SumFunctionOnSet(f, S \cup s) = f[c] + SumFunctionOnSet(f, S \cup r)
      BY <3>2, <3>6
    <3>10. SumFunctionOnSet(f, s) = f[c] + SumFunctionOnSet(f, r)
      BY <3>2, <3>7
    <3> QED
      BY ONLY <1>2, <3>5, <3>8, <3>9, <3>10
  <2> QED
    BY <2>1, <2>2
<1>4. Nat \subseteq Right
  <2> HIDE DEF Right
  <2> QED
    BY <1>3, AllNumbers
<1> QED
  BY <1>1, <1>4

Merged(F, C) == UNION {F[c] : c \in C}

(* A family of sets that share nothing.                                    *)
LEMMA SumOfSums ==
  ASSUME NEW f, NEW C, IsFiniteSet(C), NEW F, NEW h,
         \A c \in C : IsFiniteSet(F[c]) /\ h[c] = SumFunctionOnSet(f, F[c]),
         \A c, d \in C : c # d => F[c] \cap F[d] = {},
         \A c \in C : \A y \in F[c] : f[y] \in Int
  PROVE  IsFiniteSet(Merged(F, C)) /\ SumFunctionOnSet(h, C) = SumFunctionOnSet(f, Merged(F, C))
<1> DEFINE U(s) == UNION {F[c] : c \in s}
           Right == {k \in Nat : \A s \in SUBSET C : Cardinality(s) = k =>
              IsFiniteSet(U(s)) /\ SumFunctionOnSet(h, s) = SumFunctionOnSet(f, U(s))}
<1>1. ASSUME NEW s \in SUBSET C PROVE IsFiniteSet(s) /\ Cardinality(s) \in Nat
  BY FS_Subset, FS_CardinalityType
<1>2. ASSUME NEW k \in Nat, \A m \in Nat : m < k => m \in Right PROVE k \in Right
  <2> SUFFICES ASSUME NEW s \in SUBSET C, Cardinality(s) = k
               PROVE  IsFiniteSet(U(s)) /\ SumFunctionOnSet(h, s) = SumFunctionOnSet(f, U(s))
    OBVIOUS
  <2>1. CASE s = {}
    <3>1. U(s) = {}
      BY <2>1
    <3> QED
      BY <2>1, <3>1, SumNone, FS_EmptySet
  <2>2. CASE s # {}
    <3> DEFINE c == Chosen(s)
               r == s \ {c}
    <3>1. /\ c \in C /\ c \in s /\ r \in SUBSET C
          /\ Cardinality(r) \in Nat /\ Cardinality(r) < k
      BY <1>1, <2>2, ChosenIn, OneFewer
    <3>2. U(s) = U(r) \cup F[c] /\ U(r) \cap F[c] = {}
      <4>1. \A d \in r : d \in C /\ d # c
        BY <3>1
      <4> HIDE DEF c
      <4> QED
        BY <3>1, <4>1
    <3>3. IsFiniteSet(U(r)) /\ SumFunctionOnSet(h, r) = SumFunctionOnSet(f, U(r))
      <4> HIDE DEF c, r
      <4> QED
        BY <1>2, <3>1
    <3>4. \A d \in s : h[d] \in Int
      <4>1. \A d \in C : h[d] \in Int
        BY SumType
      <4> QED
        BY <4>1
    <3>5. SumFunctionOnSet(h, s) = h[c] + SumFunctionOnSet(h, r)
      BY <1>1, <3>1, <3>4, SumLess
    <3>6. \A y \in U(r) \cup F[c] : f[y] \in Int
      <4> HIDE DEF c
      <4> QED
        BY <3>1
    <3>7. IsFiniteSet(F[c]) /\ h[c] = SumFunctionOnSet(f, F[c]) /\ h[c] \in Int
      BY <3>1, <3>4
    <3> DEFINE A == U(r)
               B == F[c]
    <3> HIDE DEF c, r, A, B
    <3>8. SumFunctionOnSet(f, A \cup B) = SumFunctionOnSet(f, A) + SumFunctionOnSet(f, B)
      <4>1. IsFiniteSet(A) /\ IsFiniteSet(B) /\ A \cap B = {} /\ \A y \in A \cup B : f[y] \in Int
        BY <3>2, <3>3, <3>6, <3>7 DEF A, B
      <4> QED
        BY <4>1, SumOfTwo
    <3>9. SumFunctionOnSet(f, A) \in Int
      <4>1. IsFiniteSet(A) /\ \A y \in A : f[y] \in Int
        BY <3>3, <3>6 DEF A, B
      <4> QED
        BY <4>1, SumType
    <3>10. IsFiniteSet(A \cup B)
      <4>1. IsFiniteSet(A) /\ IsFiniteSet(B)
        BY <3>3, <3>7 DEF A, B
      <4> QED
        BY <4>1, FS_Union
    <3>11. U(s) = A \cup B
      BY <3>2 DEF A, B
    <3>12. SumFunctionOnSet(h, r) = SumFunctionOnSet(f, A) /\ h[c] = SumFunctionOnSet(f, B)
      BY <3>3, <3>7 DEF A, B
    <3>13. SumFunctionOnSet(h, s) = SumFunctionOnSet(f, A \cup B)
      BY ONLY <3>5, <3>7, <3>8, <3>9, <3>12
    <3> HIDE DEF U
    <3> QED
      BY <3>10, <3>11, <3>13
  <2> QED
    BY <2>1, <2>2
<1>3. Nat \subseteq Right
  <2> HIDE DEF Right
  <2> QED
    BY <1>2, AllNumbers
<1> QED
  BY <1>1, <1>3 DEF Merged

(* No value but nought.                                                    *)
LEMMA SumZero ==
  ASSUME NEW f, NEW S, IsFiniteSet(S), \A x \in S : f[x] = 0
  PROVE  SumFunctionOnSet(f, S) = 0
<1> DEFINE Zeros == {k \in Nat : \A s \in SUBSET S : Cardinality(s) = k => SumFunctionOnSet(f, s) = 0}
<1>1. ASSUME NEW s \in SUBSET S PROVE IsFiniteSet(s) /\ Cardinality(s) \in Nat
  BY FS_Subset, FS_CardinalityType
<1>2. ASSUME NEW k \in Nat, \A m \in Nat : m < k => m \in Zeros PROVE k \in Zeros
  <2> SUFFICES ASSUME NEW s \in SUBSET S, Cardinality(s) = k PROVE SumFunctionOnSet(f, s) = 0
    OBVIOUS
  <2>1. CASE s = {}
    BY <2>1, SumNone
  <2>2. CASE s # {}
    <3> DEFINE c == Chosen(s)
               r == s \ {c}
    <3>1. c \in s /\ r \in SUBSET S
      BY <2>2, ChosenIn
    <3>2. Cardinality(r) \in Nat /\ Cardinality(r) < k
      BY <1>1, <3>1, OneFewer
    <3>3. SumFunctionOnSet(f, s) = f[c] + SumFunctionOnSet(f, r)
      BY <1>1, <2>2, SumChosen
    <3> HIDE DEF c, r
    <3>4. SumFunctionOnSet(f, r) = 0 /\ f[c] = 0
      BY <1>2, <3>1, <3>2
    <3> QED
      BY <3>3, <3>4
  <2> QED
    BY <2>1, <2>2
<1>3. Nat \subseteq Zeros
  <2> HIDE DEF Zeros
  <2> QED
    BY <1>2, AllNumbers
<1> QED
  BY <1>1, <1>3

(* What is added to a set counts nothing.                                  *)
LEMMA SumWithin ==
  ASSUME NEW f, NEW g, NEW S, NEW T, IsFiniteSet(T), S \subseteq T,
         \A x \in S : f[x] \in Int /\ g[x] = f[x], \A x \in T \ S : g[x] = 0
  PROVE  SumFunctionOnSet(g, T) = SumFunctionOnSet(f, S)
<1> DEFINE R == T \ S
<1>1. IsFiniteSet(S) /\ IsFiniteSet(R) /\ S \cap R = {} /\ S \cup R = T
  BY FS_Subset
<1>2. \A x \in S \cup R : g[x] \in Int
  <2>1. 0 \in Int
    OBVIOUS
  <2> QED
    BY <2>1
<1>3. \A x \in R : g[x] = 0
  OBVIOUS
<1> HIDE DEF R
<1>4. SumFunctionOnSet(g, S \cup R) = SumFunctionOnSet(g, S) + SumFunctionOnSet(g, R)
  BY <1>1, <1>2, SumOfTwo
<1>5. SumFunctionOnSet(g, R) = 0
  BY <1>1, <1>3, SumZero
<1>6. SumFunctionOnSet(g, S) = SumFunctionOnSet(f, S)
  BY <1>1, SumSame
<1>7. SumFunctionOnSet(f, S) \in Int
  BY <1>1, SumType
<1>8. SumFunctionOnSet(g, S \cup R) = SumFunctionOnSet(f, S)
  BY ONLY <1>4, <1>5, <1>6, <1>7
<1> QED
  BY <1>1, <1>8
------------------------------------------------------------------------------
(* The tree a call is entered in.                                          *)

LEMMA TreeIs ==
  ASSUME TypeInv
  PROVE  /\ Tree \in Seq(NodeRecords) /\ TreeOK(Tree) /\ Len(Tree) \in Nat \ {0} /\ Len(Tree) <= MaxNodes
         /\ paths # << >> => Tree = paths
         /\ Len(paths) \in Nat /\ Len(paths) <= Len(Tree)
         /\ Parent \in 1 .. Len(Tree)
<1> DEFINE n == Len(paths)
<1>1. paths \in Seq(NodeRecords) /\ TreeOK(Tree) /\ Len(Tree) <= MaxNodes /\ current \in 0 .. Len(paths)
  BY DEF TypeInv
<1>2. Tree \in Seq(NodeRecords) /\ Len(Tree) \in Nat \ {0}
  BY <1>1 DEF TreeOK
<1>3. paths # << >> => Tree = paths
  BY DEF Tree
<1>4. Len(paths) \in Nat
  BY <1>1, LenProperties
<1>5. Len(paths) <= Len(Tree)
  <2>1. CASE paths = << >>
    <3>1. Len(paths) = 0
      BY <2>1
    <3> QED
      BY <1>2, <3>1
  <2>2. CASE paths # << >>
    BY <1>2, <1>3, <2>2
  <2> QED
    BY <2>1, <2>2
<1>6. Parent \in 1 .. Len(Tree)
  <2> DEFINE m == Len(Tree)
  <2>1. n \in Nat /\ m \in Nat \ {0} /\ n <= m /\ current \in 0 .. n
    BY <1>1, <1>2, <1>4, <1>5
  <2> HIDE DEF n, m
  <2>2. Parent \in 1 .. m
    BY <2>1 DEF Parent, Root, NoPath
  <2> QED
    BY <2>2 DEF m
<1> QED
  BY <1>1, <1>2, <1>3, <1>4, <1>5, <1>6

NewNode(s, p) == [site |-> s, parent |-> p, calls |-> 0, self |-> 0]

LEMMA PathNodeIs ==
  ASSUME TypeInv, NEW s \in Sites
  PROVE  \/ /\ PathNode(s) \in 1 .. Len(Tree) /\ Grown(s) = Tree
            /\ \/ PathNode(s) = Parent /\ Folds(s)
               \/ PathNode(s) = Parent /\ FindsFull(s)
               \/ Tree[PathNode(s)].parent = Parent /\ Tree[PathNode(s)].site = s
         \/ /\ PathNode(s) = Len(Tree) + 1 /\ Len(Tree) < MaxNodes
            /\ Grown(s) = Append(Tree, NewNode(s, Parent))
<1> DEFINE n == Len(Tree)
<1>1. n \in Nat \ {0} /\ Parent \in 1 .. n /\ Tree \in Seq(NodeRecords)
  BY TreeIs
<1>2. DOMAIN Tree = 1 .. n
  BY <1>1, LenProperties
<1>3. CASE Folds(s) \/ FindsFull(s)
  <2>1. PathNode(s) = Parent
    BY <1>3 DEF PathNode
  <2>2. ~ PathNode(s) > n
    <3> HIDE DEF n
    <3> QED
      BY <1>1, <2>1
  <2>3. Grown(s) = Tree
    BY <2>2 DEF Grown
  <2> QED
    BY <1>1, <1>3, <2>1, <2>3
<1>4. CASE ~ (Folds(s) \/ FindsFull(s)) /\ ChildOf(Parent, s) # {}
  <2>1. PathNode(s) \in ChildOf(Parent, s)
    <3> DEFINE c == CHOOSE i \in ChildOf(Parent, s) : TRUE
    <3>1. c \in ChildOf(Parent, s)
      BY <1>4
    <3>2. PathNode(s) = c
      BY <1>4 DEF PathNode
    <3> QED
      BY <3>1, <3>2
  <2>2. PathNode(s) \in 1 .. n /\ Tree[PathNode(s)].parent = Parent /\ Tree[PathNode(s)].site = s
    BY <1>2, <2>1 DEF ChildOf
  <2>3. ~ PathNode(s) > n
    <3> HIDE DEF n
    <3> QED
      BY <1>1, <2>2
  <2>4. Grown(s) = Tree
    BY <2>3 DEF Grown
  <2> QED
    BY <2>2, <2>4
<1>5. CASE ~ (Folds(s) \/ FindsFull(s)) /\ ChildOf(Parent, s) = {}
  <2>1. PathNode(s) = n + 1
    BY <1>5 DEF PathNode, New
  <2>2. ~ n >= MaxNodes
    BY <1>5 DEF FindsFull, Full
  <2>3. n < MaxNodes /\ PathNode(s) > n
    <3> HIDE DEF n
    <3> QED
      BY <1>1, <2>1, <2>2, ProfilerAssumption
  <2>4. Grown(s) = Append(Tree, NewNode(s, Parent))
    BY <2>3 DEF Grown, NewNode
  <2> QED
    BY <2>1, <2>3, <2>4
<1> QED
  BY <1>3, <1>4, <1>5

(* A node's count or time changes: the tree does not.                      *)
LEMMA CountedNode ==
  ASSUME NEW x \in NodeRecords
  PROVE  /\ [x EXCEPT !.calls = @ + 1] \in NodeRecords
         /\ [x EXCEPT !.calls = @ + 1].site = x.site /\ [x EXCEPT !.calls = @ + 1].parent = x.parent
         /\ [x EXCEPT !.calls = @ + 1].self = x.self
<1> DEFINE S == Sites \union {"<toplevel>"}
<1>1. NodeRecords = [site : S, parent : Nat, calls : Nat, self : Int]
  BY DEF NodeRecords
<1> HIDE DEF S
<1> QED
  BY <1>1

LEMMA TimedNode ==
  ASSUME NEW x \in NodeRecords, NEW d \in Int
  PROVE  /\ [x EXCEPT !.self = @ + d] \in NodeRecords
         /\ [x EXCEPT !.self = @ + d].site = x.site /\ [x EXCEPT !.self = @ + d].parent = x.parent
         /\ [x EXCEPT !.self = @ + d].self = x.self + d
<1> DEFINE S == Sites \union {"<toplevel>"}
<1>1. NodeRecords = [site : S, parent : Nat, calls : Nat, self : Int]
  BY DEF NodeRecords
<1> HIDE DEF S
<1> QED
  BY <1>1

Alike(t, u) ==
  /\ u \in Seq(NodeRecords) /\ Len(u) = Len(t)
  /\ \A j \in 1 .. Len(t) : u[j].site = t[j].site /\ u[j].parent = t[j].parent

LEMMA NodeIs ==
  ASSUME NEW t \in Seq(NodeRecords), NEW j \in 1 .. Len(t)
  PROVE  t[j] \in NodeRecords
BY ElementOfSeq

LEMMA CountedTree ==
  ASSUME NEW t \in Seq(NodeRecords), NEW n \in 1 .. Len(t)
  PROVE  LET u == [t EXCEPT ![n].calls = @ + 1]
         IN  Alike(t, u) /\ \A j \in 1 .. Len(t) : u[j].self = t[j].self
<1> DEFINE r == [t[n] EXCEPT !.calls = @ + 1]
           u == [t EXCEPT ![n] = r]
<1>1. t[n] \in NodeRecords
  BY NodeIs
<1>2. r \in NodeRecords /\ r.site = t[n].site /\ r.parent = t[n].parent /\ r.self = t[n].self
  BY <1>1, CountedNode
<1> HIDE DEF r
<1>3. u \in Seq(NodeRecords) /\ Len(u) = Len(t) /\ \A j \in 1 .. Len(t) : u[j] = IF j = n THEN r ELSE t[j]
  BY <1>2, ExceptSeq
<1> HIDE DEF u
<1>4. Alike(t, u) /\ \A j \in 1 .. Len(t) : u[j].self = t[j].self
  BY <1>2, <1>3 DEF Alike
<1>5. u = [t EXCEPT ![n].calls = @ + 1]
  BY DEF u, r
<1> QED
  BY <1>4, <1>5

LEMMA TimedTree ==
  ASSUME NEW t \in Seq(NodeRecords), NEW n \in 1 .. Len(t), NEW d \in Int
  PROVE  LET u == [t EXCEPT ![n].self = @ + d]
         IN  Alike(t, u) /\ \A j \in 1 .. Len(t) : u[j].self = IF j = n THEN t[j].self + d ELSE t[j].self
<1> DEFINE r == [t[n] EXCEPT !.self = @ + d]
           u == [t EXCEPT ![n] = r]
<1>1. t[n] \in NodeRecords
  BY NodeIs
<1>2. r \in NodeRecords /\ r.site = t[n].site /\ r.parent = t[n].parent /\ r.self = t[n].self + d
  BY <1>1, TimedNode
<1> HIDE DEF r
<1>3. u \in Seq(NodeRecords) /\ Len(u) = Len(t) /\ \A j \in 1 .. Len(t) : u[j] = IF j = n THEN r ELSE t[j]
  BY <1>2, ExceptSeq
<1> HIDE DEF u
<1>4. Alike(t, u) /\ \A j \in 1 .. Len(t) : u[j].self = IF j = n THEN t[j].self + d ELSE t[j].self
  BY <1>2, <1>3 DEF Alike
<1>5. u = [t EXCEPT ![n].self = @ + d]
  BY DEF u, r
<1> QED
  BY <1>4, <1>5

LEMMA AlikeTree ==
  ASSUME NEW t, TreeOK(t), NEW u, Alike(t, u)
  PROVE  TreeOK(u)
<1> DEFINE n == Len(t)
<1>1. n \in Nat \ {0} /\ t[Root].parent = NoPath /\ t[Root].site = "<toplevel>"
      /\ \A j \in 2 .. n : t[j].parent \in 1 .. (j - 1) /\ t[j].site \in Sites
  BY DEF TreeOK
<1>2. u \in Seq(NodeRecords) /\ Len(u) = n
      /\ \A j \in 1 .. n : u[j].site = t[j].site /\ u[j].parent = t[j].parent
  BY DEF Alike
<1> HIDE DEF n
<1>3. Root \in 1 .. n /\ \A j \in 2 .. n : j \in 1 .. n
  BY <1>1 DEF Root
<1> QED
  BY <1>1, <1>2, <1>3 DEF TreeOK

LEMMA GrownTree ==
  ASSUME NEW t, TreeOK(t), NEW s \in Sites, NEW p \in 1 .. Len(t)
  PROVE  LET u == Append(t, NewNode(s, p))
         IN  /\ TreeOK(u) /\ u \in Seq(NodeRecords) /\ Len(u) = Len(t) + 1
             /\ u[Len(t) + 1] = NewNode(s, p) /\ \A j \in 1 .. Len(t) : u[j] = t[j]
<1> DEFINE n == Len(t)
           r == NewNode(s, p)
           u == Append(t, r)
<1>1. n \in Nat \ {0} /\ t[Root].parent = NoPath /\ t[Root].site = "<toplevel>" /\ t \in Seq(NodeRecords)
      /\ \A j \in 2 .. n : t[j].parent \in 1 .. (j - 1) /\ t[j].site \in Sites
  BY DEF TreeOK
<1>2. p \in Nat /\ p \in 1 .. n
  BY <1>1
<1>3. r \in NodeRecords /\ r.site = s /\ r.parent = p
  BY <1>2 DEF NodeRecords, NewNode
<1> HIDE DEF r
<1>4. u \in Seq(NodeRecords) /\ Len(u) = n + 1 /\ u[n + 1] = r /\ \A j \in 1 .. n : u[j] = t[j]
  BY <1>1, <1>3, AppendProperties
<1> HIDE DEF n, u
<1>5. Root \in 1 .. n
  BY <1>1 DEF Root
<1>6. ASSUME NEW j \in 2 .. n + 1 PROVE u[j].parent \in 1 .. (j - 1) /\ u[j].site \in Sites
  <2>1. CASE j = n + 1
    <3>1. j - 1 = n
      BY <1>1, <2>1
    <3> QED
      BY <1>2, <1>3, <1>4, <2>1, <3>1
  <2>2. CASE j # n + 1
    <3>1. j \in 2 .. n /\ j \in 1 .. n
      BY <1>1, <2>2
    <3> QED
      BY <1>1, <1>4, <3>1
  <2> QED
    BY <2>1, <2>2
<1>7. TreeOK(u)
  BY <1>1, <1>4, <1>5, <1>6 DEF TreeOK
<1>8. /\ TreeOK(u) /\ u \in Seq(NodeRecords) /\ Len(u) = n + 1
      /\ u[n + 1] = NewNode(s, p) /\ \A j \in 1 .. n : u[j] = t[j]
  BY <1>4, <1>7 DEF r
<1> QED
  BY <1>8 DEF n, u, r
LEMMA EnterTree ==
  ASSUME TypeInv, NEW s \in Sites, ProfileEnter(s)
  PROVE  /\ Tree' = paths' /\ TreeOK(paths') /\ paths' \in Seq(NodeRecords)
         /\ Len(paths') <= MaxNodes /\ Len(paths') \in Nat /\ Len(Tree) <= Len(paths') /\ paths' # << >>
         /\ PathNode(s) \in 1 .. Len(paths')
         /\ \A j \in 1 .. Len(Tree) : /\ paths'[j].site = Tree[j].site /\ paths'[j].parent = Tree[j].parent
                                      /\ paths'[j].self = Tree[j].self
         /\ \/ /\ Len(paths') = Len(Tree) /\ PathNode(s) \in 1 .. Len(Tree)
               /\ \/ PathNode(s) = Parent /\ Folds(s)
                  \/ PathNode(s) = Parent /\ FindsFull(s)
                  \/ Tree[PathNode(s)].parent = Parent /\ Tree[PathNode(s)].site = s
            \/ /\ Len(paths') = Len(Tree) + 1 /\ PathNode(s) = Len(Tree) + 1
               /\ paths'[PathNode(s)].site = s /\ paths'[PathNode(s)].parent = Parent
               /\ paths'[PathNode(s)].self = 0
<1> DEFINE n == Len(Tree)
           g == Grown(s)
           k == PathNode(s)
<1>1. /\ Tree \in Seq(NodeRecords) /\ TreeOK(Tree) /\ n \in Nat \ {0} /\ n <= MaxNodes
      /\ Parent \in 1 .. n
  BY TreeIs
<1>2. paths' = [g EXCEPT ![k].calls = @ + 1]
  BY DEF ProfileEnter
<1>3. /\ TreeOK(g) /\ g \in Seq(NodeRecords) /\ Len(g) <= MaxNodes /\ Len(g) \in Nat
      /\ n <= Len(g) /\ k \in 1 .. Len(g)
      /\ \A j \in 1 .. n : g[j].site = Tree[j].site /\ g[j].parent = Tree[j].parent /\ g[j].self = Tree[j].self
      /\ \/ /\ Len(g) = n /\ k \in 1 .. n
            /\ \/ k = Parent /\ Folds(s)
               \/ k = Parent /\ FindsFull(s)
               \/ Tree[k].parent = Parent /\ Tree[k].site = s
         \/ /\ Len(g) = n + 1 /\ k = n + 1
            /\ g[k].site = s /\ g[k].parent = Parent /\ g[k].self = 0
  <2>1. CASE /\ k \in 1 .. n /\ g = Tree
             /\ \/ k = Parent /\ Folds(s)
                \/ k = Parent /\ FindsFull(s)
                \/ Tree[k].parent = Parent /\ Tree[k].site = s
    <3> HIDE DEF k, g
    <3> QED
      BY <1>1, <2>1
  <2>2. CASE k = n + 1 /\ n < MaxNodes /\ g = Append(Tree, NewNode(s, Parent))
    <3>1. /\ TreeOK(g) /\ g \in Seq(NodeRecords) /\ Len(g) = n + 1
          /\ g[n + 1] = NewNode(s, Parent) /\ \A j \in 1 .. n : g[j] = Tree[j]
      BY <1>1, <2>2, GrownTree
    <3>2. g[k].site = s /\ g[k].parent = Parent /\ g[k].self = 0
      BY <2>2, <3>1 DEF NewNode
    <3>3. n + 1 <= MaxNodes
      <4> HIDE DEF n, k, g
      <4> QED
        BY <1>1, <2>2, ProfilerAssumption
    <3> HIDE DEF k, g, n
    <3> QED
      BY <1>1, <2>2, <3>1, <3>2, <3>3
  <2> QED
    BY <2>1, <2>2, PathNodeIs
<1>4. Alike(g, paths') /\ \A j \in 1 .. Len(g) : paths'[j].self = g[j].self
  BY <1>2, <1>3, CountedTree
<1>5. TreeOK(paths')
  BY <1>3, <1>4, AlikeTree
<1>6. /\ paths' \in Seq(NodeRecords) /\ Len(paths') = Len(g)
      /\ \A j \in 1 .. Len(g) : paths'[j].site = g[j].site /\ paths'[j].parent = g[j].parent
  BY <1>4 DEF Alike
<1>7. paths' # << >>
  <2>1. Len(paths') # 0
    <3> HIDE DEF k, g
    <3> QED
      BY <1>3, <1>6
  <2> QED
    BY <2>1
<1>8. Tree' = paths'
  BY <1>7 DEF Tree
<1> HIDE DEF k, g, n
<1>9. \A j \in 1 .. n : j \in 1 .. Len(g)
  BY <1>1, <1>3
<1> QED
  BY <1>3, <1>4, <1>5, <1>6, <1>7, <1>8, <1>9 DEF n, k

(* The call that returns.                                                  *)
Last == handles[Len(handles)]
Own == Elapsed(Last) - childTime[Len(childTime)]

LEMMA LastIs ==
  ASSUME TypeInv, handles # << >>
  PROVE  /\ Len(handles) \in Nat \ {0} /\ Len(childTime) \in Nat \ {0} /\ Len(handles) <= Len(childTime)
         /\ Last \in Handles /\ Last.site \in Sites /\ Last.start \in Nat /\ Last.start <= now
         /\ Last.node \in 1 .. Len(paths) /\ Last.prev \in 0 .. Len(paths)
         /\ Elapsed(Last) \in Nat /\ childTime[Len(childTime)] \in Nat /\ Own \in Int
         /\ paths # << >> /\ Tree = paths
<1> DEFINE n == Len(handles)
           m == Len(childTime)
<1>1. handles \in Seq(Handles) /\ childTime \in Seq(Nat) /\ n <= m /\ HandlesOK /\ now \in Nat
      /\ paths \in Seq(NodeRecords)
  BY DEF TypeInv
<1>2. n \in Nat \ {0} /\ m \in Nat
  BY <1>1, EmptySeq, LenProperties
<1>3. n \in 1 .. n /\ m \in 1 .. m /\ m \in Nat \ {0}
  <2> HIDE DEF n, m
  <2> QED
    BY <1>1, <1>2
<1>4. Last \in Handles
  BY <1>1, <1>3, ElementOfSeq DEF Last
<1>5. childTime[m] \in Nat
  BY <1>1, <1>3, ElementOfSeq
<1>6. Last.site \in Sites /\ Last.start \in Nat
  BY <1>4 DEF Handles
<1>7. Last.start <= now /\ Last.node \in 1 .. Len(paths) /\ Last.prev \in 0 .. Len(paths)
  BY <1>1, <1>3 DEF HandlesOK, Last
<1>8. Elapsed(Last) \in Nat
  BY <1>1, <1>6, <1>7 DEF Elapsed
<1>9. Own \in Int
  BY <1>5, <1>8 DEF Own
<1>10. paths # << >>
  <2>1. Len(paths) # 0
    BY <1>7
  <2> QED
    BY <2>1
<1>11. Tree = paths
  BY <1>10 DEF Tree
<1> QED
  BY <1>1, <1>2, <1>3, <1>4, <1>5, <1>6, <1>7, <1>8, <1>9, <1>10, <1>11

LEMMA FrontIs ==
  ASSUME NEW S, NEW q \in Seq(S), Len(q) \in Nat \ {0}
  PROVE  LET r == SubSeq(q, 1, Len(q) - 1)
         IN  /\ r \in Seq(S) /\ Len(r) = Len(q) - 1 /\ \A i \in 1 .. Len(q) - 1 : r[i] = q[i]
<1> DEFINE n == Len(q) - 1
<1>1. n \in Nat /\ n + 1 = Len(q)
  BY DEF n
<1> HIDE DEF n
<1>2. \A i \in 1 .. n : q[i] \in S
  <2>1. ASSUME NEW i \in 1 .. n PROVE i \in 1 .. n + 1
    BY <1>1
  <2> QED
    BY <1>1, <2>1, ElementOfSeq
<1>3. /\ SubSeq(q, 1, n) \in Seq(S)
      /\ Len(SubSeq(q, 1, n)) = IF 1 <= n THEN n - 1 + 1 ELSE 0
      /\ \A i \in 1 .. n - 1 + 1 : SubSeq(q, 1, n)[i] = q[1 + i - 1]
  <2>1. 1 \in Int /\ n \in Int
    BY <1>1
  <2> QED
    BY ONLY <1>2, <2>1, SubSeqProperties
<1>4. Len(SubSeq(q, 1, n)) = n
  BY <1>1, <1>3
<1>5. ASSUME NEW i \in 1 .. n PROVE SubSeq(q, 1, n)[i] = q[i]
  <2>1. i \in 1 .. n - 1 + 1 /\ 1 + i - 1 = i
    BY <1>1
  <2> QED
    BY <1>3, <2>1
<1> QED
  BY <1>3, <1>4, <1>5 DEF n

LEMMA ExitTree ==
  ASSUME TypeInv, ProfileExit
  PROVE  /\ Tree' = paths' /\ Alike(Tree, Tree') /\ TreeOK(Tree')
         /\ \A j \in 1 .. Len(Tree) :
              Tree'[j].self = IF j = Last.node THEN Tree[j].self + Own ELSE Tree[j].self
<1>1. handles # << >> /\ paths' = [paths EXCEPT ![Last.node].self = @ + Own]
  BY DEF ProfileExit, Last, Own
<1>2. Last.node \in 1 .. Len(paths) /\ Own \in Int /\ Tree = paths
  BY <1>1, LastIs
<1>3. paths \in Seq(NodeRecords) /\ TreeOK(Tree)
  BY DEF TypeInv
<1>4. Alike(Tree, paths') /\ \A j \in 1 .. Len(Tree) :
              paths'[j].self = IF j = Last.node THEN Tree[j].self + Own ELSE Tree[j].self
  <2> DEFINE k == Last.node
             d == Own
  <2>1. k \in 1 .. Len(paths) /\ d \in Int /\ paths \in Seq(NodeRecords)
    BY <1>2, <1>3
  <2> HIDE DEF k, d
  <2>2. LET u == [paths EXCEPT ![k].self = @ + d]
        IN  Alike(paths, u) /\ \A j \in 1 .. Len(paths) : u[j].self = IF j = k THEN paths[j].self + d ELSE paths[j].self
    BY <2>1, TimedTree
  <2>3. paths' = [paths EXCEPT ![k].self = @ + d]
    BY <1>1 DEF k, d
  <2>4. Alike(paths, paths') /\ \A j \in 1 .. Len(paths) : paths'[j].self = IF j = k THEN paths[j].self + d ELSE paths[j].self
    BY <2>2, <2>3
  <2> QED
    BY <1>2, <2>4 DEF k, d
<1>5. TreeOK(paths')
  BY <1>3, <1>4, AlikeTree
<1>6. Tree' = paths'
  <2>1. Len(paths') # 0
    BY <1>5 DEF TreeOK
  <2>2. paths' # << >>
    BY <2>1
  <2> QED
    BY <2>2 DEF Tree
<1> QED
  BY <1>4, <1>5, <1>6

(* What the calls left are when the last one returns.                      *)
LEMMA ExitCalls ==
  ASSUME TypeInv, ProfileExit
  PROVE  /\ handles' \in Seq(Handles) /\ Len(handles') = Len(handles) - 1
         /\ \A i \in 1 .. Len(handles) - 1 : handles'[i] = handles[i]
         /\ childTime' \in Seq(Nat) /\ Len(childTime') = Len(childTime) - 1
         /\ \A i \in 1 .. Len(childTime) - 1 :
              childTime'[i] = IF i = Len(childTime) - 1 THEN childTime[i] + Elapsed(Last) ELSE childTime[i]
<1> DEFINE b == SubSeq(childTime, 1, Len(childTime) - 1)
           e == Elapsed(Last)
           m == Len(childTime) - 1
<1>1. /\ handles # << >> /\ handles' = SubSeq(handles, 1, Len(handles) - 1)
      /\ childTime' = Propagated(Last, b)
  BY DEF ProfileExit, Last
<1>2. Len(handles) \in Nat \ {0} /\ Len(childTime) \in Nat \ {0} /\ e \in Nat
  BY <1>1, LastIs
<1>3. handles \in Seq(Handles) /\ childTime \in Seq(Nat)
  BY DEF TypeInv
<1>4. /\ handles' \in Seq(Handles) /\ Len(handles') = Len(handles) - 1
      /\ \A i \in 1 .. Len(handles) - 1 : handles'[i] = handles[i]
  BY <1>1, <1>2, <1>3, FrontIs
<1>5. b \in Seq(Nat) /\ Len(b) = m /\ \A i \in 1 .. m : b[i] = childTime[i]
  BY <1>2, <1>3, FrontIs
<1>6. m \in Nat
  BY <1>2
<1>7. childTime' = IF b = << >> THEN b ELSE [b EXCEPT ![Len(b)] = b[Len(b)] + e]
  BY <1>1 DEF Propagated
<1> HIDE DEF b, e, m
<1>8. /\ childTime' \in Seq(Nat) /\ Len(childTime') = m
      /\ \A i \in 1 .. m : childTime'[i] = IF i = m THEN childTime[i] + e ELSE childTime[i]
  <2>1. CASE b = << >>
    <3>1. m = 0
      BY <1>5, <2>1
    <3> QED
      BY <1>5, <1>7, <2>1, <3>1
  <2>2. CASE b # << >>
    <3>1. m \in Nat \ {0} /\ m \in 1 .. m
      <4>1. Len(b) \in Nat \ {0}
        BY <1>5, <2>2, EmptySeq
      <4> QED
        BY <1>5, <4>1
    <3>2. b[m] \in Nat /\ b[m] + e \in Nat
      <4>1. b[m] \in Nat
        BY <1>5, <3>1, ElementOfSeq
      <4> QED
        BY <1>2, <4>1
    <3>3. /\ [b EXCEPT ![m] = b[m] + e] \in Seq(Nat) /\ Len([b EXCEPT ![m] = b[m] + e]) = Len(b)
          /\ \A i \in 1 .. Len(b) : [b EXCEPT ![m] = b[m] + e][i] = IF i = m THEN b[m] + e ELSE b[i]
      BY <1>5, <3>1, <3>2, ExceptSeq
    <3>4. childTime' = [b EXCEPT ![m] = b[m] + e]
      BY <1>5, <1>7, <2>2
    <3> QED
      BY <1>5, <3>1, <3>3, <3>4
  <2> QED
    BY <2>1, <2>2
<1> QED
  BY <1>4, <1>8 DEF m, e
LEMMA CalledOnce ==
  ASSUME NEW f \in [Sites -> Records], NEW s \in Sites
  PROVE  LET g == [f EXCEPT ![s].calls = @ + 1]
         IN  /\ g \in [Sites -> Records]
             /\ \A t \in Sites : g[t].self = f[t].self /\ g[t].cumulative = f[t].cumulative
<1> DEFINE r == [f[s] EXCEPT !.calls = @ + 1]
           g == [f EXCEPT ![s] = r]
<1>1. f[s] \in Records
  OBVIOUS
<1>2. r \in Records /\ r.self = f[s].self /\ r.cumulative = f[s].cumulative
  BY <1>1 DEF Records
<1> HIDE DEF r
<1>3. g \in [Sites -> Records] /\ \A t \in Sites : g[t].self = f[t].self /\ g[t].cumulative = f[t].cumulative
  BY <1>2
<1>4. g = [f EXCEPT ![s].calls = @ + 1]
  BY DEF r
<1> QED
  BY <1>3, <1>4

LEMMA TimedOnce ==
  ASSUME NEW f \in [Sites -> Records], NEW s \in Sites, NEW d \in Int
  PROVE  LET g == [f EXCEPT ![s].self = @ + d]
         IN  /\ g \in [Sites -> Records]
             /\ \A t \in Sites : /\ g[t].self = IF t = s THEN f[t].self + d ELSE f[t].self
                                 /\ g[t].cumulative = f[t].cumulative
<1> DEFINE r == [f[s] EXCEPT !.self = @ + d]
           g == [f EXCEPT ![s] = r]
<1>1. f[s] \in Records
  OBVIOUS
<1>2. r \in Records /\ r.self = f[s].self + d /\ r.cumulative = f[s].cumulative
  BY <1>1 DEF Records
<1> HIDE DEF r
<1>3. g \in [Sites -> Records]
      /\ \A t \in Sites : /\ g[t].self = IF t = s THEN f[t].self + d ELSE f[t].self
                          /\ g[t].cumulative = f[t].cumulative
  BY <1>2
<1>4. g = [f EXCEPT ![s].self = @ + d]
  BY DEF r
<1> QED
  BY <1>3, <1>4

LEMMA CumulatedOnce ==
  ASSUME NEW f \in [Sites -> Records], NEW s \in Sites, NEW e \in Nat
  PROVE  LET g == [f EXCEPT ![s].cumulative = @ + e]
         IN  /\ g \in [Sites -> Records]
             /\ \A t \in Sites : /\ g[t].self = f[t].self
                                 /\ g[t].cumulative = IF t = s THEN f[t].cumulative + e ELSE f[t].cumulative
<1> DEFINE r == [f[s] EXCEPT !.cumulative = @ + e]
           g == [f EXCEPT ![s] = r]
<1>1. f[s] \in Records
  OBVIOUS
<1>2. r \in Records /\ r.self = f[s].self /\ r.cumulative = f[s].cumulative + e
  BY <1>1 DEF Records
<1> HIDE DEF r
<1>3. g \in [Sites -> Records]
      /\ \A t \in Sites : /\ g[t].self = f[t].self
                          /\ g[t].cumulative = IF t = s THEN f[t].cumulative + e ELSE f[t].cumulative
  BY <1>2
<1>4. g = [f EXCEPT ![s].cumulative = @ + e]
  BY DEF r
<1> QED
  BY <1>3, <1>4

LEMMA EnterTypes ==
  ASSUME TypeInv, NEW s \in Sites, ProfileEnter(s)
  PROVE  /\ runs' = runs /\ runs # 0 /\ now' = now /\ onTop' = onTop /\ inside' = inside
         /\ flat' \in [Sites -> Records]
         /\ \A t \in Sites : flat'[t].self = flat[t].self /\ flat'[t].cumulative = flat[t].cumulative
         /\ active' \subseteq Sites
         /\ childTime' \in Seq(Nat) /\ Len(childTime') = Len(childTime) + 1
         /\ childTime'[Len(childTime) + 1] = 0 /\ \A i \in 1 .. Len(childTime) : childTime'[i] = childTime[i]
         /\ current' = PathNode(s) /\ current' \in 0 .. Len(paths') /\ cut' \in BOOLEAN
         /\ Handle(s) \in Handles /\ PathNode(s) \in 1 .. Len(paths') /\ Len(paths) <= Len(paths')
         /\ Len(paths) \in Nat /\ Len(paths') \in Nat
<1>1. runs' = runs /\ runs # 0 /\ now' = now /\ onTop' = onTop /\ inside' = inside
  BY DEF ProfileEnter, clocks, TypeInv, Untouched
<1>2. /\ flat' \in [Sites -> Records]
      /\ \A t \in Sites : flat'[t].self = flat[t].self /\ flat'[t].cumulative = flat[t].cumulative
  <2>1. flat \in [Sites -> Records] /\ flat' = [flat EXCEPT ![s].calls = @ + 1]
    BY DEF TypeInv, ProfileEnter
  <2> QED
    BY <2>1, CalledOnce
<1>3. active' \subseteq Sites
  BY DEF TypeInv, ProfileEnter
<1>4. /\ childTime' \in Seq(Nat) /\ Len(childTime') = Len(childTime) + 1
      /\ childTime'[Len(childTime) + 1] = 0 /\ \A i \in 1 .. Len(childTime) : childTime'[i] = childTime[i]
  <2>1. childTime \in Seq(Nat) /\ childTime' = Append(childTime, 0) /\ 0 \in Nat
    BY DEF TypeInv, ProfileEnter
  <2> QED
    BY <2>1, AppendProperties
<1>5. /\ PathNode(s) \in 1 .. Len(paths') /\ Len(paths') \in Nat /\ Len(Tree) <= Len(paths')
      /\ current' = PathNode(s)
  BY EnterTree DEF ProfileEnter
<1>6. Len(paths) \in Nat /\ Len(paths) <= Len(Tree) /\ Len(Tree) \in Nat
  BY TreeIs
<1>7. cut' \in BOOLEAN
  <2>1. cut \in BOOLEAN /\ cut' = (cut \/ FindsFull(s)) /\ FindsFull(s) \in BOOLEAN
    BY DEF TypeInv, ProfileEnter, FindsFull
  <2> QED
    BY <2>1
<1>8. Handle(s) \in Handles
  <2>1. now \in Nat /\ current \in Nat /\ PathNode(s) \in Nat
    BY <1>5, <1>6 DEF TypeInv
  <2> QED
    BY <2>1 DEF Handle, Handles
<1> QED
  BY <1>1, <1>2, <1>3, <1>4, <1>5, <1>6, <1>7, <1>8

LEMMA TypesInit ==
  Init => TypeInv
<1> SUFFICES ASSUME Init PROVE TypeInv
  OBVIOUS
<1>1. flat \in [Sites -> Records]
  BY DEF Init, Unused, Records
<1>2. TreeOK(Tree) /\ Len(Tree) = 1
  <2>1. Tree = << ToplevelNode >>
    BY DEF Init, Tree
  <2>2. ToplevelNode \in NodeRecords
    BY DEF ToplevelNode, NodeRecords, NoPath
  <2>3. << ToplevelNode >> \in Seq(NodeRecords) /\ Len(<< ToplevelNode >>) = 1 /\ << ToplevelNode >>[1] = ToplevelNode
    BY <2>2
  <2> QED
    BY <2>1, <2>3 DEF TreeOK, Root, NoPath, ToplevelNode
<1>3. << >> \in Seq(NodeRecords) /\ << >> \in Seq(Handles) /\ << >> \in Seq(Nat) /\ Len(<< >>) = 0
  BY EmptySeq
<1>4. MaxNodes \in Nat \ {0} /\ MaxRuns \in Nat
  BY ProfilerAssumption
<1>5. HandlesOK
  BY <1>3 DEF HandlesOK, Init
<1>6. onTop \in [Sites -> Nat] /\ inside \in [Sites -> Nat] /\ now \in Nat
  BY DEF Init, Zero
<1>7. current \in 0 .. Len(paths) /\ Len(Tree) <= MaxNodes /\ runs \in 0 .. MaxRuns
  BY <1>2, <1>3, <1>4 DEF Init, NoPath
<1>8. Untouched
  BY DEF Init, Untouched
<1>9. /\ phase = "idle" /\ handles = << >> /\ active = {} /\ childTime = << >> /\ paths = << >>
      /\ cut = FALSE
  BY DEF Init
<1>10. handles \in Seq(Handles) /\ childTime \in Seq(Nat) /\ paths \in Seq(NodeRecords)
       /\ Len(handles) <= Len(childTime) /\ active \subseteq Sites
  BY <1>3, <1>9
<1> QED
  BY <1>1, <1>2, <1>5, <1>6, <1>7, <1>8, <1>9, <1>10 DEF TypeInv

LEMMA StartTypes ==
  ASSUME TypeInv, StartRun
  PROVE  TypeInv'
<1>1. /\ phase' = "running" /\ runs' = runs + 1 /\ runs < MaxRuns
      /\ flat' = [s \in Sites |-> Unused] /\ childTime' = << >> /\ active' = {}
      /\ handles' = handles /\ handles = << >> /\ paths' = paths /\ current' = current /\ cut' = cut
      /\ now' = 0 /\ onTop' = Zero /\ inside' = Zero
  BY DEF StartRun, Cleared, TypeInv
<1>2. Tree' = Tree
  BY <1>1 DEF Tree
<1>3. flat' \in [Sites -> Records]
  BY <1>1 DEF Unused, Records
<1>4. childTime' \in Seq(Nat) /\ Len(handles') = 0 /\ Len(childTime') = 0 /\ handles' \in Seq(Handles)
  BY <1>1, EmptySeq
<1>5. HandlesOK'
  BY <1>4 DEF HandlesOK
<1>6. now' \in Nat /\ onTop' \in [Sites -> Nat] /\ inside' \in [Sites -> Nat]
  BY <1>1 DEF Zero
<1>7. runs' \in 0 .. MaxRuns /\ runs' # 0
  BY <1>1, ProfilerAssumption DEF TypeInv
<1>8. /\ paths' \in Seq(NodeRecords) /\ TreeOK(Tree') /\ Len(Tree') <= MaxNodes
      /\ current' \in 0 .. Len(paths') /\ cut' \in BOOLEAN
  BY <1>1, <1>2 DEF TypeInv
<1> QED
  BY <1>1, <1>3, <1>4, <1>5, <1>6, <1>7, <1>8 DEF TypeInv

LEMMA EnterCallTypes ==
  ASSUME TypeInv, NEW s \in Sites, EnterUserCall(s)
  PROVE  TypeInv'
<1>1. ProfileEnter(s) /\ handles' = Append(handles, Handle(s)) /\ phase' = phase /\ phase = "running"
  BY DEF EnterUserCall, ProfileEnter
<1> DEFINE n == Len(handles)
<1>2. /\ handles \in Seq(Handles) /\ n \in Nat /\ n <= Len(childTime) /\ Len(childTime) \in Nat
      /\ runs \in 0 .. MaxRuns /\ now \in Nat /\ onTop \in [Sites -> Nat] /\ inside \in [Sites -> Nat]
      /\ \A i \in 1 .. n : /\ handles[i].start <= now
                           /\ handles[i].node \in 1 .. Len(paths) /\ handles[i].prev \in 0 .. Len(paths)
      /\ current \in 0 .. Len(paths)
  BY LenProperties DEF TypeInv, HandlesOK
<1>3. /\ handles' \in Seq(Handles) /\ Len(handles') = n + 1 /\ handles'[n + 1] = Handle(s)
      /\ \A i \in 1 .. n : handles'[i] = handles[i]
  BY <1>1, <1>2, EnterTypes, AppendProperties
<1>4. HandlesOK'
  <2>1. /\ PathNode(s) \in 1 .. Len(paths') /\ Len(paths) <= Len(paths') /\ now' = now
        /\ Len(paths) \in Nat /\ Len(paths') \in Nat
    BY <1>1, EnterTypes
  <2>2. Handle(s).start = now /\ Handle(s).node = PathNode(s) /\ Handle(s).prev = current
    BY DEF Handle
  <2> SUFFICES ASSUME NEW i \in 1 .. n + 1
               PROVE  /\ handles'[i].start <= now'
                      /\ handles'[i].node \in 1 .. Len(paths') /\ handles'[i].prev \in 0 .. Len(paths')
    BY <1>3 DEF HandlesOK
  <2>3. CASE i = n + 1
    BY <1>2, <1>3, <2>1, <2>2, <2>3
  <2>4. CASE i # n + 1
    <3>1. i \in 1 .. n
      BY <1>2, <2>4
    <3>2. /\ handles'[i] = handles[i] /\ handles[i].start <= now
          /\ handles[i].node \in 1 .. Len(paths) /\ handles[i].prev \in 0 .. Len(paths)
      BY <1>2, <1>3, <3>1
    <3> QED
      BY <2>1, <3>2
  <2> QED
    BY <2>3, <2>4
<1>5. Len(handles') <= Len(childTime')
  BY <1>1, <1>2, <1>3, EnterTypes
<1>6. /\ paths' \in Seq(NodeRecords) /\ TreeOK(Tree') /\ Len(Tree') <= MaxNodes
  BY <1>1, EnterTree
<1>7. /\ runs' \in 0 .. MaxRuns /\ runs' # 0 /\ flat' \in [Sites -> Records] /\ active' \subseteq Sites
      /\ childTime' \in Seq(Nat) /\ current' \in 0 .. Len(paths') /\ cut' \in BOOLEAN
      /\ now' \in Nat /\ onTop' \in [Sites -> Nat] /\ inside' \in [Sites -> Nat]
  BY <1>1, <1>2, EnterTypes
<1> QED
  BY <1>1, <1>3, <1>4, <1>5, <1>6, <1>7 DEF TypeInv

LEMMA EnterStoppedTypes ==
  ASSUME TypeInv, NEW s \in Sites, EnterStopped(s)
  PROVE  TypeInv'
<1>1. ProfileEnter(s) /\ handles' = handles /\ phase' = "failing"
  BY DEF EnterStopped
<1> DEFINE n == Len(handles)
<1>2. /\ handles \in Seq(Handles) /\ n \in Nat /\ n <= Len(childTime) /\ Len(childTime) \in Nat
      /\ runs \in 0 .. MaxRuns /\ now \in Nat /\ onTop \in [Sites -> Nat] /\ inside \in [Sites -> Nat]
      /\ \A i \in 1 .. n : /\ handles[i].start <= now
                           /\ handles[i].node \in 1 .. Len(paths) /\ handles[i].prev \in 0 .. Len(paths)
      /\ current \in 0 .. Len(paths)
  BY LenProperties DEF TypeInv, HandlesOK
<1>4. HandlesOK'
  <2>1. Len(paths) <= Len(paths') /\ now' = now /\ Len(paths) \in Nat /\ Len(paths') \in Nat
    BY <1>1, EnterTypes
  <2> QED
    BY <1>1, <1>2, <2>1 DEF HandlesOK
<1>5. Len(handles') <= Len(childTime')
  BY <1>1, <1>2, EnterTypes
<1>6. /\ paths' \in Seq(NodeRecords) /\ TreeOK(Tree') /\ Len(Tree') <= MaxNodes
  BY <1>1, EnterTree
<1>7. /\ runs' \in 0 .. MaxRuns /\ runs' # 0 /\ flat' \in [Sites -> Records] /\ active' \subseteq Sites
      /\ childTime' \in Seq(Nat) /\ current' \in 0 .. Len(paths') /\ cut' \in BOOLEAN
      /\ now' \in Nat /\ onTop' \in [Sites -> Nat] /\ inside' \in [Sites -> Nat]
  BY <1>1, <1>2, EnterTypes
<1> QED
  BY <1>1, <1>2, <1>4, <1>5, <1>6, <1>7 DEF TypeInv

(* The record of the site of the call that returns.                        *)
LEMMA ExitFlat ==
  ASSUME TypeInv, ProfileExit
  PROVE  /\ flat' \in [Sites -> Records]
         /\ \A t \in Sites :
              /\ flat'[t].self = IF t = Last.site THEN flat[t].self + Own ELSE flat[t].self
              /\ flat'[t].cumulative = IF t = Last.site
                                       THEN flat[t].cumulative + (IF Last.reentry THEN 0 ELSE Elapsed(Last))
                                       ELSE flat[t].cumulative
<1> DEFINE e == IF Cumulates(Last) THEN Elapsed(Last) ELSE 0
           d == Own
           s == Last.site
<1>1. handles # << >> /\ flat' = [flat EXCEPT ![s].self = @ + d, ![s].cumulative = @ + e]
  BY DEF ProfileExit, Last, Own
<1>2. s \in Sites /\ d \in Int /\ Elapsed(Last) \in Nat
  BY <1>1, LastIs
<1>3. e \in Nat
  BY <1>2
<1>4. flat \in [Sites -> Records]
  BY DEF TypeInv
<1> HIDE DEF e, d, s
<1>5. /\ flat' \in [Sites -> Records]
      /\ \A t \in Sites : /\ flat'[t].self = IF t = s THEN flat[t].self + d ELSE flat[t].self
                          /\ flat'[t].cumulative = IF t = s THEN flat[t].cumulative + e ELSE flat[t].cumulative
  <2> DEFINE g == [flat EXCEPT ![s].self = @ + d]
             h == [g EXCEPT ![s].cumulative = @ + e]
  <2>1. /\ g \in [Sites -> Records]
        /\ \A t \in Sites : /\ g[t].self = IF t = s THEN flat[t].self + d ELSE flat[t].self
                            /\ g[t].cumulative = flat[t].cumulative
    BY <1>2, <1>4, TimedOnce
  <2>2. flat' = h
    BY <1>1
  <2> HIDE DEF g
  <2>3. /\ h \in [Sites -> Records]
        /\ \A t \in Sites : /\ h[t].self = g[t].self
                            /\ h[t].cumulative = IF t = s THEN g[t].cumulative + e ELSE g[t].cumulative
    BY <1>2, <1>3, <2>1, CumulatedOnce
  <2> HIDE DEF h
  <2> QED
    BY <2>1, <2>2, <2>3
<1>6. e = IF Last.reentry THEN 0 ELSE Elapsed(Last)
  BY DEF e, Cumulates
<1> QED
  BY <1>5, <1>6 DEF d, s

LEMMA ExitTypes ==
  ASSUME TypeInv, ProfileExit
  PROVE  TypeInv'
<1>1. /\ handles # << >> /\ phase \in {"running", "failing"} /\ phase' = phase /\ runs' = runs
      /\ now' = now /\ onTop' = onTop /\ inside' = inside /\ cut' = cut /\ current' = Last.prev
      /\ active' \subseteq active
  BY DEF ProfileExit, clocks, Last
<1>2. /\ runs \in 0 .. MaxRuns /\ runs # 0 /\ active \subseteq Sites /\ cut \in BOOLEAN /\ now \in Nat
      /\ onTop \in [Sites -> Nat] /\ inside \in [Sites -> Nat] /\ HandlesOK /\ Len(Tree) <= MaxNodes
  BY <1>1 DEF TypeInv, Untouched
<1>3. /\ Len(handles) \in Nat \ {0} /\ Len(childTime) \in Nat \ {0} /\ Len(handles) <= Len(childTime)
      /\ Last.prev \in 0 .. Len(paths) /\ Tree = paths
  BY <1>1, LastIs
<1>4. Tree' = paths' /\ paths' \in Seq(NodeRecords) /\ Len(paths') = Len(paths) /\ TreeOK(Tree')
  BY <1>3, ExitTree DEF Alike
<1>5. HandlesOK'
  <2>1. \A i \in 1 .. Len(handles) - 1 : i \in 1 .. Len(handles)
    BY <1>3
  <2> QED
    BY <1>1, <1>2, <1>4, <2>1, ExitCalls DEF HandlesOK
<1>6. Len(handles') <= Len(childTime')
  BY <1>3, ExitCalls
<1>7. Len(Tree') <= MaxNodes /\ current' \in 0 .. Len(paths')
  BY <1>1, <1>2, <1>3, <1>4
<1>8. phase' \in {"running", "failing"}
  BY <1>1
<1>9. active' \subseteq Sites
  BY <1>1, <1>2
<1> QED
  BY <1>1, <1>2, <1>4, <1>5, <1>6, <1>7, <1>8, <1>9, ExitCalls, ExitFlat DEF TypeInv

LEMMA TickTypes ==
  ASSUME TypeInv, Tick
  PROVE  TypeInv' /\ runs # 0 /\ Tree' = Tree
<1>1. /\ now' = now + 1 /\ phase = "running"
      /\ phase' = phase /\ runs' = runs /\ handles' = handles /\ flat' = flat /\ active' = active
      /\ childTime' = childTime /\ paths' = paths /\ current' = current /\ cut' = cut
  BY DEF Tick
<1>2. runs # 0 /\ now \in Nat /\ Tree' = Tree
  BY <1>1 DEF TypeInv, Untouched, Tree
<1>3. onTop' \in [Sites -> Nat]
  <2>1. onTop \in [Sites -> Nat]
    BY DEF TypeInv
  <2>2. CASE handles = << >>
    BY <2>1, <2>2 DEF Tick
  <2>3. CASE handles # << >>
    <3>1. onTop' = [onTop EXCEPT ![Last.site] = @ + 1] /\ Last.site \in Sites
      BY <2>3, LastIs DEF Tick, Last
    <3> QED
      BY <2>1, <3>1
  <2> QED
    BY <2>2, <2>3
<1>4. inside' \in [Sites -> Nat]
  BY DEF Tick, TypeInv
<1>5. HandlesOK'
  <2>1. handles \in Seq(Handles) /\ HandlesOK
    BY DEF TypeInv
  <2>2. ASSUME NEW i \in 1 .. Len(handles) PROVE handles[i].start \in Nat
    <3>1. handles[i] \in Handles
      BY <2>1, ElementOfSeq
    <3> QED
      BY <3>1 DEF Handles
  <2> QED
    BY <1>1, <1>2, <2>1, <2>2 DEF HandlesOK
<1>6. now' \in Nat
  BY <1>1, <1>2
<1> QED
  BY <1>1, <1>2, <1>3, <1>4, <1>5, <1>6 DEF TypeInv

(* Steps that leave what has been measured as it is.                       *)
Measured == <<runs, handles, active, childTime, paths, current, now, onTop, inside, cut>>

LEMMA StillTypes ==
  ASSUME TypeInv, UNCHANGED Measured, flat' \in [Sites -> Records],
         phase' \in {"idle", "running", "failing", "reported"},
         phase' = phase \/ (phase # "idle" /\ (phase' = "failing" \/ handles = << >>))
  PROVE  TypeInv'
<1>1. /\ runs' = runs /\ handles' = handles /\ active' = active /\ childTime' = childTime /\ paths' = paths
      /\ current' = current /\ now' = now /\ onTop' = onTop /\ inside' = inside /\ cut' = cut
  BY DEF Measured
<1>2. Tree' = Tree
  BY <1>1 DEF Tree
<1>3. HandlesOK'
  BY <1>1 DEF TypeInv, HandlesOK
<1>4. phase' \in {"idle", "reported"} => handles = << >>
  BY DEF TypeInv
<1>5. runs = 0 => Untouched'
  BY <1>1 DEF TypeInv, Untouched
<1> QED
  BY <1>1, <1>2, <1>3, <1>4, <1>5 DEF TypeInv

LEMMA HopTypes ==
  ASSUME TypeInv, NEW s \in Sites, RecordTailCallHop(s)
  PROVE  /\ TypeInv' /\ UNCHANGED Measured /\ phase' = phase
         /\ \A t \in Sites : flat'[t].self = flat[t].self /\ flat'[t].cumulative = flat[t].cumulative
<1>1. UNCHANGED Measured /\ phase' = phase
  BY DEF RecordTailCallHop, clocks, Measured
<1>2. /\ flat' \in [Sites -> Records]
      /\ \A t \in Sites : flat'[t].self = flat[t].self /\ flat'[t].cumulative = flat[t].cumulative
  <2>1. flat \in [Sites -> Records] /\ flat' = [flat EXCEPT ![s].calls = @ + 1]
    BY DEF TypeInv, RecordTailCallHop
  <2> QED
    BY <2>1, CalledOnce
<1>3. phase' \in {"idle", "running", "failing", "reported"}
  BY <1>1 DEF TypeInv
<1> QED
  BY <1>1, <1>2, <1>3, StillTypes

LEMMA TypesStep ==
  ASSUME TypeInv, [Next]_vars
  PROVE  TypeInv'
<1>1. CASE StartRun
  BY <1>1, StartTypes
<1>2. CASE ProfileExit
  BY <1>2, ExitTypes
<1>3. CASE Tick
  BY <1>3, TickTypes
<1>4. CASE Fail
  <2>1. UNCHANGED Measured /\ flat' = flat /\ phase' = "failing" /\ phase = "running"
    BY <1>4 DEF Fail, Measured, clocks
  <2>2. flat' \in [Sites -> Records]
    BY <2>1 DEF TypeInv
  <2> QED
    BY <2>1, <2>2, StillTypes
<1>5. CASE EndRun
  <2>1. UNCHANGED Measured /\ flat' = flat /\ handles = << >> /\ phase # "idle" /\ phase' \in {"idle", "reported"}
    BY <1>5 DEF EndRun, Measured, clocks
  <2>2. flat' \in [Sites -> Records] /\ phase' \in {"idle", "running", "failing", "reported"}
    BY <2>1 DEF TypeInv
  <2> QED
    BY <2>1, <2>2, StillTypes
<1>6. ASSUME NEW s \in Sites, EnterUserCall(s) \/ EnterStopped(s) \/ RecordTailCallHop(s)
      PROVE  TypeInv'
  BY <1>6, EnterCallTypes, EnterStoppedTypes, HopTypes
<1>7. CASE UNCHANGED vars
  <2>1. UNCHANGED Measured /\ flat' = flat /\ phase' = phase
    BY <1>7 DEF vars, Measured
  <2>2. flat' \in [Sites -> Records] /\ phase' \in {"idle", "running", "failing", "reported"}
    BY <2>1 DEF TypeInv
  <2> QED
    BY <2>1, <2>2, StillTypes
<1> QED
  BY <1>1, <1>2, <1>3, <1>4, <1>5, <1>6, <1>7 DEF Next

LEMMA TypesKept == Spec => []TypeInv
<1>1. TypeInv /\ [Next]_vars => TypeInv'
  BY TypesStep
<1> QED
  BY <1>1, TypesInit, PTL DEF Spec

(* The state of the profiler keeps its types, its limits and its shape: no *)
(* handle, and no node, refers to a node that is not there.                *)
THEOREM TypeCorrect == Spec => []TypeOK
<1>1. TypeInv => TypeOK
  <2> SUFFICES ASSUME TypeInv PROVE TypeOK
    OBVIOUS
  <2>1. /\ TreeOK(Tree) /\ Len(paths) \in Nat /\ Len(paths) <= Len(Tree) /\ (paths # << >> => Tree = paths)
        /\ Len(Tree) \in Nat /\ Len(Tree) <= MaxNodes
    BY TreeIs
  <2>2. Len(paths) <= MaxNodes
    BY <2>1, ProfilerAssumption
  <2>3. paths \in Seq(NodeRecords) /\ handles \in Seq(Handles) /\ HandlesOK
    BY DEF TypeInv
  <2>4. DOMAIN paths = 1 .. Len(paths) /\ DOMAIN handles = 1 .. Len(handles)
    BY <2>3, LenProperties
  <2>5. ASSUME NEW i \in DOMAIN paths PROVE paths[i].parent < i /\ paths[i].self \in Int
    <3>1. i \in 1 .. Len(paths) /\ paths # << >> /\ TreeOK(paths)
      BY <2>1, <2>4
    <3>2. paths[i] \in NodeRecords
      BY <2>3, <3>1, NodeIs
    <3>3. CASE i = Root
      BY <3>1, <3>2, <3>3 DEF TreeOK, Root, NoPath, NodeRecords
    <3>4. CASE i # Root
      <4>1. i \in 2 .. Len(paths)
        BY <2>1, <3>1, <3>4 DEF Root
      <4> QED
        BY <3>1, <3>2, <4>1 DEF TreeOK, NodeRecords
    <3> QED
      BY <3>3, <3>4
  <2>6. \A i \in DOMAIN handles : handles[i].node \in DOMAIN paths
    BY <2>3, <2>4 DEF HandlesOK
  <2>7. flat \in [Sites -> [calls : Nat, self : Int, cumulative : Nat]]
    BY DEF TypeInv, Records
  <2> QED
    BY <2>2, <2>5, <2>6, <2>7 DEF TypeInv, TypeOK
<1> QED
  BY <1>1, TypesKept, PTL
------------------------------------------------------------------------------
(* The table.                                                              *)

LEMMA HandleIs ==
  ASSUME NEW q \in Seq(Handles)
  PROVE  /\ Len(q) \in Nat /\ DOMAIN q = 1 .. Len(q) /\ (q = << >> <=> Len(q) = 0)
         /\ \A i \in 1 .. Len(q) : /\ q[i] \in Handles /\ q[i].site \in Sites /\ q[i].start \in Nat
                                   /\ q[i].reentry \in BOOLEAN
<1>1. ASSUME NEW i \in 1 .. Len(q) PROVE q[i] \in Handles
  BY ElementOfSeq
<1>2. \A h \in Handles : h.site \in Sites /\ h.start \in Nat /\ h.reentry \in BOOLEAN
  BY DEF Handles
<1>3. q # << >> => Len(q) # 0
  BY EmptySeq
<1> QED
  BY <1>1, <1>2, <1>3, LenProperties

LEMMA OpenIs ==
  ASSUME TypeInv
  PROVE  OpenSites = {handles[i].site : i \in 1 .. Len(handles)}
BY HandleIs DEF OpenSites, TypeInv

LEMMA CallsAre ==
  ASSUME NEW q \in Seq(Handles), NEW c \in Seq(Nat), Len(c) = Len(q)
  PROVE  Calls(q, c, Len(q))
<1>1. \A i \in 1 .. Len(c) : c[i] \in Nat
  BY ElementOfSeq
<1> QED
  BY <1>1, HandleIs DEF Calls

LEMMA TableStart ==
  ASSUME TypeInv, StartRun
  PROVE  TableInv'
<1>1. /\ flat' = [s \in Sites |-> Unused] /\ childTime' = << >> /\ active' = {}
      /\ handles' = << >> /\ now' = 0 /\ onTop' = Zero /\ inside' = Zero
  BY DEF StartRun, Cleared, TypeInv
<1>2. TypeInv'
  BY StartTypes
<1>3. Len(handles') = 0 /\ Len(childTime') = 0
  BY <1>1, EmptySeq
<1>4. OpenSites' = {}
  BY <1>1 DEF OpenSites
<1>5. SelfExact'
  <2> SUFFICES ASSUME NEW s \in Sites
               PROVE  Tallied(handles', childTime', From(handles', s), now', onTop'[s] - flat'[s].self)
    BY DEF SelfExact
  <2>1. onTop'[s] - flat'[s].self = 0
    BY <1>1 DEF Zero, Unused
  <2> QED
    BY <1>3, <2>1, TallyNone
<1>6. CumulativeExact'
  BY <1>1, <1>3, <1>4 DEF CumulativeExact, Zero, Unused
<1>7. ReentriesExact'
  BY <1>3 DEF ReentriesExact
<1> QED
  BY <1>1, <1>3, <1>4, <1>5, <1>6, <1>7 DEF TableInv

LEMMA TableEnter ==
  ASSUME TypeInv, TableInv, NEW s \in Sites, EnterUserCall(s)
  PROVE  TableInv'
<1> DEFINE n == Len(handles)
<1>1. ProfileEnter(s) /\ handles' = Append(handles, Handle(s)) /\ active' = active \union {s}
  BY DEF EnterUserCall, ProfileEnter
<1>2. handles \in Seq(Handles) /\ childTime \in Seq(Nat) /\ Len(childTime) = n
      /\ handles' \in Seq(Handles) /\ childTime' \in Seq(Nat) /\ now \in Nat /\ TypeInv'
      /\ onTop \in [Sites -> Nat] /\ flat \in [Sites -> Records] /\ inside \in [Sites -> Nat]
  BY EnterCallTypes DEF TypeInv, TableInv
<1>3. n \in Nat /\ \A i \in 1 .. n : handles[i].site \in Sites /\ handles[i].start \in Nat
  BY <1>2, HandleIs
<1>4. /\ Len(handles') = n + 1 /\ handles'[n + 1] = Handle(s)
      /\ \A i \in 1 .. n : handles'[i] = handles[i]
  BY <1>1, <1>2, EnterTypes, AppendProperties
<1>5. /\ Len(childTime') = n + 1 /\ childTime'[n + 1] = 0
      /\ \A i \in 1 .. n : childTime'[i] = childTime[i]
      /\ now' = now /\ onTop' = onTop /\ inside' = inside
      /\ \A t \in Sites : flat'[t].self = flat[t].self /\ flat'[t].cumulative = flat[t].cumulative
  BY <1>1, <1>2, EnterTypes
<1>6. Handle(s).site = s /\ Handle(s).start = now /\ Handle(s).reentry = (s \in active)
  BY DEF Handle
<1>7. Calls(handles, childTime, n) /\ Calls(handles', childTime', n + 1)
  BY <1>2, <1>4, <1>5, CallsAre
<1>8. /\ OpenSites = {handles[i].site : i \in 1 .. n} /\ active = OpenSites
      /\ OpenSites' = {handles'[i].site : i \in 1 .. n + 1}
  <2>1. (TypeInv => OpenSites = {handles[i].site : i \in 1 .. Len(handles)})'
    BY OpenIs, PTL
  <2> QED
    BY <1>2, <1>4, <2>1, OpenIs DEF TableInv
<1> HIDE DEF n
<1>9. OpenSites' = OpenSites \union {s}
  <2>1. \A i \in 1 .. n : i \in 1 .. n + 1
    BY <1>3
  <2>2. \A i \in 1 .. n + 1 : i = n + 1 \/ i \in 1 .. n
    BY <1>3
  <2>3. n + 1 \in 1 .. n + 1
    BY <1>3
  <2> QED
    BY <1>4, <1>6, <1>8, <2>1, <2>2, <2>3
<1>10. ASSUME NEW t \in Sites
       PROVE  Tallied(handles', childTime', From(handles', t), now', onTop'[t] - flat'[t].self)
  <2> DEFINE M == From(handles, t)
             K == From(handles', t)
             d == onTop[t] - flat[t].self
  <2>1. K \cap (1 .. n) = M \cap (1 .. n)
    <3>1. \A i \in 1 .. n : i \in 1 .. n + 1
      BY <1>3
    <3>2. M = {i \in 1 .. n : handles[i].site = t} /\ K = {i \in 1 .. n + 1 : handles'[i].site = t}
      BY <1>4 DEF From, n
    <3> HIDE DEF M, K
    <3> QED
      BY <1>4, <3>1, <3>2
  <2>2. Tallied(handles, childTime, M, now, d)
    BY DEF TableInv, SelfExact
  <2>3. d \in Int
    <3>1. flat[t] \in Records
      BY <1>2
    <3>2. flat[t].self \in Int
      BY <3>1 DEF Records
    <3> QED
      BY <1>2, <3>2
  <2>4. handles'[n + 1].start = now
    BY <1>4, <1>6
  <2> HIDE DEF M, K, d
  <2>5. /\ \A i \in 1 .. n : handles'[i] = handles[i] /\ childTime'[i] = childTime[i]
        /\ childTime'[n + 1] = 0 /\ now \in Nat
    BY <1>2, <1>4, <1>5
  <2>6. Tallied(handles', childTime', K, now, d)
    BY ONLY <1>7, <2>1, <2>2, <2>3, <2>4, <2>5, TallyPush
  <2> QED
    BY <1>5, <2>6 DEF K, d
<1>11. ReentriesExact'
  <2> SUFFICES ASSUME NEW i \in 1 .. n + 1
               PROVE  handles'[i].reentry <=> \E j \in 1 .. (i - 1) : handles'[j].site = handles'[i].site
    BY <1>4 DEF ReentriesExact
  <2>1. \A j \in 1 .. (i - 1) : j \in 1 .. n
    BY <1>3
  <2>2. CASE i = n + 1
    <3>1. i - 1 = n /\ handles'[i].reentry = (s \in active) /\ handles'[i].site = s
      BY <1>3, <1>4, <1>6, <2>2
    <3>2. s \in active <=> \E j \in 1 .. n : handles[j].site = s
      BY <1>8
    <3>3. \A j \in 1 .. n : handles'[j].site = handles[j].site
      BY <1>4
    <3> QED
      BY ONLY <3>1, <3>2, <3>3
  <2>3. CASE i # n + 1
    <3>1. i \in 1 .. n
      BY <1>3, <2>3
    <3>2. handles[i].reentry <=> \E j \in 1 .. (i - 1) : handles[j].site = handles[i].site
      BY <3>1 DEF TableInv, ReentriesExact, n
    <3> QED
      BY <1>4, <2>1, <3>1, <3>2
  <2> QED
    BY <2>2, <2>3
<1>12. CumulativeExact'
  <2>1. ASSUME NEW i \in 1 .. n + 1, ~ handles'[i].reentry
        PROVE  flat'[handles'[i].site].cumulative + (now' - handles'[i].start) = inside'[handles'[i].site]
    <3>1. CASE i = n + 1
      <4>1. handles'[i].site = s /\ handles'[i].start = now /\ s \notin OpenSites
        BY <1>4, <1>6, <1>8, <2>1, <3>1
      <4>2. flat[s].cumulative = inside[s] /\ inside[s] \in Nat
        BY <1>2, <4>1 DEF TableInv, CumulativeExact
      <4> QED
        BY <1>2, <1>5, <4>1, <4>2
    <3>2. CASE i # n + 1
      <4>1. i \in 1 .. n
        BY <1>3, <3>2
      <4>2. handles'[i] = handles[i] /\ handles[i].site \in Sites
        BY <1>3, <1>4, <4>1
      <4>3. flat[handles[i].site].cumulative + (now - handles[i].start) = inside[handles[i].site]
        BY <2>1, <4>1, <4>2 DEF TableInv, CumulativeExact, n
      <4> QED
        BY <1>5, <4>2, <4>3
    <3> QED
      BY <3>1, <3>2
  <2>2. ASSUME NEW t \in Sites \ OpenSites' PROVE flat'[t].cumulative = inside'[t]
    BY <1>5, <1>9 DEF TableInv, CumulativeExact
  <2> QED
    BY <1>4, <2>1, <2>2 DEF CumulativeExact
<1>13. Len(childTime') = Len(handles') /\ active' = OpenSites'
  BY <1>1, <1>4, <1>5, <1>8, <1>9
<1> QED
  BY <1>10, <1>11, <1>12, <1>13 DEF TableInv, SelfExact

LEMMA TableExit ==
  ASSUME TypeInv, TableInv, ProfileExit
  PROVE  TableInv'
<1> DEFINE n == Len(handles) - 1
           h == Last
           e == Elapsed(Last)
<1>1. /\ handles # << >> /\ now' = now /\ onTop' = onTop /\ inside' = inside
      /\ active' = IF h.reentry THEN active ELSE active \ {h.site}
  BY DEF ProfileExit, clocks, Last
<1>2. /\ handles \in Seq(Handles) /\ childTime \in Seq(Nat) /\ Len(childTime) = Len(handles)
      /\ now \in Nat /\ TypeInv'
      /\ onTop \in [Sites -> Nat] /\ flat \in [Sites -> Records] /\ inside \in [Sites -> Nat]
  BY ExitTypes DEF TypeInv, TableInv
<1>3. /\ n \in Nat /\ Len(handles) = n + 1 /\ Len(childTime) = n + 1
  <2>1. Len(handles) \in Nat \ {0}
    BY <1>1, LastIs
  <2> QED
    BY <1>2, <2>1
<1>4. /\ h = handles[n + 1] /\ h.site \in Sites /\ h.start \in Nat /\ e = now - h.start /\ e \in Nat
      /\ Own = e - childTime[n + 1] /\ Own \in Int
  BY <1>1, <1>3, LastIs DEF Last, Own, Elapsed
<1>5. /\ handles' \in Seq(Handles) /\ Len(handles') = n
      /\ \A i \in 1 .. n : handles'[i] = handles[i]
      /\ childTime' \in Seq(Nat) /\ Len(childTime') = n
      /\ \A i \in 1 .. n : childTime'[i] = IF i = n THEN childTime[i] + e ELSE childTime[i]
  BY <1>2, ExitCalls
<1>6. \A t \in Sites :
        /\ flat'[t].self = IF t = h.site THEN flat[t].self + Own ELSE flat[t].self
        /\ flat'[t].cumulative = IF t = h.site THEN flat[t].cumulative + (IF h.reentry THEN 0 ELSE e)
                                 ELSE flat[t].cumulative
  BY ExitFlat
<1>7. Calls(handles, childTime, n + 1) /\ Calls(handles', childTime', n)
  <2>1. Calls(handles, childTime, Len(handles)) /\ Calls(handles', childTime', Len(handles'))
    BY <1>2, <1>5, CallsAre
  <2> QED
    BY <1>3, <1>5, <2>1
<1>8. /\ OpenSites = {handles[i].site : i \in 1 .. n + 1} /\ active = OpenSites
      /\ OpenSites' = {handles'[i].site : i \in 1 .. n}
  <2>1. (TypeInv => OpenSites = {handles[i].site : i \in 1 .. Len(handles)})'
    BY OpenIs, PTL
  <2> QED
    BY <1>2, <1>3, <1>5, <2>1, OpenIs DEF TableInv
<1>9. \A i \in 1 .. n + 1 : handles[i].reentry <=> \E j \in 1 .. (i - 1) : handles[j].site = handles[i].site
  BY <1>3 DEF TableInv, ReentriesExact
<1>10. \A i \in 1 .. n + 1 : handles[i].site \in Sites /\ handles[i].start \in Nat
  BY <1>2, <1>3, HandleIs
<1> HIDE DEF n, h, e
<1>11. h.reentry <=> \E j \in 1 .. n : handles[j].site = h.site
  <2>1. n + 1 \in 1 .. n + 1 /\ (n + 1) - 1 = n
    BY <1>3
  <2>2. handles[n + 1].reentry <=> \E j \in 1 .. n : handles[j].site = handles[n + 1].site
    BY ONLY <1>9, <2>1
  <2> QED
    BY ONLY <1>4, <2>2
<1>12. /\ \A i \in 1 .. n : i \in 1 .. n + 1
       /\ \A i \in 1 .. n + 1 : i = n + 1 \/ i \in 1 .. n
       /\ n + 1 \in 1 .. n + 1
  BY <1>3
<1>13. OpenSites' = {handles[i].site : i \in 1 .. n} /\ OpenSites = OpenSites' \union {h.site}
  <2>1. OpenSites' = {handles[i].site : i \in 1 .. n}
    BY <1>5, <1>8
  <2> QED
    BY <1>4, <1>8, <1>12, <2>1
<1>14. h.reentry <=> h.site \in OpenSites'
  BY <1>11, <1>13
<1>15. active' = OpenSites'
  BY <1>1, <1>8, <1>13, <1>14 DEF h
<1>16. ASSUME NEW t \in Sites
       PROVE  Tallied(handles', childTime', From(handles', t), now', onTop'[t] - flat'[t].self)
  <2> DEFINE M == From(handles, t)
             K == From(handles', t)
             d == onTop[t] - flat[t].self
             x == Share(handles, childTime, M, n + 1, now)
  <2>1. K \cap (1 .. n) = M \cap (1 .. n) /\ (n + 1 \in M <=> t = h.site)
    <3>1. M = {i \in 1 .. n + 1 : handles[i].site = t} /\ K = {i \in 1 .. n : handles'[i].site = t}
      BY <1>3, <1>5 DEF From
    <3> HIDE DEF M, K
    <3> QED
      BY <1>4, <1>5, <1>12, <3>1
  <2>2. Tallied(handles, childTime, M, now, d)
    BY DEF TableInv, SelfExact
  <2>3. d \in Int /\ flat[t].self \in Int /\ onTop[t] \in Nat
    <3>1. flat[t] \in Records
      BY <1>2
    <3>2. flat[t].self \in Int
      BY <3>1 DEF Records
    <3> QED
      BY <1>2, <3>2
  <2>4. x = IF t = h.site THEN Own ELSE 0
    <3>1. Slice(handles, childTime, n + 1, now) = now - h.start - childTime[n + 1]
      BY <1>3, <1>4 DEF Slice
    <3>2. Slice(handles, childTime, n + 1, now) = Own
      BY <1>4, <3>1
    <3> QED
      BY <2>1, <3>2 DEF Share
  <2>5. onTop'[t] - flat'[t].self = d - x
    BY <1>1, <1>4, <1>6, <2>3, <2>4
  <2> HIDE DEF M, K, d
  <2>6. \A i \in 1 .. n : childTime'[i] = IF i = n THEN childTime[n] + (now - handles[n + 1].start) ELSE childTime[i]
    BY <1>4, <1>5
  <2>7. now \in Nat /\ \A i \in 1 .. n : handles'[i] = handles[i]
    BY <1>2, <1>5
  <2>8. Tallied(handles', childTime', K, now, d - Share(handles, childTime, M, n + 1, now))
    BY ONLY <1>3, <1>7, <2>1, <2>2, <2>3, <2>6, <2>7, TallyPop
  <2> QED
    BY <1>1, <2>5, <2>8 DEF K
<1>17. ReentriesExact'
  <2> SUFFICES ASSUME NEW i \in 1 .. n
               PROVE  handles'[i].reentry <=> \E j \in 1 .. (i - 1) : handles'[j].site = handles'[i].site
    BY <1>5 DEF ReentriesExact
  <2>1. \A j \in 1 .. (i - 1) : j \in 1 .. n
    BY <1>3
  <2>2. handles[i].reentry <=> \E j \in 1 .. (i - 1) : handles[j].site = handles[i].site
    BY <1>9, <1>12
  <2>3. handles'[i] = handles[i] /\ \A j \in 1 .. (i - 1) : handles'[j] = handles[j]
    BY <1>5, <2>1
  <2> QED
    BY ONLY <2>2, <2>3
<1>18. \A i \in 1 .. n + 1 : ~ handles[i].reentry =>
         flat[handles[i].site].cumulative + (now - handles[i].start) = inside[handles[i].site]
  BY <1>3 DEF TableInv, CumulativeExact
<1>19. CumulativeExact'
  <2>1. ASSUME NEW i \in 1 .. n, ~ handles'[i].reentry
        PROVE  flat'[handles'[i].site].cumulative + (now' - handles'[i].start) = inside'[handles'[i].site]
    <3>1. handles'[i] = handles[i] /\ i \in 1 .. n + 1 /\ handles[i].site \in Sites
      BY <1>5, <1>10, <1>12
    <3>2. flat[handles[i].site].cumulative + (now - handles[i].start) = inside[handles[i].site]
      BY <1>18, <2>1, <3>1
    <3>3. handles[i].site = h.site => h.reentry
      BY <1>11
    <3>4. flat[handles[i].site].cumulative \in Nat
      <4>1. flat[handles[i].site] \in Records
        BY <1>2, <3>1
      <4> QED
        BY <4>1 DEF Records
    <3>5. flat'[handles[i].site].cumulative = flat[handles[i].site].cumulative
      BY <1>6, <3>1, <3>3, <3>4
    <3> QED
      BY <1>1, <3>1, <3>2, <3>5
  <2>2. ASSUME NEW t \in Sites \ OpenSites' PROVE flat'[t].cumulative = inside'[t]
    <3>1. CASE t = h.site
      <4>1. ~ h.reentry
        BY <1>14, <2>2, <3>1
      <4>2. flat[t].cumulative + (now - h.start) = inside[t]
        BY <1>4, <1>12, <1>18, <3>1, <4>1
      <4> QED
        BY <1>1, <1>4, <1>6, <3>1, <4>1, <4>2
    <3>2. CASE t # h.site
      <4>1. t \in Sites \ OpenSites
        BY <1>13, <2>2, <3>2
      <4>2. flat[t].cumulative = inside[t]
        BY <4>1 DEF TableInv, CumulativeExact
      <4> QED
        BY <1>1, <1>6, <3>2, <4>2
    <3> QED
      BY <3>1, <3>2
  <2> QED
    BY <1>5, <2>1, <2>2 DEF CumulativeExact
<1> QED
  BY <1>5, <1>15, <1>16, <1>17, <1>19 DEF TableInv, SelfExact

LEMMA TableTick ==
  ASSUME TypeInv, TableInv, Tick
  PROVE  TableInv'
<1>1. /\ now' = now + 1 /\ handles' = handles /\ flat' = flat /\ active' = active /\ childTime' = childTime
      /\ onTop' = IF handles = << >> THEN onTop ELSE [onTop EXCEPT ![Last.site] = @ + 1]
      /\ inside' = [s \in Sites |-> inside[s] + IF s \in OpenSites THEN 1 ELSE 0]
  BY DEF Tick, Last
<1>2. /\ handles \in Seq(Handles) /\ childTime \in Seq(Nat) /\ Len(childTime) = Len(handles) /\ now \in Nat
      /\ onTop \in [Sites -> Nat] /\ flat \in [Sites -> Records] /\ inside \in [Sites -> Nat]
      /\ OpenSites = {handles[i].site : i \in 1 .. Len(handles)}
  BY OpenIs DEF TypeInv, TableInv
<1>3. OpenSites' = OpenSites
  BY <1>1 DEF OpenSites
<1>4. ReentriesExact'
  BY <1>1 DEF TableInv, ReentriesExact
<1>5. ASSUME NEW t \in Sites
      PROVE  Tallied(handles, childTime, From(handles, t), now + 1, onTop'[t] - flat[t].self)
  <2> DEFINE d == onTop[t] - flat[t].self
  <2>1. Tallied(handles, childTime, From(handles, t), now, d)
    BY DEF TableInv, SelfExact
  <2>2. d \in Int /\ flat[t].self \in Int /\ onTop[t] \in Nat
    <3>1. flat[t] \in Records
      BY <1>2
    <3>2. flat[t].self \in Int
      BY <3>1 DEF Records
    <3> QED
      BY <1>2, <3>2
  <2>3. CASE handles = << >>
    <3>1. Len(handles) = 0 /\ onTop' = onTop
      BY <1>1, <1>2, <2>3, HandleIs
    <3>2. d = 0
      BY <2>1, <3>1, TallyNone
    <3>3. onTop'[t] - flat[t].self = 0
      BY <3>1, <3>2
    <3> QED
      BY <3>1, <3>3, TallyNone
  <2>4. CASE handles # << >>
    <3> DEFINE n == Len(handles) - 1
    <3>1. n \in Nat /\ Len(handles) = n + 1 /\ Last = handles[n + 1] /\ Last.site \in Sites
      <4>1. Len(handles) \in Nat \ {0} /\ Last.site \in Sites
        BY <2>4, LastIs
      <4> QED
        BY <4>1 DEF Last
    <3> HIDE DEF n
    <3>2. Calls(handles, childTime, n + 1)
      BY <1>2, <3>1, CallsAre
    <3>3. n + 1 \in From(handles, t) <=> t = Last.site
      <4>1. n + 1 \in 1 .. n + 1
        BY <3>1
      <4> QED
        BY <3>1, <4>1 DEF From
    <3> HIDE DEF d
    <3>4. Tallied(handles, childTime, From(handles, t), now + 1, d + IF n + 1 \in From(handles, t) THEN 1 ELSE 0)
      BY <1>2, <2>1, <2>2, <3>1, <3>2, TallyTick
    <3>5. onTop'[t] - flat[t].self = d + IF n + 1 \in From(handles, t) THEN 1 ELSE 0
      <4>1. onTop'[t] = onTop[t] + IF t = Last.site THEN 1 ELSE 0
        BY <1>1, <1>2, <2>4, <3>1
      <4> QED
        BY <2>2, <3>3, <4>1 DEF d
    <3> QED
      BY <3>4, <3>5
  <2> QED
    BY <2>3, <2>4
<1>6. CumulativeExact'
  <2>1. ASSUME NEW i \in 1 .. Len(handles), ~ handles[i].reentry
        PROVE  flat[handles[i].site].cumulative + (now' - handles[i].start) = inside'[handles[i].site]
    <3>1. handles[i].site \in Sites /\ handles[i].start \in Nat /\ handles[i].site \in OpenSites
      BY <1>2, HandleIs
    <3>2. flat[handles[i].site].cumulative + (now - handles[i].start) = inside[handles[i].site]
      BY <2>1 DEF TableInv, CumulativeExact
    <3>3. flat[handles[i].site].cumulative \in Nat
      <4>1. flat[handles[i].site] \in Records
        BY <1>2, <3>1
      <4> QED
        BY <4>1 DEF Records
    <3>4. inside'[handles[i].site] = inside[handles[i].site] + 1
      BY <1>1, <3>1
    <3>5. inside[handles[i].site] \in Nat /\ now \in Nat /\ now' = now + 1
      BY <1>1, <1>2, <3>1
    <3>6. now - handles[i].start \in Int /\ now' - handles[i].start = (now - handles[i].start) + 1
      BY ONLY <3>1, <3>5
    <3> QED
      BY ONLY <3>2, <3>3, <3>4, <3>6
  <2>2. ASSUME NEW t \in Sites \ OpenSites PROVE flat[t].cumulative = inside'[t]
    <3>1. flat[t].cumulative = inside[t] /\ inside[t] \in Nat
      BY <1>2 DEF TableInv, CumulativeExact
    <3>2. inside'[t] = inside[t] + 0
      BY <1>1, <2>2
    <3> QED
      BY <3>1, <3>2
  <2>3. handles' = handles /\ flat' = flat /\ OpenSites' = OpenSites
    BY <1>1, <1>3
  <2>4. /\ \A i \in 1 .. Len(handles') : ~ handles'[i].reentry =>
             flat'[handles'[i].site].cumulative + (now' - handles'[i].start) = inside'[handles'[i].site]
        /\ \A t \in Sites \ OpenSites' : flat'[t].cumulative = inside'[t]
    BY ONLY <2>1, <2>2, <2>3
  <2> QED
    BY <2>4 DEF CumulativeExact
<1> QED
  BY <1>1, <1>2, <1>3, <1>4, <1>5, <1>6 DEF TableInv, SelfExact

(* A step that measures nothing.                                           *)
LEMMA TableStill ==
  ASSUME TypeInv, TableInv, UNCHANGED Measured,
         \A t \in Sites : flat'[t].self = flat[t].self /\ flat'[t].cumulative = flat[t].cumulative
  PROVE  TableInv'
<1>1. /\ handles' = handles /\ active' = active /\ childTime' = childTime
      /\ now' = now /\ onTop' = onTop /\ inside' = inside /\ OpenSites' = OpenSites
  BY DEF Measured, OpenSites
<1>2. SelfExact'
  <2> SUFFICES ASSUME NEW t \in Sites
               PROVE  Tallied(handles', childTime', From(handles', t), now', onTop'[t] - flat'[t].self)
    BY DEF SelfExact
  <2>1. Tallied(handles, childTime, From(handles, t), now, onTop[t] - flat[t].self)
    BY DEF TableInv, SelfExact
  <2>2. flat'[t].self = flat[t].self
    OBVIOUS
  <2> QED
    BY <1>1, <2>1, <2>2
<1>3. CumulativeExact'
  <2>1. \A i \in 1 .. Len(handles) : handles[i].site \in Sites
    BY HandleIs DEF TypeInv
  <2> QED
    BY <1>1, <2>1 DEF TableInv, CumulativeExact
<1>4. ReentriesExact'
  BY <1>1 DEF TableInv, ReentriesExact
<1> QED
  BY <1>1, <1>2, <1>3, <1>4 DEF TableInv

(* What is reported was measured by a run that ended.                      *)
FlatInv == (phase = "running" => TableInv) /\ FlatExact

LEMMA FlatStep ==
  ASSUME TypeInv, FlatInv, [Next]_vars
  PROVE  FlatInv'
<1>1. CASE StartRun
  <2>1. phase' = "running" /\ TableInv'
    BY <1>1, TableStart DEF StartRun
  <2> QED
    BY <2>1 DEF FlatInv, FlatExact
<1>2. CASE ProfileExit
  <2>1. phase' = phase /\ phase \in {"running", "failing"}
    BY <1>2 DEF ProfileExit
  <2> QED
    BY <1>2, <2>1, TableExit DEF FlatInv, FlatExact
<1>3. CASE Tick
  <2>1. phase' = phase /\ phase = "running"
    BY <1>3 DEF Tick
  <2> QED
    BY <1>3, <2>1, TableTick DEF FlatInv, FlatExact
<1>4. CASE Fail
  BY <1>4 DEF Fail, FlatInv, FlatExact
<1>5. CASE EndRun
  <2>1. /\ handles = << >> /\ phase \in {"running", "failing"} /\ phase' \in {"reported", "idle"}
        /\ (phase' = "reported" => phase = "running")
        /\ flat' = flat /\ onTop' = onTop /\ inside' = inside
    BY <1>5 DEF EndRun, clocks
  <2>2. ASSUME phase = "running", NEW s \in Sites
        PROVE  flat[s].self = onTop[s] /\ flat[s].cumulative = inside[s]
    <3>1. Len(handles) = 0 /\ OpenSites = {}
      BY <2>1, EmptySeq DEF OpenSites
    <3>2. TableInv
      BY <2>2 DEF FlatInv
    <3>3. onTop[s] - flat[s].self = 0
      BY <3>1, <3>2, TallyNone DEF TableInv, SelfExact
    <3>4. flat[s].self \in Int /\ onTop[s] \in Nat
      <4>1. flat[s] \in Records /\ onTop[s] \in Nat
        BY DEF TypeInv
      <4> QED
        BY <4>1 DEF Records
    <3> QED
      BY <3>1, <3>2, <3>3, <3>4 DEF TableInv, CumulativeExact
  <2> QED
    BY <2>1, <2>2 DEF FlatInv, FlatExact
<1>6. ASSUME NEW s \in Sites, EnterUserCall(s) \/ EnterStopped(s) \/ RecordTailCallHop(s)
      PROVE  FlatInv'
  <2>1. CASE EnterUserCall(s)
    <3>1. phase = "running" /\ phase' = phase
      BY <2>1 DEF EnterUserCall, ProfileEnter
    <3> QED
      BY <2>1, <3>1, TableEnter DEF FlatInv, FlatExact
  <2>2. CASE EnterStopped(s)
    BY <2>2 DEF EnterStopped, FlatInv, FlatExact
  <2>3. CASE RecordTailCallHop(s)
    <3>1. phase = "running" /\ phase' = phase
      BY <2>3 DEF RecordTailCallHop
    <3> QED
      BY <2>3, <3>1, HopTypes, TableStill DEF FlatInv, FlatExact
  <2> QED
    BY <1>6, <2>1, <2>2, <2>3
<1>7. CASE UNCHANGED vars
  <2>1. UNCHANGED Measured /\ flat' = flat /\ phase' = phase /\ onTop' = onTop /\ inside' = inside
    BY <1>7 DEF vars, Measured
  <2> QED
    BY <2>1, TableStill DEF FlatInv, FlatExact
<1> QED
  BY <1>1, <1>2, <1>3, <1>4, <1>5, <1>6, <1>7 DEF Next

(* The table of sites: what the sites' calls spent themselves is exactly   *)
(* the time that they were the innermost, and what they spent with their   *)
(* calls the time that they were open, whatever runs came before.          *)
THEOREM TableIsExact == Spec => []FlatExact
<1>1. Init => FlatInv
  BY DEF Init, FlatInv, FlatExact
<1>2. TypeInv /\ FlatInv /\ [Next]_vars => FlatInv'
  BY FlatStep
<1>3. FlatInv => FlatExact
  BY DEF FlatInv
<1> QED
  BY <1>1, <1>2, <1>3, TypesKept, PTL DEF Spec
------------------------------------------------------------------------------
(* The nodes above a node, and those below it.                             *)

LEMMA FromBelow ==
  ASSUME NEW n \in Nat, NEW S, \A j \in 1 .. n : (\A k \in 1 .. n : k < j => k \in S) => j \in S
  PROVE  1 .. n \subseteq S
<1> DEFINE T == {m \in Nat : m \in 1 .. n => m \in S}
<1>1. ASSUME NEW m \in Nat, \A k \in Nat : k < m => k \in T PROVE m \in T
  <2> SUFFICES ASSUME m \in 1 .. n PROVE m \in S
    OBVIOUS
  <2>1. \A k \in 1 .. n : k < m => k \in S
    BY <1>1
  <2> QED
    BY <2>1
<1>2. Nat \subseteq T
  <2> HIDE DEF T
  <2> QED
    BY <1>1, AllNumbers
<1> QED
  BY <1>2

LEMMA FromAbove ==
  ASSUME NEW n \in Nat, NEW S, \A j \in 1 .. n : (\A k \in 1 .. n : k > j => k \in S) => j \in S
  PROVE  1 .. n \subseteq S
<1> DEFINE T == {m \in 1 .. n : n + 1 - m \in S}
<1>1. ASSUME NEW m \in 1 .. n, \A k \in 1 .. n : k < m => k \in T PROVE m \in T
  <2>1. n + 1 - m \in 1 .. n
    OBVIOUS
  <2>2. ASSUME NEW k \in 1 .. n, k > n + 1 - m PROVE k \in S
    <3>1. n + 1 - k \in 1 .. n /\ n + 1 - k < m /\ n + 1 - (n + 1 - k) = k
      BY <2>2
    <3>2. n + 1 - k \in T
      BY <1>1, <3>1
    <3> QED
      BY <3>1, <3>2
  <2>3. n + 1 - m \in S
    BY <2>1, <2>2
  <2> QED
    BY <2>3
<1>2. 1 .. n \subseteq T
  <2> HIDE DEF T
  <2> QED
    BY <1>1, FromBelow
<1>3. ASSUME NEW m \in 1 .. n PROVE m \in S
  <2>1. n + 1 - m \in 1 .. n /\ n + 1 - (n + 1 - m) = m
    OBVIOUS
  <2>2. n + 1 - m \in T
    BY <1>2, <2>1
  <2> QED
    BY <2>1, <2>2
<1> QED
  BY <1>3

(* a[j] is j with the nodes above it.                                      *)
IsAncestry(t, a) == a[Root] = {Root} /\ \A j \in 2 .. Len(t) : a[j] = {j} \cup a[t[j].parent]
Below(t, a, i) == {j \in 1 .. Len(t) : i \in a[j]}

LEMMA Upward ==
  ASSUME NEW t, TreeOK(t), NEW a, IsAncestry(t, a)
  PROVE  /\ Len(t) \in Nat \ {0} /\ a[1] = {1}
         /\ \A j \in 1 .. Len(t) : j = 1 \/ j \in 2 .. Len(t)
         /\ \A j \in 2 .. Len(t) : /\ t[j].parent \in 1 .. Len(t) /\ t[j].parent < j
                                   /\ a[j] = {j} \cup a[t[j].parent]
<1>1. Len(t) \in Nat \ {0} /\ \A j \in 2 .. Len(t) : t[j].parent \in 1 .. (j - 1)
  BY DEF TreeOK
<1> DEFINE n == Len(t)
<1>2. n \in Nat \ {0} /\ \A j \in 2 .. n : t[j].parent \in 1 .. (j - 1)
  BY <1>1
<1>3. a[1] = {1} /\ \A j \in 2 .. n : a[j] = {j} \cup a[t[j].parent]
  BY DEF IsAncestry, Root
<1> HIDE DEF n
<1>4. \A j \in 1 .. n : j = 1 \/ j \in 2 .. n
  BY <1>2
<1>5. ASSUME NEW j \in 2 .. n PROVE t[j].parent \in 1 .. n /\ t[j].parent < j
  <2>1. t[j].parent \in 1 .. (j - 1)
    BY <1>2
  <2> QED
    BY <1>2, <2>1
<1> QED
  BY <1>2, <1>3, <1>4, <1>5 DEF n

LEMMA AboveIsBefore ==
  ASSUME NEW t, TreeOK(t), NEW a, IsAncestry(t, a), NEW j \in 1 .. Len(t)
  PROVE  j \in a[j] /\ Root \in a[j] /\ a[j] \subseteq 1 .. j
<1> DEFINE S == {k \in Nat : k \in a[k] /\ 1 \in a[k] /\ a[k] \subseteq 1 .. k}
           n == Len(t)
<1>1. ASSUME NEW k \in 1 .. n, \A m \in 1 .. n : m < k => m \in S PROVE k \in S
  <2>1. CASE k = 1
    BY <2>1, Upward
  <2>2. CASE k # 1
    <3>1. k \in 2 .. n
      BY <2>2, Upward
    <3>2. PICK p \in 1 .. n : p = t[k].parent /\ p < k /\ a[k] = {k} \cup a[p]
      BY <3>1, Upward
    <3>3. p \in S
      BY <1>1, <3>2
    <3>4. k \in Nat /\ p \in Nat
      OBVIOUS
    <3>5. a[p] \subseteq 1 .. k
      BY <3>2, <3>3, <3>4
    <3>6. k \in 1 .. k
      OBVIOUS
    <3> QED
      BY <3>2, <3>3, <3>4, <3>5, <3>6
  <2> QED
    BY <2>1, <2>2
<1>2. n \in Nat
  BY Upward
<1>3. 1 .. n \subseteq S
  <2> HIDE DEF S, n
  <2> QED
    BY <1>1, <1>2, FromBelow
<1> QED
  BY <1>3 DEF Root

(* What is above a node above j is above j.                                *)
LEMMA AboveAbove ==
  ASSUME NEW t, TreeOK(t), NEW a, IsAncestry(t, a), NEW j \in 1 .. Len(t), NEW i \in a[j]
  PROVE  a[i] \subseteq a[j]
<1> DEFINE S == {k \in Nat : \A m \in a[k] : a[m] \subseteq a[k]}
           n == Len(t)
<1>1. ASSUME NEW k \in 1 .. n, \A m \in 1 .. n : m < k => m \in S PROVE k \in S
  <2>1. CASE k = 1
    BY <2>1, Upward
  <2>2. CASE k # 1
    <3>1. k \in 2 .. n
      BY <2>2, Upward
    <3>2. PICK p \in 1 .. n : p = t[k].parent /\ p < k /\ a[k] = {k} \cup a[p]
      BY <3>1, Upward
    <3>3. p \in S
      BY <1>1, <3>2
    <3> QED
      BY <3>2, <3>3
  <2> QED
    BY <2>1, <2>2
<1>2. n \in Nat
  BY Upward
<1>3. 1 .. n \subseteq S
  <2> HIDE DEF S, n
  <2> QED
    BY <1>1, <1>2, FromBelow
<1> QED
  BY <1>3

(* Two nodes above one node are one above the other.                       *)
LEMMA AboveChain ==
  ASSUME NEW t, TreeOK(t), NEW a, IsAncestry(t, a), NEW j \in 1 .. Len(t), NEW b \in a[j], NEW c \in a[j]
  PROVE  b \in a[c] \/ c \in a[b]
<1> DEFINE S == {k \in Nat : \A m, l \in a[k] : m \in a[l] \/ l \in a[m]}
           n == Len(t)
<1>1. ASSUME NEW k \in 1 .. n, \A m \in 1 .. n : m < k => m \in S PROVE k \in S
  <2>1. CASE k = 1
    BY <2>1, Upward
  <2>2. CASE k # 1
    <3>1. k \in 2 .. n
      BY <2>2, Upward
    <3>2. PICK p \in 1 .. n : p = t[k].parent /\ p < k /\ a[k] = {k} \cup a[p]
      BY <3>1, Upward
    <3>3. p \in S
      BY <1>1, <3>2
    <3> QED
      BY <3>2, <3>3
  <2> QED
    BY <2>1, <2>2
<1>2. n \in Nat
  BY Upward
<1>3. 1 .. n \subseteq S
  <2> HIDE DEF S, n
  <2> QED
    BY <1>1, <1>2, FromBelow
<1> QED
  BY <1>3

(* A node below i is i or below one of its children.                       *)
LEMMA BelowByChild ==
  ASSUME NEW t, TreeOK(t), NEW a, IsAncestry(t, a), NEW j \in 1 .. Len(t), NEW i \in a[j], i # j
  PROVE  \E c \in 2 .. Len(t) : t[c].parent = i /\ c \in a[j]
<1> DEFINE n == Len(t)
           S == {k \in Nat : \A m \in a[k] : m # k => \E c \in 2 .. n : t[c].parent = m /\ c \in a[k]}
<1>1. ASSUME NEW k \in 1 .. n, \A m \in 1 .. n : m < k => m \in S PROVE k \in S
  <2>1. CASE k = 1
    BY <2>1, Upward
  <2>2. CASE k # 1
    <3>1. k \in 2 .. n
      BY <2>2, Upward
    <3>2. PICK p \in 1 .. n : p = t[k].parent /\ p < k /\ a[k] = {k} \cup a[p]
      BY <3>1, Upward
    <3>3. p \in S
      BY <1>1, <3>2
    <3> SUFFICES ASSUME NEW m \in a[k], m # k PROVE \E c \in 2 .. n : t[c].parent = m /\ c \in a[k]
      OBVIOUS
    <3>4. CASE m = p
      BY <3>1, <3>2, <3>4
    <3>5. CASE m # p
      <4>1. PICK c \in 2 .. n : t[c].parent = m /\ c \in a[p]
        BY <3>2, <3>3, <3>5
      <4> QED
        BY <3>2, <4>1
    <3> QED
      BY <3>4, <3>5
  <2> QED
    BY <2>1, <2>2
<1>2. n \in Nat
  BY Upward
<1>3. 1 .. n \subseteq S
  <2> HIDE DEF S, n
  <2> QED
    BY <1>1, <1>2, FromBelow
<1> QED
  BY <1>3

(* No node is below two children of one node.                              *)
LEMMA ChildrenApart ==
  ASSUME NEW t, TreeOK(t), NEW a, IsAncestry(t, a),
         NEW c \in 2 .. Len(t), NEW d \in 2 .. Len(t), c # d, t[c].parent = t[d].parent
  PROVE  Below(t, a, c) \cap Below(t, a, d) = {}
<1> DEFINE n == Len(t)
<1>0. n \in Nat /\ \A j \in 2 .. n : j \in 1 .. n
  BY Upward
<1>1. ASSUME NEW x \in 2 .. n, NEW y \in 2 .. n, x # y, t[x].parent = t[y].parent, x \in a[y] PROVE FALSE
  <2>0. t[y].parent \in 1 .. n /\ t[y].parent < y /\ a[y] = {y} \cup a[t[y].parent]
    BY <1>1, Upward
  <2>1. PICK p \in 1 .. n : p = t[y].parent /\ p < y /\ a[y] = {y} \cup a[p]
    BY ONLY <2>0
  <2>2. x \in a[p]
    BY <1>1, <2>1
  <2>3. a[p] \subseteq 1 .. p
    BY AboveIsBefore
  <2>4. t[x].parent < x
    BY Upward
  <2> QED
    BY <1>1, <2>1, <2>2, <2>3, <2>4
<1>2. ASSUME NEW j \in 1 .. n, c \in a[j], d \in a[j] PROVE FALSE
  <2>1. c \in a[d] \/ d \in a[c]
    BY <1>2, AboveChain
  <2> QED
    BY <1>1, <2>1
<1> QED
  BY <1>2 DEF Below
------------------------------------------------------------------------------
(* The cumulative time of a node is the time of the nodes below it.        *)

ChildrenOf(t, i) == {j \in 1 .. Len(t) : t[j].parent = i}

LEMMA SumBelow ==
  ASSUME NEW t, TreeOK(t), NEW a, IsAncestry(t, a), NEW i \in 1 .. Len(t),
         NEW f, \A j \in 1 .. Len(t) : f[j] \in Int,
         NEW h, \A j \in ChildrenOf(t, i) : h[j] = SumFunctionOnSet(f, Below(t, a, j))
  PROVE  SumFunctionOnSet(f, Below(t, a, i)) = f[i] + SumFunctionOnSet(h, ChildrenOf(t, i))
<1> DEFINE n == Len(t)
           C == ChildrenOf(t, i)
           F == [j \in C |-> Below(t, a, j)]
           U == Merged(F, C)
<1>1. n \in Nat /\ IsFiniteSet(1 .. n)
  BY Upward, FS_Interval
<1>2. C \subseteq 2 .. n
  <2>1. t[1].parent = 0
    BY DEF TreeOK, Root, NoPath
  <2>2. ASSUME NEW j \in C PROVE j \in 2 .. n
    <3>1. j \in 1 .. n /\ t[j].parent = i /\ i # 0
      BY <1>1 DEF ChildrenOf
    <3> QED
      BY <2>1, <3>1, Upward
  <2> QED
    BY <2>2
<1>3. \A j \in 2 .. n : j \in 1 .. n
  BY <1>1
<1>4. IsFiniteSet(C)
  BY <1>1, <1>2, <1>3, FS_Subset
<1>5. ASSUME NEW c \in C
      PROVE  /\ IsFiniteSet(F[c]) /\ F[c] \subseteq 1 .. n /\ F[c] = Below(t, a, c)
             /\ h[c] = SumFunctionOnSet(f, F[c])
  BY <1>1, FS_Subset DEF Below
<1>6. ASSUME NEW c \in C, NEW d \in C, c # d PROVE F[c] \cap F[d] = {}
  <2>1. c \in 2 .. n /\ d \in 2 .. n /\ t[c].parent = t[d].parent
    BY <1>2 DEF ChildrenOf
  <2>2. Below(t, a, c) \cap Below(t, a, d) = {}
    BY <1>6, <2>1, ChildrenApart
  <2> QED
    BY <1>5, <2>2
<1>7. U \subseteq 1 .. n
  BY <1>5 DEF Merged
<1> HIDE DEF F
<1>8. IsFiniteSet(U) /\ SumFunctionOnSet(h, C) = SumFunctionOnSet(f, U)
  <2>1. \A c \in C : IsFiniteSet(F[c]) /\ h[c] = SumFunctionOnSet(f, F[c])
    BY <1>5
  <2>2. \A c \in C : \A y \in F[c] : f[y] \in Int
    BY <1>5
  <2>3. \A c, d \in C : c # d => F[c] \cap F[d] = {}
    BY <1>6
  <2> HIDE DEF C
  <2> QED
    BY ONLY <1>4, <2>1, <2>2, <2>3, SumOfSums
<1>9. i \notin U
  <2>1. ASSUME NEW c \in C, i \in F[c] PROVE FALSE
    <3>1. i \in Below(t, a, c) /\ c \in 2 .. n /\ t[c].parent = i
      BY <1>2, <1>5, <2>1 DEF ChildrenOf
    <3>2. c \in a[i] /\ t[c].parent < c
      BY <3>1, Upward DEF Below
    <3>3. c \in 1 .. i
      BY <3>2, AboveIsBefore
    <3> QED
      BY <3>1, <3>2, <3>3
  <2> QED
    BY <2>1 DEF Merged
<1>10. Below(t, a, i) = U \cup {i}
  <2>1. ASSUME NEW j \in Below(t, a, i) PROVE j \in U \cup {i}
    <3>1. j \in 1 .. n /\ i \in a[j]
      BY DEF Below
    <3>2. CASE j # i
      <4>1. PICK c \in 2 .. n : t[c].parent = i /\ c \in a[j]
        BY <3>1, <3>2, BelowByChild
      <4>2. c \in C /\ j \in Below(t, a, c)
        BY <1>3, <3>1, <4>1 DEF ChildrenOf, Below
      <4> QED
        BY <1>5, <4>2 DEF Merged
    <3> QED
      BY <3>2
  <2>2. i \in Below(t, a, i)
    BY AboveIsBefore DEF Below
  <2>3. ASSUME NEW c \in C, NEW j \in F[c] PROVE j \in Below(t, a, i)
    <3>1. j \in 1 .. n /\ c \in a[j] /\ c \in 2 .. n /\ t[c].parent = i
      BY <1>2, <1>5 DEF Below, ChildrenOf
    <3>2. a[c] = {c} \cup a[i] /\ i \in a[i]
      BY <3>1, Upward, AboveIsBefore
    <3>3. a[c] \subseteq a[j]
      BY <3>1, AboveAbove
    <3> QED
      BY <3>1, <3>2, <3>3 DEF Below
  <2> QED
    BY <2>1, <2>2, <2>3 DEF Merged
<1>11. \A y \in U \cup {i} : f[y] \in Int
  BY <1>7
<1> HIDE DEF U, C
<1>12. SumFunctionOnSet(f, U \cup {i}) = f[i] + SumFunctionOnSet(f, U)
  BY ONLY <1>8, <1>9, <1>11, SumMore
<1>13. SumFunctionOnSet(f, Below(t, a, i)) = f[i] + SumFunctionOnSet(h, C)
  BY ONLY <1>8, <1>10, <1>12
<1> QED
  BY <1>13 DEF C

CumulativeBy(f) ==
  f = [i \in DOMAIN paths |-> paths[i].self + SumFunction([j \in Children(i) |-> f[j]])]

LEMMA SumOfChildren ==
  ASSUME NEW f, NEW i, IsFiniteSet(Children(i))
  PROVE  SumFunction([j \in Children(i) |-> f[j]]) = SumFunctionOnSet(f, Children(i))
<1> DEFINE r == [j \in Children(i) |-> f[j]]
<1>1. SumFunction(r) = SumFunctionOnSet(r, Children(i))
  BY DEF SumFunction
<1>2. \A j \in Children(i) : r[j] = f[j]
  OBVIOUS
<1> HIDE DEF r
<1>3. SumFunctionOnSet(r, Children(i)) = SumFunctionOnSet(f, Children(i))
  BY <1>2, SumSame
<1> QED
  BY <1>1, <1>3 DEF r

LEMMA CumulativeIs ==
  ASSUME TypeInv, paths # << >>, NEW a, IsAncestry(paths, a), NEW i \in 1 .. Len(paths)
  PROVE  Cumulative[i] = SumFunctionOnSet(SelfTimes, Below(paths, a, i))
<1> DEFINE n == Len(paths)
           F == [k \in 1 .. n |-> SumFunctionOnSet(SelfTimes, Below(paths, a, k))]
<1>1. TreeOK(paths) /\ paths \in Seq(NodeRecords) /\ n \in Nat /\ DOMAIN paths = 1 .. n
  BY TreeIs, LenProperties DEF TypeInv
<1>2. ASSUME NEW k \in 1 .. n PROVE SelfTimes[k] = paths[k].self /\ SelfTimes[k] \in Int
  <2>1. paths[k] \in NodeRecords
    BY <1>1, NodeIs
  <2> QED
    BY <1>1, <2>1 DEF SelfTimes, NodeRecords
<1>3. ASSUME NEW k \in 1 .. n
      PROVE  Children(k) = ChildrenOf(paths, k) /\ IsFiniteSet(Children(k)) /\ Children(k) \subseteq 1 .. n
  <2>1. Children(k) = ChildrenOf(paths, k) /\ Children(k) \subseteq 1 .. n
    BY <1>1 DEF Children, ChildrenOf
  <2>2. IsFiniteSet(1 .. n)
    BY <1>1, FS_Interval
  <2> QED
    BY <2>1, <2>2, FS_Subset
<1>4. ASSUME NEW k \in 1 .. n
      PROVE  F[k] = paths[k].self + SumFunction([j \in Children(k) |-> F[j]])
  <2>1. \A j \in ChildrenOf(paths, k) : F[j] = SumFunctionOnSet(SelfTimes, Below(paths, a, j))
    BY <1>3
  <2>2. F[k] = SumFunctionOnSet(SelfTimes, Below(paths, a, k))
    OBVIOUS
  <2> HIDE DEF F
  <2>3. SumFunctionOnSet(SelfTimes, Below(paths, a, k)) = SelfTimes[k] + SumFunctionOnSet(F, ChildrenOf(paths, k))
    BY <1>1, <1>2, <2>1, SumBelow
  <2>4. SumFunction([j \in Children(k) |-> F[j]]) = SumFunctionOnSet(F, Children(k))
    BY <1>3, SumOfChildren
  <2> QED
    BY <1>2, <1>3, <2>2, <2>3, <2>4
<1>5. CumulativeBy(F)
  BY <1>1, <1>4 DEF CumulativeBy
<1>6. CumulativeBy(Cumulative)
  <2>1. Cumulative = CHOOSE f : CumulativeBy(f)
    BY DEF Cumulative, CumulativeBy
  <2> HIDE DEF F
  <2> QED
    BY <1>5, <2>1
<1>7. ASSUME NEW k \in 1 .. n
      PROVE  Cumulative[k] = paths[k].self + SumFunction([j \in Children(k) |-> Cumulative[j]])
  BY <1>1, <1>6 DEF CumulativeBy
<1> DEFINE S == {k \in 1 .. n : Cumulative[k] = F[k]}
<1>8. ASSUME NEW k \in 1 .. n, \A m \in 1 .. n : m > k => m \in S PROVE k \in S
  <2>1. ASSUME NEW j \in Children(k) PROVE Cumulative[j] = F[j]
    <3>1. j \in 1 .. n /\ paths[j].parent = k
      BY <1>3 DEF Children
    <3>2. j > k
      <4>1. CASE j = 1
        BY <1>1, <3>1, <4>1 DEF TreeOK, Root, NoPath
      <4>2. CASE j # 1
        <5>1. j \in 2 .. n
          BY <3>1, <4>2
        <5>2. paths[j].parent \in 1 .. (j - 1)
          BY <1>1, <5>1 DEF TreeOK
        <5> QED
          BY <3>1, <5>2
      <4> QED
        BY <4>1, <4>2
    <3> QED
      BY <1>8, <3>1, <3>2
  <2> HIDE DEF F
  <2>2. [j \in Children(k) |-> Cumulative[j]] = [j \in Children(k) |-> F[j]]
    BY <2>1
  <2>3. Cumulative[k] = F[k]
    BY <1>4, <1>7, <2>2
  <2> QED
    BY <2>3
<1>9. 1 .. n \subseteq S
  <2> HIDE DEF S
  <2> QED
    BY <1>1, <1>8, FromAbove
<1> QED
  BY <1>9
------------------------------------------------------------------------------
(* The tree of an evaluator's first run: g[j] is the time the innermost    *)
(* call was at node j, a[j] the nodes above j.                             *)

Nodes(t, s) == {i \in 1 .. Len(t) : t[i].site = s}

(* A node is left for the one it was entered from.                         *)
PathsOK ==
  /\ current = IF handles = << >> THEN NoPath ELSE Last.node
  /\ \A k \in 1 .. Len(handles) : handles[k].prev = IF k = 1 THEN NoPath ELSE handles[k - 1].node

(* As long as no call found the tree full, a call's node is its site's,    *)
(* and the nodes above it, but the root, those of the calls below.         *)
SitesAreNodes == \A k \in 1 .. Len(handles) : Tree[handles[k].node].site = handles[k].site
OpenAbove(a) == \A k \in 1 .. Len(handles) : \A l \in 1 .. k : handles[l].node \in a[handles[k].node]
AboveOpen(a) ==
  \A k \in 1 .. Len(handles) : \A i \in a[handles[k].node] : i = Root \/ \E l \in 1 .. k : handles[l].node = i
SelfByNode(g) == \A s \in Sites : SumFunctionOnSet(g, Nodes(Tree, s)) = onTop[s]
OpenByNode(g, a) ==
  \A i \in 2 .. Len(Tree) :
    Nodes(Tree, Tree[i].site) = {i} => SumFunctionOnSet(g, Below(Tree, a, i)) = inside[Tree[i].site]
NoNodeNoTime == \A s \in Sites : Nodes(Tree, s) = {} => inside[s] = 0
BySite(g, a) ==
  /\ SitesAreNodes /\ OpenAbove(a) /\ AboveOpen(a)
  /\ SelfByNode(g) /\ OpenByNode(g, a) /\ NoNodeNoTime

NodesExact(g) ==
  \A j \in 1 .. Len(Tree) : Tallied(handles, childTime, At(handles, j), now, g[j] - Tree[j].self)
Ledger(g, a) ==
  /\ IsAncestry(Tree, a) /\ g \in [1 .. Len(Tree) -> Int]
  /\ NodesExact(g)
  /\ SumFunctionOnSet(g, 1 .. Len(Tree)) = SumFunctionOnSet(onTop, Sites)
  /\ ~ cut => BySite(g, a)
TreeInv == runs = 1 /\ phase \in {"running", "reported"} => PathsOK /\ \E g, a : Ledger(g, a)

LEMMA LedgerStart ==
  ASSUME TypeInv, StartRun, runs = 0
  PROVE  PathsOK' /\ \E g, a : Ledger(g, a)'
<1> DEFINE g == [j \in 1 .. 1 |-> 0]
           a == [j \in 1 .. 1 |-> {1}]
<1>1. /\ childTime' = << >> /\ handles' = << >> /\ paths' = << >> /\ current' = NoPath /\ cut' = FALSE
      /\ onTop' = Zero /\ inside' = Zero
  BY DEF StartRun, Cleared, TypeInv, Untouched
<1>2. Len(handles') = 0
  BY <1>1, EmptySeq
<1>3. Tree' = << ToplevelNode >> /\ Len(Tree') = 1
  BY <1>1 DEF Tree
<1>4. Tree'[1].site = "<toplevel>" /\ Tree'[1].self = 0
  <2>1. << ToplevelNode >>[1] = ToplevelNode
    OBVIOUS
  <2> QED
    BY <1>3, <2>1 DEF ToplevelNode
<1>5. PathsOK'
  BY <1>1, <1>2 DEF PathsOK
<1>6. IsAncestry(Tree', a) /\ g \in [1 .. Len(Tree') -> Int] /\ g[1] = 0
  BY <1>3 DEF IsAncestry, Root
<1> HIDE DEF g, a
<1>7. NodesExact(g)'
  <2> SUFFICES ASSUME NEW j \in 1 .. Len(Tree')
               PROVE  Tallied(handles', childTime', At(handles', j), now', g[j] - Tree'[j].self)
    BY DEF NodesExact
  <2>1. g[j] - Tree'[j].self = 0
    BY <1>3, <1>4, <1>6
  <2> QED
    BY <1>2, <2>1, TallyNone
<1>8. SumFunctionOnSet(g, 1 .. Len(Tree')) = SumFunctionOnSet(onTop', Sites)
  <2>1. IsFiniteSet(1 .. 1) /\ \A j \in 1 .. 1 : g[j] = 0
    <3>1. IsFiniteSet(1 .. 1)
      <4>1. 1 .. 1 = {1}
        OBVIOUS
      <4> QED
        BY <4>1, FS_Singleton
    <3>2. \A j \in 1 .. 1 : j = 1
      OBVIOUS
    <3> QED
      BY <1>6, <3>1, <3>2
  <2>2. IsFiniteSet(Sites) /\ \A s \in Sites : onTop'[s] = 0
    BY <1>1, ProfilerAssumption DEF Zero
  <2>3. SumFunctionOnSet(g, 1 .. 1) = 0 /\ SumFunctionOnSet(onTop', Sites) = 0
    BY <2>1, <2>2, SumZero
  <2> QED
    BY <1>3, <2>3
<1>9. BySite(g, a)'
  <2>1. SitesAreNodes' /\ OpenAbove(a)' /\ AboveOpen(a)'
    BY <1>2 DEF SitesAreNodes, OpenAbove, AboveOpen
  <2>2. ASSUME NEW s \in Sites PROVE Nodes(Tree', s) = {} /\ onTop'[s] = 0 /\ inside'[s] = 0
    BY <1>1, <1>3, <1>4, ProfilerAssumption DEF Nodes, Zero
  <2>3. SelfByNode(g)'
    BY <2>2, SumNone DEF SelfByNode
  <2>4. OpenByNode(g, a)' /\ NoNodeNoTime'
    BY <1>3, <2>2 DEF OpenByNode, NoNodeNoTime
  <2> QED
    BY <2>1, <2>3, <2>4 DEF BySite
<1>10. Ledger(g, a)'
  BY <1>6, <1>7, <1>8, <1>9 DEF Ledger
<1> QED
  BY <1>5, <1>10

(* A call is entered in the tree: no time is moved.                        *)
LEMMA LedgerEnter ==
  ASSUME TypeInv, TableInv, PathsOK, NEW g, NEW a, Ledger(g, a), NEW s \in Sites, EnterUserCall(s)
  PROVE  PathsOK' /\ \E f, b : Ledger(f, b)'
<1> DEFINE n == Len(handles)
           N == Len(Tree)
           P == Len(paths')
           m == PathNode(s)
<1>1. ProfileEnter(s) /\ handles' = Append(handles, Handle(s)) /\ cut' = (cut \/ FindsFull(s))
  BY DEF EnterUserCall, ProfileEnter
<1>2. /\ handles \in Seq(Handles) /\ childTime \in Seq(Nat) /\ Len(childTime) = n
      /\ handles' \in Seq(Handles) /\ childTime' \in Seq(Nat) /\ now \in Nat
  BY EnterCallTypes DEF TypeInv, TableInv
<1>3. n \in Nat /\ (handles = << >> <=> n = 0)
  BY <1>2, HandleIs
<1>4. /\ Len(handles') = n + 1 /\ handles'[n + 1] = Handle(s)
      /\ \A i \in 1 .. n : handles'[i] = handles[i]
  BY <1>1, <1>2, EnterTypes, AppendProperties
<1>5. /\ Len(childTime') = n + 1 /\ childTime'[n + 1] = 0
      /\ \A i \in 1 .. n : childTime'[i] = childTime[i]
      /\ now' = now /\ onTop' = onTop /\ inside' = inside /\ current' = m
  BY <1>1, <1>2, EnterTypes
<1>6. /\ Handle(s).site = s /\ Handle(s).start = now /\ Handle(s).node = m /\ Handle(s).prev = current
  BY DEF Handle
<1>7. Calls(handles, childTime, n) /\ Calls(handles', childTime', n + 1)
  BY <1>2, <1>4, <1>5, CallsAre
<1>8. /\ TreeOK(Tree) /\ N \in Nat \ {0} /\ Parent \in 1 .. N /\ Len(paths) \in Nat /\ Len(paths) <= N
  BY TreeIs
<1>9. /\ Tree' = paths' /\ TreeOK(paths') /\ P \in Nat /\ N <= P /\ m \in 1 .. P
      /\ \A j \in 1 .. N : /\ paths'[j].site = Tree[j].site /\ paths'[j].parent = Tree[j].parent
                           /\ paths'[j].self = Tree[j].self
  BY <1>1, EnterTree
<1>10. \/ P = N /\ m \in 1 .. N /\ m = Parent /\ Folds(s)
       \/ P = N /\ m \in 1 .. N /\ FindsFull(s)
       \/ P = N /\ m \in 1 .. N /\ Tree[m].parent = Parent /\ Tree[m].site = s
       \/ P = N + 1 /\ m = N + 1 /\ paths'[m].site = s /\ paths'[m].parent = Parent /\ paths'[m].self = 0
  BY <1>1, EnterTree
<1>11. \A i \in 1 .. n : handles[i].node \in 1 .. N
  <2>1. \A i \in 1 .. n : handles[i].node \in 1 .. Len(paths)
    BY DEF TypeInv, HandlesOK
  <2> HIDE DEF n, N
  <2> QED
    BY <1>8, <2>1
<1>12. /\ IsAncestry(Tree, a) /\ g \in [1 .. N -> Int]
       /\ SumFunctionOnSet(g, 1 .. N) = SumFunctionOnSet(onTop, Sites)
       /\ \A j \in 1 .. N : Tallied(handles, childTime, At(handles, j), now, g[j] - Tree[j].self)
       /\ ~ cut => BySite(g, a)
  BY DEF Ledger, NodesExact
<1>13. /\ current = IF n = 0 THEN NoPath ELSE handles[n].node
       /\ \A k \in 1 .. n : handles[k].prev = IF k = 1 THEN NoPath ELSE handles[k - 1].node
  BY <1>3 DEF PathsOK, Last
<1>14. Parent = IF n = 0 THEN Root ELSE handles[n].node
  <2>1. CASE n = 0
    BY <1>13, <2>1 DEF Parent
  <2>2. CASE n # 0
    <3>1. n \in 1 .. n
      BY <1>3, <2>2
    <3>2. handles[n].node # 0
      BY <1>8, <1>11, <3>1
    <3> QED
      BY <1>13, <2>2, <3>2 DEF Parent, NoPath
  <2> QED
    BY <2>1, <2>2
<1>15. At(handles, 0) = At(handles, 0) /\ \A j \in 1 .. P : At(handles, j) = {i \in 1 .. n : handles[i].node = j}
  BY DEF At
<1>16. \A j \in 1 .. P : At(handles', j) = {i \in 1 .. n + 1 : handles'[i].node = j}
  BY <1>4 DEF At
<1> HIDE DEF n, N, P, m
<1>0. PICK f, b : /\ f = [j \in 1 .. P |-> IF j \in 1 .. N THEN g[j] ELSE 0]
                  /\ b = [j \in 1 .. P |-> IF j \in 1 .. N THEN a[j] ELSE {j} \cup a[Parent]]
  OBVIOUS
<1>17. /\ \A j \in 1 .. N : j \in 1 .. P /\ f[j] = g[j] /\ b[j] = a[j]
       /\ \A j \in 1 .. P : j \notin 1 .. N => j = N + 1 /\ P = N + 1 /\ f[j] = 0 /\ b[j] = {j} \cup a[Parent]
  BY <1>0, <1>8, <1>9, <1>10
<1>18. f \in [1 .. P -> Int] /\ \A j \in 1 .. N : g[j] \in Int
  BY <1>0, <1>12
<1>27. \A j \in 2 .. N : Tree[j].parent \in 1 .. N /\ a[j] = {j} \cup a[Tree[j].parent]
  BY ONLY <1>8, <1>12, Upward DEF N
<1>19. PathsOK'
  <2>1. current' = handles'[n + 1].node /\ handles'[n + 1].prev = IF n = 0 THEN NoPath ELSE handles[n].node
    BY <1>4, <1>5, <1>6, <1>13
  <2>2. ASSUME NEW k \in 1 .. n + 1 PROVE handles'[k].prev = IF k = 1 THEN NoPath ELSE handles'[k - 1].node
    <3>1. CASE k = n + 1
      <4>1. k - 1 = n /\ (k = 1 <=> n = 0) /\ (n # 0 => n \in 1 .. n)
        BY <1>3, <3>1
      <4> QED
        BY <1>4, <2>1, <3>1, <4>1
    <3>2. CASE k # n + 1
      <4>1. k \in 1 .. n /\ (k # 1 => k - 1 \in 1 .. n)
        BY <1>3, <3>2
      <4> QED
        BY <1>4, <1>13, <4>1
    <3> QED
      BY <3>1, <3>2
  <2>3. Len(handles') = n + 1 /\ handles' # << >>
    <3>1. Len(handles') # 0
      BY <1>3, <1>4
    <3> QED
      BY <1>4, <3>1
  <2> QED
    BY <2>1, <2>2, <2>3 DEF PathsOK, Last
<1>20. IsAncestry(paths', b)
  <2>1. 1 \in 1 .. N
    BY <1>8
  <2>2. b[Root] = {Root}
    BY <1>12, <1>17, <2>1 DEF IsAncestry, Root
  <2>3. ASSUME NEW j \in 2 .. P PROVE b[j] = {j} \cup b[paths'[j].parent]
    <3>1. CASE j \in 1 .. N
      <4>1. j \in 2 .. N
        BY <3>1
      <4>2. PICK p \in 1 .. N : p = Tree[j].parent /\ a[j] = {j} \cup a[p]
        BY <1>27, <4>1
      <4>3. paths'[j].parent = p
        BY <1>9, <3>1, <4>2
      <4> QED
        BY <1>17, <3>1, <4>2, <4>3
    <3>2. CASE j \notin 1 .. N
      <4>1. j = N + 1 /\ P = N + 1 /\ j \in 1 .. P
        BY <1>9, <1>17, <3>2
      <4>2. P # N
        BY <1>8, <4>1
      <4>3. paths'[j].parent = Parent
        BY <1>10, <4>1, <4>2
      <4> QED
        BY <1>8, <1>17, <3>2, <4>1, <4>3
    <3> QED
      BY <3>1, <3>2
  <2> QED
    BY <2>2, <2>3 DEF IsAncestry, P
<1>21. ASSUME NEW j \in 1 .. P
       PROVE  Tallied(handles', childTime', At(handles', j), now, f[j] - paths'[j].self)
  <2> DEFINE M == At(handles, j)
             K == At(handles', j)
             d == f[j] - paths'[j].self
  <2>1. K \cap (1 .. n) = M \cap (1 .. n)
    <3>1. \A i \in 1 .. n : i \in 1 .. n + 1
      BY <1>3
    <3> QED
      BY <1>4, <1>15, <1>16, <3>1
  <2>2. d \in Int /\ Tallied(handles, childTime, M, now, d)
    <3>1. paths'[j].self \in Int
      <4>1. paths' \in Seq(NodeRecords) /\ j \in 1 .. Len(paths')
        BY <1>9 DEF TreeOK, P
      <4>2. paths'[j] \in NodeRecords
        BY <4>1, NodeIs
      <4> QED
        BY <4>2 DEF NodeRecords
    <3>2. CASE j \in 1 .. N
      <4>1. d = g[j] - Tree[j].self
        BY <1>9, <1>17, <3>2
      <4> QED
        BY <1>9, <1>12, <1>18, <3>1, <3>2, <4>1
    <3>3. CASE j \notin 1 .. N
      <4>1. j = m /\ f[j] = 0 /\ paths'[m].self = 0
        <5>1. j = N + 1 /\ P = N + 1 /\ f[j] = 0
          BY <1>17, <3>3
        <5>2. P # N
          BY <1>8, <5>1
        <5> QED
          BY <1>10, <5>1, <5>2
      <4>2. d = 0
        BY <4>1
      <4>3. M \cap (1 .. n) = {}
        BY <1>11, <1>15, <3>3
      <4>4. Tallied(handles, childTime, M, now, 0)
        BY <1>7, <4>3, TallyOther
      <4> QED
        BY <4>2, <4>4
    <3> QED
      BY <3>2, <3>3
  <2>3. /\ \A i \in 1 .. n : handles'[i] = handles[i] /\ childTime'[i] = childTime[i]
        /\ childTime'[n + 1] = 0 /\ now \in Nat /\ handles'[n + 1].start = now
    BY <1>2, <1>4, <1>5, <1>6
  <2> HIDE DEF M, K, d
  <2>4. Tallied(handles', childTime', K, now, d)
    BY ONLY <1>7, <2>1, <2>2, <2>3, TallyPush
  <2> QED
    BY <2>4 DEF K, d
<1>22. IsFiniteSet(1 .. P) /\ 1 .. N \subseteq 1 .. P
  BY <1>9, <1>17, FS_Interval
<1>23. ASSUME NEW X, NEW Y, Y \subseteq 1 .. P, X \subseteq Y, \A j \in Y : j \in 1 .. N => j \in X, X \subseteq 1 .. N
       PROVE  SumFunctionOnSet(f, Y) = SumFunctionOnSet(g, X)
  <2>1. IsFiniteSet(Y)
    BY <1>22, <1>23, FS_Subset
  <2>2. \A j \in X : g[j] \in Int /\ f[j] = g[j]
    BY <1>17, <1>18, <1>23
  <2>3. \A j \in Y \ X : f[j] = 0
    BY <1>17, <1>23
  <2>4. X \subseteq Y
    BY <1>23
  <2> QED
    BY ONLY <2>1, <2>2, <2>3, <2>4, SumWithin
<1>24. SumFunctionOnSet(f, 1 .. P) = SumFunctionOnSet(onTop, Sites)
  BY <1>12, <1>22, <1>23
<1>25. ASSUME ~ cut' PROVE BySite(f, b)'
  <2>1. BySite(g, a) /\ ~ FindsFull(s)
    BY <1>1, <1>12, <1>25
  <2>2. \A k \in 1 .. n : Tree[handles[k].node].site = handles[k].site
    BY <2>1 DEF BySite, SitesAreNodes, n
  <2>3. \A k \in 1 .. n : \A l \in 1 .. k : handles[l].node \in a[handles[k].node]
    BY <2>1 DEF BySite, OpenAbove, n
  <2>4. \A k \in 1 .. n : \A i \in a[handles[k].node] : i = Root \/ \E l \in 1 .. k : handles[l].node = i
    BY <2>1 DEF BySite, AboveOpen, n
  <2>5. paths'[m].site = s
    <3>1. CASE m = Parent /\ Folds(s)
      BY <1>8, <1>9, <3>1 DEF Folds
    <3>2. CASE m \in 1 .. N /\ Tree[m].parent = Parent /\ Tree[m].site = s
      BY <1>9, <3>2
    <3> QED
      BY <1>10, <2>1, <3>1, <3>2
  <2>6. \/ m = Parent /\ n # 0
        \/ b[m] = {m} \cup a[Parent]
    <3>1. CASE m = Parent /\ Folds(s)
      BY <1>14, <3>1 DEF Folds
    <3>2. CASE m \in 1 .. N /\ Tree[m].parent = Parent /\ Tree[m].site = s
      <4>1. m # 1
        BY <1>8, <3>2 DEF TreeOK, Root, NoPath
      <4>2. m \in 2 .. N
        BY <3>2, <4>1
      <4>3. a[m] = {m} \cup a[Tree[m].parent]
        BY <1>8, <1>12, <4>2, Upward DEF N
      <4> QED
        BY <1>17, <3>2, <4>3
    <3>3. CASE m = N + 1 /\ P = N + 1
      <4>1. m \notin 1 .. N /\ m \in 1 .. P
        BY <1>8, <3>3
      <4> QED
        BY <1>17, <4>1
    <3> QED
      BY <1>10, <2>1, <3>1, <3>2, <3>3
  <2>7. \A l \in 1 .. n : handles[l].node \in a[Parent]
    <3> SUFFICES ASSUME NEW l \in 1 .. n PROVE handles[l].node \in a[Parent]
      OBVIOUS
    <3>1. n # 0 /\ n \in 1 .. n
      BY <1>3
    <3> QED
      BY <1>14, <2>3, <3>1
  <2>8. \A i \in a[Parent] : i = Root \/ \E l \in 1 .. n : handles[l].node = i
    <3>1. CASE n = 0
      <4>1. a[Root] = {Root}
        BY <1>12 DEF IsAncestry
      <4> QED
        BY <1>14, <3>1, <4>1
    <3>2. CASE n # 0
      <4>1. n \in 1 .. n
        BY <1>3, <3>2
      <4> QED
        BY <1>14, <2>4, <3>2, <4>1
    <3> QED
      BY <3>1, <3>2
  <2>9. m \in b[m] /\ (a[Parent] \subseteq b[m]) /\ b[m] \subseteq {m} \cup a[Parent]
    <3>1. CASE m = Parent /\ n # 0
      <4>1. b[m] = a[Parent]
        BY <1>8, <1>17, <3>1
      <4>2. Parent \in a[Parent]
        BY <1>8, <1>12, AboveIsBefore DEF N
      <4> QED
        BY <3>1, <4>1, <4>2
    <3>2. CASE b[m] = {m} \cup a[Parent]
      BY <3>2
    <3> QED
      BY <2>6, <3>1, <3>2
  <2>10. ASSUME NEW k \in 1 .. n + 1
         PROVE  \/ k = n + 1 /\ handles'[k].node = m /\ handles'[k].site = s
                \/ /\ k \in 1 .. n /\ handles'[k] = handles[k] /\ handles[k].node \in 1 .. N
                   /\ b[handles[k].node] = a[handles[k].node]
    <3>1. CASE k = n + 1
      BY <1>4, <1>6, <3>1
    <3>2. CASE k # n + 1
      <4>1. k \in 1 .. n
        BY <1>3, <3>2
      <4> QED
        BY <1>4, <1>11, <1>17, <4>1
    <3> QED
      BY <3>1, <3>2
  <2>19. handles'[n + 1].node = m
    BY <1>4, <1>6
  <2>11. SitesAreNodes'
    <3>1. ASSUME NEW k \in 1 .. n + 1 PROVE paths'[handles'[k].node].site = handles'[k].site
      BY <1>9, <2>2, <2>5, <2>10
    <3> QED
      BY <1>4, <1>9, <3>1 DEF SitesAreNodes
  <2>12. OpenAbove(b)'
    <3>1. ASSUME NEW k \in 1 .. n + 1, NEW l \in 1 .. k PROVE handles'[l].node \in b[handles'[k].node]
      <4>1. l \in 1 .. n + 1 /\ (k = n + 1 /\ l # n + 1 => l \in 1 .. n)
        BY <1>3
      <4>2. CASE k = n + 1
        <5>0. handles'[k].node = m
          BY <2>19, <4>2
        <5>1. CASE l = n + 1
          <6>1. handles'[l].node = m
            BY <2>19, <5>1
          <6> QED
            BY <2>9, <5>0, <6>1
        <5>2. CASE l # n + 1
          <6>1. l \in 1 .. n /\ handles'[l] = handles[l]
            BY <1>4, <4>1, <4>2, <5>2
          <6>2. handles'[l].node \in a[Parent]
            BY <2>7, <6>1
          <6> QED
            BY <2>9, <5>0, <6>2
        <5> QED
          BY <5>1, <5>2
      <4>3. CASE k # n + 1
        <5>1. k \in 1 .. n /\ l \in 1 .. n
          BY <1>3, <4>3
        <5>2. handles'[k] = handles[k] /\ handles'[l] = handles[l] /\ b[handles[k].node] = a[handles[k].node]
          BY <1>4, <2>10, <4>3, <5>1
        <5> QED
          BY <2>3, <5>1, <5>2
      <4> QED
        BY <4>2, <4>3
    <3> QED
      BY <1>4, <3>1 DEF OpenAbove
  <2>13. AboveOpen(b)'
    <3>1. ASSUME NEW k \in 1 .. n + 1, NEW i \in b[handles'[k].node], i # Root
          PROVE  \E l \in 1 .. k : handles'[l].node = i
      <4>1. CASE k = n + 1
        <5>0. handles'[k].node = m
          BY <2>19, <4>1
        <5>1. i = m \/ i \in a[Parent]
          <6>1. i \in b[m]
            BY <5>0
          <6> QED
            BY <2>9, <6>1
        <5>2. CASE i = m
          <6>1. k \in 1 .. k
            BY <1>3, <4>1
          <6> QED
            BY <5>0, <5>2, <6>1
        <5>3. CASE i \in a[Parent]
          <6>1. PICK l \in 1 .. n : handles[l].node = i
            BY <2>8, <3>1, <5>3
          <6>2. l \in 1 .. k /\ handles'[l] = handles[l]
            BY <1>3, <1>4, <4>1
          <6> QED
            BY <6>1, <6>2
        <5> QED
          BY <5>1, <5>2, <5>3
      <4>2. CASE k # n + 1
        <5>1. k \in 1 .. n /\ handles'[k] = handles[k] /\ b[handles[k].node] = a[handles[k].node]
          BY <2>10, <4>2
        <5>2. PICK l \in 1 .. k : handles[l].node = i
          BY <2>4, <3>1, <5>1
        <5>3. handles'[l] = handles[l]
          <6>1. l \in 1 .. n
            BY <1>3, <5>1
          <6> QED
            BY <1>4, <6>1
        <5> QED
          BY <5>2, <5>3
      <4> QED
        BY <4>1, <4>2
    <3> QED
      BY <1>4, <3>1 DEF AboveOpen
  <2>14. ASSUME NEW x
         PROVE  /\ Nodes(Tree, x) = {j \in 1 .. N : Tree[j].site = x}
                /\ Nodes(paths', x) = {j \in 1 .. P : paths'[j].site = x}
                /\ Nodes(Tree, x) \subseteq Nodes(paths', x)
                /\ SumFunctionOnSet(f, Nodes(paths', x)) = SumFunctionOnSet(g, Nodes(Tree, x))
    <3>1. /\ Nodes(Tree, x) = {j \in 1 .. N : Tree[j].site = x}
          /\ Nodes(paths', x) = {j \in 1 .. P : paths'[j].site = x}
      BY DEF Nodes, N, P
    <3>2. Nodes(Tree, x) \subseteq Nodes(paths', x)
      BY <1>9, <1>17, <3>1
    <3>3. \A j \in Nodes(paths', x) : j \in 1 .. N => j \in Nodes(Tree, x)
      BY <1>9, <3>1
    <3>4. Nodes(paths', x) \subseteq 1 .. P /\ Nodes(Tree, x) \subseteq 1 .. N
      BY <3>1
    <3> QED
      BY <1>23, <3>1, <3>2, <3>3, <3>4
  <2>15. SelfByNode(f)'
    <3>1. \A x \in Sites : SumFunctionOnSet(g, Nodes(Tree, x)) = onTop[x]
      BY <2>1 DEF BySite, SelfByNode
    <3> QED
      BY <1>5, <1>9, <2>14, <3>1 DEF SelfByNode
  <2>16. \A x \in Sites : Nodes(Tree, x) = {} => inside[x] = 0
    BY <2>1 DEF BySite, NoNodeNoTime
  <2>17. NoNodeNoTime'
    BY <1>5, <1>9, <2>14, <2>16 DEF NoNodeNoTime
  <2>18. OpenByNode(f, b)'
    <3>0. \A i \in 2 .. N : Nodes(Tree, Tree[i].site) = {i} =>
             SumFunctionOnSet(g, Below(Tree, a, i)) = inside[Tree[i].site]
      BY <2>1 DEF BySite, OpenByNode, N
    <3> SUFFICES ASSUME NEW i \in 2 .. P, Nodes(paths', paths'[i].site) = {i}
                 PROVE  SumFunctionOnSet(f, Below(paths', b, i)) = inside[paths'[i].site]
      BY <1>5, <1>9 DEF OpenByNode, P
    <3>1. CASE i \in 1 .. N
      <4> DEFINE x == Tree[i].site
                 X == Below(Tree, a, i)
                 Y == Below(paths', b, i)
      <4>1. paths'[i].site = x
        BY <1>9, <3>1
      <4>2. Nodes(Tree, x) = {i}
        BY <2>14, <3>1, <4>1
      <4>3. X = {j \in 1 .. N : i \in a[j]} /\ Y = {j \in 1 .. P : i \in b[j]}
        BY DEF Below, N, P
      <4>4. X \subseteq Y /\ Y \subseteq 1 .. P /\ X \subseteq 1 .. N /\ \A j \in Y : j \in 1 .. N => j \in X
        BY <1>17, <4>3
      <4> HIDE DEF X, Y
      <4>5. SumFunctionOnSet(f, Y) = SumFunctionOnSet(g, X)
        BY <1>23, <4>4
      <4>6. SumFunctionOnSet(g, X) = inside[x]
        <5>1. i \in 2 .. N
          BY <3>1
        <5> QED
          BY <3>0, <4>2, <5>1 DEF X
      <4> QED
        BY <4>1, <4>5, <4>6 DEF Y
    <3>2. CASE i \notin 1 .. N
      <4>1. i = N + 1 /\ P = N + 1 /\ i \in 1 .. P
        BY <1>9, <1>17, <3>2
      <4>2. i = m
        <5>1. P # N
          BY <1>8, <4>1
        <5> QED
          BY <1>10, <4>1, <5>1
      <4>3. Nodes(Tree, s) = {}
        <5>1. Nodes(Tree, s) \subseteq {i}
          BY <2>5, <2>14, <4>2
        <5>2. i \notin Nodes(Tree, s)
          BY <2>14, <3>2
        <5> QED
          BY <5>1, <5>2
      <4>4. inside[s] = 0
        BY <2>16, <4>3
      <4>5. ASSUME NEW j \in Below(paths', b, i) PROVE f[j] = 0 /\ j \in 1 .. P
        <5>1. j \in 1 .. P /\ i \in b[j]
          BY DEF Below, P
        <5>2. b[j] \subseteq 1 .. j
          <6>1. j \in 1 .. Len(paths')
            BY <5>1 DEF P
          <6>2. TreeOK(paths') /\ IsAncestry(paths', b)
            BY <1>9, <1>20
          <6>3. j \in b[j] /\ Root \in b[j] /\ b[j] \subseteq 1 .. j
            BY ONLY <6>1, <6>2, AboveIsBefore
          <6> QED
            BY <6>3
        <5>3. j \notin 1 .. N
          BY <1>8, <1>9, <4>1, <5>1, <5>2
        <5> QED
          BY <1>17, <5>1, <5>3
      <4>6. IsFiniteSet(Below(paths', b, i))
        BY <1>22, <4>5, FS_Subset
      <4>7. SumFunctionOnSet(f, Below(paths', b, i)) = 0
        BY <4>5, <4>6, SumZero
      <4> QED
        BY <2>5, <4>2, <4>4, <4>7
    <3> QED
      BY <3>1, <3>2
  <2> QED
    BY <2>11, <2>12, <2>13, <2>15, <2>17, <2>18 DEF BySite
<1>26. Ledger(f, b)'
  <2>1. NodesExact(f)'
    BY <1>5, <1>9, <1>21 DEF NodesExact, P
  <2> QED
    BY <1>5, <1>9, <1>18, <1>20, <1>24, <1>25, <2>1 DEF Ledger, P
<1> QED
  BY <1>19, <1>26

(* A call returns: its own time goes from its slice to its node.           *)
LEMMA LedgerExit ==
  ASSUME TypeInv, TableInv, PathsOK, NEW g, NEW a, Ledger(g, a), ProfileExit
  PROVE  PathsOK' /\ Ledger(g, a)'
<1> DEFINE n == Len(handles) - 1
           h == Last
           e == Elapsed(Last)
           N == Len(Tree)
<1>1. /\ handles # << >> /\ now' = now /\ onTop' = onTop /\ inside' = inside /\ cut' = cut
      /\ current' = h.prev
  BY DEF ProfileExit, clocks, Last
<1>2. /\ handles \in Seq(Handles) /\ childTime \in Seq(Nat) /\ Len(childTime) = Len(handles)
      /\ now \in Nat
  BY DEF TypeInv, TableInv
<1>3. /\ n \in Nat /\ Len(handles) = n + 1 /\ Len(childTime) = n + 1
  <2>1. Len(handles) \in Nat \ {0}
    BY <1>1, LastIs
  <2> QED
    BY <1>2, <2>1
<1>4. /\ h = handles[n + 1] /\ h.start \in Nat /\ e = now - h.start /\ e \in Nat
      /\ Own = e - childTime[n + 1] /\ Own \in Int /\ h.node \in 1 .. Len(paths) /\ Tree = paths
  BY <1>1, <1>3, LastIs DEF Last, Own, Elapsed
<1>5. /\ handles' \in Seq(Handles) /\ Len(handles') = n
      /\ \A i \in 1 .. n : handles'[i] = handles[i]
      /\ childTime' \in Seq(Nat) /\ Len(childTime') = n
      /\ \A i \in 1 .. n : childTime'[i] = IF i = n THEN childTime[i] + e ELSE childTime[i]
  BY <1>2, ExitCalls
<1>6. /\ TreeOK(Tree) /\ Tree \in Seq(NodeRecords) /\ TreeOK(Tree') /\ Len(Tree') = N /\ N \in Nat
      /\ \A j \in 1 .. N : /\ Tree'[j].site = Tree[j].site /\ Tree'[j].parent = Tree[j].parent
                           /\ Tree'[j].self = IF j = h.node THEN Tree[j].self + Own ELSE Tree[j].self
  BY TreeIs, ExitTree DEF Alike
<1>7. Calls(handles, childTime, n + 1) /\ Calls(handles', childTime', n)
  <2>1. Calls(handles, childTime, Len(handles)) /\ Calls(handles', childTime', Len(handles'))
    BY <1>2, <1>5, CallsAre
  <2> QED
    BY <1>3, <1>5, <2>1
<1>8. /\ IsAncestry(Tree, a) /\ g \in [1 .. N -> Int]
      /\ SumFunctionOnSet(g, 1 .. N) = SumFunctionOnSet(onTop, Sites)
      /\ \A j \in 1 .. N : Tallied(handles, childTime, At(handles, j), now, g[j] - Tree[j].self)
      /\ ~ cut => BySite(g, a)
  BY DEF Ledger, NodesExact
<1>9. \A k \in 1 .. n + 1 : handles[k].prev = IF k = 1 THEN NoPath ELSE handles[k - 1].node
  BY <1>3 DEF PathsOK
<1>10. /\ \A j \in 1 .. N : At(handles, j) = {i \in 1 .. n + 1 : handles[i].node = j}
       /\ \A j \in 1 .. N : At(handles', j) = {i \in 1 .. n : handles'[i].node = j}
  BY <1>3, <1>5 DEF At
<1> HIDE DEF n, h, e, N
<1>11. /\ \A i \in 1 .. n : i \in 1 .. n + 1
       /\ n + 1 \in 1 .. n + 1
  BY <1>3
<1>12. PathsOK'
  <2>1. ASSUME NEW k \in 1 .. n PROVE handles'[k].prev = IF k = 1 THEN NoPath ELSE handles'[k - 1].node
    <3>1. k # 1 => k - 1 \in 1 .. n
      BY <1>3
    <3> QED
      BY <1>5, <1>9, <1>11, <3>1
  <2>2. current' = IF handles' = << >> THEN NoPath ELSE handles'[Len(handles')].node
    <3>1. current' = IF n + 1 = 1 THEN NoPath ELSE handles[(n + 1) - 1].node
      BY <1>1, <1>4, <1>9, <1>11 DEF h
    <3>2. (handles' = << >> <=> n = 0) /\ (n + 1) - 1 = n /\ (n # 0 => n \in 1 .. n) /\ (n + 1 = 1 <=> n = 0)
      BY <1>3, <1>5, HandleIs
    <3> QED
      BY <1>5, <3>1, <3>2
  <2> QED
    BY <1>5, <2>1, <2>2 DEF PathsOK, Last
<1>13. ASSUME NEW j \in 1 .. N
       PROVE  Tallied(handles', childTime', At(handles', j), now, g[j] - Tree'[j].self)
  <2> DEFINE M == At(handles, j)
             K == At(handles', j)
             d == g[j] - Tree[j].self
             x == Share(handles, childTime, M, n + 1, now)
  <2>1. K \cap (1 .. n) = M \cap (1 .. n) /\ (n + 1 \in M <=> j = h.node)
    <3>1. M = {i \in 1 .. n + 1 : handles[i].node = j} /\ K = {i \in 1 .. n : handles'[i].node = j}
      BY <1>10
    <3> HIDE DEF M, K
    <3> QED
      BY <1>4, <1>5, <1>11, <3>1
  <2>2. Tallied(handles, childTime, M, now, d)
    BY <1>8
  <2>3. d \in Int /\ Tree[j].self \in Int /\ g[j] \in Int
    <3>1. Tree[j] \in NodeRecords
      BY <1>6, NodeIs DEF N
    <3>2. Tree[j].self \in Int
      BY <3>1 DEF NodeRecords
    <3> QED
      BY <1>8, <3>2
  <2>4. x = IF j = h.node THEN Own ELSE 0
    <3>1. Slice(handles, childTime, n + 1, now) = now - h.start - childTime[n + 1]
      BY <1>3, <1>4 DEF Slice
    <3>2. Slice(handles, childTime, n + 1, now) = Own
      BY <1>4, <3>1
    <3> QED
      BY <2>1, <3>2 DEF Share
  <2>5. g[j] - Tree'[j].self = d - x
    <3>1. Own \in Int /\ Tree'[j].self = IF j = h.node THEN Tree[j].self + Own ELSE Tree[j].self
      BY <1>4, <1>6
    <3> QED
      BY <2>3, <2>4, <3>1
  <2> HIDE DEF M, K, d
  <2>6. \A i \in 1 .. n : childTime'[i] = IF i = n THEN childTime[n] + (now - handles[n + 1].start) ELSE childTime[i]
    BY <1>4, <1>5
  <2>7. now \in Nat /\ \A i \in 1 .. n : handles'[i] = handles[i]
    BY <1>2, <1>5
  <2>8. Tallied(handles', childTime', K, now, d - Share(handles, childTime, M, n + 1, now))
    BY ONLY <1>3, <1>7, <2>1, <2>2, <2>3, <2>6, <2>7, TallyPop
  <2> QED
    BY <2>5, <2>8 DEF K
<1>14. IsAncestry(Tree', a)
  <2>1. \A j \in 2 .. N : a[j] = {j} \cup a[Tree[j].parent]
    BY <1>8 DEF IsAncestry, N
  <2>2. \A j \in 2 .. N : j \in 1 .. N
    BY <1>6
  <2>3. \A j \in 2 .. N : a[j] = {j} \cup a[Tree'[j].parent]
    BY <1>6, <2>1, <2>2
  <2> QED
    BY <1>6, <1>8, <2>3 DEF IsAncestry
<1>15. ASSUME ~ cut PROVE BySite(g, a)'
  <2>1. BySite(g, a)
    BY <1>8, <1>15
  <2>2. \A k \in 1 .. n + 1 : handles[k].node \in 1 .. N
    BY <1>3, <1>4 DEF TypeInv, HandlesOK, N
  <2>3. \A x : Nodes(Tree', x) = Nodes(Tree, x)
    BY <1>6 DEF Nodes, N
  <2>4. \A i : Below(Tree', a, i) = Below(Tree, a, i)
    BY <1>6 DEF Below, N
  <2>5. SitesAreNodes'
    <3>1. \A k \in 1 .. n + 1 : Tree[handles[k].node].site = handles[k].site
      BY <1>3, <2>1 DEF BySite, SitesAreNodes
    <3>2. \A k \in 1 .. n : Tree'[handles'[k].node].site = handles'[k].site
      <4> SUFFICES ASSUME NEW k \in 1 .. n PROVE Tree'[handles'[k].node].site = handles'[k].site
        OBVIOUS
      <4>1. handles'[k] = handles[k] /\ k \in 1 .. n + 1
        BY <1>5, <1>11
      <4>2. PICK v \in 1 .. N : v = handles[k].node
        BY <2>2, <4>1
      <4>3. Tree'[v].site = Tree[v].site /\ Tree[v].site = handles[k].site
        BY <1>6, <3>1, <4>1, <4>2
      <4> QED
        BY <4>1, <4>2, <4>3
    <3> QED
      BY <1>5, <3>2 DEF SitesAreNodes
  <2>6. OpenAbove(a)'
    <3>1. \A k \in 1 .. n + 1 : \A l \in 1 .. k : handles[l].node \in a[handles[k].node]
      BY <1>3, <2>1 DEF BySite, OpenAbove
    <3>2. ASSUME NEW k \in 1 .. n, NEW l \in 1 .. k PROVE handles'[l].node \in a[handles'[k].node]
      <4>1. l \in 1 .. n
        BY <1>3
      <4> QED
        BY <1>5, <1>11, <3>1, <4>1
    <3> QED
      BY <1>5, <3>2 DEF OpenAbove
  <2>7. AboveOpen(a)'
    <3>1. \A k \in 1 .. n + 1 : \A i \in a[handles[k].node] : i = Root \/ \E l \in 1 .. k : handles[l].node = i
      BY <1>3, <2>1 DEF BySite, AboveOpen
    <3>2. ASSUME NEW k \in 1 .. n, NEW i \in a[handles'[k].node], i # Root PROVE \E l \in 1 .. k : handles'[l].node = i
      <4>1. handles'[k] = handles[k] /\ k \in 1 .. n + 1
        BY <1>5, <1>11
      <4>2. PICK l \in 1 .. k : handles[l].node = i
        BY <3>1, <3>2, <4>1
      <4>3. l \in 1 .. n
        BY <1>3
      <4> QED
        BY <1>5, <4>2, <4>3
    <3> QED
      BY <1>5, <3>2 DEF AboveOpen
  <2>8. SelfByNode(g)'
    <3>1. \A x \in Sites : SumFunctionOnSet(g, Nodes(Tree, x)) = onTop[x]
      BY <2>1 DEF BySite, SelfByNode
    <3> QED
      BY <1>1, <2>3, <3>1 DEF SelfByNode
  <2>9. OpenByNode(g, a)'
    <3>1. \A i \in 2 .. N : Nodes(Tree, Tree[i].site) = {i} =>
             SumFunctionOnSet(g, Below(Tree, a, i)) = inside[Tree[i].site]
      BY <2>1 DEF BySite, OpenByNode, N
    <3>2. \A i \in 2 .. N : Tree'[i].site = Tree[i].site
      <4>1. \A i \in 2 .. N : i \in 1 .. N
        BY <1>6
      <4> QED
        BY <1>6, <4>1
    <3> QED
      BY <1>1, <1>6, <2>3, <2>4, <3>1, <3>2 DEF OpenByNode
  <2>10. NoNodeNoTime'
    <3>1. \A x \in Sites : Nodes(Tree, x) = {} => inside[x] = 0
      BY <2>1 DEF BySite, NoNodeNoTime
    <3> QED
      BY <1>1, <2>3, <3>1 DEF NoNodeNoTime
  <2> QED
    BY <2>5, <2>6, <2>7, <2>8, <2>9, <2>10 DEF BySite
<1>16. NodesExact(g)'
  BY <1>1, <1>6, <1>13 DEF NodesExact
<1>17. Ledger(g, a)'
  BY <1>1, <1>6, <1>8, <1>14, <1>15, <1>16 DEF Ledger
<1> QED
  BY <1>12, <1>17

(* A tick goes to the node of the innermost call.                          *)
LEMMA LedgerTick ==
  ASSUME TypeInv, TableInv, PathsOK, NEW g, NEW a, Ledger(g, a), Tick
  PROVE  PathsOK' /\ \E f : Ledger(f, a)'
<1> DEFINE N == Len(Tree)
<1>1. /\ now' = now + 1 /\ handles' = handles /\ childTime' = childTime /\ current' = current /\ cut' = cut
      /\ onTop' = IF handles = << >> THEN onTop ELSE [onTop EXCEPT ![Last.site] = @ + 1]
      /\ inside' = [s \in Sites |-> inside[s] + IF s \in OpenSites THEN 1 ELSE 0]
      /\ Tree' = Tree
  BY TickTypes DEF Tick, Last
<1>2. /\ handles \in Seq(Handles) /\ childTime \in Seq(Nat) /\ Len(childTime) = Len(handles) /\ now \in Nat
      /\ onTop \in [Sites -> Nat] /\ inside \in [Sites -> Nat]
      /\ OpenSites = {handles[i].site : i \in 1 .. Len(handles)}
  BY OpenIs DEF TypeInv, TableInv
<1>3. PathsOK'
  BY <1>1 DEF PathsOK, Last
<1>4. /\ IsAncestry(Tree, a) /\ g \in [1 .. N -> Int]
      /\ SumFunctionOnSet(g, 1 .. N) = SumFunctionOnSet(onTop, Sites)
      /\ \A j \in 1 .. N : Tallied(handles, childTime, At(handles, j), now, g[j] - Tree[j].self)
      /\ ~ cut => BySite(g, a)
  BY DEF Ledger, NodesExact
<1>5. TreeOK(Tree) /\ Tree \in Seq(NodeRecords) /\ N \in Nat /\ IsFiniteSet(1 .. N)
  BY TreeIs, FS_Interval
<1>6. ASSUME NEW j \in 1 .. N PROVE Tree[j].self \in Int /\ g[j] \in Int /\ g[j] - Tree[j].self \in Int
  <2>1. Tree[j] \in NodeRecords
    BY <1>5, NodeIs
  <2>2. Tree[j].self \in Int
    BY <2>1 DEF NodeRecords
  <2> QED
    BY <1>4, <2>2
<1>7. CASE handles = << >>
  <2>1. Len(handles) = 0 /\ onTop' = onTop /\ OpenSites = {}
    BY <1>1, <1>2, <1>7, HandleIs DEF OpenSites
  <2>2. \A s \in Sites : inside'[s] = inside[s]
    BY <1>1, <1>2, <2>1
  <2>3. NodesExact(g)'
    <3> SUFFICES ASSUME NEW j \in 1 .. N
                 PROVE  Tallied(handles, childTime, At(handles, j), now + 1, g[j] - Tree[j].self)
      BY <1>1 DEF NodesExact
    <3>1. g[j] - Tree[j].self = 0
      BY <1>4, <2>1, TallyNone
    <3> QED
      BY <2>1, <3>1, TallyNone
  <2>4. ASSUME ~ cut PROVE BySite(g, a)'
    <3>1. BySite(g, a)
      BY <1>4, <2>4
    <3>2. SitesAreNodes' /\ OpenAbove(a)' /\ AboveOpen(a)'
      BY <1>1, <3>1 DEF BySite, SitesAreNodes, OpenAbove, AboveOpen
    <3>3. SelfByNode(g)'
      BY <1>1, <2>1, <3>1 DEF BySite, SelfByNode
    <3>4. NoNodeNoTime'
      BY <1>1, <2>2, <3>1 DEF BySite, NoNodeNoTime
    <3>5. OpenByNode(g, a)'
      <4>1. ASSUME NEW i \in 2 .. N PROVE Tree[i].site \in Sites
        BY <1>5 DEF TreeOK
      <4>2. \A i \in 2 .. N : Nodes(Tree, Tree[i].site) = {i} =>
              SumFunctionOnSet(g, Below(Tree, a, i)) = inside[Tree[i].site]
        BY <3>1 DEF BySite, OpenByNode
      <4>3. \A i \in 2 .. N : Nodes(Tree, Tree[i].site) = {i} =>
              SumFunctionOnSet(g, Below(Tree, a, i)) = inside'[Tree[i].site]
        BY <2>2, <4>1, <4>2
      <4> QED
        BY <1>1, <4>3 DEF OpenByNode
    <3> QED
      BY <3>2, <3>3, <3>4, <3>5 DEF BySite
  <2>5. Ledger(g, a)'
    BY <1>1, <1>4, <2>1, <2>3, <2>4 DEF Ledger
  <2> QED
    BY <1>3, <2>5
<1>8. CASE handles # << >>
  <2> DEFINE n == Len(handles) - 1
             h == Last
  <2>1. /\ n \in Nat /\ Len(handles) = n + 1 /\ h = handles[n + 1] /\ h.site \in Sites
        /\ h.node \in 1 .. Len(paths) /\ Tree = paths
    <3>1. Len(handles) \in Nat \ {0}
      BY <1>8, LastIs
    <3> QED
      BY <1>8, <3>1, LastIs DEF Last
  <2>2. h.node \in 1 .. N /\ n + 1 \in 1 .. n + 1
    BY <2>1
  <2>3. Calls(handles, childTime, n + 1)
    BY <1>2, <2>1, CallsAre
  <2>4. onTop' = [onTop EXCEPT ![h.site] = @ + 1]
    BY <1>1, <1>8
  <2>5. /\ OpenSites = {handles[i].site : i \in 1 .. n + 1}
        /\ \A j \in 1 .. N : At(handles, j) = {i \in 1 .. n + 1 : handles[i].node = j}
    BY <1>2, <2>1 DEF At
  <2>6. \A k \in 1 .. n + 1 : handles[k].node \in 1 .. N /\ handles[k].site \in Sites
    <3>1. \A k \in 1 .. Len(handles) : handles[k].node \in 1 .. Len(paths) /\ handles[k].site \in Sites
      BY <1>2, HandleIs DEF TypeInv, HandlesOK
    <3> QED
      BY <2>1, <3>1
  <2> HIDE DEF n, h
  <2>7. PICK f : f = [g EXCEPT ![h.node] = @ + 1]
    OBVIOUS
  <2>8. f \in [1 .. N -> Int] /\ \A j \in 1 .. N : f[j] = IF j = h.node THEN g[j] + 1 ELSE g[j]
    BY <1>4, <2>2, <2>7
  <2> HIDE DEF N
  <2>9. ASSUME NEW X, X \subseteq 1 .. N
        PROVE  SumFunctionOnSet(f, X) = SumFunctionOnSet(g, X) + IF h.node \in X THEN 1 ELSE 0
    <3>1. IsFiniteSet(X)
      <4>1. X \in SUBSET (1 .. N)
        BY <2>9
      <4> QED
        BY <1>5, <4>1, FS_Subset
    <3>2. /\ \A y \in X : g[y] \in Int
          /\ \A y \in X : y # h.node => f[y] = g[y]
          /\ h.node \in X => f[h.node] = g[h.node] + 1
      BY <1>6, <2>8, <2>9
    <3> QED
      BY ONLY <3>1, <3>2, SumRaised
  <2>10. SumFunctionOnSet(f, 1 .. N) = SumFunctionOnSet(onTop', Sites)
    <3>1. SumFunctionOnSet(f, 1 .. N) = SumFunctionOnSet(g, 1 .. N) + 1
      BY <2>2, <2>9
    <3>2. IsFiniteSet(Sites)
      BY ProfilerAssumption
    <3>3. /\ \A y \in Sites : onTop[y] \in Int
          /\ \A y \in Sites : y # h.site => onTop'[y] = onTop[y]
          /\ h.site \in Sites => onTop'[h.site] = onTop[h.site] + 1
      BY <1>2, <2>1, <2>4
    <3>4. SumFunctionOnSet(onTop', Sites) = SumFunctionOnSet(onTop, Sites) + IF h.site \in Sites THEN 1 ELSE 0
      BY ONLY <3>2, <3>3, SumRaised
    <3> QED
      BY <1>4, <2>1, <3>1, <3>4
  <2>11. NodesExact(f)'
    <3> SUFFICES ASSUME NEW j \in 1 .. N
                 PROVE  Tallied(handles, childTime, At(handles, j), now + 1, f[j] - Tree[j].self)
      BY <1>1 DEF NodesExact, N
    <3> DEFINE d == g[j] - Tree[j].self
               M == At(handles, j)
    <3>1. Tallied(handles, childTime, M, now, d) /\ d \in Int /\ now \in Nat
      BY <1>2, <1>4, <1>6
    <3>2. n + 1 \in M <=> j = h.node
      BY <2>1, <2>2, <2>5
    <3>3. f[j] - Tree[j].self = d + IF n + 1 \in M THEN 1 ELSE 0
      BY <1>6, <2>8, <3>2
    <3> HIDE DEF d, M
    <3>4. Tallied(handles, childTime, M, now + 1, d + IF n + 1 \in M THEN 1 ELSE 0)
      BY ONLY <2>1, <2>3, <3>1, TallyTick
    <3> QED
      BY <3>3, <3>4 DEF M
  <2>12. ASSUME ~ cut PROVE BySite(f, a)'
    <3>1. BySite(g, a)
      BY <1>4, <2>12
    <3>2. SitesAreNodes' /\ OpenAbove(a)' /\ AboveOpen(a)'
      BY <1>1, <3>1 DEF BySite, SitesAreNodes, OpenAbove, AboveOpen
    <3>3. \A k \in 1 .. n + 1 : Tree[handles[k].node].site = handles[k].site
      BY <2>1, <3>1 DEF BySite, SitesAreNodes
    <3>4. \A l \in 1 .. n + 1 : handles[l].node \in a[h.node]
      BY <2>1, <2>2, <3>1 DEF BySite, OpenAbove
    <3>5. \A i \in a[h.node] : i = Root \/ \E l \in 1 .. n + 1 : handles[l].node = i
      BY <2>1, <2>2, <3>1 DEF BySite, AboveOpen
    <3>6. \A x : Nodes(Tree, x) = {j \in 1 .. N : Tree[j].site = x}
      BY DEF Nodes, N
    <3>7. SelfByNode(f)'
      <4>1. ASSUME NEW x \in Sites PROVE SumFunctionOnSet(f, Nodes(Tree, x)) = onTop'[x]
        <5>1. SumFunctionOnSet(g, Nodes(Tree, x)) = onTop[x]
          BY <3>1 DEF BySite, SelfByNode
        <5>2. Nodes(Tree, x) \subseteq 1 .. N
          BY <3>6
        <5>3. h.node \in Nodes(Tree, x) <=> x = h.site
          BY <2>1, <2>2, <3>3, <3>6
        <5>4. SumFunctionOnSet(f, Nodes(Tree, x)) = SumFunctionOnSet(g, Nodes(Tree, x)) + IF h.node \in Nodes(Tree, x) THEN 1 ELSE 0
          BY <2>9, <5>2
        <5>5. onTop'[x] = onTop[x] + IF x = h.site THEN 1 ELSE 0
          BY <1>2, <2>1, <2>4
        <5> QED
          BY ONLY <5>1, <5>3, <5>4, <5>5
      <4> QED
        BY <1>1, <4>1 DEF SelfByNode
    <3>8. NoNodeNoTime'
      <4>1. ASSUME NEW x \in Sites, Nodes(Tree, x) = {} PROVE inside'[x] = 0
        <5>1. inside[x] = 0
          BY <3>1, <4>1 DEF BySite, NoNodeNoTime
        <5>2. x \notin OpenSites
          BY <2>5, <2>6, <3>3, <3>6, <4>1
        <5> QED
          BY <1>1, <5>1, <5>2
      <4> QED
        BY <1>1, <4>1 DEF NoNodeNoTime
    <3>9. OpenByNode(f, a)'
      <4>1. ASSUME NEW i \in 2 .. N, Nodes(Tree, Tree[i].site) = {i}
            PROVE  SumFunctionOnSet(f, Below(Tree, a, i)) = inside'[Tree[i].site]
        <5> DEFINE x == Tree[i].site
                   X == Below(Tree, a, i)
        <5>1. SumFunctionOnSet(g, X) = inside[x]
          BY <3>1, <4>1 DEF BySite, OpenByNode, N
        <5>2. x \in Sites
          BY <1>5 DEF TreeOK, N
        <5>3. X = {j \in 1 .. N : i \in a[j]}
          BY DEF Below, N
        <5>4. SumFunctionOnSet(f, X) = SumFunctionOnSet(g, X) + IF h.node \in X THEN 1 ELSE 0
          BY <2>9, <5>3
        <5>5. h.node \in X => x \in OpenSites
          <6> SUFFICES ASSUME h.node \in X PROVE x \in OpenSites
            OBVIOUS
          <6>1. i \in a[h.node] /\ i # Root
            BY <5>3 DEF Root
          <6>2. PICK l \in 1 .. n + 1 : handles[l].node = i
            BY <3>5, <6>1
          <6>3. handles[l].site = x
            BY <3>3, <6>2
          <6> QED
            BY <2>5, <6>3
        <5>6. x \in OpenSites => h.node \in X
          <6> SUFFICES ASSUME x \in OpenSites PROVE h.node \in X
            OBVIOUS
          <6>1. PICK l \in 1 .. n + 1 : handles[l].site = x
            BY <2>5
          <6>2. handles[l].node \in Nodes(Tree, x)
            BY <2>6, <3>3, <3>6, <6>1
          <6>3. handles[l].node = i
            BY <4>1, <6>2
          <6>4. i \in a[h.node]
            BY <3>4, <6>3
          <6> QED
            BY <2>2, <5>3, <6>4
        <5>7. inside'[x] = inside[x] + IF x \in OpenSites THEN 1 ELSE 0
          BY <1>1, <5>2
        <5> HIDE DEF x, X
        <5>8. SumFunctionOnSet(f, X) = inside'[x]
          BY ONLY <5>1, <5>4, <5>5, <5>6, <5>7
        <5> QED
          BY <5>8 DEF x, X
      <4> QED
        BY <1>1, <4>1 DEF OpenByNode, N
    <3> QED
      BY <3>2, <3>7, <3>8, <3>9 DEF BySite
  <2>13. Ledger(f, a)'
    BY <1>1, <1>4, <2>8, <2>10, <2>11, <2>12 DEF Ledger, N
  <2> QED
    BY <1>3, <2>13
<1> QED
  BY <1>7, <1>8

LEMMA LedgerStill ==
  ASSUME PathsOK, NEW g, NEW a, Ledger(g, a), UNCHANGED Measured
  PROVE  PathsOK' /\ Ledger(g, a)'
<1>1. /\ handles' = handles /\ childTime' = childTime /\ paths' = paths /\ current' = current
      /\ now' = now /\ onTop' = onTop /\ inside' = inside /\ cut' = cut /\ Tree' = Tree
  BY DEF Measured, Tree
<1>2. PathsOK'
  BY <1>1 DEF PathsOK, Last
<1>3. NodesExact(g)'
  BY <1>1 DEF Ledger, NodesExact
<1>4. ~ cut => BySite(g, a)'
  <2> SUFFICES ASSUME ~ cut PROVE BySite(g, a)'
    OBVIOUS
  <2>1. BySite(g, a)
    BY DEF Ledger
  <2>2. SitesAreNodes' /\ OpenAbove(a)' /\ AboveOpen(a)'
    BY <1>1, <2>1 DEF BySite, SitesAreNodes, OpenAbove, AboveOpen
  <2>3. SelfByNode(g)' /\ NoNodeNoTime'
    BY <1>1, <2>1 DEF BySite, SelfByNode, NoNodeNoTime
  <2>4. OpenByNode(g, a)'
    BY <1>1, <2>1 DEF BySite, OpenByNode
  <2> QED
    BY <2>2, <2>3, <2>4 DEF BySite
<1> QED
  BY <1>1, <1>2, <1>3, <1>4 DEF Ledger

LEMMA TreeStep ==
  ASSUME TypeInv, FlatInv, TreeInv, [Next]_vars
  PROVE  TreeInv'
<1> SUFFICES ASSUME runs' = 1, phase' \in {"running", "reported"}
             PROVE  PathsOK' /\ \E g, a : Ledger(g, a)'
  BY DEF TreeInv
<1>1. CASE StartRun
  <2>1. runs' = runs + 1 /\ runs \in Nat
    BY <1>1 DEF StartRun, TypeInv
  <2>2. runs = 0
    BY <2>1
  <2> QED
    BY <1>1, <2>2, LedgerStart
<1>2. ASSUME runs = 1, phase \in {"running", "reported"}, UNCHANGED Measured
      PROVE  PathsOK' /\ \E g, a : Ledger(g, a)'
  <2>1. PathsOK /\ \E g, a : Ledger(g, a)
    BY <1>2 DEF TreeInv
  <2>2. PICK g, a : Ledger(g, a)
    BY <2>1
  <2>3. PathsOK' /\ Ledger(g, a)'
    BY <1>2, <2>1, <2>2, LedgerStill
  <2> QED
    BY <2>3
<1>3. ASSUME runs = 1, phase = "running"
      PROVE  TableInv /\ PathsOK /\ \E g, a : Ledger(g, a)
  BY <1>3 DEF TreeInv, FlatInv
<1>4. CASE ProfileExit
  <2>1. runs = 1 /\ phase = "running"
    BY <1>4 DEF ProfileExit
  <2>2. PICK g, a : Ledger(g, a)
    BY <1>3, <2>1
  <2>3. PathsOK' /\ Ledger(g, a)'
    BY <1>3, <1>4, <2>1, <2>2, LedgerExit
  <2> QED
    BY <2>3
<1>5. CASE Tick
  <2>1. runs = 1 /\ phase = "running"
    BY <1>5 DEF Tick
  <2>2. PICK g, a : Ledger(g, a)
    BY <1>3, <2>1
  <2>3. PathsOK' /\ \E f : Ledger(f, a)'
    BY <1>3, <1>5, <2>1, <2>2, LedgerTick
  <2> QED
    BY <2>3
<1>6. CASE Fail
  BY <1>6 DEF Fail
<1>7. CASE EndRun
  <2>1. runs = 1 /\ phase = "running" /\ UNCHANGED Measured
    BY <1>7 DEF EndRun, Measured, clocks
  <2> QED
    BY <1>2, <2>1
<1>8. ASSUME NEW s \in Sites, EnterUserCall(s) \/ EnterStopped(s) \/ RecordTailCallHop(s)
      PROVE  PathsOK' /\ \E g, a : Ledger(g, a)'
  <2>1. CASE EnterUserCall(s)
    <3>1. runs = 1 /\ phase = "running"
      BY <2>1 DEF EnterUserCall, ProfileEnter
    <3>2. PICK g, a : Ledger(g, a)
      BY <1>3, <3>1
    <3> QED
      BY <1>3, <2>1, <3>1, <3>2, LedgerEnter
  <2>2. CASE EnterStopped(s)
    BY <2>2 DEF EnterStopped
  <2>3. CASE RecordTailCallHop(s)
    <3>1. runs = 1 /\ phase = "running" /\ UNCHANGED Measured
      BY <2>3 DEF RecordTailCallHop, Measured, clocks
    <3> QED
      BY <1>2, <3>1
  <2> QED
    BY <1>8, <2>1, <2>2, <2>3
<1>9. CASE UNCHANGED vars
  <2>1. runs = 1 /\ phase \in {"running", "reported"} /\ UNCHANGED Measured
    BY <1>9 DEF vars, Measured
  <2> QED
    BY <1>2, <2>1
<1> QED
  BY <1>1, <1>4, <1>5, <1>6, <1>7, <1>8, <1>9 DEF Next

(* With no call in progress the ledger of a node is its self time.         *)
LEMMA ReportIs ==
  ASSUME TypeInv, FlatExact, TreeInv, phase = "reported", runs = 1, paths # << >>
  PROVE  TreeAgreesWithFlat
<1> DEFINE n == Len(paths)
<1>1. PICK g, a : Ledger(g, a)
  BY DEF TreeInv
<1>2. /\ Tree = paths /\ TreeOK(paths) /\ paths \in Seq(NodeRecords) /\ n \in Nat \ {0}
      /\ DOMAIN paths = 1 .. n
  BY TreeIs, LenProperties DEF TypeInv
<1>3. Len(handles) = 0
  BY EmptySeq DEF TypeInv
<1>4. /\ IsAncestry(paths, a) /\ g \in [1 .. n -> Int]
      /\ SumFunctionOnSet(g, 1 .. n) = SumFunctionOnSet(onTop, Sites)
      /\ \A j \in 1 .. n : Tallied(handles, childTime, At(handles, j), now, g[j] - paths[j].self)
      /\ ~ cut => BySite(g, a)
  BY <1>1, <1>2 DEF Ledger, NodesExact
<1>5. ASSUME NEW j \in 1 .. n PROVE SelfTimes[j] = g[j] /\ g[j] \in Int
  <2>1. g[j] - paths[j].self = 0
    BY <1>3, <1>4, TallyNone
  <2>2. paths[j] \in NodeRecords
    BY <1>2, NodeIs
  <2>3. paths[j].self \in Int /\ g[j] \in Int
    BY <1>4, <2>2 DEF NodeRecords
  <2>4. SelfTimes[j] = paths[j].self
    BY <1>2 DEF SelfTimes
  <2> QED
    BY <2>1, <2>3, <2>4
<1> HIDE DEF n
<1>6. ASSUME NEW X, X \subseteq 1 .. n
      PROVE  SumFunctionOnSet(SelfTimes, X) = SumFunctionOnSet(g, X)
  <2>1. IsFiniteSet(X)
    <3>1. X \in SUBSET (1 .. n) /\ IsFiniteSet(1 .. n)
      BY <1>2, <1>6, FS_Interval
    <3> QED
      BY <3>1, FS_Subset
  <2>2. \A j \in X : SelfTimes[j] = g[j]
    BY <1>5, <1>6
  <2> QED
    BY ONLY <2>1, <2>2, SumSame
<1>7. ASSUME NEW i \in 1 .. n
      PROVE  /\ Cumulative[i] = SumFunctionOnSet(g, Below(paths, a, i))
             /\ Below(paths, a, i) = {j \in 1 .. n : i \in a[j]}
  <2>1. Below(paths, a, i) = {j \in 1 .. n : i \in a[j]}
    BY DEF Below, n
  <2>2. Cumulative[i] = SumFunctionOnSet(SelfTimes, Below(paths, a, i))
    BY <1>4, CumulativeIs DEF n
  <2>3. Below(paths, a, i) \subseteq 1 .. n
    BY <2>1
  <2> QED
    BY <1>6, <2>1, <2>2, <2>3
<1>8. Cumulative[Root] = SumFunction(onTop)
  <2>1. Root \in 1 .. n
    BY <1>2 DEF Root
  <2>2. Below(paths, a, Root) = 1 .. n
    <3>1. \A j \in 1 .. n : Root \in a[j]
      BY <1>2, <1>4, AboveIsBefore DEF n
    <3> QED
      BY <1>7, <2>1, <3>1
  <2>3. SumFunction(onTop) = SumFunctionOnSet(onTop, Sites)
    <3>1. DOMAIN onTop = Sites
      BY DEF TypeInv
    <3> QED
      BY <3>1 DEF SumFunction
  <2> QED
    BY <1>4, <1>7, <2>1, <2>2, <2>3
<1>9. ASSUME ~ cut, NEW s \in Sites
      PROVE  /\ SumFunctionOnSet(SelfTimes, NodesOf(s)) = flat[s].self
             /\ \A i \in NodesOf(s) : NodesOf(s) = {i} => Cumulative[i] = flat[s].cumulative
  <2>1. BySite(g, a) /\ flat[s].self = onTop[s] /\ flat[s].cumulative = inside[s]
    BY <1>4, <1>9 DEF FlatExact
  <2>2. NodesOf(s) = Nodes(paths, s) /\ NodesOf(s) = {i \in 1 .. n : paths[i].site = s}
    BY <1>2 DEF NodesOf, Nodes, n
  <2>3. SumFunctionOnSet(SelfTimes, NodesOf(s)) = flat[s].self
    <3>1. SumFunctionOnSet(g, Nodes(paths, s)) = onTop[s]
      BY <1>2, <2>1 DEF BySite, SelfByNode
    <3>2. NodesOf(s) \subseteq 1 .. n
      BY <2>2
    <3> QED
      BY <1>6, <2>1, <2>2, <3>1, <3>2
  <2>4. ASSUME NEW i \in NodesOf(s), NodesOf(s) = {i} PROVE Cumulative[i] = flat[s].cumulative
    <3>1. i \in 1 .. n /\ paths[i].site = s /\ Nodes(paths, s) = {i}
      BY <2>2, <2>4
    <3>2. i # 1
      BY <1>2, <3>1, ProfilerAssumption DEF TreeOK, Root
    <3>3. i \in 2 .. n
      BY <3>1, <3>2
    <3>4. SumFunctionOnSet(g, Below(paths, a, i)) = inside[s]
      BY <1>2, <2>1, <3>1, <3>3 DEF BySite, OpenByNode, n
    <3> QED
      BY <1>7, <2>1, <3>1, <3>4
  <2> QED
    BY <2>3, <2>4
<1> QED
  BY <1>8, <1>9 DEF TreeAgreesWithFlat

(* The profile is the time that was spent: the table of every run, and the *)
(* tree of an evaluator's first, whose sums over the nodes of a site and   *)
(* below them are what the table says; and, full or not, the whole.        *)
THEOREM ProfileIsExact == Spec => []TimesExact
<1>1. Init => FlatInv /\ TreeInv
  BY DEF Init, FlatInv, FlatExact, TreeInv
<1>2. TypeInv /\ FlatInv /\ TreeInv /\ [Next]_vars => FlatInv' /\ TreeInv'
  BY FlatStep, TreeStep
<1>3. TypeInv /\ FlatInv /\ TreeInv => TimesExact
  <2> SUFFICES ASSUME TypeInv, FlatInv, TreeInv PROVE TimesExact
    OBVIOUS
  <2>1. FlatExact
    BY DEF FlatInv
  <2>2. TreeAgreesWithFlat
    <3>1. CASE phase = "reported" /\ runs = 1 /\ paths # << >>
      BY <2>1, <3>1, ReportIs
    <3>2. CASE ~ (phase = "reported" /\ runs = 1 /\ paths # << >>)
      BY <3>2 DEF TreeAgreesWithFlat
    <3> QED
      BY <3>1, <3>2
  <2> QED
    BY <2>1, <2>2 DEF TimesExact
<1> QED
  BY <1>1, <1>2, <1>3, TypesKept, PTL DEF Spec
=============================================================================
