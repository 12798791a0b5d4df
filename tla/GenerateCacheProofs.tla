------------------------ MODULE GenerateCacheProofs ------------------------
(***************************************************************************)
(* The generate pass and its cache, for any number of evaluators, any      *)
(* finite trees and any scripts: nobody can tell that there is a cache,    *)
(* passes cut short leave nothing behind, and a click leads to the source. *)
(*                                                                         *)
(* CacheInv says what a pass has made and said by now, frame by frame, and *)
(* that every entry is whole.  Its heart is that the key decides what a    *)
(* node draws and says (KeyDecides), which takes an induction over the     *)
(* height of the tree; the lemmas before it are about the recursive        *)
(* functions of the model, each of which is shown to be what its equation  *)
(* says.  IdInv follows the IDs through restamping and generation, and     *)
(* SelectInv says that no two parts to be shown have the same.             *)
(***************************************************************************)
EXTENDS GenerateCache, FiniteSetTheorems, SequenceTheorems, WellFoundedInduction, TLAPS

(***************************************************************************)
(* Induction over the numbers, with a set for the property: from the       *)
(* well-foundedness of < every set of numbers that holds 0 and the         *)
(* successors of its elements holds them all.                              *)
(***************************************************************************)
LEMMA LeastNumber ==
  ASSUME NEW T, T \subseteq Nat, T # {}
  PROVE  \E x \in T : \A y \in T : x <= y
<1>1. \E x \in T : \A y \in T : ~ (<< y, x >> \in OpToRel(<, Nat))
  BY NatLessThanWellFounded, WFMin
<1>2. PICK x \in T : \A y \in T : ~ (<< y, x >> \in OpToRel(<, Nat))  BY <1>1
<1>3. \A y \in T : x <= y
  <2> SUFFICES ASSUME NEW y \in T  PROVE x <= y  OBVIOUS
  <2>1. x \in Nat /\ y \in Nat  OBVIOUS
  <2>2. << y, x >> \notin OpToRel(<, Nat)  BY <1>2
  <2>3. ~ (y < x)  BY <2>1, <2>2, SMT DEF OpToRel
  <2> QED BY <2>1, <2>3
<1> QED BY <1>3

LEMMA Induction ==
  ASSUME NEW S, 0 \in S, \A k \in Nat : k \in S => k + 1 \in S
  PROVE  \A k \in Nat : k \in S
<1> DEFINE Bad == {k \in Nat : k \notin S}
<1>1. SUFFICES ASSUME Bad # {}  PROVE FALSE  OBVIOUS
<1>2. PICK k \in Bad : \A y \in Bad : k <= y
  <2>1. Bad \subseteq Nat  OBVIOUS
  <2> HIDE DEF Bad
  <2> QED BY <1>1, <2>1, LeastNumber
<1>3. k \in Nat /\ k \notin S  BY <1>2
<1>4. k - 1 \in Nat  BY <1>3
<1>5. k - 1 \in S  BY <1>2, <1>4
<1>6. (k - 1) + 1 = k  BY <1>3
<1> QED BY <1>3, <1>4, <1>5, <1>6

-----------------------------------------------------------------------------
(* Lists: sequences whatever their elements.                               *)

LEMMA SequenceIsList ==
  ASSUME NEW S, NEW s \in Seq(S)
  PROVE  IsList(s) /\ Len(s) \in Nat /\ DOMAIN s = 1 .. Len(s)
<1>1. Len(s) \in Nat /\ s \in [1 .. Len(s) -> S] /\ DOMAIN s = 1 .. Len(s)  BY LenProperties
<1> DEFINE R == {s[i] : i \in DOMAIN s}
<1>2. s \in [1 .. Len(s) -> R]  BY <1>1
<1> HIDE DEF R
<1>3. s \in Seq(R)  BY <1>1, <1>2, SeqDef
<1> QED BY <1>1, <1>3 DEF IsList, R

LEMMA ListIs ==
  ASSUME NEW s, IsList(s)
  PROVE  /\ Len(s) \in Nat /\ DOMAIN s = 1 .. Len(s)
         /\ s = [i \in 1 .. Len(s) |-> s[i]]
<1> DEFINE R == {s[i] : i \in DOMAIN s}
<1>1. s \in Seq(R)  BY DEF IsList
<1> HIDE DEF R
<1>2. Len(s) \in Nat /\ s \in [1 .. Len(s) -> R] /\ DOMAIN s = 1 .. Len(s)
  BY <1>1, LenProperties
<1> QED BY <1>2

LEMMA SameBounds ==
  ASSUME NEW m \in Nat, NEW n \in Nat, 1 .. m = 1 .. n
  PROVE  m = n
<1>1. CASE m < n
  <2>1. n \in 1 .. n /\ n \notin 1 .. m  BY <1>1
  <2> QED BY <2>1
<1>2. CASE n < m
  <2>1. m \in 1 .. m /\ m \notin 1 .. n  BY <1>2
  <2> QED BY <2>1
<1> QED BY <1>1, <1>2

LEMMA FunctionIsList ==
  ASSUME NEW n \in Nat, NEW s, s = [i \in 1 .. n |-> s[i]]
  PROVE  IsList(s) /\ Len(s) = n
<1> DEFINE R == {s[i] : i \in 1 .. n}
<1>1. s \in [1 .. n -> R]  OBVIOUS
<1> HIDE DEF R
<1>2. s \in Seq(R)  BY <1>1, SeqDef
<1>3. IsList(s) /\ Len(s) \in Nat /\ DOMAIN s = 1 .. Len(s)  BY <1>2, SequenceIsList
<1>4. DOMAIN s = 1 .. n  BY <1>1
<1> QED BY <1>3, <1>4, SameBounds

LEMMA ListsEqual ==
  ASSUME NEW s, NEW t, IsList(s), IsList(t), Len(s) = Len(t),
         \A i \in 1 .. Len(s) : s[i] = t[i]
  PROVE  s = t
<1>1. s = [i \in 1 .. Len(s) |-> s[i]] /\ t = [i \in 1 .. Len(t) |-> t[i]]  BY ListIs
<1> QED BY <1>1

(* Two lists are sequences over one set. *)
LEMMA OneSet ==
  ASSUME NEW s, NEW t, IsList(s), IsList(t)
  PROVE  \E S : s \in Seq(S) /\ t \in Seq(S)
<1> DEFINE A == {s[i] : i \in DOMAIN s}
           B == {t[i] : i \in DOMAIN t}
<1>1. s \in Seq(A) /\ t \in Seq(B)  BY DEF IsList
<1> HIDE DEF A, B
<1>2. A \subseteq A \cup B /\ B \subseteq A \cup B  OBVIOUS
<1>3. s \in Seq(A \cup B)  BY <1>1, <1>2, SeqMonotonic
<1>4. t \in Seq(A \cup B)  BY <1>1, <1>2, SeqMonotonic
<1> QED BY <1>3, <1>4

(* Concatenation under a name: the provers do not instantiate a general    *)
(* statement that applies \o to values of functions.                       *)
Join(s, t) == s \o t

LEMMA Joined ==
  ASSUME NEW s, NEW t, IsList(s), IsList(t)
  PROVE  /\ IsList(Join(s, t))
         /\ Len(Join(s, t)) = Len(s) + Len(t)
         /\ \A i \in 1 .. Len(s) + Len(t) :
              Join(s, t)[i] = IF i <= Len(s) THEN s[i] ELSE t[i - Len(s)]
<1>1. PICK S : s \in Seq(S) /\ t \in Seq(S)  BY OneSet
<1>2. Join(s, t) \in Seq(S)  BY <1>1, ConcatProperties DEF Join
<1>3. IsList(Join(s, t))  BY <1>2, SequenceIsList
<1> QED BY <1>1, <1>3, ConcatProperties DEF Join

LEMMA EmptyList == IsList(<< >>) /\ Len(<< >>) = 0
<1>1. << >> \in Seq({}) /\ Len(<< >>) = 0  BY EmptySeq
<1> QED BY <1>1, SequenceIsList

LEMMA JoinedEmpty ==
  ASSUME NEW s, IsList(s)
  PROVE  Join(s, << >>) = s /\ Join(<< >>, s) = s
<1>1. PICK S : s \in Seq(S)  BY OneSet
<1> QED BY <1>1, ConcatEmptySeq DEF Join

LEMMA JoinedTwice ==
  ASSUME NEW s, NEW t, NEW u, IsList(s), IsList(t), IsList(u)
  PROVE  Join(Join(s, t), u) = Join(s, Join(t, u))
<1>1. PICK S : s \in Seq(S) /\ t \in Seq(S)  BY OneSet
<1>2. PICK T : t \in Seq(T) /\ u \in Seq(T)  BY OneSet
<1>3. S \subseteq S \cup T /\ T \subseteq S \cup T  OBVIOUS
<1>4. s \in Seq(S \cup T)  BY <1>1, <1>3, SeqMonotonic
<1>5. t \in Seq(S \cup T)  BY <1>1, <1>3, SeqMonotonic
<1>6. u \in Seq(S \cup T)  BY <1>2, <1>3, SeqMonotonic
<1> QED BY <1>4, <1>5, <1>6, ConcatAssociative DEF Join

LEMMA Singleton == \A x : IsList(<< x >>) /\ Len(<< x >>) = 1 /\ << x >>[1] = x
<1> SUFFICES ASSUME NEW x  PROVE IsList(<< x >>) /\ Len(<< x >>) = 1 /\ << x >>[1] = x
  OBVIOUS
<1>1. << x >> \in Seq({x})  OBVIOUS
<1>2. << x >>[1] = x  OBVIOUS
<1>3. Len(<< x >>) = 1  OBVIOUS
<1> QED BY <1>1, <1>2, <1>3, SequenceIsList


-----------------------------------------------------------------------------
(* Gather.  Its recursion is given a name: R(g) below says that g[i] is    *)
(* what the first i elements of the list make.                             *)

Runs(f, list, n, g) ==
  g = [i \in 0 .. n |-> IF i = 0 THEN << >> ELSE Join(g[i - 1], f[list[i]])]

(* There is such a function. *)
LEMMA RunsExist ==
  ASSUME NEW f, NEW list, NEW n \in Nat
  PROVE  \E g : Runs(f, list, n, g)
<1> DEFINE S == {k \in Nat : \E g : Runs(f, list, k, g)}
<1>1. 0 \in S
  <2> DEFINE g == [i \in 0 .. 0 |-> << >>]
  <2>1. Runs(f, list, 0, g)  BY DEF Runs
  <2> QED BY <2>1
<1>2. ASSUME NEW k \in Nat, k \in S  PROVE k + 1 \in S
  <2>1. PICK h : Runs(f, list, k, h)  BY <1>2
  <2> DEFINE g == [i \in 0 .. (k + 1) |-> IF i = 0 THEN << >> ELSE Join(h[i - 1], f[list[i]])]
  <2>2. \A i \in 0 .. k : g[i] = h[i]
    <3>1. \A i \in 0 .. k : i \in 0 .. (k + 1)  OBVIOUS
    <3>2. \A i \in 0 .. k : h[i] = IF i = 0 THEN << >> ELSE Join(h[i - 1], f[list[i]])
      BY <2>1 DEF Runs
    <3>3. \A i \in 0 .. k : g[i] = IF i = 0 THEN << >> ELSE Join(h[i - 1], f[list[i]])  BY <3>1
    <3> QED BY <3>2, <3>3
  <2>3. \A i \in 0 .. (k + 1) : i # 0 => i - 1 \in 0 .. k  OBVIOUS
  <2>4. \A i \in 0 .. (k + 1) : i # 0 => g[i - 1] = h[i - 1]  BY <2>2, <2>3
  <2>5. Runs(f, list, k + 1, g)  BY <2>4 DEF Runs
  <2> QED BY <2>5
<1> HIDE DEF S
<1>3. n \in S  BY <1>1, <1>2, Induction
<1> QED BY <1>3 DEF S

LEMMA GatherRuns ==
  ASSUME NEW f, NEW list, Len(list) \in Nat
  PROVE  \E g : Runs(f, list, Len(list), g) /\ Gather(f, list) = g[Len(list)]
<1> DEFINE P(g) == g = [i \in 0 .. Len(list) |-> IF i = 0 THEN << >> ELSE Join(g[i - 1], f[list[i]])]
<1>1. PICK n \in Nat : n = Len(list)  OBVIOUS
<1>2. \E g : P(g)
  <2>1. \E g : Runs(f, list, n, g)  BY RunsExist
  <2> QED BY <1>1, <2>1 DEF Runs
<1>3. P(CHOOSE g : P(g))  BY <1>2
<1>4. Gather(f, list) = (CHOOSE g : P(g))[Len(list)]  BY DEF Gather, Join
<1> QED BY <1>3, <1>4 DEF Runs

LEMMA RunsAt ==
  ASSUME NEW f, NEW list, NEW n \in Nat, NEW g, Runs(f, list, n, g)
  PROVE  /\ g[0] = << >>
         /\ \A i \in 0 .. n - 1 : g[i + 1] = Join(g[i], f[list[i + 1]])
<1>1. \A i \in 0 .. n : g[i] = IF i = 0 THEN << >> ELSE Join(g[i - 1], f[list[i]])  BY DEF Runs
<1>2. \A i \in 0 .. n - 1 : i + 1 \in 0 .. n /\ i + 1 # 0 /\ (i + 1) - 1 = i  OBVIOUS
<1>3. 0 \in 0 .. n  OBVIOUS
<1> QED BY <1>1, <1>2, <1>3

LEMMA RunsNext ==
  ASSUME NEW f, NEW list, NEW n \in Nat, NEW g, Runs(f, list, n, g), NEW i \in 0 .. n - 1
  PROVE  g[i + 1] = Join(g[i], f[list[i + 1]])
BY RunsAt

LEMMA RunsStart ==
  ASSUME NEW f, NEW list, NEW n \in Nat, NEW g, Runs(f, list, n, g)
  PROVE  g[0] = << >>
BY RunsAt

(* Two of them agree as far as their values do. *)
Alike(f1, l1, f2, l2, n) == \A i \in 1 .. n : f1[l1[i]] = f2[l2[i]]
LEMMA RunsAgree ==
  ASSUME NEW f1, NEW l1, NEW n1 \in Nat, NEW g1, Runs(f1, l1, n1, g1),
         NEW f2, NEW l2, NEW n2 \in Nat, NEW g2, Runs(f2, l2, n2, g2),
         NEW n \in Nat, n <= n1, n <= n2, Alike(f1, l1, f2, l2, n)
  PROVE  g1[n] = g2[n]
<1> DEFINE S == {k \in Nat : k <= n => g1[k] = g2[k]}
<1>1. 0 \in S
  <2>1. g1[0] = << >>  BY RunsStart
  <2>2. g2[0] = << >>  BY RunsStart
  <2> QED BY <2>1, <2>2
<1>2. ASSUME NEW k \in Nat, k \in S  PROVE k + 1 \in S
  <2> SUFFICES ASSUME k + 1 <= n  PROVE g1[k + 1] = g2[k + 1]  OBVIOUS
  <2>1. k \in 0 .. n1 - 1 /\ k \in 0 .. n2 - 1 /\ k + 1 \in 1 .. n /\ k <= n  OBVIOUS
  <2>2. g1[k + 1] = Join(g1[k], f1[l1[k + 1]])  BY <2>1, RunsAt
  <2>3. g2[k + 1] = Join(g2[k], f2[l2[k + 1]])  BY <2>1, RunsAt
  <2>4. f1[l1[k + 1]] = f2[l2[k + 1]]  BY <2>1 DEF Alike
  <2> QED BY <1>2, <2>1, <2>2, <2>3, <2>4
<1> HIDE DEF S
<1>3. n \in S  BY <1>1, <1>2, Induction
<1> QED BY <1>3 DEF S

LEMMA GatherNothing ==
  ASSUME NEW f, NEW list, Len(list) = 0
  PROVE  Gather(f, list) = << >>
<1>1. Len(list) \in Nat  OBVIOUS
<1>2. PICK g : Runs(f, list, Len(list), g) /\ Gather(f, list) = g[Len(list)]
  BY <1>1, GatherRuns
<1>3. PICK n \in Nat : n = 0  OBVIOUS
<1>4. Runs(f, list, n, g)  BY <1>2, <1>3
<1>5. g[0] = << >>  BY <1>4, RunsAt
<1> QED BY <1>2, <1>5

(* What Gather makes depends on the values alone, in their order. *)
LEMMA GatherSame ==
  ASSUME NEW f1, NEW l1, NEW f2, NEW l2, Len(l1) \in Nat, Len(l1) = Len(l2),
         Alike(f1, l1, f2, l2, Len(l1))
  PROVE  Gather(f1, l1) = Gather(f2, l2)
<1>1. PICK n \in Nat : n = Len(l1) /\ n = Len(l2)  OBVIOUS
<1>2. PICK g1 : Runs(f1, l1, Len(l1), g1) /\ Gather(f1, l1) = g1[Len(l1)]  BY GatherRuns
<1>3. PICK g2 : Runs(f2, l2, Len(l2), g2) /\ Gather(f2, l2) = g2[Len(l2)]
  BY <1>1, GatherRuns
<1>4. Runs(f1, l1, n, g1) /\ Runs(f2, l2, n, g2)  BY <1>1, <1>2, <1>3
<1>5. Alike(f1, l1, f2, l2, n)  BY <1>1
<1>6. n <= n  OBVIOUS
<1>7. g1[n] = g2[n]  BY <1>4, <1>5, <1>6, RunsAgree
<1> QED BY <1>1, <1>2, <1>3, <1>7

(* One value more is appended. *)
LEMMA GatherOneMore ==
  ASSUME NEW f1, NEW l1, NEW f2, NEW l2, Len(l1) \in Nat, Len(l2) = Len(l1) + 1,
         Alike(f1, l1, f2, l2, Len(l1))
  PROVE  Gather(f2, l2) = Join(Gather(f1, l1), f2[l2[Len(l2)]])
<1>1. PICK n \in Nat : n = Len(l1)  OBVIOUS
<1>2. n + 1 = Len(l2) /\ n + 1 \in Nat  BY <1>1
<1>3. PICK g1 : Runs(f1, l1, Len(l1), g1) /\ Gather(f1, l1) = g1[Len(l1)]  BY GatherRuns
<1>4. PICK g2 : Runs(f2, l2, Len(l2), g2) /\ Gather(f2, l2) = g2[Len(l2)]
  BY <1>2, GatherRuns
<1>5. Runs(f1, l1, n, g1)  BY <1>1, <1>3
<1>6. Runs(f2, l2, n + 1, g2)  BY <1>2, <1>4
<1>7. Alike(f1, l1, f2, l2, n)  BY <1>1
<1>8. n <= n /\ n <= n + 1  OBVIOUS
<1>9. g1[n] = g2[n]  BY <1>2, <1>5, <1>6, <1>7, <1>8, RunsAgree
<1>10. n \in 0 .. (n + 1) - 1  OBVIOUS
<1>11. g2[n + 1] = Join(g2[n], f2[l2[n + 1]])  BY <1>2, <1>6, <1>10, RunsAt
<1> QED BY <1>1, <1>2, <1>3, <1>4, <1>9, <1>11

(* Lists make a list. *)
LEMMA GatherIsList ==
  ASSUME NEW f, NEW list, Len(list) \in Nat, \A i \in 1 .. Len(list) : IsList(f[list[i]])
  PROVE  IsList(Gather(f, list))
<1>1. PICK n \in Nat : n = Len(list)  OBVIOUS
<1>2. PICK g : Runs(f, list, Len(list), g) /\ Gather(f, list) = g[Len(list)]  BY GatherRuns
<1>3. Runs(f, list, n, g)  BY <1>1, <1>2
<1> DEFINE S == {k \in Nat : k <= n => IsList(g[k])}
<1>4. 0 \in S  BY <1>3, RunsAt, EmptyList
<1>5. ASSUME NEW k \in Nat, k \in S  PROVE k + 1 \in S
  <2> SUFFICES ASSUME k + 1 <= n  PROVE IsList(g[k + 1])  OBVIOUS
  <2>1. k \in 0 .. n - 1 /\ k + 1 \in 1 .. n /\ k <= n  OBVIOUS
  <2>2. g[k + 1] = Join(g[k], f[list[k + 1]])  BY <1>3, <2>1, RunsAt
  <2>3. IsList(g[k]) /\ IsList(f[list[k + 1]])  BY <1>1, <1>5, <2>1
  <2> QED BY <2>2, <2>3, Joined
<1> HIDE DEF S
<1>6. n \in S  BY <1>4, <1>5, Induction
<1> QED BY <1>1, <1>2, <1>6 DEF S

(* The values of one list, then those of another: n of the first. *)
Continues(f, l, n, f2, l2) ==
  \A i \in 1 .. Len(l2) : f[l[n + i]] = f2[l2[i]] /\ IsList(f2[l2[i]])

LEMMA IndexSteps ==
  ASSUME NEW m \in Nat, NEW n \in Nat, NEW k \in Nat, k + 1 <= n
  PROVE  /\ k \in 0 .. n - 1 /\ k + 1 \in 1 .. n /\ k <= n
         /\ m + k \in 0 .. (m + n) - 1 /\ (m + k) + 1 = m + (k + 1)
  OBVIOUS

LEMMA RunsJoined ==
  ASSUME NEW n1 \in Nat, NEW n2 \in Nat, NEW n \in Nat, n = n1 + n2,
         NEW f, NEW l, NEW g, Runs(f, l, n, g),
         NEW f2, NEW l2, NEW g2, Runs(f2, l2, n2, g2), Len(l2) = n2,
         IsList(g[n1]), Continues(f, l, n1, f2, l2)
  PROVE  g[n] = Join(g[n1], g2[n2])
<1> DEFINE So(k) == g[n1 + k] = Join(g[n1], g2[k]) /\ IsList(g2[k])
           S == {k \in Nat : k <= n2 => So(k)}
<1>1. So(0)
  <2>1. g2[0] = << >>  BY RunsAt
  <2>2. n1 + 0 = n1  OBVIOUS
  <2>3. Join(g[n1], << >>) = g[n1]  BY JoinedEmpty
  <2> QED BY <2>1, <2>2, <2>3, EmptyList
<1>2. ASSUME NEW k \in Nat, k + 1 <= n2, So(k)  PROVE So(k + 1)
  <2>1. k + 1 \in 1 .. n2  BY <1>2, IndexSteps
  <2>2. f[l[n1 + (k + 1)]] = f2[l2[k + 1]] /\ IsList(f2[l2[k + 1]])
    BY <2>1 DEF Continues
  <2>3. PICK x : f[l[n1 + (k + 1)]] = x /\ f2[l2[k + 1]] = x /\ IsList(x)  BY <2>2
  <2>4. PICK start : start = g[n1]  OBVIOUS
  <2>5. k \in 0 .. n2 - 1 /\ n1 + k \in 0 .. n - 1 /\ (n1 + k) + 1 = n1 + (k + 1)
    BY <1>2, IndexSteps
  <2>6. PICK m \in 0 .. n - 1 : m = n1 + k  BY <2>5
  <2>7. IsList(start) /\ g[m] = Join(start, g2[k]) /\ IsList(g2[k])  BY <1>2, <2>4, <2>6
  <2>8. f[l[m + 1]] = x  BY <2>3, <2>5, <2>6
  <2>9. g[m + 1] = Join(start, g2[k + 1]) /\ IsList(g2[k + 1])
    <3>1. PICK y : y = g2[k]  OBVIOUS
    <3>2. g[m + 1] = Join(g[m], x)
      <4>1. n \in Nat /\ m \in 0 .. n - 1 /\ Runs(f, l, n, g) /\ f[l[m + 1]] = x  BY <2>8
      <4> QED BY ONLY <4>1, RunsNext
    <3>3. g2[k + 1] = Join(y, x)
      <4>1. n2 \in Nat /\ k \in 0 .. n2 - 1 /\ Runs(f2, l2, n2, g2) /\ f2[l2[k + 1]] = x
        BY <2>3, <2>5
      <4>2. g2[k + 1] = Join(g2[k], x)  BY ONLY <4>1, RunsNext
      <4> QED BY <3>1, <4>2
    <3>4. g[m] = Join(start, y) /\ IsList(start) /\ IsList(y) /\ IsList(x)
      BY <2>3, <2>7, <3>1
    <3>5. IsList(Join(y, x)) /\ Join(Join(start, y), x) = Join(start, Join(y, x))
      BY ONLY <3>4, Joined, JoinedTwice
    <3> QED BY ONLY <3>2, <3>3, <3>4, <3>5
  <2> QED BY <2>4, <2>5, <2>6, <2>9
<1> HIDE DEF So
<1>3. 0 \in S  BY <1>1
<1>4. ASSUME NEW k \in Nat, k \in S  PROVE k + 1 \in S
  <2>1. ASSUME k + 1 <= n2  PROVE So(k + 1)
    <3>1. k <= n2  BY <2>1, IndexSteps
    <3> QED BY <1>2, <1>4, <2>1, <3>1
  <2> QED BY <2>1
<1>5. n2 \in S
  <2> HIDE DEF S
  <2> QED BY <1>3, <1>4, Induction
<1> QED BY <1>5 DEF So

LEMMA GatherJoined ==
  ASSUME NEW f, NEW l, NEW f1, NEW l1, NEW f2, NEW l2,
         Len(l1) \in Nat, Len(l2) \in Nat, Len(l) = Len(l1) + Len(l2),
         Alike(f1, l1, f, l, Len(l1)),
         \A i \in 1 .. Len(l1) : IsList(f1[l1[i]]),
         Continues(f, l, Len(l1), f2, l2)
  PROVE  Gather(f, l) = Join(Gather(f1, l1), Gather(f2, l2))
<1>1. PICK n1 \in Nat : n1 = Len(l1)  OBVIOUS
<1>2. PICK n2 \in Nat : n2 = Len(l2)  OBVIOUS
<1>3. PICK n \in Nat : n = n1 + n2 /\ n = Len(l)  BY <1>1, <1>2
<1>4. PICK g : Runs(f, l, Len(l), g) /\ Gather(f, l) = g[Len(l)]  BY <1>3, GatherRuns
<1>5. PICK g1 : Runs(f1, l1, Len(l1), g1) /\ Gather(f1, l1) = g1[Len(l1)]  BY GatherRuns
<1>6. PICK g2 : Runs(f2, l2, Len(l2), g2) /\ Gather(f2, l2) = g2[Len(l2)]  BY GatherRuns
<1>7. Runs(f, l, n, g)  BY <1>3, <1>4
<1>8. Runs(f1, l1, n1, g1)  BY <1>1, <1>5
<1>9. Runs(f2, l2, n2, g2)  BY <1>2, <1>6
<1>10. Alike(f1, l1, f, l, n1)  BY <1>1
<1>11. n1 <= n /\ n1 <= n1  BY <1>3
<1>12. g1[n1] = g[n1]  BY <1>7, <1>8, <1>10, <1>11, RunsAgree
<1>13. IsList(Gather(f1, l1))  BY GatherIsList
<1>14. IsList(g[n1])  BY <1>1, <1>5, <1>12, <1>13
<1>15. Continues(f, l, n1, f2, l2) /\ Len(l2) = n2 /\ n = n1 + n2  BY <1>1, <1>2, <1>3
<1>16. g[n] = Join(g[n1], g2[n2])  BY <1>7, <1>9, <1>14, <1>15, RunsJoined
<1> QED BY <1>1, <1>2, <1>3, <1>4, <1>5, <1>6, <1>12, <1>16


-----------------------------------------------------------------------------
(* The trees: what is defined by recursion over them satisfies its         *)
(* equation.  Lower(k) are the nodes whose subtrees go down less than k.   *)

Lower(k) == {n \in Nodes : Height[n] < k}

LEMMA NodeKids ==
  ASSUME NEW n \in Nodes
  PROVE  /\ Kids[n] \in Seq(Nodes) /\ IsList(Kids[n]) /\ Len(Kids[n]) \in Nat
         /\ \A i \in 1 .. Len(Kids[n]) : Kids[n][i] \in Nodes
<1>1. Kids[n] \in Seq(Nodes)  BY TreeAssumption
<1>2. IsList(Kids[n]) /\ Len(Kids[n]) \in Nat  BY <1>1, SequenceIsList
<1>3. \A i \in 1 .. Len(Kids[n]) : Kids[n][i] \in Nodes  BY <1>1, ElementOfSeq
<1> QED BY <1>1, <1>2, <1>3

LEMMA Heights ==
  /\ Cardinality(Nodes) \in Nat
  /\ \A n \in Nodes : Height[n] \in Nat /\ Height[n] <= Cardinality(Nodes)
<1>1. Cardinality(Nodes) \in Nat  BY TreeAssumption, FS_CardinalityType
<1> QED BY <1>1, TreeAssumption

LEMMA KidsLower ==
  ASSUME NEW k \in Nat, NEW n \in Lower(k + 1), NEW i \in 1 .. Len(Kids[n])
  PROVE  Kids[n][i] \in Lower(k)
<1>1. n \in Nodes /\ Height[n] < k + 1 /\ Height[n] \in Nat  BY Heights DEF Lower
<1>2. Kids[n][i] \in Nodes  BY <1>1, NodeKids
<1>3. Height[Kids[n][i]] < Height[n]  BY <1>1, TreeAssumption
<1>4. Height[Kids[n][i]] \in Nat  BY <1>2, Heights
<1>5. Height[Kids[n][i]] < k  BY <1>1, <1>3, <1>4
<1> QED BY <1>2, <1>5 DEF Lower

LEMMA LowerSets ==
  /\ Lower(0) = {}
  /\ \A k \in Nat : Lower(k) \subseteq Lower(k + 1)
  /\ Lower(Cardinality(Nodes) + 1) = Nodes
<1>1. Lower(0) = {}  BY Heights DEF Lower
<1>2. \A k \in Nat : Lower(k) \subseteq Lower(k + 1)  BY Heights DEF Lower
<1>3. Lower(Cardinality(Nodes) + 1) = Nodes  BY Heights DEF Lower
<1> QED BY <1>1, <1>2, <1>3

(* A set that holds every node whose children it holds holds them all. *)
LEMMA TreeInduction ==
  ASSUME NEW S,
         \A n \in Nodes : (\A i \in 1 .. Len(Kids[n]) : Kids[n][i] \in S) => n \in S
  PROVE  \A n \in Nodes : n \in S
<1> DEFINE T == {k \in Nat : Lower(k) \subseteq S}
<1>1. 0 \in T  BY LowerSets
<1>2. ASSUME NEW k \in Nat, k \in T  PROVE k + 1 \in T
  <2>1. Lower(k) \subseteq S  BY <1>2
  <2>2. ASSUME NEW n \in Lower(k + 1)  PROVE n \in S
    <3>1. \A i \in 1 .. Len(Kids[n]) : Kids[n][i] \in S  BY <2>1, KidsLower
    <3>2. n \in Nodes  BY DEF Lower
    <3> QED BY <3>1, <3>2
  <2> QED BY <2>2
<1> HIDE DEF T
<1>3. \A k \in Nat : k \in T  BY <1>1, <1>2, Induction
<1>4. Cardinality(Nodes) + 1 \in Nat  BY Heights
<1>5. Lower(Cardinality(Nodes) + 1) \subseteq S  BY <1>3, <1>4 DEF T
<1> QED BY <1>5, LowerSets

(* Two functions that agree on the nodes of Lower(k) gather the same from  *)
(* the children of a node of Lower(k + 1).                                 *)
LEMMA GatherKids ==
  ASSUME NEW k \in Nat, NEW n \in Lower(k + 1), NEW g, NEW h, \A x \in Lower(k) : g[x] = h[x]
  PROVE  Gather(g, Kids[n]) = Gather(h, Kids[n])
<1>1. \A i \in 1 .. Len(Kids[n]) : Kids[n][i] \in Lower(k)  BY KidsLower
<1>2. Alike(g, Kids[n], h, Kids[n], Len(Kids[n]))  BY <1>1 DEF Alike
<1>3. Len(Kids[n]) \in Nat  BY NodeKids DEF Lower
<1> QED BY <1>2, <1>3, GatherSame

SaysTo(k, g) == g = [n \in Lower(k) |-> Join(Gather(g, Kids[n]), Steady(Own(n, FALSE)))]

LEMMA SaysStep ==
  ASSUME NEW k \in Nat, NEW h, SaysTo(k, h)
  PROVE  \E g : SaysTo(k + 1, g)
<1> DEFINE g == [n \in Lower(k + 1) |-> Join(Gather(h, Kids[n]), Steady(Own(n, FALSE)))]
<1>1. \A x \in Lower(k) : g[x] = h[x]
  <2>1. \A x \in Lower(k) : h[x] = Join(Gather(h, Kids[x]), Steady(Own(x, FALSE)))
    BY DEF SaysTo
  <2>2. \A x \in Lower(k) : x \in Lower(k + 1)  BY LowerSets
  <2> QED BY <2>1, <2>2
<1>2. \A n \in Lower(k + 1) : Gather(g, Kids[n]) = Gather(h, Kids[n])
  <2> HIDE DEF g
  <2> QED BY <1>1, GatherKids
<1>3. g = [n \in Lower(k + 1) |-> Join(Gather(g, Kids[n]), Steady(Own(n, FALSE)))]
  BY <1>2
<1>4. SaysTo(k + 1, g)  BY <1>3 DEF SaysTo
<1> QED BY <1>4

LEMMA SaysIs ==
  \A n \in Nodes : Says[n] = Join(Gather(Says, Kids[n]), Steady(Own(n, FALSE)))
<1> DEFINE T == {k \in Nat : \E g : SaysTo(k, g)}
<1>1. 0 \in T
  <2> DEFINE g == [n \in Lower(0) |-> << >>]
  <2>1. SaysTo(0, g)  BY LowerSets DEF SaysTo
  <2> QED BY <2>1
<1>2. ASSUME NEW k \in Nat, k \in T  PROVE k + 1 \in T
  BY <1>2, SaysStep
<1>3. \A k \in Nat : k \in T
  <2> HIDE DEF T
  <2> QED BY <1>1, <1>2, Induction
<1>4. PICK g : SaysTo(Cardinality(Nodes) + 1, g)  BY <1>3, Heights
<1> DEFINE P(h) == h = [n \in Nodes |-> Gather(h, Kids[n]) \o Steady(Own(n, FALSE))]
<1>5. P(g)  BY <1>4, LowerSets DEF SaysTo, Join
<1>6. P(CHOOSE h : P(h))  BY <1>5
<1>7. Says = CHOOSE h : P(h)  BY DEF Says
<1>8. P(Says)  BY <1>6, <1>7
<1> QED BY <1>8 DEF Join


(* What a node makes of what its children drew. *)
Drawing(m, n, inner) ==
  CASE Kind[n] = "union" -> inner
    [] Kind[n] = "hull"  -> << Shape("hull", "", inner) >>
    [] Kind[n] = "difference" -> << Shape("cut", m, inner) >>
    [] OTHER -> << Shape("leaf", Drawn[n], << >>) >>

DrawsTo(m, k, g) == g = [n \in Lower(k) |-> Drawing(m, n, Gather(g, Kids[n]))]

LEMMA DrawsStep ==
  ASSUME NEW m, NEW k \in Nat, NEW h, DrawsTo(m, k, h)
  PROVE  \E g : DrawsTo(m, k + 1, g)
<1> DEFINE g == [n \in Lower(k + 1) |-> Drawing(m, n, Gather(h, Kids[n]))]
<1>1. \A x \in Lower(k) : g[x] = h[x]
  <2>1. \A x \in Lower(k) : h[x] = Drawing(m, x, Gather(h, Kids[x]))
    BY DEF DrawsTo
  <2>2. \A x \in Lower(k) : x \in Lower(k + 1)  BY LowerSets
  <2> QED BY <2>1, <2>2
<1>2. \A n \in Lower(k + 1) : Gather(g, Kids[n]) = Gather(h, Kids[n])
  <2> HIDE DEF g
  <2> QED BY <1>1, GatherKids
<1>3. g = [n \in Lower(k + 1) |-> Drawing(m, n, Gather(g, Kids[n]))]
  BY <1>2
<1>4. DrawsTo(m, k + 1, g)  BY <1>3 DEF DrawsTo
<1> QED BY <1>4

LEMMA DrawsIs ==
  \A m \in Modes : \A n \in Nodes : Draws[m][n] = Drawing(m, n, Gather(Draws[m], Kids[n]))
<1> SUFFICES ASSUME NEW m \in Modes
             PROVE  \A n \in Nodes : Draws[m][n] = Drawing(m, n, Gather(Draws[m], Kids[n]))
  OBVIOUS
<1> DEFINE T == {k \in Nat : \E g : DrawsTo(m, k, g)}
<1>1. 0 \in T
  <2> DEFINE g == [n \in Lower(0) |-> << >>]
  <2>1. DrawsTo(m, 0, g)  BY LowerSets DEF DrawsTo
  <2> QED BY <2>1
<1>2. ASSUME NEW k \in Nat, k \in T  PROVE k + 1 \in T
  BY <1>2, DrawsStep
<1>3. \A k \in Nat : k \in T
  <2> HIDE DEF T
  <2> QED BY <1>1, <1>2, Induction
<1>4. PICK g : DrawsTo(m, Cardinality(Nodes) + 1, g)  BY <1>3, Heights
<1> DEFINE P(h) == h = [n \in Nodes |-> CASE Kind[n] = "union" -> Gather(h, Kids[n])
                                      [] Kind[n] = "hull"  -> << Shape("hull", "", Gather(h, Kids[n])) >>
                                      [] Kind[n] = "difference" -> << Shape("cut", m, Gather(h, Kids[n])) >>
                                      [] OTHER -> << Shape("leaf", Drawn[n], << >>) >>]
<1>5. P(g)  BY <1>4, LowerSets DEF DrawsTo, Drawing
<1>6. P(CHOOSE h : P(h))  BY <1>5
<1>7. Draws[m] = CHOOSE h : P(h)  BY DEF Draws
<1>8. P(Draws[m])  BY <1>6, <1>7
<1> QED BY <1>8 DEF Drawing

KeyTo(k, g) == g = [n \in Lower(k) |-> [kind |-> Kind[n], param |-> Param[n],
                              kids |-> [i \in 1 .. Len(Kids[n]) |-> g[Kids[n][i]]]]]

LEMMA KeyStep ==
  ASSUME NEW k \in Nat, NEW h, KeyTo(k, h)
  PROVE  \E g : KeyTo(k + 1, g)
<1> DEFINE g == [n \in Lower(k + 1) |-> [kind |-> Kind[n], param |-> Param[n],
                                   kids |-> [i \in 1 .. Len(Kids[n]) |-> h[Kids[n][i]]]]]
<1>1. \A x \in Lower(k) : g[x] = h[x]
  <2>1. \A x \in Lower(k) : h[x] = [kind |-> Kind[x], param |-> Param[x],
        kids |-> [i \in 1 .. Len(Kids[x]) |-> h[Kids[x][i]]]]
    BY DEF KeyTo
  <2>2. \A x \in Lower(k) : x \in Lower(k + 1)  BY LowerSets
  <2> QED BY <2>1, <2>2
<1>2. \A n \in Lower(k + 1) : \A i \in 1 .. Len(Kids[n]) : g[Kids[n][i]] = h[Kids[n][i]]
  <2> HIDE DEF g
  <2> QED BY <1>1, KidsLower
<1>3. g = [n \in Lower(k + 1) |-> [kind |-> Kind[n], param |-> Param[n],
                              kids |-> [i \in 1 .. Len(Kids[n]) |-> g[Kids[n][i]]]]]
  BY <1>2
<1>4. KeyTo(k + 1, g)  BY <1>3 DEF KeyTo
<1> QED BY <1>4

LEMMA KeyIs ==
  \A n \in Nodes :
    Key[n] = [kind |-> Kind[n], param |-> Param[n],
              kids |-> [i \in 1 .. Len(Kids[n]) |-> Key[Kids[n][i]]]]
<1> DEFINE T == {k \in Nat : \E g : KeyTo(k, g)}
<1>1. 0 \in T
  <2> DEFINE g == [n \in Lower(0) |-> << >>]
  <2>1. KeyTo(0, g)  BY LowerSets DEF KeyTo
  <2> QED BY <2>1
<1>2. ASSUME NEW k \in Nat, k \in T  PROVE k + 1 \in T
  BY <1>2, KeyStep
<1>3. \A k \in Nat : k \in T
  <2> HIDE DEF T
  <2> QED BY <1>1, <1>2, Induction
<1>4. PICK g : KeyTo(Cardinality(Nodes) + 1, g)  BY <1>3, Heights
<1> DEFINE P(h) == h = [n \in Nodes |-> [kind |-> Kind[n], param |-> Param[n],
                                     kids |-> [i \in 1 .. Len(Kids[n]) |-> h[Kids[n][i]]]]]
<1>5. P(g)  BY <1>4, LowerSets DEF KeyTo
<1>6. P(CHOOSE h : P(h))  BY <1>5
<1>7. Key = CHOOSE h : P(h)  BY DEF Key
<1>8. P(Key)  BY <1>6, <1>7
<1> QED BY <1>8

BelowTo(k, g) == g = [n \in Lower(k) |-> {n} \cup UNION {g[Kids[n][i]] : i \in 1 .. Len(Kids[n])}]

LEMMA BelowStep ==
  ASSUME NEW k \in Nat, NEW h, BelowTo(k, h)
  PROVE  \E g : BelowTo(k + 1, g)
<1> DEFINE g == [n \in Lower(k + 1) |-> {n} \cup UNION {h[Kids[n][i]] : i \in 1 .. Len(Kids[n])}]
<1>1. \A x \in Lower(k) : g[x] = h[x]
  <2>1. \A x \in Lower(k) : h[x] = {x} \cup UNION {h[Kids[x][i]] : i \in 1 .. Len(Kids[x])}
    BY DEF BelowTo
  <2>2. \A x \in Lower(k) : x \in Lower(k + 1)  BY LowerSets
  <2> QED BY <2>1, <2>2
<1>2. \A n \in Lower(k + 1) : \A i \in 1 .. Len(Kids[n]) : g[Kids[n][i]] = h[Kids[n][i]]
  <2> HIDE DEF g
  <2> QED BY <1>1, KidsLower
<1>3. \A n \in Lower(k + 1) :
        {g[Kids[n][i]] : i \in 1 .. Len(Kids[n])} = {h[Kids[n][i]] : i \in 1 .. Len(Kids[n])}
  <2> HIDE DEF g
  <2> QED BY <1>2
<1>4. g = [n \in Lower(k + 1) |-> {n} \cup UNION {g[Kids[n][i]] : i \in 1 .. Len(Kids[n])}]
  BY <1>3
<1>5. BelowTo(k + 1, g)  BY <1>4 DEF BelowTo
<1> QED BY <1>5

LEMMA BelowIs ==
  \A n \in Nodes :
    Below[n] = {n} \cup UNION {Below[Kids[n][i]] : i \in 1 .. Len(Kids[n])}
<1> DEFINE T == {k \in Nat : \E g : BelowTo(k, g)}
<1>1. 0 \in T
  <2> DEFINE g == [n \in Lower(0) |-> << >>]
  <2>1. BelowTo(0, g)  BY LowerSets DEF BelowTo
  <2> QED BY <2>1
<1>2. ASSUME NEW k \in Nat, k \in T  PROVE k + 1 \in T
  BY <1>2, BelowStep
<1>3. \A k \in Nat : k \in T
  <2> HIDE DEF T
  <2> QED BY <1>1, <1>2, Induction
<1>4. PICK g : BelowTo(Cardinality(Nodes) + 1, g)  BY <1>3, Heights
<1> DEFINE P(h) == h = [n \in Nodes |-> {n} \cup UNION {h[Kids[n][i]] : i \in 1 .. Len(Kids[n])}]
<1>5. P(g)  BY <1>4, LowerSets DEF BelowTo
<1>6. P(CHOOSE h : P(h))  BY <1>5
<1>7. Below = CHOOSE h : P(h)  BY DEF Below
<1>8. P(Below)
  <2> HIDE DEF P
  <2> QED BY <1>6, <1>7
<1> QED BY <1>8

-----------------------------------------------------------------------------
(* Warnings.  A filter of a list, as Gather: the positions are the list.   *)

Kept(w) == [i \in 1 .. Len(w) |-> IF w[i][1] = "open" THEN << >> ELSE << w[i] >>]
Places(n) == [i \in 1 .. n |-> i]

LEMMA SteadyIs == \A w : Steady(w) = Gather(Kept(w), Places(Len(w)))
BY DEF Steady, Kept, Places

LEMMA PlacesIs ==
  ASSUME NEW n \in Nat
  PROVE  IsList(Places(n)) /\ Len(Places(n)) = n /\ \A i \in 1 .. n : Places(n)[i] = i
<1>1. \A i \in 1 .. n : Places(n)[i] = i  BY DEF Places
<1>2. Places(n) = [i \in 1 .. n |-> Places(n)[i]]  BY DEF Places
<1>3. IsList(Places(n)) /\ Len(Places(n)) = n  BY <1>2, FunctionIsList
<1> QED BY <1>1, <1>3

LEMMA KeptIsList ==
  ASSUME NEW w, NEW i \in 1 .. Len(w)
  PROVE  IsList(Kept(w)[i]) /\ Kept(w)[i] = IF w[i][1] = "open" THEN << >> ELSE << w[i] >>
BY EmptyList, Singleton DEF Kept

LEMMA SteadyIsList ==
  ASSUME NEW w, IsList(w)
  PROVE  IsList(Steady(w))
<1>1. PICK n \in Nat : n = Len(w)  BY ListIs
<1>2. Len(Places(n)) = n /\ \A i \in 1 .. n : Places(n)[i] = i  BY PlacesIs
<1>3. \A i \in 1 .. n : IsList(Kept(w)[Places(n)[i]])  BY <1>1, <1>2, KeptIsList
<1>4. IsList(Gather(Kept(w), Places(n)))  BY <1>2, <1>3, GatherIsList
<1> QED BY <1>1, <1>4, SteadyIs

LEMMA SteadyJoined ==
  ASSUME NEW s, NEW t, IsList(s), IsList(t)
  PROVE  Steady(Join(s, t)) = Join(Steady(s), Steady(t))
<1>1. PICK m \in Nat : m = Len(s)  BY ListIs
<1>2. PICK n \in Nat : n = Len(t)  BY ListIs
<1>3. PICK p \in Nat : p = m + n  OBVIOUS
<1>4. PICK w : w = Join(s, t)  OBVIOUS
<1>5. Len(w) = p /\ \A i \in 1 .. p : w[i] = IF i <= m THEN s[i] ELSE t[i - m]
  BY <1>1, <1>2, <1>3, <1>4, Joined
<1>6. Len(Places(m)) = m /\ \A i \in 1 .. m : Places(m)[i] = i  BY PlacesIs
<1>7. Len(Places(n)) = n /\ \A i \in 1 .. n : Places(n)[i] = i  BY PlacesIs
<1>8. Len(Places(p)) = p /\ \A i \in 1 .. p : Places(p)[i] = i  BY PlacesIs
<1>9. \A i \in 1 .. m : i \in 1 .. p /\ i <= m  BY <1>3
<1>10. \A i \in 1 .. n : m + i \in 1 .. p /\ ~ (m + i <= m) /\ (m + i) - m = i  BY <1>3
<1>11. Alike(Kept(s), Places(m), Kept(w), Places(p), m)
  <2> SUFFICES ASSUME NEW i \in 1 .. m  PROVE Kept(s)[Places(m)[i]] = Kept(w)[Places(p)[i]]
    BY DEF Alike
  <2>1. Places(m)[i] = i /\ Places(p)[i] = i /\ w[i] = s[i]  BY <1>5, <1>6, <1>8, <1>9
  <2>2. i \in 1 .. Len(s) /\ i \in 1 .. Len(w)  BY <1>1, <1>5, <1>9
  <2> QED BY <2>1, <2>2 DEF Kept
<1>12. \A i \in 1 .. m : IsList(Kept(s)[Places(m)[i]])  BY <1>1, <1>6, KeptIsList
<1>13. Continues(Kept(w), Places(p), m, Kept(t), Places(n))
  <2> SUFFICES ASSUME NEW i \in 1 .. n
               PROVE  /\ Kept(w)[Places(p)[m + i]] = Kept(t)[Places(n)[i]]
                      /\ IsList(Kept(t)[Places(n)[i]])
    BY <1>7 DEF Continues
  <2>1. Places(n)[i] = i  BY <1>7
  <2>2. Places(p)[m + i] = m + i  BY <1>8, <1>10
  <2>3. w[m + i] = t[i]  BY <1>5, <1>10
  <2>4. i \in 1 .. Len(t)  BY <1>2
  <2>5. m + i \in 1 .. Len(w)  BY <1>5, <1>10
  <2>6. Kept(t)[i] = IF t[i][1] = "open" THEN << >> ELSE << t[i] >>  BY <2>4, KeptIsList
  <2>7. Kept(w)[m + i] = IF w[m + i][1] = "open" THEN << >> ELSE << w[m + i] >>
    BY <2>5, KeptIsList
  <2>8. IsList(Kept(t)[i])  BY <2>4, KeptIsList
  <2> QED BY <2>1, <2>2, <2>3, <2>6, <2>7, <2>8
<1>14. Gather(Kept(w), Places(p)) = Join(Gather(Kept(s), Places(m)), Gather(Kept(t), Places(n)))
  <2>1. Alike(Kept(s), Places(m), Kept(w), Places(p), Len(Places(m)))  BY <1>6, <1>11
  <2>2. \A i \in 1 .. Len(Places(m)) : IsList(Kept(s)[Places(m)[i]])  BY <1>6, <1>12
  <2>3. Continues(Kept(w), Places(p), Len(Places(m)), Kept(t), Places(n))  BY <1>6, <1>13
  <2>4. Len(Places(p)) = Len(Places(m)) + Len(Places(n))  BY <1>3, <1>6, <1>7, <1>8
  <2>5. Len(Places(m)) \in Nat /\ Len(Places(n)) \in Nat  BY <1>6, <1>7
  <2> QED BY <2>1, <2>2, <2>3, <2>4, <2>5, GatherJoined
<1> QED BY <1>1, <1>2, <1>4, <1>5, <1>14, SteadyIs

LEMMA SteadyEmpty == Steady(<< >>) = << >>
<1>1. PICK n \in Nat : n = 0  OBVIOUS
<1>2. Len(Places(n)) = 0  BY <1>1, PlacesIs
<1>3. Gather(Kept(<< >>), Places(n)) = << >>  BY <1>2, GatherNothing
<1> QED BY <1>1, <1>3, EmptyList, SteadyIs

LEMMA SteadyOpen ==
  ASSUME NEW n
  PROVE  Steady(<< Warning("open", n) >>) = << >>
<1>1. PICK w : w = << Warning("open", n) >>  OBVIOUS
<1>2. PICK k \in Nat : k = 1  OBVIOUS
<1>3. PICK z \in Nat : z = 0  OBVIOUS
<1>4. Len(w) = k /\ w[k] = Warning("open", n)  BY <1>1, <1>2, Singleton
<1>5. Len(Places(k)) = k /\ Places(k)[k] = k
  <2>1. k \in 1 .. k  BY <1>2
  <2> QED BY <2>1, PlacesIs
<1>6. Len(Places(z)) = z  BY PlacesIs
<1>7. Kept(w)[k] = << >>
  <2>1. k \in 1 .. Len(w)  BY <1>2, <1>4
  <2>2. w[k][1] = "open"  BY <1>4 DEF Warning
  <2> QED BY <2>1, <2>2 DEF Kept
<1>8. Alike(Kept(w), Places(z), Kept(w), Places(k), Len(Places(z)))  BY <1>3, <1>6 DEF Alike
<1>9. Len(Places(k)) = Len(Places(z)) + 1
  <2>1. k = z + 1  BY ONLY <1>2, <1>3
  <2> QED BY ONLY <1>5, <1>6, <2>1, Zenon
<1>10. Gather(Kept(w), Places(k))
         = Join(Gather(Kept(w), Places(z)), Kept(w)[Places(k)[Len(Places(k))]])
  BY <1>6, <1>8, <1>9, GatherOneMore
<1>11. Gather(Kept(w), Places(z)) = << >>  BY <1>3, <1>6, GatherNothing
<1>12. Gather(Kept(w), Places(k)) = Join(<< >>, << >>)  BY <1>5, <1>7, <1>10, <1>11
<1>13. Join(<< >>, << >>) = << >>  BY EmptyList, JoinedEmpty
<1> QED BY <1>1, <1>4, <1>12, <1>13, SteadyIs

(* What a node says itself, but for the open mesh, is said under a hull()  *)
(* or not.                                                                 *)
LEMMA OwnIs ==
  ASSUME NEW n, NEW hull \in BOOLEAN
  PROVE  IsList(Own(n, hull)) /\ Steady(Own(n, hull)) = Steady(Own(n, FALSE))
<1> DEFINE other == IF n \in Warns THEN << Warning("other", n) >> ELSE << >>
           open(h) == IF Kind[n] = "open" /\ ~ h THEN << Warning("open", n) >> ELSE << >>
<1>1. IsList(other)  BY EmptyList, Singleton
<1>2. ASSUME NEW h \in BOOLEAN
      PROVE  IsList(open(h)) /\ Steady(open(h)) = << >>
  <2>1. CASE Kind[n] = "open" /\ ~ h
    <3>1. open(h) = << Warning("open", n) >>  BY <2>1
    <3> QED BY <3>1, Singleton, SteadyOpen
  <2>2. CASE ~ (Kind[n] = "open" /\ ~ h)
    <3>1. open(h) = << >>  BY <2>2
    <3> QED BY <3>1, EmptyList, SteadyEmpty
  <2> QED BY <2>1, <2>2
<1>3. \A h \in BOOLEAN : Own(n, h) = Join(open(h), other)  BY DEF Own, Join
<1> HIDE DEF other, open
<1>4. ASSUME NEW h \in BOOLEAN
      PROVE  IsList(Own(n, h)) /\ Steady(Own(n, h)) = Steady(other)
  <2>1. IsList(Join(open(h), other))  BY <1>1, <1>2, Joined
  <2>2. Steady(Join(open(h), other)) = Join(Steady(open(h)), Steady(other))
    BY <1>1, <1>2, SteadyJoined
  <2>3. Steady(open(h)) = << >>  BY <1>2
  <2>4. Join(<< >>, Steady(other)) = Steady(other)  BY <1>1, SteadyIsList, JoinedEmpty
  <2>5. Own(n, h) = Join(open(h), other)  BY <1>3
  <2> QED BY <2>1, <2>2, <2>3, <2>4, <2>5
<1>5. FALSE \in BOOLEAN  OBVIOUS
<1> QED BY <1>4, <1>5

-----------------------------------------------------------------------------
(* The key decides.                                                        *)

LEMMA CacheableKids ==
  ASSUME NEW n \in Nodes, Cacheable(n), NEW i \in 1 .. Len(Kids[n])
  PROVE  Cacheable(Kids[n][i])
<1>1. Below[n] = {n} \cup UNION {Below[Kids[n][j]] : j \in 1 .. Len(Kids[n])}  BY BelowIs
<1>2. Below[Kids[n][i]] \subseteq Below[n]  BY <1>1
<1> QED BY <1>2 DEF Cacheable

LEMMA SaysIsList == \A n \in Nodes : IsList(Says[n])
<1> DEFINE S == {n \in Nodes : IsList(Says[n])}
<1>1. ASSUME NEW n \in Nodes, \A i \in 1 .. Len(Kids[n]) : Kids[n][i] \in S
      PROVE  n \in S
  <2>1. \A i \in 1 .. Len(Kids[n]) : IsList(Says[Kids[n][i]])  BY <1>1
  <2>2. IsList(Gather(Says, Kids[n]))  BY <2>1, NodeKids, GatherIsList
  <2>3. IsList(Steady(Own(n, FALSE)))  BY OwnIs, SteadyIsList
  <2>4. IsList(Says[n])  BY <2>2, <2>3, SaysIs, Joined
  <2> QED BY <2>4
<1> HIDE DEF S
<1>2. \A n \in Nodes : n \in S  BY <1>1, TreeInduction
<1> QED BY <1>2 DEF S

LEMMA DrawingIsList ==
  ASSUME NEW m, NEW n, NEW inner, IsList(inner)
  PROVE  IsList(Drawing(m, n, inner))
BY Singleton DEF Drawing

LEMMA DrawsIsList == \A m \in Modes : \A n \in Nodes : IsList(Draws[m][n])
<1> SUFFICES ASSUME NEW m \in Modes  PROVE \A n \in Nodes : IsList(Draws[m][n])
  OBVIOUS
<1> DEFINE S == {n \in Nodes : IsList(Draws[m][n])}
<1>1. ASSUME NEW n \in Nodes, \A i \in 1 .. Len(Kids[n]) : Kids[n][i] \in S
      PROVE  n \in S
  <2>1. \A i \in 1 .. Len(Kids[n]) : IsList(Draws[m][Kids[n][i]])  BY <1>1
  <2>2. IsList(Gather(Draws[m], Kids[n]))  BY <2>1, NodeKids, GatherIsList
  <2>3. IsList(Draws[m][n])  BY <2>2, DrawsIs, DrawingIsList
  <2> QED BY <2>3
<1> HIDE DEF S
<1>2. \A n \in Nodes : n \in S  BY <1>1, TreeInduction
<1> QED BY <1>2 DEF S

LEMMA OwnTold ==
  ASSUME NEW a, NEW b, Kind[a] = Kind[b], Param[a] = Param[b], a \in Warns <=> b \in Warns
  PROVE  Own(a, FALSE) = Own(b, FALSE)
BY DEF Own, Warning

LEMMA KeyTells ==
  ASSUME NEW x \in Nodes, NEW y \in Nodes, Key[x] = Key[y]
  PROVE  /\ Kind[x] = Kind[y] /\ Param[x] = Param[y]
         /\ Len(Kids[x]) = Len(Kids[y])
         /\ \A i \in 1 .. Len(Kids[x]) : Key[Kids[x][i]] = Key[Kids[y][i]]
<1> DEFINE K(n) == [i \in 1 .. Len(Kids[n]) |-> Key[Kids[n][i]]]
<1>1. Key[x] = [kind |-> Kind[x], param |-> Param[x], kids |-> K(x)]  BY KeyIs
<1>2. Key[y] = [kind |-> Kind[y], param |-> Param[y], kids |-> K(y)]  BY KeyIs
<1> HIDE DEF K
<1>3. Kind[x] = Kind[y] /\ Param[x] = Param[y] /\ K(x) = K(y)
  <2>1. Key[x].kind = Kind[x] /\ Key[x].param = Param[x] /\ Key[x].kids = K(x)  BY ONLY <1>1
  <2>2. Key[y].kind = Kind[y] /\ Key[y].param = Param[y] /\ Key[y].kids = K(y)  BY ONLY <1>2
  <2> QED BY <2>1, <2>2
<1>4. DOMAIN K(x) = 1 .. Len(Kids[x]) /\ DOMAIN K(y) = 1 .. Len(Kids[y])  BY DEF K
<1>5. Len(Kids[x]) = Len(Kids[y])  BY <1>3, <1>4, NodeKids, SameBounds
<1>6. \A i \in 1 .. Len(Kids[x]) : K(x)[i] = K(y)[i]  BY <1>3
<1>7. \A i \in 1 .. Len(Kids[x]) : K(x)[i] = Key[Kids[x][i]] /\ K(y)[i] = Key[Kids[y][i]]
  BY <1>5 DEF K
<1> QED BY <1>3, <1>5, <1>6, <1>7

(* Nodes that can be stored and have one key draw and say the same. *)
LEMMA KeyDecides ==
  ASSUME NEW a \in Nodes, NEW b \in Nodes, Cacheable(a), Cacheable(b), Key[a] = Key[b]
  PROVE  Says[a] = Says[b] /\ \A m \in Modes : Draws[m][a] = Draws[m][b]
<1> DEFINE Same(x, y) == Says[x] = Says[y] /\ \A m \in Modes : Draws[m][x] = Draws[m][y]
           S == {x \in Nodes : \A y \in Nodes :
                   Cacheable(x) /\ Cacheable(y) /\ Key[x] = Key[y] => Same(x, y)}
<1>1. ASSUME NEW x \in Nodes, \A i \in 1 .. Len(Kids[x]) : Kids[x][i] \in S,
             NEW y \in Nodes, Cacheable(x), Cacheable(y), Key[x] = Key[y]
      PROVE  Same(x, y)
  <2>1. PICK p \in Nat : p = Len(Kids[x])  BY NodeKids
  <2>2. PICK q \in Nat : q = Len(Kids[y])  BY NodeKids
  <2>3. Kind[x] = Kind[y] /\ Param[x] = Param[y]  BY <1>1, KeyTells
  <2>5. p = q  BY <1>1, <2>1, <2>2, KeyTells
  <2>6. \A i \in 1 .. p : Key[Kids[x][i]] = Key[Kids[y][i]]  BY <1>1, <2>1, KeyTells
  <2>7. ASSUME NEW i \in 1 .. p  PROVE Same(Kids[x][i], Kids[y][i])
    <3>1. i \in 1 .. Len(Kids[x]) /\ i \in 1 .. Len(Kids[y])  BY <2>1, <2>2, <2>5
    <3>2. Cacheable(Kids[x][i]) /\ Cacheable(Kids[y][i])  BY <1>1, <3>1, CacheableKids
    <3>3. Kids[x][i] \in S /\ Kids[y][i] \in Nodes  BY <1>1, <3>1, NodeKids
    <3> HIDE DEF Same
    <3> QED BY <2>6, <3>2, <3>3
  <2>8. Drawn[x] = Drawn[y] /\ (x \in Warns <=> y \in Warns)  BY <1>1, KeysTell
  <2>9. Gather(Says, Kids[x]) = Gather(Says, Kids[y])
    <3>1. ASSUME NEW i \in 1 .. p  PROVE Says[Kids[x][i]] = Says[Kids[y][i]]
      BY <2>7
    <3>2. Alike(Says, Kids[x], Says, Kids[y], p)  BY <3>1 DEF Alike
    <3>3. p \in Nat /\ Len(Kids[x]) = p /\ Len(Kids[y]) = p  BY <2>1, <2>2, <2>5
    <3> HIDE DEF S
    <3> QED BY <3>2, <3>3, GatherSame
  <2>10. Says[x] = Says[y]
    <3>1. Own(x, FALSE) = Own(y, FALSE)  BY <2>3, <2>8, OwnTold
    <3> QED BY <2>9, <3>1, SaysIs
  <2>11. ASSUME NEW m \in Modes  PROVE Draws[m][x] = Draws[m][y]
    <3>1. ASSUME NEW i \in 1 .. p  PROVE Draws[m][Kids[x][i]] = Draws[m][Kids[y][i]]
      BY <2>7
    <3>2. Gather(Draws[m], Kids[x]) = Gather(Draws[m], Kids[y])
      <4>1. Alike(Draws[m], Kids[x], Draws[m], Kids[y], p)  BY <3>1 DEF Alike
      <4>2. p \in Nat /\ Len(Kids[x]) = p /\ Len(Kids[y]) = p  BY <2>1, <2>2, <2>5
      <4> HIDE DEF S
      <4> QED BY <4>1, <4>2, GatherSame
    <3>3. Drawing(m, x, Gather(Draws[m], Kids[x])) = Drawing(m, y, Gather(Draws[m], Kids[y]))
      BY <2>3, <2>8, <3>2 DEF Drawing
    <3> QED BY <3>3, DrawsIs
  <2> QED BY <2>10, <2>11
<1>2. \A x \in Nodes : (\A i \in 1 .. Len(Kids[x]) : Kids[x][i] \in S) => x \in S
  <2> HIDE DEF Same
  <2> QED BY <1>1
<1>3. \A x \in Nodes : x \in S
  <2> HIDE DEF S
  <2> QED BY <1>2, TreeInduction
<1> QED BY <1>3

-----------------------------------------------------------------------------
(* Parts.                                                                  *)

LEMMA ShapesIs ==
  ASSUME NEW p, IsList(p)
  PROVE  /\ IsList(Shapes(p)) /\ Len(Shapes(p)) = Len(p)
         /\ \A i \in 1 .. Len(p) : Shapes(p)[i] = p[i].shape
<1>1. PICK n \in Nat : n = Len(p)  BY ListIs
<1>2. PICK q : q = Shapes(p)  OBVIOUS
<1>3. q = [i \in 1 .. n |-> p[i].shape]  BY <1>1, <1>2 DEF Shapes
<1>4. q = [i \in 1 .. n |-> q[i]]  BY <1>3
<1>5. IsList(q) /\ Len(q) = n  BY <1>4, FunctionIsList
<1> QED BY <1>1, <1>2, <1>3, <1>5

LEMMA ShapesJoined ==
  ASSUME NEW p, NEW q, IsList(p), IsList(q)
  PROVE  Shapes(Join(p, q)) = Join(Shapes(p), Shapes(q))
<1>1. PICK m \in Nat : m = Len(p)  BY ListIs
<1>2. PICK n \in Nat : n = Len(q)  BY ListIs
<1>3. PICK r : r = Join(p, q)  OBVIOUS
<1>4. IsList(r) /\ Len(r) = m + n /\ \A i \in 1 .. m + n : r[i] = IF i <= m THEN p[i] ELSE q[i - m]
  BY <1>1, <1>2, <1>3, Joined
<1>5. PICK s : s = Shapes(p)  OBVIOUS
<1>6. PICK t : t = Shapes(q)  OBVIOUS
<1>7. IsList(s) /\ Len(s) = m /\ \A i \in 1 .. m : s[i] = p[i].shape  BY <1>1, <1>5, ShapesIs
<1>8. IsList(t) /\ Len(t) = n /\ \A i \in 1 .. n : t[i] = q[i].shape  BY <1>2, <1>6, ShapesIs
<1>9. PICK u : u = Join(s, t)  OBVIOUS
<1>10. IsList(u) /\ Len(u) = m + n /\ \A i \in 1 .. m + n : u[i] = IF i <= m THEN s[i] ELSE t[i - m]
  BY <1>7, <1>8, <1>9, Joined
<1>11. PICK v : v = Shapes(r)  OBVIOUS
<1>12. IsList(v) /\ Len(v) = m + n /\ \A i \in 1 .. m + n : v[i] = r[i].shape
  BY <1>4, <1>11, ShapesIs
<1>13. ASSUME NEW i \in 1 .. m + n  PROVE v[i] = u[i]
  <2>1. CASE i <= m
    <3>1. i \in 1 .. m  BY <2>1
    <3> QED BY <2>1, <3>1, <1>4, <1>7, <1>10, <1>12
  <2>2. CASE ~ (i <= m)
    <3>1. i - m \in 1 .. n  BY <2>2
    <3> QED BY <2>2, <3>1, <1>4, <1>8, <1>10, <1>12
  <2> QED BY <2>1, <2>2
<1>14. v = u  BY <1>10, <1>12, <1>13, ListsEqual
<1> QED BY <1>3, <1>5, <1>6, <1>9, <1>11, <1>14

(* Fresh IDs leave the shapes alone. *)
LEMMA RestampedIs ==
  ASSUME NEW p, NEW n, NEW old, NEW made, IsList(p)
  PROVE  IsList(Restamped(p, n, old, made).parts)
         /\ Shapes(Restamped(p, n, old, made).parts) = Shapes(p)
<1>1. PICK r : r = Restamped(p, n, old, made).parts  OBVIOUS
<1>2. \E g : r = [i \in 1 .. Len(p) |-> [id |-> g[i], shape |-> p[i].shape]]
  <2> DEFINE olds   == Distinct(p)
             fresh  == Reserve(Cardinality(olds))
             rank(i) == Cardinality({j \in olds : j <= i})
             new(id) == fresh[rank(CHOOSE i \in olds : p[i].id = id)]
             g == [i \in 1 .. Len(p) |-> new(p[i].id)]
  <2>1. r = [i \in 1 .. Len(p) |-> [id |-> new(p[i].id), shape |-> p[i].shape]]
    BY <1>1 DEF Restamped
  <2>2. \A i \in 1 .. Len(p) : g[i] = new(p[i].id)  OBVIOUS
  <2> HIDE DEF new, g
  <2>3. r = [i \in 1 .. Len(p) |-> [id |-> g[i], shape |-> p[i].shape]]  BY <2>1, <2>2
  <2> QED BY <2>3
<1>3. PICK g : r = [i \in 1 .. Len(p) |-> [id |-> g[i], shape |-> p[i].shape]]  BY <1>2
<1>4. PICK k \in Nat : k = Len(p)  BY ListIs
<1>5. r = [i \in 1 .. k |-> r[i]]  BY <1>3, <1>4
<1>6. IsList(r) /\ Len(r) = k  BY <1>5, FunctionIsList
<1>7. \A i \in 1 .. k : r[i].shape = p[i].shape  BY <1>3, <1>4
<1>8. [i \in 1 .. k |-> r[i].shape] = [i \in 1 .. k |-> p[i].shape]  BY <1>7
<1>9. Shapes(r) = Shapes(p)  BY <1>4, <1>6, <1>8 DEF Shapes
<1> QED BY <1>1, <1>6, <1>9

-----------------------------------------------------------------------------
(* What a frame is done with.                                              *)

LEMMA DoneIs ==
  ASSUME NEW f, FrameOK(f)
  PROVE  /\ IsList(Done(f)) /\ Len(Done(f)) = f.next - 1 /\ f.next - 1 \in Nat
         /\ \A i \in 1 .. f.next - 1 : Done(f)[i] = f.list[i] /\ f.list[i] \in Nodes
<1>1. PICK l : l = f.list  OBVIOUS
<1>2. PICK n \in Nat : n = f.next - 1
  <2>1. Len(l) \in Nat  BY <1>1, SequenceIsList DEF FrameOK
  <2> QED BY <1>1, <2>1 DEF FrameOK
<1>3. l \in Seq(Nodes) /\ n <= Len(l) /\ Len(l) \in Nat
  <2>1. l \in Seq(Nodes) /\ f.next \in 1 .. (Len(l) + 1)  BY <1>1 DEF FrameOK
  <2>2. Len(l) \in Nat  BY <2>1, SequenceIsList
  <2> QED BY <1>2, <2>1, <2>2
<1>4. \A i \in 1 .. n : l[i] \in Nodes  BY <1>3, ElementOfSeq
<1>5. PICK s : s = SubSeq(l, 1, n)  OBVIOUS
<1>6. s \in Seq(Nodes) /\ Len(s) = n /\ \A i \in 1 .. n : s[i] = l[i]
  <2>1. /\ SubSeq(l, 1, n) \in Seq(Nodes)
        /\ Len(SubSeq(l, 1, n)) = IF 1 <= n THEN n - 1 + 1 ELSE 0
        /\ \A i \in 1 .. n - 1 + 1 : SubSeq(l, 1, n)[i] = l[1 + i - 1]
    BY <1>4, SubSeqProperties
  <2> QED BY <1>5, <2>1
<1>7. IsList(s)  BY <1>6, SequenceIsList
<1> QED BY <1>1, <1>2, <1>4, <1>5, <1>6, <1>7 DEF Done

LEMMA DoneList ==
  ASSUME NEW f, FrameOK(f), NEW F, \A n \in Nodes : IsList(F[n])
  PROVE  IsList(Gather(F, Done(f)))
<1>1. PICK s : s = Done(f)  OBVIOUS
<1>2. PICK n \in Nat : n = f.next - 1  BY DoneIs
<1>3. Len(s) = n /\ \A i \in 1 .. n : s[i] \in Nodes  BY <1>1, <1>2, DoneIs
<1>4. \A i \in 1 .. n : IsList(F[s[i]])  BY <1>3
<1>5. IsList(Gather(F, s))  BY <1>3, <1>4, GatherIsList
<1> QED BY <1>1, <1>5

(* One node more is done. *)
LEMMA DoneOneMore ==
  ASSUME NEW f, FrameOK(f), NEW g, FrameOK(g), g.list = f.list, g.next = f.next + 1, NEW F
  PROVE  Gather(F, Done(g)) = Join(Gather(F, Done(f)), F[f.list[f.next]])
<1>1. PICK s : s = Done(f)  OBVIOUS
<1>2. PICK t : t = Done(g)  OBVIOUS
<1>3. PICK l : l = f.list  OBVIOUS
<1>4. PICK n \in Nat : n = f.next - 1  BY DoneIs
<1>5. PICK m \in Nat : m = n + 1 /\ m = g.next - 1 /\ m = f.next
  <2>1. f.next - 1 \in Nat /\ f.next \in Int  BY <1>4 DEF FrameOK
  <2> QED BY <1>4, <2>1
<1>6. Len(s) = n /\ \A i \in 1 .. n : s[i] = l[i]  BY <1>1, <1>3, <1>4, DoneIs
<1>7. Len(t) = m /\ \A i \in 1 .. m : t[i] = l[i]  BY <1>2, <1>3, <1>5, DoneIs
<1>8. Alike(F, s, F, t, n)
  <2>1. \A i \in 1 .. n : i \in 1 .. m  BY <1>5
  <2>2. \A i \in 1 .. n : s[i] = t[i]  BY <1>6, <1>7, <2>1
  <2> QED BY <2>2 DEF Alike
<1>9. Gather(F, t) = Join(Gather(F, s), F[t[Len(t)]])
  <2>1. Alike(F, s, F, t, Len(s)) /\ Len(s) \in Nat /\ Len(t) = Len(s) + 1
    BY <1>5, <1>6, <1>7, <1>8
  <2> QED BY <2>1, GatherOneMore
<1>10. m \in 1 .. m  BY <1>5
<1>11. t[Len(t)] = l[m]  BY <1>7, <1>10
<1> QED BY <1>1, <1>2, <1>3, <1>5, <1>9, <1>11

LEMMA DoneAll ==
  ASSUME NEW f, FrameOK(f), Finished(f), NEW F
  PROVE  Gather(F, Done(f)) = Gather(F, f.list)
<1>1. PICK s : s = Done(f)  OBVIOUS
<1>2. PICK l : l = f.list  OBVIOUS
<1>3. l \in Seq(Nodes) /\ f.next \in 1 .. (Len(l) + 1) /\ f.next > Len(l)
  BY <1>2 DEF FrameOK, Finished
<1>4. PICK n \in Nat : n = Len(l)  BY <1>3, SequenceIsList
<1>5. f.next - 1 = n  BY <1>3, <1>4
<1>6. Len(s) = n /\ \A i \in 1 .. n : s[i] = l[i]  BY <1>1, <1>2, <1>5, DoneIs
<1>7. Alike(F, s, F, l, n)  BY <1>6 DEF Alike
<1>8. Gather(F, s) = Gather(F, l)
  <2>1. Alike(F, s, F, l, Len(s)) /\ Len(s) \in Nat /\ Len(s) = Len(l)  BY <1>4, <1>6, <1>7
  <2> QED BY <2>1, GatherSame
<1> QED BY <1>1, <1>2, <1>8

LEMMA DoneNone ==
  ASSUME NEW f, FrameOK(f), f.next = 1, NEW F
  PROVE  Gather(F, Done(f)) = << >>
<1>1. Len(Done(f)) = 0  BY DoneIs
<1> QED BY <1>1, GatherNothing

(* The same place in the same list. *)
LEMMA DoneSame ==
  ASSUME NEW f, NEW g, g.list = f.list, g.next = f.next
  PROVE  Done(g) = Done(f)
BY DEF Done

-----------------------------------------------------------------------------
(* What a stack has said, frame by frame.                                  *)

SaidIn(s, n) == [d \in 1 .. n |-> Gather(Says, Done(s[d]))]

LEMMA SaidToIs == \A s, n : SaidTo(s, n) = Gather(SaidIn(s, n), Places(n))
BY DEF SaidTo, SaidIn, Places

LEMMA SaidToNone == \A s : SaidTo(s, 0) = << >>
<1>1. PICK z \in Nat : z = 0  OBVIOUS
<1>2. Len(Places(z)) = 0  BY <1>1, PlacesIs
<1>3. \A s : Gather(SaidIn(s, z), Places(z)) = << >>  BY <1>2, GatherNothing
<1> QED BY <1>1, <1>3, SaidToIs

LEMMA SaidToNext ==
  ASSUME NEW s, NEW n \in Nat
  PROVE  SaidTo(s, n + 1) = Join(SaidTo(s, n), Gather(Says, Done(s[n + 1])))
<1>1. PICK m \in Nat : m = n + 1  OBVIOUS
<1>2. Len(Places(n)) = n /\ \A i \in 1 .. n : Places(n)[i] = i  BY PlacesIs
<1>3. Len(Places(m)) = m /\ \A i \in 1 .. m : Places(m)[i] = i  BY PlacesIs
<1>4. PICK f : f = SaidIn(s, n)  OBVIOUS
<1>5. PICK g : g = SaidIn(s, m)  OBVIOUS
<1>6. \A d \in 1 .. n : f[d] = Gather(Says, Done(s[d]))  BY <1>4 DEF SaidIn
<1>7. \A d \in 1 .. m : g[d] = Gather(Says, Done(s[d]))  BY <1>5 DEF SaidIn
<1>8. \A i \in 1 .. n : i \in 1 .. m  BY <1>1
<1>9. ASSUME NEW i \in 1 .. n  PROVE f[Places(n)[i]] = g[Places(m)[i]]
  BY <1>2, <1>3, <1>6, <1>7, <1>8
<1>10. Alike(f, Places(n), g, Places(m), n)  BY <1>9 DEF Alike
<1>11. Gather(g, Places(m)) = Join(Gather(f, Places(n)), g[Places(m)[Len(Places(m))]])
  <2>1. Alike(f, Places(n), g, Places(m), Len(Places(n)))  BY <1>2, <1>10
  <2>2. Len(Places(n)) \in Nat /\ Len(Places(m)) = Len(Places(n)) + 1  BY <1>1, <1>2, <1>3
  <2> QED BY <2>1, <2>2, GatherOneMore
<1>12. m \in 1 .. m  BY <1>1
<1>13. g[Places(m)[Len(Places(m))]] = Gather(Says, Done(s[m]))  BY <1>3, <1>7, <1>12
<1> QED BY <1>1, <1>4, <1>5, <1>11, <1>13, SaidToIs

(* Stacks that stand at the same places have said the same. *)
LEMMA SaidToSame ==
  ASSUME NEW s, NEW t, NEW n \in Nat, \A d \in 1 .. n : Done(t[d]) = Done(s[d])
  PROVE  SaidTo(t, n) = SaidTo(s, n)
<1>1. SaidIn(t, n) = SaidIn(s, n)  BY DEF SaidIn
<1> QED BY <1>1, SaidToIs

LEMMA SaidToIsList ==
  ASSUME NEW s, NEW n \in Nat, \A d \in 1 .. n : FrameOK(s[d])
  PROVE  IsList(SaidTo(s, n))
<1>1. Len(Places(n)) = n /\ \A i \in 1 .. n : Places(n)[i] = i  BY PlacesIs
<1>2. ASSUME NEW d \in 1 .. n  PROVE IsList(SaidIn(s, n)[Places(n)[d]])
  <2>1. IsList(Gather(Says, Done(s[d])))  BY SaysIsList, DoneList
  <2> QED BY <1>1, <2>1 DEF SaidIn
<1>3. IsList(Gather(SaidIn(s, n), Places(n)))  BY <1>1, <1>2, GatherIsList
<1> QED BY <1>3, SaidToIs

-----------------------------------------------------------------------------
(* A node is handed to the innermost frame: its parts, and what it said.   *)

SameStart(g, f) ==
  /\ g.node = f.node /\ g.list = f.list /\ g.keyed = f.keyed /\ g.hull = f.hull
  /\ g.cap = f.cap

LEMMA FrameHears ==
  ASSUME NEW f, FrameOK(f), NEW w, NEW g, g = [f EXCEPT !.said = @ \o w]
  PROVE  /\ FrameOK(g) /\ SameStart(g, f) /\ g.next = f.next /\ g.parts = f.parts
         /\ g.said = Join(f.said, w)
BY DEF FrameOK, SameStart, Join

LEMMA FrameGets ==
  ASSUME NEW f, FrameOK(f), f.next <= Len(f.list), NEW p, NEW g,
         g = [f EXCEPT !.parts = @ \o p, !.next = @ + 1]
  PROVE  /\ FrameOK(g) /\ SameStart(g, f) /\ g.next = f.next + 1
         /\ g.parts = Join(f.parts, p) /\ g.said = f.said
<1>1. SameStart(g, f) /\ g.next = f.next + 1 /\ g.parts = Join(f.parts, p) /\ g.said = f.said
  BY DEF FrameOK, SameStart, Join
<1>2. DOMAIN g = DOMAIN f  OBVIOUS
<1>3. f.next \in Nat /\ f.next >= 1 /\ Len(f.list) \in Nat
  BY SequenceIsList DEF FrameOK
<1>4. g.next \in 1 .. (Len(f.list) + 1)  BY <1>1, <1>3
<1>5. FrameOK(g)  BY <1>1, <1>2, <1>4 DEF FrameOK, SameStart
<1> QED BY <1>1, <1>5

Received(s, c, w, p) == Delivered(Heard(s, c, w), p)

LEMMA ReceivedIs ==
  ASSUME NEW n \in Nat, n >= 1, NEW s, IsList(s), Len(s) = n,
         \A d \in 1 .. n : FrameOK(s[d]), s[n].next <= Len(s[n].list),
         NEW c, NEW w, NEW p, NEW t, t = Received(s, c, w, p)
  PROVE  /\ IsList(t) /\ Len(t) = n
         /\ \A d \in 1 .. n :
              /\ FrameOK(t[d]) /\ SameStart(t[d], s[d])
              /\ t[d].next = IF d = n THEN s[d].next + 1 ELSE s[d].next
              /\ t[d].parts = IF d = n THEN Join(s[d].parts, p) ELSE s[d].parts
              /\ t[d].said = IF d = c THEN Join(s[d].said, w) ELSE s[d].said
<1>1. PICK r : r = Heard(s, c, w)  OBVIOUS
<1>2. r = [i \in 1 .. n |-> IF i = c THEN [s[i] EXCEPT !.said = @ \o w] ELSE s[i]]
  BY <1>1 DEF Heard
<1>3. \A d \in 1 .. n : r[d] = IF d = c THEN [s[d] EXCEPT !.said = @ \o w] ELSE s[d]
  BY <1>2
<1>4. IsList(r) /\ Len(r) = n
  <2>1. r = [i \in 1 .. n |-> r[i]]  BY <1>2
  <2> QED BY <2>1, FunctionIsList
<1>5. ASSUME NEW d \in 1 .. n
      PROVE  /\ FrameOK(r[d]) /\ SameStart(r[d], s[d]) /\ r[d].next = s[d].next
             /\ r[d].parts = s[d].parts
             /\ r[d].said = IF d = c THEN Join(s[d].said, w) ELSE s[d].said
  <2>1. CASE d = c
    <3>1. PICK f : f = s[d]  OBVIOUS
    <3>2. PICK g : g = r[d]  OBVIOUS
    <3>3. g = [f EXCEPT !.said = @ \o w]  BY <1>3, <2>1, <3>1, <3>2
    <3>4. FrameOK(f)  BY <3>1
    <3>5. /\ FrameOK(g) /\ SameStart(g, f) /\ g.next = f.next /\ g.parts = f.parts
          /\ g.said = Join(f.said, w)
      BY ONLY <3>3, <3>4, FrameHears
    <3> QED BY <2>1, <3>1, <3>2, <3>5
  <2>2. CASE d # c
    <3>1. r[d] = s[d]  BY <1>3, <2>2
    <3> QED BY <2>2, <3>1 DEF SameStart
  <2> QED BY <2>1, <2>2
<1>6. t = [r EXCEPT ![n].parts = @ \o p, ![n].next = @ + 1]
  BY <1>1, <1>4 DEF Received, Delivered
<1>7. DOMAIN r = 1 .. n  BY <1>2
<1>8. n \in 1 .. n  OBVIOUS
<1>9. t = [i \in 1 .. n |-> t[i]]  BY <1>6, <1>7
<1>10. IsList(t) /\ Len(t) = n  BY <1>9, FunctionIsList
<1>11. \A d \in 1 .. n : d # n => t[d] = r[d]  BY <1>6, <1>7
<1>12. t[n] = [r[n] EXCEPT !.parts = @ \o p, !.next = @ + 1]  BY <1>6, <1>7, <1>8
<1>13. /\ FrameOK(t[n]) /\ SameStart(t[n], r[n]) /\ t[n].next = r[n].next + 1
       /\ t[n].parts = Join(r[n].parts, p) /\ t[n].said = r[n].said
  <2>1. PICK f : f = r[n]  OBVIOUS
  <2>2. PICK g : g = t[n]  OBVIOUS
  <2>3. FrameOK(f) /\ f.next <= Len(f.list)  BY <1>5, <1>8, <2>1 DEF SameStart
  <2>4. g = [f EXCEPT !.parts = @ \o p, !.next = @ + 1]  BY <1>12, <2>1, <2>2
  <2>5. /\ FrameOK(g) /\ SameStart(g, f) /\ g.next = f.next + 1
        /\ g.parts = Join(f.parts, p) /\ g.said = f.said
    BY ONLY <2>3, <2>4, FrameGets
  <2> QED BY <2>1, <2>2, <2>5
<1>14. ASSUME NEW d \in 1 .. n
       PROVE  /\ FrameOK(t[d]) /\ SameStart(t[d], s[d])
              /\ t[d].next = IF d = n THEN s[d].next + 1 ELSE s[d].next
              /\ t[d].parts = IF d = n THEN Join(s[d].parts, p) ELSE s[d].parts
              /\ t[d].said = IF d = c THEN Join(s[d].said, w) ELSE s[d].said
  <2>1. CASE d = n
    BY <1>5, <1>8, <1>13, <2>1 DEF SameStart
  <2>2. CASE d # n
    <3>1. t[d] = r[d]  BY <1>11, <2>2
    <3> QED BY <1>5, <2>2, <3>1
  <2> QED BY <2>1, <2>2
<1> QED BY <1>10, <1>14

LEMMA ReceivedNested ==
  ASSUME NEW n \in Nat, n >= 1, NEW s, Nested(s), Len(s) = n, s[n].next <= Len(s[n].list),
         NEW c, NEW w, NEW p, NEW t, t = Received(s, c, w, p)
  PROVE  Nested(t) /\ Len(t) = n /\ Collector(t) = Collector(s)
<1>1. IsList(s) /\ \A d \in 1 .. n : FrameOK(s[d])  BY DEF Nested
<1>2. /\ IsList(t) /\ Len(t) = n
      /\ \A d \in 1 .. n : /\ FrameOK(t[d]) /\ SameStart(t[d], s[d])
                           /\ t[d].next = IF d = n THEN s[d].next + 1 ELSE s[d].next
  BY <1>1, ReceivedIs
<1>3. ASSUME NEW d \in 1 .. n
      PROVE  /\ FrameOK(t[d])
             /\ d = 1 => t[d].keyed = FALSE /\ t[d].cap = 0
             /\ d > 1 => FrameFollows(t[d], t[d - 1], d)
  <2>1. FrameOK(t[d]) /\ SameStart(t[d], s[d])  BY <1>2
  <2>2. d = 1 => t[d].keyed = FALSE /\ t[d].cap = 0  BY <2>1 DEF Nested, SameStart
  <2>3. ASSUME d > 1  PROVE FrameFollows(t[d], t[d - 1], d)
    <3>1. d - 1 \in 1 .. n /\ d - 1 # n  BY <2>3
    <3>2. SameStart(t[d - 1], s[d - 1]) /\ t[d - 1].next = s[d - 1].next  BY <1>2, <3>1
    <3>3. FrameFollows(s[d], s[d - 1], d)  BY <2>3 DEF Nested
    <3> QED BY <2>1, <3>2, <3>3 DEF FrameFollows, SameStart
  <2> QED BY <2>1, <2>2, <2>3
<1>4. Nested(t)  BY <1>2, <1>3 DEF Nested
<1>5. n \in 1 .. n  OBVIOUS
<1>6. t[n].keyed = s[n].keyed  BY <1>2, <1>5 DEF SameStart
<1>7. s # << >> /\ t # << >>  BY <1>2, EmptyList
<1>8. Collector(t) = Collector(s)  BY <1>2, <1>6, <1>7 DEF Collector
<1> QED BY <1>2, <1>4, <1>8


(* What the node drew goes with what it said. *)
LEMMA ReceivedWhole ==
  ASSUME NEW n \in Nat, n >= 1, NEW s, Nested(s), Len(s) = n, s[n].next <= Len(s[n].list),
         NEW m \in Modes, \A d \in 1 .. n : WholeFrame(s[d], m),
         NEW k \in Nodes, k = s[n].list[s[n].next],
         NEW w, IsList(w), NEW p, IsList(p), Shapes(p) = Draws[m][k],
         s[n].keyed => Steady(w) = Says[k],
         NEW t, t = Received(s, Collector(s), w, p)
  PROVE  /\ \A d \in 1 .. n : WholeFrame(t[d], m)
         /\ SaidTo(t, n) = Join(SaidTo(s, n), Says[k])
<1>1. PICK c : c = Collector(s)  OBVIOUS
<1>2. c = IF s[n].keyed THEN n ELSE 0
  <2>1. s # << >>  BY EmptyList
  <2> QED BY <1>1, <2>1 DEF Collector
<1>3. \A d \in 1 .. n : FrameOK(s[d])  BY DEF Nested
<1>4. \A d \in 1 .. n :
        /\ FrameOK(t[d]) /\ SameStart(t[d], s[d])
        /\ t[d].next = IF d = n THEN s[d].next + 1 ELSE s[d].next
        /\ t[d].parts = IF d = n THEN Join(s[d].parts, p) ELSE s[d].parts
        /\ t[d].said = IF d = c THEN Join(s[d].said, w) ELSE s[d].said
  <2>1. IsList(s) /\ t = Received(s, c, w, p)  BY <1>1 DEF Nested
  <2> QED BY <1>3, <2>1, ReceivedIs
<1>5. \A d \in 1 .. n : d # n => Done(t[d]) = Done(s[d])
  BY <1>4, DoneSame DEF SameStart
<1>6. n \in 1 .. n  OBVIOUS
<1>7. PICK f : f = s[n]  OBVIOUS
<1>8. PICK g : g = t[n]  OBVIOUS
<1>9. /\ FrameOK(f) /\ FrameOK(g) /\ g.list = f.list /\ g.next = f.next + 1
      /\ f.list[f.next] = k
  BY <1>3, <1>4, <1>6, <1>7, <1>8 DEF SameStart
<1>10. /\ Gather(Draws[m], Done(g)) = Join(Gather(Draws[m], Done(f)), Draws[m][k])
       /\ Gather(Says, Done(g)) = Join(Gather(Says, Done(f)), Says[k])
  <2>1. Gather(Draws[m], Done(g)) = Join(Gather(Draws[m], Done(f)), Draws[m][f.list[f.next]])
    BY <1>9, DoneOneMore
  <2>2. Gather(Says, Done(g)) = Join(Gather(Says, Done(f)), Says[f.list[f.next]])
    BY <1>9, DoneOneMore
  <2> QED BY <1>9, <2>1, <2>2
<1>11. WholeFrame(g, m)
  <2>1. WholeFrame(f, m)  BY <1>6, <1>7
  <2>2. g.parts = Join(f.parts, p) /\ g.keyed = f.keyed  BY <1>4, <1>6, <1>7, <1>8 DEF SameStart
  <2>3. IsList(g.parts)  BY <2>1, <2>2, Joined DEF WholeFrame
  <2>4. Shapes(g.parts) = Join(Shapes(f.parts), Shapes(p))
    BY <2>1, <2>2, ShapesJoined DEF WholeFrame
  <2>5. Shapes(g.parts) = Gather(Draws[m], Done(g))  BY <1>10, <2>1, <2>4 DEF WholeFrame
  <2>6. g.said = IF f.keyed THEN Join(f.said, w) ELSE f.said
    <3>1. n # 0  OBVIOUS
    <3> QED BY <1>2, <1>4, <1>6, <1>7, <1>8, <3>1
  <2>7. IsList(g.said)  BY <2>1, <2>6, Joined DEF WholeFrame
  <2>8. ASSUME g.keyed  PROVE Steady(g.said) = Gather(Says, Done(g))
    <3>1. f.keyed  BY <2>2, <2>8
    <3>2. Steady(Join(f.said, w)) = Join(Steady(f.said), Steady(w))
      BY <2>1, SteadyJoined DEF WholeFrame
    <3>3. Steady(f.said) = Gather(Says, Done(f))  BY <2>1, <3>1 DEF WholeFrame
    <3>4. Steady(w) = Says[k]  BY <1>7, <3>1
    <3> QED BY <1>10, <2>6, <3>1, <3>2, <3>3, <3>4
  <2> QED BY <2>3, <2>5, <2>7, <2>8 DEF WholeFrame
<1>12. ASSUME NEW d \in 1 .. n, d # n  PROVE WholeFrame(t[d], m)
  <2>1. t[d].parts = s[d].parts /\ t[d].keyed = s[d].keyed /\ Done(t[d]) = Done(s[d])
    BY <1>4, <1>5, <1>12 DEF SameStart
  <2>2. t[d].said = s[d].said
    <3>1. d # 0  OBVIOUS
    <3> QED BY <1>2, <1>4, <1>12, <3>1
  <2>3. WholeFrame(s[d], m)  OBVIOUS
  <2> QED BY <2>1, <2>2, <2>3 DEF WholeFrame
<1>13. SaidTo(t, n) = Join(SaidTo(s, n), Says[k])
  <2>1. PICK b \in Nat : n = b + 1  OBVIOUS
  <2>2. SaidTo(t, b + 1) = Join(SaidTo(t, b), Gather(Says, Done(t[b + 1])))  BY SaidToNext
  <2>3. SaidTo(s, b + 1) = Join(SaidTo(s, b), Gather(Says, Done(s[b + 1])))  BY SaidToNext
  <2>4. SaidTo(t, b) = SaidTo(s, b)
    <3>1. \A d \in 1 .. b : d \in 1 .. n /\ d # n  BY <2>1
    <3>2. \A d \in 1 .. b : Done(t[d]) = Done(s[d])  BY <1>5, <3>1
    <3> QED BY <3>2, SaidToSame
  <2>5. IsList(SaidTo(s, b))
    <3>1. \A d \in 1 .. b : FrameOK(s[d])  BY <1>3, <2>1
    <3> QED BY <3>1, SaidToIsList
  <2>6. IsList(Gather(Says, Done(f))) /\ IsList(Says[k])  BY <1>9, SaysIsList, DoneList
  <2>7. Join(Join(SaidTo(s, b), Gather(Says, Done(f))), Says[k])
          = Join(SaidTo(s, b), Join(Gather(Says, Done(f)), Says[k]))
    BY <2>5, <2>6, JoinedTwice
  <2> QED BY <1>7, <1>8, <1>10, <2>1, <2>2, <2>3, <2>4, <2>7
<1> QED BY <1>8, <1>11, <1>12, <1>13

-----------------------------------------------------------------------------
(* A new frame, and the stack without its innermost one.                   *)

LEMMA FrameIs ==
  ASSUME NEW node, NEW list \in Seq(Nodes), NEW keyed, NEW hull \in BOOLEAN, NEW cap,
         NEW f, f = Frame(node, list, keyed, hull, cap)
  PROVE  /\ FrameOK(f) /\ f.next = 1 /\ f.parts = << >> /\ f.said = << >>
         /\ f.node = node /\ f.list = list /\ f.keyed = keyed /\ f.cap = cap /\ f.hull = hull
         /\ \A m : WholeFrame(f, m)
<1>1. /\ f.next = 1 /\ f.parts = << >> /\ f.said = << >>
      /\ f.node = node /\ f.list = list /\ f.keyed = keyed /\ f.cap = cap /\ f.hull = hull
      /\ DOMAIN f = {"node", "list", "next", "parts", "said", "keyed", "hull", "cap"}
  BY DEF Frame
<1>2. Len(list) \in Nat  BY SequenceIsList
<1>3. FrameOK(f)  BY <1>1, <1>2 DEF FrameOK
<1>4. ASSUME NEW m  PROVE WholeFrame(f, m)
  <2>1. Gather(Draws[m], Done(f)) = << >> /\ Gather(Says, Done(f)) = << >>
    BY <1>1, <1>3, DoneNone
  <2>2. Shapes(<< >>) = << >>
    <3>1. IsList(Shapes(<< >>)) /\ Len(Shapes(<< >>)) = 0  BY EmptyList, ShapesIs
    <3> QED BY <3>1, EmptyList, ListsEqual
  <2> QED BY <1>1, <2>1, <2>2, EmptyList, SteadyEmpty DEF WholeFrame
<1> QED BY <1>1, <1>3, <1>4

(* The same, one fact at a time. *)
LEMMA FrameBegins ==
  ASSUME NEW node, NEW list \in Seq(Nodes), NEW keyed, NEW hull \in BOOLEAN, NEW cap,
         NEW f, f = Frame(node, list, keyed, hull, cap)
  PROVE  FrameOK(f) /\ f.next = 1 /\ f.node = node /\ f.list = list /\ f.cap = cap
BY FrameIs

LEMMA FrameKeyed ==
  ASSUME NEW node, NEW list \in Seq(Nodes), NEW keyed, NEW hull \in BOOLEAN, NEW cap,
         NEW f, f = Frame(node, list, keyed, hull, cap)
  PROVE  f.keyed = keyed
BY FrameIs

LEMMA FrameWhole ==
  ASSUME NEW node, NEW list \in Seq(Nodes), NEW keyed, NEW hull \in BOOLEAN, NEW cap,
         NEW f, f = Frame(node, list, keyed, hull, cap), NEW m
  PROVE  WholeFrame(f, m)
BY FrameIs

Push(s, f) == Append(s, f)

LEMMA Pushed ==
  ASSUME NEW n \in Nat, NEW s, IsList(s), Len(s) = n, NEW f, NEW t, t = Push(s, f)
  PROVE  /\ IsList(t) /\ Len(t) = n + 1 /\ t[n + 1] = f
         /\ \A d \in 1 .. n : t[d] = s[d]
<1>1. PICK S : s \in Seq(S)  BY OneSet
<1>2. S \subseteq S \cup {f} /\ f \in S \cup {f}  OBVIOUS
<1>3. s \in Seq(S \cup {f})  BY <1>1, <1>2, SeqMonotonic
<1>4. /\ t \in Seq(S \cup {f}) /\ Len(t) = Len(s) + 1
      /\ \A d \in 1 .. Len(s) : t[d] = s[d]
      /\ t[Len(s) + 1] = f
  BY <1>2, <1>3, AppendProperties DEF Push
<1>5. IsList(t)  BY <1>4, SequenceIsList
<1> QED BY <1>4, <1>5

LEMMA Popped ==
  ASSUME NEW n \in Nat, NEW s, IsList(s), Len(s) = n + 1, NEW t, t = SubSeq(s, 1, n)
  PROVE  IsList(t) /\ Len(t) = n /\ \A d \in 1 .. n : t[d] = s[d]
<1>1. PICK S : s \in Seq(S)  BY OneSet
<1>2. \A i \in 1 .. n : s[i] \in S
  <2>1. \A i \in 1 .. n : i \in 1 .. Len(s)  OBVIOUS
  <2> QED BY <1>1, <2>1, ElementOfSeq
<1>3. /\ SubSeq(s, 1, n) \in Seq(S)
      /\ Len(SubSeq(s, 1, n)) = IF 1 <= n THEN n - 1 + 1 ELSE 0
      /\ \A i \in 1 .. n - 1 + 1 : SubSeq(s, 1, n)[i] = s[1 + i - 1]
  BY <1>2, SubSeqProperties
<1>4. IsList(t)  BY <1>3, SequenceIsList
<1>5. Len(t) = n
  <2>1. CASE 1 <= n  BY <1>3, <2>1
  <2>2. CASE ~ (1 <= n)  BY <1>3, <2>2
  <2> QED BY <2>1, <2>2
<1>6. \A d \in 1 .. n : t[d] = s[d]  BY <1>3
<1> QED BY <1>4, <1>5, <1>6

LEMMA PoppedNested ==
  ASSUME NEW n \in Nat, n >= 1, NEW s, Nested(s), Len(s) = n + 1,
         NEW t, t = SubSeq(s, 1, n)
  PROVE  /\ Nested(t) /\ Len(t) = n /\ \A d \in 1 .. n : t[d] = s[d]
         /\ s[n + 1].cap = Collector(t)
<1>1. IsList(t) /\ Len(t) = n /\ \A d \in 1 .. n : t[d] = s[d]
  <2>1. IsList(s)  BY DEF Nested
  <2> QED BY <2>1, Popped
<1>2. ASSUME NEW d \in 1 .. n
      PROVE  /\ FrameOK(t[d])
             /\ d = 1 => t[d].keyed = FALSE /\ t[d].cap = 0
             /\ d > 1 => FrameFollows(t[d], t[d - 1], d)
  <2>1. d \in 1 .. Len(s) /\ t[d] = s[d]  BY <1>1
  <2>2. d > 1 => t[d - 1] = s[d - 1]
    <3>1. d > 1 => d - 1 \in 1 .. n  OBVIOUS
    <3> QED BY <1>1, <3>1
  <2> QED BY <2>1, <2>2 DEF Nested
<1>3. Nested(t)  BY <1>1, <1>2 DEF Nested
<1>4. FrameFollows(s[n + 1], s[n], n + 1)
  <2>1. n + 1 \in 1 .. Len(s) /\ n + 1 > 1 /\ (n + 1) - 1 = n  OBVIOUS
  <2> QED BY <2>1 DEF Nested
<1>5. t # << >> /\ t[n] = s[n]  BY <1>1, EmptyList
<1>6. s[n + 1].cap = Collector(t)
  <2>1. s[n + 1].cap = IF s[n].keyed THEN n ELSE 0  BY <1>4 DEF FrameFollows
  <2> QED BY <1>1, <1>5, <2>1 DEF Collector
<1> QED BY <1>1, <1>3, <1>6

-----------------------------------------------------------------------------
(* The steps of one evaluator, apart from the state they are made in.      *)

(* An evaluation begins. *)
LEMMA BeginSound ==
  ASSUME NEW sc
  PROVE  Sound(<< >>, 0, sc, None, << >>)
<1>1. Nested(<< >>)  BY EmptyList DEF Nested
<1>2. 0 = Collector(<< >>)  BY DEF Collector
<1> QED BY <1>1, <1>2, EmptyList DEF Sound

(* A pass begins. *)
LEMMA PassSound ==
  ASSUME NEW sc, sc # None, NEW list \in Seq(Nodes), NEW hull \in BOOLEAN,
         NEW s, s = << Frame(None, list, FALSE, hull, 0) >>
  PROVE  Sound(s, 0, sc, None, << >>)
<1>1. PICK n \in Nat : n = 1  OBVIOUS
<1>2. IsList(s) /\ Len(s) = n /\ s[n] = Frame(None, list, FALSE, hull, 0)  BY <1>1, Singleton
<1>3. /\ FrameOK(s[n]) /\ s[n].next = 1 /\ s[n].keyed = FALSE /\ s[n].cap = 0
      /\ WholeFrame(s[n], sc.mode)
  <2>1. PICK keyed \in BOOLEAN : keyed = FALSE  OBVIOUS
  <2>2. PICK f : f = Frame(None, list, keyed, hull, 0)  OBVIOUS
  <2>3. s[n] = f  BY <1>2, <2>1, <2>2
  <2>4. FrameOK(f) /\ f.next = 1 /\ f.keyed = keyed /\ f.cap = 0  BY <2>2, FrameIs
  <2>5. \A m : WholeFrame(f, m)  BY <2>2, FrameIs
  <2> QED BY <2>1, <2>3, <2>4, <2>5
<1>4. \A d \in 1 .. n : d = n /\ ~ (d > 1)  BY <1>1
<1>5. Nested(s)
  <2>1. ASSUME NEW d \in 1 .. n
        PROVE  /\ FrameOK(s[d])
               /\ d = 1 => s[d].keyed = FALSE /\ s[d].cap = 0
               /\ d > 1 => FrameFollows(s[d], s[d - 1], d)
    BY <1>3, <1>4
  <2> QED BY <1>2, <2>1 DEF Nested
<1>6. 0 = Collector(s)  BY <1>2, <1>3 DEF Collector
<1>7. \A d \in 1 .. Len(s) : WholeFrame(s[d], sc.mode)  BY <1>2, <1>3, <1>4
<1>8. Steady(<< >>) = SaidTo(s, Len(s))
  <2>1. PICK z \in Nat : z = 0 /\ n = z + 1  BY <1>1
  <2>2. SaidTo(s, z + 1) = Join(SaidTo(s, z), Gather(Says, Done(s[z + 1])))  BY SaidToNext
  <2>3. SaidTo(s, z) = << >>  BY <2>1, SaidToNone
  <2>4. Gather(Says, Done(s[z + 1])) = << >>  BY <1>3, <2>1, DoneNone
  <2>5. Join(<< >>, << >>) = << >>  BY EmptyList, JoinedEmpty
  <2>6. SaidTo(s, n) = << >>  BY <2>1, <2>2, <2>3, <2>4, <2>5
  <2> QED BY <1>2, <2>6, SteadyEmpty
<1> QED BY <1>5, <1>6, <1>7, <1>8, EmptyList DEF Sound

(* The node the innermost frame has come to. *)
LEMMA Here ==
  ASSUME NEW s, Nested(s), s # << >>, ~ Finished(s[Len(s)])
  PROVE  /\ Len(s) \in Nat /\ Len(s) >= 1 /\ s[Len(s)].next <= Len(s[Len(s)].list)
         /\ s[Len(s)].list[s[Len(s)].next] \in Nodes
<1>1. Len(s) \in Nat /\ IsList(s)  BY ListIs DEF Nested
<1>2. Len(s) # 0  BY <1>1, EmptyList, ListsEqual
<1>3. Len(s) \in 1 .. Len(s)  BY <1>1, <1>2
<1>4. PICK f : f = s[Len(s)]  OBVIOUS
<1>5. FrameOK(f)  BY <1>3, <1>4 DEF Nested
<1>6. PICK l : l = f.list  OBVIOUS
<1>7. l \in Seq(Nodes) /\ f.next \in 1 .. (Len(l) + 1) /\ ~ (f.next > Len(l))
  BY <1>4, <1>5, <1>6 DEF FrameOK, Finished
<1>8. Len(l) \in Nat  BY <1>7, SequenceIsList
<1>9. f.next \in 1 .. Len(l)  BY <1>7, <1>8
<1>10. l[f.next] \in Nodes  BY <1>7, <1>9, ElementOfSeq
<1> QED BY <1>1, <1>2, <1>4, <1>6, <1>8, <1>9, <1>10

(* A node has been dealt with: its caller has its parts and its warnings,  *)
(* and they have been printed.                                             *)
LEMMA HandedOver ==
  ASSUME NEW s, Nested(s), s # << >>, ~ Finished(s[Len(s)]),
         NEW sc, sc # None, sc.mode \in Modes,
         \A d \in 1 .. Len(s) : WholeFrame(s[d], sc.mode),
         NEW k, k = s[Len(s)].list[s[Len(s)].next],
         NEW w, IsList(w), NEW p, IsList(p), Shapes(p) = Draws[sc.mode][k],
         s[Len(s)].keyed => Steady(w) = Says[k],
         NEW said, IsList(said), Steady(said) = Join(SaidTo(s, Len(s)), Says[k]),
         NEW c, c = Collector(s), NEW t, t = Received(s, c, w, p)
  PROVE  Sound(t, c, sc, None, said)
<1>1. PICK n \in Nat : n = Len(s)  BY Here
<1>2. n >= 1 /\ s[n].next <= Len(s[n].list) /\ k \in Nodes  BY <1>1, Here
<1>3. Nested(t) /\ Len(t) = n /\ Collector(t) = c  BY <1>1, <1>2, ReceivedNested
<1>4. PICK m \in Modes : m = sc.mode  OBVIOUS
<1>5. (\A d \in 1 .. n : WholeFrame(t[d], m)) /\ SaidTo(t, n) = Join(SaidTo(s, n), Says[k])
  <2>1. /\ \A d \in 1 .. n : WholeFrame(s[d], m)
        /\ Shapes(p) = Draws[m][k] /\ (s[n].keyed => Steady(w) = Says[k])
        /\ t = Received(s, Collector(s), w, p) /\ k = s[n].list[s[n].next]
    BY <1>1, <1>4
  <2>2. Nested(s) /\ IsList(w) /\ IsList(p)  OBVIOUS
  <2> QED BY ONLY <1>1, <1>2, <1>4, <2>1, <2>2, ReceivedWhole
<1>6. Steady(said) = SaidTo(t, Len(t))  BY <1>1, <1>3, <1>5
<1> QED BY <1>3, <1>4, <1>5, <1>6 DEF Sound

(* A node is entered. *)
LEMMA EnterSound ==
  ASSUME NEW s, s # << >>, ~ Finished(s[Len(s)]), NEW c, NEW sc, NEW r, NEW said,
         Sound(s, c, sc, r, said),
         NEW k, k = s[Len(s)].list[s[Len(s)].next], NEW hull \in BOOLEAN,
         NEW t, t = Append(s, Frame(k, Kids[k], Cacheable(k), hull, c)),
         NEW c2, c2 = IF Cacheable(k) THEN Len(s) + 1 ELSE c
  PROVE  Sound(t, c2, sc, r, said)
<1>1. Nested(s) /\ c = Collector(s) /\ IsList(s)  BY DEF Sound, Nested
<1>2. PICK n \in Nat : n = Len(s)  BY <1>1, Here
<1>3. n >= 1 /\ s[n].next <= Len(s[n].list) /\ k \in Nodes  BY <1>1, <1>2, Here
<1>4. Cacheable(k) \in BOOLEAN  BY DEF Cacheable
<1>5. PICK keyed \in BOOLEAN : keyed = Cacheable(k)  BY <1>4, Zenon
<1>6. PICK f : f = Frame(k, Kids[k], keyed, hull, c)  OBVIOUS
<1>7. Kids[k] \in Seq(Nodes)  BY <1>3, TreeAssumption
<1>8. /\ FrameOK(f) /\ f.next = 1 /\ f.node = k /\ f.list = Kids[k] /\ f.cap = c
      /\ WholeFrame(f, sc.mode)
  <2>1. PICK list \in Seq(Nodes) : list = Kids[k]  BY <1>7
  <2>2. f = Frame(k, list, keyed, hull, c)  BY <1>6, <2>1
  <2>3. hull \in BOOLEAN /\ list \in Seq(Nodes)  OBVIOUS
  <2>4. FrameOK(f) /\ f.next = 1 /\ f.node = k /\ f.list = list /\ f.cap = c
    BY ONLY <2>2, <2>3, FrameBegins
  <2>5. WholeFrame(f, sc.mode)  BY ONLY <2>2, <2>3, FrameWhole
  <2> QED BY ONLY <2>1, <2>4, <2>5
<1>9. f.keyed = Cacheable(k)
  <2>1. f = Frame(k, Kids[k], keyed, hull, c) /\ hull \in BOOLEAN  BY <1>6
  <2>2. f.keyed = keyed  BY ONLY <1>7, <2>1, FrameKeyed
  <2> QED BY <2>2, <1>5, Zenon
<1>10. IsList(t) /\ Len(t) = n + 1 /\ t[n + 1] = f /\ \A d \in 1 .. n : t[d] = s[d]
  <2>1. t = Push(s, f)  BY <1>6, <1>5, Zenon DEF Push
  <2>2. IsList(s) /\ Len(s) = n /\ n \in Nat  BY <1>1, <1>2
  <2>3. IsList(t) /\ Len(t) = n + 1 /\ t[n + 1] = f  BY ONLY <2>1, <2>2, Pushed
  <2>4. \A d \in 1 .. n : t[d] = s[d]  BY ONLY <2>1, <2>2, Pushed
  <2> QED BY <2>3, <2>4
<1>11. c = IF s[n].keyed THEN n ELSE 0  BY <1>1, <1>2 DEF Collector
<1>12. ASSUME s[n].keyed  PROVE Cacheable(k)
  <2>1. n # 1  BY <1>1, <1>2, <1>12 DEF Nested
  <2>2. n \in 1 .. n /\ n > 1  BY <1>3, <2>1
  <2>3. FrameFollows(s[n], s[n - 1], n)  BY <1>1, <1>2, <2>2 DEF Nested
  <2>4. PICK u : u = s[n].node  OBVIOUS
  <2>5. Cacheable(u) /\ s[n].list = Kids[u]  BY <1>12, <2>3, <2>4 DEF FrameFollows
  <2>6. u \in Nodes
    <3>1. PICK b : b = s[n - 1]  OBVIOUS
    <3>2. b.next <= Len(b.list) /\ u = b.list[b.next]  BY <2>3, <2>4, <3>1 DEF FrameFollows
    <3>3. n - 1 \in 1 .. n  BY <2>2
    <3>4. FrameOK(b)  BY <1>1, <1>2, <3>1, <3>3 DEF Nested
    <3>5. b.list \in Seq(Nodes) /\ b.next \in 1 .. Len(b.list)
      <4>1. Len(b.list) \in Nat  BY <3>4, SequenceIsList DEF FrameOK
      <4> QED BY <3>2, <3>4, <4>1 DEF FrameOK
    <3>6. b.list[b.next] \in Nodes  BY <3>5, ElementOfSeq
    <3> QED BY <3>2, <3>6
  <2>7. s[n].next \in 1 .. Len(Kids[u])
    <3>1. FrameOK(s[n])  BY <1>1, <1>2, <2>2 DEF Nested
    <3>2. Len(Kids[u]) \in Nat  BY <2>6, NodeKids
    <3> QED BY <1>3, <2>5, <3>1, <3>2 DEF FrameOK
  <2>8. Cacheable(Kids[u][s[n].next])  BY <2>5, <2>6, <2>7, CacheableKids
  <2> QED BY <1>2, <2>5, <2>8
<1>13. FrameFollows(f, s[n], n + 1)
  <2>1. (n + 1) - 1 = n  OBVIOUS
  <2>2. f.cap = IF s[n].keyed THEN (n + 1) - 1 ELSE 0  BY <1>8, <1>11, <2>1
  <2> QED BY <1>2, <1>3, <1>8, <1>12, <1>9, <2>2 DEF FrameFollows
<1>14. ASSUME NEW d \in 1 .. n + 1
       PROVE  /\ FrameOK(t[d])
              /\ d = 1 => t[d].keyed = FALSE /\ t[d].cap = 0
              /\ d > 1 => FrameFollows(t[d], t[d - 1], d)
  <2>1. CASE d = n + 1
    <3>1. d # 1 /\ d - 1 = n /\ n \in 1 .. n  BY <1>3, <2>1
    <3>2. t[d] = f /\ t[d - 1] = s[n]  BY <1>10, <2>1, <3>1
    <3> QED BY <1>8, <1>13, <2>1, <3>1, <3>2
  <2>2. CASE d # n + 1
    <3>1. d \in 1 .. n /\ (d > 1 => d - 1 \in 1 .. n)  BY <2>2
    <3>2. t[d] = s[d] /\ (d > 1 => t[d - 1] = s[d - 1])  BY <1>10, <3>1
    <3> QED BY <1>1, <1>2, <3>1, <3>2 DEF Nested
  <2> QED BY <2>1, <2>2
<1>15. Nested(t)  BY <1>10, <1>14 DEF Nested
<1>16. t # << >>
  <2>1. n + 1 # 0  OBVIOUS
  <2> QED BY <1>10, <2>1, EmptyList
<1>17. c2 = Collector(t)
  <2>1. Collector(t) = IF f.keyed THEN n + 1 ELSE 0  BY <1>10, <1>16 DEF Collector
  <2>2. CASE Cacheable(k)  BY <1>2, <1>9, <2>1, <2>2
  <2>3. CASE ~ Cacheable(k)
    <3>1. c2 = c /\ c = 0  BY <1>11, <1>12, <2>3
    <3> QED BY <1>9, <2>1, <2>3, <3>1
  <2> QED BY <2>2, <2>3
<1>18. \A d \in 1 .. Len(t) : WholeFrame(t[d], sc.mode)
  <2> SUFFICES ASSUME NEW d \in 1 .. n + 1  PROVE WholeFrame(t[d], sc.mode)  BY <1>10
  <2>1. CASE d = n + 1  BY <1>8, <1>10, <2>1
  <2>2. CASE d # n + 1
    <3>1. d \in 1 .. n  BY <2>2
    <3>2. WholeFrame(s[d], sc.mode)  BY <1>2, <3>1 DEF Sound
    <3> QED BY <1>10, <3>1, <3>2
  <2> QED BY <2>1, <2>2
<1>19. SaidTo(t, Len(t)) = SaidTo(s, Len(s))
  <2>1. SaidTo(t, n + 1) = Join(SaidTo(t, n), Gather(Says, Done(t[n + 1])))  BY SaidToNext
  <2>2. SaidTo(t, n) = SaidTo(s, n)
    <3>1. \A d \in 1 .. n : Done(t[d]) = Done(s[d])  BY <1>10
    <3> QED BY <3>1, SaidToSame
  <2>3. Gather(Says, Done(t[n + 1])) = << >>  BY <1>8, <1>10, DoneNone
  <2>4. IsList(SaidTo(s, n))
    <3>1. \A d \in 1 .. n : FrameOK(s[d])  BY <1>1, <1>2 DEF Nested
    <3> QED BY <3>1, SaidToIsList
  <2>5. Join(SaidTo(s, n), << >>) = SaidTo(s, n)  BY <2>4, JoinedEmpty
  <2> QED BY <1>2, <1>10, <2>1, <2>2, <2>3, <2>5
<1> QED BY <1>15, <1>17, <1>18, <1>19 DEF Sound

(* What a GenerateFn makes. *)
LEMMA GeneratedIs ==
  ASSUME NEW e, NEW n, NEW parts, IsList(parts), NEW m, m = Mode(e),
         NEW p, p = Generated(e, n, parts)
  PROVE  IsList(p) /\ Shapes(p) = Drawing(m, n, Shapes(parts))
<1>1. CASE Kind[n] = "union"
  <2>1. p = parts  BY <1>1 DEF Generated, Makes
  <2> QED BY <1>1, <2>1 DEF Drawing
<1>2. CASE Kind[n] # "union"
  <2> DEFINE shape == CASE Kind[n] = "hull" -> Shape("hull", "", Shapes(parts))
                        [] Kind[n] = "difference" -> Shape("cut", m, Shapes(parts))
                        [] OTHER -> Shape("leaf", Drawn[n], << >>)
             id == Reserve(1)[1]
  <2>1. p = << [id |-> id, shape |-> shape] >>  BY <1>2 DEF Generated, Makes
  <2>2. Drawing(m, n, Shapes(parts)) = << shape >>  BY <1>2 DEF Drawing
  <2> HIDE DEF shape, id
  <2>3. PICK x : x = [id |-> id, shape |-> shape]  OBVIOUS
  <2>4. PICK k \in Nat : k = 1  OBVIOUS
  <2>5. IsList(p) /\ Len(p) = k /\ p[k] = x  BY <2>1, <2>3, <2>4, Singleton
  <2>6. IsList(Shapes(p)) /\ Len(Shapes(p)) = k /\ Shapes(p)[k] = shape
    <3>1. k \in 1 .. k /\ p[k].shape = shape  BY <2>3, <2>4, <2>5
    <3> QED BY <2>5, <3>1, ShapesIs
  <2>7. PICK q : q = << shape >>  OBVIOUS
  <2>8. IsList(q) /\ Len(q) = k /\ q[k] = shape  BY <2>4, <2>7, Singleton
  <2>9. \A i \in 1 .. k : i = k  BY <2>4
  <2>10. PICK u : u = Shapes(p)  OBVIOUS
  <2>11. \A i \in 1 .. k : u[i] = q[i]  BY <2>6, <2>8, <2>9, <2>10
  <2>12. IsList(u) /\ Len(u) = k  BY <2>6, <2>10
  <2>13. u = q  BY ONLY <2>8, <2>11, <2>12, ListsEqual
  <2> QED BY <2>2, <2>5, <2>7, <2>10, <2>13
<1> QED BY <1>1, <1>2

(* The frame above another one. *)
LEMMA Follows ==
  ASSUME NEW n \in Nat, n >= 1, NEW s, Nested(s), Len(s) = n + 1
  PROVE  FrameOK(s[n + 1]) /\ FrameFollows(s[n + 1], s[n], n + 1)
<1>1. n + 1 \in 1 .. Len(s) /\ n + 1 > 1 /\ (n + 1) - 1 = n  OBVIOUS
<1> QED BY <1>1 DEF Nested

(* A node is finished: what it drew is what it always draws, and what it   *)
(* collected is what it always says.                                       *)
Finishing(n, s, f, c, sc, m, r, said, own, heard, p, b, t) ==
  /\ n \in Nat /\ n >= 1 /\ Len(s) = n + 1 /\ f = s[n + 1] /\ Finished(f)
  /\ m \in Modes /\ m = sc.mode /\ Sound(s, c, sc, r, said)
  /\ own = Own(f.node, f.hull) /\ heard = (IF f.keyed THEN Join(f.said, own) ELSE own)
  /\ IsList(p) /\ Shapes(p) = Drawing(m, f.node, Shapes(f.parts))
  /\ b = SubSeq(s, 1, n) /\ t = Received(b, f.cap, heard, p)

LEMMA FinishSound ==
  ASSUME NEW n, NEW s, NEW f, NEW c, NEW sc, NEW m, NEW r, NEW said, NEW own, NEW heard,
         NEW p, NEW b, NEW t, Finishing(n, s, f, c, sc, m, r, said, own, heard, p, b, t)
  PROVE  /\ Sound(t, f.cap, sc, r, Join(said, own))
         /\ f.node \in Nodes /\ Shapes(p) = Draws[m][f.node] /\ IsList(heard)
         /\ f.keyed => Cacheable(f.node) /\ Steady(heard) = Says[f.node]
<1>0. /\ n \in Nat /\ n >= 1 /\ Len(s) = n + 1 /\ f = s[n + 1] /\ Finished(f)
      /\ m \in Modes /\ m = sc.mode /\ Sound(s, c, sc, r, said)
      /\ own = Own(f.node, f.hull) /\ heard = (IF f.keyed THEN Join(f.said, own) ELSE own)
      /\ IsList(p) /\ Shapes(p) = Drawing(m, f.node, Shapes(f.parts))
      /\ b = SubSeq(s, 1, n) /\ t = Received(b, f.cap, heard, p)
  BY DEF Finishing
<1> USE <1>0
<1>1. /\ Nested(s) /\ IsList(s) /\ sc # None /\ r = None /\ IsList(said)
      /\ \A d \in 1 .. n + 1 : WholeFrame(s[d], m)
      /\ Steady(said) = SaidTo(s, n + 1)
  <2>1. n + 1 # 0  OBVIOUS
  <2>2. s # << >>  BY <2>1, EmptyList
  <2> QED BY <2>2 DEF Sound, Nested
<1>2. Nested(b) /\ Len(b) = n /\ (\A d \in 1 .. n : b[d] = s[d]) /\ f.cap = Collector(b)
  <2>1. n \in Nat /\ n >= 1 /\ Nested(s) /\ Len(s) = n + 1 /\ b = SubSeq(s, 1, n)  BY <1>1
  <2>2. Nested(b) /\ Len(b) = n  BY ONLY <2>1, PoppedNested
  <2>3. \A d \in 1 .. n : b[d] = s[d]  BY ONLY <2>1, PoppedNested
  <2>4. s[n + 1].cap = Collector(b)  BY ONLY <2>1, PoppedNested
  <2> QED BY <2>2, <2>3, <2>4
<1>3. PICK up : up = b[n]  OBVIOUS
<1>4. up = s[n]
  <2>1. n \in 1 .. n  OBVIOUS
  <2> QED BY <1>2, <1>3, <2>1
<1>5. FrameOK(f) /\ FrameFollows(f, up, n + 1)  BY <1>1, <1>4, Follows
<1>6. PICK k : k = f.node  OBVIOUS
<1>7. up.next <= Len(up.list) /\ k = up.list[up.next] /\ f.list = Kids[k]
  BY <1>5, <1>6 DEF FrameFollows
<1>8. f.keyed = Cacheable(k)  BY <1>5, <1>6 DEF FrameFollows
<1>9. up.keyed => f.keyed  BY <1>5 DEF FrameFollows
<1>10. b # << >> /\ ~ Finished(b[Len(b)])
  <2>1. n # 0  OBVIOUS
  <2>2. b # << >>  BY <1>2, <2>1, EmptyList
  <2>3. FrameOK(up)
    <3>1. n \in 1 .. n  OBVIOUS
    <3> QED BY <1>2, <1>3, <3>1 DEF Nested
  <2>4. Len(up.list) \in Nat /\ up.next \in Int
    <3>1. Len(up.list) \in Nat  BY <2>3, SequenceIsList DEF FrameOK
    <3> QED BY <2>3, <3>1 DEF FrameOK
  <2>5. ~ Finished(up)  BY ONLY <1>7, <2>4 DEF Finished
  <2>6. b[Len(b)] = up  BY ONLY <1>2, <1>3
  <2> QED BY ONLY <2>2, <2>5, <2>6
<1>11. k \in Nodes  BY <1>2, <1>3, <1>7, <1>10, Here
<1>12. WholeFrame(f, m)
  <2>1. n + 1 \in 1 .. n + 1  OBVIOUS
  <2> QED BY <1>1, <2>1
<1>13. /\ Gather(Draws[m], Done(f)) = Gather(Draws[m], Kids[k])
       /\ Gather(Says, Done(f)) = Gather(Says, Kids[k])
  BY <1>5, <1>7, DoneAll
<1>14. Shapes(p) = Draws[m][k]
  <2>1. Shapes(f.parts) = Gather(Draws[m], Kids[k])  BY <1>12, <1>13 DEF WholeFrame
  <2> QED BY <1>6, <1>11, <2>1, DrawsIs
<1>15. IsList(own) /\ Steady(own) = Steady(Own(k, FALSE))
  <2>1. f.hull \in BOOLEAN  BY <1>5 DEF FrameOK
  <2> QED BY <1>6, <2>1, OwnIs
<1>16. Says[k] = Join(Gather(Says, Kids[k]), Steady(own))  BY <1>11, <1>15, SaysIs
<1>17. IsList(heard)
  <2>1. IsList(f.said)  BY <1>12 DEF WholeFrame
  <2>2. IsList(Join(f.said, own))  BY <1>15, <2>1, Joined
  <2> QED BY <1>15, <2>2
<1>18. ASSUME f.keyed  PROVE Steady(heard) = Says[k]
  <2>1. IsList(f.said) /\ Steady(f.said) = Gather(Says, Kids[k])
    BY <1>12, <1>13, <1>18 DEF WholeFrame
  <2>2. Steady(Join(f.said, own)) = Join(Steady(f.said), Steady(own))
    BY <1>15, <2>1, SteadyJoined
  <2> QED BY <1>16, <1>18, <2>1, <2>2
<1>19. IsList(Join(said, own)) /\ Steady(Join(said, own)) = Join(SaidTo(b, Len(b)), Says[k])
  <2>1. IsList(Join(said, own))  BY <1>1, <1>15, Joined
  <2>2. Steady(Join(said, own)) = Join(Steady(said), Steady(own))
    BY <1>1, <1>15, SteadyJoined
  <2>3. SaidTo(s, n + 1) = Join(SaidTo(s, n), Gather(Says, Done(s[n + 1])))  BY SaidToNext
  <2>4. SaidTo(b, n) = SaidTo(s, n)
    <3>1. \A d \in 1 .. n : Done(b[d]) = Done(s[d])  BY <1>2
    <3> QED BY <3>1, SaidToSame
  <2>5. Steady(said) = Join(SaidTo(b, n), Gather(Says, Kids[k]))
    BY <1>1, <1>13, <2>3, <2>4
  <2>6. IsList(SaidTo(b, n))
    <3>1. \A d \in 1 .. n : FrameOK(b[d])  BY <1>2 DEF Nested
    <3> QED BY <3>1, SaidToIsList
  <2>7. IsList(Gather(Says, Kids[k]))
    <3>1. \A i \in 1 .. Len(Kids[k]) : IsList(Says[Kids[k][i]])  BY <1>11, NodeKids, SaysIsList
    <3> QED BY <1>11, <3>1, NodeKids, GatherIsList
  <2>8. Join(Join(SaidTo(b, n), Gather(Says, Kids[k])), Steady(own))
          = Join(SaidTo(b, n), Join(Gather(Says, Kids[k]), Steady(own)))
    <3>1. PICK x : x = SaidTo(b, n)  OBVIOUS
    <3>2. PICK y : y = Gather(Says, Kids[k])  OBVIOUS
    <3>3. PICK z : z = Steady(own)  OBVIOUS
    <3>4. IsList(x) /\ IsList(y) /\ IsList(z)
      BY <1>15, <2>6, <2>7, <3>1, <3>2, <3>3, SteadyIsList
    <3>5. Join(Join(x, y), z) = Join(x, Join(y, z))  BY ONLY <3>4, JoinedTwice
    <3> QED BY <3>1, <3>2, <3>3, <3>5
  <2>9. Steady(Join(said, own)) = Join(SaidTo(b, n), Says[k])
    BY <1>16, <2>2, <2>5, <2>8
  <2> QED BY <1>2, <2>1, <2>9
<1>20. Sound(t, f.cap, sc, None, Join(said, own))
  <2>1. \A d \in 1 .. Len(b) : WholeFrame(b[d], sc.mode)  BY <1>1, <1>2
  <2>2. k = b[Len(b)].list[b[Len(b)].next]  BY <1>2, <1>3, <1>7
  <2>3. b[Len(b)].keyed => Steady(heard) = Says[k]  BY <1>2, <1>3, <1>9, <1>18
  <2>4. sc.mode \in Modes /\ Shapes(p) = Draws[sc.mode][k]  BY <1>14
  <2>5. PICK cc : cc = f.cap /\ cc = Collector(b)  BY <1>2
  <2>6. t = Received(b, cc, heard, p)  BY <2>5
  <2>7. PICK all : all = Join(said, own)  OBVIOUS
  <2>8. /\ Nested(b) /\ b # << >> /\ ~ Finished(b[Len(b)]) /\ sc # None /\ IsList(heard)
        /\ IsList(p) /\ IsList(all) /\ Steady(all) = Join(SaidTo(b, Len(b)), Says[k])
    BY <1>1, <1>2, <1>10, <1>17, <1>19, <2>7
  <2>9. Sound(t, cc, sc, None, all)
    BY ONLY <2>1, <2>2, <2>3, <2>4, <2>5, <2>6, <2>8, HandedOver
  <2> QED BY <2>5, <2>7, <2>9
<1> QED BY <1>1, <1>6, <1>8, <1>11, <1>14, <1>17, <1>18, <1>20

(* A pass is over: the stack has gone, and the capture points nowhere.     *)
LEMMA Bottom ==
  ASSUME NEW n \in Nat, n = 1, NEW s, s # << >>, NEW c, NEW sc, NEW r, NEW said,
         Sound(s, c, sc, r, said)
  PROVE  /\ n \in 1 .. Len(s) /\ FrameOK(s[n]) /\ s[n].keyed = FALSE /\ s[n].cap = 0
         /\ Nested(<< >>) /\ Collector(<< >>) = 0
<1>1. Nested(s) /\ IsList(s)  BY DEF Sound, Nested
<1>2. Len(s) \in Nat /\ Len(s) # 0  BY <1>1, ListIs, EmptyList, ListsEqual
<1>3. n \in 1 .. Len(s)  BY <1>2
<1>4. FrameOK(s[n]) /\ s[n].keyed = FALSE /\ s[n].cap = 0  BY <1>1, <1>3 DEF Nested
<1>5. Nested(<< >>)  BY EmptyList DEF Nested
<1>6. Collector(<< >>) = 0  BY DEF Collector
<1> QED BY <1>3, <1>4, <1>5, <1>6

LEMMA AbortSound ==
  ASSUME NEW s, s # << >>, NEW c, NEW sc, NEW r, NEW said, Sound(s, c, sc, r, said), NEW sc2
  PROVE  Sound(<< >>, s[1].cap, sc2, r, said)
<1>1. PICK n \in Nat : n = 1  OBVIOUS
<1>2. s[n].cap = 0 /\ Nested(<< >>) /\ Collector(<< >>) = 0  BY <1>1, Bottom
<1>3. r = None /\ IsList(said)  BY DEF Sound
<1> QED BY <1>1, <1>2, <1>3, EmptyList DEF Sound

LEMMA CompleteSound ==
  ASSUME NEW n \in Nat, n = 1, NEW s, Len(s) = n, Finished(s[n]), NEW c, NEW sc,
         NEW m \in Modes, m = sc.mode, NEW r, NEW said, Sound(s, c, sc, r, said), NEW sc2,
         NEW r2, r2.script = sc, r2.parts = s[n].parts, r2.list = s[n].list
  PROVE  Sound(<< >>, c, sc2, r2, said)
<1>1. s # << >>
  <2>1. n # 0  OBVIOUS
  <2> QED BY <2>1, EmptyList
<1>2. /\ FrameOK(s[n]) /\ s[n].keyed = FALSE
      /\ Nested(<< >>) /\ Collector(<< >>) = 0
  BY <1>1, Bottom
<1>3. PICK f : f = s[n]  OBVIOUS
<1>4. n \in 1 .. n  OBVIOUS
<1>5. FrameOK(f) /\ Finished(f) /\ f.keyed = FALSE  BY <1>2, <1>3
<1>6. IsList(said) /\ Steady(said) = SaidTo(s, n) /\ WholeFrame(f, m)
  BY <1>1, <1>3, <1>4 DEF Sound
<1>7. c = 0
  <2>1. c = Collector(s)  BY DEF Sound
  <2> QED BY <1>1, <1>3, <1>5, <2>1 DEF Collector
<1>8. Shapes(r2.parts) = Gather(Draws[r2.script.mode], r2.list)
  <2>1. Gather(Draws[m], Done(f)) = Gather(Draws[m], f.list)  BY <1>5, DoneAll
  <2> QED BY <1>3, <1>6, <2>1 DEF WholeFrame
<1>9. Steady(said) = Gather(Says, r2.list)
  <2>1. PICK z \in Nat : z = 0 /\ n = z + 1  OBVIOUS
  <2>2. SaidTo(s, z + 1) = Join(SaidTo(s, z), Gather(Says, Done(s[z + 1])))  BY SaidToNext
  <2>3. SaidTo(s, z) = << >>  BY <2>1, SaidToNone
  <2>4. IsList(Gather(Says, Done(f)))  BY <1>5, SaysIsList, DoneList
  <2>5. Gather(Says, Done(f)) = Gather(Says, f.list)  BY <1>5, DoneAll
  <2>6. Join(<< >>, Gather(Says, Done(f))) = Gather(Says, Done(f))  BY <2>4, JoinedEmpty
  <2>7. SaidTo(s, n) = Gather(Says, f.list)  BY <1>3, <2>1, <2>2, <2>3, <2>5, <2>6
  <2> QED BY <1>3, <1>6, <2>7
<1> QED BY <1>2, <1>6, <1>7, <1>8, <1>9, EmptyList DEF Sound

-----------------------------------------------------------------------------
(* The entries.                                                            *)

GoodCache(c) ==
  /\ \A k \in DOMAIN c : IsList(c[k].parts) /\ IsList(c[k].warnings)
  /\ \A m \in Modes, n \in Nodes :
       Cacheable(n) /\ KeyIn(m, n) \in DOMAIN c => EntryOf(m, n, c[KeyIn(m, n)])

LEMMA CacheGood ==
  /\ (EntriesListed /\ EntriesWhole) <=> GoodCache(cache)
  /\ (EntriesListed /\ EntriesWhole)' <=> GoodCache(cache')
BY DEF EntriesListed, EntriesWhole, GoodCache

(* What a finished node stores suits every node that will find it. *)
LEMMA Stored ==
  ASSUME NEW c, GoodCache(c), NEW m \in Modes, NEW n \in Nodes, Cacheable(n),
         NEW x, IsList(x.parts), IsList(x.warnings), EntryOf(m, n, x),
         NEW c2, c2 = Extend(c, Entry(KeyIn(m, n), x))
  PROVE  GoodCache(c2)
<1>1. PICK key : key = KeyIn(m, n)  OBVIOUS
<1>2. DOMAIN c2 = DOMAIN c \cup {key} /\ c2[key] = x /\ \A k \in DOMAIN c : k # key => c2[k] = c[k]
  BY <1>1 DEF Extend, Entry
<1>3. ASSUME NEW k \in DOMAIN c2  PROVE IsList(c2[k].parts) /\ IsList(c2[k].warnings)
  <2>1. CASE k = key  BY <1>2, <2>1
  <2>2. CASE k # key
    <3>1. k \in DOMAIN c /\ c2[k] = c[k]  BY <1>2, <2>2
    <3> QED BY <3>1 DEF GoodCache
  <2> QED BY <2>1, <2>2
<1>4. ASSUME NEW m2 \in Modes, NEW n2 \in Nodes, Cacheable(n2), KeyIn(m2, n2) \in DOMAIN c2
      PROVE  EntryOf(m2, n2, c2[KeyIn(m2, n2)])
  <2>1. CASE KeyIn(m2, n2) = key
    <3>1. m2 = m /\ Key[n2] = Key[n]  BY <1>1, <2>1 DEF KeyIn
    <3>2. Says[n2] = Says[n] /\ Draws[m][n2] = Draws[m][n]  BY <1>4, <3>1, KeyDecides
    <3>3. c2[KeyIn(m2, n2)] = x  BY <1>2, <2>1
    <3> QED BY <3>1, <3>2, <3>3 DEF EntryOf
  <2>2. CASE KeyIn(m2, n2) # key
    <3>1. KeyIn(m2, n2) \in DOMAIN c /\ c2[KeyIn(m2, n2)] = c[KeyIn(m2, n2)]
      BY <1>2, <1>4, <2>2
    <3> QED BY <1>4, <3>1 DEF GoodCache
  <2> QED BY <2>1, <2>2
<1> QED BY <1>3, <1>4 DEF GoodCache

-----------------------------------------------------------------------------
(* The invariant.                                                          *)

LEMMA InitInv == Init => CacheInv
<1> SUFFICES ASSUME Init  PROVE CacheInv  OBVIOUS
<1>1. StateOK  BY NodesAssumption DEF Init, StateOK
<1>2. ASSUME NEW e \in Evaluators  PROVE EvaluatorSound(e)
  BY BeginSound DEF Init, EvaluatorSound
<1>3. GoodCache(cache)  BY DEF Init, GoodCache, NoMap
<1> QED BY <1>1, <1>2, <1>3, CacheGood DEF CacheInv

(* What a step of one evaluator leaves alone. *)
Elsewhere(e) ==
  \A x \in Evaluators : x # e =>
    /\ stack'[x] = stack[x] /\ capture'[x] = capture[x] /\ script'[x] = script[x]
    /\ result'[x] = result[x] /\ echoed'[x] = echoed[x]

LEMMA InvOf ==
  ASSUME CacheInv, NEW e \in Evaluators, Elsewhere(e), StateOK', GoodCache(cache'),
         Sound(stack'[e], capture'[e], script'[e], result'[e], echoed'[e])
  PROVE  CacheInv'
<1>1. ASSUME NEW x \in Evaluators
      PROVE  Sound(stack'[x], capture'[x], script'[x], result'[x], echoed'[x])
  <2>1. CASE x = e  BY <2>1
  <2>2. CASE x # e
    <3>1. Sound(stack[x], capture[x], script[x], result[x], echoed[x])
      BY DEF CacheInv, EvaluatorSound
    <3>2. /\ stack'[x] = stack[x] /\ capture'[x] = capture[x] /\ script'[x] = script[x]
          /\ result'[x] = result[x] /\ echoed'[x] = echoed[x]
      BY <2>2 DEF Elsewhere
    <3> QED BY <3>1, <3>2
  <2> QED BY <2>1, <2>2
<1>2. (\A x \in Evaluators : EvaluatorSound(x))'  BY <1>1 DEF EvaluatorSound
<1> QED BY <1>2, CacheGood DEF CacheInv

(* A pass is under way: what its script is. *)
LEMMA Underway ==
  ASSUME CacheInv, NEW e \in Evaluators, stack[e] # << >>
  PROVE  /\ Sound(stack[e], capture[e], script[e], result[e], echoed[e])
         /\ script[e] # None /\ result[e] = None /\ Mode(e) \in Modes /\ Mode(e) = script[e].mode
<1>1. Sound(stack[e], capture[e], script[e], result[e], echoed[e])
  BY DEF CacheInv, EvaluatorSound
<1>2. script[e] # None /\ result[e] = None  BY <1>1 DEF Sound
<1>3. script[e] \in Scripts[e]  BY <1>2 DEF CacheInv, StateOK
<1>4. script[e].mode \in {"minuend", "plain"}  BY <1>3, NodesAssumption
<1> QED BY <1>1, <1>2, <1>4 DEF Mode, Modes

LEMMA EvaluateInv ==
  ASSUME CacheInv, NEW e \in Evaluators, Evaluate(e)
  PROVE  CacheInv'
<1>1. PICK s \in Scripts[e] : script' = [script EXCEPT ![e] = s]  BY DEF Evaluate
<1>2. StateOK  BY DEF CacheInv
<1>3. StateOK'  BY <1>1, <1>2 DEF StateOK, Evaluate
<1>4. Elsewhere(e)  BY <1>1, <1>2 DEF StateOK, Elsewhere, Evaluate
<1>5. GoodCache(cache')  BY CacheGood DEF CacheInv, Evaluate
<1>6. Sound(stack'[e], capture'[e], script'[e], result'[e], echoed'[e])
  <2>1. stack'[e] = << >> /\ result'[e] = None /\ echoed'[e] = << >> /\ capture'[e] = capture[e]
    BY <1>2 DEF StateOK, Evaluate
  <2>2. capture[e] = 0
    <3>1. Sound(stack[e], capture[e], script[e], result[e], echoed[e]) /\ stack[e] = << >>
      BY DEF CacheInv, EvaluatorSound, Evaluate
    <3> QED BY <3>1 DEF Sound, Collector
  <2> QED BY <2>1, <2>2, BeginSound
<1> QED BY <1>3, <1>4, <1>5, <1>6, InvOf

LEMMA GenerateInv ==
  ASSUME CacheInv, NEW e \in Evaluators, NEW kind \in {"render", "partial", "measure"},
         Generate(e, kind)
  PROVE  CacheInv'
<1>1. PICK list \in Requests(e, kind) :
        stack' = [stack EXCEPT ![e] = << Frame(None, list, FALSE, insideHull[e], capture[e]) >>]
  BY DEF Generate
<1>2. StateOK  BY DEF CacheInv
<1>3. StateOK'  BY <1>1, <1>2 DEF StateOK, Generate
<1>4. Elsewhere(e)  BY <1>1, <1>2 DEF StateOK, Elsewhere, Generate
<1>5. GoodCache(cache')  BY CacheGood DEF CacheInv, Generate
<1>6. script[e] # None /\ script[e] \in Scripts[e]  BY <1>2 DEF StateOK, Generate
<1>7. list \in Seq(Nodes)
  <2>1. script[e].list \in Seq(Nodes)  BY <1>6, NodesAssumption
  <2>2. Measured \subseteq Seq(Nodes) /\ Shown \subseteq Seq(Nodes)  BY NodesAssumption
  <2>3. CASE kind = "render"  BY <2>1, <2>3 DEF Requests
  <2>4. CASE kind = "measure"  BY <2>2, <2>4 DEF Requests
  <2>5. CASE kind = "partial"  BY <2>2, <2>5 DEF Requests
  <2> QED BY <2>3, <2>4, <2>5
<1>8. capture[e] = 0
  <2>1. Sound(stack[e], capture[e], script[e], result[e], echoed[e]) /\ stack[e] = << >>
    BY DEF CacheInv, EvaluatorSound, Generate
  <2> QED BY <2>1 DEF Sound, Collector
<1>9. Sound(stack'[e], capture'[e], script'[e], result'[e], echoed'[e])
  <2>1. PICK hull \in BOOLEAN : hull = insideHull[e]  BY <1>2 DEF StateOK
  <2>2. stack'[e] = << Frame(None, list, FALSE, hull, 0) >>
    BY <1>1, <1>2, <1>8, <2>1 DEF StateOK
  <2>3. capture'[e] = 0 /\ script'[e] = script[e] /\ result'[e] = None /\ echoed'[e] = << >>
    BY <1>2, <1>8 DEF StateOK, Generate
  <2>4. PICK s : s = << Frame(None, list, FALSE, hull, 0) >>  OBVIOUS
  <2>5. Sound(s, 0, script[e], None, << >>)  BY <1>6, <1>7, <2>4, PassSound
  <2> QED BY <2>2, <2>3, <2>4, <2>5
<1> QED BY <1>3, <1>4, <1>5, <1>9, InvOf

LEMMA HitInv ==
  ASSUME CacheInv, NEW e \in Evaluators, Hit(e)
  PROVE  CacheInv'
<1>1. StateOK /\ stack[e] # << >>  BY DEF CacheInv, Hit, Entering
<1>2. /\ Sound(stack[e], capture[e], script[e], result[e], echoed[e])
      /\ script[e] # None /\ result[e] = None /\ Mode(e) \in Modes /\ Mode(e) = script[e].mode
  BY <1>1, Underway
<1>3. PICK n : n = Upcoming(e)  OBVIOUS
<1>4. PICK key : key = KeyIn(Mode(e), n)  OBVIOUS
<1>5. Cacheable(n) /\ key \in DOMAIN cache  BY <1>3, <1>4 DEF Hit, Hits
<1>6. PICK x : x = cache[key]  OBVIOUS
<1>7. PICK made : made = IF key \in DOMAIN producer[e] THEN producer[e][key] ELSE None
  OBVIOUS
<1>8. PICK stamped : stamped = IF pass[e] = "measure" THEN [parts |-> x.parts, nodes |-> NoMap]
                               ELSE Restamped(x.parts, n, idToNode[e], made)
  OBVIOUS
<1>9. /\ echoed' = [echoed EXCEPT ![e] = @ \o x.warnings]
      /\ stack' = [stack EXCEPT ![e] = Delivered(Heard(@, capture[e], x.warnings), stamped.parts)]
      /\ idToNode' = [idToNode EXCEPT ![e] = Extend(@, stamped.nodes)]
  BY <1>3, <1>4, <1>6, <1>7, <1>8 DEF Hit
<1>10. UNCHANGED << cache, script, pass, insideHull, warnEntry, capture, producer, result >>
  BY DEF Hit
<1>11. StateOK'  BY <1>1, <1>9, <1>10 DEF StateOK
<1>12. Elsewhere(e)  BY <1>1, <1>9, <1>10 DEF StateOK, Elsewhere
<1>13. GoodCache(cache')  BY <1>10, CacheGood DEF CacheInv
<1>14. PICK s : s = stack[e]  OBVIOUS
<1>15. s # << >> /\ ~ Finished(s[Len(s)]) /\ n = s[Len(s)].list[s[Len(s)].next]
  BY <1>1, <1>3, <1>14 DEF Hit, Entering, Upcoming, TopFrame, Depth
<1>16. Nested(s) /\ capture[e] = Collector(s) /\ IsList(echoed[e])
       /\ Steady(echoed[e]) = SaidTo(s, Len(s))
       /\ \A d \in 1 .. Len(s) : WholeFrame(s[d], script[e].mode)
  BY <1>2, <1>14, <1>15 DEF Sound
<1>17. n \in Nodes  BY <1>15, <1>16, Here
<1>18. /\ IsList(x.parts) /\ IsList(x.warnings)
       /\ Shapes(x.parts) = Draws[Mode(e)][n] /\ Steady(x.warnings) = Says[n]
  <2>1. GoodCache(cache)  BY CacheGood DEF CacheInv
  <2>2. EntryOf(Mode(e), n, x)  BY <1>2, <1>4, <1>5, <1>6, <1>17, <2>1 DEF GoodCache
  <2> QED BY <1>5, <1>6, <2>1, <2>2 DEF GoodCache, EntryOf
<1>19. PICK p : p = stamped.parts  OBVIOUS
<1>20. IsList(p) /\ Shapes(p) = Shapes(x.parts)
  <2>1. CASE pass[e] = "measure"  BY <1>8, <1>18, <1>19, <2>1
  <2>2. CASE pass[e] # "measure"
    <3>1. p = Restamped(x.parts, n, idToNode[e], made).parts  BY <1>8, <1>19, <2>2
    <3>2. PICK q : q = x.parts  OBVIOUS
    <3>3. IsList(q)  BY <1>18, <3>2
    <3> QED BY <3>1, <3>2, <3>3, RestampedIs
  <2> QED BY <2>1, <2>2
<1>21. PICK w : w = x.warnings  OBVIOUS
<1>22. PICK said : said = Join(echoed[e], w)  OBVIOUS
<1>23. echoed'[e] = said  BY <1>1, <1>9, <1>21, <1>22 DEF StateOK, Join
<1>24. PICK t : t = Received(s, capture[e], w, p)  OBVIOUS
<1>25. stack'[e] = t  BY <1>1, <1>9, <1>14, <1>19, <1>21, <1>24 DEF StateOK, Received
<1>26. IsList(said) /\ Steady(said) = Join(SaidTo(s, Len(s)), Says[n])
  <2>1. PICK before : before = echoed[e]  OBVIOUS
  <2>2. IsList(before) /\ IsList(w) /\ said = Join(before, w)
    BY <1>16, <1>18, <1>21, <1>22, <2>1
  <2>3. IsList(said) /\ Steady(said) = Join(Steady(before), Steady(w))
    BY ONLY <2>2, Joined, SteadyJoined
  <2> QED BY <1>16, <1>18, <1>21, <2>1, <2>3
<1>27. Sound(t, capture[e], script[e], None, said)
  <2>1. PICK sc : sc = script[e]  OBVIOUS
  <2>2. PICK c : c = capture[e]  OBVIOUS
  <2>3. /\ Nested(s) /\ s # << >> /\ ~ Finished(s[Len(s)]) /\ sc # None /\ sc.mode \in Modes
        /\ n = s[Len(s)].list[s[Len(s)].next] /\ IsList(w) /\ IsList(p)
        /\ Shapes(p) = Draws[sc.mode][n] /\ (s[Len(s)].keyed => Steady(w) = Says[n])
        /\ IsList(said) /\ Steady(said) = Join(SaidTo(s, Len(s)), Says[n])
        /\ c = Collector(s) /\ t = Received(s, c, w, p)
    BY <1>2, <1>15, <1>16, <1>18, <1>20, <1>21, <1>24, <1>26, <2>1, <2>2
  <2>4. \A d \in 1 .. Len(s) : WholeFrame(s[d], sc.mode)  BY <1>16, <2>1
  <2>5. Sound(t, c, sc, None, said)  BY ONLY <2>3, <2>4, HandedOver
  <2> QED BY <2>1, <2>2, <2>5
<1>28. Sound(stack'[e], capture'[e], script'[e], result'[e], echoed'[e])
  BY <1>2, <1>10, <1>23, <1>25, <1>27
<1> QED BY <1>11, <1>12, <1>13, <1>28, InvOf

LEMMA MissInv ==
  ASSUME CacheInv, NEW e \in Evaluators, Miss(e)
  PROVE  CacheInv'
<1>1. StateOK /\ stack[e] # << >>  BY DEF CacheInv, Miss, Entering
<1>2. Sound(stack[e], capture[e], script[e], result[e], echoed[e])  BY <1>1, Underway
<1>3. PICK n : n = Upcoming(e)  OBVIOUS
<1>4. PICK s : s = stack[e]  OBVIOUS
<1>5. PICK c : c = capture[e]  OBVIOUS
<1>6. PICK hull \in BOOLEAN : hull = insideHull[e]  BY <1>1 DEF StateOK
<1>7. stack'[e] = Append(s, Frame(n, Kids[n], Cacheable(n), hull, c))
  BY <1>1, <1>3, <1>4, <1>5, <1>6 DEF StateOK, Miss
<1>8. capture'[e] = IF Cacheable(n) THEN Len(s) + 1 ELSE c
  BY <1>1, <1>3, <1>4, <1>5 DEF StateOK, Miss, Depth
<1>9. /\ UNCHANGED << cache, script, pass, warnEntry, echoed, idToNode, producer, result >>
      /\ \A x \in Evaluators : x # e => stack'[x] = stack[x] /\ capture'[x] = capture[x]
  BY <1>1 DEF StateOK, Miss
<1>10. s # << >> /\ ~ Finished(s[Len(s)]) /\ n = s[Len(s)].list[s[Len(s)].next]
  BY <1>1, <1>3, <1>4 DEF Miss, Entering, Upcoming, TopFrame, Depth
<1>11. IsList(s)  BY <1>2, <1>4 DEF Sound, Nested
<1>12. StateOK'
  <2>1. /\ DOMAIN stack' = Evaluators /\ DOMAIN capture' = Evaluators
        /\ insideHull' \in [Evaluators -> BOOLEAN]
    BY <1>1 DEF StateOK, Miss
  <2>2. capture' \in [Evaluators -> Nat]
    <3>1. Depth(e) + 1 \in Nat  BY <1>4, <1>11, ListIs DEF Depth
    <3> QED BY <1>1, <3>1 DEF StateOK, Miss
  <2> QED BY <1>1, <1>9, <2>1, <2>2 DEF StateOK
<1>13. Elsewhere(e)  BY <1>9 DEF Elsewhere
<1>14. GoodCache(cache')  BY <1>9, CacheGood DEF CacheInv
<1>15. Sound(stack'[e], capture'[e], script'[e], result'[e], echoed'[e])
  <2>1. PICK t : t = stack'[e]  OBVIOUS
  <2>2. PICK c2 : c2 = capture'[e]  OBVIOUS
  <2>3. PICK sc : sc = script[e]  OBVIOUS
  <2>4. PICK r : r = result[e]  OBVIOUS
  <2>5. PICK said : said = echoed[e]  OBVIOUS
  <2>6. /\ Sound(s, c, sc, r, said) /\ hull \in BOOLEAN
        /\ t = Append(s, Frame(n, Kids[n], Cacheable(n), hull, c))
        /\ c2 = IF Cacheable(n) THEN Len(s) + 1 ELSE c
    BY <1>2, <1>4, <1>5, <1>7, <1>8, <2>1, <2>2, <2>3, <2>4, <2>5
  <2>7. Sound(t, c2, sc, r, said)  BY ONLY <1>10, <2>6, EnterSound
  <2> QED BY <1>9, <2>1, <2>2, <2>3, <2>4, <2>5, <2>7
<1> QED BY <1>12, <1>13, <1>14, <1>15, InvOf

LEMMA CompleteInv ==
  ASSUME CacheInv, NEW e \in Evaluators, Complete(e)
  PROVE  CacheInv'
<1>1. PICK n \in Nat : n = 1  OBVIOUS
<1>2. StateOK /\ Len(stack[e]) = n /\ Finished(stack[e][n])
  BY <1>1 DEF CacheInv, Complete, Depth, TopFrame
<1>3. stack[e] # << >>
  <2>1. n # 0  BY <1>1
  <2> QED BY <1>2, <2>1, EmptyList
<1>4. /\ Sound(stack[e], capture[e], script[e], result[e], echoed[e])
      /\ Mode(e) \in Modes /\ Mode(e) = script[e].mode
  BY <1>3, Underway
<1>5. StateOK'  BY <1>2 DEF StateOK, Complete
<1>6. Elsewhere(e)  BY <1>2 DEF StateOK, Elsewhere, Complete
<1>7. GoodCache(cache')  BY CacheGood DEF CacheInv, Complete
<1>8. Sound(stack'[e], capture'[e], script'[e], result'[e], echoed'[e])
  <2>1. PICK s : s = stack[e]  OBVIOUS
  <2>2. PICK sc : sc = script[e]  OBVIOUS
  <2>3. PICK m \in Modes : m = sc.mode  BY <1>4, <2>2
  <2>4. stack'[e] = << >> /\ capture'[e] = capture[e] /\ echoed'[e] = echoed[e]
    BY <1>2 DEF StateOK, Complete
  <2>5. PICK r2 : r2 = result'[e]  OBVIOUS
  <2>6. r2.script = sc /\ r2.parts = s[n].parts /\ r2.list = s[n].list
    BY <1>2, <2>1, <2>2, <2>5 DEF StateOK, Complete, TopFrame, Depth
  <2>7. PICK sc2 : sc2 = script'[e]  OBVIOUS
  <2>8. PICK c : c = capture[e]  OBVIOUS
  <2>9. PICK r : r = result[e]  OBVIOUS
  <2>10. PICK said : said = echoed[e]  OBVIOUS
  <2>11. Len(s) = n /\ Finished(s[n]) /\ Sound(s, c, sc, r, said)
    BY <1>2, <1>4, <2>1, <2>2, <2>8, <2>9, <2>10
  <2>12. Sound(<< >>, c, sc2, r2, said)  BY ONLY <1>1, <2>3, <2>6, <2>11, CompleteSound
  <2> QED BY <2>4, <2>5, <2>7, <2>8, <2>10, <2>12
<1> QED BY <1>5, <1>6, <1>7, <1>8, InvOf

(* The innermost frame of a deeper stack generates a node. *)
LEMMA Generating ==
  ASSUME CacheInv, NEW e \in Evaluators, Depth(e) > 1
  PROVE  /\ FrameOK(TopFrame(e)) /\ TopFrame(e).node \in Nodes /\ Depth(e) - 1 \in Nat
         /\ Depth(e) - 1 >= 1 /\ stack[e] # << >>
<1>1. PICK s : s = stack[e]  OBVIOUS
<1>2. Nested(s) /\ IsList(s)  BY <1>1 DEF CacheInv, EvaluatorSound, Sound, Nested
<1>3. Len(s) \in Nat /\ Len(s) > 1  BY <1>1, <1>2, ListIs DEF Depth
<1>4. PICK n \in Nat : n = Len(s) - 1 /\ n >= 1 /\ n + 1 = Len(s)  BY <1>3
<1>5. FrameOK(s[n + 1]) /\ FrameFollows(s[n + 1], s[n], n + 1)  BY <1>2, <1>4, Follows
<1>6. PICK up : up = s[n]  OBVIOUS
<1>7. PICK f : f = s[n + 1]  OBVIOUS
<1>8. FrameOK(up)
  <2>1. n \in 1 .. Len(s)  BY <1>4
  <2> QED BY <1>2, <1>6, <2>1 DEF Nested
<1>9. up.next <= Len(up.list) /\ f.node = up.list[up.next]
  BY <1>5, <1>6, <1>7 DEF FrameFollows
<1>10. up.list \in Seq(Nodes) /\ up.next \in 1 .. Len(up.list)
  <2>1. Len(up.list) \in Nat  BY <1>8, SequenceIsList DEF FrameOK
  <2> QED BY <1>8, <1>9, <2>1 DEF FrameOK
<1>11. f.node \in Nodes  BY <1>9, <1>10, ElementOfSeq
<1>12. TopFrame(e) = f /\ Depth(e) - 1 = n  BY <1>1, <1>4, <1>7 DEF TopFrame, Depth
<1>13. s # << >>  BY <1>3, EmptyList
<1> QED BY <1>1, <1>4, <1>5, <1>7, <1>11, <1>12, <1>13

LEMMA FailInv ==
  ASSUME CacheInv, NEW e \in Evaluators, Fail(e)
  PROVE  CacheInv'
<1>1. StateOK /\ stack[e] # << >>  BY DEF CacheInv, Fail
<1>2. Sound(stack[e], capture[e], script[e], result[e], echoed[e])  BY <1>1, Underway
<1>3. Sound(<< >>, stack[e][1].cap, None, result[e], echoed[e])
  <2>1. PICK s : s = stack[e]  OBVIOUS
  <2>2. PICK c : c = capture[e]  OBVIOUS
  <2>3. PICK sc : sc = script[e]  OBVIOUS
  <2>4. PICK r : r = result[e]  OBVIOUS
  <2>5. PICK said : said = echoed[e]  OBVIOUS
  <2>6. s # << >> /\ Sound(s, c, sc, r, said)
    BY <1>1, <1>2, <2>1, <2>2, <2>3, <2>4, <2>5
  <2>7. Sound(<< >>, s[1].cap, None, r, said)  BY ONLY <2>6, AbortSound
  <2> QED BY <2>1, <2>4, <2>5, <2>7
<1>4. /\ stack'[e] = << >> /\ capture'[e] = stack[e][1].cap /\ script'[e] = None
      /\ result'[e] = result[e] /\ echoed'[e] = echoed[e]
  BY <1>1 DEF StateOK, Fail
<1>5. Elsewhere(e)  BY <1>1 DEF StateOK, Elsewhere, Fail
<1>6. GoodCache(cache')  BY CacheGood DEF CacheInv, Fail
<1>7. StateOK'
  <2>1. stack[e][1].cap \in Nat
    <3>1. PICK n \in Nat : n = 1  OBVIOUS
    <3>2. Nested(stack[e]) /\ Len(stack[e]) \in Nat /\ Len(stack[e]) # 0
      BY <1>1, <1>2, ListIs, EmptyList, ListsEqual DEF Sound, Nested
    <3>3. n \in 1 .. Len(stack[e])  BY <3>1, <3>2
    <3>4. stack[e][n].cap = 0  BY <3>1, <3>2, <3>3 DEF Nested
    <3> QED BY <3>1, <3>4
  <2>2. capture' \in [Evaluators -> Nat]  BY <1>1, <2>1 DEF StateOK, Fail
  <2>3. insideHull' \in [Evaluators -> BOOLEAN] /\ warnEntry' \in [Evaluators -> Nodes \cup {None}]
    <3>1. CASE UNCHANGED << insideHull, warnEntry >>  BY <1>1, <3>1 DEF StateOK
    <3>2. CASE /\ Depth(e) > 1 /\ Finished(TopFrame(e))
               /\ insideHull' = [insideHull EXCEPT ![e] = TopFrame(e).hull]
               /\ warnEntry' = [warnEntry EXCEPT ![e] = TopFrame(e).node]
      <4>1. TopFrame(e).hull \in BOOLEAN /\ TopFrame(e).node \in Nodes
        BY <3>2, Generating DEF FrameOK
      <4> QED BY <1>1, <3>2, <4>1 DEF StateOK
    <3> QED BY <3>1, <3>2 DEF Fail
  <2>4. /\ DOMAIN script' = Evaluators /\ DOMAIN stack' = Evaluators
        /\ \A x \in Evaluators : script'[x] \in Scripts[x] \cup {None}
    BY <1>1 DEF StateOK, Fail
  <2>5. UNCHANGED << pass, echoed, idToNode, producer, result >>  BY DEF Fail
  <2> QED BY <1>1, <2>2, <2>3, <2>4, <2>5 DEF StateOK
<1> QED BY <1>3, <1>4, <1>5, <1>6, <1>7, InvOf

LEMMA FinishInv ==
  ASSUME CacheInv, NEW e \in Evaluators, Finish(e)
  PROVE  CacheInv'
<1>1. StateOK /\ Depth(e) > 1  BY DEF CacheInv, Finish
<1>2. FrameOK(TopFrame(e)) /\ stack[e] # << >>  BY <1>1, Generating
<1>3. PICK n \in Nat : n = Depth(e) - 1 /\ n >= 1  BY <1>1, Generating
<1>4. /\ Sound(stack[e], capture[e], script[e], result[e], echoed[e])
      /\ result[e] = None /\ Mode(e) \in Modes /\ Mode(e) = script[e].mode
  BY <1>2, Underway
<1>5. PICK s : s = stack[e]  OBVIOUS
<1>6. Len(s) = n + 1
  <2>1. Len(s) \in Nat  BY <1>4, <1>5, ListIs DEF Sound, Nested
  <2> QED BY <1>3, <1>5, <2>1 DEF Depth
<1>7. PICK f : f = s[n + 1]  OBVIOUS
<1>8. f = TopFrame(e) /\ Finished(f)  BY <1>5, <1>6, <1>7 DEF TopFrame, Depth, Finish
<1>9. PICK own : own = Own(f.node, f.hull)  OBVIOUS
<1>10. PICK heard : heard = IF f.keyed THEN Join(f.said, own) ELSE own  OBVIOUS
<1>11. PICK p : p = Generated(e, f.node, f.parts)  OBVIOUS
<1>12. PICK b : b = SubSeq(s, 1, n)  OBVIOUS
<1>13. PICK t : t = Received(b, f.cap, heard, p)  OBVIOUS
<1>14. PICK key : key = KeyIn(Mode(e), f.node)  OBVIOUS
<1>15. PICK x : x = [parts |-> p, warnings |-> heard]  OBVIOUS
<1>16. PICK m \in Modes : m = script[e].mode /\ m = Mode(e)  BY <1>4
<1>17. /\ insideHull' = [insideHull EXCEPT ![e] = f.hull]
       /\ capture' = [capture EXCEPT ![e] = f.cap]
       /\ echoed' = [echoed EXCEPT ![e] = @ \o own]
       /\ cache' = IF f.keyed THEN Extend(cache, Entry(key, x)) ELSE cache
  BY <1>8, <1>9, <1>10, <1>11, <1>14, <1>15 DEF Finish, Join
<1>18. stack' = [stack EXCEPT ![e] = t]
  <2>1. stack' = [stack EXCEPT ![e] =
           Delivered(Heard(SubSeq(stack[e], 1, Depth(e) - 1), f.cap,
                           IF f.keyed THEN f.said \o own ELSE own), p)]
    BY <1>8, <1>9, <1>11 DEF Finish
  <2>2. SubSeq(stack[e], 1, Depth(e) - 1) = b  BY <1>3, <1>5, <1>12
  <2>3. (IF f.keyed THEN f.said \o own ELSE own) = heard  BY <1>10 DEF Join
  <2> QED BY <1>13, <2>1, <2>2, <2>3 DEF Received
<1>19. /\ DOMAIN idToNode' = Evaluators /\ DOMAIN producer' = Evaluators
       /\ UNCHANGED << script, pass, warnEntry, result >>
  BY <1>1 DEF StateOK, Finish
<1>20. IsList(p) /\ Shapes(p) = Drawing(m, f.node, Shapes(f.parts))
  <2>1. n + 1 \in 1 .. Len(s)  BY <1>6
  <2>2. WholeFrame(f, m)  BY <1>4, <1>5, <1>7, <1>16, <2>1 DEF Sound
  <2>3. PICK parts : parts = f.parts  OBVIOUS
  <2>4. IsList(parts)  BY <2>2, <2>3 DEF WholeFrame
  <2>5. PICK k : k = f.node  OBVIOUS
  <2>6. p = Generated(e, k, parts) /\ m = Mode(e)  BY <1>11, <1>16, <2>3, <2>5
  <2>7. IsList(p) /\ Shapes(p) = Drawing(m, k, Shapes(parts))
    BY ONLY <2>4, <2>6, GeneratedIs
  <2> QED BY <2>3, <2>5, <2>7
<1>21. PICK sc : sc = script[e]  OBVIOUS
<1>22. PICK r : r = result[e]  OBVIOUS
<1>23. PICK said : said = echoed[e]  OBVIOUS
<1>24. PICK c : c = capture[e]  OBVIOUS
<1>25. Finishing(n, s, f, c, sc, m, r, said, own, heard, p, b, t)
  <2>1. n \in Nat /\ n >= 1  BY <1>3
  <2>2. m = sc.mode  BY <1>16, <1>21
  <2>3. Sound(s, c, sc, r, said)  BY <1>4, <1>5, <1>21, <1>22, <1>23, <1>24
  <2> QED BY <1>6, <1>7, <1>8, <1>9, <1>10, <1>12, <1>13, <1>20, <2>1, <2>2, <2>3 DEF Finishing
<1>26. /\ Sound(t, f.cap, sc, r, Join(said, own))
       /\ f.node \in Nodes /\ Shapes(p) = Draws[m][f.node] /\ IsList(heard)
       /\ f.keyed => Cacheable(f.node) /\ Steady(heard) = Says[f.node]
  BY ONLY <1>25, FinishSound
<1>27. Sound(stack'[e], capture'[e], script'[e], result'[e], echoed'[e])
  <2>1. stack'[e] = t /\ capture'[e] = f.cap /\ script'[e] = sc /\ result'[e] = r
    BY <1>1, <1>17, <1>18, <1>19, <1>21, <1>22 DEF StateOK
  <2>2. echoed'[e] = Join(said, own)  BY <1>1, <1>17, <1>23 DEF StateOK, Join
  <2> QED BY <1>26, <2>1, <2>2
<1>28. GoodCache(cache')
  <2>1. GoodCache(cache)  BY CacheGood DEF CacheInv
  <2>2. CASE f.keyed
    <3>1. PICK k \in Nodes : k = f.node  BY <1>26
    <3>2. Cacheable(k)  BY <1>26, <2>2, <3>1
    <3>3. IsList(x.parts) /\ IsList(x.warnings)  BY <1>15, <1>20, <1>26
    <3>4. EntryOf(m, k, x)  BY <1>15, <1>26, <2>2, <3>1 DEF EntryOf
    <3>5. PICK c1 : c1 = cache  OBVIOUS
    <3>6. PICK c2 : c2 = cache'  OBVIOUS
    <3>7. c2 = Extend(c1, Entry(KeyIn(m, k), x)) /\ GoodCache(c1)
      BY <1>14, <1>16, <1>17, <2>1, <2>2, <3>1, <3>5, <3>6
    <3>8. k \in Nodes /\ m \in Modes  OBVIOUS
    <3>9. GoodCache(c2)  BY ONLY <3>2, <3>3, <3>4, <3>7, <3>8, Stored
    <3> QED BY <3>6, <3>9
  <2>3. CASE ~ f.keyed  BY <1>17, <2>1, <2>3
  <2> QED BY <2>2, <2>3
<1>29. StateOK'
  <2>1. f.hull \in BOOLEAN  BY <1>2, <1>8 DEF FrameOK
  <2>2. f.cap \in Nat
    <3>1. FrameFollows(f, s[n], n + 1)
      <4>1. Nested(s)  BY <1>4, <1>5 DEF Sound
      <4> QED BY <1>3, <1>6, <1>7, <4>1, Follows
    <3>2. f.cap = IF s[n].keyed THEN (n + 1) - 1 ELSE 0  BY <3>1 DEF FrameFollows
    <3> QED BY <3>2
  <2>3. DOMAIN stack' = Evaluators /\ DOMAIN echoed' = Evaluators  BY <1>1, <1>17, <1>18 DEF StateOK
  <2>4. capture' \in [Evaluators -> Nat]  BY <1>1, <1>17, <2>2 DEF StateOK
  <2>5. insideHull' \in [Evaluators -> BOOLEAN]  BY <1>1, <1>17, <2>1 DEF StateOK
  <2> QED BY <1>1, <1>19, <2>3, <2>4, <2>5 DEF StateOK
<1>30. Elsewhere(e)  BY <1>1, <1>17, <1>18, <1>19 DEF StateOK, Elsewhere
<1> QED BY <1>27, <1>28, <1>29, <1>30, InvOf

LEMMA ClearInv ==
  ASSUME CacheInv, Clear
  PROVE  CacheInv'
<1>1. GoodCache(cache')  BY DEF Clear, GoodCache, NoMap
<1>2. StateOK'  BY DEF CacheInv, StateOK, Clear
<1>3. (\A e \in Evaluators : EvaluatorSound(e))'  BY DEF CacheInv, EvaluatorSound, Clear
<1> QED BY <1>1, <1>2, <1>3, CacheGood DEF CacheInv

LEMMA StutterInv ==
  ASSUME CacheInv, UNCHANGED vars
  PROVE  CacheInv'
<1>1. GoodCache(cache')  BY CacheGood DEF CacheInv, vars
<1>2. StateOK'  BY DEF CacheInv, StateOK, vars
<1>3. (\A e \in Evaluators : EvaluatorSound(e))'  BY DEF CacheInv, EvaluatorSound, vars
<1> QED BY <1>1, <1>2, <1>3, CacheGood DEF CacheInv

LEMMA NextInv == CacheInv /\ [Next]_vars => CacheInv'
<1> SUFFICES ASSUME CacheInv, [Next]_vars  PROVE CacheInv'  OBVIOUS
<1>1. ASSUME NEW e \in Evaluators, Evaluate(e)  PROVE CacheInv'  BY <1>1, EvaluateInv
<1>2. ASSUME NEW e \in Evaluators, NEW kind \in {"render", "partial", "measure"},
             Generate(e, kind)
      PROVE  CacheInv'
  BY <1>2, GenerateInv
<1>3. ASSUME NEW e \in Evaluators, Hit(e)  PROVE CacheInv'  BY <1>3, HitInv
<1>4. ASSUME NEW e \in Evaluators, Miss(e)  PROVE CacheInv'  BY <1>4, MissInv
<1>5. ASSUME NEW e \in Evaluators, Finish(e)  PROVE CacheInv'  BY <1>5, FinishInv
<1>6. ASSUME NEW e \in Evaluators, Complete(e)  PROVE CacheInv'  BY <1>6, CompleteInv
<1>7. ASSUME NEW e \in Evaluators, Fail(e)  PROVE CacheInv'  BY <1>7, FailInv
<1>8. CASE Clear  BY <1>8, ClearInv
<1>9. CASE UNCHANGED vars  BY <1>9, StutterInv
<1> QED BY <1>1, <1>2, <1>3, <1>4, <1>5, <1>6, <1>7, <1>8, <1>9 DEF Next

(* Every frame of every pass has the parts its nodes draw, every keyed one *)
(* has heard what they say, and every entry of the cache is whole, for any *)
(* number of evaluators and any trees, however passes are interleaved or   *)
(* cut short and whenever the cache is cleared.                            *)
THEOREM Invariance == Spec => []CacheInv
BY InitInv, NextInv, PTL DEF Spec

(* A pass that completes draws and says what it would without a cache      *)
(* (csg_generate.cpp, generateTreeImpl's hit, miss and store).             *)
THEOREM CacheUnnoticed == Spec => []PassesTransparent
<1>1. CacheInv => PassesTransparent
  <2> SUFFICES ASSUME CacheInv  PROVE PassesTransparent  OBVIOUS
  <2>1. ASSUME NEW e \in Evaluators, Completed(e)
        PROVE  /\ Shapes(result[e].parts) = Gather(Draws[result[e].script.mode], result[e].list)
               /\ Steady(echoed[e]) = Gather(Says, result[e].list)
    <3>1. Sound(stack[e], capture[e], script[e], result[e], echoed[e])
      BY DEF CacheInv, EvaluatorSound
    <3> QED BY <2>1, <3>1 DEF Sound, Completed
  <2> QED BY <2>1 DEF PassesTransparent, GeometryTransparent, WarningsTransparent
<1> QED BY <1>1, Invariance, PTL

(* What an aborted pass leaves in the cache is whole, and warnCapture      *)
(* never points into an activation that has gone (the scope guards of      *)
(* generateTreeImpl).                                                      *)
THEOREM AbortsHarmless == Spec => []AbortsLeaveNothing
<1>1. CacheInv => AbortsLeaveNothing
  <2> SUFFICES ASSUME CacheInv  PROVE AbortsLeaveNothing  OBVIOUS
  <2>1. ASSUME NEW e \in Evaluators, capture[e] # 0
        PROVE  capture[e] <= Depth(e) /\ stack[e][capture[e]].keyed
    <3>1. PICK s : s = stack[e]  OBVIOUS
    <3>2. IsList(s) /\ capture[e] = Collector(s)
      BY <3>1 DEF CacheInv, EvaluatorSound, Sound, Nested
    <3>3. capture[e] = Len(s) /\ s[Len(s)].keyed  BY <2>1, <3>2 DEF Collector
    <3>4. Len(s) \in Nat  BY <3>2, ListIs
    <3> QED BY <3>1, <3>3, <3>4 DEF Depth
  <2>2. CaptureAlive  BY <2>1 DEF CaptureAlive
  <2> QED BY <2>2 DEF CacheInv, AbortsLeaveNothing
<1> QED BY <1>1, Invariance, PTL

-----------------------------------------------------------------------------
(* IDs.                                                                    *)

(* Of a finite set of numbers every element has a rank, and every rank an  *)
(* element.                                                                *)
Lesser(F, x) == {j \in F : j < x}

LEMMA Ranked ==
  ASSUME NEW F, F \subseteq Nat, IsFiniteSet(F), NEW r \in Nat, r < Cardinality(F)
  PROVE  \E x \in F : Cardinality(Lesser(F, x)) = r
<1> DEFINE S == {k \in Nat : k < Cardinality(F) => \E x \in F : Cardinality(Lesser(F, x)) = k}
<1>1. Cardinality(F) \in Nat  BY FS_CardinalityType
<1>2. 0 \in S
  <2> SUFFICES ASSUME 0 < Cardinality(F)  PROVE \E x \in F : Cardinality(Lesser(F, x)) = 0
    OBVIOUS
  <2>1. F # {}  BY <1>1, FS_EmptySet
  <2>2. PICK x \in F : \A y \in F : x <= y  BY <2>1, LeastNumber
  <2>3. ASSUME NEW y \in F  PROVE ~ (y < x)
    <3>1. x <= y /\ x \in Nat /\ y \in Nat  BY <2>2
    <3> QED BY ONLY <3>1
  <2>4. Lesser(F, x) = {}  BY <2>3 DEF Lesser
  <2>5. Cardinality(Lesser(F, x)) = 0  BY <2>4, FS_EmptySet
  <2> QED BY <2>5
<1>3. ASSUME NEW k \in Nat, k \in S  PROVE k + 1 \in S
  <2> SUFFICES ASSUME k + 1 < Cardinality(F)
               PROVE  \E y \in F : Cardinality(Lesser(F, y)) = k + 1
    OBVIOUS
  <2>1. k < Cardinality(F)  BY <1>1
  <2>2. PICK x \in F : Cardinality(Lesser(F, x)) = k  BY <1>3, <2>1
  <2> DEFINE L == Lesser(F, x)
             M == L \cup {x}
             Rest == F \ M
  <2>3. L \in SUBSET F /\ x \notin L /\ x \in Nat  BY DEF Lesser
  <2>4. IsFiniteSet(L)  BY <2>3, FS_Subset
  <2>5. Cardinality(M) = k + 1
    <3> HIDE DEF L
    <3>1. Cardinality(L) = k  BY <2>2 DEF L
    <3> QED BY <2>3, <2>4, <3>1, FS_AddElement
  <2>6. Rest # {}
    <3>1. SUFFICES ASSUME Rest = {}  PROVE FALSE  OBVIOUS
    <3>2. F = M  BY <2>3, <3>1
    <3>3. Cardinality(F) = Cardinality(M)  BY <3>2
    <3> HIDE DEF M
    <3> QED BY <1>1, <2>5, <3>3
  <2>7. PICK y \in Rest : \A z \in Rest : y <= z
    <3>1. Rest \subseteq Nat  OBVIOUS
    <3> HIDE DEF Rest
    <3> QED BY <2>6, <3>1, LeastNumber
  <2>8. y \in F /\ y \in Nat /\ y # x /\ ~ (y < x)  BY <2>7 DEF Lesser
  <2>9. Lesser(F, y) = M
    <3>1. ASSUME NEW j \in F, j < y  PROVE j \in M
      <4>1. SUFFICES ASSUME j \notin M  PROVE FALSE  OBVIOUS
      <4>2. j \in Rest /\ j \in Nat  BY <4>1
      <4>3. y <= j  BY <2>7, <4>2
      <4> QED BY <2>8, <3>1, <4>2, <4>3
    <3>2. ASSUME NEW j \in M  PROVE j \in F /\ j < y
      <4>1. j \in F /\ j \in Nat /\ j <= x  BY <2>3 DEF Lesser
      <4> QED BY <2>3, <2>8, <4>1
    <3> HIDE DEF M
    <3> QED BY <3>1, <3>2 DEF Lesser
  <2>10. Cardinality(Lesser(F, y)) = k + 1
    <3> HIDE DEF M
    <3> QED BY <2>5, <2>9
  <2> QED BY <2>8, <2>10
<1> HIDE DEF S
<1>4. r \in S  BY <1>2, <1>3, Induction
<1> QED BY <1>4 DEF S

(* IDs that are reserved are IDs that nothing refers to. *)
LEMMA Reserved ==
  ASSUME NEW n \in Nat, CanReserve(n), NEW i \in 1 .. n
  PROVE  /\ Reserve(n)[i] \in Ids /\ Reserve(n)[i] \notin InUse
         /\ Cardinality(Lesser(Ids \ InUse, Reserve(n)[i])) = i - 1
<1> DEFINE free == Ids \ InUse
           P(id) == Cardinality(Lesser(free, id)) = i - 1
<1>1. free \subseteq Nat /\ IsFiniteSet(free)
  <2>1. MaxIds \in Nat  BY NodesAssumption
  <2>2. IsFiniteSet(1 .. MaxIds)  BY <2>1, FS_Interval
  <2>3. free \in SUBSET (1 .. MaxIds) /\ 1 .. MaxIds \subseteq Nat  BY DEF Ids
  <2>4. IsFiniteSet(free)
    <3> HIDE DEF free
    <3> QED BY <2>2, <2>3, FS_Subset
  <2> QED BY <2>3, <2>4
<1>2. Cardinality(free) >= n  BY DEF CanReserve
<1>3. i - 1 \in Nat /\ i - 1 < Cardinality(free)
  <2>1. Cardinality(free) \in Nat  BY <1>1, FS_CardinalityType
  <2> HIDE DEF free
  <2> QED BY <1>2, <2>1
<1>4. \E id \in free : P(id)
  <2>1. PICK r \in Nat : r = i - 1  BY <1>3
  <2> HIDE DEF free
  <2>2. \E id \in free : Cardinality(Lesser(free, id)) = r  BY <1>1, <1>3, <2>1, Ranked
  <2> QED BY <2>1, <2>2
<1>5. Reserve(n)[i] = CHOOSE id \in free : P(id)  BY DEF Reserve, Lesser
<1>6. Reserve(n)[i] \in free /\ P(Reserve(n)[i])
  <2> HIDE DEF free, P
  <2> QED BY <1>4, <1>5
<1> QED BY <1>6

LEMMA DistinctIs ==
  ASSUME NEW p, IsList(p)
  PROVE  /\ IsFiniteSet(Distinct(p)) /\ Distinct(p) \subseteq 1 .. Len(p)
         /\ \A i \in 1 .. Len(p) : \E j \in Distinct(p) : p[j].id = p[i].id
<1>1. PICK n \in Nat : n = Len(p)  BY ListIs
<1>2. Distinct(p) \in SUBSET (1 .. n)  BY <1>1 DEF Distinct
<1>3. IsFiniteSet(1 .. n)  BY FS_Interval
<1>4. IsFiniteSet(Distinct(p))  BY <1>2, <1>3, FS_Subset
<1>5. ASSUME NEW i \in 1 .. n  PROVE \E j \in Distinct(p) : p[j].id = p[i].id
  <2> DEFINE Like == {j \in 1 .. n : p[j].id = p[i].id}
  <2>1. Like \subseteq Nat /\ i \in Like  OBVIOUS
  <2>2. PICK j \in Like : \A k \in Like : j <= k
    <3> HIDE DEF Like
    <3> QED BY <2>1, LeastNumber
  <2>3. j \in 1 .. n /\ p[j].id = p[i].id  BY <2>2
  <2>4. ASSUME NEW k \in 1 .. (j - 1)  PROVE p[k].id # p[j].id
    <3>1. k \in 1 .. n /\ ~ (j <= k)  BY <2>3
    <3>2. k \notin Like  BY <2>2, <3>1
    <3> QED BY <2>3, <3>1, <3>2
  <2>5. j \in Distinct(p)  BY <1>1, <2>3, <2>4 DEF Distinct
  <2> QED BY <2>3, <2>5
<1> QED BY <1>1, <1>2, <1>4, <1>5

(* The new IDs of a cached body, and what they stand for. *)
LEMMA RestampedIds ==
  ASSUME NEW p, IsList(p), NEW n, NEW old, NEW made, CanReserve(Cardinality(Distinct(p))),
         NEW r, r = Restamped(p, n, old, made)
  PROVE  /\ DOMAIN r.nodes \subseteq Ids
         /\ IdsOf(r.parts) \subseteq DOMAIN r.nodes
         /\ \A f \in DOMAIN r.nodes : r.nodes[f] = n \/ \E id \in DOMAIN old : r.nodes[f] = old[id]
<1> DEFINE olds   == Distinct(p)
           fresh  == Reserve(Cardinality(olds))
           rank(i) == Cardinality({j \in olds : j <= i})
           new(id) == fresh[rank(CHOOSE i \in olds : p[i].id = id)]
           known(id) == id \in DOMAIN old /\ old[id] # made
           parts == [i \in 1 .. Len(p) |-> [id |-> new(p[i].id), shape |-> p[i].shape]]
           nodes == [f \in {new(p[i].id) : i \in olds} |->
                       LET i == CHOOSE j \in olds : new(p[j].id) = f
                       IN  IF known(p[i].id) THEN old[p[i].id] ELSE n]
<1>1. r = [parts |-> parts, nodes |-> nodes]  BY DEF Restamped
<1>2. r.parts = parts /\ r.nodes = nodes
  <2> HIDE DEF parts, nodes
  <2> QED BY <1>1
<1>3. IsFiniteSet(olds) /\ olds \subseteq 1 .. Len(p) /\ Len(p) \in Nat
      /\ \A i \in 1 .. Len(p) : \E j \in olds : p[j].id = p[i].id
  BY DistinctIs, ListIs
<1>4. Cardinality(olds) \in Nat  BY <1>3, FS_CardinalityType
<1>5. ASSUME NEW i \in olds  PROVE new(p[i].id) \in Ids
  <2>1. PICK k : k = CHOOSE j \in olds : p[j].id = p[i].id  OBVIOUS
  <2>2. k \in olds  BY <2>1
  <2>3. rank(k) \in 1 .. Cardinality(olds)
    <3> DEFINE upTo == {j \in olds : j <= k}
    <3>1. upTo \in SUBSET olds /\ k \in upTo
      <4>1. k \in Nat  BY <1>3, <2>2
      <4> QED BY <2>2, <4>1
    <3> HIDE DEF upTo, olds
    <3>2. IsFiniteSet(upTo) /\ Cardinality(upTo) <= Cardinality(olds)  BY <1>3, <3>1, FS_Subset
    <3>3. Cardinality(upTo) \in Nat /\ Cardinality(upTo) # 0
      BY <3>1, <3>2, FS_CardinalityType, FS_EmptySet
    <3>4. Cardinality(upTo) \in 1 .. Cardinality(olds)  BY <1>4, <3>2, <3>3
    <3> QED BY <3>4 DEF upTo
  <2>4. new(p[i].id) = fresh[rank(k)]  BY <2>1
  <2> HIDE DEF olds, rank, new
  <2>5. PICK c \in Nat : c = Cardinality(olds)  BY <1>4
  <2>6. PICK q \in 1 .. c : q = rank(k)  BY <2>3, <2>5
  <2>7. CanReserve(c)  BY <2>5 DEF olds
  <2>8. Reserve(c)[q] \in Ids  BY <2>7, Reserved
  <2> QED BY <2>4, <2>5, <2>6, <2>8
<1>6. DOMAIN nodes \subseteq Ids
  <2>1. DOMAIN nodes = {new(p[i].id) : i \in olds}  OBVIOUS
  <2> HIDE DEF nodes, new, olds
  <2> QED BY <1>5, <2>1
<1>7. IdsOf(parts) \subseteq DOMAIN nodes
  <2>1. DOMAIN nodes = {new(p[i].id) : i \in olds}  OBVIOUS
  <2>2. Len(parts) = Len(p) /\ \A i \in 1 .. Len(p) : parts[i].id = new(p[i].id)
    <3>1. \A i \in 1 .. Len(p) : parts[i].id = new(p[i].id)  OBVIOUS
    <3>2. parts = [i \in 1 .. Len(p) |-> parts[i]]  OBVIOUS
    <3> HIDE DEF parts
    <3>3. Len(parts) = Len(p)  BY <1>3, <3>2, FunctionIsList
    <3> QED BY <3>1, <3>3
  <2> HIDE DEF nodes, parts
  <2>3. ASSUME NEW i \in 1 .. Len(p)  PROVE new(p[i].id) \in DOMAIN nodes
    <3>1. PICK j \in olds : p[j].id = p[i].id  BY <1>3
    <3>2. new(p[j].id) = new(p[i].id)  BY <3>1
    <3> HIDE DEF new, olds
    <3> QED BY <2>1, <3>2
  <2> HIDE DEF new, olds
  <2> QED BY <2>2, <2>3 DEF IdsOf
<1>8. ASSUME NEW f \in DOMAIN nodes
      PROVE  nodes[f] = n \/ \E id \in DOMAIN old : nodes[f] = old[id]
  <2>1. PICK i : nodes[f] = IF known(p[i].id) THEN old[p[i].id] ELSE n  OBVIOUS
  <2> HIDE DEF nodes
  <2> QED BY <2>1
<1> HIDE DEF parts, nodes
<1> QED BY <1>2, <1>6, <1>7, <1>8

LEMMA JoinedIds ==
  ASSUME NEW p, NEW q, IsList(p), IsList(q)
  PROVE  IdsOf(Join(p, q)) = IdsOf(p) \cup IdsOf(q)
<1>1. PICK m \in Nat : m = Len(p)  BY ListIs
<1>2. PICK n \in Nat : n = Len(q)  BY ListIs
<1>3. PICK r : r = Join(p, q)  OBVIOUS
<1>4. Len(r) = m + n /\ \A i \in 1 .. m + n : r[i] = IF i <= m THEN p[i] ELSE q[i - m]
  BY <1>1, <1>2, <1>3, Joined
<1>5. ASSUME NEW i \in 1 .. m + n  PROVE r[i].id \in IdsOf(p) \cup IdsOf(q)
  <2>1. CASE i <= m
    <3>1. i \in 1 .. m /\ r[i] = p[i]  BY <1>4, <2>1
    <3> QED BY <1>1, <3>1 DEF IdsOf
  <2>2. CASE ~ (i <= m)
    <3>1. i - m \in 1 .. n /\ r[i] = q[i - m]  BY <1>4, <2>2
    <3> QED BY <1>2, <3>1 DEF IdsOf
  <2> QED BY <2>1, <2>2
<1>6. ASSUME NEW i \in 1 .. m  PROVE p[i].id \in IdsOf(r)
  <2>1. i \in 1 .. m + n /\ r[i] = p[i]  BY <1>4
  <2> QED BY <1>4, <2>1 DEF IdsOf
<1>7. ASSUME NEW i \in 1 .. n  PROVE q[i].id \in IdsOf(r)
  <2>1. m + i \in 1 .. m + n /\ ~ (m + i <= m) /\ (m + i) - m = i  OBVIOUS
  <2>2. r[m + i] = q[i]  BY <1>4, <2>1
  <2> QED BY <1>4, <2>1, <2>2 DEF IdsOf
<1>8. IdsOf(r) \subseteq IdsOf(p) \cup IdsOf(q)  BY <1>4, <1>5 DEF IdsOf
<1>9. IdsOf(p) \subseteq IdsOf(r) /\ IdsOf(q) \subseteq IdsOf(r)
  BY <1>1, <1>2, <1>6, <1>7 DEF IdsOf
<1> QED BY <1>3, <1>8, <1>9

LEMMA NoIds == IdsOf(<< >>) = {}
BY EmptyList DEF IdsOf

LEMMA GeneratedIds ==
  ASSUME NEW e, NEW n, NEW parts, Makes(n) => CanReserve(1),
         NEW p, p = Generated(e, n, parts)
  PROVE  /\ ~ Makes(n) => p = parts
         /\ Makes(n) => p[1].id \in Ids /\ IdsOf(p) = {p[1].id}
<1>1. ~ Makes(n) => p = parts  BY DEF Generated
<1>2. ASSUME Makes(n)  PROVE p[1].id \in Ids /\ IdsOf(p) = {p[1].id}
  <2> DEFINE shape == CASE Kind[n] = "hull" -> Shape("hull", "", Shapes(parts))
                        [] Kind[n] = "difference" -> Shape("cut", Mode(e), Shapes(parts))
                        [] OTHER -> Shape("leaf", Drawn[n], << >>)
             id == Reserve(1)[1]
  <2>1. p = << [id |-> id, shape |-> shape] >>  BY <1>2 DEF Generated
  <2> HIDE DEF shape, id
  <2>2. PICK k \in Nat : k = 1  OBVIOUS
  <2>3. Len(p) = k /\ p[k].id = id  BY <2>1, <2>2, Singleton
  <2>4. \A i \in 1 .. k : i = k  BY <2>2
  <2>5. k \in 1 .. k  BY <2>2
  <2>6. IdsOf(p) = {p[k].id}  BY <2>3, <2>4, <2>5 DEF IdsOf
  <2>7. id \in Ids
    <3>1. CanReserve(k)  BY <1>2, <2>2
    <3>2. Reserve(k)[k] \in Ids  BY <2>5, <3>1, Reserved
    <3> QED BY <2>2, <3>2 DEF id
  <2> QED BY <2>2, <2>3, <2>6, <2>7
<1> QED BY <1>1, <1>2

(* A node received: its parts join those of the innermost frame. *)
LEMMA ReceivedPlaced ==
  ASSUME NEW s, Nested(s), s # << >>, ~ Finished(s[Len(s)]), NEW m,
         \A d \in 1 .. Len(s) : WholeFrame(s[d], m),
         NEW c, NEW w, NEW p, IsList(p), IdsOf(p) \subseteq Ids, NEW sc, NEW kind, NEW old, NEW new,
         DOMAIN old \subseteq DOMAIN new, \A d \in 1 .. Len(s) : Placed(s[d], sc, kind, old),
         kind # "measure" => IdsOf(p) \subseteq DOMAIN new,
         NEW t, t = Received(s, c, w, p)
  PROVE  \A d \in 1 .. Len(t) : Placed(t[d], sc, kind, new)
<1>1. PICK n \in Nat : n = Len(s)  BY Here
<1>2. n >= 1 /\ s[n].next <= Len(s[n].list)  BY <1>1, Here
<1>3. IsList(s) /\ \A d \in 1 .. n : FrameOK(s[d])  BY <1>1 DEF Nested
<1>4. Len(t) = n /\ \A d \in 1 .. n :
        /\ SameStart(t[d], s[d])
        /\ t[d].parts = IF d = n THEN Join(s[d].parts, p) ELSE s[d].parts
  BY <1>1, <1>2, <1>3, ReceivedIs
<1>5. ASSUME NEW d \in 1 .. n  PROVE Placed(t[d], sc, kind, new)
  <2>1. Placed(s[d], sc, kind, old) /\ IsList(s[d].parts)  BY <1>1 DEF WholeFrame
  <2>2. t[d].list = s[d].list  BY <1>4 DEF SameStart
  <2>3. CASE d = n
    <3>1. PICK q : q = s[d].parts  OBVIOUS
    <3>2. t[d].parts = Join(q, p) /\ IsList(q)  BY <1>4, <2>1, <2>3, <3>1
    <3>3. IdsOf(t[d].parts) = IdsOf(q) \cup IdsOf(p)  BY <3>2, JoinedIds
    <3> QED BY <2>1, <2>2, <3>1, <3>3 DEF Placed
  <2>4. CASE d # n
    <3>1. t[d].parts = s[d].parts  BY <1>4, <2>4
    <3> QED BY <2>1, <2>2, <3>1 DEF Placed
  <2> QED BY <2>3, <2>4
<1> QED BY <1>4, <1>5

-----------------------------------------------------------------------------
(* The invariant of the IDs.                                               *)

LEMMA IdInit == Init => IdInv
<1> SUFFICES ASSUME Init  PROVE IdInv  OBVIOUS
<1>1. \A k \in DOMAIN cache : IdsOf(cache[k].parts) \subseteq Ids  BY DEF Init, NoMap
<1>2. ASSUME NEW e \in Evaluators
      PROVE  Clickable(stack[e], script[e], pass[e], idToNode[e], result[e])
  <2>1. stack[e] = << >> /\ script[e] = None /\ idToNode[e] = NoMap /\ result[e] = None
    BY DEF Init
  <2>2. DOMAIN NoMap = {} /\ Len(<< >>) = 0  BY EmptyList DEF NoMap
  <2> QED BY <2>1, <2>2 DEF Clickable
<1> QED BY <1>1, <1>2 DEF IdInv

OtherIds(e) ==
  \A x \in Evaluators : x # e =>
    /\ stack'[x] = stack[x] /\ script'[x] = script[x] /\ pass'[x] = pass[x]
    /\ idToNode'[x] = idToNode[x] /\ result'[x] = result[x]

LEMMA IdInvOf ==
  ASSUME IdInv, NEW e \in Evaluators, OtherIds(e),
         \A k \in DOMAIN cache' : IdsOf(cache'[k].parts) \subseteq Ids,
         Clickable(stack'[e], script'[e], pass'[e], idToNode'[e], result'[e])
  PROVE  IdInv'
<1>1. ASSUME NEW x \in Evaluators
      PROVE  Clickable(stack'[x], script'[x], pass'[x], idToNode'[x], result'[x])
  <2>1. CASE x = e  BY <2>1
  <2>2. CASE x # e
    <3>1. Clickable(stack[x], script[x], pass[x], idToNode[x], result[x])  BY DEF IdInv
    <3>2. /\ stack'[x] = stack[x] /\ script'[x] = script[x] /\ pass'[x] = pass[x]
          /\ idToNode'[x] = idToNode[x] /\ result'[x] = result[x]
      BY <2>2 DEF OtherIds
    <3> QED BY <3>1, <3>2
  <2> QED BY <2>1, <2>2
<1> QED BY <1>1 DEF IdInv

LEMMA EvaluateIds ==
  ASSUME CacheInv, IdInv, NEW e \in Evaluators, Evaluate(e)
  PROVE  IdInv'
<1>1. PICK s \in Scripts[e] : script' = [script EXCEPT ![e] = s]  BY DEF Evaluate
<1>2. StateOK  BY DEF CacheInv
<1>3. OtherIds(e)  BY <1>1, <1>2 DEF StateOK, OtherIds, Evaluate
<1>4. \A k \in DOMAIN cache' : IdsOf(cache'[k].parts) \subseteq Ids  BY DEF IdInv, Evaluate
<1>5. Clickable(stack'[e], script'[e], pass'[e], idToNode'[e], result'[e])
  <2>1. stack'[e] = << >> /\ idToNode'[e] = NoMap /\ result'[e] = None
    BY <1>2 DEF StateOK, Evaluate
  <2>2. DOMAIN NoMap = {} /\ Len(<< >>) = 0  BY EmptyList DEF NoMap
  <2> QED BY <2>1, <2>2 DEF Clickable, LeadsTo
<1> QED BY <1>3, <1>4, <1>5, IdInvOf

LEMMA GenerateIds ==
  ASSUME CacheInv, IdInv, NEW e \in Evaluators, NEW kind \in {"render", "partial", "measure"},
         Generate(e, kind)
  PROVE  IdInv'
<1>1. PICK list \in Requests(e, kind) :
        stack' = [stack EXCEPT ![e] = << Frame(None, list, FALSE, insideHull[e], capture[e]) >>]
  BY DEF Generate
<1>2. StateOK  BY DEF CacheInv
<1>3. OtherIds(e)  BY <1>1, <1>2 DEF StateOK, OtherIds, Generate
<1>4. \A k \in DOMAIN cache' : IdsOf(cache'[k].parts) \subseteq Ids  BY DEF IdInv, Generate
<1>5. AllBelow(list) \subseteq AllBelow(script[e].list)
  <2>1. CASE kind = "render"  BY <2>1 DEF Requests
  <2>2. CASE kind = "measure"  BY <2>2 DEF Requests
  <2>3. CASE kind = "partial"  BY <2>3 DEF Requests
  <2> QED BY <2>1, <2>2, <2>3
<1>6. Clickable(stack'[e], script'[e], pass'[e], idToNode'[e], result'[e])
  <2>1. PICK f : f = Frame(None, list, FALSE, insideHull[e], capture[e])  OBVIOUS
  <2>2. PICK s : s = stack'[e]  OBVIOUS
  <2>3. s = << f >>  BY <1>1, <1>2, <2>1, <2>2 DEF StateOK
  <2>4. f.parts = << >> /\ f.list = list  BY <2>1 DEF Frame
  <2>5. PICK n \in Nat : n = 1  OBVIOUS
  <2>6. Len(s) = n /\ s[n] = f  BY <2>3, <2>5, Singleton
  <2>7. Placed(f, script[e], kind, idToNode[e])  BY <1>5, <2>4, NoIds DEF Placed
  <2>8. \A d \in 1 .. n : d = n  BY <2>5
  <2>9. \A d \in 1 .. Len(s) : Placed(s[d], script[e], kind, idToNode[e])  BY <2>6, <2>7, <2>8
  <2>10. /\ script'[e] = script[e] /\ pass'[e] = kind /\ idToNode'[e] = idToNode[e]
         /\ result'[e] = None
    BY <1>2 DEF StateOK, Generate
  <2>11. Clickable(stack[e], script[e], pass[e], idToNode[e], result[e])  BY DEF IdInv
  <2> QED BY <2>2, <2>9, <2>10, <2>11 DEF Clickable
<1> QED BY <1>3, <1>4, <1>6, IdInvOf

(* The node that a pass has come to is one of the script's. *)
LEMMA Ours ==
  ASSUME NEW s, Nested(s), s # << >>, ~ Finished(s[Len(s)]), NEW sc, NEW kind, NEW nodes,
         Placed(s[Len(s)], sc, kind, nodes), NEW n, n = s[Len(s)].list[s[Len(s)].next]
  PROVE  n \in Nodes /\ Below[n] \subseteq AllBelow(sc.list) /\ n \in AllBelow(sc.list)
<1>1. PICK f : f = s[Len(s)]  OBVIOUS
<1>2. n \in Nodes /\ f.next <= Len(f.list) /\ Len(s) \in Nat /\ Len(s) >= 1  BY <1>1, Here
<1>3. FrameOK(f)
  <2>1. Len(s) \in 1 .. Len(s)  BY <1>2
  <2> QED BY <1>1, <2>1 DEF Nested
<1>4. f.next \in 1 .. Len(f.list)
  <2>1. Len(f.list) \in Nat  BY <1>3, SequenceIsList DEF FrameOK
  <2> QED BY <1>2, <1>3, <2>1 DEF FrameOK
<1>5. Below[n] \subseteq AllBelow(f.list)  BY <1>1, <1>4 DEF AllBelow
<1>6. n \in Below[n]  BY <1>2, BelowIs
<1>7. AllBelow(f.list) \subseteq AllBelow(sc.list)  BY <1>1 DEF Placed
<1> QED BY <1>2, <1>5, <1>6, <1>7

LEMMA MissIds ==
  ASSUME CacheInv, IdInv, NEW e \in Evaluators, Miss(e)
  PROVE  IdInv'
<1>1. StateOK /\ stack[e] # << >>  BY DEF CacheInv, Miss, Entering
<1>2. Sound(stack[e], capture[e], script[e], result[e], echoed[e])  BY <1>1, Underway
<1>3. PICK k : k = Upcoming(e)  OBVIOUS
<1>4. PICK s : s = stack[e]  OBVIOUS
<1>5. Nested(s) /\ IsList(s)  BY <1>2, <1>4 DEF Sound, Nested
<1>6. s # << >> /\ ~ Finished(s[Len(s)]) /\ k = s[Len(s)].list[s[Len(s)].next]
  BY <1>1, <1>3, <1>4 DEF Miss, Entering, Upcoming, TopFrame, Depth
<1>7. PICK n \in Nat : n = Len(s) /\ n >= 1  BY <1>5, <1>6, Here
<1>8. PICK f : f = Frame(k, Kids[k], Cacheable(k), insideHull[e], capture[e])  OBVIOUS
<1>9. PICK t : t = stack'[e]  OBVIOUS
<1>10. t = Push(s, f)  BY <1>1, <1>3, <1>4, <1>8, <1>9 DEF StateOK, Miss, Push
<1>11. Len(t) = n + 1 /\ t[n + 1] = f /\ \A d \in 1 .. n : t[d] = s[d]
  BY <1>5, <1>7, <1>10, Pushed
<1>12. Clickable(s, script[e], pass[e], idToNode[e], result[e])  BY <1>4 DEF IdInv
<1>13. \A d \in 1 .. n : Placed(s[d], script[e], pass[e], idToNode[e])  BY <1>7, <1>12 DEF Clickable
<1>14. k \in Nodes /\ Below[k] \subseteq AllBelow(script[e].list)
  <2>1. n \in 1 .. n  BY <1>7
  <2>2. Placed(s[Len(s)], script[e], pass[e], idToNode[e])  BY <1>7, <1>13, <2>1
  <2> QED BY <1>5, <1>6, <2>2, Ours
<1>15. Placed(f, script[e], pass[e], idToNode[e])
  <2>1. f.parts = << >> /\ f.list = Kids[k]  BY <1>8 DEF Frame
  <2>2. AllBelow(Kids[k]) \subseteq Below[k]
    <3>1. Below[k] = {k} \cup UNION {Below[Kids[k][j]] : j \in 1 .. Len(Kids[k])}
      BY <1>14, BelowIs
    <3> QED BY <3>1 DEF AllBelow
  <2> QED BY <1>14, <2>1, <2>2, NoIds DEF Placed
<1>16. \A d \in 1 .. Len(t) : Placed(t[d], script[e], pass[e], idToNode[e])
  <2> SUFFICES ASSUME NEW d \in 1 .. n + 1
               PROVE  Placed(t[d], script[e], pass[e], idToNode[e])
    BY <1>11
  <2>1. CASE d = n + 1  BY <1>11, <1>15, <2>1
  <2>2. CASE d # n + 1
    <3>1. d \in 1 .. n  BY <2>2
    <3> QED BY <1>11, <1>13, <3>1
  <2> QED BY <2>1, <2>2
<1>17. Clickable(stack'[e], script'[e], pass'[e], idToNode'[e], result'[e])
  <2>1. UNCHANGED << script, pass, idToNode, result >>  BY DEF Miss
  <2> QED BY <1>9, <1>12, <1>16, <2>1 DEF Clickable
<1>18. OtherIds(e)  BY <1>1 DEF StateOK, OtherIds, Miss
<1>19. \A d \in DOMAIN cache' : IdsOf(cache'[d].parts) \subseteq Ids  BY DEF IdInv, Miss
<1> QED BY <1>17, <1>18, <1>19, IdInvOf

LEMMA CompleteIds ==
  ASSUME CacheInv, IdInv, NEW e \in Evaluators, Complete(e)
  PROVE  IdInv'
<1>1. PICK n \in Nat : n = 1  OBVIOUS
<1>2. PICK f : f = stack[e][n]  OBVIOUS
<1>3. StateOK /\ Len(stack[e]) = n /\ TopFrame(e) = f
  BY <1>1, <1>2 DEF CacheInv, Complete, Depth, TopFrame
<1>4. stack[e] # << >>
  <2>1. n # 0  BY <1>1
  <2> QED BY <1>3, <2>1, EmptyList
<1>5. script[e] # None  BY <1>4, Underway
<1>6. Clickable(stack[e], script[e], pass[e], idToNode[e], result[e])  BY DEF IdInv
<1>7. Placed(f, script[e], pass[e], idToNode[e])
  <2>1. n \in 1 .. n  BY <1>1
  <2> QED BY <1>2, <1>3, <1>6, <2>1 DEF Clickable
<1>8. PICK r : r = result'[e]  OBVIOUS
<1>9. r.pass = pass[e] /\ r.script = script[e] /\ r.parts = f.parts
  BY <1>3, <1>8 DEF StateOK, Complete
<1>10. /\ stack'[e] = << >> /\ pass'[e] = pass[e] /\ idToNode'[e] = idToNode[e]
       /\ script'[e] = None \/ script'[e] = script[e]
  BY <1>3 DEF StateOK, Complete
<1>11. IdsOf(r.parts) \subseteq Ids
       /\ (r.pass # "measure" => LeadsTo(IdsOf(r.parts), idToNode[e], r.script))
  BY <1>5, <1>6, <1>7, <1>9 DEF Clickable, Placed, LeadsTo
<1>12. Clickable(<< >>, script'[e], pass[e], idToNode[e], r)
  <2>1. Len(<< >>) = 0  BY EmptyList
  <2>2. script'[e] # None => script'[e] = script[e]  BY <1>10
  <2> QED BY <1>6, <1>11, <2>1, <2>2 DEF Clickable
<1>13. Clickable(stack'[e], script'[e], pass'[e], idToNode'[e], result'[e])
  BY <1>8, <1>10, <1>12
<1>14. OtherIds(e)  BY <1>3 DEF StateOK, OtherIds, Complete
<1>15. \A k \in DOMAIN cache' : IdsOf(cache'[k].parts) \subseteq Ids  BY DEF IdInv, Complete
<1> QED BY <1>13, <1>14, <1>15, IdInvOf

LEMMA FailIds ==
  ASSUME CacheInv, IdInv, NEW e \in Evaluators, Fail(e)
  PROVE  IdInv'
<1>1. StateOK /\ stack[e] # << >>  BY DEF CacheInv, Fail
<1>2. result[e] = None  BY <1>1, Underway
<1>3. Clickable(stack[e], script[e], pass[e], idToNode[e], result[e])  BY DEF IdInv
<1>4. /\ stack'[e] = << >> /\ script'[e] = None /\ idToNode'[e] = idToNode[e]
      /\ result'[e] = None
  BY <1>1, <1>2 DEF StateOK, Fail
<1>5. Clickable(stack'[e], script'[e], pass'[e], idToNode'[e], result'[e])
  BY <1>3, <1>4, EmptyList DEF Clickable
<1>6. OtherIds(e)  BY <1>1 DEF StateOK, OtherIds, Fail
<1>7. \A k \in DOMAIN cache' : IdsOf(cache'[k].parts) \subseteq Ids  BY DEF IdInv, Fail
<1> QED BY <1>5, <1>6, <1>7, IdInvOf


(* More nodes become known, by IDs that lead to nodes of the script. *)
LEMMA ExtendedIds ==
  ASSUME NEW old, NEW new, NEW sc, LeadsTo(DOMAIN old, old, sc), DOMAIN old \subseteq Ids,
         LeadsTo(DOMAIN new, new, sc), DOMAIN new \subseteq Ids,
         NEW both, both = Extend(old, new)
  PROVE  /\ DOMAIN both = DOMAIN old \cup DOMAIN new /\ DOMAIN both \subseteq Ids
         /\ LeadsTo(DOMAIN both, both, sc)
<1>1. DOMAIN both = DOMAIN old \cup DOMAIN new  BY DEF Extend
<1>2. ASSUME NEW id \in DOMAIN both  PROVE both[id] \in AllBelow(sc.list)
  <2>1. both[id] = IF id \in DOMAIN new THEN new[id] ELSE old[id]  BY DEF Extend
  <2> QED BY <1>1, <2>1 DEF LeadsTo
<1> QED BY <1>1, <1>2 DEF LeadsTo

LEMMA HitIds ==
  ASSUME CacheInv, IdInv, NEW e \in Evaluators, Hit(e)
  PROVE  IdInv'
<1>1. StateOK /\ stack[e] # << >>  BY DEF CacheInv, Hit, Entering
<1>2. /\ Sound(stack[e], capture[e], script[e], result[e], echoed[e])
      /\ script[e] # None /\ result[e] = None
  BY <1>1, Underway
<1>3. PICK n : n = Upcoming(e)  OBVIOUS
<1>4. PICK key : key = KeyIn(Mode(e), n)  OBVIOUS
<1>5. key \in DOMAIN cache  BY <1>3, <1>4 DEF Hit, Hits
<1>6. PICK parts : parts = cache[key].parts  OBVIOUS
<1>7. IsList(parts) /\ IdsOf(parts) \subseteq Ids
  BY <1>5, <1>6 DEF CacheInv, EntriesListed, IdInv
<1>8. PICK made : made = IF key \in DOMAIN producer[e] THEN producer[e][key] ELSE None
  OBVIOUS
<1>9. PICK old : old = idToNode[e]  OBVIOUS
<1>10. PICK stamped : stamped = IF pass[e] = "measure" THEN [parts |-> parts, nodes |-> NoMap]
                                ELSE Restamped(parts, n, old, made)
  OBVIOUS
<1>11. PICK w : w = cache[key].warnings  OBVIOUS
<1>12. /\ pass[e] = "measure" \/ CanReserve(Cardinality(Distinct(parts)))
       /\ stack' = [stack EXCEPT ![e] = Delivered(Heard(@, capture[e], w), stamped.parts)]
       /\ idToNode' = [idToNode EXCEPT ![e] = Extend(@, stamped.nodes)]
  BY <1>3, <1>4, <1>6, <1>8, <1>9, <1>10, <1>11 DEF Hit
<1>13. UNCHANGED << cache, script, pass, result >>  BY DEF Hit
<1>14. PICK s : s = stack[e]  OBVIOUS
<1>15. PICK c : c = capture[e]  OBVIOUS
<1>16. PICK p : p = stamped.parts  OBVIOUS
<1>17. PICK t : t = Received(s, c, w, p)  OBVIOUS
<1>18. PICK new : new = Extend(old, stamped.nodes)  OBVIOUS
<1>19. stack'[e] = t /\ idToNode'[e] = new
  BY <1>1, <1>9, <1>12, <1>14, <1>15, <1>16, <1>17, <1>18 DEF StateOK, Received
<1>20. s # << >> /\ ~ Finished(s[Len(s)]) /\ n = s[Len(s)].list[s[Len(s)].next]
  BY <1>1, <1>3, <1>14 DEF Hit, Entering, Upcoming, TopFrame, Depth
<1>21. PICK sc : sc = script[e]  OBVIOUS
<1>22. PICK kind : kind = pass[e]  OBVIOUS
<1>23. Nested(s) /\ \A d \in 1 .. Len(s) : WholeFrame(s[d], sc.mode)
  BY <1>2, <1>14, <1>20, <1>21 DEF Sound
<1>24. /\ DOMAIN old \subseteq Ids /\ LeadsTo(DOMAIN old, old, sc)
       /\ \A d \in 1 .. Len(s) : Placed(s[d], sc, kind, old)
  BY <1>2, <1>9, <1>14, <1>21, <1>22 DEF IdInv, Clickable
<1>25. n \in AllBelow(sc.list)
  <2>1. PICK d : d = Len(s)  OBVIOUS
  <2>2. d \in 1 .. Len(s)  BY <1>20, <1>23, <2>1, Here
  <2>3. Placed(s[Len(s)], sc, kind, old)  BY <1>24, <2>1, <2>2
  <2> QED BY <1>20, <1>23, <2>3, Ours
<1>26. /\ IsList(p) /\ IdsOf(p) \subseteq Ids
       /\ DOMAIN stamped.nodes \subseteq Ids /\ LeadsTo(DOMAIN stamped.nodes, stamped.nodes, sc)
       /\ kind # "measure" => IdsOf(p) \subseteq DOMAIN stamped.nodes
  <2>1. CASE kind = "measure"
    <3>1. p = parts /\ stamped.nodes = NoMap  BY <1>10, <1>16, <1>22, <2>1
    <3>2. DOMAIN NoMap = {}  BY DEF NoMap
    <3> QED BY <1>7, <2>1, <3>1, <3>2 DEF LeadsTo
  <2>2. CASE kind # "measure"
    <3>1. stamped = Restamped(parts, n, old, made) /\ CanReserve(Cardinality(Distinct(parts)))
      BY <1>10, <1>12, <1>22, <2>2
    <3>2. /\ DOMAIN stamped.nodes \subseteq Ids /\ IdsOf(p) \subseteq DOMAIN stamped.nodes
          /\ \A f \in DOMAIN stamped.nodes :
               stamped.nodes[f] = n \/ \E id \in DOMAIN old : stamped.nodes[f] = old[id]
      BY <1>7, <1>16, <3>1, RestampedIds
    <3>3. IsList(p)
      <4>1. p = Restamped(parts, n, old, made).parts  BY <1>16, <3>1
      <4> QED BY <1>7, <4>1, RestampedIs
    <3>4. LeadsTo(DOMAIN stamped.nodes, stamped.nodes, sc)  BY <1>24, <1>25, <3>2 DEF LeadsTo
    <3> QED BY <3>2, <3>3, <3>4
  <2> QED BY <2>1, <2>2
<1>27. /\ DOMAIN new = DOMAIN old \cup DOMAIN stamped.nodes /\ DOMAIN new \subseteq Ids
       /\ LeadsTo(DOMAIN new, new, sc)
  <2>1. PICK nodes : nodes = stamped.nodes  OBVIOUS
  <2> QED BY <1>18, <1>24, <1>26, <2>1, ExtendedIds
<1>28. \A d \in 1 .. Len(t) : Placed(t[d], sc, kind, new)
  <2>1. PICK m : m = sc.mode  OBVIOUS
  <2>2. /\ Nested(s) /\ s # << >> /\ ~ Finished(s[Len(s)])
        /\ IsList(p) /\ IdsOf(p) \subseteq Ids /\ DOMAIN old \subseteq DOMAIN new
        /\ kind # "measure" => IdsOf(p) \subseteq DOMAIN new
        /\ t = Received(s, c, w, p)
    BY <1>17, <1>20, <1>23, <1>26, <1>27
  <2>3. \A d \in 1 .. Len(s) : WholeFrame(s[d], m)  BY <1>23, <2>1
  <2>4. \A d \in 1 .. Len(s) : Placed(s[d], sc, kind, old)  BY <1>24
  <2> QED BY ONLY <2>2, <2>3, <2>4, ReceivedPlaced
<1>29. Clickable(stack'[e], script'[e], pass'[e], idToNode'[e], result'[e])
  BY <1>2, <1>13, <1>19, <1>21, <1>22, <1>27, <1>28 DEF Clickable
<1>30. OtherIds(e)  BY <1>1, <1>12, <1>13 DEF StateOK, OtherIds
<1>31. \A k \in DOMAIN cache' : IdsOf(cache'[k].parts) \subseteq Ids  BY <1>13 DEF IdInv
<1> QED BY <1>29, <1>30, <1>31, IdInvOf

(* A frame that has been left leaves the others as they were. *)
LEMMA PoppedOpen ==
  ASSUME NEW n \in Nat, n >= 1, NEW s, Nested(s), Len(s) = n + 1, NEW b, b = SubSeq(s, 1, n)
  PROVE  b # << >> /\ ~ Finished(b[Len(b)])
         /\ s[n + 1].node = b[Len(b)].list[b[Len(b)].next]
<1>1. Nested(b) /\ Len(b) = n /\ \A d \in 1 .. n : b[d] = s[d]
  <2>1. n \in Nat /\ n >= 1 /\ Nested(s) /\ Len(s) = n + 1 /\ b = SubSeq(s, 1, n)  OBVIOUS
  <2>2. Nested(b) /\ Len(b) = n  BY ONLY <2>1, PoppedNested
  <2>3. \A d \in 1 .. n : b[d] = s[d]  BY ONLY <2>1, PoppedNested
  <2> QED BY <2>2, <2>3
<1>2. n \in 1 .. n  OBVIOUS
<1>3. PICK up : up = s[n]  OBVIOUS
<1>4. b[Len(b)] = up  BY <1>1, <1>2, <1>3
<1>5. FrameFollows(s[n + 1], up, n + 1)  BY <1>3, Follows
<1>6. FrameOK(up)
  <2>1. n \in 1 .. Len(s)  BY <1>2
  <2> QED BY <1>3, <2>1 DEF Nested
<1>7. ~ Finished(up) /\ s[n + 1].node = up.list[up.next]
  <2>1. Len(up.list) \in Nat /\ up.next \in Nat  BY <1>6, SequenceIsList DEF FrameOK
  <2> QED BY <1>5, <2>1 DEF FrameFollows, Finished
<1>8. b # << >>  BY <1>1, EmptyList
<1> QED BY <1>4, <1>7, <1>8

LEMMA FinishIds ==
  ASSUME CacheInv, IdInv, NEW e \in Evaluators, Finish(e)
  PROVE  IdInv'
<1>1. StateOK /\ Depth(e) > 1  BY DEF CacheInv, Finish
<1>2. stack[e] # << >>  BY <1>1, Generating
<1>3. PICK n \in Nat : n = Depth(e) - 1 /\ n >= 1  BY <1>1, Generating
<1>4. Sound(stack[e], capture[e], script[e], result[e], echoed[e])
      /\ script[e] # None /\ result[e] = None
  BY <1>2, Underway
<1>5. PICK s : s = stack[e]  OBVIOUS
<1>6. Nested(s) /\ IsList(s) /\ Len(s) = n + 1
  <2>1. Nested(s) /\ Len(s) \in Nat  BY <1>4, <1>5, ListIs DEF Sound, Nested
  <2> QED BY <1>3, <1>5, <2>1 DEF Depth, Nested
<1>7. PICK f : f = s[n + 1]  OBVIOUS
<1>8. f = TopFrame(e)  BY <1>5, <1>6, <1>7 DEF TopFrame, Depth
<1>9. PICK k : k = f.node  OBVIOUS
<1>10. PICK parts : parts = f.parts  OBVIOUS
<1>11. PICK p : p = Generated(e, k, parts)  OBVIOUS
<1>12. PICK own : own = Own(k, f.hull)  OBVIOUS
<1>13. PICK heard : heard = IF f.keyed THEN f.said \o own ELSE own  OBVIOUS
<1>14. PICK b : b = SubSeq(s, 1, n)  OBVIOUS
<1>15. PICK c : c = f.cap  OBVIOUS
<1>16. PICK t : t = Received(b, c, heard, p)  OBVIOUS
<1>17. PICK key : key = KeyIn(Mode(e), k)  OBVIOUS
<1>18. PICK x : x = [parts |-> p, warnings |-> heard]  OBVIOUS
<1>19. PICK old : old = idToNode[e]  OBVIOUS
<1>20. PICK new : new = idToNode'[e]  OBVIOUS
<1>21. PICK sc : sc = script[e]  OBVIOUS
<1>22. PICK kind : kind = pass[e]  OBVIOUS
<1>23. /\ Makes(k) => CanReserve(1)
       /\ stack' = [stack EXCEPT ![e] = Delivered(Heard(SubSeq(stack[e], 1, Depth(e) - 1), c, heard), p)]
       /\ idToNode' = IF Makes(k) /\ kind # "measure"
                      THEN [idToNode EXCEPT ![e] = Extend(@, Entry(p[1].id, k))]
                      ELSE idToNode
       /\ cache' = IF f.keyed THEN Extend(cache, Entry(key, x)) ELSE cache
       /\ UNCHANGED << script, pass, result >>
  BY <1>8, <1>9, <1>10, <1>11, <1>12, <1>13, <1>15, <1>17, <1>18, <1>22 DEF Finish
<1>24. SubSeq(stack[e], 1, Depth(e) - 1) = b  BY <1>3, <1>5, <1>14
<1>25. stack' = [stack EXCEPT ![e] = t]  BY <1>16, <1>23, <1>24 DEF Received
<1>26. /\ DOMAIN old \subseteq Ids /\ LeadsTo(DOMAIN old, old, sc)
       /\ \A d \in 1 .. n + 1 : Placed(s[d], sc, kind, old)
  BY <1>4, <1>5, <1>6, <1>19, <1>21, <1>22 DEF IdInv, Clickable
<1>27. \A d \in 1 .. n + 1 : WholeFrame(s[d], sc.mode)  BY <1>4, <1>5, <1>6, <1>21 DEF Sound
<1>28. Nested(b) /\ Len(b) = n /\ \A d \in 1 .. n : b[d] = s[d]
  <2>1. n \in Nat /\ n >= 1 /\ Nested(s) /\ Len(s) = n + 1 /\ b = SubSeq(s, 1, n)
    BY <1>3, <1>6, <1>14
  <2>2. Nested(b) /\ Len(b) = n  BY ONLY <2>1, PoppedNested
  <2>3. \A d \in 1 .. n : b[d] = s[d]  BY ONLY <2>1, PoppedNested
  <2> QED BY <2>2, <2>3
<1>29. b # << >> /\ ~ Finished(b[Len(b)]) /\ k = b[Len(b)].list[b[Len(b)].next]
  BY <1>3, <1>6, <1>7, <1>9, <1>14, PoppedOpen
<1>30. (\A d \in 1 .. Len(b) : WholeFrame(b[d], sc.mode))
       /\ \A d \in 1 .. Len(b) : Placed(b[d], sc, kind, old)
  <2>1. \A d \in 1 .. n : d \in 1 .. n + 1  OBVIOUS
  <2> QED BY <1>26, <1>27, <1>28, <2>1
<1>31. k \in AllBelow(sc.list)
  <2>1. PICK d : d = Len(b)  OBVIOUS
  <2>2. d \in 1 .. Len(b)  BY <1>3, <1>28, <2>1
  <2>3. Placed(b[Len(b)], sc, kind, old)  BY <1>30, <2>1, <2>2
  <2> QED BY <1>28, <1>29, <2>3, Ours
<1>32. IsList(parts) /\ Placed(f, sc, kind, old)
  <2>1. n + 1 \in 1 .. n + 1  OBVIOUS
  <2> QED BY <1>7, <1>10, <1>26, <1>27, <2>1 DEF WholeFrame
<1>33. IsList(p)
  <2>1. PICK m : m = Mode(e)  OBVIOUS
  <2> QED BY <1>11, <1>32, <2>1, GeneratedIs
<1>34. (~ Makes(k) => p = parts) /\ (Makes(k) => p[1].id \in Ids /\ IdsOf(p) = {p[1].id})
  BY <1>11, <1>23, GeneratedIds
<1>35. IdsOf(p) \subseteq Ids
  <2>1. CASE Makes(k)  BY <1>34, <2>1
  <2>2. CASE ~ Makes(k)  BY <1>10, <1>32, <1>34, <2>2 DEF Placed
  <2> QED BY <2>1, <2>2
<1>36. /\ DOMAIN old \subseteq DOMAIN new /\ DOMAIN new \subseteq Ids
       /\ LeadsTo(DOMAIN new, new, sc)
       /\ kind # "measure" => IdsOf(p) \subseteq DOMAIN new
  <2>1. CASE Makes(k) /\ kind # "measure"
    <3>1. PICK id : id = p[1].id  OBVIOUS
    <3>2. PICK one : one = Entry(id, k)  OBVIOUS
    <3>3. DOMAIN one = {id} /\ one[id] = k  BY <3>2 DEF Entry
    <3>4. DOMAIN one \subseteq Ids /\ LeadsTo(DOMAIN one, one, sc)
      BY <1>31, <1>34, <2>1, <3>1, <3>3 DEF LeadsTo
    <3>5. new = Extend(old, one)  BY <1>1, <1>19, <1>20, <1>23, <2>1, <3>1, <3>2 DEF StateOK
    <3>6. /\ DOMAIN new = DOMAIN old \cup DOMAIN one /\ DOMAIN new \subseteq Ids
          /\ LeadsTo(DOMAIN new, new, sc)
      BY <1>26, <3>4, <3>5, ExtendedIds
    <3> QED BY <1>34, <2>1, <3>1, <3>3, <3>6
  <2>2. CASE ~ (Makes(k) /\ kind # "measure")
    <3>1. new = old  BY <1>19, <1>20, <1>23, <2>2
    <3>2. kind # "measure" => IdsOf(p) \subseteq DOMAIN old
      BY <1>10, <1>32, <1>34, <2>2 DEF Placed
    <3> QED BY <1>26, <3>1, <3>2
  <2> QED BY <2>1, <2>2
<1>37. \A d \in 1 .. Len(t) : Placed(t[d], sc, kind, new)
  <2>1. PICK m : m = sc.mode  OBVIOUS
  <2>2. /\ Nested(b) /\ b # << >> /\ ~ Finished(b[Len(b)])
        /\ IsList(p) /\ IdsOf(p) \subseteq Ids /\ DOMAIN old \subseteq DOMAIN new
        /\ kind # "measure" => IdsOf(p) \subseteq DOMAIN new
        /\ t = Received(b, c, heard, p)
    BY <1>16, <1>28, <1>29, <1>33, <1>35, <1>36
  <2>3. \A d \in 1 .. Len(b) : WholeFrame(b[d], m)  BY <1>30, <2>1
  <2>4. \A d \in 1 .. Len(b) : Placed(b[d], sc, kind, old)  BY <1>30
  <2> QED BY ONLY <2>2, <2>3, <2>4, ReceivedPlaced
<1>38. stack'[e] = t /\ script'[e] = sc /\ pass'[e] = kind /\ result'[e] = None
  BY <1>1, <1>4, <1>21, <1>22, <1>23, <1>25 DEF StateOK
<1>39. Clickable(stack'[e], script'[e], pass'[e], idToNode'[e], result'[e])
  BY <1>20, <1>36, <1>37, <1>38 DEF Clickable
<1>40. OtherIds(e)  BY <1>1, <1>23, <1>25 DEF StateOK, OtherIds
<1>41. \A i \in DOMAIN cache' : IdsOf(cache'[i].parts) \subseteq Ids
  <2>1. \A i \in DOMAIN cache : IdsOf(cache[i].parts) \subseteq Ids  BY DEF IdInv
  <2>2. CASE f.keyed
    <3>1. cache' = Extend(cache, Entry(key, x))  BY <1>23, <2>2
    <3>2. /\ DOMAIN cache' = DOMAIN cache \cup {key} /\ cache'[key] = x
          /\ \A i \in DOMAIN cache : i # key => cache'[i] = cache[i]
      BY <3>1 DEF Extend, Entry
    <3>3. x.parts = p  BY <1>18
    <3> QED BY <1>35, <2>1, <3>2, <3>3
  <2>3. CASE ~ f.keyed  BY <1>23, <2>1, <2>3
  <2> QED BY <2>2, <2>3
<1> QED BY <1>39, <1>40, <1>41, IdInvOf

LEMMA ClearIds ==
  ASSUME IdInv, Clear
  PROVE  IdInv'
<1>1. \A k \in DOMAIN cache' : IdsOf(cache'[k].parts) \subseteq Ids  BY DEF Clear, NoMap
<1>2. \A e \in Evaluators : Clickable(stack'[e], script'[e], pass'[e], idToNode'[e], result'[e])
  BY DEF IdInv, Clear
<1> QED BY <1>1, <1>2 DEF IdInv

LEMMA StutterIds ==
  ASSUME IdInv, UNCHANGED vars
  PROVE  IdInv'
<1>1. \A k \in DOMAIN cache' : IdsOf(cache'[k].parts) \subseteq Ids  BY DEF IdInv, vars
<1>2. \A e \in Evaluators : Clickable(stack'[e], script'[e], pass'[e], idToNode'[e], result'[e])
  BY DEF IdInv, vars
<1> QED BY <1>1, <1>2 DEF IdInv

LEMMA IdNext == CacheInv /\ IdInv /\ [Next]_vars => IdInv'
<1> SUFFICES ASSUME CacheInv, IdInv, [Next]_vars  PROVE IdInv'  OBVIOUS
<1>1. ASSUME NEW e \in Evaluators, Evaluate(e)  PROVE IdInv'  BY <1>1, EvaluateIds
<1>2. ASSUME NEW e \in Evaluators, NEW kind \in {"render", "partial", "measure"},
             Generate(e, kind)
      PROVE  IdInv'
  BY <1>2, GenerateIds
<1>3. ASSUME NEW e \in Evaluators, Hit(e)  PROVE IdInv'  BY <1>3, HitIds
<1>4. ASSUME NEW e \in Evaluators, Miss(e)  PROVE IdInv'  BY <1>4, MissIds
<1>5. ASSUME NEW e \in Evaluators, Finish(e)  PROVE IdInv'  BY <1>5, FinishIds
<1>6. ASSUME NEW e \in Evaluators, Complete(e)  PROVE IdInv'  BY <1>6, CompleteIds
<1>7. ASSUME NEW e \in Evaluators, Fail(e)  PROVE IdInv'  BY <1>7, FailIds
<1>8. CASE Clear  BY <1>8, ClearIds
<1>9. CASE UNCHANGED vars  BY <1>9, StutterIds
<1> QED BY <1>1, <1>2, <1>3, <1>4, <1>5, <1>6, <1>7, <1>8, <1>9 DEF Next

(* The IDs of every part, wherever it is, are among those handed out, the  *)
(* parts of a pass for display are known to the map of its evaluator, and  *)
(* that map leads to nodes of the script it is evaluating.                 *)
THEOREM IdsPlaced == Spec => []IdInv
BY IdInit, IdNext, Invariance, PTL DEF Spec

(* Every variable keeps its type: flags, captures and warning entries of   *)
(* each evaluator, and the IDs of parts in the cache, on the stacks and in *)
(* what passes return.                                                     *)
THEOREM TypeCorrect == Spec => []TypeOK
<1>1. CacheInv /\ IdInv => TypeOK
  <2> SUFFICES ASSUME CacheInv, IdInv  PROVE TypeOK  OBVIOUS
  <2>1. ASSUME NEW parts, IdsOf(parts) \subseteq Ids  PROVE IsParts(parts)
    BY <2>1 DEF IdsOf, IsParts
  <2>2. \A k \in DOMAIN cache : IsParts(cache[k].parts)  BY <2>1 DEF IdInv
  <2>3. ASSUME NEW e \in Evaluators
        PROVE  /\ \A d \in 1 .. Depth(e) : IsParts(stack[e][d].parts)
               /\ DOMAIN idToNode[e] \subseteq Ids
               /\ result[e] # None => IsParts(result[e].parts)
    BY <2>1 DEF IdInv, Clickable, Placed, Depth
  <2> QED BY <2>2, <2>3 DEF CacheInv, TypeOK, IdsOK
<1> QED BY <1>1, Invariance, IdsPlaced, PTL

(* A click on any part of what a pass returned for display leads to a node *)
(* of the script of that pass, never to one of an earlier parse, though    *)
(* its body may have come from the cache (restampCachedIds).               *)
THEOREM ClicksLeadToSource == Spec => []ClickFindsSource
<1>1. IdInv => ClickFindsSource
  <2> SUFFICES ASSUME IdInv, NEW e \in Evaluators, Completed(e), result[e].pass # "measure",
                      NEW id \in IdsOf(result[e].parts)
               PROVE  id \in DOMAIN idToNode[e] /\ idToNode[e][id] \in AllBelow(result[e].script.list)
    BY DEF ClickFindsSource
  <2> QED BY DEF IdInv, Clickable, LeadsTo, Completed
<1> QED BY <1>1, IdsPlaced, PTL

-----------------------------------------------------------------------------
(* An ID for each part.                                                    *)

LEMMA ReservedApart ==
  ASSUME NEW n \in Nat, CanReserve(n), NEW i \in 1 .. n, NEW j \in 1 .. n,
         Reserve(n)[i] = Reserve(n)[j]
  PROVE  i = j
<1>1. PICK x : x = Cardinality(Lesser(Ids \ InUse, Reserve(n)[i]))  OBVIOUS
<1>2. x = i - 1  BY <1>1, Reserved
<1>3. x = j - 1  BY <1>1, Reserved
<1> QED BY ONLY <1>2, <1>3, i \in 1 .. n, j \in 1 .. n, n \in Nat

(* A body whose parts have an ID each comes out of the cache with an ID    *)
(* each, none of which anything refers to.                                 *)
LEMMA RestampedApart ==
  ASSUME NEW p, IsList(p), OneEach(p), NEW n, NEW old, NEW made,
         CanReserve(Cardinality(Distinct(p))), NEW q, q = Restamped(p, n, old, made).parts
  PROVE  IsList(q) /\ OneEach(q) /\ IdsOf(q) \cap InUse = {}
<1>1. PICK k \in Nat : k = Len(p)  BY ListIs
<1>2. Distinct(p) = 1 .. k
  <2>1. ASSUME NEW i \in 1 .. k, NEW j \in 1 .. (i - 1)  PROVE p[j].id # p[i].id
    <3>1. j \in 1 .. k /\ j # i  OBVIOUS
    <3> QED BY <1>1, <3>1 DEF OneEach
  <2> QED BY <1>1, <2>1 DEF Distinct
<1>3. Cardinality(1 .. k) = k
  <2>1. 1 \in Int /\ k \in Int  OBVIOUS
  <2>2. Cardinality(1 .. k) = IF 1 > k THEN 0 ELSE k - 1 + 1  BY <2>1, FS_Interval
  <2> QED BY <2>2
<1>4. CanReserve(k)  BY <1>2, <1>3
<1>5. PICK fresh : fresh = Reserve(k)  OBVIOUS
<1> DEFINE rank(i) == Cardinality({j \in 1 .. k : j <= i})
           at(id) == CHOOSE i \in 1 .. k : p[i].id = id
           new(id) == fresh[rank(at(id))]
<1>6. q = [i \in 1 .. k |-> [id |-> new(p[i].id), shape |-> p[i].shape]]
  BY <1>1, <1>2, <1>3, <1>5 DEF Restamped
<1>7. ASSUME NEW i \in 1 .. k  PROVE new(p[i].id) = fresh[i]
  <2>1. PICK a : a = at(p[i].id)  OBVIOUS
  <2>2. a \in 1 .. k /\ p[a].id = p[i].id  BY <2>1
  <2>3. a = i  BY <1>1, <2>2 DEF OneEach
  <2>4. {j \in 1 .. k : j <= i} = 1 .. i  OBVIOUS
  <2>5. Cardinality(1 .. i) = i
    <3>1. 1 \in Int /\ i \in Int /\ ~ (1 > i) /\ i - 1 + 1 = i  OBVIOUS
    <3>2. Cardinality(1 .. i) = IF 1 > i THEN 0 ELSE i - 1 + 1  BY <3>1, FS_Interval
    <3> QED BY <3>1, <3>2
  <2>6. rank(i) = i  BY <2>4, <2>5
  <2> HIDE DEF rank, at
  <2> QED BY <2>1, <2>3, <2>6
<1> HIDE DEF new
<1>8. \A i \in 1 .. k : q[i].id = fresh[i]  BY <1>6, <1>7
<1>9. IsList(q) /\ Len(q) = k
  <2>1. q = [i \in 1 .. k |-> q[i]]  BY <1>6
  <2> QED BY <2>1, FunctionIsList
<1>10. \A i, j \in 1 .. k : fresh[i] = fresh[j] => i = j  BY <1>4, <1>5, ReservedApart
<1>11. \A i \in 1 .. k : fresh[i] \notin InUse  BY <1>4, <1>5, Reserved
<1>12. OneEach(q)  BY <1>8, <1>9, <1>10 DEF OneEach
<1>13. IdsOf(q) \cap InUse = {}  BY <1>8, <1>9, <1>11 DEF IdsOf
<1> QED BY <1>9, <1>12, <1>13

LEMMA GeneratedApart ==
  ASSUME NEW e, NEW n, NEW parts, Makes(n), CanReserve(1), NEW p, p = Generated(e, n, parts)
  PROVE  OneEach(p) /\ IdsOf(p) \cap InUse = {}
<1> DEFINE shape == CASE Kind[n] = "hull" -> Shape("hull", "", Shapes(parts))
                      [] Kind[n] = "difference" -> Shape("cut", Mode(e), Shapes(parts))
                      [] OTHER -> Shape("leaf", Drawn[n], << >>)
           id == Reserve(1)[1]
<1>1. p = << [id |-> id, shape |-> shape] >>  BY DEF Generated
<1> HIDE DEF shape, id
<1>2. PICK k \in Nat : k = 1  OBVIOUS
<1>3. Len(p) = k /\ p[k].id = id  BY <1>1, <1>2, Singleton
<1>4. \A i \in 1 .. k : i = k  BY <1>2
<1>5. OneEach(p)  BY <1>3, <1>4 DEF OneEach
<1>6. id \notin InUse
  <2>1. CanReserve(k) /\ k \in 1 .. k  BY <1>2
  <2>2. Reserve(k)[k] \notin InUse  BY <2>1, Reserved
  <2> QED BY <1>2, <2>2 DEF id
<1>7. \A i \in 1 .. k : p[i].id = id  BY <1>3, <1>4
<1>8. IdsOf(p) \cap InUse = {}  BY <1>3, <1>6, <1>7 DEF IdsOf
<1> QED BY <1>5, <1>8

LEMMA JoinedApart ==
  ASSUME NEW p, NEW q, IsList(p), IsList(q), OneEach(p), OneEach(q), IdsOf(p) \cap IdsOf(q) = {},
         NEW r, r = Join(p, q)
  PROVE  OneEach(r)
<1>1. PICK m \in Nat : m = Len(p)  BY ListIs
<1>2. PICK n \in Nat : n = Len(q)  BY ListIs
<1>3. Len(r) = m + n /\ \A i \in 1 .. m + n : r[i] = IF i <= m THEN p[i] ELSE q[i - m]
  BY <1>1, <1>2, Joined
<1>4. ASSUME NEW i \in 1 .. m + n, i <= m  PROVE i \in 1 .. m /\ r[i] = p[i]
  BY <1>3, <1>4
<1>5. ASSUME NEW i \in 1 .. m + n, ~ (i <= m)  PROVE i - m \in 1 .. n /\ r[i] = q[i - m]
  BY <1>3, <1>5
<1>6. ASSUME NEW i \in 1 .. m, NEW j \in 1 .. n  PROVE p[i].id # q[j].id
  BY <1>1, <1>2 DEF IdsOf
<1>7. ASSUME NEW i \in 1 .. m + n, NEW j \in 1 .. m + n, r[i].id = r[j].id  PROVE i = j
  <2>1. CASE i <= m /\ j <= m
    <3>1. i \in 1 .. m /\ j \in 1 .. m /\ p[i].id = p[j].id  BY <1>4, <1>7, <2>1
    <3> QED BY <1>1, <3>1 DEF OneEach
  <2>2. CASE i <= m /\ ~ (j <= m)
    <3>1. i \in 1 .. m /\ j - m \in 1 .. n /\ p[i].id = q[j - m].id  BY <1>4, <1>5, <1>7, <2>2
    <3>2. PICK l : l = j - m  OBVIOUS
    <3> QED BY <1>6, <3>1, <3>2
  <2>3. CASE ~ (i <= m) /\ j <= m
    <3>1. j \in 1 .. m /\ i - m \in 1 .. n /\ p[j].id = q[i - m].id  BY <1>4, <1>5, <1>7, <2>3
    <3>2. PICK l : l = i - m  OBVIOUS
    <3> QED BY <1>6, <3>1, <3>2
  <2>4. CASE ~ (i <= m) /\ ~ (j <= m)
    <3>1. i - m \in 1 .. n /\ j - m \in 1 .. n /\ q[i - m].id = q[j - m].id
      BY <1>5, <1>7, <2>4
    <3>2. i - m = j - m  BY <1>2, <3>1 DEF OneEach
    <3> QED BY <3>2
  <2> QED BY <2>1, <2>2, <2>3, <2>4
<1> QED BY <1>3, <1>7 DEF OneEach

(* A body has no ID of the parts a pass has drawn by now.                  *)
Aside(s, p) == \A d \in 1 .. Len(s) : IdsOf(s[d].parts) \cap IdsOf(p) = {}

LEMMA ReceivedApart ==
  ASSUME NEW s, Nested(s), s # << >>, ~ Finished(s[Len(s)]), NEW m,
         \A d \in 1 .. Len(s) : WholeFrame(s[d], m), Apart(s),
         NEW c, NEW w, NEW p, IsList(p), OneEach(p), Aside(s, p),
         NEW t, t = Received(s, c, w, p)
  PROVE  Apart(t)
<1>1. PICK n \in Nat : n = Len(s)  BY Here
<1>2. n >= 1 /\ s[n].next <= Len(s[n].list) /\ n \in 1 .. n  BY <1>1, Here
<1>3. IsList(s) /\ \A d \in 1 .. n : FrameOK(s[d])  BY <1>1 DEF Nested
<1>4. Len(t) = n
      /\ \A d \in 1 .. n : t[d].parts = IF d = n THEN Join(s[d].parts, p) ELSE s[d].parts
  BY <1>1, <1>2, <1>3, ReceivedIs
<1>5. PICK q : q = s[n].parts  OBVIOUS
<1>6. IsList(q) /\ OneEach(q) /\ IdsOf(q) \cap IdsOf(p) = {}
  BY <1>1, <1>2, <1>5 DEF WholeFrame, Apart, Aside
<1>7. PICK r : r = Join(q, p)  OBVIOUS
<1>8. OneEach(r) /\ IdsOf(r) = IdsOf(q) \cup IdsOf(p)
  BY <1>6, <1>7, JoinedApart, JoinedIds
<1>9. t[n].parts = r /\ \A d \in 1 .. n : d # n => t[d].parts = s[d].parts
  BY <1>2, <1>4, <1>5, <1>7
<1>10. ASSUME NEW d \in 1 .. n  PROVE OneEach(t[d].parts)
  <2>1. CASE d = n  BY <1>8, <1>9, <2>1
  <2>2. CASE d # n
    <3>1. OneEach(s[d].parts)  BY <1>1 DEF Apart
    <3> QED BY <1>9, <2>2, <3>1
  <2> QED BY <2>1, <2>2
<1>11. ASSUME NEW d \in 1 .. n, d # n  PROVE IdsOf(t[d].parts) \cap IdsOf(r) = {}
  <2>1. PICK u : u = s[d].parts  OBVIOUS
  <2>2. IdsOf(u) \cap IdsOf(q) = {} /\ IdsOf(u) \cap IdsOf(p) = {}
    BY <1>1, <1>2, <1>5, <1>11, <2>1 DEF Apart, Aside
  <2>3. t[d].parts = u  BY <1>9, <1>11, <2>1
  <2> QED BY <1>8, <2>2, <2>3
<1>12. ASSUME NEW b \in 1 .. n, NEW d \in 1 .. n, b # d
       PROVE  IdsOf(t[b].parts) \cap IdsOf(t[d].parts) = {}
  <2>1. CASE b = n  BY <1>9, <1>11, <1>12, <2>1
  <2>2. CASE d = n  BY <1>9, <1>11, <1>12, <2>2
  <2>3. CASE b # n /\ d # n
    <3>1. IdsOf(s[b].parts) \cap IdsOf(s[d].parts) = {}  BY <1>1, <1>12 DEF Apart
    <3>2. t[b].parts = s[b].parts /\ t[d].parts = s[d].parts  BY <1>9, <2>3
    <3> QED BY <3>1, <3>2
  <2> QED BY <2>1, <2>2, <2>3
<1> QED BY <1>4, <1>10, <1>12 DEF Apart

(* IDs that are reserved are none of the parts a pass has drawn.           *)
LEMMA FreshAside ==
  ASSUME NEW e \in Evaluators, NEW s, s = stack[e], NEW b, NEW n, n = Len(b),
         \A d \in 1 .. n : d \in 1 .. Len(s) /\ b[d] = s[d],
         NEW p, IdsOf(p) \cap InUse = {}
  PROVE  Aside(b, p)
<1>1. ASSUME NEW d \in 1 .. n, NEW id \in IdsOf(b[d].parts)  PROVE id \in InUse
  <2>1. d \in 1 .. Len(stack[e]) /\ id \in IdsOf(stack[e][d].parts)  OBVIOUS
  <2>2. \E c \in 1 .. Len(stack[e]) : id \in IdsOf(stack[e][c].parts)  BY <2>1
  <2>3. id \in UNION {UNION {IdsOf(stack[x][c].parts) : c \in 1 .. Len(stack[x])} :
                        x \in Evaluators}
    BY <2>2
  <2> QED BY ONLY <2>3 DEF InUse
<1> QED BY <1>1 DEF Aside

(* The node a pass has come to lies below the list it is on.               *)
LEMMA ComesFrom ==
  ASSUME NEW s, Nested(s), s # << >>, ~ Finished(s[Len(s)]), OfStorable(s),
         NEW n, n = s[Len(s)].list[s[Len(s)].next]
  PROVE  n \in Nodes /\ Below[n] \subseteq Storable /\ n \in Storable
<1>1. PICK f : f = s[Len(s)]  OBVIOUS
<1>2. n \in Nodes /\ f.next <= Len(f.list) /\ Len(s) \in Nat /\ Len(s) >= 1  BY <1>1, Here
<1>3. Len(s) \in 1 .. Len(s)  BY <1>2
<1>4. FrameOK(f) /\ AllBelow(f.list) \subseteq Storable  BY <1>1, <1>3 DEF Nested, OfStorable
<1>5. f.next \in 1 .. Len(f.list)
  <2>1. Len(f.list) \in Nat  BY <1>4, SequenceIsList DEF FrameOK
  <2> QED BY <1>2, <1>4, <2>1 DEF FrameOK
<1>6. Below[n] \subseteq AllBelow(f.list)  BY <1>1, <1>5 DEF AllBelow
<1>7. n \in Below[n]  BY <1>2, BelowIs
<1> QED BY <1>2, <1>4, <1>6, <1>7

(* A node received leaves the lists as they are.                           *)
LEMMA ReceivedStorable ==
  ASSUME NEW s, Nested(s), s # << >>, ~ Finished(s[Len(s)]), OfStorable(s),
         NEW c, NEW w, NEW p, NEW t, t = Received(s, c, w, p)
  PROVE  OfStorable(t)
<1>1. PICK n \in Nat : n = Len(s)  BY Here
<1>2. n >= 1 /\ s[n].next <= Len(s[n].list)  BY <1>1, Here
<1>3. IsList(s) /\ \A d \in 1 .. n : FrameOK(s[d])  BY <1>1 DEF Nested
<1>4. Len(t) = n /\ \A d \in 1 .. n : SameStart(t[d], s[d])  BY <1>1, <1>2, <1>3, ReceivedIs
<1> QED BY <1>1, <1>4 DEF OfStorable, SameStart

-----------------------------------------------------------------------------
(* The invariant of the IDs that are told apart.                           *)

EntriesApart(c) == \A k \in DOMAIN c : OneEach(c[k].parts)

LEMMA SelectInit == Init => SelectInv
<1> SUFFICES ASSUME Init  PROVE SelectInv  OBVIOUS
<1>1. \A k \in DOMAIN cache : OneEach(cache[k].parts)  BY DEF Init, NoMap
<1>2. ASSUME NEW e \in Evaluators  PROVE Selectable(stack[e], pass[e], result[e])
  <2>1. stack[e] = << >> /\ result[e] = None  BY DEF Init
  <2>2. Len(<< >>) = 0  BY EmptyList
  <2> QED BY <2>1, <2>2 DEF Selectable, Apart, OfStorable
<1> QED BY <1>1, <1>2 DEF SelectInv

LEMMA SelectInvOf ==
  ASSUME SelectInv, NEW e \in Evaluators, OtherIds(e), EntriesApart(cache'),
         Selectable(stack'[e], pass'[e], result'[e])
  PROVE  SelectInv'
<1>1. ASSUME NEW x \in Evaluators  PROVE Selectable(stack'[x], pass'[x], result'[x])
  <2>1. CASE x = e  BY <2>1
  <2>2. CASE x # e
    <3>1. Selectable(stack[x], pass[x], result[x])  BY DEF SelectInv
    <3>2. stack'[x] = stack[x] /\ pass'[x] = pass[x] /\ result'[x] = result[x]
      BY <2>2 DEF OtherIds
    <3> QED BY <3>1, <3>2
  <2> QED BY <2>1, <2>2
<1> QED BY <1>1 DEF SelectInv, EntriesApart

(* Nothing is drawn by a stack that is empty. *)
LEMMA NothingDrawn ==
  ASSUME NEW kind, NEW r, r # None /\ r.pass # "measure" => IsList(r.parts) /\ OneEach(r.parts)
  PROVE  Selectable(<< >>, kind, r)
<1>1. Len(<< >>) = 0  BY EmptyList
<1> QED BY <1>1 DEF Selectable, Apart, OfStorable

LEMMA EvaluateSelect ==
  ASSUME CacheInv, SelectInv, NEW e \in Evaluators, Evaluate(e)
  PROVE  SelectInv'
<1>1. PICK s \in Scripts[e] : script' = [script EXCEPT ![e] = s]  BY DEF Evaluate
<1>2. StateOK  BY DEF CacheInv
<1>3. OtherIds(e)  BY <1>1, <1>2 DEF StateOK, OtherIds, Evaluate
<1>4. EntriesApart(cache')  BY DEF SelectInv, Evaluate, EntriesApart
<1>5. stack'[e] = << >> /\ result'[e] = None  BY <1>2 DEF StateOK, Evaluate
<1>6. Selectable(stack'[e], pass'[e], result'[e])  BY <1>5, NothingDrawn
<1> QED BY <1>3, <1>4, <1>6, SelectInvOf

LEMMA GenerateSelect ==
  ASSUME NoUnionStored, CacheInv, SelectInv, NEW e \in Evaluators,
         NEW kind \in {"render", "partial", "measure"}, Generate(e, kind)
  PROVE  SelectInv'
<1>1. PICK list \in Requests(e, kind) :
        stack' = [stack EXCEPT ![e] = << Frame(None, list, FALSE, insideHull[e], capture[e]) >>]
  BY DEF Generate
<1>2. StateOK  BY DEF CacheInv
<1>3. OtherIds(e)  BY <1>1, <1>2 DEF StateOK, OtherIds, Generate
<1>4. EntriesApart(cache')  BY DEF SelectInv, Generate, EntriesApart
<1>5. PICK f : f = Frame(None, list, FALSE, insideHull[e], capture[e])  OBVIOUS
<1>6. PICK s : s = stack'[e]  OBVIOUS
<1>7. s = << f >>  BY <1>1, <1>2, <1>5, <1>6 DEF StateOK
<1>8. f.parts = << >> /\ f.list = list  BY <1>5 DEF Frame
<1>9. PICK n \in Nat : n = 1  OBVIOUS
<1>10. Len(s) = n /\ s[n] = f  BY <1>7, <1>9, Singleton
<1>11. \A d \in 1 .. n : d = n  BY <1>9
<1>12. kind = "measure" => OfStorable(s)
  <2>1. kind = "measure" => list \in Measured  BY DEF Requests
  <2>2. kind = "measure" => AllBelow(list) \subseteq Storable  BY <2>1 DEF NoUnionStored
  <2> QED BY <1>8, <1>10, <1>11, <2>2 DEF OfStorable
<1>13. Apart(s)
  <2>1. OneEach(<< >>)  BY EmptyList DEF OneEach
  <2> QED BY <1>8, <1>10, <1>11, <2>1 DEF Apart
<1>14. pass'[e] = kind /\ result'[e] = None  BY <1>2 DEF StateOK, Generate
<1>15. Selectable(stack'[e], pass'[e], result'[e])  BY <1>6, <1>12, <1>13, <1>14 DEF Selectable
<1> QED BY <1>3, <1>4, <1>15, SelectInvOf

LEMMA CompleteSelect ==
  ASSUME CacheInv, SelectInv, NEW e \in Evaluators, Complete(e)
  PROVE  SelectInv'
<1>1. PICK n \in Nat : n = 1  OBVIOUS
<1>2. PICK f : f = stack[e][n]  OBVIOUS
<1>3. StateOK /\ Len(stack[e]) = n /\ TopFrame(e) = f
  BY <1>1, <1>2 DEF CacheInv, Complete, Depth, TopFrame
<1>4. stack[e] # << >>
  <2>1. n # 0  BY <1>1
  <2> QED BY <1>3, <2>1, EmptyList
<1>5. n \in 1 .. n  BY <1>1
<1>6. IsList(f.parts)
  <2>1. Sound(stack[e], capture[e], script[e], result[e], echoed[e])  BY <1>4, Underway
  <2> QED BY <1>2, <1>3, <1>5, <2>1 DEF Sound, WholeFrame
<1>7. pass[e] # "measure" => OneEach(f.parts)
  <2>1. Selectable(stack[e], pass[e], result[e])  BY DEF SelectInv
  <2> QED BY <1>2, <1>3, <1>5, <2>1 DEF Selectable, Apart
<1>8. PICK r : r = result'[e]  OBVIOUS
<1>9. r.pass = pass[e] /\ r.parts = f.parts  BY <1>3, <1>8 DEF StateOK, Complete
<1>10. stack'[e] = << >>  BY <1>3 DEF StateOK, Complete
<1>11. Selectable(stack'[e], pass'[e], result'[e])
  BY <1>6, <1>7, <1>8, <1>9, <1>10, NothingDrawn
<1>12. OtherIds(e)  BY <1>3 DEF StateOK, OtherIds, Complete
<1>13. EntriesApart(cache')  BY DEF SelectInv, Complete, EntriesApart
<1> QED BY <1>11, <1>12, <1>13, SelectInvOf

LEMMA FailSelect ==
  ASSUME CacheInv, SelectInv, NEW e \in Evaluators, Fail(e)
  PROVE  SelectInv'
<1>1. StateOK /\ stack[e] # << >>  BY DEF CacheInv, Fail
<1>2. result[e] = None  BY <1>1, Underway
<1>3. stack'[e] = << >> /\ result'[e] = None  BY <1>1, <1>2 DEF StateOK, Fail
<1>4. Selectable(stack'[e], pass'[e], result'[e])  BY <1>3, NothingDrawn
<1>5. OtherIds(e)  BY <1>1 DEF StateOK, OtherIds, Fail
<1>6. EntriesApart(cache')  BY DEF SelectInv, Fail, EntriesApart
<1> QED BY <1>4, <1>5, <1>6, SelectInvOf

LEMMA MissSelect ==
  ASSUME CacheInv, SelectInv, NEW e \in Evaluators, Miss(e)
  PROVE  SelectInv'
<1>1. StateOK /\ stack[e] # << >>  BY DEF CacheInv, Miss, Entering
<1>2. PICK k : k = Upcoming(e)  OBVIOUS
<1>3. PICK s : s = stack[e]  OBVIOUS
<1>4. Nested(s) /\ IsList(s)
  <2>1. Sound(stack[e], capture[e], script[e], result[e], echoed[e])  BY <1>1, Underway
  <2> QED BY <1>3, <2>1 DEF Sound, Nested
<1>5. s # << >> /\ ~ Finished(s[Len(s)]) /\ k = s[Len(s)].list[s[Len(s)].next]
  BY <1>1, <1>2, <1>3 DEF Miss, Entering, Upcoming, TopFrame, Depth
<1>6. PICK n \in Nat : n = Len(s) /\ n >= 1  BY <1>4, <1>5, Here
<1>7. PICK f : f = Frame(k, Kids[k], Cacheable(k), insideHull[e], capture[e])  OBVIOUS
<1>8. PICK t : t = stack'[e]  OBVIOUS
<1>9. t = Push(s, f)  BY <1>1, <1>2, <1>3, <1>7, <1>8 DEF StateOK, Miss, Push
<1>10. Len(t) = n + 1 /\ t[n + 1] = f /\ \A d \in 1 .. n : t[d] = s[d]
  BY <1>4, <1>6, <1>9, Pushed
<1>11. f.parts = << >> /\ f.list = Kids[k]  BY <1>7 DEF Frame
<1>12. Selectable(s, pass[e], result[e])  BY <1>3 DEF SelectInv
<1>13. ASSUME NEW d \in 1 .. n + 1, d # n + 1  PROVE d \in 1 .. n
  BY <1>13
<1>14. ASSUME OfStorable(s)  PROVE OfStorable(t)
  <2>1. k \in Nodes /\ Below[k] \subseteq Storable  BY <1>4, <1>5, <1>14, ComesFrom
  <2>2. AllBelow(Kids[k]) \subseteq Below[k]
    <3>1. Below[k] = {k} \cup UNION {Below[Kids[k][j]] : j \in 1 .. Len(Kids[k])}
      BY <2>1, BelowIs
    <3> QED BY <3>1 DEF AllBelow
  <2>3. ASSUME NEW d \in 1 .. n + 1  PROVE AllBelow(t[d].list) \subseteq Storable
    <3>1. CASE d = n + 1  BY <1>10, <1>11, <2>1, <2>2, <3>1
    <3>2. CASE d # n + 1  BY <1>6, <1>10, <1>13, <1>14, <3>2 DEF OfStorable
    <3> QED BY <3>1, <3>2
  <2> QED BY <1>10, <2>3 DEF OfStorable
<1>15. ASSUME Apart(s)  PROVE Apart(t)
  <2>1. OneEach(<< >>)  BY EmptyList DEF OneEach
  <2>2. ASSUME NEW d \in 1 .. n + 1  PROVE OneEach(t[d].parts)
    <3>1. CASE d = n + 1  BY <1>10, <1>11, <2>1, <3>1
    <3>2. CASE d # n + 1  BY <1>6, <1>10, <1>13, <1>15, <3>2 DEF Apart
    <3> QED BY <3>1, <3>2
  <2>3. IdsOf(t[n + 1].parts) = {}  BY <1>10, <1>11, NoIds
  <2>4. ASSUME NEW c \in 1 .. n + 1, NEW d \in 1 .. n + 1, c # d
        PROVE  IdsOf(t[c].parts) \cap IdsOf(t[d].parts) = {}
    <3>1. CASE c = n + 1  BY <2>3, <3>1
    <3>2. CASE d = n + 1  BY <2>3, <3>2
    <3>3. CASE c # n + 1 /\ d # n + 1
      BY <1>6, <1>10, <1>13, <1>15, <2>4, <3>3 DEF Apart
    <3> QED BY <3>1, <3>2, <3>3
  <2> QED BY <1>10, <2>2, <2>4 DEF Apart
<1>16. Selectable(stack'[e], pass'[e], result'[e])
  <2>1. UNCHANGED << pass, result >>  BY DEF Miss
  <2> QED BY <1>8, <1>12, <1>14, <1>15, <2>1 DEF Selectable
<1>17. OtherIds(e)  BY <1>1 DEF StateOK, OtherIds, Miss
<1>18. EntriesApart(cache')  BY DEF SelectInv, Miss, EntriesApart
<1> QED BY <1>16, <1>17, <1>18, SelectInvOf

LEMMA HitSelect ==
  ASSUME CacheInv, SelectInv, NEW e \in Evaluators, Hit(e)
  PROVE  SelectInv'
<1>1. StateOK /\ stack[e] # << >>  BY DEF CacheInv, Hit, Entering
<1>2. Sound(stack[e], capture[e], script[e], result[e], echoed[e]) /\ result[e] = None
  BY <1>1, Underway
<1>3. PICK n : n = Upcoming(e)  OBVIOUS
<1>4. PICK key : key = KeyIn(Mode(e), n)  OBVIOUS
<1>5. key \in DOMAIN cache  BY <1>3, <1>4 DEF Hit, Hits
<1>6. PICK parts : parts = cache[key].parts  OBVIOUS
<1>7. IsList(parts) /\ OneEach(parts)
  BY <1>5, <1>6 DEF CacheInv, EntriesListed, SelectInv
<1>8. PICK made : made = IF key \in DOMAIN producer[e] THEN producer[e][key] ELSE None
  OBVIOUS
<1>9. PICK old : old = idToNode[e]  OBVIOUS
<1>10. PICK stamped : stamped = IF pass[e] = "measure" THEN [parts |-> parts, nodes |-> NoMap]
                                ELSE Restamped(parts, n, old, made)
  OBVIOUS
<1>11. PICK w : w = cache[key].warnings  OBVIOUS
<1>12. /\ pass[e] = "measure" \/ CanReserve(Cardinality(Distinct(parts)))
       /\ stack' = [stack EXCEPT ![e] = Delivered(Heard(@, capture[e], w), stamped.parts)]
       /\ idToNode' = [idToNode EXCEPT ![e] = Extend(@, stamped.nodes)]
  BY <1>3, <1>4, <1>6, <1>8, <1>9, <1>10, <1>11 DEF Hit
<1>13. UNCHANGED << cache, script, pass, result >>  BY DEF Hit
<1>14. PICK s : s = stack[e]  OBVIOUS
<1>15. PICK c : c = capture[e]  OBVIOUS
<1>16. PICK p : p = stamped.parts  OBVIOUS
<1>17. PICK t : t = Received(s, c, w, p)  OBVIOUS
<1>18. stack'[e] = t  BY <1>1, <1>12, <1>14, <1>15, <1>16, <1>17 DEF StateOK, Received
<1>19. s # << >> /\ ~ Finished(s[Len(s)])
  BY <1>1, <1>14 DEF Hit, Entering, TopFrame, Depth
<1>20. PICK m : m = script[e].mode  OBVIOUS
<1>21. Nested(s) /\ \A d \in 1 .. Len(s) : WholeFrame(s[d], m)
  BY <1>2, <1>14, <1>20 DEF Sound
<1>22. Selectable(s, pass[e], result[e])  BY <1>14 DEF SelectInv
<1>23. Selectable(t, pass[e], result[e])
  <2>1. CASE pass[e] = "measure"
    <3>1. OfStorable(s)  BY <1>22, <2>1 DEF Selectable
    <3>2. OfStorable(t)  BY <1>17, <1>19, <1>21, <3>1, ReceivedStorable
    <3> QED BY <1>2, <2>1, <3>2 DEF Selectable
  <2>2. CASE pass[e] # "measure"
    <3>1. Apart(s)  BY <1>22, <2>2 DEF Selectable
    <3>2. p = Restamped(parts, n, old, made).parts /\ CanReserve(Cardinality(Distinct(parts)))
      BY <1>10, <1>12, <1>16, <2>2
    <3>3. IsList(p) /\ OneEach(p) /\ IdsOf(p) \cap InUse = {}  BY <1>7, <3>2, RestampedApart
    <3>4. PICK l : l = Len(s)  OBVIOUS
    <3>5. \A d \in 1 .. l : d \in 1 .. Len(s) /\ s[d] = s[d]  BY <3>4
    <3>6. Aside(s, p)  BY <1>14, <3>3, <3>4, <3>5, FreshAside
    <3>7. /\ Nested(s) /\ s # << >> /\ ~ Finished(s[Len(s)]) /\ Apart(s)
          /\ IsList(p) /\ OneEach(p) /\ Aside(s, p) /\ t = Received(s, c, w, p)
      BY <1>17, <1>19, <1>21, <3>1, <3>3, <3>6
    <3>8. \A d \in 1 .. Len(s) : WholeFrame(s[d], m)  BY <1>21
    <3>9. Apart(t)  BY ONLY <3>7, <3>8, ReceivedApart
    <3> QED BY <1>2, <2>2, <3>9 DEF Selectable
  <2> QED BY <2>1, <2>2
<1>24. Selectable(stack'[e], pass'[e], result'[e])  BY <1>13, <1>18, <1>23
<1>25. OtherIds(e)  BY <1>1, <1>12, <1>13 DEF StateOK, OtherIds
<1>26. EntriesApart(cache')  BY <1>13 DEF SelectInv, EntriesApart
<1> QED BY <1>24, <1>25, <1>26, SelectInvOf

LEMMA FinishSelect ==
  ASSUME CacheInv, SelectInv, NEW e \in Evaluators, Finish(e)
  PROVE  SelectInv'
<1>1. StateOK /\ Depth(e) > 1  BY DEF CacheInv, Finish
<1>2. stack[e] # << >>  BY <1>1, Generating
<1>3. PICK n \in Nat : n = Depth(e) - 1 /\ n >= 1  BY <1>1, Generating
<1>4. Sound(stack[e], capture[e], script[e], result[e], echoed[e]) /\ result[e] = None
  BY <1>2, Underway
<1>5. PICK s : s = stack[e]  OBVIOUS
<1>6. Nested(s) /\ IsList(s) /\ Len(s) = n + 1
  <2>1. Nested(s) /\ Len(s) \in Nat  BY <1>4, <1>5, ListIs DEF Sound, Nested
  <2> QED BY <1>3, <1>5, <2>1 DEF Depth, Nested
<1>7. PICK f : f = s[n + 1]  OBVIOUS
<1>8. f = TopFrame(e)  BY <1>5, <1>6, <1>7 DEF TopFrame, Depth
<1>9. PICK k : k = f.node  OBVIOUS
<1>10. PICK parts : parts = f.parts  OBVIOUS
<1>11. PICK p : p = Generated(e, k, parts)  OBVIOUS
<1>12. PICK own : own = Own(k, f.hull)  OBVIOUS
<1>13. PICK heard : heard = IF f.keyed THEN f.said \o own ELSE own  OBVIOUS
<1>14. PICK b : b = SubSeq(s, 1, n)  OBVIOUS
<1>15. PICK c : c = f.cap  OBVIOUS
<1>16. PICK t : t = Received(b, c, heard, p)  OBVIOUS
<1>17. PICK key : key = KeyIn(Mode(e), k)  OBVIOUS
<1>18. PICK x : x = [parts |-> p, warnings |-> heard]  OBVIOUS
<1>19. PICK kind : kind = pass[e]  OBVIOUS
<1>20. /\ Makes(k) => CanReserve(1)
       /\ stack' = [stack EXCEPT ![e] = Delivered(Heard(SubSeq(stack[e], 1, Depth(e) - 1), c, heard), p)]
       /\ idToNode' = IF Makes(k) /\ kind # "measure"
                      THEN [idToNode EXCEPT ![e] = Extend(@, Entry(p[1].id, k))]
                      ELSE idToNode
       /\ cache' = IF f.keyed THEN Extend(cache, Entry(key, x)) ELSE cache
       /\ UNCHANGED << script, pass, result >>
  BY <1>8, <1>9, <1>10, <1>11, <1>12, <1>13, <1>15, <1>17, <1>18, <1>19 DEF Finish
<1>21. SubSeq(stack[e], 1, Depth(e) - 1) = b  BY <1>3, <1>5, <1>14
<1>22. stack' = [stack EXCEPT ![e] = t]  BY <1>16, <1>20, <1>21 DEF Received
<1>23. PICK m : m = script[e].mode  OBVIOUS
<1>24. \A d \in 1 .. n + 1 : WholeFrame(s[d], m)  BY <1>4, <1>5, <1>6, <1>23 DEF Sound
<1>25. Nested(b) /\ Len(b) = n /\ \A d \in 1 .. n : b[d] = s[d]
  <2>1. n \in Nat /\ n >= 1 /\ Nested(s) /\ Len(s) = n + 1 /\ b = SubSeq(s, 1, n)
    BY <1>3, <1>6, <1>14
  <2>2. Nested(b) /\ Len(b) = n  BY ONLY <2>1, PoppedNested
  <2>3. \A d \in 1 .. n : b[d] = s[d]  BY ONLY <2>1, PoppedNested
  <2> QED BY <2>2, <2>3
<1>26. b # << >> /\ ~ Finished(b[Len(b)]) /\ k = b[Len(b)].list[b[Len(b)].next]
  BY <1>3, <1>6, <1>7, <1>9, <1>14, PoppedOpen
<1>27. \A d \in 1 .. n : d \in 1 .. n + 1 /\ d # n + 1 /\ n + 1 \in 1 .. n + 1  OBVIOUS
<1>28. \A d \in 1 .. Len(b) : WholeFrame(b[d], m)  BY <1>24, <1>25, <1>27
<1>29. IsList(parts)
  <2>1. n + 1 \in 1 .. n + 1  OBVIOUS
  <2> QED BY <1>7, <1>10, <1>24, <2>1 DEF WholeFrame
<1>30. IsList(p)
  <2>1. PICK mode : mode = Mode(e)  OBVIOUS
  <2> QED BY <1>11, <1>29, <2>1, GeneratedIs
<1>31. Selectable(s, kind, result[e])  BY <1>5, <1>19 DEF SelectInv
<1>32. f.keyed = Cacheable(k)
  <2>1. FrameFollows(s[n + 1], s[n], n + 1)  BY <1>3, <1>6, Follows
  <2> QED BY <1>7, <1>9, <2>1 DEF FrameFollows
<1>33. kind = "measure" => OfStorable(b)
  <2>1. kind = "measure" => OfStorable(s)  BY <1>31 DEF Selectable
  <2> QED BY <1>6, <1>25, <1>27, <2>1 DEF OfStorable
<1>34. kind # "measure" => Apart(s) /\ Apart(b)
  <2>1. kind # "measure" => Apart(s)  BY <1>31 DEF Selectable
  <2>2. Apart(s) => Apart(b)  BY <1>6, <1>25, <1>27 DEF Apart
  <2> QED BY <2>1, <2>2
<1>35. Makes(k) => OneEach(p) /\ Aside(b, p)
  <2> SUFFICES ASSUME Makes(k)  PROVE OneEach(p) /\ Aside(b, p)  OBVIOUS
  <2>1. OneEach(p) /\ IdsOf(p) \cap InUse = {}  BY <1>11, <1>20, GeneratedApart
  <2>2. \A d \in 1 .. n : d \in 1 .. Len(s) /\ b[d] = s[d]  BY <1>6, <1>25, <1>27
  <2>3. n = Len(b)  BY <1>25
  <2>4. Aside(b, p)  BY <1>5, <2>1, <2>2, <2>3, FreshAside
  <2> QED BY <2>1, <2>4
<1>36. ~ Makes(k) /\ kind # "measure" => OneEach(p) /\ Aside(b, p)
  <2> SUFFICES ASSUME ~ Makes(k), kind # "measure"  PROVE OneEach(p) /\ Aside(b, p)  OBVIOUS
  <2>1. p = parts  BY <1>11 DEF Generated
  <2>2. Apart(s)  BY <1>34
  <2>3. n + 1 \in 1 .. Len(s)  BY <1>6
  <2>4. OneEach(p)  BY <1>7, <1>10, <2>1, <2>2, <2>3 DEF Apart
  <2>5. ASSUME NEW d \in 1 .. n  PROVE IdsOf(b[d].parts) \cap IdsOf(p) = {}
    <3>1. d \in 1 .. Len(s) /\ d # n + 1 /\ b[d] = s[d]  BY <1>6, <1>25, <1>27
    <3>2. IdsOf(s[d].parts) \cap IdsOf(s[n + 1].parts) = {}  BY <2>2, <2>3, <3>1 DEF Apart
    <3> QED BY <1>7, <1>10, <2>1, <3>1, <3>2
  <2> QED BY <1>25, <2>4, <2>5 DEF Aside
<1>37. kind = "measure" => OfStorable(t)
  BY <1>16, <1>25, <1>26, <1>33, ReceivedStorable
<1>38. ASSUME kind # "measure"  PROVE Apart(t)
  <2>1. OneEach(p) /\ Aside(b, p)  BY <1>35, <1>36, <1>38
  <2>2. /\ Nested(b) /\ b # << >> /\ ~ Finished(b[Len(b)]) /\ Apart(b)
        /\ IsList(p) /\ OneEach(p) /\ Aside(b, p) /\ t = Received(b, c, heard, p)
    BY <1>16, <1>25, <1>26, <1>30, <1>34, <1>38, <2>1
  <2> QED BY ONLY <1>28, <2>2, ReceivedApart
<1>39. stack'[e] = t /\ pass'[e] = kind /\ result'[e] = None
  BY <1>1, <1>4, <1>19, <1>20, <1>22 DEF StateOK
<1>40. Selectable(stack'[e], pass'[e], result'[e])  BY <1>37, <1>38, <1>39 DEF Selectable
<1>41. OtherIds(e)  BY <1>1, <1>20, <1>22 DEF StateOK, OtherIds
<1>42. EntriesApart(cache')
  <2>1. EntriesApart(cache)  BY DEF SelectInv, EntriesApart
  <2>2. CASE f.keyed
    <3>1. kind = "measure" => Makes(k)
      <4>1. kind = "measure" => k \in Storable  BY <1>25, <1>26, <1>33, ComesFrom
      <4> QED BY <1>32, <2>2, <4>1 DEF Storable
    <3>2. OneEach(p)  BY <1>35, <1>36, <3>1
    <3>3. cache' = Extend(cache, Entry(key, x))  BY <1>20, <2>2
    <3>4. /\ DOMAIN cache' = DOMAIN cache \cup {key} /\ cache'[key] = x
          /\ \A i \in DOMAIN cache : i # key => cache'[i] = cache[i]
      BY <3>3 DEF Extend, Entry
    <3>5. x.parts = p  BY <1>18
    <3> QED BY <2>1, <3>2, <3>4, <3>5 DEF EntriesApart
  <2>3. CASE ~ f.keyed  BY <1>20, <2>1, <2>3
  <2> QED BY <2>2, <2>3
<1> QED BY <1>40, <1>41, <1>42, SelectInvOf

LEMMA ClearSelect ==
  ASSUME SelectInv, Clear
  PROVE  SelectInv'
<1>1. \A k \in DOMAIN cache' : OneEach(cache'[k].parts)  BY DEF Clear, NoMap
<1>2. \A e \in Evaluators : Selectable(stack'[e], pass'[e], result'[e])  BY DEF SelectInv, Clear
<1> QED BY <1>1, <1>2 DEF SelectInv

LEMMA StutterSelect ==
  ASSUME SelectInv, UNCHANGED vars
  PROVE  SelectInv'
BY DEF SelectInv, vars

LEMMA SelectNext ==
  ASSUME NoUnionStored
  PROVE  CacheInv /\ SelectInv /\ [Next]_vars => SelectInv'
<1> SUFFICES ASSUME CacheInv, SelectInv, [Next]_vars  PROVE SelectInv'  OBVIOUS
<1>1. ASSUME NEW e \in Evaluators, Evaluate(e)  PROVE SelectInv'  BY <1>1, EvaluateSelect
<1>2. ASSUME NEW e \in Evaluators, NEW kind \in {"render", "partial", "measure"},
             Generate(e, kind)
      PROVE  SelectInv'
  BY <1>2, GenerateSelect
<1>3. ASSUME NEW e \in Evaluators, Hit(e)  PROVE SelectInv'  BY <1>3, HitSelect
<1>4. ASSUME NEW e \in Evaluators, Miss(e)  PROVE SelectInv'  BY <1>4, MissSelect
<1>5. ASSUME NEW e \in Evaluators, Finish(e)  PROVE SelectInv'  BY <1>5, FinishSelect
<1>6. ASSUME NEW e \in Evaluators, Complete(e)  PROVE SelectInv'  BY <1>6, CompleteSelect
<1>7. ASSUME NEW e \in Evaluators, Fail(e)  PROVE SelectInv'  BY <1>7, FailSelect
<1>8. CASE Clear  BY <1>8, ClearSelect
<1>9. CASE UNCHANGED vars  BY <1>9, StutterSelect
<1> QED BY <1>1, <1>2, <1>3, <1>4, <1>5, <1>6, <1>7, <1>8, <1>9 DEF Next

(* There are as many IDs as parts when each part has one of its own.       *)
LEMMA AsManyIds ==
  ASSUME NEW p, IsList(p), OneEach(p)
  PROVE  Cardinality(IdsOf(p)) = Len(p)
<1>1. PICK n \in Nat : n = Len(p)  BY ListIs
<1>2. PICK T : T = IdsOf(p)  OBVIOUS
<1>3. PICK f : f = [i \in 1 .. n |-> p[i].id]  OBVIOUS
<1>4. \A i \in 1 .. n : f[i] = p[i].id  BY <1>3
<1>5. f \in [1 .. n -> T]  BY <1>1, <1>2, <1>3 DEF IdsOf
<1>6. \A i, j \in 1 .. n : f[i] = f[j] => i = j  BY <1>1, <1>4 DEF OneEach
<1>7. \A id \in T : \E i \in 1 .. n : f[i] = id  BY <1>1, <1>2, <1>4 DEF IdsOf
<1>8. f \in Bijection(1 .. n, T)
  BY ONLY <1>5, <1>6, <1>7 DEF Bijection, Injection, Surjection, IsInjective
<1>9. ExistsBijection(1 .. n, T)  BY <1>8 DEF ExistsBijection
<1>10. Cardinality(T) = n  BY <1>9, FS_CountingElements
<1> QED BY <1>1, <1>2, <1>10

(* A click on any part of what a pass returned for display leads to the    *)
(* node of its script that it was drawn by, and to that part alone: a hit  *)
(* gives each part of a cached body a fresh ID (restampCachedIds).  In any *)
(* program whose render() expressions measure no union that is stored.     *)
THEOREM PartsStayClickable ==
  ASSUME NoUnionStored
  PROVE  Spec => []PartsClickable
<1>1. CacheInv /\ SelectInv /\ [Next]_vars => SelectInv'  BY SelectNext
<1>2. SelectInv => PartsSelectable
  <2> SUFFICES ASSUME SelectInv, NEW e \in Evaluators, Completed(e), result[e].pass # "measure"
               PROVE  Cardinality(IdsOf(result[e].parts)) = Len(result[e].parts)
    BY DEF PartsSelectable
  <2>1. PICK p : p = result[e].parts  OBVIOUS
  <2>2. IsList(p) /\ OneEach(p)  BY <2>1 DEF SelectInv, Selectable, Completed
  <2> QED BY <2>1, <2>2, AsManyIds
<1>3. ClickFindsSource /\ PartsSelectable => PartsClickable  BY DEF PartsClickable
<1> QED BY <1>1, <1>2, <1>3, SelectInit, Invariance, ClicksLeadToSource, PTL DEF Spec
=============================================================================
