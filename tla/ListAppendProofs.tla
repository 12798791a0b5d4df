-------------------------- MODULE ListAppendProofs --------------------------
(***************************************************************************)
(* Lists over shared buffers are immutable values, for any number of       *)
(* lists, threads and elements and any width of the counter.               *)
(***************************************************************************)
EXTENDS ListAppend, SequenceTheorems, TLAPS

LEMMA CounterFacts ==
    ASSUME NEW n \in Nat
    PROVE  /\ Counter(n) \in 0..(Width - 1)
           /\ n < Width => Counter(n) = n
  BY ListAssumption DEF Counter

(* What is read of a buffer does not change when more is written to it. *)
LEMMA PrefixKept ==
    ASSUME NEW s \in Seq(Elems), NEW e \in Elems, NEW n \in 0..Len(s)
    PROVE  SubSeq(Append(s, e), 1, n) = SubSeq(s, 1, n)
  <1>1. Append(s, e) \in Seq(Elems) /\ n <= Len(Append(s, e))
    OBVIOUS
  <1>2. SubSeq(Append(s, e), 1, n) \in Seq(Elems) /\ SubSeq(s, 1, n) \in Seq(Elems)
    BY <1>1
  <1>3. Len(SubSeq(Append(s, e), 1, n)) = n /\ Len(SubSeq(s, 1, n)) = n
    BY <1>1
  <1>4. \A i \in 1..n : SubSeq(Append(s, e), 1, n)[i] = SubSeq(s, 1, n)[i]
    BY <1>1
  <1> QED
    BY <1>2, <1>3, <1>4, SeqEqual

LEMMA AppendThenRest ==
    ASSUME NEW s \in Seq(Elems), NEW r \in Seq(Elems), r # << >>
    PROVE  /\ Head(r) \in Elems /\ Tail(r) \in Seq(Elems)
           /\ Append(s, Head(r)) \in Seq(Elems)
           /\ Append(s, Head(r)) \o Tail(r) = s \o r
           /\ Len(Append(s, Head(r))) = Len(s) + 1
  <1>1. Head(r) \in Elems /\ Tail(r) \in Seq(Elems)
    BY HeadTailProperties
  <1>2. Append(s, Head(r)) = s \o << Head(r) >> /\ Append(s, Head(r)) \in Seq(Elems)
    BY <1>1, AppendIsConcat, AppendProperties
  <1>3. << Head(r) >> \in Seq(Elems) /\ << Head(r) >> \o Tail(r) = r
    BY <1>1
  <1>4. (s \o << Head(r) >>) \o Tail(r) = s \o (<< Head(r) >> \o Tail(r))
    BY <1>1, <1>3, ConcatAssociative
  <1>5. Len(Append(s, Head(r))) = Len(s) + 1
    BY <1>1, AppendProperties
  <1> QED
    BY <1>1, <1>2, <1>3, <1>4, <1>5

LEMMA InitInv == Init => IInv
  <1> SUFFICES ASSUME Init PROVE IInv
    OBVIOUS
  <1> USE DEF Init
  <1>1. \A l \in Lists : << >> \in Seq(Elems)
    OBVIOUS
  <1>2. TypeOK
    BY <1>1, ListAssumption DEF TypeOK, Calling
  <1>3. \A t \in Threads : ~ Calling(t)
    BY DEF Calling
  <1> QED
    BY <1>2, <1>3 DEF IInv, BuffersAlive, NeverReallocated, ReferencesAlive, ViewsWithin, WideUnshared,
           FrontierExact, ClaimsExact, Unwritten, FreeBlank, Free, Bases, Claims

(* The parts of the invariant, by what a step has to keep of each. *)
LEMMA OwnBufferKeeps ==
    ASSUME IInv, NEW l \in Free, NEW items \in Seq(Elems), NEW capacity \in Nat,
           Len(items) <= capacity, NEW fromAppend \in BOOLEAN,
           OwnBuffer(l, items, capacity, fromAppend),
           \/ call' = call
           \/ \E t \in Threads : Calling(t) /\ ~ call[t].claimed /\ call' = [call EXCEPT ![t] = None]
    PROVE  IInv'
  <1> USE DEF OwnBuffer, Free
  <1>0. TypeOK /\ l \in Lists /\ l \notin allocated
    BY DEF IInv
  <1>1. TypeOK'
    <2>1. Len(items) \in Nat /\ Counter(Len(items)) \in 0..(Width - 1)
      BY CounterFacts
    <2>2. call' \in [Threads -> Calls \union {None}]
      BY <1>0 DEF TypeOK
    <2> QED
      BY <1>0, <2>1, <2>2 DEF TypeOK
  <1>2. \A m \in allocated : m \in Lists /\ m # l /\ buf[m] # l /\ buf'[m] = buf[m]
                             /\ slots'[buf[m]] = slots[buf[m]] /\ size'[m] = size[m]
    BY <1>0 DEF IInv, BuffersAlive, TypeOK
  <1>3. \A t \in Threads : Calling(t)' => Calling(t) /\ call'[t] = call[t]
    BY <1>0 DEF Calling, TypeOK
  <1>4. \A t \in Threads : Calling(t) => call[t].base \in allocated
    BY DEF IInv, ReferencesAlive, Bases
  <1>5. BuffersAlive'
    BY <1>0, <1>2 DEF IInv, BuffersAlive, TypeOK
  <1>6. NeverReallocated'
    BY <1>0, <1>2 DEF IInv, NeverReallocated, BuffersAlive, TypeOK
  <1>7. ReferencesAlive'
    BY <1>0, <1>3, <1>4 DEF IInv, ReferencesAlive, Bases
  <1>8. ViewsWithin' /\ WideUnshared'
    <2>1. ASSUME NEW m \in allocated
          PROVE  /\ size'[m] <= Len(slots'[buf'[m]])
                 /\ Len(slots'[buf'[m]]) >= Width => size'[m] >= Width
      BY <1>2, <2>1 DEF IInv, ViewsWithin, WideUnshared
    <2>2. /\ size'[l] <= Len(slots'[buf'[l]])
          /\ Len(slots'[buf'[l]]) >= Width => size'[l] >= Width
      BY <1>0 DEF TypeOK
    <2> QED
      BY <2>1, <2>2 DEF ViewsWithin, WideUnshared
  <1>9. \A b \in allocated : Claims(b)' = Claims(b)
    <2> SUFFICES ASSUME NEW b \in allocated, NEW t \in Threads
                 PROVE  t \in Claims(b)' <=> t \in Claims(b)
      BY DEF Claims
    <2>1. t \in Claims(b)' => t \in Claims(b)
      BY <1>2, <1>3, <1>4 DEF Claims
    <2>2. ASSUME t \in Claims(b) PROVE Calling(t)' /\ call'[t] = call[t]
      BY <2>2, <1>0 DEF Claims, Calling, TypeOK
    <2> QED
      BY <2>1, <2>2, <1>2, <1>4 DEF Claims
  <1>10. Claims(l)' = {}
    BY <1>2, <1>3, <1>4 DEF Claims
  <1>11. FrontierExact'
    <2>1. ASSUME NEW b \in allocated, Claims(b)' = {} PROVE used'[b] = Counter(Len(slots'[b]))
      <3>1. used'[b] = used[b] /\ slots'[b] = slots[b]
        BY <1>0, <1>2 DEF TypeOK
      <3>2. used[b] = Counter(Len(slots[b]))
        BY <1>9, <2>1 DEF IInv, FrontierExact
      <3> QED
        BY <3>1, <3>2
    <2>2. used'[l] = Counter(Len(slots'[l]))
      BY <1>0 DEF TypeOK
    <2> QED
      BY <2>1, <2>2 DEF FrontierExact, Counter
  <1>12. ClaimsExact'
    <2> SUFFICES ASSUME NEW b \in allocated', NEW t \in Claims(b)'
                 PROVE  ClaimExact(b, t)'
      BY DEF ClaimsExact
    <2>1. b \in allocated /\ b # l /\ t \in Claims(b) /\ call'[t] = call[t] /\ call[t].base \in allocated
      BY <1>2, <1>3, <1>4, <1>9, <1>10 DEF Claims
    <2>2. used'[b] = used[b] /\ room'[b] = room[b] /\ slots'[b] = slots[b]
          /\ size'[call[t].base] = size[call[t].base]
      BY <1>0, <1>2, <2>1 DEF TypeOK
    <2>3. \A m \in allocated' : buf'[m] = b => m \in allocated /\ buf[m] = b /\ size'[m] = size[m]
      <3>1. allocated' = allocated \union {l} /\ buf'[l] = l
        BY <1>0 DEF TypeOK
      <3> HIDE DEF OwnBuffer
      <3> QED
        BY <1>2, <2>1, <3>1
    <2>4. ClaimExact(b, t) /\ Claims(b)' = Claims(b)
      BY <1>9, <2>1 DEF IInv, ClaimsExact
    <2> HIDE DEF OwnBuffer
    <2> QED
      BY <2>1, <2>2, <2>3, <2>4 DEF ClaimExact
  <1>13. Unwritten'
    BY <1>3 DEF IInv, Unwritten
  <1>14. FreeBlank'
    BY <1>0 DEF IInv, FreeBlank, TypeOK
  <1> QED
    BY <1>1, <1>5, <1>6, <1>7, <1>8, <1>11, <1>12, <1>13, <1>14 DEF IInv

LEMMA MakeListInv ==
    ASSUME IInv, NEW l \in Lists, NEW items \in Literals, NEW spare \in Spares, MakeList(l, items, spare)
    PROVE  IInv'
  <1>1. items \in Seq(Elems) /\ Len(items) + spare \in Nat /\ Len(items) <= Len(items) + spare
    BY ListAssumption
  <1> QED
    BY <1>1, OwnBufferKeeps DEF MakeList

LEMMA CallTypes ==
    ASSUME TypeOK, NEW t \in Threads, Calling(t)
    PROVE  /\ call[t] \in Calls /\ call[t].base \in Lists /\ call[t].extra \in Seq(Elems)
           /\ call[t].extra # << >> /\ call[t].rest \in Seq(Elems) /\ call[t].claimed \in BOOLEAN
           /\ Len(call[t].extra) \in Nat \ {0}
  <1>1. call[t] \in Calls
    BY DEF TypeOK, Calling
  <1>2. call[t].extra \in Seq(Elems) /\ call[t].extra # << >>
    BY <1>1, ListAssumption DEF Calls
  <1> QED
    BY <1>1, <1>2 DEF Calls

LEMMA CopyInv ==
    ASSUME IInv, NEW t \in Threads, NEW l \in Lists, Copy(t, l)
    PROVE  IInv'
  <1> DEFINE c == call[t]
             items == Contents(c.base) \o c.extra
  <1>1. c.base \in Lists /\ c.base \in allocated /\ c.extra \in Seq(Elems)
    BY CallTypes DEF IInv, Copy, ReferencesAlive, Bases
  <1>2. items \in Seq(Elems)
    <2>1. slots[buf[c.base]] \in Seq(Elems) /\ size[c.base] \in 0..Len(slots[buf[c.base]])
      BY <1>1 DEF IInv, TypeOK, ViewsWithin
    <2>2. Contents(c.base) \in Seq(Elems)
      BY <2>1 DEF Contents
    <2> QED
      BY <1>1, <2>2
  <1>3. RoomFor(c.base, Len(items)) \in Nat /\ Len(items) <= RoomFor(c.base, Len(items))
    <2> HIDE DEF items
    <2>1. Len(items) \in Nat
      BY <1>2
    <2> QED
      BY <2>1 DEF RoomFor
  <1>4. OwnBuffer(l, items, RoomFor(c.base, Len(items)), TRUE) /\ l \in Free /\ Calling(t) /\ ~ c.claimed
        /\ call' = [call EXCEPT ![t] = None]
    BY DEF Copy
  <1> HIDE DEF items, c
  <1> QED
    BY <1>2, <1>3, <1>4, OwnBufferKeeps DEF c

LEMMA AppendBeginInv ==
    ASSUME IInv, NEW t \in Threads, NEW base \in Lists, NEW extra \in Extras, AppendBegin(t, base, extra)
    PROVE  IInv'
  <1>0. TypeOK /\ extra \in Seq(Elems) /\ base \in allocated /\ ~ Calling(t)
    BY ListAssumption DEF IInv, ReferencesAlive, AppendBegin
  <1>1. /\ Called(base, extra) \in Calls
        /\ call'[t] = Called(base, extra) /\ \A u \in Threads : u # t => call'[u] = call[u]
        /\ call' \in [Threads -> Calls \union {None}]
        /\ UNCHANGED <<allocated, buf, keep, size, slots, room, used, grown, held>>
    BY <1>0 DEF TypeOK, Called, Calls, AppendBegin, bufferVars
  <1>2. TypeOK'
    BY <1>0, <1>1 DEF TypeOK
  <1>3. ASSUME NEW b PROVE Claims(b)' = Claims(b)
    BY <1>0, <1>1 DEF Claims, Calling, Called
  <1>4. \A b : \A u \in Claims(b) : call'[u] = call[u]
    BY <1>0, <1>1 DEF Claims
  <1>5. ReferencesAlive'
    BY <1>0, <1>1 DEF IInv, ReferencesAlive, Bases, Calling, Called
  <1>6. BuffersAlive' /\ NeverReallocated' /\ ViewsWithin' /\ WideUnshared'
    BY <1>1 DEF IInv, BuffersAlive, NeverReallocated, ViewsWithin, WideUnshared
  <1>7. FrontierExact'
    BY <1>1, <1>3 DEF IInv, FrontierExact, Counter
  <1>8. ClaimsExact'
    <2> SUFFICES ASSUME NEW d \in allocated, NEW u \in Claims(d) PROVE ClaimExact(d, u)'
      BY <1>1, <1>3 DEF ClaimsExact
    <2>1. ClaimExact(d, u) /\ call'[u] = call[u]
      BY <1>4 DEF IInv, ClaimsExact
    <2> QED
      BY <1>1, <1>3, <2>1 DEF ClaimExact
  <1>9. Unwritten'
    BY <1>0, <1>1 DEF IInv, Unwritten, Called, Calling
  <1>10. FreeBlank'
    BY <1>1 DEF IInv, FreeBlank, Free
  <1> QED
    BY <1>2, <1>5, <1>6, <1>7, <1>8, <1>9, <1>10 DEF IInv

(* The compare-and-swap succeeds only for the longest view of a buffer that
   nobody is writing to. *)
LEMMA ClaimInv ==
    ASSUME IInv, NEW t \in Threads, Claim(t)
    PROVE  IInv'
  <1> PICK c, b : c = call[t] /\ b = buf[c.base]
    OBVIOUS
  <1>0. /\ TypeOK /\ Calling(t) /\ c \in Calls
        /\ ~ c.claimed /\ c.base \in allocated /\ b \in allocated /\ buf[b] = b
        /\ b \in Lists /\ c.base \in Lists
    BY CallTypes DEF IInv, TypeOK, ReferencesAlive, Bases, BuffersAlive, Claim
  <1>A. /\ used' = [used EXCEPT ![b] = Counter(size[c.base] + Len(c.extra))]
        /\ call' = [call EXCEPT ![t].claimed = TRUE]
        /\ UNCHANGED <<allocated, buf, keep, size, slots, room, grown, held>>
        /\ InPlace(t)
    BY DEF Claim
  <1>B. /\ call'[t] \in Calls
        /\ call'[t].claimed /\ call'[t].base = c.base /\ call'[t].extra = c.extra /\ call'[t].rest = c.rest
        /\ \A u \in Threads : u # t => call'[u] = call[u]
        /\ call' \in [Threads -> Calls \union {None}]
    BY <1>0, <1>A DEF TypeOK, Calls
  <1>C. \A u \in Threads : Calling(u)' <=> Calling(u)
    BY <1>0, <1>B, ListAssumption DEF Calling
  <1>1. /\ c.extra \in Seq(Elems) /\ Len(c.extra) \in Nat \ {0} /\ size[c.base] \in Nat
        /\ room[b] - size[c.base] >= Len(c.extra) /\ size[c.base] + Len(c.extra) < Width
        /\ used[b] = size[c.base]
    <2>1. c.extra \in Seq(Elems) /\ c.extra # << >> /\ size[c.base] \in Nat
      BY <1>0, CallTypes DEF TypeOK
    <2>2. Fits(c.base, Len(c.extra)) /\ Frontier(c.base)
      BY <1>A DEF InPlace
    <2>3. room[b] - size[c.base] >= Len(c.extra) /\ size[c.base] + Len(c.extra) < Width
      BY <2>2 DEF Fits
    <2>4. Len(c.extra) \in Nat \ {0}
      BY <2>1
    <2>5. used[b] = Counter(size[c.base]) /\ size[c.base] < Width
      BY <2>1, <2>2, <2>3, <2>4, ListAssumption DEF Frontier
    <2> QED
      BY <2>1, <2>3, <2>4, <2>5, CounterFacts
  <1>2. Claims(b) = {}
    <2> SUFFICES ASSUME NEW u \in Claims(b) PROVE FALSE
      OBVIOUS
    <2>1. used[b] = size[call[u].base] + Len(call[u].extra) /\ size[c.base] <= size[call[u].base]
      BY <1>0 DEF IInv, ClaimsExact, ClaimExact
    <2>2. Len(call[u].extra) \in Nat \ {0} /\ size[call[u].base] \in Nat
      BY <1>0, CallTypes DEF Claims, TypeOK
    <2> QED
      BY <1>1, <2>1, <2>2
  <1>3. Len(slots[b]) = size[c.base]
    <2>1. size[c.base] <= Len(slots[b]) /\ Len(slots[b]) \in Nat
      BY <1>0 DEF IInv, ViewsWithin, TypeOK
    <2>2. Len(slots[b]) < Width
      BY <1>0, <1>1, <2>1, ListAssumption DEF IInv, WideUnshared
    <2>3. used[b] = Counter(Len(slots[b]))
      BY <1>0, <1>2 DEF IInv, FrontierExact
    <2> QED
      BY <1>1, <2>1, <2>2, <2>3, CounterFacts
  <1>4. TypeOK'
    <2>1. Counter(size[c.base] + Len(c.extra)) \in 0..(Width - 1)
      <3>1. size[c.base] + Len(c.extra) \in Nat
        BY <1>1
      <3> QED
        BY <3>1, CounterFacts
    <2> QED
      BY <1>0, <1>A, <1>B, <2>1 DEF TypeOK
  <1>6. ReferencesAlive'
    BY <1>0, <1>A, <1>B, <1>C DEF IInv, ReferencesAlive, Bases
  <1>7. BuffersAlive' /\ NeverReallocated' /\ ViewsWithin' /\ WideUnshared'
    BY <1>A DEF IInv, BuffersAlive, NeverReallocated, ViewsWithin, WideUnshared
  <1>8. Claims(b)' = {t} /\ \A d \in allocated : d # b => Claims(d)' = Claims(d)
    BY <1>0, <1>2, <1>A, <1>B, <1>C DEF Claims
  <1>9. used'[b] = size[c.base] + Len(c.extra) /\ \A d \in allocated : d # b => used'[d] = used[d]
    <2>1. size[c.base] + Len(c.extra) \in Nat
      BY <1>1
    <2>2. Counter(size[c.base] + Len(c.extra)) = size[c.base] + Len(c.extra)
      BY <1>1, <2>1, CounterFacts
    <2> QED
      BY <1>0, <1>A, <2>2 DEF TypeOK
  <1>10. FrontierExact'
    <2> SUFFICES ASSUME NEW d \in allocated, Claims(d)' = {} PROVE used'[d] = Counter(Len(slots[d]))
      BY <1>A DEF FrontierExact, Counter
    <2>1. d # b
      BY <1>8
    <2> QED
      BY <1>8, <1>9, <2>1 DEF IInv, FrontierExact
  <1>11. ASSUME NEW d \in allocated, d # b, NEW u \in Claims(d) PROVE call'[u] = call[u] /\ u # t
    BY <1>0, <1>B DEF Claims
  <1>12. ClaimExact(b, t)'
    <2>1. c.rest = c.extra
      BY <1>0 DEF IInv, Unwritten
    <2>2. SubSeq(slots[b], 1, size[c.base]) = slots[b]
      BY <1>0, <1>3, SubSeqFull DEF TypeOK
    <2>3. \A l \in allocated : buf[l] = b => size[l] <= size[c.base]
      BY <1>3 DEF IInv, ViewsWithin
    <2>4. used'[b] < Width /\ used'[b] <= room[b]
      BY <1>1, <1>9, <1>0 DEF TypeOK
    <2>5. /\ size'[call'[t].base] = size[c.base] /\ call'[t].extra = c.extra
          /\ call'[t].rest = c.extra /\ slots'[b] = slots[b]
      BY <1>A, <1>B, <2>1
    <2> QED
      BY <1>A, <1>8, <1>9, <2>2, <2>3, <2>4, <2>5 DEF ClaimExact
  <1>13. ASSUME NEW d \in allocated, d # b, NEW u \in Claims(d)' PROVE ClaimExact(d, u)'
    <2>1. ClaimExact(d, u) /\ call'[u] = call[u]
      BY <1>8, <1>11, <1>13 DEF IInv, ClaimsExact
    <2> QED
      BY <1>8, <1>9, <1>13, <1>A, <2>1 DEF ClaimExact
  <1>14. ClaimsExact'
    BY <1>8, <1>12, <1>13, <1>A DEF ClaimsExact
  <1>15. Unwritten'
    BY <1>B, <1>C DEF IInv, Unwritten
  <1>16. FreeBlank'
    BY <1>0, <1>9, <1>A DEF IInv, FreeBlank, Free, TypeOK
  <1> QED
    BY <1>4, <1>6, <1>7, <1>10, <1>14, <1>15, <1>16 DEF IInv

LEMMA PushBackInv ==
    ASSUME IInv, NEW t \in Threads, PushBack(t)
    PROVE  IInv'
  <1> PICK c, b : c = call[t] /\ b = buf[c.base]
    OBVIOUS
  <1>0. /\ TypeOK /\ Calling(t) /\ c \in Calls /\ c.claimed /\ c.base \in allocated /\ b \in allocated
        /\ buf[b] = b /\ b \in Lists /\ c.base \in Lists /\ c.rest # << >>
    BY CallTypes DEF IInv, TypeOK, ReferencesAlive, Bases, BuffersAlive, PushBack
  <1>a. c.base \in Lists /\ b \in Lists /\ b = buf[c.base] /\ c.base \in allocated
    BY <1>0
  <1>b. /\ slots[b] \in Seq(Elems) /\ size[c.base] \in Nat /\ room[b] \in Nat /\ used[b] \in Nat
        /\ c.extra \in Seq(Elems) /\ c.rest \in Seq(Elems)
    <2>1. c.extra \in Seq(Elems) /\ c.rest \in Seq(Elems)
      BY <1>0, CallTypes
    <2> QED
      BY <1>0, <1>a, <2>1 DEF TypeOK
  <1>c. size[c.base] <= Len(slots[b]) /\ t \in Claims(b)
    BY <1>0, <1>a DEF IInv, ViewsWithin, Claims
  <1>A. /\ slots[b] \in Seq(Elems) /\ size[c.base] \in Nat /\ room[b] \in Nat /\ used[b] \in Nat
        /\ c.extra \in Seq(Elems) /\ c.rest \in Seq(Elems)
        /\ size[c.base] <= Len(slots[b]) /\ Len(slots[b]) \in Nat /\ t \in Claims(b)
    BY <1>b, <1>c
  <1>B. /\ slots' = [slots EXCEPT ![b] = Append(slots[b], Head(c.rest))]
        /\ call' = [call EXCEPT ![t].rest = Tail(c.rest)]
        /\ UNCHANGED <<allocated, buf, keep, size, room, used, grown, held>>
    BY <1>0 DEF PushBack, TypeOK
  <1>1. /\ Head(c.rest) \in Elems /\ Tail(c.rest) \in Seq(Elems)
        /\ Append(slots[b], Head(c.rest)) \in Seq(Elems)
        /\ Append(slots[b], Head(c.rest)) \o Tail(c.rest) = slots[b] \o c.rest
        /\ Len(Append(slots[b], Head(c.rest))) = Len(slots[b]) + 1
    BY <1>0, <1>A, AppendThenRest
  <1>2. /\ call'[t] \in Calls
        /\ call'[t].claimed /\ call'[t].base = c.base /\ call'[t].extra = c.extra
        /\ call'[t].rest = Tail(c.rest)
        /\ \A u \in Threads : u # t => call'[u] = call[u]
        /\ call' \in [Threads -> Calls \union {None}]
        /\ slots'[b] = Append(slots[b], Head(c.rest))
        /\ \A d \in Lists : d # b => slots'[d] = slots[d]
    BY <1>0, <1>1, <1>B DEF TypeOK, Calls
  <1>C. \A u \in Threads : Calling(u)' <=> Calling(u)
    BY <1>0, <1>2, ListAssumption DEF Calling
  <1>3. TypeOK'
    BY <1>0, <1>1, <1>2, <1>B DEF TypeOK
  <1>4. ClaimExact(b, t)
    BY <1>0, <1>A DEF IInv, ClaimsExact
  <1>5. Len(slots'[b]) = Len(slots[b]) + 1 /\ Len(slots'[b]) <= used[b]
    <2>1. Len(SubSeq(slots[b], 1, size[c.base]) \o c.extra) = size[c.base] + Len(c.extra)
      BY <1>A
    <2>2. Len(slots[b] \o c.rest) = Len(slots[b]) + Len(c.rest) /\ Len(c.rest) \in Nat \ {0}
      BY <1>0, <1>A
    <2>3. used[b] = Len(slots[b]) + Len(c.rest)
      BY <1>4, <2>1, <2>2 DEF ClaimExact
    <2>4. Len(slots'[b]) = Len(slots[b]) + 1
      BY <1>1, <1>2
    <2> QED
      BY <1>A, <2>2, <2>3, <2>4
  <1>6. ReferencesAlive'
    <2>1. \A u \in Threads : call'[u].base = call[u].base
      BY <1>2
    <2>2. Bases' = Bases
      BY <1>C, <2>1 DEF Bases
    <2> QED
      BY <1>B, <2>2 DEF IInv, ReferencesAlive
  <1>7. BuffersAlive'
    BY <1>B DEF IInv, BuffersAlive
  <1>8. NeverReallocated'
    <2>1. Len(slots'[b]) <= room[b]
      <3>1. used[b] <= room[b]
        BY <1>4 DEF ClaimExact
      <3> QED
        BY <1>5, <1>A, <3>1
    <2> QED
      BY <1>0, <1>2, <1>B, <2>1 DEF IInv, NeverReallocated, TypeOK
  <1>9. ViewsWithin' /\ WideUnshared'
    <2> SUFFICES ASSUME NEW l \in allocated
                 PROVE  size[l] <= Len(slots'[buf[l]]) /\ (Len(slots'[buf[l]]) >= Width => size[l] >= Width)
      BY <1>B DEF ViewsWithin, WideUnshared
    <2>0. l \in Lists /\ buf[l] \in Lists /\ size[l] \in Nat
      BY <1>0 DEF TypeOK
    <2>1. CASE buf[l] = b
      <3>1. size[l] <= Len(slots[b]) /\ used[b] < Width
        BY <1>4, <2>1 DEF IInv, ViewsWithin, ClaimExact
      <3> QED
        BY <1>A, <1>5, <2>0, <2>1, <3>1, ListAssumption
    <2>2. CASE buf[l] # b
      BY <1>0, <1>2, <2>0, <2>2 DEF IInv, ViewsWithin, WideUnshared
    <2> QED
      BY <2>1, <2>2
  <1>10. ASSUME NEW d PROVE Claims(d)' = Claims(d)
    <2>1. \A u \in Threads : call'[u].base = call[u].base /\ (call'[u].claimed <=> call[u].claimed)
      BY <1>0, <1>2
    <2> QED
      BY <1>B, <1>C, <2>1 DEF Claims
  <1>11. FrontierExact'
    <2> SUFFICES ASSUME NEW d \in allocated, Claims(d) = {} PROVE used[d] = Counter(Len(slots'[d]))
      BY <1>10, <1>B DEF FrontierExact, Counter
    <2>1. d # b /\ d \in Lists
      BY <1>0, <1>A DEF TypeOK
    <2> QED
      BY <1>2, <2>1 DEF IInv, FrontierExact
  <1>12. ClaimExact(b, t)'
    <2>1. SubSeq(slots'[b], 1, size[c.base]) = SubSeq(slots[b], 1, size[c.base])
      <3>1. size[c.base] \in 0..Len(slots[b])
        BY <1>A
      <3>2. SubSeq(Append(slots[b], Head(c.rest)), 1, size[c.base]) = SubSeq(slots[b], 1, size[c.base])
        BY <1>A, <1>1, <3>1, PrefixKept
      <3> QED
        BY <1>2, <3>2
    <2>2. size'[call'[t].base] = size[c.base] /\ call'[t].extra = c.extra /\ call'[t].rest = Tail(c.rest)
      BY <1>2, <1>B
    <2>3. slots'[b] \o Tail(c.rest) = slots[b] \o c.rest
      BY <1>1, <1>2
    <2>4. Claims(b)' = Claims(b) /\ used' = used /\ room' = room /\ buf' = buf /\ allocated' = allocated /\ size' = size
      BY <1>10, <1>B
    <2> QED
      BY <1>4, <2>1, <2>2, <2>3, <2>4 DEF ClaimExact
  <1>13. ASSUME NEW d \in allocated, NEW u \in Claims(d), u # t PROVE ClaimExact(d, u)'
    <2>1. ClaimExact(d, u) /\ d # b /\ call'[u] = call[u] /\ d \in Lists
      <3>1. ClaimExact(d, u) /\ u \in Threads
        BY <1>13 DEF IInv, ClaimsExact, Claims
      <3>2. d # b
        BY <1>4, <1>13 DEF ClaimExact
      <3> QED
        BY <1>0, <1>2, <1>13, <3>1, <3>2 DEF TypeOK
    <2>2. slots'[d] = slots[d]
      BY <1>2, <2>1
    <2> QED
      BY <1>10, <1>B, <2>1, <2>2 DEF ClaimExact
  <1>14. ClaimsExact'
    <2> SUFFICES ASSUME NEW d \in allocated, NEW u \in Claims(d) PROVE ClaimExact(d, u)'
      BY <1>10, <1>B DEF ClaimsExact
    <2>1. CASE u = t
      <3>1. d = b
        BY <2>1 DEF Claims
      <3> QED
        BY <1>12, <2>1, <3>1
    <2>2. CASE u # t
      BY <1>13, <2>2
    <2> QED
      BY <2>1, <2>2
  <1>15. Unwritten'
    BY <1>2, <1>C DEF IInv, Unwritten
  <1>16. FreeBlank'
    BY <1>0, <1>2, <1>B DEF IInv, FreeBlank, Free
  <1> QED
    BY <1>3, <1>6, <1>7, <1>8, <1>9, <1>11, <1>14, <1>15, <1>16 DEF IInv


(* A list handed out views a buffer that is alive, and keeps it so. *)
LEMMA ViewInv ==
    ASSUME IInv, NEW t \in Threads, NEW l \in Lists, View(t, l)
    PROVE  IInv'
  <1> PICK c, b : c = call[t] /\ b = buf[c.base]
    OBVIOUS
  <1>0. /\ TypeOK /\ Calling(t) /\ c \in Calls /\ c.claimed /\ c.base \in allocated /\ b \in allocated
        /\ buf[b] = b /\ b \in Lists /\ c.base \in Lists /\ c.rest = << >> /\ l \notin allocated /\ l # b
        /\ c.extra \in Seq(Elems) /\ size[c.base] \in Nat /\ slots[b] \in Seq(Elems)
        /\ size[c.base] <= Len(slots[b]) /\ t \in Claims(b)
    BY CallTypes DEF IInv, TypeOK, ReferencesAlive, Bases, BuffersAlive, ViewsWithin, Claims, View, Free
  <1>A. /\ buf' = [buf EXCEPT ![l] = b]
        /\ keep' = [keep EXCEPT ![l] = Keeper(c.base)]
        /\ size' = [size EXCEPT ![l] = size[c.base] + Len(c.extra)]
        /\ call' = [call EXCEPT ![t] = None]
        /\ allocated' = allocated \union {l} /\ held' = held \union {l}
        /\ UNCHANGED <<slots, room, used, grown>>
    BY DEF View, bufferVars
  <1>1. Keeper(c.base) = b
    BY <1>0, ListAssumption DEF IInv, BuffersAlive, Keeper
  <1>2. ClaimExact(b, t)
    BY <1>0 DEF IInv, ClaimsExact
  <1>3. /\ Len(c.extra) \in Nat /\ Len(slots[b]) = size[c.base] + Len(c.extra)
        /\ used[b] = Len(slots[b]) /\ Len(slots[b]) < Width
    <2>1. Len(SubSeq(slots[b], 1, size[c.base]) \o c.extra) = size[c.base] + Len(c.extra)
      BY <1>0
    <2>2. slots[b] \o << >> = slots[b]
      BY <1>0, ConcatEmptySeq
    <2>3. Len(c.extra) \in Nat
      BY <1>0
    <2>4. SubSeq(slots[b], 1, size[c.base]) \o c.extra = slots[b]
      BY <1>0, <1>2, <2>2 DEF ClaimExact
    <2> QED
      BY <1>0, <1>2, <2>1, <2>3, <2>4 DEF ClaimExact
  <1>4. /\ \A m \in allocated : m \in Lists /\ m # l /\ buf'[m] = buf[m] /\ keep'[m] = keep[m] /\ size'[m] = size[m]
        /\ buf'[l] = b /\ keep'[l] = b /\ size'[l] = Len(slots[b])
    BY <1>0, <1>1, <1>3, <1>A DEF TypeOK
  <1>5. /\ \A u \in Threads : u # t => call'[u] = call[u] /\ (Calling(u)' <=> Calling(u))
        /\ ~ Calling(t)'
    BY <1>0, <1>A DEF Calling, TypeOK
  <1>6. \A u \in Threads : Calling(u) => call[u].base \in allocated
    BY DEF IInv, ReferencesAlive, Bases
  <1>7. TypeOK'
    <2>1. size[c.base] + Len(c.extra) \in Nat
      BY <1>0, <1>3
    <2> QED
      BY <1>0, <1>1, <2>1, <1>A DEF TypeOK
  <1>8. BuffersAlive'
    BY <1>0, <1>4, <1>A DEF IInv, BuffersAlive
  <1>9. NeverReallocated'
    <2> SUFFICES ASSUME NEW m \in allocated' PROVE Len(slots[m]) <= room[m]
      BY <1>A DEF NeverReallocated
    <2>1. CASE m \in allocated
      BY <2>1 DEF IInv, NeverReallocated
    <2>2. CASE m = l
      BY <1>0, <2>2 DEF IInv, FreeBlank, Free
    <2> QED
      BY <1>A, <2>1, <2>2
  <1>10. ReferencesAlive'
    BY <1>5, <1>6, <1>A DEF IInv, ReferencesAlive, Bases
  <1>11. ViewsWithin' /\ WideUnshared'
    <2> SUFFICES ASSUME NEW m \in allocated'
                 PROVE  /\ size'[m] <= Len(slots[buf'[m]])
                        /\ Len(slots[buf'[m]]) >= Width => size'[m] >= Width
      BY <1>A DEF ViewsWithin, WideUnshared
    <2>1. CASE m \in allocated
      BY <1>4, <2>1 DEF IInv, ViewsWithin, WideUnshared
    <2>2. CASE m = l
      BY <1>0, <1>3, <1>4, <2>2
    <2> QED
      BY <1>A, <2>1, <2>2
  <1>12. \A d \in allocated : d # b => Claims(d)' = Claims(d) /\ t \notin Claims(d)
    BY <1>0, <1>4, <1>5, <1>6 DEF Claims
  <1>13. FrontierExact'
    <2> SUFFICES ASSUME NEW d \in allocated', Claims(d)' = {} PROVE used[d] = Counter(Len(slots[d]))
      BY <1>A DEF FrontierExact, Counter
    <2>1. CASE d = b
      <3>1. Len(slots[b]) \in Nat
        BY <1>0
      <3> QED
        BY <1>3, <2>1, <3>1, CounterFacts
    <2>2. CASE d \in allocated /\ d # b
      BY <1>12, <2>2 DEF IInv, FrontierExact
    <2>3. CASE d = l
      <3>1. slots[l] = << >> /\ used[l] = 0
        BY <1>0 DEF IInv, FreeBlank, Free
      <3> QED
        BY <2>3, <3>1, CounterFacts, ListAssumption
    <2> QED
      BY <1>A, <2>1, <2>2, <2>3
  <1>14. ClaimsExact'
    <2> SUFFICES ASSUME NEW d \in allocated', NEW u \in Claims(d)' PROVE ClaimExact(d, u)'
      BY DEF ClaimsExact
    <2>1. u # t /\ u \in Threads /\ call'[u] = call[u] /\ Calling(u) /\ call[u].claimed
          /\ call[u].base \in allocated /\ buf[call[u].base] = d
      BY <1>4, <1>5, <1>6 DEF Claims
    <2>2. d \in allocated /\ d # b /\ u \in Claims(d) /\ d # l
      <3>1. d \in allocated /\ u \in Claims(d)
        BY <2>1 DEF IInv, BuffersAlive, Claims
      <3> QED
        BY <1>0, <1>2, <2>1, <3>1 DEF ClaimExact
    <2>3. ClaimExact(d, u) /\ Claims(d)' = Claims(d)
      BY <1>12, <2>2 DEF IInv, ClaimsExact
    <2>4. size'[call[u].base] = size[call[u].base]
          /\ \A m \in allocated' : buf'[m] = d => m \in allocated /\ buf[m] = d /\ size'[m] = size[m]
      BY <1>4, <1>A, <2>1, <2>2
    <2> QED
      BY <1>A, <2>1, <2>3, <2>4 DEF ClaimExact
  <1>15. Unwritten'
    BY <1>5 DEF IInv, Unwritten
  <1>16. FreeBlank'
    BY <1>A DEF IInv, FreeBlank, Free
  <1> QED
    BY <1>7, <1>8, <1>9, <1>10, <1>11, <1>13, <1>14, <1>15, <1>16 DEF IInv


(* Nobody refers to a list destroyed: no value, no call, and no list that
   views its buffer, for that one would keep it. *)
LEMMA DestroyInv ==
    ASSUME IInv, NEW l \in Lists, Destroy(l)
    PROVE  IInv'
  <1>0. /\ TypeOK /\ l \in allocated /\ l \notin held /\ l \notin Bases /\ l \notin Kept
        /\ allocated' = allocated \ {l} /\ held' = held /\ call' = call
        /\ buf' = [buf EXCEPT ![l] = l] /\ keep' = [keep EXCEPT ![l] = None]
        /\ size' = [size EXCEPT ![l] = 0] /\ slots' = [slots EXCEPT ![l] = << >>]
        /\ room' = [room EXCEPT ![l] = 0] /\ used' = [used EXCEPT ![l] = 0]
        /\ grown' = [grown EXCEPT ![l] = FALSE]
    BY DEF IInv, Destroy
  <1>1. \A m \in allocated' : buf[m] # l /\ m \in allocated /\ m # l /\ m \in Lists /\ buf[m] \in Lists
    <2> SUFFICES ASSUME NEW m \in allocated' PROVE buf[m] # l
      BY <1>0 DEF TypeOK
    <2>1. m \in allocated /\ m # l /\ keep[m] # l
      BY <1>0 DEF Kept
    <2> QED
      BY <1>0, <2>1 DEF IInv, BuffersAlive
  <1>2. \A m \in allocated' : /\ buf'[m] = buf[m] /\ keep'[m] = keep[m] /\ size'[m] = size[m]
                              /\ slots'[m] = slots[m] /\ room'[m] = room[m] /\ used'[m] = used[m]
                              /\ slots'[buf[m]] = slots[buf[m]]
    BY <1>0, <1>1 DEF TypeOK
  <1>3. \A u \in Threads : Calling(u) => call[u].base \in allocated'
    BY <1>0 DEF IInv, ReferencesAlive, Bases
  <1>4. TypeOK'
    <2>1. << >> \in Seq(Elems) /\ 0 \in 0..(Width - 1)
      BY ListAssumption
    <2> QED
      BY <1>0, <2>1 DEF TypeOK
  <1>5. BuffersAlive'
    BY <1>0, <1>1, <1>2 DEF IInv, BuffersAlive
  <1>6. NeverReallocated' /\ ViewsWithin' /\ WideUnshared'
    BY <1>1, <1>2 DEF IInv, NeverReallocated, ViewsWithin, WideUnshared
  <1>7. ReferencesAlive'
    BY <1>0, <1>3 DEF IInv, ReferencesAlive, Bases, Calling
  <1>8. \A b \in allocated' : Claims(b)' = Claims(b)
    BY <1>0, <1>2, <1>3 DEF Claims, Calling
  <1>9. FrontierExact'
    BY <1>1, <1>2, <1>8 DEF IInv, FrontierExact, Counter
  <1>10. ClaimsExact'
    <2> SUFFICES ASSUME NEW b \in allocated', NEW u \in Claims(b) PROVE ClaimExact(b, u)'
      BY <1>8 DEF ClaimsExact
    <2>1. ClaimExact(b, u) /\ call[u].base \in allocated'
      BY <1>1, <1>3 DEF IInv, ClaimsExact, Claims
    <2>2. /\ size'[call'[u].base] = size[call[u].base] /\ call'[u] = call[u]
          /\ slots'[b] = slots[b] /\ room'[b] = room[b] /\ used'[b] = used[b]
          /\ \A m \in allocated' : m \in allocated /\ buf'[m] = buf[m] /\ size'[m] = size[m]
      BY <1>0, <1>1, <1>2, <2>1
    <2> QED
      BY <1>8, <2>1, <2>2 DEF ClaimExact
  <1>11. Unwritten' /\ FreeBlank'
    BY <1>0 DEF IInv, Unwritten, FreeBlank, Free, Calling, TypeOK
  <1> QED
    BY <1>4, <1>5, <1>6, <1>7, <1>9, <1>10, <1>11 DEF IInv

LEMMA DropInv ==
    ASSUME IInv, held' \subseteq held, UNCHANGED <<allocated, buf, keep, size, bufferVars, call>>
    PROVE  IInv'
  <1>1. /\ held' \subseteq held /\ allocated' = allocated /\ buf' = buf /\ keep' = keep /\ size' = size
        /\ slots' = slots /\ room' = room /\ used' = used /\ grown' = grown /\ call' = call
    BY DEF bufferVars
  <1>2. ASSUME NEW b PROVE Claims(b)' = Claims(b)
    BY <1>1 DEF Claims, Calling
  <1>3. TypeOK' /\ ReferencesAlive' /\ Unwritten' /\ FreeBlank'
    BY <1>1 DEF IInv, TypeOK, ReferencesAlive, Bases, Calling, Unwritten, FreeBlank, Free
  <1>4. BuffersAlive' /\ NeverReallocated' /\ ViewsWithin' /\ WideUnshared'
    BY <1>1 DEF IInv, BuffersAlive, NeverReallocated, ViewsWithin, WideUnshared
  <1>5. FrontierExact'
    BY <1>1, <1>2 DEF IInv, FrontierExact, Counter
  <1>6. ClaimsExact'
    BY <1>1, <1>2 DEF IInv, ClaimsExact, ClaimExact
  <1> QED
    BY <1>3, <1>4, <1>5, <1>6 DEF IInv

LEMMA NextInv == IInv /\ [Next]_vars => IInv'
  <1> SUFFICES ASSUME IInv, [Next]_vars PROVE IInv'
    OBVIOUS
  <1>1. CASE \E l \in Lists, items \in Literals, spare \in Spares : MakeList(l, items, spare)
    BY <1>1, MakeListInv
  <1>2. ASSUME NEW t \in Threads, \E base \in Lists, extra \in Extras : AppendBegin(t, base, extra)
        PROVE  IInv'
    BY <1>2, AppendBeginInv
  <1>3. ASSUME NEW t \in Threads, Claim(t) \/ PushBack(t) PROVE IInv'
    BY <1>3, ClaimInv, PushBackInv
  <1>4. ASSUME NEW t \in Threads, NEW l \in Lists, View(t, l) \/ Copy(t, l) PROVE IInv'
    BY <1>4, ViewInv, CopyInv
  <1>5. ASSUME NEW l \in Lists, Drop(l) \/ Destroy(l) PROVE IInv'
    BY <1>5, DropInv, DestroyInv DEF Drop
  <1>6. CASE UNCHANGED vars
    BY <1>6, DropInv DEF vars, bufferVars
  <1> QED
    BY <1>1, <1>2, <1>3, <1>4, <1>5, <1>6 DEF Next

(* Every state the lists can be in satisfies the inductive invariant. *)
THEOREM Invariance == Spec => []IInv
  BY InitInv, NextInv, PTL DEF Spec

(* Every variable keeps to its type; the counter of a buffer fits its width. *)
THEOREM TypeCorrect == Spec => []TypeOK
  <1>1. IInv => TypeOK
    BY DEF IInv
  <1> QED
    BY <1>1, Invariance, PTL

(* The allocation a list's buffer is in exists as long as the list does, and
   one reference keeps it (keep_, value.hpp). *)
THEOREM BuffersStayAlive == Spec => []BuffersAlive
  <1>1. IInv => BuffersAlive
    BY DEF IInv
  <1> QED
    BY <1>1, Invariance, PTL

(* listAppend never writes past the capacity of a buffer, so the element
   pointers of other lists stay good. *)
THEOREM BuffersStayPut == Spec => []NeverReallocated
  <1>1. IInv => NeverReallocated
    BY DEF IInv
  <1> QED
    BY <1>1, Invariance, PTL

------------------------------------------------------------------------------
(* The refinement. *)
LEMMA ContentsType ==
    ASSUME IInv, NEW l \in allocated
    PROVE  /\ Contents(l) \in Seq(Elems) /\ Value(l) = Contents(l) /\ Value(l) # None
           /\ l \in Lists /\ size[l] \in 0..Len(slots[buf[l]]) /\ slots[buf[l]] \in Seq(Elems)
  <1>1. l \in Lists /\ slots[buf[l]] \in Seq(Elems) /\ size[l] \in 0..Len(slots[buf[l]])
    BY DEF IInv, TypeOK, ViewsWithin
  <1>2. Contents(l) \in Seq(Elems)
    BY <1>1 DEF Contents
  <1> QED
    BY <1>1, <1>2, ListAssumption DEF Value

LEMMA AskedType ==
    ASSUME IInv, NEW t \in Threads, Calling(t)
    PROVE  /\ call[t].base \in allocated
           /\ Asked(t) = Contents(call[t].base) \o call[t].extra /\ Asked(t) # None
           /\ Asked(t) \in Seq(Elems)
  <1>1. call[t].base \in allocated /\ call[t].extra \in Seq(Elems)
    BY CallTypes DEF IInv, ReferencesAlive, Bases
  <1>2. Contents(call[t].base) \in Seq(Elems)
    BY <1>1, ContentsType
  <1>3. Contents(call[t].base) \o call[t].extra \in Seq(Elems)
    BY <1>1, <1>2
  <1> QED
    BY <1>1, <1>3, ListAssumption DEF Asked

LEMMA InitImplements == Init => Immutable!Init
  BY DEF Init, Immutable!Init, Values, Asks, Value, Asked, Calling

(* Calls whose base shows the same as before ask for the same. *)
LEMMA AsksKept ==
    ASSUME IInv, NEW u \in Threads,
           \A m \in allocated : Contents(m)' = Contents(m),
           Calling(u)' <=> Calling(u),
           Calling(u) => call'[u].base = call[u].base /\ call'[u].extra = call[u].extra
    PROVE  Asked(u)' = Asked(u)
  <1>1. CASE ~ Calling(u)
    BY <1>1 DEF Asked
  <1>2. CASE Calling(u)
    <2>1. PICK m \in allocated : m = call[u].base
      BY <1>2, AskedType
    <2>2. Contents(call[u].base)' = Contents(m)'
      BY <1>2, <2>1
    <2> QED
      BY <1>2, <2>1, <2>2 DEF Asked
  <1> QED
    BY <1>1, <1>2

LEMMA OwnBufferValues ==
    ASSUME IInv, NEW l \in Free, NEW items \in Seq(Elems), NEW capacity, NEW fromAppend,
           OwnBuffer(l, items, capacity, fromAppend)
    PROVE  /\ \A m \in allocated : Contents(m)' = Contents(m)
           /\ Values[l] = None /\ Values' = [Values EXCEPT ![l] = items]
  <1>0. TypeOK /\ l \in Lists /\ l \notin allocated /\ allocated' = allocated \union {l}
    BY DEF IInv, OwnBuffer, Free
  <1>1. \A m \in allocated : Contents(m)' = Contents(m)
    <2> SUFFICES ASSUME NEW m \in allocated PROVE Contents(m)' = Contents(m)
      OBVIOUS
    <2>1. m # l /\ buf[m] # l /\ m \in Lists /\ buf[m] \in Lists
      BY <1>0 DEF IInv, BuffersAlive, TypeOK
    <2>2. buf'[m] = buf[m] /\ size'[m] = size[m] /\ slots'[buf[m]] = slots[buf[m]]
      BY <1>0, <2>1 DEF TypeOK, OwnBuffer
    <2> QED
      BY <2>2 DEF Contents
  <1>2. Contents(l)' = items
    <2>1. buf'[l] = l /\ size'[l] = Len(items) /\ slots'[l] = items
      BY <1>0 DEF TypeOK, OwnBuffer
    <2> QED
      BY <2>1, SubSeqFull DEF Contents
  <1>3. \A m \in Lists : Value(m)' = IF m = l THEN items ELSE Value(m)
    BY <1>0, <1>1, <1>2 DEF Value
  <1> QED
    BY <1>0, <1>1, <1>3 DEF Values, Value

LEMMA MakeListImplements ==
    ASSUME IInv, NEW l \in Lists, NEW items \in Literals, NEW spare \in Spares, MakeList(l, items, spare)
    PROVE  Immutable!Next
  <1>1. /\ \A m \in allocated : Contents(m)' = Contents(m)
        /\ Values[l] = None /\ Values' = [Values EXCEPT ![l] = items]
    BY OwnBufferValues, ListAssumption DEF MakeList
  <1>2. Asks' = Asks
    <2>1. call' = call /\ \A u \in Threads : Calling(u)' <=> Calling(u)
      BY DEF MakeList, Calling
    <2> QED
      BY <1>1, <2>1, AsksKept DEF Asks
  <1>3. Immutable!Make(l, items)
    BY <1>1, <1>2 DEF Immutable!Make, Immutable!Become
  <1> QED
    BY <1>3 DEF Immutable!Next

(* Handing out what was asked for, whichever way it was put together. *)
LEMMA AnswerImplements ==
    ASSUME IInv, NEW t \in Threads, NEW l \in Lists, Calling(t), Values[l] = None,
           Values' = [Values EXCEPT ![l] = Asked(t)], call' = [call EXCEPT ![t] = None],
           \A m \in allocated : Contents(m)' = Contents(m)
    PROVE  Immutable!Next
  <1>1. Asks[t] # None /\ Asks[t] = Asked(t)
    BY AskedType DEF Asks
  <1>2. ~ Calling(t)' /\ \A u \in Threads : u # t => call'[u] = call[u] /\ (Calling(u)' <=> Calling(u))
    BY DEF Calling, IInv, TypeOK
  <1>3. Asks' = [Asks EXCEPT ![t] = None]
    <2>1. \A u \in Threads : u # t => Asked(u)' = Asked(u)
      BY <1>2, AsksKept
    <2>2. Asked(t)' = None
      BY <1>2 DEF Asked
    <2> QED
      BY <2>1, <2>2 DEF Asks
  <1>4. Immutable!Answer(t, l)
    BY <1>1, <1>3 DEF Immutable!Answer, Immutable!Become
  <1> QED
    BY <1>4 DEF Immutable!Next

LEMMA CopyImplements ==
    ASSUME IInv, NEW t \in Threads, NEW l \in Lists, Copy(t, l)
    PROVE  Immutable!Next
  <1>1. Calling(t) /\ Asked(t) = Contents(call[t].base) \o call[t].extra /\ Asked(t) \in Seq(Elems)
    BY AskedType DEF Copy
  <1>2. OwnBuffer(l, Asked(t), RoomFor(call[t].base, Len(Asked(t))), TRUE) /\ l \in Free
    BY <1>1 DEF Copy
  <1>3. call' = [call EXCEPT ![t] = None]
    BY DEF Copy
  <1>4. PICK items \in Seq(Elems) : items = Asked(t)
    BY <1>1
  <1>5. /\ \A m \in allocated : Contents(m)' = Contents(m)
        /\ Values[l] = None /\ Values' = [Values EXCEPT ![l] = items]
    BY <1>2, <1>4, OwnBufferValues
  <1> QED
    BY <1>1, <1>3, <1>4, <1>5, AnswerImplements

LEMMA ViewImplements ==
    ASSUME IInv, NEW t \in Threads, NEW l \in Lists, View(t, l)
    PROVE  Immutable!Next
  <1> PICK c, b : c = call[t] /\ b = buf[c.base]
    OBVIOUS
  <1>0. /\ TypeOK /\ Calling(t) /\ c.base \in allocated /\ b \in allocated /\ l \in Free
        /\ slots[b] \in Seq(Elems) /\ t \in Claims(b) /\ c.rest = << >> /\ c.extra \in Seq(Elems)
        /\ size[c.base] \in 0..Len(slots[b])
    <2>1. TypeOK /\ Calling(t) /\ c.claimed /\ c.rest = << >> /\ l \in Free /\ c.base \in allocated
      BY AskedType DEF IInv, View
    <2>2. c.extra \in Seq(Elems) /\ c.base \in Lists
      BY <2>1, CallTypes
    <2>3. b \in allocated /\ size[c.base] \in 0..Len(slots[b]) /\ slots[b] \in Seq(Elems)
      BY <2>1, ContentsType DEF IInv, BuffersAlive
    <2> QED
      BY <2>1, <2>2, <2>3 DEF Claims
  <1>1. /\ buf' = [buf EXCEPT ![l] = b] /\ size' = [size EXCEPT ![l] = size[c.base] + Len(c.extra)]
        /\ slots' = slots /\ allocated' = allocated \union {l} /\ call' = [call EXCEPT ![t] = None]
    BY DEF View, bufferVars
  <1>2. \A m \in allocated : Contents(m)' = Contents(m)
    BY <1>0, <1>1 DEF Contents, TypeOK, Free
  <1>3. SubSeq(slots[b], 1, size[c.base]) \o c.extra = slots[b]
    <2>1. slots[b] \o << >> = slots[b]
      BY <1>0, ConcatEmptySeq
    <2> QED
      BY <1>0, <2>1 DEF IInv, ClaimsExact, ClaimExact
  <1>4. Asked(t) = slots[b]
    BY <1>0, <1>3, AskedType DEF Contents
  <1>5. Contents(l)' = slots[b]
    <2>1. Len(SubSeq(slots[b], 1, size[c.base]) \o c.extra) = size[c.base] + Len(c.extra)
      BY <1>0
    <2>2. buf'[l] = b /\ size'[l] = Len(slots[b])
      BY <1>0, <1>1, <1>3, <2>1 DEF TypeOK, Free
    <2> QED
      BY <1>0, <1>1, <2>2, SubSeqFull DEF Contents
  <1>6. Values[l] = None /\ Values' = [Values EXCEPT ![l] = Asked(t)]
    <2>1. \A m \in Lists : Value(m)' = IF m = l THEN slots[b] ELSE Value(m)
      BY <1>0, <1>1, <1>2, <1>5 DEF Value, Free
    <2> QED
      BY <1>0, <1>4, <2>1 DEF Values, Value, Free
  <1> QED
    BY <1>0, <1>1, <1>2, <1>6, AnswerImplements

LEMMA AppendBeginImplements ==
    ASSUME IInv, NEW t \in Threads, NEW base \in Lists, NEW extra \in Extras, AppendBegin(t, base, extra)
    PROVE  Immutable!Next
  <1>1. /\ ~ Calling(t) /\ base \in allocated /\ call' = [call EXCEPT ![t] = Called(base, extra)]
        /\ allocated' = allocated /\ buf' = buf /\ size' = size /\ slots' = slots
    BY DEF IInv, ReferencesAlive, AppendBegin, bufferVars
  <1>2. Called(base, extra) \in Calls
    BY ListAssumption DEF Called, Calls
  <1>3. /\ call'[t] = Called(base, extra) /\ Calling(t)'
        /\ \A u \in Threads : u # t => call'[u] = call[u] /\ (Calling(u)' <=> Calling(u))
    BY <1>1, <1>2, ListAssumption DEF IInv, TypeOK, Calling
  <1>4. \A m : Contents(m)' = Contents(m) /\ Value(m)' = Value(m)
    BY <1>1 DEF Contents, Value
  <1>5. Values' = Values
    BY <1>4 DEF Values
  <1>6. Asks' = [Asks EXCEPT ![t] = Contents(base) \o extra]
    <2>1. \A u \in Threads : u # t => Asked(u)' = Asked(u)
      BY <1>3, <1>4, AsksKept
    <2>2. Asked(t)' = Contents(base) \o extra
      <3>1. call'[t].base = base /\ call'[t].extra = extra
        BY <1>3 DEF Called
      <3>2. Contents(call[t].base)' = Contents(base)
        BY <1>1, <3>1 DEF Contents
      <3> QED
        BY <1>3, <3>1, <3>2 DEF Asked
    <2> QED
      BY <2>1, <2>2 DEF Asks
  <1>7. Asks[t] = None /\ Values[base] # None /\ Values[base] = Contents(base)
    BY <1>1, ContentsType DEF Asks, Asked, Values
  <1>8. Immutable!Ask(t, base, extra)
    BY <1>5, <1>6, <1>7 DEF Immutable!Ask
  <1> QED
    BY <1>8 DEF Immutable!Next

LEMMA StutterImplements ==
    ASSUME IInv, allocated' = allocated, \A m \in allocated : Contents(m)' = Contents(m),
           \A u \in Threads : /\ Calling(u)' <=> Calling(u)
                              /\ Calling(u) => call'[u].base = call[u].base /\ call'[u].extra = call[u].extra
    PROVE  UNCHANGED <<Values, Asks>>
  <1>1. \A u \in Threads : Asked(u)' = Asked(u)
    BY AsksKept
  <1>2. \A m \in Lists : Value(m)' = Value(m)
    BY DEF Value
  <1> QED
    BY <1>1, <1>2 DEF Values, Asks

LEMMA ClaimImplements ==
    ASSUME IInv, NEW t \in Threads, Claim(t)
    PROVE  UNCHANGED <<Values, Asks>>
  <1>1. /\ allocated' = allocated /\ buf' = buf /\ size' = size /\ slots' = slots
        /\ call' = [call EXCEPT ![t].claimed = TRUE] /\ Calling(t)
    BY DEF Claim
  <1>2. call[t] \in Calls
    BY <1>1, CallTypes DEF IInv
  <1>3. /\ call'[t] \in Calls /\ call'[t].base = call[t].base /\ call'[t].extra = call[t].extra
        /\ \A u \in Threads : u # t => call'[u] = call[u]
    BY <1>1, <1>2 DEF IInv, TypeOK, Calls
  <1>4. \A u \in Threads : Calling(u)' <=> Calling(u)
    BY <1>1, <1>3, ListAssumption DEF Calling
  <1>5. \A m : Contents(m)' = Contents(m)
    BY <1>1 DEF Contents
  <1> QED
    BY <1>1, <1>3, <1>4, <1>5, StutterImplements

LEMMA PushBackImplements ==
    ASSUME IInv, NEW t \in Threads, PushBack(t)
    PROVE  UNCHANGED <<Values, Asks>>
  <1> PICK c, b : c = call[t] /\ b = buf[c.base]
    OBVIOUS
  <1>1. /\ allocated' = allocated /\ buf' = buf /\ size' = size
        /\ slots' = [slots EXCEPT ![b] = Append(@, Head(c.rest))]
        /\ call' = [call EXCEPT ![t].rest = Tail(@)] /\ Calling(t) /\ c.rest # << >>
    BY DEF PushBack
  <1>2. c \in Calls /\ Head(c.rest) \in Elems /\ Tail(c.rest) \in Seq(Elems)
    BY <1>1, CallTypes, AppendThenRest DEF IInv
  <1>3. /\ call'[t] \in Calls /\ call'[t].base = call[t].base /\ call'[t].extra = call[t].extra
        /\ \A u \in Threads : u # t => call'[u] = call[u]
    BY <1>1, <1>2 DEF IInv, TypeOK, Calls
  <1>4. \A u \in Threads : Calling(u)' <=> Calling(u)
    BY <1>1, <1>3, ListAssumption DEF Calling
  <1>5. ASSUME NEW m \in allocated PROVE Contents(m)' = Contents(m)
    <2>1. size[m] \in 0..Len(slots[buf[m]]) /\ slots[buf[m]] \in Seq(Elems) /\ m \in Lists /\ buf[m] \in Lists
      BY ContentsType DEF IInv, TypeOK
    <2>2. slots'[buf[m]] = IF buf[m] = b THEN Append(slots[b], Head(c.rest)) ELSE slots[buf[m]]
      BY <1>1, <2>1 DEF IInv, TypeOK
    <2>3. CASE buf[m] # b
      BY <1>1, <2>2, <2>3 DEF Contents
    <2>4. CASE buf[m] = b
      <3>1. SubSeq(Append(slots[b], Head(c.rest)), 1, size[m]) = SubSeq(slots[b], 1, size[m])
        BY <1>2, <2>1, <2>4, PrefixKept
      <3> QED
        BY <1>1, <2>2, <2>4, <3>1 DEF Contents
    <2> QED
      BY <2>3, <2>4
  <1> QED
    BY <1>1, <1>3, <1>4, <1>5, StutterImplements

LEMMA DestroyImplements ==
    ASSUME IInv, NEW l \in Lists, Destroy(l)
    PROVE  Immutable!Next
  <1>0. /\ TypeOK /\ l \in allocated /\ l \notin Bases /\ l \notin Kept
        /\ allocated' = allocated \ {l} /\ call' = call
        /\ buf' = [buf EXCEPT ![l] = l] /\ size' = [size EXCEPT ![l] = 0] /\ slots' = [slots EXCEPT ![l] = << >>]
    BY DEF IInv, Destroy
  <1>1. \A m \in allocated : m # l => Contents(m)' = Contents(m)
    <2> SUFFICES ASSUME NEW m \in allocated, m # l PROVE Contents(m)' = Contents(m)
      OBVIOUS
    <2>1. buf[m] # l /\ m \in Lists /\ buf[m] \in Lists
      BY <1>0 DEF Kept, IInv, BuffersAlive, TypeOK
    <2> QED
      BY <1>0, <2>1 DEF Contents, TypeOK
  <1>2. Values' = [Values EXCEPT ![l] = None]
    <2>1. \A m \in Lists : Value(m)' = IF m = l THEN None ELSE Value(m)
      BY <1>0, <1>1 DEF Value
    <2> QED
      BY <2>1 DEF Values
  <1>3. \A u \in Threads : Asked(u)' = Asked(u)
    <2> SUFFICES ASSUME NEW u \in Threads PROVE Asked(u)' = Asked(u)
      OBVIOUS
    <2>1. CASE ~ Calling(u)
      BY <1>0, <2>1 DEF Asked, Calling
    <2>2. CASE Calling(u)
      <3>1. PICK m \in allocated : m = call[u].base /\ m # l
        BY <1>0, <2>2, AskedType DEF Bases
      <3>2. Contents(call[u].base)' = Contents(m)
        BY <1>0, <1>1, <3>1
      <3> QED
        BY <1>0, <2>2, <3>1, <3>2 DEF Asked, Calling
    <2> QED
      BY <2>1, <2>2
  <1>4. Asks' = Asks
    BY <1>3 DEF Asks
  <1>5. Immutable!Forget(l)
    BY <1>2, <1>4 DEF Immutable!Forget
  <1> QED
    BY <1>5 DEF Immutable!Next

LEMMA NextImplements == IInv /\ [Next]_vars => [Immutable!Next]_<<Values, Asks>>
  <1> SUFFICES ASSUME IInv, [Next]_vars PROVE [Immutable!Next]_<<Values, Asks>>
    OBVIOUS
  <1>1. CASE \E l \in Lists, items \in Literals, spare \in Spares : MakeList(l, items, spare)
    BY <1>1, MakeListImplements
  <1>2. ASSUME NEW t \in Threads, \E base \in Lists, extra \in Extras : AppendBegin(t, base, extra)
        PROVE  Immutable!Next
    BY <1>2, AppendBeginImplements
  <1>3. ASSUME NEW t \in Threads, Claim(t) \/ PushBack(t) PROVE UNCHANGED <<Values, Asks>>
    BY <1>3, ClaimImplements, PushBackImplements
  <1>4. ASSUME NEW t \in Threads, NEW l \in Lists, View(t, l) \/ Copy(t, l) PROVE Immutable!Next
    BY <1>4, ViewImplements, CopyImplements
  <1>5. ASSUME NEW l \in Lists, Destroy(l) PROVE Immutable!Next
    BY <1>5, DestroyImplements
  <1>6. ASSUME \/ UNCHANGED vars
               \/ \E l \in Lists : Drop(l)
        PROVE  UNCHANGED <<Values, Asks>>
    <2>1. allocated' = allocated /\ buf' = buf /\ size' = size /\ slots' = slots /\ call' = call
      BY <1>6 DEF vars, Drop, bufferVars
    <2>2. \A m : Contents(m)' = Contents(m)
      BY <2>1 DEF Contents
    <2>3. \A u \in Threads : Calling(u)' <=> Calling(u)
      BY <2>1 DEF Calling
    <2> QED
      BY <2>1, <2>2, <2>3, StutterImplements
  <1> QED
    BY <1>1, <1>2, <1>3, <1>4, <1>5, <1>6 DEF Next

(* Lists over shared buffers, appended to by any number of threads at once,
   are the immutable values a script sees. *)
THEOREM ListsAreImmutable == Spec => ImplementsImmutableLists
  BY InitImplements, NextImplements, Invariance, PTL DEF Spec, ImplementsImmutableLists, Immutable!Spec

==============================================================================
