----------------------------- MODULE ListAppend -----------------------------
(***************************************************************************)
(* Lists over shared buffers (value.hpp, value.cpp).                       *)
(*                                                                         *)
(* A list is a read-only view of the first elements of a buffer.  A list   *)
(* made whole has its buffer in its own allocation; one that extends       *)
(* another in place views the other's buffer and keeps the allocation it   *)
(* is in alive.  Only a list that ends where the longest view ends may     *)
(* extend in place, and it claims the slots with one compare-and-swap on   *)
(* `used`; then it writes them, and then hands the new list out.  Any      *)
(* number of threads hold, append to and drop lists.                       *)
(*                                                                         *)
(* A list is named by its allocation; a buffer by the list it is in.       *)
(***************************************************************************)
EXTENDS Integers, Sequences, FiniteSets

CONSTANTS
    Lists,      \* allocations a ValueList can be in
    Threads,
    Elems,      \* what a list can hold
    Literals,   \* element sequences lists are made of (makeList)
    Extras,     \* element sequences lists are extended by, none of them empty
    Spares,     \* room a vector adopted by makeList may have left
    MaxSize,    \* bound: length of a list
    Width,      \* values of the counter `used` (2^32)
    None        \* no list

(* A listAppend in progress: its arguments, whether it has claimed the slots
   for the extra elements, and those that are still to be written. *)
Calls == [base : Lists, extra : Extras, claimed : BOOLEAN, rest : Seq(Elems)]

ASSUME ListAssumption ==
    /\ None \notin Lists \union Calls /\ None \notin Seq(Elems)
    /\ \A s \in Literals : s \in Seq(Elems)
    /\ \A s \in Extras : s \in Seq(Elems) /\ s # << >>
    /\ Spares \subseteq Nat /\ MaxSize \in Nat /\ Width \in Nat \ {0}

VARIABLES
    allocated,  \* the lists that exist
    buf,        \* [Lists -> the list whose allocation holds its buffer]    buf_
    keep,       \* [Lists -> the list it keeps alive, or None]              keep_
    size,       \* [Lists -> its length]                                    n_
    slots,      \* [Lists -> the elements written to its own buffer]        v
    room,       \* [Lists -> the capacity of that buffer]
    used,       \* [Lists -> how far its longest view reaches, mod Width]   used
    grown,      \* [Lists -> the buffer came from appending]                fromAppend
    held,       \* the lists some value refers to
    call        \* [Threads -> the listAppend in progress, or None]

vars == <<allocated, buf, keep, size, slots, room, used, grown, held, call>>
bufferVars == <<slots, room, used, grown>>

Called(base, extra) == [base |-> base, extra |-> extra, claimed |-> FALSE, rest |-> extra]

Calling(t) == call[t] # None
Bases == {call[t].base : t \in {u \in Threads : Calling(u)}}
Kept == {keep[l] : l \in allocated}

Contents(l) == SubSeq(slots[buf[l]], 1, size[l])

Init ==
    /\ allocated = {} /\ held = {}
    /\ buf = [l \in Lists |-> l] /\ keep = [l \in Lists |-> None]
    /\ size = [l \in Lists |-> 0] /\ slots = [l \in Lists |-> << >>]
    /\ room = [l \in Lists |-> 0] /\ used = [l \in Lists |-> 0]
    /\ grown = [l \in Lists |-> FALSE]
    /\ call = [t \in Threads |-> None]

(* A length as the counter holds it.  Mutant: the counter is as wide. *)
AsIs(n) == n
Counter(n) == n % Width

Free == Lists \ allocated

(* Memory is left for a new list and the result of every call in progress. *)
Room == Cardinality(Free) > Cardinality({t \in Threads : Calling(t)})

(* makeList: list and buffer in one allocation. *)
OwnBuffer(l, items, capacity, fromAppend) ==
    /\ buf' = [buf EXCEPT ![l] = l] /\ keep' = [keep EXCEPT ![l] = None]
    /\ size' = [size EXCEPT ![l] = Len(items)]
    /\ slots' = [slots EXCEPT ![l] = items]
    /\ room' = [room EXCEPT ![l] = capacity]
    /\ used' = [used EXCEPT ![l] = Counter(Len(items))]
    /\ grown' = [grown EXCEPT ![l] = fromAppend]
    /\ allocated' = allocated \union {l} /\ held' = held \union {l}

MakeList(l, items, spare) ==
    /\ l \in Free /\ Room
    /\ OwnBuffer(l, items, Len(items) + spare, FALSE)
    /\ UNCHANGED call

AppendBegin(t, base, extra) ==
    /\ ~ Calling(t) /\ base \in held /\ Room /\ size[base] + Len(extra) <= MaxSize
    /\ call' = [call EXCEPT ![t] = Called(base, extra)]
    /\ UNCHANGED <<allocated, buf, keep, size, bufferVars, held>>

(* Mutant: the length is not tested against the width of the counter. *)
FitsAtAnyLength(l, k) == room[buf[l]] - size[l] >= k
Fits(l, k) == room[buf[l]] - size[l] >= k /\ size[l] + k < Width

(* The compare-and-swap on used finds this list at the frontier. *)
(* Mutant: it only finds nothing missing. *)
FrontierOrBehind(l) == used[buf[l]] >= Counter(size[l])
Frontier(l) == used[buf[l]] = Counter(size[l])

InPlace(t) == LET c == call[t] IN Fits(c.base, Len(c.extra)) /\ Frontier(c.base)

Claim(t) ==
    /\ Calling(t) /\ ~ call[t].claimed /\ InPlace(t)
    /\ LET c == call[t]
       IN /\ used' = [used EXCEPT ![buf[c.base]] = Counter(size[c.base] + Len(c.extra))]
          /\ call' = [call EXCEPT ![t].claimed = TRUE]
    /\ UNCHANGED <<allocated, buf, keep, size, slots, room, grown, held>>

PushBack(t) ==
    /\ Calling(t) /\ call[t].claimed /\ call[t].rest # << >>
    /\ LET c == call[t]
       IN /\ slots' = [slots EXCEPT ![buf[c.base]] = Append(@, Head(c.rest))]
          /\ call' = [call EXCEPT ![t].rest = Tail(@)]
    /\ UNCHANGED <<allocated, buf, keep, size, room, used, grown, held>>

(* What keeps the buffer of a list extended in place alive. *)
(* Mutant: nothing, unless the base has something to keep. *)
KeeperOfBase(base) == keep[base]
Keeper(base) == IF keep[base] # None THEN keep[base] ELSE base

View(t, l) ==
    /\ Calling(t) /\ call[t].claimed /\ call[t].rest = << >> /\ l \in Free
    /\ LET c == call[t]
       IN /\ buf' = [buf EXCEPT ![l] = buf[c.base]]
          /\ keep' = [keep EXCEPT ![l] = Keeper(c.base)]
          /\ size' = [size EXCEPT ![l] = size[c.base] + Len(c.extra)]
    /\ call' = [call EXCEPT ![t] = None]
    /\ allocated' = allocated \union {l} /\ held' = held \union {l}
    /\ UNCHANGED bufferVars

(* A copy has half again the room if the list was appended to before. *)
RoomFor(base, n) == IF grown[buf[base]] THEN n + n \div 2 + 1 ELSE n

Copy(t, l) ==
    /\ Calling(t) /\ ~ call[t].claimed /\ ~ InPlace(t) /\ l \in Free
    /\ LET c == call[t]
           items == Contents(c.base) \o c.extra
       IN OwnBuffer(l, items, RoomFor(c.base, Len(items)), TRUE)
    /\ call' = [call EXCEPT ![t] = None]

(* The last value referring to a list goes; an allocation nothing refers to
   any more is given back. *)
Drop(l) ==
    /\ l \in held /\ held' = held \ {l}
    /\ UNCHANGED <<allocated, buf, keep, size, bufferVars, call>>

Destroy(l) ==
    /\ l \in allocated \ (held \union Bases \union Kept)
    /\ allocated' = allocated \ {l}
    /\ buf' = [buf EXCEPT ![l] = l] /\ keep' = [keep EXCEPT ![l] = None]
    /\ size' = [size EXCEPT ![l] = 0] /\ slots' = [slots EXCEPT ![l] = << >>]
    /\ room' = [room EXCEPT ![l] = 0] /\ used' = [used EXCEPT ![l] = 0]
    /\ grown' = [grown EXCEPT ![l] = FALSE]
    /\ UNCHANGED <<held, call>>

Next ==
    \/ \E l \in Lists, items \in Literals, spare \in Spares : MakeList(l, items, spare)
    \/ \E t \in Threads :
         \/ \E base \in Lists, extra \in Extras : AppendBegin(t, base, extra)
         \/ Claim(t) \/ PushBack(t)
         \/ \E l \in Lists : View(t, l) \/ Copy(t, l)
    \/ \E l \in Lists : Drop(l) \/ Destroy(l)

Spec == Init /\ [][Next]_vars

------------------------------------------------------------------------------
TypeOK ==
    /\ allocated \subseteq Lists /\ held \subseteq Lists
    /\ buf \in [Lists -> Lists] /\ keep \in [Lists -> Lists \union {None}]
    /\ size \in [Lists -> Nat] /\ room \in [Lists -> Nat]
    /\ used \in [Lists -> 0..(Width - 1)]
    /\ grown \in [Lists -> BOOLEAN]
    /\ slots \in [Lists -> Seq(Elems)]
    /\ call \in [Threads -> Calls \union {None}]

(* No element a list shows lies in memory that was given back: the allocation
   its buffer is in exists as long as the list does, although nobody may refer
   to the list that made it any more.  It is kept by one reference, not by a
   chain of them that a long accumulation would make as deep as the list. *)
BuffersAlive ==
    \A l \in allocated :
        /\ buf[l] \in allocated /\ buf[buf[l]] = buf[l]
        /\ keep[l] = IF buf[l] = l THEN None ELSE buf[l]

(* Within the capacity it was given a buffer never moves, so the element
   pointers of its views stay good. *)
NeverReallocated == \A l \in allocated : Len(slots[l]) <= room[l]

(* A script sees immutable lists: the elements of a list are those it was
   made with, whatever is appended by whom, to it or to lists it shares its
   buffer with; and an append returns its base followed by its extra. *)
Value(l) == IF l \in allocated THEN Contents(l) ELSE None
Asked(t) == IF Calling(t) THEN Contents(call[t].base) \o call[t].extra ELSE None
Values == [l \in Lists |-> Value(l)]
Asks == [t \in Threads |-> Asked(t)]

Immutable == INSTANCE ImmutableLists WITH value <- Values, asked <- Asks
ImplementsImmutableLists == Immutable!Spec

------------------------------------------------------------------------------
(* The inductive invariant.  Claims(b) are the calls that have claimed slots
   of buffer b and not yet handed out their list. *)
Claims(b) == {t \in Threads : Calling(t) /\ call[t].claimed /\ buf[call[t].base] = b}

ReferencesAlive == held \union Bases \subseteq allocated

ViewsWithin == \A l \in allocated : size[l] <= Len(slots[buf[l]])

(* A buffer as long as the counter is wide is never shared. *)
WideUnshared == \A l \in allocated : Len(slots[buf[l]]) >= Width => size[l] >= Width

FrontierExact == \A b \in allocated : Claims(b) = {} => used[b] = Counter(Len(slots[b]))

(* The one call that has claimed slots of a buffer extends its longest view,
   fills exactly the slots after it, and has the room to. *)
ClaimExact(b, t) ==
    /\ Claims(b) = {t}
    /\ used[b] = size[call[t].base] + Len(call[t].extra) /\ used[b] < Width /\ used[b] <= room[b]
    /\ \A l \in allocated : buf[l] = b => size[l] <= size[call[t].base]
    /\ SubSeq(slots[b], 1, size[call[t].base]) \o call[t].extra = slots[b] \o call[t].rest
ClaimsExact == \A b \in allocated : \A t \in Claims(b) : ClaimExact(b, t)

Unwritten == \A t \in Threads : Calling(t) /\ ~ call[t].claimed => call[t].rest = call[t].extra

(* Nothing is in an allocation that does not exist. *)
FreeBlank == \A l \in Free : slots[l] = << >> /\ used[l] = 0 /\ room[l] = 0

IInv ==
    /\ TypeOK /\ BuffersAlive /\ NeverReallocated /\ ReferencesAlive
    /\ ViewsWithin /\ WideUnshared /\ FrontierExact /\ ClaimsExact /\ Unwritten
    /\ FreeBlank

==============================================================================
