--------------------------- MODULE ImmutableLists ---------------------------
(***************************************************************************)
(* What a script may rely on: a list is a value.  A list is made; a thread *)
(* asks for a list followed by more elements, and gets what that was when  *)
(* it asked; a list is forgotten.  Nothing done to one list changes        *)
(* another (value.hpp, the comments on ListBuffer and listAppend).         *)
(***************************************************************************)
EXTENDS Sequences

CONSTANTS Lists, Threads, Literals, Extras, None

VARIABLES
    value,      \* [Lists -> the list's elements, or None]
    asked       \* [Threads -> the list a call in progress must return, or None]

Init ==
    /\ value = [l \in Lists |-> None]
    /\ asked = [t \in Threads |-> None]

Become(l, items) == value[l] = None /\ value' = [value EXCEPT ![l] = items]

Make(l, items) == Become(l, items) /\ UNCHANGED asked

Ask(t, l, extra) ==
    /\ asked[t] = None /\ value[l] # None
    /\ asked' = [asked EXCEPT ![t] = value[l] \o extra] /\ UNCHANGED value

Answer(t, l) ==
    /\ asked[t] # None
    /\ Become(l, asked[t]) /\ asked' = [asked EXCEPT ![t] = None]

Forget(l) == value' = [value EXCEPT ![l] = None] /\ UNCHANGED asked

Next ==
    \/ \E l \in Lists, items \in Literals : Make(l, items)
    \/ \E t \in Threads, l \in Lists :
          (\E extra \in Extras : Ask(t, l, extra)) \/ Answer(t, l)
    \/ \E l \in Lists : Forget(l)

Spec == Init /\ [][Next]_<<value, asked>>
==============================================================================
