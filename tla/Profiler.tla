------------------------------ MODULE Profiler ------------------------------
(***************************************************************************)
(* Call-site profiling (debug_profile.cpp, profile.hpp).                   *)
(*                                                                         *)
(* Every call of a script is timed twice: for its call site, and for its   *)
(* node in the tree of the paths calls were reached by.  The time a call   *)
(* spends itself is what is left of it when the calls it made are taken    *)
(* off; the time including them is measured for a site, and for a node     *)
(* added up from the nodes below once the run is over.  Direct recursion   *)
(* folds onto its node, and so does every call once the tree is full.      *)
(*                                                                         *)
(* Time is a count of ticks; one passes wherever it may.                   *)
(***************************************************************************)
EXTENDS Integers, Sequences, FiniteSets, Functions, TLC

CONSTANTS
    TopSites,   \* call sites of the script's top level
    BodySites,  \* call sites inside bodies (of functions that call each other)
    MaxNodes,   \* kMaxProfilePathNodes
    MaxRuns, MaxDepth, MaxCalls, MaxTime    \* bounds of a behaviour

Sites == TopSites \union BodySites
Root == 1
NoPath == 0

ASSUME ProfilerAssumption ==
    /\ TopSites \intersect BodySites = {} /\ IsFiniteSet(Sites) /\ "<toplevel>" \notin Sites
    /\ MaxNodes \in Nat \ {0} /\ {MaxRuns, MaxDepth, MaxCalls, MaxTime} \subseteq Nat

VARIABLES
    phase,      \* "idle", "running", "failing" (an exception unwinds) or "reported"
    runs,
    handles,    \* what profileEnter returned, of the calls in progress, innermost last
    flat,       \* [Sites -> calls, self and cumulative time]        profileSites_
    active,     \* sites with a call in progress                     profileActive_
    childTime,  \* time spent in the calls each call made            profileChildTime_
    paths,      \* nodes: site, parent, calls, self time             profilePaths_
    current,    \* node of the innermost call, or NoPath             profileCurrentPath_
    now,        \* the clock, since the run began
    onTop,      \* [Sites -> ticks a call from the site was the innermost one]
    inside,     \* [Sites -> ticks some call from the site was in progress]
    cut         \* a call found the tree full

vars == <<phase, runs, handles, flat, active, childTime, paths, current, now, onTop, inside, cut>>
clocks == <<now, onTop, inside>>

Unused == [calls |-> 0, self |-> 0, cumulative |-> 0]
ToplevelNode == [site |-> "<toplevel>", parent |-> NoPath, calls |-> 0, self |-> 0]
Zero == [s \in Sites |-> 0]

Init ==
    /\ phase = "idle" /\ runs = 0 /\ handles = << >>
    /\ flat = [s \in Sites |-> Unused] /\ active = {} /\ childTime = << >>
    /\ paths = << >> /\ current = NoPath
    /\ now = 0 /\ onTop = Zero /\ inside = Zero /\ cut = FALSE

(* What evaluate() clears. *)
(* Mutant: the sites in progress are left from a run that was stopped. *)
ClearedButActive == flat' = [s \in Sites |-> Unused] /\ childTime' = << >> /\ UNCHANGED active
Cleared == flat' = [s \in Sites |-> Unused] /\ childTime' = << >> /\ active' = {}

StartRun ==
    /\ phase \in {"idle", "reported"} /\ runs < MaxRuns
    /\ Cleared
    /\ phase' = "running" /\ runs' = runs + 1
    /\ now' = 0 /\ onTop' = Zero /\ inside' = Zero
    /\ UNCHANGED <<handles, paths, current, cut>>

------------------------------------------------------------------------------
(* profilePathEnter: the node a call from s is at. *)
Tree == IF paths = << >> THEN << ToplevelNode >> ELSE paths
Parent == IF current = NoPath THEN Root ELSE current
ChildOf(p, s) == {i \in DOMAIN Tree : Tree[i].parent = p /\ Tree[i].site = s}

(* Direct recursion: only the parent is looked at, no node further up. *)
Folds(s) == Parent # Root /\ Tree[Parent].site = s

(* Mutant: the limit is passed by one. *)
FullPastLimit == Len(Tree) > MaxNodes
Full == Len(Tree) >= MaxNodes
New == Len(Tree) + 1
(* Mutant: a call folds onto any node on its path. *)
PathNodeOfAnyOpen(s) ==
    IF \E i \in DOMAIN handles : handles[i].site = s
    THEN (CHOOSE h \in {handles[i] : i \in DOMAIN handles} : h.site = s).node
    ELSE IF ChildOf(Parent, s) # {} THEN CHOOSE i \in ChildOf(Parent, s) : TRUE
    ELSE IF Full THEN Parent ELSE New
FindsFull(s) == ~ Folds(s) /\ ChildOf(Parent, s) = {} /\ Full
PathNode(s) ==
    IF Folds(s) \/ FindsFull(s) THEN Parent
    ELSE IF ChildOf(Parent, s) # {} THEN CHOOSE i \in ChildOf(Parent, s) : TRUE
    ELSE New
Grown(s) ==
    IF PathNode(s) > Len(Tree)
    THEN Append(Tree, [site |-> s, parent |-> Parent, calls |-> 0, self |-> 0]) ELSE Tree

Callable == IF handles = << >> THEN TopSites ELSE BodySites
CallsMade == SumFunction([s \in Sites |-> flat[s].calls])

ProfileEnter(s) ==
    /\ phase = "running" /\ s \in Callable
    /\ Len(handles) < MaxDepth /\ CallsMade < MaxCalls
    /\ flat' = [flat EXCEPT ![s].calls = @ + 1]
    /\ active' = active \union {s}
    /\ childTime' = Append(childTime, 0)
    /\ paths' = [Grown(s) EXCEPT ![PathNode(s)].calls = @ + 1]
    /\ current' = PathNode(s)
    /\ cut' = (cut \/ FindsFull(s))
    /\ UNCHANGED <<runs, clocks>>

Handle(s) ==
    [site |-> s, reentry |-> s \in active, start |-> now, node |-> PathNode(s), prev |-> current]

EnterUserCall(s) ==
    /\ ProfileEnter(s)
    /\ handles' = Append(handles, Handle(s)) /\ UNCHANGED phase

(* A stop at the checkpoint of the body: the call is entered, and the
   handle that would leave it is lost. *)
EnterStopped(s) ==
    /\ ProfileEnter(s)
    /\ phase' = "failing" /\ UNCHANGED handles

(* A tail call is counted and not timed. *)
RecordTailCallHop(s) ==
    /\ phase = "running" /\ handles # << >> /\ s \in BodySites /\ CallsMade < MaxCalls
    /\ flat' = [flat EXCEPT ![s].calls = @ + 1]
    /\ UNCHANGED <<phase, runs, handles, active, childTime, paths, current, clocks, cut>>

Elapsed(h) == now - h.start

(* Mutant: every entry of a site adds to its cumulative time. *)
CumulatesAlways(h) == TRUE
Cumulates(h) == ~ h.reentry

(* The caller's child time.  Mutant: a call that recurs is not counted. *)
PropagatedOnce(h, below) ==
    IF below = << >> \/ h.reentry THEN below
    ELSE [below EXCEPT ![Len(below)] = @ + Elapsed(h)]
Propagated(h, below) ==
    IF below = << >> THEN below ELSE [below EXCEPT ![Len(below)] = @ + Elapsed(h)]

ProfileExit ==
    /\ phase \in {"running", "failing"} /\ handles # << >>
    /\ LET h == handles[Len(handles)]
           own == Elapsed(h) - childTime[Len(childTime)]
       IN /\ flat' = [flat EXCEPT ![h.site].self = @ + own,
                                  ![h.site].cumulative = @ + IF Cumulates(h) THEN Elapsed(h) ELSE 0]
          /\ active' = IF h.reentry THEN active ELSE active \ {h.site}
          /\ paths' = [paths EXCEPT ![h.node].self = @ + own]
          /\ current' = h.prev
          /\ childTime' = Propagated(h, SubSeq(childTime, 1, Len(childTime) - 1))
    /\ handles' = SubSeq(handles, 1, Len(handles) - 1)
    /\ UNCHANGED <<phase, runs, clocks, cut>>

------------------------------------------------------------------------------
OpenSites == {handles[i].site : i \in DOMAIN handles}

Tick ==
    /\ phase = "running" /\ now < MaxTime
    /\ now' = now + 1
    /\ onTop' = IF handles = << >> THEN onTop ELSE [onTop EXCEPT ![handles[Len(handles)].site] = @ + 1]
    /\ inside' = [s \in Sites |-> inside[s] + IF s \in OpenSites THEN 1 ELSE 0]
    /\ UNCHANGED <<phase, runs, handles, flat, active, childTime, paths, current, cut>>

Fail ==
    /\ phase = "running" /\ phase' = "failing"
    /\ UNCHANGED <<runs, handles, flat, active, childTime, paths, current, clocks, cut>>

(* evaluate() returns with a report, or throws. *)
EndRun ==
    /\ phase \in {"running", "failing"} /\ handles = << >>
    /\ phase' = IF phase = "running" THEN "reported" ELSE "idle"
    /\ UNCHANGED <<runs, handles, flat, active, childTime, paths, current, clocks, cut>>

Next ==
    \/ StartRun \/ ProfileExit \/ Tick \/ Fail \/ EndRun
    \/ \E s \in Sites : EnterUserCall(s) \/ EnterStopped(s) \/ RecordTailCallHop(s)

Spec == Init /\ [][Next]_vars

------------------------------------------------------------------------------
(* The report.  finalizeProfilePaths: children come after their parents. *)
Children(i) == {j \in DOMAIN paths : paths[j].parent = i}
Cumulative[i \in DOMAIN paths] ==
    paths[i].self + SumFunction([j \in Children(i) |-> Cumulative[j]])
SelfTimes == [i \in DOMAIN paths |-> paths[i].self]

TypeOK ==
    /\ phase \in {"idle", "running", "failing", "reported"} /\ runs \in 0..MaxRuns
    /\ flat \in [Sites -> [calls : Nat, self : Int, cumulative : Nat]]
    /\ active \subseteq Sites /\ childTime \in Seq(Nat)
    /\ Len(paths) <= MaxNodes /\ current \in 0..Len(paths)
    /\ \A i \in DOMAIN paths : paths[i].parent < i /\ paths[i].self \in Int
    /\ \A i \in DOMAIN handles : handles[i].node \in DOMAIN paths

(* The table of sites is right whatever the run before it ended with: the self
   times are disjoint slices of the run and add up, with the time outside any
   call, to the whole; and the cumulative time of a site is the time during
   which it had a call in progress, however deep it recurs through others. *)
FlatExact ==
    phase = "reported" =>
        \A s \in Sites : flat[s].self = onTop[s] /\ flat[s].cumulative = inside[s]

(* The tree of an evaluator's first run agrees with the table: every tick of
   a site is at a node that was reached through the site, and a site reached
   one way has the same cumulative time in both. *)
NodesOf(s) == {i \in DOMAIN paths : paths[i].site = s}
TreeAgreesWithFlat ==
    phase = "reported" /\ runs = 1 /\ paths # << >> =>
        /\ Cumulative[Root] = SumFunction(onTop)
        /\ ~ cut =>
              \A s \in Sites :
                  /\ SumFunctionOnSet(SelfTimes, NodesOf(s)) = flat[s].self
                  /\ \A i \in NodesOf(s) : NodesOf(s) = {i} => Cumulative[i] = flat[s].cumulative

(* What a profile reports, as a table and as a tree, is the time that was
   spent (debug_profile.cpp:150-330). *)
TimesExact == FlatExact /\ TreeAgreesWithFlat

BodySymmetry == Permutations(BodySites)     \* for TLC
==============================================================================
