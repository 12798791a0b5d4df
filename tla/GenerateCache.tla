--------------------------- MODULE GenerateCache ---------------------------
(***************************************************************************)
(* The generate pass over a resolved CSG tree (csg_generate.cpp) and the   *)
(* ManifoldCache it fills and reads (manifold_cache.cpp).  Several         *)
(* evaluators may share one cache: a host renders on one thread while      *)
(* another thread renders or clears it.                                    *)
(*                                                                         *)
(* generateTreeImpl is recursive; here its activations are the frames of   *)
(* an explicit stack, one per CSGNode being generated, over one for the    *)
(* list the pass was called with.  The cache is read when a node is        *)
(* entered and written when it is finished, and everything in between can  *)
(* be interleaved with other evaluators or cut short by an exception.      *)
(*                                                                         *)
(* A body is a sequence of parts (the runs of its mesh), each with a shape *)
(* and the original ID that a click on it is looked up by.                 *)
(***************************************************************************)
EXTENDS Integers, Sequences, FiniteSets

CONSTANTS
  Evaluators,
  Nodes,          (* CSGNodes, named by the source that wrote them         *)
  Kind,           (* node -> "solid", "open", "union", "hull" or so         *)
  Kids,           (* node -> its children, a sequence                      *)
  Height,         (* node -> how far its subtree goes down                 *)
  Param,          (* node -> its resolved parameters, as serialized        *)
  Drawn,          (* leaf -> what it really draws                          *)
  HasClosure,     (* nodes with a function literal among their parameters  *)
  Tainted,        (* nodes that called rands(): CSGNode::uncacheable       *)
  Warns,          (* nodes whose generation warns, whatever encloses them  *)
  Scripts,        (* evaluator -> its jobs: [list |-> the top-level nodes, *)
                  (*   mode |-> "minuend" for keepMinuendColor, or "plain"] *)
  Measured,       (* the lists that render() expressions measure           *)
  Shown,          (* the lists that a paused debugger has drawn            *)
  None,           (* null                                                  *)
  MaxIds          (* bound: original IDs in use at once                    *)

ASSUME NodesAssumption ==
  /\ HasClosure \subseteq Nodes /\ Tainted \subseteq Nodes /\ Warns \subseteq Nodes
  /\ None \notin Nodes
  /\ Measured \cup Shown \subseteq Seq(Nodes)
  /\ Scripts \in [Evaluators -> SUBSET [list : Seq(Nodes), mode : {"minuend", "plain"}]]
  /\ MaxIds \in Nat

(* The resolved nodes are finitely many and form trees.                    *)
ASSUME TreeAssumption ==
  /\ IsFiniteSet(Nodes)
  /\ Kids \in [Nodes -> Seq(Nodes)]
  /\ Height \in [Nodes -> 0 .. Cardinality(Nodes)]
  /\ \A n \in Nodes : \A i \in 1 .. Len(Kids[n]) : Height[Kids[n][i]] < Height[n]

VARIABLES
  cache,        (* entries_: key -> [parts, warnings]                      *)
  script,       (* evaluator -> the tree it is evaluating, or None         *)
  pass,         (* evaluator -> "render", "partial" or "measure"           *)
  stack,        (* evaluator -> activations of generateTreeImpl            *)
  insideHull,   (* evaluator -> the flag of that name                      *)
  warnEntry,    (* evaluator -> generateWarnEntry                          *)
  capture,      (* evaluator -> warnCapture: the frame it points into, 0   *)
  echoed,       (* evaluator -> what the pass has printed                  *)
  idToNode,     (* evaluator -> its map of IDs to nodes                    *)
  producer,     (* evaluator -> cacheProducer_                             *)
  result        (* evaluator -> the last pass it completed, or None        *)

vars == << cache, script, pass, stack, insideHull, warnEntry, capture, echoed,
           idToNode, producer, result >>

-----------------------------------------------------------------------------
(* What a tree is, says and draws.                                         *)

(* f over the elements of a list, concatenated. *)
Gather(f, list) ==
  LET upto[i \in 0 .. Len(list)] ==
        IF i = 0 THEN << >> ELSE upto[i - 1] \o f[list[i]]
  IN  upto[Len(list)]

Modes == {"minuend", "plain"}
Mode(e) == script[e].mode

(* cacheKey: kind, parameters, children's keys; not the node itself. *)
Key[n \in Nodes] ==
  [kind |-> Kind[n], param |-> Param[n],
   kids |-> [i \in 1 .. Len(Kids[n]) |-> Key[Kids[n][i]]]]

(* Mutant: the colouring mode is left out of the key. *)
KeyInAnyMode(m, n) == << "plain", Key[n] >>

(* The key a mode uses: keepMinuendColor prefixes all of its own. *)
KeyIn(m, n) == << m, Key[n] >>

Below[n \in Nodes] == {n} \cup UNION {Below[Kids[n][i]] : i \in 1 .. Len(Kids[n])}
AllBelow(list) == UNION {Below[list[i]] : i \in 1 .. Len(list)}

(* Mutant: a closure is keyed like any other parameter. *)
CacheableIfUntainted(n) == n \notin Tainted

(* keyHasClosure and uncacheable both rise to the ancestors. *)
Cacheable(n) == Below[n] \cap (Tainted \cup HasClosure) = {}

(* A GenerateFn sees the parameters and the children's bodies, all of them *)
(* in the key, and nothing else unless it draws random numbers or calls a  *)
(* closure.                                                                *)
ASSUME KeysTell ==
  \A a, b \in Nodes : Cacheable(a) /\ Cacheable(b) /\ Key[a] = Key[b] =>
    Drawn[a] = Drawn[b] /\ (a \in Warns <=> b \in Warns)

Shape(op, name, of) == [op |-> op, name |-> name, of |-> of]

(* The shapes of a node's parts, generated afresh, per mode. *)
Draws[m \in Modes] ==
  LET shapes[n \in Nodes] ==
        CASE Kind[n] = "union" -> Gather(shapes, Kids[n])
          [] Kind[n] = "hull"  -> << Shape("hull", "", Gather(shapes, Kids[n])) >>
          [] Kind[n] = "difference" -> << Shape("cut", m, Gather(shapes, Kids[n])) >>
          [] OTHER -> << Shape("leaf", Drawn[n], << >>) >>
  IN  shapes

(* What generating a node says.  An open mesh speaks up unless a hull()    *)
(* takes only its points; everything else speaks wherever it stands.       *)
Warning(why, n) == << why, Param[n] >>
Own(n, underHull) ==
  (IF Kind[n] = "open" /\ ~ underHull THEN << Warning("open", n) >> ELSE << >>)
    \o (IF n \in Warns THEN << Warning("other", n) >> ELSE << >>)

(* The warnings that do not depend on an enclosing hull(). *)
Steady(warnings) ==
  Gather([i \in 1 .. Len(warnings) |->
            IF warnings[i][1] = "open" THEN << >> ELSE << warnings[i] >>],
         [i \in 1 .. Len(warnings) |-> i])

(* What a node and its children say of that kind. *)
Says[n \in Nodes] == Gather(Says, Kids[n]) \o Steady(Own(n, FALSE))

-----------------------------------------------------------------------------
(* Parts and their IDs.                                                    *)

Ids == 1 .. MaxIds
IdsOf(parts) == {parts[i].id : i \in 1 .. Len(parts)}
Shapes(parts) == [i \in 1 .. Len(parts) |-> parts[i].shape]

Frame(n, list, keyed, hull, cap) ==
  [node |-> n, list |-> list, next |-> 1, parts |-> << >>, said |-> << >>,
   keyed |-> keyed, hull |-> hull, cap |-> cap]

(* ReserveIDs: an ID nothing refers to.  The counter behind it never       *)
(* repeats; here an ID that has been forgotten everywhere may return.      *)
InUse ==
  (UNION {IdsOf(cache[k].parts) : k \in DOMAIN cache})
    \cup (UNION {DOMAIN idToNode[e] : e \in Evaluators})
    \cup (UNION {UNION {IdsOf(stack[e][d].parts) : d \in 1 .. Len(stack[e])} : e \in Evaluators})
    \cup (UNION {IF result[e] = None THEN {} ELSE IdsOf(result[e].parts) : e \in Evaluators})

Reserve(n) ==
  LET free == Ids \ InUse
  IN  [i \in 1 .. n |-> CHOOSE id \in free : Cardinality({j \in free : j < id}) = i - 1]
CanReserve(n) == Cardinality(Ids \ InUse) >= n

Extend(f, new) == [x \in DOMAIN f \cup DOMAIN new |-> IF x \in DOMAIN new THEN new[x] ELSE f[x]]
Entry(x, y) == [z \in {x} |-> y]
NoMap == [x \in {} |-> None]

(* Mutant: a cached body keeps the IDs it was stored with. *)
KeepsStamps(parts, n, old, made) == [parts |-> parts, nodes |-> NoMap]

(* restampCachedIds: one fresh ID per distinct ID of a cached body.  It    *)
(* stands for the reusing node when the old ID stood for the producer or   *)
(* is unknown, else for what the old one stood for.                        *)
Distinct(parts) == {i \in 1 .. Len(parts) : \A j \in 1 .. (i - 1) : parts[j].id # parts[i].id}

Restamped(parts, n, old, made) ==
  LET olds   == Distinct(parts)
      fresh  == Reserve(Cardinality(olds))
      rank(i) == Cardinality({j \in olds : j <= i})
      new(id) == fresh[rank(CHOOSE i \in olds : parts[i].id = id)]
      known(id) == id \in DOMAIN old /\ old[id] # made
  IN  [parts |-> [i \in 1 .. Len(parts) |->
                    [id |-> new(parts[i].id), shape |-> parts[i].shape]],
       nodes |-> [f \in {new(parts[i].id) : i \in olds} |->
                    LET i == CHOOSE j \in olds : new(parts[j].id) = f
                    IN  IF known(parts[i].id) THEN old[parts[i].id] ELSE n]]

(* A GenerateFn: leaves and hulls and differences make a part of their own *)
(* (tagGenerated), a union keeps its children's parts.                     *)
Makes(n) == Kind[n] # "union"
Generated(e, n, parts) ==
  IF ~ Makes(n) THEN parts
  ELSE << [id |-> Reserve(1)[1],
           shape |-> CASE Kind[n] = "hull" -> Shape("hull", "", Shapes(parts))
                       [] Kind[n] = "difference" -> Shape("cut", Mode(e), Shapes(parts))
                       [] OTHER -> Shape("leaf", Drawn[n], << >>)] >>

-----------------------------------------------------------------------------
Depth(e) == Len(stack[e])
TopFrame(e) == stack[e][Depth(e)]
Finished(f) == f.next > Len(f.list)

(* Mutant: nobody collects. *)
HeardByNobody(s, d, warnings) == s

(* emitWarning: prints, and appends to the vector warnCapture points at.   *)
(* Only frame d of s can be that vector.                                   *)
Heard(s, d, warnings) ==
  [i \in 1 .. Len(s) |->
     IF i = d THEN [s[i] EXCEPT !.said = @ \o warnings] ELSE s[i]]

(* Mutant: the walk skips the next sibling. *)
DeliveredTwice(s, parts) ==
  [s EXCEPT ![Len(s)].parts = @ \o parts, ![Len(s)].next = @ + 2]

(* The caller of the finished or skipped node receives its parts. *)
Delivered(s, parts) ==
  [s EXCEPT ![Len(s)].parts = @ \o parts, ![Len(s)].next = @ + 1]

Init ==
  /\ cache = NoMap
  /\ script = [e \in Evaluators |-> None]
  /\ pass = [e \in Evaluators |-> "render"]
  /\ stack = [e \in Evaluators |-> << >>]
  /\ insideHull = [e \in Evaluators |-> FALSE]
  /\ warnEntry = [e \in Evaluators |-> None]
  /\ capture = [e \in Evaluators |-> 0]
  /\ echoed = [e \in Evaluators |-> << >>]
  /\ idToNode = [e \in Evaluators |-> NoMap]
  /\ producer = [e \in Evaluators |-> NoMap]
  /\ result = [e \in Evaluators |-> None]

(* Mutant: the maps of the previous evaluation survive. *)
EvaluateKeepingMaps(e) ==
  /\ stack[e] = << >> /\ script[e] = None
  /\ \E s \in Scripts[e] : script' = [script EXCEPT ![e] = s]
  /\ result' = [result EXCEPT ![e] = None]
  /\ echoed' = [echoed EXCEPT ![e] = << >>]
  /\ UNCHANGED << cache, pass, stack, insideHull, warnEntry, capture, idToNode, producer >>

(* resolveTreeImpl: a new evaluation forgets the provenance of the last.   *)
Evaluate(e) ==
  /\ stack[e] = << >> /\ script[e] = None
  /\ \E s \in Scripts[e] : script' = [script EXCEPT ![e] = s]
  /\ idToNode' = [idToNode EXCEPT ![e] = NoMap]
  /\ producer' = [producer EXCEPT ![e] = NoMap]
  /\ result' = [result EXCEPT ![e] = None]
  /\ echoed' = [echoed EXCEPT ![e] = << >>]
  /\ UNCHANGED << cache, pass, stack, insideHull, warnEntry, capture >>

(* generateTree at the end of an evaluation; before that, measurements by  *)
(* render() expressions (measureCsgSubtree) and, from a paused debugger,   *)
(* whatever nodes are complete (generatePartialTree).  A measured list is  *)
(* written with the nodes of the script that have the same contents: it    *)
(* leaves no trace of which nodes they were.                               *)
Requests(e, kind) ==
  LET ofThisScript(lists) == {r \in lists : AllBelow(r) \subseteq AllBelow(script[e].list)}
  IN  CASE kind = "render"  -> {script[e].list}
        [] kind = "measure" -> ofThisScript(Measured)
        [] kind = "partial" -> ofThisScript(Shown)

Generate(e, kind) ==
  /\ stack[e] = << >> /\ script[e] # None
  /\ \E list \in Requests(e, kind) :
       stack' = [stack EXCEPT ![e] =
                   << Frame(None, list, FALSE, insideHull[e], capture[e]) >>]
  /\ pass' = [pass EXCEPT ![e] = kind]
  /\ echoed' = [echoed EXCEPT ![e] = << >>]
  /\ result' = [result EXCEPT ![e] = None]
  /\ UNCHANGED << cache, script, insideHull, warnEntry, capture, idToNode, producer >>

(* The next node of the innermost list is entered: the cache is asked. *)
Upcoming(e) == TopFrame(e).list[TopFrame(e).next]
Entering(e) == stack[e] # << >> /\ ~ Finished(TopFrame(e))
Hits(e, n) == Cacheable(n) /\ KeyIn(Mode(e), n) \in DOMAIN cache

(* A hit runs nothing: the stored bodies under fresh IDs, the stored       *)
(* warnings said again.  A measurement leaves the IDs and the maps alone.  *)
Hit(e) ==
  /\ Entering(e) /\ Hits(e, Upcoming(e))
  /\ LET n == Upcoming(e)
         entry == cache[KeyIn(Mode(e), n)]
         made == IF KeyIn(Mode(e), n) \in DOMAIN producer[e] THEN producer[e][KeyIn(Mode(e), n)] ELSE None
         stamped == IF pass[e] = "measure" THEN [parts |-> entry.parts, nodes |-> NoMap]
                    ELSE Restamped(entry.parts, n, idToNode[e], made)
     IN  /\ pass[e] = "measure" \/ CanReserve(Cardinality(Distinct(entry.parts)))
         /\ echoed' = [echoed EXCEPT ![e] = @ \o entry.warnings]
         /\ stack' = [stack EXCEPT ![e] =
                        Delivered(Heard(@, capture[e], entry.warnings), stamped.parts)]
         /\ idToNode' = [idToNode EXCEPT ![e] = Extend(@, stamped.nodes)]
  /\ UNCHANGED << cache, script, pass, insideHull, warnEntry, capture, producer, result >>

(* A miss: the children come first, under insideHull for a hull(), with    *)
(* the warnings collected if there is an entry to store them in.           *)
Miss(e) ==
  /\ Entering(e) /\ ~ Hits(e, Upcoming(e))
  /\ LET n == Upcoming(e)
     IN  /\ stack' = [stack EXCEPT ![e] =
                        Append(@, Frame(n, Kids[n], Cacheable(n), insideHull[e], capture[e]))]
         /\ insideHull' = [insideHull EXCEPT ![e] = @ \/ Kind[n] = "hull"]
         /\ capture' = [capture EXCEPT ![e] = IF Cacheable(n) THEN Depth(e) + 1 ELSE @]
  /\ UNCHANGED << cache, script, pass, warnEntry, echoed, idToNode, producer, result >>

(* The children are done: insideHull is put back, the node is generated,   *)
(* stored with everything its subtree said, and handed to its caller.      *)
Finish(e) ==
  /\ Depth(e) > 1 /\ Finished(TopFrame(e))
  /\ LET f == TopFrame(e)
         n == f.node
         own == Own(n, f.hull)
         heard == IF f.keyed THEN f.said \o own ELSE own
         parts == Generated(e, n, f.parts)
         key == KeyIn(Mode(e), n)
         below == SubSeq(stack[e], 1, Depth(e) - 1)
     IN  /\ Makes(n) => CanReserve(1)
         /\ insideHull' = [insideHull EXCEPT ![e] = f.hull]
         /\ capture' = [capture EXCEPT ![e] = f.cap]
         /\ echoed' = [echoed EXCEPT ![e] = @ \o own]
         /\ stack' = [stack EXCEPT ![e] = Delivered(Heard(below, f.cap, heard), parts)]
         /\ idToNode' = IF Makes(n) /\ pass[e] # "measure"
                        THEN [idToNode EXCEPT ![e] = Extend(@, Entry(parts[1].id, n))]
                        ELSE idToNode
         /\ cache' = IF f.keyed
                     THEN Extend(cache, Entry(key, [parts |-> parts, warnings |-> heard]))
                     ELSE cache
         /\ producer' = IF f.keyed /\ pass[e] # "measure"
                        THEN [producer EXCEPT ![e] = Extend(@, Entry(key, n))]
                        ELSE producer
  /\ UNCHANGED << script, pass, warnEntry, result >>

(* The pass is over; after the final one, so is the evaluation. *)
Complete(e) ==
  /\ Depth(e) = 1 /\ Finished(TopFrame(e))
  /\ result' = [result EXCEPT ![e] =
                  [pass |-> pass[e], script |-> script[e], list |-> TopFrame(e).list,
                   parts |-> TopFrame(e).parts]]
  /\ stack' = [stack EXCEPT ![e] = << >>]
  /\ script' = [script EXCEPT ![e] = IF pass[e] = "render" THEN None ELSE @]
  /\ UNCHANGED << cache, pass, insideHull, warnEntry, capture, echoed, idToNode, producer >>

(* Mutant: warnCapture is restored on the normal path only. *)
FailCapturing(e) ==
  /\ stack[e] # << >>
  /\ stack' = [stack EXCEPT ![e] = << >>]
  /\ script' = [script EXCEPT ![e] = None]
  /\ UNCHANGED << cache, pass, insideHull, warnEntry, capture, echoed, idToNode,
                  producer, result >>

(* checkCancel throws at the next node, or the GenerateFn of a finished    *)
(* one does, and the evaluation ends.  The guards of all activations       *)
(* restore warnCapture; insideHull and generateWarnEntry have no guard.    *)
Fail(e) ==
  /\ stack[e] # << >>
  /\ stack' = [stack EXCEPT ![e] = << >>]
  /\ script' = [script EXCEPT ![e] = None]
  /\ capture' = [capture EXCEPT ![e] = stack[e][1].cap]
  /\ \/ /\ Entering(e) \/ Depth(e) = 1
        /\ UNCHANGED << insideHull, warnEntry >>
     \/ /\ Depth(e) > 1 /\ Finished(TopFrame(e))
        /\ insideHull' = [insideHull EXCEPT ![e] = TopFrame(e).hull]
        /\ warnEntry' = [warnEntry EXCEPT ![e] = TopFrame(e).node]
  /\ UNCHANGED << cache, pass, echoed, idToNode, producer, result >>

(* ManifoldCache::clear, by the host, at any time. *)
Clear ==
  /\ cache' = NoMap
  /\ UNCHANGED << script, pass, stack, insideHull, warnEntry, capture, echoed,
                  idToNode, producer, result >>

Next ==
  \/ \E e \in Evaluators :
       \/ Evaluate(e)
       \/ \E kind \in {"render", "partial", "measure"} : Generate(e, kind)
       \/ Hit(e) \/ Miss(e) \/ Finish(e) \/ Complete(e) \/ Fail(e)
  \/ Clear

Spec == Init /\ [][Next]_vars

-----------------------------------------------------------------------------
IsParts(parts) == \A i \in 1 .. Len(parts) : parts[i].id \in Ids

(* What an evaluator's variables range over, but for the IDs. *)
StateOK ==
  /\ DOMAIN script = Evaluators /\ \A e \in Evaluators : script[e] \in Scripts[e] \cup {None}
  /\ pass \in [Evaluators -> {"render", "partial", "measure"}]
  /\ DOMAIN stack = Evaluators /\ DOMAIN echoed = Evaluators
  /\ DOMAIN result = Evaluators /\ DOMAIN idToNode = Evaluators /\ DOMAIN producer = Evaluators
  /\ insideHull \in [Evaluators -> BOOLEAN]
  /\ warnEntry \in [Evaluators -> Nodes \cup {None}]
  /\ capture \in [Evaluators -> Nat]

(* The IDs: of parts, and of the parts that can be clicked on. *)
IdsOK ==
  /\ \A k \in DOMAIN cache : IsParts(cache[k].parts)
  /\ \A e \in Evaluators : \A d \in 1 .. Depth(e) : IsParts(stack[e][d].parts)
  /\ \A e \in Evaluators : DOMAIN idToNode[e] \subseteq Ids
  /\ \A e \in Evaluators : result[e] # None => IsParts(result[e].parts)

TypeOK == StateOK /\ IdsOK

Completed(e) == result[e] # None

(* A render, a measurement or a partial render that completes has exactly  *)
(* the shapes it would have without a cache, whoever filled the cache, in  *)
(* whatever mode, and however many passes were cut short before.           *)
GeometryTransparent ==
  \A e \in Evaluators : Completed(e) =>
    Shapes(result[e].parts) = Gather(Draws[result[e].script.mode], result[e].list)

(* It also says what it would say without a cache: a warning is neither    *)
(* lost by a hit nor doubled.  Open meshes are left out: the key does not  *)
(* tell an entry filled under hull(), where they say nothing, from another.*)
WarningsTransparent ==
  \A e \in Evaluators : Completed(e) =>
    Steady(echoed[e]) = Gather(Says, result[e].list)

(* Every entry is a whole one: what an aborted pass leaves in the cache is *)
(* as good as what a finished one does.                                    *)
EntryOf(m, n, entry) ==
  Shapes(entry.parts) = Draws[m][n] /\ Steady(entry.warnings) = Says[n]
EntriesWhole ==
  \A m \in Modes, n \in Nodes :
    Cacheable(n) /\ KeyIn(m, n) \in DOMAIN cache => EntryOf(m, n, cache[KeyIn(m, n)])

(* A click on anything a pass returned for display leads to a node of the  *)
(* script that pass belongs to, never to one of an earlier parse.          *)
ClickFindsSource ==
  \A e \in Evaluators : Completed(e) /\ result[e].pass # "measure" =>
    \A id \in IdsOf(result[e].parts) :
      id \in DOMAIN idToNode[e] /\ idToNode[e][id] \in AllBelow(result[e].script.list)

(* Two parts never share an ID, or selecting either would select both.     *)
PartsSelectable ==
  \A e \in Evaluators : Completed(e) /\ result[e].pass # "measure" =>
    Cardinality(IdsOf(result[e].parts)) = Len(result[e].parts)

(* warnCapture never points into an activation that is over.               *)
CaptureAlive ==
  \A e \in Evaluators : capture[e] # 0 =>
    capture[e] <= Depth(e) /\ stack[e][capture[e]].keyed

(* A cache nobody can tell is there: what a pass draws and what it says do *)
(* not depend on it.                                                       *)
PassesTransparent == GeometryTransparent /\ WarningsTransparent

(* A click on a displayed part leads to the source it was drawn by, and to *)
(* that part alone.                                                        *)
PartsClickable == ClickFindsSource /\ PartsSelectable

(* Aborted passes leave neither a partial entry nor a capture that points  *)
(* into a frame that has gone.                                             *)
AbortsLeaveNothing == EntriesWhole /\ CaptureAlive

-----------------------------------------------------------------------------
(* Why it holds: what is true between any two steps.                       *)

IsList(s) == s \in Seq({s[i] : i \in DOMAIN s})
Done(f) == SubSeq(f.list, 1, f.next - 1)

(* The frame that warnings are collected in, or 0. *)
Collector(s) == IF s # << >> /\ s[Len(s)].keyed THEN Len(s) ELSE 0

FrameOK(f) ==
  /\ DOMAIN f = {"node", "list", "next", "parts", "said", "keyed", "hull", "cap"}
  /\ f.list \in Seq(Nodes) /\ f.next \in 1 .. (Len(f.list) + 1) /\ f.hull \in BOOLEAN

(* A frame generates the node that the one below it has come to. *)
FrameFollows(f, up, d) ==
  /\ up.next <= Len(up.list) /\ f.node = up.list[up.next]
  /\ f.list = Kids[f.node] /\ f.keyed = Cacheable(f.node)
  /\ up.keyed => f.keyed
  /\ f.cap = IF up.keyed THEN d - 1 ELSE 0

Nested(s) ==
  /\ IsList(s)
  /\ \A d \in 1 .. Len(s) :
       /\ FrameOK(s[d])
       /\ d = 1 => s[d].keyed = FALSE /\ s[d].cap = 0
       /\ d > 1 => FrameFollows(s[d], s[d - 1], d)

(* A frame has the parts of the nodes it is done with, and heard what they *)
(* said if it is to be stored.                                             *)
WholeFrame(f, m) ==
  /\ IsList(f.parts) /\ Shapes(f.parts) = Gather(Draws[m], Done(f))
  /\ IsList(f.said)
  /\ f.keyed => Steady(f.said) = Gather(Says, Done(f))

(* What the frames of a stack up to n have printed, the outermost first:   *)
(* all that the nodes they are done with say.                              *)
SaidTo(s, n) ==
  Gather([d \in 1 .. n |-> Gather(Says, Done(s[d]))], [d \in 1 .. n |-> d])

(* An evaluator with stack s, capture c, script sc, result r, which has    *)
(* printed said.                                                           *)
Sound(s, c, sc, r, said) ==
  /\ Nested(s) /\ c = Collector(s)
  /\ s # << >> => sc # None /\ r = None
  /\ \A d \in 1 .. Len(s) : WholeFrame(s[d], sc.mode)
  /\ IsList(said)
  /\ s # << >> => Steady(said) = SaidTo(s, Len(s))
  /\ r # None => /\ Shapes(r.parts) = Gather(Draws[r.script.mode], r.list)
                 /\ Steady(said) = Gather(Says, r.list)

EvaluatorSound(e) == Sound(stack[e], capture[e], script[e], result[e], echoed[e])

EntriesListed ==
  \A k \in DOMAIN cache : IsList(cache[k].parts) /\ IsList(cache[k].warnings)

CacheInv ==
  /\ StateOK
  /\ \A e \in Evaluators : EvaluatorSound(e)
  /\ EntriesListed /\ EntriesWhole

(* The parts of a frame can be clicked on, unless they are to be measured  *)
(* only; its nodes are of the script.                                      *)
Placed(f, sc, kind, nodes) ==
  /\ IdsOf(f.parts) \subseteq Ids
  /\ AllBelow(f.list) \subseteq AllBelow(sc.list)
  /\ kind # "measure" => IdsOf(f.parts) \subseteq DOMAIN nodes

LeadsTo(ids, nodes, sc) ==
  \A id \in ids : id \in DOMAIN nodes /\ nodes[id] \in AllBelow(sc.list)

(* An evaluator with stack s, script sc, a pass of that kind, the map of   *)
(* IDs to those nodes and result r.                                        *)
Clickable(s, sc, kind, nodes, r) ==
  /\ DOMAIN nodes \subseteq Ids
  /\ \A d \in 1 .. Len(s) : Placed(s[d], sc, kind, nodes)
  /\ sc # None => LeadsTo(DOMAIN nodes, nodes, sc)
  /\ r # None => /\ IdsOf(r.parts) \subseteq Ids
                 /\ r.pass # "measure" => LeadsTo(IdsOf(r.parts), nodes, r.script)

IdInv ==
  /\ \A k \in DOMAIN cache : IdsOf(cache[k].parts) \subseteq Ids
  /\ \A e \in Evaluators : Clickable(stack[e], script[e], pass[e], idToNode[e], result[e])

(* The parts of a body have an ID each; so have all the parts of a stack.  *)
OneEach(parts) == \A i, j \in 1 .. Len(parts) : parts[i].id = parts[j].id => i = j
Apart(s) ==
  /\ \A d \in 1 .. Len(s) : OneEach(s[d].parts)
  /\ \A c, d \in 1 .. Len(s) : c # d => IdsOf(s[c].parts) \cap IdsOf(s[d].parts) = {}

(* The nodes that are stored as one part if they are stored, and a premise *)
(* that the proof of PartsSelectable needs: no measurement stores a union. *)
Storable == {n \in Nodes : Cacheable(n) => Makes(n)}
NoUnionStored == \A list \in Measured : AllBelow(list) \subseteq Storable
OfStorable(s) == \A d \in 1 .. Len(s) : AllBelow(s[d].list) \subseteq Storable

(* An evaluator with stack s, a pass of that kind and result r.            *)
Selectable(s, kind, r) ==
  /\ IF kind = "measure" THEN OfStorable(s) ELSE Apart(s)
  /\ r # None /\ r.pass # "measure" => IsList(r.parts) /\ OneEach(r.parts)

SelectInv ==
  /\ \A k \in DOMAIN cache : OneEach(cache[k].parts)
  /\ \A e \in Evaluators : Selectable(stack[e], pass[e], result[e])
=============================================================================
