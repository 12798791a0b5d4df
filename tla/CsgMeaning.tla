----------------------------- MODULE CsgMeaning -----------------------------
(***************************************************************************)
(* What a CSG tree means, as sets: the cells its solids cover, the         *)
(* segments its sections are drawn as, and the points of its open meshes;  *)
(* and what the bodies of CsgBodies, the messages and the files must have  *)
(* to do with it.                                                          *)
(***************************************************************************)
EXTENDS CsgBodies

Shape(bs) ==
  LET fore(b) == ~IsGhost(b)
      lead == SelectInSeq(bs, HasGeometry)
      of == Range(Among(bs, fore))
  IN [solid  |-> UNION {b.cells : b \in {c \in of : ~c.open}},
      plates |-> UNION {Drawn(b.xform, b.steps) : b \in {c \in of : c.dim = 2}},
      loose  |-> UNION {b.points : b \in of},
      lead   |-> IF \E b \in of : b.cells # {} \/ b.steps # {}
                 THEN bs[SelectInSeq(bs, LAMBDA b : HasGeometry(b) /\ ~b.open)].dim ELSE 0]

SolidOf(cells, loose) ==
  [solid |-> cells, plates |-> {}, loose |-> loose, lead |-> IF cells = {} THEN 0 ELSE 3]
FlatOf(steps, loose) ==
  [solid |-> {}, plates |-> Drawn(Identity, steps), loose |-> loose, lead |-> IF steps = {} THEN 0 ELSE 2]
Both(cells, steps, loose) ==
  [solid |-> cells, plates |-> Drawn(Identity, steps), loose |-> loose,
   lead |-> IF cells # {} THEN 3 ELSE IF steps # {} THEN 2 ELSE 0]

----------------------------------------------------------------------------
(* The meaning of a node: of all its children taken together (whole), and  *)
(* of each operand.                                                        *)

Union(whole) == Both(whole.solid, Shadow(whole.plates), whole.loose)

(* The loose points a difference or intersection carries along are those   *)
(* of the statements it came to, so they are left to it.                   *)
Less(sets) == IF sets = << >> THEN {} ELSE sets[1] \ UNION Range(Tail(sets))
Common(sets) == IF sets = << >> THEN {} ELSE {x \in sets[1] : \A s \in Range(sets) : x \in s}

Combined(Op(_), whole, operands) ==
  CASE whole.lead = 3 -> SolidOf(Op(Mapped(operands, LAMBDA s : s.solid)), {})
    [] whole.lead = 2 -> FlatOf(Op(Mapped(operands, LAMBDA s : Shadow(s.plates))), {})
    [] whole.lead = 0 -> SolidOf({}, {})

Sum(whole, operands) ==
  CASE whole.lead = 3 ->
         SolidOf(FoldLeft(LAMBDA acc, s : SumSolid(acc, s.solid), operands[1].solid, Tail(operands)), whole.loose)
    [] whole.lead = 2 ->
         FlatOf(FoldLeft(LAMBDA acc, s : SumFlat(acc, Shadow(s.plates)),
                         Shadow(operands[1].plates), Tail(operands)), whole.loose)
    [] whole.lead = 0 -> SolidOf({}, whole.loose)

(* An open mesh lends a hull its points. *)
HullOf(whole) ==
  IF whole.loose # {}
  THEN SolidOf(Hull(whole.loose \cup (IF whole.lead = 3 THEN Vertices(whole.solid) ELSE {})), {})
  ELSE IF whole.lead = 2 THEN FlatOf(Span(Ends(Shadow(whole.plates))), {})
  ELSE SolidOf(Hull(Vertices(whole.solid)), {})

OffsetOf(whole, by) ==
  IF whole.lead = 2
  THEN FlatOf((IF by = "out" THEN GrownFlat(Shadow(whole.plates)) ELSE ShrunkFlat(Shadow(whole.plates))), {})
  ELSE SolidOf((IF by = "out" THEN Grown(whole.solid) ELSE Shrunk(whole.solid)),
               IF whole.lead = 0 THEN {} ELSE whole.loose)

Turned(steps) ==
  IF AcrossAxis(steps) THEN {} ELSE (steps \cup {-x - 1 : x \in steps}) \X {0}

Moved(node, whole) ==
  LET m == Maps[node.arg] IN
  IF node.arg = "removed" THEN SolidOf({}, {})
  ELSE [whole EXCEPT !.solid = Move(m, @), !.plates = MoveDrawn(m, @),
                     !.loose = {At(m, p) : p \in @}]

(* Operations that hand their children's bodies on hand on one dimension,  *)
(* unless they are among those that keep a mix, and some see the plane.    *)
Passed(op, whole) ==
  LET one == CASE KeepsMixed(op) \/ whole.lead = 0 -> whole
               [] ~KeepsMixed(op) /\ whole.lead = 3 -> [whole EXCEPT !.plates = {}]
               [] ~KeepsMixed(op) /\ whole.lead = 2 -> [whole EXCEPT !.solid = {}]
  IN IF HasGenerator(op) /\ ~CarriesXform(op) THEN [one EXCEPT !.plates = Drawn(Identity, Shadow(@))] ELSE one

Meaning(node, whole, operands) ==
  CASE node.op = "leaf" -> Shape(<< Leaves[node.arg] >>)
    [] node.op = "background" -> SolidOf({}, {})
    [] node.op \in Transforms -> Moved(node, whole)
    [] node.op = "union" -> Union(whole)
    [] node.op = "difference" -> Combined(Less, whole, operands)
    [] node.op = "intersection" -> Combined(Common, whole, operands)
    [] node.op = "hull" -> HullOf(whole)
    [] node.op = "fill" -> IF whole.lead = 2 THEN FlatOf(Filled(Shadow(whole.plates)), whole.loose)
                           ELSE SolidOf({}, whole.loose)
    [] node.op = "minkowski" -> Sum(whole, operands)
    [] node.op = "minkowski_difference" ->
         SolidOf(FoldLeft(LAMBDA acc, s : Eroded(acc, s.solid), operands[1].solid, Tail(operands)), whole.loose)
    [] node.op = "offset" -> OffsetOf(whole, node.arg)
    [] node.op = "linear_extrude" -> SolidOf(Extruded(Shadow(whole.plates)), {})
    [] node.op = "rotate_extrude" -> SolidOf(Turned(Shadow(whole.plates)), {})
    [] node.op = "projection" ->
         FlatOf((IF node.arg = "cut" THEN Sliced(whole.solid) ELSE Projected(whole.solid)), {})
    [] node.op = "simplify" -> [Passed(node.op, whole) EXCEPT !.solid = Simplified(@)]
    [] OTHER -> Passed(node.op, whole)

----------------------------------------------------------------------------
(* Where the bodies and the meaning are known to part; README.md shows how. *)

BodiesOf(kids) == Flatten(Mapped(kids, LAMBDA c : bodies[c]))
IsOperand(stmt) == ~stmt.ghost /\ (stmt.kids # << >> \/ stmt.group)
Operands(node) == Among(node.stmts, IsOperand)

(* An empty body of the other dimension takes part. *)
StrayEmpty(node, bs) ==
  /\ ~KeepsMixed(node.op) /\ HasGenerator(node.op) /\ ~CarriesXform(node.op)
  /\ \E b \in Range(bs) : ~IsGhost(b) /\ b.valid /\ ~b.open
       /\ (IF b.dim = 2 THEN b.steps ELSE b.cells) = {}
       /\ b.dim # Shape(bs).lead

(* One statement brings several bodies, or none, to an operation that      *)
(* counts bodies.                                                          *)
SplitOperand(node, bs) ==
  LET taken(b) == ~IsGhost(b) /\ ~b.open /\ b.dim = Shape(bs).lead
  IN /\ node.op \in {"minkowski", "minkowski_difference"}
     /\ \E stmt \in Range(node.stmts) : Len(Among(BodiesOf(stmt.kids), taken)) # 1

(* mesh_repair() copies what the body remembered of the mesh it repaired.   *)
KnowsIfEmpty(b) ==
  /\ b.known = "empty" => b.cells = {}
  /\ b.known = "full" => b.cells # {}
StaleParts(b) == b.parts # << >> /\ Cells(Flatten(Mapped(b.parts, KeepParts))) # b.cells

Irregular(node, bs) ==
  \/ StrayEmpty(node, bs)
  \/ SplitOperand(node, bs)
  \/ \E b \in Range(bs) : StaleParts(b) \/ ~KnowsIfEmpty(b) \/ b.role = "show_only"
  \/ node.op = "highlight" /\ \E b \in Range(bs) : IsGhost(b)
  \/ node.op = "simplify" /\ \E b \in Range(bs) : b.role = "highlight"
  \/ node.op = "mesh_repair" /\ \E b \in Range(bs) : b.open

Generating(k) == pc = "generate" /\ at' = k /\ at # k

(***************************************************************************)
(* What every generator makes of its children covers exactly what the      *)
(* operation means of what they cover: whatever roles, colours, remembered *)
(* emptiness, carried transforms and unmerged parts the bodies came with,  *)
(* and whether or not differences keep the colours of their minuend.       *)
(***************************************************************************)
GeometryDenoted ==
  [][\A k \in DOMAIN nodes : Generating(k) =>
       LET bs == BodiesOf(Children(nodes[k]))
           made == Shape(bodies'[k])
           meant == Meaning(nodes[k], Shape(bs), Mapped(Operands(nodes[k]), LAMBDA stmt : Shape(BodiesOf(stmt.kids))))
       IN Irregular(nodes[k], bs)
          \/ /\ made.solid = meant.solid /\ made.plates = meant.plates
             /\ nodes[k].op \in {"difference", "intersection"} \/ made.loose = meant.loose]_vars

(***************************************************************************)
(* What a body remembers so that nobody has to ask the kernel again is     *)
(* true: whether it is empty, and the parts it was merged from.  Trees     *)
(* with simplify() or mesh_repair(), which copy that memory, are left out. *)
(***************************************************************************)
Kept == UNION {Range(bodies[k]) : k \in DOMAIN nodes} \cup Range(shown)
Copied == {k \in DOMAIN nodes : nodes[k].op \in {"simplify", "mesh_repair"}}
MemoryTrue == Copied = {} => \A b \in Kept : KnowsIfEmpty(b) /\ ~StaleParts(b)

(***************************************************************************)
(* Later sections are drawn over earlier ones: each step of a union has    *)
(* only colours its last statement to cover it has there.                  *)
(***************************************************************************)
Opaque(bs) == {b \in Range(bs) : b.dim = 2 /\ b.role \in {"normal", "highlight"}}
ColorsAt(bs, x) == {b.color : b \in {c \in Opaque(bs) : x \in MoveFlat(c.xform, c.steps)}}
PaintersOrder ==
  [][\A k \in DOMAIN nodes : Generating(k) /\ nodes[k].op = "union" =>
       \A x \in UNION {b.steps : b \in Opaque(bodies'[k])} :
         LET covering == {i \in DOMAIN nodes[k].stmts :
                            ColorsAt(BodiesOf(nodes[k].stmts[i].kids), x) # {}}
         IN covering # {} /\ ColorsAt(bodies'[k], x)
               \subseteq ColorsAt(BodiesOf(nodes[k].stmts[Max(covering)].kids), x)]_vars

(***************************************************************************)
(* The objects of a file share nothing, cover exactly the solids that were *)
(* shown, ghosts and slabs left out, and each cell went to the object of   *)
(* the last solid to cover it.                                             *)
(***************************************************************************)
ExportFaithful ==
  \A f \in file :
    LET closed == {o \in f.objects : ~o.open}
        solids == Among(shown, IsSolid)
        owner(c) == Max({i \in DOMAIN solids : c \in solids[i].cells})
    IN f.kind = "contours" \/
       /\ UNION {o.cells : o \in closed} = Cells(solids)
       /\ \A o, p \in closed : o = p \/ o.cells \cap p.cells = {}
       /\ f.kind = "objects" =>
            \A o \in closed : \A c \in o.cells :
              o.key = ColorKey(owner(c), solids[owner(c)], f.splitColors)

(***************************************************************************)
(* No name is lost in silence: when the bodies a node makes no longer show *)
(* a name its children's bodies had, an export_as() below that gave it was *)
(* reported before anything was generated, or the bodies were dropped with *)
(* a warning of their own.                                                 *)
(***************************************************************************)
Names(bs) == {b.name : b \in {c \in Range(bs) : ~IsGhost(c)}} \ {Unnamed}
NamesAccounted ==
  [][\A k \in DOMAIN nodes : Generating(k) =>
       LET bs == BodiesOf(Children(nodes[k]))
           below == Range(PreOrder(Children(nodes[k])))
       IN \A name \in Names(bs) \ Names(bodies'[k]) :
            \/ nodes[k].op = "background" \/ nodes[k].arg = "removed"
            \/ name \in Names(SetToSeq(Ignored(nodes[k].op, Dimension(nodes[k].op, bs), bs)))
            \/ \E w \in warnings : /\ w.what = "name lost" /\ w.node \in below
                                   /\ nodes[w.node].arg = name]_vars
=============================================================================
