----------------------------- MODULE CsgBodies -----------------------------
(***************************************************************************)
(* The generate pass over a resolved CSG tree, from its leaves to the list *)
(* of coloured bodies the program shows and the objects it writes.         *)
(* (src/src/csg_generate.cpp and the generate functions of                 *)
(* src/src/builtins; rerooting and the final filter are in                 *)
(* src/src/csg_resolve.cpp, the objects of a file in src/src/export.cpp.)  *)
(*                                                                         *)
(* A tree is a sequence of nodes, every node after its children.  A node   *)
(* says what it is (op, with an arg) and lists its                         *)
(* statements: the nodes each one built (kids), whether it counts as an    *)
(* operand when it built none (group), and whether it is itself a %        *)
(* statement (ghost).                                                      *)
(***************************************************************************)
EXTENDS Integers, Sequences, FiniteSets, FiniteSetsExt, Folds, SequencesExt

CONSTANTS
  Trees,       \* records [nodes, roots]: what resolving may leave
  Leaves,      \* the body every kind of leaf makes
  Maps,        \* the matrix every kind of transform applies
  KeepModes    \* the values of keepMinuendColor

VARIABLES
  nodes,       \* the tree's nodes
  roots,       \* the nodes at its top
  keepMinuend, \* keepMinuendColor
  pc,          \* "reroot", "generate", "top", "shown", "written"
  at,          \* the node to generate next
  bodies,      \* bodies of each node, << >> once its parent has used them
  shown,       \* the bodies evaluate() returned, ready to draw
  file,        \* the objects written
  warnings     \* what was warned, as a bag would be: every kind with its subject
vars == << nodes, roots, keepMinuend, pc, at, bodies, shown, file, warnings >>

None == "none"
Unnamed == "unnamed"
NoBody == << >>

----------------------------------------------------------------------------
(* The geometry kernel as the evaluator uses it, over a space small enough *)
(* to compute in: a solid is a set of unit cells of the (x, z) plane, a    *)
(* section a set of unit steps along x, drawn at z = 0; y is left out.     *)
(* Booleans are those of sets.                                             *)

(* An affine map: << x, z >> goes to << xx x + xz z + tx, zx x + zz z + tz >>. *)
Matrix(xx, xz, zx, zz, tx, tz) ==
  [xx |-> xx, xz |-> xz, zx |-> zx, zz |-> zz, tx |-> tx, tz |-> tz]
Identity == Matrix(1, 0, 0, 1, 0, 0)
Translation(x, z) == Matrix(1, 0, 0, 1, x, z)

(* compose3x4: a after b. *)
Compose(a, b) ==
  [xx |-> a.xx * b.xx + a.xz * b.zx, xz |-> a.xx * b.xz + a.xz * b.zz,
   zx |-> a.zx * b.xx + a.zz * b.zx, zz |-> a.zx * b.xz + a.zz * b.zz,
   tx |-> a.xx * b.tx + a.xz * b.tz + a.tx, tz |-> a.zx * b.tx + a.zz * b.tz + a.tz]

HasIdentityLinearPart(m) == m.xx = 1 /\ m.xz = 0 /\ m.zx = 0 /\ m.zz = 1
PreservesPlane(m) == m.zx = 0 /\ m.tz = 0 /\ m.xz = 0

At(m, p) == << m.xx * p[1] + m.xz * p[2] + m.tx, m.zx * p[1] + m.zz * p[2] + m.tz >>

----------------------------------------------------------------------------
(* Steps between the least and the greatest of some numbers. *)
Span(numbers) == IF numbers = {} THEN {} ELSE Min(numbers) .. Max(numbers) - 1

(* What a box around some points covers: nothing when they are in line. *)
Hull(points) == Span({p[1] : p \in points}) \X Span({p[2] : p \in points})

Corners(cell) == {cell[1], cell[1] + 1} \X {cell[2], cell[2] + 1}
Vertices(cells) == UNION {Corners(c) : c \in cells}
Ends(steps) == UNION {{x, x + 1} : x \in steps}

Move(m, cells) == UNION {Hull({At(m, p) : p \in Corners(c)}) : c \in cells}

(* A section under the part of a map that stays in its plane; a singular   *)
(* part, such as a quarter turn's, removes it.                             *)
MoveFlat(m, steps) ==
  UNION {Span({m.xx * x + m.tx, m.xx * (x + 1) + m.tx}) : x \in steps}

(* One step more, or less, in every direction: the offset by +1 and -1. *)
Around(cell) == {<< cell[1] + dx, cell[2] + dz >> : dx \in -1 .. 1, dz \in -1 .. 1}
Grown(cells) == UNION {Around(c) : c \in cells}
Shrunk(cells) == {c \in cells : Around(c) \subseteq cells}
GrownFlat(steps) == UNION {x - 1 .. x + 1 : x \in steps}
ShrunkFlat(steps) == {x \in steps : x - 1 \in steps /\ x + 1 \in steps}

(* Minkowski sums, and the erosion that takes one back. *)
SumFlat(s, t) == UNION {{x + y, x + y + 1} : x \in s, y \in t}
SumSolid(s, t) == UNION {{c[1] + d[1], c[1] + d[1] + 1} \X {c[2] + d[2], c[2] + d[2] + 1} : c \in s, d \in t}
Eroded(s, t) ==
  {c \in UNION {{<< u[1] - d[1], u[2] - d[2] >> : d \in t} : u \in s} :
     SumSolid({c}, t) \subseteq s}

(* A gap of one step between two others is a hole, a wider one is not. *)
Filled(steps) == steps \cup {x + 1 : x \in {y \in steps : y + 2 \in steps}}

Extruded(steps) == steps \X {0, 1}
Projected(cells) == {c[1] : c \in cells}
Sliced(cells) == {c[1] : c \in {d \in cells : d[2] = 0}}

(* Simplify drops what is too small to keep: a cell with no neighbour in   *)
(* its row.                                                                *)
Simplified(cells) ==
  {c \in cells : << c[1] - 1, c[2] >> \in cells \/ << c[1] + 1, c[2] >> \in cells}

(* The pieces of a solid that do not touch. *)
Touching(c, d) == {c[1] - d[1], c[2] - d[2]} \subseteq -1 .. 1
RECURSIVE Piece(_, _)
Piece(cells, reached) ==
  UNION {IF more = reached THEN reached ELSE Piece(cells, more) :
           more \in {{c \in cells : \E d \in reached : Touching(c, d)}}}
Pieces(cells) == {Piece(cells, {c}) : c \in cells}

(* The unit segments a section's steps are drawn as, under a map. *)
Units(p, q) ==
  {{<< x, p[2] >>, << x + 1, p[2] >>} : x \in IF p[2] = q[2] THEN Span({p[1], q[1]}) ELSE {}}
  \cup {{<< p[1], z >>, << p[1], z + 1 >>} : z \in IF p[1] = q[1] THEN Span({p[2], q[2]}) ELSE {}}
Drawn(m, steps) == UNION {Units(At(m, << x, 0 >>), At(m, << x + 1, 0 >>)) : x \in steps}
MoveDrawn(m, segments) ==
  UNION {LET p == CHOOSE q \in s : TRUE
             r == CHOOSE q \in s : q # p
         IN Units(At(m, p), At(m, r)) : s \in segments}

(* What a 2D operation sees of drawn segments: their shadow on the plane. *)
Shadow(segments) == {Min({p[1] : p \in s}) : s \in {t \in segments : Cardinality({p[1] : p \in t}) = 2}}

----------------------------------------------------------------------------
(* Bodies.                                                                 *)

Plain(dim) ==
  [dim |-> dim, cells |-> {}, steps |-> {}, xform |-> Identity, slab |-> FALSE,
   open |-> FALSE, points |-> {}, valid |-> TRUE, color |-> None, tri |-> FALSE,
   runs |-> {}, role |-> "normal", name |-> Unnamed, parts |-> << >>, known |-> "unknown"]
Solid(cells, color) == [Plain(3) EXCEPT !.cells = cells, !.color = color, !.runs = {color}]
Section(steps, color) == [Plain(2) EXCEPT !.steps = steps, !.color = color]
OpenMesh(points, color) == [Plain(3) EXCEPT !.open = TRUE, !.points = points, !.color = color]

IsGhost(b) == b.role \in {"background", "ghost"}

(* bodyIsEmpty trusts what a body remembers of itself. *)
IsEmpty(b) ==
  IF b.dim = 2 THEN b.steps = {}
  ELSE IF b.known = "unknown" THEN b.cells = {} ELSE b.known = "empty"
Asked(b) ==
  IF b.dim = 3 THEN [b EXCEPT !.known = IF IsEmpty(b) THEN "empty" ELSE "full"] ELSE b

(* Mutant: one empty operand is enough for an empty union. *)
UnionKnownByAny(known) ==
  IF "empty" \in known THEN "empty" ELSE IF "full" \in known THEN "full" ELSE "unknown"

UnionKnown(known) ==
  IF "full" \in known THEN "full" ELSE IF known \subseteq {"empty"} THEN "empty" ELSE "unknown"

Among(bs, Test(_)) == SelectSeq(bs, Test)
Mapped(bs, F(_)) == [i \in DOMAIN bs |-> F(bs[i])]

(* toCrossSection, and the union of some solids. *)
CrossSection(bs) == UNION {b.steps : b \in {c \in Range(bs) : c.dim = 2 /\ ~IsGhost(c)}}
Cells(bs) == UNION {b.cells : b \in Range(bs)}
Steps(bs) == UNION {b.steps : b \in Range(bs)}

(* Mutant: a % body is an operand like any other. *)
SplitTakingScenery(bs) ==
  LET free(b)  == b.role \notin {"show_only", "ghost"}
      fore(b)  == free(b) /\ ~b.open
      loose(b) == free(b) /\ b.open
  IN [background |-> << >>,
      displayOnly |-> Among(bs, loose), foreground |-> Among(bs, fore),
      highlight |-> << >>, showOnly |-> << >>]

SplitByRole(bs) ==
  LET free(b)   == b.role \notin {"background", "show_only", "ghost"}
      fore(b)   == free(b) /\ ~b.open
      loose(b)  == free(b) /\ b.open
      back(b)   == b.role = "background"
      ghost(b)  == b.role = "ghost"
      only(b)   == b.role = "show_only"
      marked(b) == fore(b) /\ b.role = "highlight"
      drawn(b)  == [b EXCEPT !.role = "ghost"]
  IN [background  |-> Among(bs, back),
      displayOnly |-> Among(bs, loose),
      foreground  |-> Among(bs, fore),
      highlight   |-> Mapped(Among(bs, marked), drawn) \o Among(bs, ghost),
      showOnly    |-> Among(bs, only)]

Beside(split) == split.background \o split.highlight \o split.showOnly \o split.displayOnly

----------------------------------------------------------------------------
(* What a node does with children of the wrong dimension.                  *)

Transforms == {"translate", "rotate", "scale", "mirror", "multmatrix", "resize"}
Modifiers == {"highlight", "background", "show_only"}

KeepsMixed(op) == op \in {"union", "module", "color"} \cup Transforms
CarriesXform(op) == op \in {"color"} \cup Transforms \cup Modifiers
HasGenerator(op) == op \notin {"render", "module"}

FixedDimension(op) ==
  IF op \in {"linear_extrude", "rotate_extrude"} THEN 2 ELSE IF op = "projection" THEN 3 ELSE 0

(* A body that has a say in the dimension. *)
Counts(b) == ~IsGhost(b) /\ ~IsEmpty(b)

Dimension(op, bs) ==
  LET first == SelectInSeq(bs, Counts)
  IN IF FixedDimension(op) # 0 THEN FixedDimension(op)
     ELSE IF first = 0 THEN 0 ELSE bs[first].dim

Project(b) ==
  IF b.dim = 3 THEN b
  ELSE [b EXCEPT !.steps = MoveFlat(b.xform, b.steps), !.xform = Identity]

(* applyDimensionRules and the projection before a generator, on the       *)
(* bodies of one child; `target` was decided over all of them.             *)
Admitted(op, target, bs) ==
  LET admits(b) == ~Counts(b) \/ b.dim = target \/ KeepsMixed(op)
      asked(b)  == IF IsGhost(b) THEN b ELSE Asked(b)
      kept == Mapped(Among(bs, admits), asked)
  IN IF HasGenerator(op) /\ ~CarriesXform(op) THEN Mapped(kept, Project) ELSE kept

Ignored(op, target, bs) ==
  IF KeepsMixed(op) THEN {}
  ELSE {b \in Range(bs) : Counts(b) /\ b.dim # target}

Flatten(bss) == FoldLeft(LAMBDA all, bs : all \o bs, << >>, bss)

----------------------------------------------------------------------------
(* union(), difference() and intersection(), a statement at a time.  A     *)
(* solid that is not there yet is no body in a sequence of at most one.    *)

RECURSIVE KeepParts(_)
KeepParts(b) ==
  IF b.parts = << >> THEN IF b.dim = 3 THEN << b >> ELSE << >>
  ELSE Flatten(Mapped(b.parts, KeepParts))

Nothing ==
  [solid |-> NoBody, flats |-> << >>, haveFlat |-> FALSE, mixed |-> FALSE, halted |-> FALSE,
   keep |-> << >>, parts |-> << >>,
   background |-> << >>, highlight |-> << >>, showOnly |-> << >>, displayOnly |-> << >>]

(* addPart: 2D keeps one section per colour. *)
AddPart(parts, color, steps) ==
  LET same(p) == p.color = color
      at0 == SelectInSeq(parts, same)
  IN IF at0 = 0 THEN Append(parts, [color |-> color, steps |-> steps])
     ELSE [parts EXCEPT ![at0].steps = @ \cup steps]

PartsOf(bs) == FoldLeft(LAMBDA parts, b : AddPart(parts, b.color, b.steps), << >>, bs)
NonEmpty(parts) == LET has(p) == p.steps # {} IN Among(parts, has)

(* attachTriColors: a merge shows several colours when its surface comes   *)
(* from runs that were recorded in several.                                *)
Painted(b, mixed) == [b EXCEPT !.tri = mixed /\ b.cells # {} /\ Cardinality(b.runs) > 1]

Runs(bs) == UNION {b.runs : b \in {c \in Range(bs) : c.cells # {}}}

MixedColors(acc, solids) ==
  \/ acc.mixed
  \/ \E b \in Range(solids) : b.tri
  \/ Cardinality({b.color : b \in Range(solids)}
                 \cup {b.color : b \in Range(acc.solid)}) > 1

(* A subtrahend without a colour of its own paints what it cuts. *)
CutRuns(solids) ==
  UNION {IF b.color = None /\ ~b.tri /\ ~IsEmpty(b) THEN {"cut"} ELSE b.runs : b \in Range(solids)}

(* finishKeepMinuend: the faces cut into a kept part take its own colour.  *)
CutFaces(keeping, b, solids) == IF keeping THEN {b.color} ELSE CutRuns(solids)

FirstSolid(op, keeping, acc, solids) ==
  LET leaves == Flatten(Mapped(solids, KeepParts))
      body == [Solid(Cells(solids), solids[1].color) EXCEPT
                 !.runs = Runs(solids),
                 !.known = UnionKnown({b.known : b \in Range(solids)})]
  IN [acc EXCEPT !.solid = << body >>, !.mixed = MixedColors(acc, solids),
                 !.keep = IF keeping /\ op = "difference" THEN leaves ELSE @,
                 !.parts = IF keeping /\ op = "union" THEN @ \o leaves ELSE @]

JoinedSolid(op, keeping, acc, solids) ==
  LET s == acc.solid[1]
      group == Cells(solids)
      known == UnionKnown({b.known : b \in Range(solids)})
      minus(b) == [b EXCEPT !.cells = @ \ group,
                            !.runs = IF b.cells \cap group = {} THEN @
                                     ELSE @ \cup CutFaces(keeping, b, solids)]
  IN CASE op = "difference" /\ keeping ->
            [acc EXCEPT !.keep = Mapped(@, minus), !.solid[1].known = "unknown", !.mixed = TRUE]
       [] op = "difference" /\ ~keeping ->
            [acc EXCEPT !.solid[1] = [minus(s) EXCEPT
                          !.known = IF s.known = "empty" \/ known = "empty" THEN @ ELSE "unknown"],
                        !.mixed = MixedColors(acc, solids) \/ \E b \in Range(solids) : b.color = None]
       [] op = "union" ->
            [acc EXCEPT !.solid[1] = [s EXCEPT !.cells = @ \cup group, !.runs = @ \cup Runs(solids),
                                               !.known = UnionKnown({s.known, known})],
                        !.mixed = MixedColors(acc, solids),
                        !.parts = IF keeping THEN @ \o Flatten(Mapped(solids, KeepParts)) ELSE @]
       [] op = "intersection" ->
            [acc EXCEPT !.solid[1] = [s EXCEPT !.cells = @ \cap group, !.runs = @ \cup Runs(solids),
                                               !.known = IF "empty" \in {s.known, known} THEN "empty" ELSE "unknown"],
                        !.mixed = MixedColors(acc, solids)]

MergeSolids(op, keeping, acc, solids) ==
  IF solids = << >> THEN acc
  ELSE IF acc.solid = NoBody THEN FirstSolid(op, keeping, acc, solids)
  ELSE JoinedSolid(op, keeping, acc, solids)

(* Mutant: a later statement's sections do not notch what lies under them. *)
MergeFlatsUnnotched(op, acc, flats) ==
  LET group == Steps(flats)
      cut(p) == [p EXCEPT !.steps = IF op = "difference" THEN @ \ group ELSE @ \cap group]
  IN IF flats = << >> THEN acc
     ELSE [acc EXCEPT
             !.haveFlat = TRUE,
             !.flats = NonEmpty(
               IF ~acc.haveFlat THEN PartsOf(flats)
               ELSE IF op = "union"
               THEN FoldLeft(LAMBDA ps, p : AddPart(ps, p.color, p.steps), @, PartsOf(flats))
               ELSE Mapped(@, cut))]

MergeFlats(op, acc, flats) ==
  LET group == Steps(flats)
      cut(p) == [p EXCEPT !.steps = IF op = "intersection" THEN @ \cap group ELSE @ \ group]
  IN IF flats = << >> THEN acc
     ELSE [acc EXCEPT
             !.haveFlat = TRUE,
             !.flats = NonEmpty(
               IF ~acc.haveFlat THEN PartsOf(flats)
               ELSE IF op = "union"
               THEN FoldLeft(LAMBDA ps, p : AddPart(ps, p.color, p.steps),
                             Mapped(@, cut), PartsOf(flats))
               ELSE Mapped(@, cut))]

WithBeside(acc, split) ==
  [acc EXCEPT !.background = @ \o split.background, !.highlight = @ \o split.highlight,
              !.showOnly = @ \o split.showOnly, !.displayOnly = @ \o split.displayOnly]

(* A statement with nothing to give: it empties an intersection, and a     *)
(* difference that has no minuend yet.                                     *)
EmptyOperand(op, acc) ==
  CASE op = "intersection" ->
         [acc EXCEPT !.solid = NoBody, !.flats = << >>, !.haveFlat = FALSE, !.halted = TRUE]
    [] op = "difference" ->
         [acc EXCEPT !.halted = acc.solid = NoBody /\ ~acc.haveFlat]
    [] op = "union" -> acc

Merge(op, keeping, acc, stmt) ==
  LET split == SplitByRole(stmt.bodies)
      isSolid(b) == b.dim = 3 /\ b.valid
      isFlat(b) == b.dim = 2
      solids == Among(split.foreground, isSolid)
      flats == Among(split.foreground, isFlat)
  IN IF acc.halted \/ (stmt.kids = << >> /\ ~stmt.group) THEN acc
     ELSE IF stmt.ghost THEN [acc EXCEPT !.background = @ \o split.background]
     ELSE IF solids = << >> /\ flats = << >> THEN EmptyOperand(op, WithBeside(acc, split))
     ELSE MergeFlats(op, MergeSolids(op, keeping, WithBeside(acc, split), solids), flats)

(* finishKeepMinuend: the parts, each cut on its own, are one body again.  *)
Finished(op, keeping, acc) ==
  LET s == acc.solid[1]
      whole == [s EXCEPT !.cells = Cells(acc.keep), !.runs = Runs(acc.keep), !.known = "unknown"]
  IN IF acc.solid = NoBody THEN << >>
     ELSE IF keeping /\ op = "union" /\ Len(acc.parts) > 1
     THEN << Painted([s EXCEPT !.parts = acc.parts], acc.mixed) >>
     ELSE IF acc.keep # << >> THEN << Painted(whole, TRUE) >>
     ELSE << Painted(s, acc.mixed) >>

GenerateCsg(op, keeping, stmts) ==
  LET acc == FoldLeft(LAMBDA a, stmt : Merge(op, keeping, a, stmt), Nothing, stmts)
      section(p) == Section(p.steps, p.color)
  IN Finished(op, keeping, acc) \o Mapped(acc.flats, section)
     \o acc.background \o acc.highlight \o acc.showOnly \o acc.displayOnly

----------------------------------------------------------------------------
(* Transforms, colour, modifiers and names: one body in, one body out.     *)

RECURSIVE MovedParts(_, _), RecoloredParts(_, _)
MovedParts(m, parts) ==
  LET moved(p) == [p EXCEPT !.cells = Move(m, @), !.parts = MovedParts(m, @)]
  IN Mapped(parts, moved)
RecoloredParts(color, parts) ==
  LET recolored(p) == [p EXCEPT !.color = color, !.parts = RecoloredParts(color, @)]
  IN Mapped(parts, recolored)

(* A section takes what stays in its plane; the rest rides along.          *)
TransformSection(op, m, b) ==
  CASE b.xform = Identity /\ PreservesPlane(m) -> [b EXCEPT !.steps = MoveFlat(m, @)]
    [] ~(b.xform = Identity /\ PreservesPlane(m))
       /\ op = "translate" /\ HasIdentityLinearPart(b.xform) ->
         [b EXCEPT !.steps = MoveFlat(Translation(m.tx, 0), @), !.xform.tz = @ + m.tz]
    [] OTHER -> [b EXCEPT !.xform = Compose(m, @)]

GenerateTransform(node, bs) ==
  LET m == Maps[node.arg]
      moved(b) == IF b.dim = 2 THEN TransformSection(node.op, m, b)
                  ELSE [b EXCEPT !.cells = Move(m, @), !.points = {At(m, p) : p \in @},
                                 !.parts = MovedParts(m, @)]
  IN IF node.arg = "removed" THEN << >> ELSE Mapped(bs, moved)

GenerateColor(node, bs) ==
  LET colored(b) == [b EXCEPT !.color = node.arg,
                              !.runs = IF IsEmpty(b) THEN @ ELSE {node.arg},
                              !.parts = RecoloredParts(node.arg, @)]
  IN IF node.arg = None THEN bs ELSE Mapped(bs, colored)

GenerateHighlight(bs) == LET tag(b) == [b EXCEPT !.role = "highlight"] IN Mapped(bs, tag)
GenerateBackground(bs) == LET tag(b) == [b EXCEPT !.role = "background"] IN Mapped(bs, tag)
GenerateShowOnly(bs) ==
  LET tag(b) == [b EXCEPT !.role = IF @ = "normal" THEN "show_only" ELSE @] IN Mapped(bs, tag)

GenerateExportAs(node, bs) ==
  LET named(b) == [b EXCEPT !.name = IF @ = Unnamed THEN node.arg ELSE @] IN Mapped(bs, named)

----------------------------------------------------------------------------
(* Operations that make one body of their children.                        *)

Solids(bs) == LET isSolid(b) == b.dim = 3 IN Among(bs, isSolid)
Flats(bs) == LET isFlat(b) == b.dim = 2 IN Among(bs, isFlat)

(* hull() takes the corners of an open mesh, which has no inside to union. *)
GenerateHull(bs) ==
  LET split == SplitByRole(bs)
      loose == UNION {b.points : b \in Range(split.displayOnly)}
      fore == split.foreground
      solids == Solids(fore)
      result ==
        IF loose # {}
        THEN << Solid(Hull(loose \cup Vertices(Cells(solids))),
                      IF fore = << >> THEN split.displayOnly[1].color ELSE fore[1].color) >>
        ELSE IF solids # << >> THEN << Solid(Hull(Vertices(Cells(solids))), fore[1].color) >>
        ELSE IF fore # << >> THEN << Section(Span(Ends(Steps(fore))), fore[1].color) >>
        ELSE << >>
  IN result \o (IF loose = {} THEN Beside(split)
                ELSE split.background \o split.highlight \o split.showOnly)

GenerateFill(bs) ==
  LET split == SplitByRole(bs)
      steps == Filled(CrossSection(split.foreground))
  IN (IF steps = {} THEN << >> ELSE << Section(steps, split.foreground[1].color) >>)
     \o Beside(split)

(* minkowski() sums sections only when there is no solid to sum. *)
GenerateMinkowski(bs) ==
  LET split == SplitByRole(bs)
      solids == Solids(split.foreground)
      flats == Flats(split.foreground)
      sum(acc, b) == SumSolid(acc, b.cells)
      sumFlat(acc, b) == SumFlat(acc, b.steps)
      result ==
        IF solids = << >> /\ Len(flats) >= 2
        THEN << Section(FoldLeft(sumFlat, flats[1].steps, Tail(flats)), flats[1].color) >>
        ELSE IF solids = << >> THEN flats
        ELSE IF Len(solids) = 1 THEN solids
        ELSE << Solid(FoldLeft(sum, solids[1].cells, Tail(solids)), solids[1].color) >>
  IN result \o Beside(split)

GenerateMinkowskiDifference(bs) ==
  LET split == SplitByRole(bs)
      solids == Solids(split.foreground)
      less(acc, b) == Eroded(acc, b.cells)
  IN (IF Len(solids) <= 1 THEN solids
      ELSE << Solid(FoldLeft(less, solids[1].cells, Tail(solids)), solids[1].color) >>)
     \o Beside(split)

(* simplify() and mesh_repair() change a copy of the body, so whatever     *)
(* else the body remembers stays as it was.                                *)
GenerateSimplify(bs) ==
  LET simpler(b) == IF b.role # "normal" THEN b
                    ELSE [b EXCEPT !.cells = Simplified(@), !.tri = FALSE]
  IN Mapped(bs, simpler)

GenerateMeshRepair(bs) ==
  LET closed(b) == IF b.role # "normal" \/ ~b.open \/ Hull(b.points) = {} THEN b
                   ELSE [b EXCEPT !.cells = Hull(b.points), !.runs = {None},
                                  !.open = FALSE, !.points = {}]
  IN Mapped(bs, closed)

GenerateOffset(node, bs) ==
  LET split == SplitByRole(bs)
      full(b) == b.dim = 3 /\ b.cells # {}
      solids == Among(split.foreground, full)
      flats == {b \in Range(bs) : b.dim = 2 /\ ~IsGhost(b)}
      cells == IF node.arg = "out" THEN Grown(Cells(solids)) ELSE Shrunk(Cells(solids))
      steps == IF node.arg = "out" THEN GrownFlat(CrossSection(bs)) ELSE ShrunkFlat(CrossSection(bs))
  IN IF solids # << >>
     THEN (IF cells = {} THEN << >> ELSE << Solid(cells, None) >>) \o Beside(split)
     ELSE IF flats = {} THEN << >> ELSE << Section(steps, None) >>

GenerateLinearExtrude(bs) ==
  IF CrossSection(bs) = {} THEN << >> ELSE << Solid(Extruded(CrossSection(bs)), None) >>

(* combineBodies has the colour of its first operand. *)
GenerateProjection(node, bs) ==
  LET real(b) == b.dim = 3 /\ ~IsGhost(b)
      solids == Among(bs, real)
  IN IF solids = << >> THEN << >>
     ELSE << Section((IF node.arg = "cut" THEN Sliced(Cells(solids)) ELSE Projected(Cells(solids))),
                     solids[1].color) >>

(* A profile may touch the axis but not lie on both sides of it. *)
AcrossAxis(steps) == (\E x \in steps : x < 0) /\ (\E x \in steps : x >= 0)
GenerateRotateExtrude(bs) ==
  LET steps == CrossSection(bs)
  IN IF steps = {} \/ AcrossAxis(steps) THEN << >>
     ELSE << Solid((steps \cup {-x - 1 : x \in steps}) \X {0}, None) >>

----------------------------------------------------------------------------
(* The walk over the tree.                                                 *)

Children(node) == Flatten(Mapped(node.stmts, LAMBDA stmt : stmt.kids))

RECURSIVE PreOrder(_)
PreOrder(kids) == Flatten(Mapped(kids, LAMBDA k : << k >> \o PreOrder(Children(nodes[k]))))

Live == Range(PreOrder(roots))

Init ==
  /\ \E tree \in Trees : nodes = tree.nodes /\ roots = tree.roots
  /\ keepMinuend \in KeepModes
  /\ pc = "reroot" /\ at = 0
  /\ bodies = [i \in DOMAIN nodes |-> << >>]
  /\ shown = << >> /\ file = {} /\ warnings = {}

(* export_as() names that some operation will merge away are reported      *)
(* before anything is generated, and so are names given twice.             *)
(* Mutant: a union is thought to keep its children's bodies too. *)
KeepsChildBodiesOfUnions(op) ==
  op \in {"union", "color", "render", "module", "export_as"} \cup Transforms \cup Modifiers

KeepsChildBodies(op) ==
  op \in {"color", "render", "module", "export_as"} \cup Transforms \cup Modifiers

RECURSIVE NamesUnder(_, _)
NamesUnder(kids, merged) ==
  Flatten(Mapped(kids, LAMBDA k :
    LET node == nodes[k]
        below == merged \/ ~KeepsChildBodies(node.op)
    IN (IF node.op = "export_as" THEN << [node |-> k, name |-> node.arg, merged |-> merged] >> ELSE << >>)
       \o NamesUnder(Children(node), below)))

NameWarnings(kids) ==
  UNION {LET uses == NamesUnder(kids, FALSE)
             before(i) == {j \in 1 .. i - 1 : ~uses[j].merged /\ uses[j].name = uses[i].name}
         IN {[what |-> "name lost", node |-> uses[i].node] : i \in {j \in DOMAIN uses : uses[j].merged}}
            \cup {[what |-> "name used twice", node |-> uses[i].node] :
                    i \in {j \in DOMAIN uses : ~uses[j].merged /\ Cardinality(before(j)) = 1}} : once \in {TRUE}}

(* `!` makes the first subtree it marks the whole model. *)
Reroot ==
  /\ pc = "reroot"
  /\ \E marked \in {SelectSeq(PreOrder(roots), LAMBDA k : nodes[k].op = "show_only")} :
       /\ roots' = IF marked = << >> THEN roots ELSE << marked[1] >>
       /\ warnings' = NameWarnings(roots')
                      \cup {[what |-> "two roots", node |-> marked[i]] : i \in DOMAIN marked \cap {2}}
  /\ pc' = "generate"
  /\ UNCHANGED << nodes, keepMinuend, at, bodies, shown, file >>

(* What a node makes of its children's bodies, bs in one list and stmts by  *)
(* statement: the generate function its builder gave it.                    *)
GenerateFn(node, bs, stmts) ==
  CASE node.op = "leaf" -> << Leaves[node.arg] >>
    [] node.op \in {"render", "module"} -> bs
    [] node.op \in {"union", "difference", "intersection"} -> GenerateCsg(node.op, keepMinuend, stmts)
    [] node.op \in Transforms -> GenerateTransform(node, bs)
    [] node.op = "color" -> GenerateColor(node, bs)
    [] node.op = "highlight" -> GenerateHighlight(bs)
    [] node.op = "background" -> GenerateBackground(bs)
    [] node.op = "show_only" -> GenerateShowOnly(bs)
    [] node.op = "export_as" -> GenerateExportAs(node, bs)
    [] node.op = "hull" -> GenerateHull(bs)
    [] node.op = "fill" -> GenerateFill(bs)
    [] node.op = "minkowski" -> GenerateMinkowski(bs)
    [] node.op = "minkowski_difference" -> GenerateMinkowskiDifference(bs)
    [] node.op = "offset" -> GenerateOffset(node, bs)
    [] node.op = "linear_extrude" -> GenerateLinearExtrude(bs)
    [] node.op = "rotate_extrude" -> GenerateRotateExtrude(bs)
    [] node.op = "projection" -> GenerateProjection(node, bs)
    [] node.op = "simplify" -> GenerateSimplify(bs)
    [] node.op = "mesh_repair" -> GenerateMeshRepair(bs)

(* A node has its children's bodies looked over, takes them, and lets them *)
(* go.                                                                     *)
Generate(ops) ==
  /\ pc = "generate"
  /\ \E k \in {Min(Live \ 0 .. at)} :
       /\ nodes[k].op \in ops
       /\ LET op == nodes[k].op
              all == Flatten(Mapped(Children(nodes[k]), LAMBDA c : bodies[c]))
              target == Dimension(op, all)
              ignored == Ignored(op, target, all)
              taken(kids) == Admitted(op, target, Flatten(Mapped(kids, LAMBDA c : bodies[c])))
              stmts == Mapped(nodes[k].stmts, LAMBDA stmt :
                         [kids |-> stmt.kids, group |-> stmt.group, ghost |-> stmt.ghost,
                          bodies |-> taken(stmt.kids)])
          IN /\ \E made \in {GenerateFn(nodes[k], taken(Children(nodes[k])), stmts)} :
                  bodies' = [i \in DOMAIN nodes |->
                               IF i = k THEN made
                               ELSE IF i \in Range(Children(nodes[k])) THEN << >> ELSE bodies[i]]
             /\ warnings' = warnings \cup {[what |-> IF b.dim = 3 THEN "ignored 3D" ELSE "ignored 2D", node |-> k] : b \in ignored}
       /\ at' = k
       /\ pc' = IF Live \subseteq 1 .. k THEN "top" ELSE "generate"
  /\ UNCHANGED << nodes, roots, keepMinuend, shown, file >>

GenerateLeaf == Generate({"leaf"})
GenerateGroup == Generate({"render", "module"})
GenerateBoolean == Generate({"union", "difference", "intersection"})
GenerateWrapped ==
  Generate((Transforms \ {"resize"}) \cup {"color", "highlight", "background", "show_only", "export_as"})
GenerateMerged ==
  Generate({"hull", "fill", "minkowski", "minkowski_difference", "offset",
            "linear_extrude", "rotate_extrude", "projection"})
GenerateCopied == Generate({"simplify", "mesh_repair"})

----------------------------------------------------------------------------
(* The top level keeps both dimensions; sections get a slab to be seen by. *)

Slab(b) == [b EXCEPT !.slab = b.dim = 2]

TopLevel ==
  LET asked(b) == IF IsGhost(b) THEN b ELSE Asked(b)
  IN Mapped(Flatten(Mapped(roots, LAMBDA r : bodies[r])), asked)

Show ==
  /\ pc = "top"
  /\ LET bs == TopLevel
         only(b) == b.role = "show_only"
         kept(b) == b.role # "normal"
     IN shown' = Mapped(IF Among(bs, only) # << >> THEN Among(bs, kept) ELSE bs, Slab)
  /\ pc' = "shown"
  /\ UNCHANGED << nodes, roots, keepMinuend, at, bodies, file, warnings >>

----------------------------------------------------------------------------
(* The objects of a file.                                                  *)

IsExportable(b) == ~IsGhost(b)

(* topLevelDimension: the first object with any geometry decides. *)
HasGeometry(b) ==
  /\ IsExportable(b)
  /\ IF b.dim = 2 THEN b.steps # {} ELSE IF b.open THEN b.points # {} ELSE b.cells # {}
TopLevelDimension ==
  LET first == SelectInSeq(shown, HasGeometry) IN IF first = 0 THEN 0 ELSE shown[first].dim

IsSolid(b) == IsExportable(b) /\ b.dim = 3 /\ ~b.open /\ b.cells # {}
IsLoose(b) == IsExportable(b) /\ b.dim = 3 /\ b.open /\ b.points # {}

(* What two solids must share to become one object. *)
ColorKey(i, b, splitColors) ==
  IF ~splitColors THEN << b.name >>
  ELSE IF b.tri THEN << b.name, "triangles", i >> ELSE << b.name, b.color >>

BoxesOverlap(s, t) ==
  \A axis \in {1, 2} :
    LET lo(c) == Min({p[axis] : p \in Vertices(c)})
        hi(c) == Max({p[axis] : p \in Vertices(c)})
    IN ~(hi(s) < lo(t) \/ hi(t) < lo(s))

(* Mutant: an earlier solid is cut by those before it. *)
ClaimedByEarlier(solids, i) ==
  solids[i].cells \ UNION {solids[j].cells : j \in
    {k \in 1 .. i - 1 : BoxesOverlap(solids[i].cells, solids[k].cells)}}

(* Later solids own what they share; each is cut by those that reach it.   *)
Claimed(solids, i) ==
  solids[i].cells \ UNION {solids[j].cells : j \in
    {k \in i + 1 .. Len(solids) : BoxesOverlap(solids[i].cells, solids[k].cells)}}

Objects(splitComponents, splitColors) ==
  LET solids == Among(shown, IsSolid)
      key(i) == ColorKey(i, solids[i], splitColors)
      keys == {key(i) : i \in DOMAIN solids}
      owned(i) == IF Cardinality(keys) = 1 THEN solids[i].cells ELSE Claimed(solids, i)
      of(k) == {i \in DOMAIN solids : key(i) = k}
      object(k) == [key |-> k, name |-> k[1], cells |-> UNION {owned(i) : i \in of(k)}, open |-> FALSE]
      split(o) == IF splitComponents \/ o.name # Unnamed
                  THEN {[o EXCEPT !.cells = piece] : piece \in Pieces(o.cells)} ELSE {o}
  IN UNION {split(object(k)) : k \in keys} \ {o \in {object(k) : k \in keys} : o.cells = {}}

LooseObjects == {[key |-> << b.name, b.color >>, name |-> b.name, cells |-> b.points, open |-> TRUE] :
                   b \in Range(Among(shown, IsLoose))}

WriteObjects ==
  /\ pc = "shown" /\ TopLevelDimension = 3
  /\ \E splitComponents, splitColors \in BOOLEAN :
       file' = {[kind |-> "objects", splitColors |-> splitColors, objects |-> os] :
                  os \in {Objects(splitComponents, splitColors) \cup LooseObjects}}
  /\ pc' = "written"
  /\ UNCHANGED << nodes, roots, keepMinuend, at, bodies, shown, warnings >>

(* mergeBodies: one mesh, open surfaces beside the welded solids. *)
WriteMesh ==
  /\ pc = "shown" /\ TopLevelDimension = 3
  /\ file' = {[kind |-> "mesh", splitColors |-> FALSE,
               objects |-> {[key |-> << Unnamed >>, name |-> Unnamed,
                             cells |-> Cells(Among(shown, IsSolid)), open |-> FALSE]} \cup LooseObjects]}
  /\ pc' = "written"
  /\ UNCHANGED << nodes, roots, keepMinuend, at, bodies, shown, warnings >>

(* collect2d: the contours of every section, seen from above. *)
WriteContours ==
  /\ pc = "shown" /\ TopLevelDimension = 2
  /\ LET flat(b) == IsExportable(b) /\ b.dim = 2
     IN file' = {[kind |-> "contours", splitColors |-> FALSE,
                  objects |-> {[key |-> << b.name, b.color >>, name |-> b.name, open |-> FALSE,
                                cells |-> {<< x, 0 >> : x \in MoveFlat(b.xform, b.steps)}] :
                                  b \in Range(Among(shown, flat))}]}
  /\ pc' = "written"
  /\ UNCHANGED << nodes, roots, keepMinuend, at, bodies, shown, warnings >>

Refuse ==
  /\ pc = "shown" /\ TopLevelDimension = 0
  /\ pc' = "written"
  /\ UNCHANGED << nodes, roots, keepMinuend, at, bodies, shown, file, warnings >>

Ended == pc = "written" /\ UNCHANGED vars

Next ==
  \/ Reroot
  \/ GenerateLeaf \/ GenerateGroup \/ GenerateBoolean
  \/ GenerateWrapped \/ GenerateMerged \/ GenerateCopied
  \/ Show
  \/ WriteObjects \/ WriteMesh \/ WriteContours \/ Refuse
  \/ Ended

Spec == Init /\ [][Next]_vars
=============================================================================
