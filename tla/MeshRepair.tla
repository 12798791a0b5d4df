----------------------------- MODULE MeshRepair -----------------------------
(***************************************************************************)
(* The life of a triangle mesh: polyhedron() or import() hands it to the   *)
(* geometry kernel, welded or repaired on the way, or keeps it as an open  *)
(* surface that is only drawn; mesh_repair() may take either and repair    *)
(* it; export strips zero-area faces and writes the file.                  *)
(* (src/src/mesh_check.cpp and its callers in builtins/primitives_3d.cpp,  *)
(* builtins/import.cpp, builtins/topology.cpp and export.cpp.)             *)
(*                                                                         *)
(* A mesh is [points |-> sequence of << x, y, z >>, faces |-> sequence of  *)
(* << i, j, k >>], the faces naming points by index.  Coordinates are      *)
(* integers in units of 1/128 of the default weld tolerance, 2^-20, so a   *)
(* grid step, the nearness of two points across a cell border and the area *)
(* below which a face counts as having none are all integers.              *)
(***************************************************************************)
EXTENDS Integers, FiniteSets, SequencesExt

Axes == 1 .. 3
Corners == 1 .. 3
After(i) == (i % 3) + 1

Default == 128          \* kDefaultWeldTolerance
CheckGrid == 134        \* 1e-6, the grid checkMesh and the needle test use
ThinArea == 18014       \* 1e-12, twice the area of the thinnest real face

Abs(x) == IF x < 0 THEN -x ELSE x
LeastOf(S) == CHOOSE x \in S : \A y \in S : x <= y
GreatestOf(S) == CHOOSE x \in S : \A y \in S : x >= y

(* The members of a set in order; Before is a strict total order on it.    *)
Sorted(S, Before(_, _)) ==
  FoldSet(LAMBDA s, sorted : SelectSeq(sorted, LAMBDA r : Before(r, s)) \o << s >>
                             \o SelectSeq(sorted, LAMBDA r : Before(s, r)),
          << >>, S)

----------------------------------------------------------------------------
(* Welding. *)

(* llround: halves go away from zero. *)
Cell(x, grid) == IF x >= 0 THEN (2 * x + grid) \div (2 * grid)
                           ELSE -((grid - 2 * x) \div (2 * grid))

(* A coordinate within 1/64 of a step of a cell border leans over it. *)
Lean(x, grid) ==
  LET off == 64 * (x - Cell(x, grid) * grid)
  IN CASE off > 31 * grid -> 1
       [] off < -31 * grid -> -1
       [] OTHER -> 0

SameCell(p, q, grid) == \A a \in Axes : Cell(p[a], grid) = Cell(q[a], grid)

(* q lies in a cell p leans toward, near enough to be the same point. *)
ReachesOver(p, q, grid) ==
  \E over \in (SUBSET Axes) \ {{}} :
    /\ \A a \in over : Lean(p[a], grid) # 0
    /\ \A a \in Axes :
         /\ Cell(q[a], grid) = Cell(p[a], grid) + (IF a \in over THEN Lean(p[a], grid) ELSE 0)
         /\ 32 * Abs(p[a] - q[a]) <= grid

Welds(p, q, grid) ==
  IF grid <= 0 THEN p = q ELSE SameCell(p, q, grid) \/ ReachesOver(p, q, grid)

(* Everything that hangs together with S by some pairs. *)
RECURSIVE Joined(_, _)
Joined(S, pairs) ==
  LET more == UNION {{p[1], p[2]} : p \in {q \in pairs : q[1] \in S \/ q[2] \in S}}
  IN IF more \subseteq S THEN S ELSE UNION {Joined(T, pairs) : T \in {S \cup more}}

Meets(p, q, grid) == Welds(p, q, grid) \/ Welds(q, p, grid)
WeldPairs(points, grid) ==
  UNION {{<< v, w >> : w \in {u \in DOMAIN points : v < u /\ Meets(points[v], points[u], grid)}} :
           v \in DOMAIN points}

(* For every point, the lowest-numbered point it welds to: unite keeps the *)
(* lower root.                                                             *)
Lowest(v, classes) == LeastOf(CHOOSE c \in classes : v \in c)
WeldPoints(points, grid) ==
  CHOOSE rep \in {[v \in DOMAIN points |-> Lowest(v, classes)] : classes \in
                    {{Joined({v}, pairs) : v \in DOMAIN points} : pairs \in {WeldPairs(points, grid)}}} : TRUE

Welded(rep) == Cardinality({v \in DOMAIN rep : rep[v] # v})
Renamed(faces, rep) == [t \in DOMAIN faces |-> [c \in Corners |-> rep[faces[t][c]]]]

----------------------------------------------------------------------------
(* Faces and edges. *)

CornerSet(f) == {f[c] : c \in Corners}
RepeatsAVertex(f) == Cardinality(CornerSet(f)) < 3

Minus(p, q) == [a \in Axes |-> p[a] - q[a]]
Cross(u, w) == << u[2] * w[3] - u[3] * w[2], u[3] * w[1] - u[1] * w[3], u[1] * w[2] - u[2] * w[1] >>
Dot(u, w) == u[1] * w[1] + u[2] * w[2] + u[3] * w[3]

(* No area worth the name; the length is taken as its largest component. *)
ZeroArea(points, f) ==
  LET n == Cross(Minus(points[f[2]], points[f[1]]), Minus(points[f[3]], points[f[1]]))
  IN \A a \in Axes : Abs(n[a]) < ThinArea

Degenerate(points, f) == RepeatsAVertex(f) \/ ZeroArea(points, f)

(* The topology keeps zero-area faces: without them their edges read as   *)
(* holes.  A face naming a vertex twice has an edge nothing can match.     *)
Sides(faces) == UNION {{t} \X Corners : t \in {u \in DOMAIN faces : ~RepeatsAVertex(faces[u])}}
DirectedEdge(faces, s) == << faces[s[1]][s[2]], faces[s[1]][After(s[2])] >>
Reverse2(e) == << e[2], e[1] >>
EdgeEnds(e) == {e[1], e[2]}

DirectedEdges(faces) == {DirectedEdge(faces, s) : s \in Sides(faces)}
Edges(faces) == {EdgeEnds(e) : e \in DirectedEdges(faces)}
UsesOf(faces, e) == Cardinality({s \in Sides(faces) : DirectedEdge(faces, s) = e})
UsesOfEdge(faces, ends) == Cardinality({s \in Sides(faces) : EdgeEnds(DirectedEdge(faces, s)) = ends})

(* Faces around a vertex that do not hang together across shared edges.    *)
Pinched(faces, v) ==
  LET around == {t \in DOMAIN faces : ~RepeatsAVertex(faces[t]) /\ v \in CornerSet(faces[t])}
      links == {CornerSet(faces[t]) \ {v} : t \in around}
      pairs == {<< LeastOf(l), GreatestOf(l) >> : l \in links}
  IN Cardinality(around) > 1 /\ \E n \in UNION links : Joined({n}, pairs) # UNION links

CheckMesh(points, faces) ==
  LET edges == Edges(faces)
      uses == [e \in edges |-> UsesOfEdge(faces, e)]
      proper == {t \in DOMAIN faces : ~RepeatsAVertex(faces[t])}
  IN [boundaryEdges |-> Cardinality({e \in edges : uses[e] = 1}),
      nonManifoldEdges |-> Cardinality({e \in edges : uses[e] > 2}),
      inconsistentEdges |-> Cardinality({e \in edges :
          uses[e] = 2 /\ \E d \in DirectedEdges(faces) : EdgeEnds(d) = e /\ UsesOf(faces, d) = 2}),
      pinchedVertices |-> Cardinality({v \in DOMAIN points : Pinched(faces, v)}),
      degenerateFaces |-> Cardinality({t \in DOMAIN faces : Degenerate(points, faces[t])}),
      duplicateFaces |-> Cardinality(proper) - Cardinality({CornerSet(faces[t]) : t \in proper}),
      unweldedVertices |-> Welded(WeldPoints(points, CheckGrid))]

IsManifold(d) == d.boundaryEdges = 0 /\ d.nonManifoldEdges = 0 /\ d.pinchedVertices = 0
IsOk(d) == IsManifold(d) /\ d.inconsistentEdges = 0

(* What the geometry kernel accepts as a solid: every side of a face runs  *)
(* against exactly one side of another.                                    *)
Balanced(faces) == \A e \in DirectedEdges(faces) : UsesOf(faces, e) = UsesOf(faces, Reverse2(e))

(* Six times the signed volume of some faces. *)
Volume(points, faces, which) ==
  FoldSet(LAMBDA t, sum : sum + Dot(points[faces[t][1]], Cross(points[faces[t][2]], points[faces[t][3]])),
          0, which)

----------------------------------------------------------------------------
(* The life of a mesh.                                                     *)

CONSTANTS
  Meshes,        \* the meshes scripts and files may bring
  Tolerances,    \* what a script may give as weld tolerance; 0 welds exact copies
  MaxPasses      \* kMaxPasses of stripSlivers

ASSUME MaxPassesAssumption == MaxPasses \in Nat \ {0}

VARIABLES
  pc,            \* what happens to the mesh next
  job,           \* who asked for it: "polyhedron", "import", "module", "export"
  given,         \* the faces the job started from
  points,        \* vertProperties
  faces,         \* tris
  body,          \* "none", "solid", or "soup": an open surface kept for drawing
  grid,          \* tolerance of a repair
  remapped,      \* the welded faces, before any is dropped or turned
  component,     \* component of each face, 0 for a face not yet reached
  nComponents,
  stack,         \* faces whose neighbours are still to be oriented
  open,          \* the boundary, as directed edges to fill along, in order of tail
  report,
  pass           \* passes stripSlivers has made over the mesh
vars == << pc, job, given, points, faces, body, grid, remapped, component,
           nComponents, stack, open, report, pass >>
flooding == << component, nComponents, stack >>

NoReport == [welded |-> 0, degenerate |-> 0, duplicate |-> 0, reversed |-> 0,
             filled |-> 0, stripped |-> 0, left |-> 0]

(* Mutant: turned faces are not counted. *)
DidAnythingUnturned(r) == \E what \in DOMAIN r \ {"left", "reversed"} : r[what] > 0

DidAnything(r) == \E what \in DOMAIN r \ {"left"} : r[what] > 0

(* Repairs change what "repairing" says; the rest of the time the fields   *)
(* of a repair are not there to read.                                      *)
NoRepair ==
  /\ grid' = 0 /\ remapped' = << >> /\ open' = << >> /\ pass' = 0
  /\ component' = << >> /\ nComponents' = 0 /\ stack' = << >>

Init ==
  /\ \E m \in Meshes : points = m.points /\ faces = m.faces
  /\ pc = "given" /\ job = "none" /\ body = "none"
  /\ given = faces
  /\ grid = 0 /\ remapped = << >> /\ open = << >> /\ pass = 0
  /\ component = << >> /\ nComponents = 0 /\ stack = << >>
  /\ report = NoReport

----------------------------------------------------------------------------
(* Into the program. *)


(* Mutant: points are welded whenever any coincide. *)
UsesWeldedAlways(rep) == Welded(rep) > 0

(* polyhedron() welds only a mesh that is not sound as it stands: two      *)
(* shells that touch have points in common which belong to different ones. *)
UsesWelded(rep) == Welded(rep) > 0 /\ ~IsManifold(CheckMesh(points, faces))

Polyhedron ==
  /\ pc = "given"
  /\ LET rep == WeldPoints(points, CheckGrid)
     IN faces' = IF UsesWelded(rep) THEN Renamed(faces, rep) ELSE faces
  /\ pc' = "build" /\ job' = "polyhedron"
  /\ UNCHANGED << points, given, body, report >>
  /\ NoRepair

StartRepair(g) ==
  /\ given' = faces /\ grid' = g /\ report' = NoReport /\ pc' = "weld"
  /\ remapped' = << >> /\ open' = << >> /\ pass' = 0
  /\ component' = << >> /\ nComponents' = 0 /\ stack' = << >>

Import ==
  /\ pc = "given"
  /\ pc' = "build" /\ job' = "import"
  /\ UNCHANGED << points, faces, given, body, report >>
  /\ NoRepair

RepairingImport ==
  /\ pc = "given"
  /\ \E g \in Tolerances : StartRepair(g)
  /\ job' = "import"
  /\ UNCHANGED << points, faces, body >>

(* What the kernel does not take is kept as a surface, to be looked at.    *)
Build ==
  /\ pc = "build"
  /\ body' = IF Balanced(faces) THEN "solid" ELSE "soup"
  /\ pc' = "built"
  /\ UNCHANGED << job, given, points, faces, report >>
  /\ NoRepair

(* mesh_repair(), on a solid or on a kept surface. *)
MeshRepairModule ==
  /\ pc = "built" /\ job # "module"
  /\ \E g \in Tolerances : StartRepair(g)
  /\ job' = "module"
  /\ UNCHANGED << points, faces, body >>

(* A repair that did nothing, or whose result the kernel refuses, leaves   *)
(* the body as it was.                                                     *)
Rebuild ==
  /\ pc = "rebuild"
  /\ IF DidAnything(report) /\ Balanced(faces)
     THEN body' = "solid" /\ UNCHANGED faces
     ELSE faces' = given /\ UNCHANGED body
  /\ pc' = "built"
  /\ UNCHANGED << job, given, points, report >>
  /\ NoRepair

(* STL and OFF get the solids, and the open surfaces as they are. *)
Export ==
  /\ pc = "built"
  /\ pc' = "strip" /\ job' = "export" /\ given' = faces /\ report' = NoReport
  /\ UNCHANGED << points, faces, body >>
  /\ NoRepair

(* The stripped mesh is written only if a face was taken out. *)
Written ==
  /\ pc = "write"
  /\ faces' = IF report.stripped > 0 THEN faces ELSE given
  /\ pc' = "written"
  /\ UNCHANGED << job, given, points, body, report >>
  /\ NoRepair
----------------------------------------------------------------------------
(* The repair: weld, drop, orient, fill, turn outward, strip.              *)

(* Welding decides which edges are shared, so it comes first.              *)
Weld ==
  /\ pc = "weld"
  /\ \E rep \in {WeldPoints(points, grid)} :
       /\ faces' = Renamed(faces, rep)
       /\ remapped' = Renamed(faces, rep)
       /\ report' = [report EXCEPT !.welded = Welded(rep)]
  /\ pc' = "drop"
  /\ UNCHANGED << job, given, points, body, grid, flooding, open, pass >>

(* Of the faces on the same three vertices the first one stays.            *)
Duplicates(t, fs) ==
  ~RepeatsAVertex(fs[t]) /\ \E u \in 1 .. t - 1 : CornerSet(fs[u]) = CornerSet(fs[t])
Pick(fs, keep) ==
  LET at == Sorted(keep, <) IN [i \in DOMAIN at |-> fs[at[i]]]


(* Mutant: components are laid out for the faces before any was dropped. *)
DropFacesLate ==
  /\ pc = "drop"
  /\ \E flat \in {{t \in DOMAIN faces : RepeatsAVertex(faces[t])}} :
     \E again \in {{t \in DOMAIN faces : Duplicates(t, faces)}} :
       /\ faces' = Pick(faces, DOMAIN faces \ (flat \cup again))
       /\ component' = [t \in DOMAIN faces |-> 0]
       /\ report' = [report EXCEPT !.degenerate = Cardinality(flat), !.duplicate = Cardinality(again)]
  /\ pc' = "orient"
  /\ UNCHANGED << job, given, points, body, grid, remapped, nComponents, stack, open, pass >>

DropFaces ==
  /\ pc = "drop"
  /\ \E flat \in {{t \in DOMAIN faces : RepeatsAVertex(faces[t])}} :
     \E again \in {{t \in DOMAIN faces : Duplicates(t, faces)}} :
       /\ faces' = Pick(faces, DOMAIN faces \ (flat \cup again))
       /\ component' = [t \in 1 .. Len(faces) - Cardinality(flat \cup again) |-> 0]
       /\ report' = [report EXCEPT !.degenerate = Cardinality(flat), !.duplicate = Cardinality(again)]
  /\ pc' = "orient"
  /\ UNCHANGED << job, given, points, body, grid, remapped, nComponents, stack, open, pass >>

Turned(f) == << f[1], f[3], f[2] >>
Runs(f, e) == \E c \in Corners : << f[c], f[After(c)] >> = e
Shares(f, e) == Runs(f, e) \/ Runs(f, Reverse2(e))

(* A face nothing has reached yet starts a component, wound as it came.    *)
Seed ==
  /\ pc = "orient" /\ stack = << >>
  /\ \E seed \in {t \in DOMAIN faces : component[t] = 0} :
       /\ \A t \in 1 .. seed - 1 : component[t] # 0
       /\ component' = [component EXCEPT ![seed] = nComponents + 1]
       /\ stack' = << seed >>
  /\ nComponents' = nComponents + 1
  /\ UNCHANGED << pc, job, given, points, faces, body, grid, remapped, open, report, pass >>

(* The faces across its edges are turned against it, unless another face   *)
(* came to them first.                                                     *)
EdgeTo(f, g) ==
  LET c == CHOOSE c \in Corners :
             /\ Shares(g, << f[c], f[After(c)] >>)
             /\ \A b \in 1 .. c - 1 : ~Shares(g, << f[b], f[After(b)] >>)
  IN << f[c], f[After(c)] >>
Across(i) ==
  {j \in DOMAIN faces : component[j] = 0 /\ \E c \in Corners : Shares(faces[j], << faces[i][c], faces[i][After(c)] >>)}
CornerOf(f, e) == CHOOSE c \in Corners : << f[c], f[After(c)] >> = e
ReachedBefore(i, j, k) ==
  LET cj == CornerOf(faces[i], EdgeTo(faces[i], faces[j]))
      ck == CornerOf(faces[i], EdgeTo(faces[i], faces[k]))
  IN cj < ck \/ (cj = ck /\ j < k)

Flood ==
  /\ pc = "orient" /\ stack # << >>
  /\ LET i == Last(stack)
         reached == Across(i)
     IN /\ faces' = [j \in DOMAIN faces |->
                       IF j \in reached /\ Runs(faces[j], EdgeTo(faces[i], faces[j]))
                       THEN Turned(faces[j]) ELSE faces[j]]
        /\ component' = [j \in DOMAIN faces |-> IF j \in reached THEN component[i] ELSE component[j]]
        /\ stack' = Front(stack) \o Sorted(reached, LAMBDA j, k : ReachedBefore(i, j, k))
  /\ UNCHANGED << pc, job, given, points, body, grid, remapped, nComponents, open, report, pass >>


(* Mutant: the fill runs along the edge, not against it. *)
AlongForward(e) == e
Along(e) == Reverse2(e)

(* The boundary, walked backwards: a fill must run against the face that   *)
(* owns the edge.  Ordered by tail, then as the faces come.                *)
Boundary(fs) ==
  LET at == {s \in Sides(fs) : UsesOfEdge(fs, EdgeEnds(DirectedEdge(fs, s))) = 1}
      tail(s) == DirectedEdge(fs, s)[2]
      before(s, r) == tail(s) < tail(r)
                      \/ (tail(s) = tail(r) /\ (s[1] < r[1] \/ (s[1] = r[1] /\ s[2] < r[2])))
      sorted == Sorted(at, before)
  IN [i \in 1 .. Len(sorted) |-> Along(DirectedEdge(fs, sorted[i]))]

FindHoles ==
  /\ pc = "orient" /\ stack = << >> /\ \A t \in DOMAIN faces : component[t] # 0
  /\ open' = Boundary(faces)
  /\ pc' = "fill"
  /\ UNCHANGED << job, given, points, faces, body, grid, remapped, flooding, report, pass >>

(* One walk along the boundary, from the least tail, until it comes back   *)
(* or runs out of edges: what it passed, and what is left.                 *)
RECURSIVE Walk(_, _, _, _)
Walk(edges, start, cur, loop) ==
  LET out == {i \in DOMAIN edges : edges[i][1] = cur}
  IN IF out = {} THEN << loop, edges >>
     ELSE LET i == LeastOf(out)
          IN IF edges[i][2] = start THEN << Append(loop, cur), RemoveAt(edges, i) >>
             ELSE Walk(RemoveAt(edges, i), start, edges[i][2], Append(loop, cur))

Fan(loop) == [i \in 1 .. Len(loop) - 2 |-> << loop[1], loop[i + 1], loop[i + 2] >>]

(* A walk of fewer than three edges is dropped without a word.             *)
FillHole ==
  /\ pc = "fill" /\ open # << >>
  /\ \E walk \in {Walk(open, open[1][1], open[1][1], << >>)} :
       /\ open' = walk[2]
       /\ IF Len(walk[1]) >= 3
          THEN /\ faces' = faces \o Fan(walk[1])
               /\ report' = [report EXCEPT !.filled = @ + 1]
          ELSE UNCHANGED << faces, report >>
  /\ UNCHANGED << pc, job, given, points, body, grid, remapped, flooding, pass >>

(* A component whose volume is negative is inside out.  The fills count as *)
(* part of the first component, whichever hole they close.                 *)
ComponentOf(t) == IF t <= Len(component) THEN component[t] ELSE 1
InsideOut(c) == Volume(points, faces, {t \in DOMAIN faces : ComponentOf(t) = c}) < 0
SameTurn(f, g) == \E r \in {0, 1, 2} : \A c \in Corners : g[c] = f[((c + r - 1) % 3) + 1]
Known(f) == \E t \in DOMAIN remapped : SameTurn(remapped[t], f)

TurnOutward ==
  /\ pc = "fill" /\ open = << >>
  /\ \E wrong \in {{c \in 1 .. nComponents : InsideOut(c)}} :
       faces' = [t \in DOMAIN faces |->
                  IF ComponentOf(t) \in wrong THEN Turned(faces[t]) ELSE faces[t]]
  /\ report' = [report EXCEPT !.reversed =
                  Cardinality({t \in DOMAIN faces : ~Known(faces'[t]) /\ Known(Turned(faces'[t]))})]
  /\ pc' = "strip"
  /\ UNCHANGED << job, given, points, body, grid, remapped, flooding, open, pass >>

----------------------------------------------------------------------------
(* stripSlivers, one action per pass. *)

Sliver(f) == ~RepeatsAVertex(f) /\ ZeroArea(points, f)
Slivers == {t \in DOMAIN faces : Sliver(faces[t])}

(* Two corners at one position: a needle, which leaves no gap.             *)
NeedleCorner(f, c) == SameCell(points[f[c]], points[f[After(c)]], CheckGrid)
Needle(f) == \E c \in Corners : NeedleCorner(f, c)
NeedlePair(f) ==
  LET c == CHOOSE c \in Corners : NeedleCorner(f, c) /\ \A b \in 1 .. c - 1 : ~NeedleCorner(f, b)
  IN {f[c], f[After(c)]}

(* The corner opposite the longest edge lies between the other two.        *)
LengthOpposite(f, c) ==
  LET d == Minus(points[f[After(c)]], points[f[After(After(c))]]) IN Dot(d, d)
Middle(f) ==
  CHOOSE c \in Corners :
    /\ \A b \in Corners : LengthOpposite(f, b) <= LengthOpposite(f, c)
    /\ \A b \in 1 .. c - 1 : LengthOpposite(f, b) < LengthOpposite(f, c)
LongEdge(f) == LET m == Middle(f) IN << f[After(m)], f[After(After(m))] >>

(* The face across the long edge, one that has an area if there is one.    *)
Preferred(S) == LET solid == S \ Slivers IN LeastOf(IF solid = {} THEN S ELSE solid)


(* Mutant: the pieces run as the sliver did. *)
SplitUnturned(f, e, m) ==
  LET apex == CHOOSE v \in CornerSet(f) : v \notin EdgeEnds(e)
  IN << << e[1], m, apex >>, << m, e[2], apex >> >>

Split(f, e, m) ==
  LET c == CHOOSE c \in Corners : EdgeEnds(<< f[c], f[After(c)] >>) = EdgeEnds(e)
      x == f[c]  y == f[After(c)]  apex == f[After(After(c))]
  IN << << x, m, apex >>, << m, y, apex >> >>

Strip1(w, t) ==
  LET f == faces[t]
      across == {u \in DOMAIN faces \ (w.dead \cup {t}) : Shares(faces[u], LongEdge(f))}
  IN IF t \in w.dead THEN w
     ELSE IF Needle(f)
     THEN [w EXCEPT !.dead = @ \cup {t}, !.removed = @ + 1,
                    !.merge = [@ EXCEPT ![GreatestOf(NeedlePair(f))] = LeastOf(NeedlePair(f))]]
     ELSE IF across = {} THEN [w EXCEPT !.left = @ + 1]
     ELSE [w EXCEPT !.dead = @ \cup {t, Preferred(across)}, !.removed = @ + 1,
                    !.added = @ \o Split(faces[Preferred(across)], LongEdge(f), f[Middle(f)])]

StripAll ==
  FoldLeft(Strip1,
           [dead |-> {}, added |-> << >>, removed |-> 0, left |-> 0, merge |-> [v \in DOMAIN points |-> v]],
           Sorted(Slivers, <))

(* Chains of merges are followed eight steps, no more. *)
Hops == 8
Resolve(merge, v) == FoldSet(LAMBDA hop, at : merge[at], v, 1 .. Hops)
Resolved(merge, fs) == [t \in DOMAIN fs |-> [c \in Corners |-> Resolve(merge, fs[t][c])]]

StripDone == pc' = IF job = "export" THEN "write" ELSE IF job = "import" THEN "build" ELSE "rebuild"

StripPass ==
  /\ pc = "strip" /\ Slivers # {} /\ pass < MaxPasses
  /\ \E w \in {StripAll} :
       /\ report' = [report EXCEPT !.stripped = @ + w.removed, !.left = @ + w.left]
       /\ IF w.dead = {}
          THEN UNCHANGED faces /\ StripDone
          ELSE /\ faces' = Resolved(w.merge, Pick(faces, DOMAIN faces \ w.dead) \o w.added)
               /\ UNCHANGED pc
  /\ pass' = pass + 1
  /\ UNCHANGED << job, given, points, body, grid, remapped, flooding, open >>

StripEnd ==
  /\ pc = "strip" /\ (Slivers = {} \/ pass = MaxPasses)
  /\ StripDone
  /\ UNCHANGED << job, given, points, faces, body, grid, remapped, flooding, open, report, pass >>

Ended == pc = "written" /\ UNCHANGED vars

Next ==
  \/ Polyhedron \/ Import \/ RepairingImport \/ Build \/ MeshRepairModule \/ Rebuild
  \/ Weld \/ DropFaces \/ Seed \/ Flood \/ FindHoles \/ FillHole \/ TurnOutward
  \/ StripPass \/ StripEnd \/ Export \/ Written \/ Ended

Spec == Init /\ [][Next]_vars
----------------------------------------------------------------------------
(* Types: the mesh names only its own points, whatever welding, filling    *)
(* and stripping made of it.                                               *)
TypeOK ==
  /\ pc \in {"given", "weld", "drop", "orient", "fill", "strip", "build", "built", "rebuild", "write", "written"}
  /\ job \in {"none", "polyhedron", "import", "module", "export"}
  /\ body \in {"none", "solid", "soup"}
  /\ \A fs \in {given, faces, remapped} : \A t \in DOMAIN fs : CornerSet(fs[t]) \subseteq DOMAIN points
  /\ \A t \in DOMAIN component : component[t] \in 0 .. nComponents
  /\ nComponents <= Len(component)
  /\ pc \in {"orient", "fill"} => DOMAIN component \subseteq DOMAIN faces
  /\ pass \in 0 .. MaxPasses

(* Welded faces that are part of an orientable surface: no edge has more   *)
(* than two faces, and some winding agrees along all of them.              *)
Kept == Pick(remapped, {t \in DOMAIN remapped : ~RepeatsAVertex(remapped[t]) /\ ~Duplicates(t, remapped)})
PartOfASurface(fs) ==
  \E turn \in SUBSET DOMAIN fs :
    LET wound == [t \in DOMAIN fs |-> IF t \in turn THEN Turned(fs[t]) ELSE fs[t]]
    IN \A e \in DirectedEdges(wound) : UsesOf(wound, e) = 1

(* A repair before its last stage: nothing is stripped yet. *)
TurnedOutward == pc = "strip" /\ pass = 0 /\ job # "export"
ClosedOutward ==
  /\ Balanced(faces)
  /\ nComponents = 1 => Volume(points, faces, DOMAIN faces) >= 0

(* What is left of one orientable surface, its faces wound any which way,  *)
(* some missing, some there twice, each with corners of its own or not,    *)
(* is closed by the repair, wound one way and facing outward; of several   *)
(* surfaces the same holds as long as there was no hole to fill.           *)
RepairCloses ==
  (TurnedOutward /\ (nComponents = 1 \/ report.filled = 0) /\ PartOfASurface(Kept)) => ClosedOutward

Repaired == pc \in {"build", "rebuild"} /\ remapped # << >>

(* mesh_repair() and import say what they did: with nothing to report the  *)
(* mesh is face for face the one they were given.                          *)
SilentRepairsChangeNothing ==
  (Repaired /\ ~DidAnything(report)) =>
    Len(faces) = Len(given) /\ \A t \in DOMAIN faces : SameTurn(given[t], faces[t])

(* polyhedron() hands on a sound mesh whenever the points allow one: it    *)
(* neither leaves the seams of a mesh that welding would close, nor fuses  *)
(* shells that only touch.                                                 *)
PolyhedronSound ==
  (pc = "build" /\ job = "polyhedron") =>
    LET sound(fs) == IsManifold(CheckMesh(points, fs))
    IN sound(given) \/ sound(Renamed(given, WeldPoints(points, CheckGrid))) => sound(faces)

(* Every side of a face runs against one side of one other. *)
Closed(fs) == \A e \in DirectedEdges(fs) : UsesOf(fs, e) = 1 /\ UsesOf(fs, Reverse2(e)) = 1

(* Stripping zero-area faces opens nothing: every pass over a closed mesh  *)
(* no edge of which has more than two faces leaves a closed one, although  *)
(* new faces may meet old ones along an edge.                              *)
StripKeepsClosed ==
  [][(pc = "strip" /\ Closed(faces)) => Balanced(faces')]_vars
=============================================================================
