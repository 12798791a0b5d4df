---------------------------- MODULE MCMeshRepair ----------------------------
(* Meshes for MeshRepair: closed surfaces with faces missing, turned, given *)
(* twice, or with corners of their own, as an STL file has them.            *)
EXTENDS MeshRepair, TLC

CONSTANT MaxDamage     \* how many faces are missing or turned, together

O == << 0, 0, 0 >>
X == << 402, 0, 0 >>
Y == << 0, 402, 0 >>
Z == << 0, 0, 402 >>

Tetra == [points |-> << O, X, Y, Z >>,
          faces |-> << <<1, 3, 2>>, <<1, 2, 4>>, <<1, 4, 3>>, <<2, 3, 4>> >>]

(* A sliver lies along the edge X-Y: its middle belongs to one side only.  *)
OneSliver == [points |-> << O, X, Y, Z, <<201, 201, 0>> >>,
          faces |-> << <<1, 3, 5>>, <<1, 5, 2>>, <<2, 5, 3>>, <<2, 3, 4>>, <<1, 2, 4>>, <<1, 4, 3>> >>]

(* Two slivers share their long edge, each split by one side.              *)
Facing == [points |-> << O, X, Y, Z, <<201, 201, 0>>, <<134, 268, 0>> >>,
           faces |-> << <<1, 3, 5>>, <<1, 5, 2>>, <<2, 5, 3>>, <<3, 6, 2>>, <<2, 6, 4>>, <<6, 3, 4>>,
                        <<1, 2, 4>>, <<1, 4, 3>> >>]

(* The apex is two points, a few units apart and on two sides of a cell    *)
(* border of the grid: two needles join them.                              *)
Needles == [points |-> << O, X, Y, <<0, 0, 448>>, <<0, 0, 447>> >>,
            faces |-> << <<1, 3, 2>>, <<1, 2, 4>>, <<2, 3, 5>>, <<1, 5, 3>>, <<2, 5, 4>>, <<4, 5, 1>> >>]

(* Two tetrahedra that meet in one point, given twice.                     *)
Touching == [points |-> << O, X, Y, Z, O, << -402, 0, 0 >>, << 0, -402, 0 >>, << 0, 0, -402 >> >>,
             faces |-> Tetra.faces \o << <<5, 6, 7>>, <<5, 8, 6>>, <<5, 7, 8>>, <<6, 8, 7>> >>]

Surfaces == {Tetra, OneSliver, Facing, Needles, Touching}

Damaged(m, gone, turned) ==
  [m EXCEPT !.faces = Pick([t \in DOMAIN m.faces |-> IF t \in turned THEN Turned(m.faces[t]) ELSE m.faces[t]],
                           DOMAIN m.faces \ gone)]

(* Every face gets points of its own. *)
Soup(m) ==
  [points |-> FlattenSeq([t \in DOMAIN m.faces |-> [c \in Corners |-> m.points[m.faces[t][c]]]]),
   faces |-> [t \in DOMAIN m.faces |-> [c \in Corners |-> 3 * (t - 1) + c]]]

Twice(m, t) == [m EXCEPT !.faces = Append(@, @[t])]

Torn ==
  UNION {UNION {{Damaged(m, gone, turned) :
                   turned \in {r \in SUBSET DOMAIN m.faces : Cardinality(gone) + Cardinality(r) <= MaxDamage}} :
                gone \in {g \in SUBSET DOMAIN m.faces : Cardinality(g) <= MaxDamage}} : m \in Surfaces}
Brought == Torn \cup {Soup(m) : m \in Torn} \cup {Twice(m, 1) : m \in Surfaces}
Widths == {0, Default}
=============================================================================
