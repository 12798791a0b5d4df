------------------------------ MODULE MCBodies ------------------------------
(***************************************************************************)
(* Small trees for CsgBodies: two overlapping and one distant solid, two   *)
(* overlapping sections, an open mesh, an invalid and two empty bodies,    *)
(* under every operation, every wrapper and most pairs of them.            *)
(***************************************************************************)
EXTENDS CsgMeaning

MCLeaves ==
  [cube   |-> Solid({0, 1} \X {0}, "red"),
   tower  |-> Solid({1} \X {0, 1}, "blue"),
   bare   |-> Solid({1, 2} \X {0}, None),
   two    |-> Solid({0, 1, 4, 5} \X {0}, "red"),
   flat   |-> Section({0, 1}, "red"),
   patch  |-> Section({1, 2}, "blue"),
   loose  |-> OpenMesh({<< 0, 0 >>, << 2, 0 >>, << 2, 1 >>}, None),
   void   |-> Solid({}, "blue"),
   blank  |-> Section({}, None),
   broken |-> [Solid({}, None) EXCEPT !.valid = FALSE]]

MCMaps ==
  [right |-> Translation(1, 0), up |-> Translation(0, 1),
   turn |-> Matrix(0, 1, -1, 0, 0, 0), mirror |-> Matrix(-1, 0, 0, 1, 0, 0)]

Node(o, stmts) == [op |-> o.op, arg |-> o.arg, stmts |-> stmts]
Stmt(kids) == [kids |-> kids, group |-> FALSE, ghost |-> FALSE]
Leaf(name) == [op |-> "leaf", arg |-> name, stmts |-> << >>]
Ghost(kids) == [kids |-> kids, group |-> FALSE, ghost |-> TRUE]
EmptyGroup == [kids |-> << >>, group |-> TRUE, ghost |-> FALSE]
Skipped == [kids |-> << >>, group |-> FALSE, ghost |-> FALSE]

(* What may be written in front of a child. *)
W(op, arg) == [op |-> op, arg |-> arg]
Wrap == W("module", None)
Places == {W("translate", "right"), W("translate", "up"), W("rotate", "turn"), W("mirror", "mirror")}
Marks  == {W("highlight", None), W("background", None), W("show_only", None),
           W("color", "green"), W("export_as", "a")}
Others == {W("translate", "removed"), W("simplify", None), W("mesh_repair", None), W("offset", "out")}
Wraps  == {Wrap} \cup Places \cup Marks \cup Others
Of(w, kid) == Node(w, << Stmt(<< kid >>) >>)

Booleans == {W("union", None), W("difference", None), W("intersection", None)}
Merges   == {W("hull", None), W("fill", None), W("minkowski", None), W("minkowski_difference", None),
             W("offset", "out"), W("offset", "in"), W("linear_extrude", None), W("rotate_extrude", None),
             W("projection", "cut"), W("projection", "full")}

(* op() { wrap() leaf; leaf; } under a module. *)
Pairs(leaves, wraps, ops) ==
  {[nodes |-> << Leaf(a), Of(w, 1), Leaf(b), Node(o, << Stmt(<< 2 >>), Stmt(<< 3 >>) >>) >>,
    roots |-> << 4 >>] : a \in leaves, b \in leaves \ {"blank", "broken", "void"}, w \in wraps, o \in ops}

(* op() { wrap() leaf; leaf; }, the leaf first. *)
Tails(leaves, wraps, ops) ==
  {[nodes |-> << Leaf(a), Leaf(b), Of(w, 2), Node(o, << Stmt(<< 1 >>), Stmt(<< 3 >>) >>) >>,
    roots |-> << 4 >>] : a \in leaves, b \in leaves, w \in wraps, o \in ops}

(* wrap() op() { leaf; wrap() leaf; } *)
Overs(leaves, inner, ops, outer) ==
  {[nodes |-> << Leaf(a), Leaf(b), Of(i, 2), Node(o, << Stmt(<< 1 >>), Stmt(<< 3 >>) >>), Of(w, 4) >>,
    roots |-> << 5 >>] : a \in leaves, b \in leaves, i \in inner, o \in ops, w \in outer}

(* Two wrappers over an operation, beside another object. *)
Nests(leaves, inner, wraps, outer) ==
  {[nodes |-> << Leaf(a), Leaf(b), Node(i, << Stmt(<< 1, 2 >>) >>), Of(w, 3), Of(o, 4), Leaf(a) >>,
    roots |-> << 5, 6 >>] : a \in leaves, b \in leaves, i \in inner, w \in wraps, o \in outer}

(* An operation on an operation, with an operand in between. *)
Chains(leaves, inner, outer, gaps) ==
  {[nodes |-> << Leaf(a), Leaf(b), Node(i, << Stmt(<< 1 >>), Stmt(<< 2 >>) >>),
                 Leaf(c), Node(W("background", None), << Stmt(<< 4 >>) >>),
                 Node(o, << Stmt(<< 3 >>) >> \o g) >>,
    roots |-> << 6 >>] : a \in leaves, b \in leaves, c \in leaves, i \in inner, o \in outer, g \in gaps}

Gaps == {<< Stmt(<< 4 >>) >>, << Skipped, Stmt(<< 4 >>) >>, << EmptyGroup, Stmt(<< 4 >>) >>,
         << Stmt(<< 5 >>) >>, << Ghost(<< 5 >>) >>}

MCTrees ==
  UNION {Pairs(DOMAIN MCLeaves, Wraps, Booleans),
         Pairs({"cube", "flat", "loose", "void"}, {Wrap} \cup Marks, Merges),
         Tails({"cube", "two", "patch", "bare"}, Wraps, Booleans),
         Overs({"cube", "tower"}, Marks, Booleans \cup {W("hull", None)}, Wraps),
         Nests({"cube", "two", "flat"}, {W("union", None), W("module", None)}, Places \cup Marks, Places \cup Marks \cup Others),
         Chains({"cube", "tower", "flat"}, Booleans, Booleans, Gaps)}
=============================================================================
