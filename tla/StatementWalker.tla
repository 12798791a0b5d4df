--------------------------- MODULE StatementWalker ---------------------------
(***************************************************************************)
(* The statement half of the AST interpreter (stmt_eval.cpp,               *)
(* csg_resolve.cpp, user_calls.cpp): what a list of statements adds to the *)
(* CSG tree.  Like TreeWalker it is an operator, EvalChildren(ss, m, c),   *)
(* and what the compiled statements are compared with.                     *)
(*                                                                         *)
(* A statement is a record whose field k names its node kind.  The memory  *)
(* of TreeWalker has more fields: tree, the stack of CSG node lists being  *)
(* filled (treeStack_); calls, the open module calls; rands, how often     *)
(* rands() has run; assigned, where the names of a level were assigned;    *)
(* reassigned, the merged assignments warned about; lastIfTaken.           *)
(* A context is [let, dyn, scope, kids, from]: kids is the block the       *)
(* module was called with, from holds its caller's context, or nothing.    *)
(***************************************************************************)
EXTENDS TreeWalker

LOCAL INSTANCE SequencesExt

CONSTANT Modules    \* name |-> [ps, body, within]; within: the modules it is nested in

CsgOps == {"union", "difference", "intersection"}
Wrappers == {"translate", "hull"}
Declared(x) == x \in DOMAIN Modules
IsAssignment(s) == s.k = "assign"
Geometry(ss) == SelectSeq(ss, LAMBDA s : ~IsAssignment(s))
Assignments(ss) == SelectSeq(ss, IsAssignment)

----------------------------------------------------------------------------
(* The tree under construction.                                            *)

PushTree(m) == [m EXCEPT !.tree = Append(@, << >>)]
PopTree(m) == [m EXCEPT !.tree = Front(@)]
AddNodes(m, nodes) == [m EXCEPT !.tree[Len(m.tree)] = @ \o nodes]
TreeSize(m) == Len(Last(m.tree))

\* The innermost list becomes the children of a node of the list around it.
\* A node whose making drew a random number is not to be cached.
MakeNode(m, before, kind, args, groups) ==
    IF m.err THEN PopTree(m)
    ELSE AddNodes(PopTree(m),
             << [kind |-> kind, args |-> args, groups |-> groups, kids |-> Last(m.tree), chain |-> m.calls,
                 unc |-> m.rands # before \/ \E i \in DOMAIN Last(m.tree) : Last(m.tree)[i].unc] >>)

\* What a module drew goes where its call stands; more than one node goes
\* under a union of its own.
SpliceModuleChildren(m, before) ==
    LET marked == IF m.rands = before THEN Last(m.tree)
                  ELSE [i \in DOMAIN Last(m.tree) |-> [Last(m.tree)[i] EXCEPT !.unc = TRUE]]
    IN  CASE m.err -> PopTree(m)
          [] ~m.err /\ Len(marked) > 1 ->
               MakeNode(AddNodes(PushTree(PopTree(m)), marked), m.rands, "implicit union", << >>, << >>)
          [] OTHER -> AddNodes(PopTree(m), marked)

\* A statement that drew nothing and still is an operand of its CSG module.
EmptyStatementIsAnOperand(s, ifTaken) ==
    \/ s.k \in {"call", "for", "ifor", "let", "ifelse"}
    \/ s.k = "modifier" /\ s.how \in {"show_only", "highlight"}
    \/ s.k = "if" /\ ifTaken
IsBackground(s) == s.k = "modifier" /\ s.how = "background"

----------------------------------------------------------------------------
(* Contexts, and the assignments of a list.                                *)

ChildCtx(m, c) ==
    LET in == OpenContext(m, c.let, c.dyn, c.scope)
    IN  [m |-> in.m, c |-> [c EXCEPT !.let = in.c.let, !.dyn = in.c.dyn]]

\* A name assigned twice in a list is one assignment: where it was first
\* made, with the last expression.
MergeReassignments(ss) ==
    LET Same(i, j) == IsAssignment(ss[i]) /\ IsAssignment(ss[j]) /\ ss[i].x = ss[j].x
        kept == SelectSeq([i \in DOMAIN ss |-> i], LAMBDA i : \A j \in 1..(i - 1) : ~Same(i, j))
        LastOf(i) == CHOOSE j \in DOMAIN ss : Same(i, j) /\ \A h \in (j + 1)..Len(ss) : ~Same(i, h)
    IN  [n \in DOMAIN kept |-> IF IsAssignment(ss[kept[n]]) THEN ss[LastOf(kept[n])] ELSE ss[kept[n]]]
Reassigned(ss) == {ss[i].at : i \in {j \in DOMAIN ss : IsAssignment(ss[j]) /\
                                        \E h \in 1..(j - 1) : IsAssignment(ss[h]) /\ ss[h].x = ss[j].x}}

\* The order a list runs in: its assignments, then the rest.
RunOrder(ss) == Assignments(MergeReassignments(ss)) \o Geometry(MergeReassignments(ss))

StatementValue(e, m, c) ==
    IF e.k = "rands" /\ ~m.err THEN R(Num(0), [m EXCEPT !.rands = @ + 1]) ELSE Eval(e, m, c)

\* An assignment to an ordinary name remembers, beside its level, where it
\* was made.
WarnOverwritten(m, c, x) ==
    IF <<c.let, x>> \in DOMAIN m.assigned THEN Emit(m, <<"overwritten", x, m.assigned[<<c.let, x>>]>>) ELSE m
StoreAssignment(m, c, x, v, at) ==
    CASE m.err -> m
      [] ~m.err /\ IsDollar(x) -> Bind(m, c.dyn, x, v)
      [] OTHER -> [Bind(m, c.let, x, v)
                      EXCEPT !.assigned = [y \in DOMAIN @ \cup {<<c.let, x>>} |-> IF y = <<c.let, x>> THEN at ELSE @[y]]]

----------------------------------------------------------------------------
(* Arguments of builtins.                                                  *)

\* [pos, named]; a name is given at most once.
CallArgs(args, vs) ==
    LET Positions == SelectSeq([i \in DOMAIN args |-> i], LAMBDA i : args[i].x = "")
    IN  [pos |-> [n \in DOMAIN Positions |-> vs[Positions[n]]],
         named |-> [x \in {args[i].x : i \in DOMAIN args} \ {""} |->
                       vs[CHOOSE i \in DOMAIN args : args[i].x = x /\ \A j \in 1..(i - 1) : args[j].x # x]]]

GetArg(a, at, x, default) ==
    CASE x \in DOMAIN a.named /\ a.named[x] # Undef -> a.named[x]
      [] (x \notin DOMAIN a.named \/ a.named[x] = Undef) /\ at \in DOMAIN a.pos /\ a.pos[at] # Undef -> a.pos[at]
      [] OTHER -> default

RECURSIVE EvalArgs(_, _, _, _), EvalChildren(_, _, _), RunAll(_, _, _), EvalStatement(_, _, _),
          EvalIterations(_, _, _, _, _), EvalItems(_, _, _, _, _, _), EvalOperands(_, _, _, _),
          EvalLetBlock(_, _, _, _), ExpandChildStatements(_, _, _, _), PickChildren(_, _, _, _)

EvalMoreArgs(args, vs, r, c) == EvalArgs(args, Append(vs, r.v), r.m, c)
EvalArgs(args, vs, m, c) ==
    IF args = << >> THEN R(vs, m) ELSE EvalMoreArgs(Tail(args), vs, StatementValue(args[1].e, m, c), c)

\* $-variables among the arguments of a builtin hold for its block.
WithDollars(a, m, c) ==
    LET dollars == {x \in DOMAIN a.named : IsDollar(x)}
        in == ChildCtx(m, c)
    IN  IF dollars = {} THEN [a |-> a, m |-> m, c |-> c]
        ELSE [a |-> a, c |-> in.c,
              m |-> [in.m EXCEPT !.levels[in.c.dyn].names = [x \in dollars |-> a.named[x]]]]
ResolvedArgs(args, r, c) == WithDollars(CallArgs(args, r.v), r.m, c)
ResolveCallArgs(args, m, c) == ResolvedArgs(args, EvalArgs(args, << >>, m, c), c)

----------------------------------------------------------------------------
(* children().                                                             *)

NoForward == [stmts |-> << >>, picked |-> << >>, separate |-> FALSE, none |-> TRUE]

\* What finds a compiled list again: its first statement and its length.
\* A statement is its place in the block.
PlaceOf(i, kids) == CHOOSE n \in DOMAIN kids : ~IsAssignment(kids[n]) /\ Len(Geometry(SubSeq(kids, 1, n))) = i + 1
ListKey(kids, first, size) == <<kids, first, size>>

\* Mutant: the block runs in the scope of the module that forwards it.
ForwardCtxOfCallee(m, c) ==
    LET in == ChildCtx(m, c) IN [m |-> in.m, c |-> [c.from[1] EXCEPT !.let = in.c.let, !.dyn = in.c.dyn]]
\* The block's own context: the scope it was written in, and the
\* $-variables of the module that forwards it.
ForwardCtx(m, c) ==
    LET in == ChildCtx(m, c.from[1])
        passed == (DollarNames \ {"$children", "$parent_modules"}) \cap {x \in DollarNames : Find(m, c.dyn, x) # NotFound}
        looped == {x \in DollarNames : Find(m, c.let, x) # NotFound}
    IN  [c |-> in.c,
         m |-> [in.m EXCEPT !.levels[in.c.dyn].names = [x \in passed |-> Find(m, c.dyn, x)],
                            !.levels[in.c.let].names = [x \in looped |-> Find(m, c.let, x)]]]

\* The indices that name a child, and a warning for every other one.
PickChildren(vs, n, picked, m) ==
    IF vs = << >> THEN R(picked, m)
    ELSE IF vs[1].t # "num" THEN PickChildren(Tail(vs), n, picked, Emit(m, <<"bad child index", Plain(vs[1])>>))
    ELSE IF vs[1].n \notin 0..(n - 1) THEN PickChildren(Tail(vs), n, picked, Emit(m, <<"no such child", vs[1].n, n>>))
    ELSE PickChildren(Tail(vs), n, Append(picked, vs[1].n), m)

\* What children(...) forwards.  An index picks geometry only: the
\* assignments of the block are run for it beforehand.
PickedForward(kids, r, in, separate) ==
    IF r.v = << >> THEN R(NoForward, r.m)
    ELSE R([stmts |-> [n \in DOMAIN r.v |-> Geometry(kids)[r.v[n] + 1]], picked |-> r.v, separate |-> separate,
            none |-> FALSE, c |-> in.c, key |-> ListKey(kids, PlaceOf(r.v[1], kids), Len(r.v))],
           EvalChildren(Assignments(kids), r.m, in.c))
IndexedForward(idx, kids, in, separate) ==
    CASE idx.t \in {"num", "list", "range"} ->
           PickedForward(kids,
                         PickChildren(IF idx.t = "num" THEN << idx >> ELSE ExpandIterable(idx),
                                      Len(Geometry(kids)), << >>, in.m), in, separate)
      [] OTHER -> R(NoForward, Emit(in.m, <<"bad children argument", Plain(idx)>>))
PrepareChildrenForward(a, m, c) ==
    LET hasIndex == a.pos # << >> \/ "index" \in DOMAIN a.named
        separate == Truthy(GetArg(a, 2, "separate", Bool(FALSE)))
        in == ForwardCtx(m, c)
    IN  CASE (c.kids = << >> /\ ~hasIndex) \/ c.from = << >> -> R(NoForward, m)
          [] c.kids # << >> /\ c.from # << >> /\ ~hasIndex ->
               R([stmts |-> c.kids, picked |-> [i \in DOMAIN Geometry(c.kids) |-> i - 1], separate |-> separate,
                  none |-> FALSE, c |-> in.c, key |-> ListKey(c.kids, 1, Len(c.kids))], in.m)
          [] OTHER -> IndexedForward(GetArg(a, 1, "index", Undef), c.kids, in, separate)

\* children(..., separate = ...) stands for one statement per forwarded child.
IsSeparatingChildrenCall(s) ==
    /\ s.k = "call" /\ s.name = "children"
    /\ \E i \in DOMAIN s.args :
           \/ s.args[i].x = "separate"
           \/ s.args[i].x = "" /\ \E j \in 1..(i - 1) : s.args[j].x = ""
ChildrenIndexCall(i) ==
    [k |-> "call", name |-> "children", args |-> <<[x |-> "", e |-> [k |-> "const", v |-> Num(i)]]>>, body |-> << >>]
ForwardOf(in) == PrepareChildrenForward(in.a, in.m, in.c)
ExpandForward(s, fwd) ==
    R(CASE fwd.v.none -> << >>
        [] ~fwd.v.none /\ fwd.v.separate -> [n \in DOMAIN fwd.v.picked |-> ChildrenIndexCall(fwd.v.picked[n])]
        [] OTHER -> << s >>, fwd.m)
ExpandSeparatingChildren(s, m, c) == ExpandForward(s, ForwardOf(ResolveCallArgs(s.args, m, c)))
ExpandMore(ss, done, r, c) == ExpandChildStatements(ss, done \o r.v, r.m, c)
ExpandChildStatements(ss, done, m, c) ==
    IF ss = << >> THEN R(done, m)
    ELSE ExpandMore(Tail(ss), done,
             IF IsSeparatingChildrenCall(ss[1]) THEN ExpandSeparatingChildren(ss[1], m, c) ELSE R(<< ss[1] >>, m), c)

----------------------------------------------------------------------------
(* Module calls.                                                           *)

\* A module declared inside one that is being called sees its variables.
ModuleCtx(name, m, c) ==
    IF Modules[name].within \cap {m.calls[i] : i \in DOMAIN m.calls} # {}
    THEN OpenContext(m, c.let, c.dyn, c.scope \cup ParamNames(Modules[name].ps))
    ELSE OpenContext(m, 0, c.dyn, ParamNames(Modules[name].ps))

BindModule(ps, bound, kids, in, c) ==
    LET geo == Bind(in.m, in.c.dyn, "$children", Num(Len(Geometry(kids))))
    IN  [c |-> [let |-> in.c.let, dyn |-> in.c.dyn, scope |-> in.c.scope, kids |-> kids, from |-> << c >>],
         m |-> Bind(BindCallArgsInto(ps, bound, geo, in.c), in.c.dyn, "$parent_modules", Num(Len(in.m.calls) + 1))]
WithChildren(s, bound, kids, c) == BindModule(Modules[s.name].ps, bound, kids.v, ModuleCtx(s.name, kids.m, c), c)
BuildModuleChildCtx(s, bound, m, c) == WithChildren(s, bound, ExpandChildStatements(s.body, << >>, m, c), c)
BoundModuleCall(s, r, c) == BuildModuleChildCtx(s, r.v, r.m, c)
OpenModuleCall(s, m, c) == BoundModuleCall(s, BindArgs(s.args, Modules[s.name].ps, 1, << >>, m, c), c)

EnterModule(m, name) == IF m.err THEN m ELSE [m EXCEPT !.calls = Append(@, name)]
ExitModule(m, before) == [m EXCEPT !.calls = SubSeq(@, 1, before)]

RunModule(s, in) == ExitModule(EvalChildren(Modules[s.name].body, EnterModule(in.m, s.name), in.c), Len(in.m.calls))

----------------------------------------------------------------------------
(* Statements.                                                             *)

RunAll(ss, m, c) == IF ss = << >> \/ m.err THEN m ELSE RunAll(Tail(ss), EvalStatement(ss[1], m, c), c)
EvalChildren(ss, m, c) ==
    RunAll(RunOrder(ss), IF m.err THEN m ELSE [m EXCEPT !.reassigned = @ \cup Reassigned(ss)], c)

EvalBlock(ss, m, c) == LET in == ChildCtx(m, c) IN EvalChildren(ss, in.m, in.c)

BindNext(s, i, r, c) ==
    IF RepeatsEarlierLetName(s.binds, i) THEN Emit(r.m, <<"duplicate", s.binds[i].x, Plain(r.v)>>)
    ELSE BindLetName(r.m, c, s.binds[i].x, r.v)
EvalLetBlock(s, i, m, c) ==
    IF i > Len(s.binds) THEN EvalChildren(s.body, m, c)
    ELSE EvalLetBlock(s, i + 1, BindNext(s, i, StatementValue(s.binds[i].e, m, c), c), c)

\* One operand per statement of a CSG module: how many nodes it drew,
\* whether it is one although it drew none, and whether it is a ghost.
Operand(m, before, empty, background) ==
    << [n |-> TreeSize(m) - before, empty |-> empty /\ TreeSize(m) = before, bg |-> background] >>
AfterOperand(ss, groups, before, m, c) ==
    EvalOperands(Tail(ss), groups \o Operand(m, before, EmptyStatementIsAnOperand(ss[1], m.lastIfTaken),
                                             IsBackground(ss[1])), m, c)
EvalOperands(ss, groups, m, c) ==
    IF ss = << >> THEN R(groups, m) ELSE AfterOperand(ss, groups, TreeSize(m), RunAll(<< ss[1] >>, m, c), c)
EvalGroups(ss, groups, m, c) == EvalOperands(Geometry(ss), groups, EvalChildren(Assignments(ss), m, c), c)

\* for and intersection_for: what the body does in each iteration's context.
EvalIterable(s, depth, r, groups, c) == EvalItems(s, depth, ExpandIterable(r.v), groups, r.m, c)
EvalIterations(s, depth, groups, m, c) ==
    CASE depth <= Len(s.binds) -> EvalIterable(s, depth, StatementValue(s.binds[depth].e, m, c), groups, c)
      [] depth > Len(s.binds) /\ s.k = "for" -> R(groups, EvalChildren(s.body, m, c))
      [] OTHER -> EvalGroups(s.body, groups, m, c)
EvalIteration(s, depth, item, groups, in) ==
    EvalIterations(s, depth + 1, groups, Bind(in.m, in.c.let, s.binds[depth].x, item), in.c)
EvalMoreItems(s, depth, items, r, c) == EvalItems(s, depth, items, r.v, r.m, c)
EvalItems(s, depth, items, groups, m, c) ==
    IF items = << >> \/ m.err THEN R(groups, m)
    ELSE EvalMoreItems(s, depth, Tail(items), EvalIteration(s, depth, items[1], groups, ChildCtx(m, c)), c)

\* An unresolved operand list is expanded before the block's assignments run.
EvalExpanded(ss, c) == EvalGroups(ss.v, << >>, ss.m, c)
EvalCsgBlock(s, block) == EvalExpanded(ExpandChildStatements(s.body, << >>, block.m, block.c), block.c)
EvalCsg(s, in) == EvalCsgBlock(s, ChildCtx(in.m, in.c))
IterateExpanded(s, ss, c) == EvalIterations([s EXCEPT !.body = ss.v], 1, << >>, ss.m, c)
EvalIntersectionFor(s, m, c) == IterateExpanded(s, ExpandChildStatements(s.body, << >>, m, c), c)
EvalForwarded(fwd) == IF fwd.v.none THEN fwd.m ELSE EvalChildren(fwd.v.stmts, fwd.m, fwd.v.c)

FinishCsg(m, r, kind, args) == MakeNode(r.m, m.rands, kind, args, r.v)
FinishCall(s, m, in) ==
    CASE s.name \in CsgOps -> FinishCsg(m, EvalCsg(s, in), s.name, in.a)
      [] s.name \in Wrappers -> MakeNode(EvalBlock(s.body, in.m, in.c), m.rands, s.name, in.a, << >>)
      [] s.name = "children" -> SpliceModuleChildren(EvalForwarded(ForwardOf(in)), m.rands)
      [] OTHER -> MakeNode(in.m, m.rands, s.name, in.a, << >>)
EvalModularCall(s, m, c) ==
    CASE Declared(s.name) -> SpliceModuleChildren(RunModule(s, OpenModuleCall(s, PushTree(m), c)), m.rands)
      [] ~Declared(s.name) /\ s.name \in CsgOps \cup Wrappers \cup {"children", "cube"} ->
           FinishCall(s, m, ResolveCallArgs(s.args, PushTree(m), c))
      [] OTHER -> Emit(m, <<"unknown module", s.name>>)

EvalAssignment(s, r, c) == StoreAssignment(r.m, c, s.x, r.v, s.at)
EvalEcho(s, r, c) == EvalChildren(s.body, Emit(r.m, <<"echo", Plain(List(r.v))>>), c)
EvalAssertStatement(s, m, c) == EvalChildren(s.body, EvalAssert(s, m, c), c)
EvalIf(s, r, c) == [(IF Truthy(r.v) THEN EvalBlock(s.a, r.m, c) ELSE r.m) EXCEPT !.lastIfTaken = Truthy(r.v)]
EvalIfElse(s, r, c) == EvalBlock(IF Truthy(r.v) THEN s.a ELSE s.b, r.m, c)
EvalLet(s, in) == EvalLetBlock(s, 1, in.m, in.c)

EvalStatement(s, m, c) ==
    CASE m.err -> m
      [] ~m.err /\ s.k = "assign" ->
           EvalAssignment(s, StatementValue(s.e, IF IsDollar(s.x) THEN m ELSE WarnOverwritten(m, c, s.x), c), c)
      [] ~m.err /\ s.k = "call" -> EvalModularCall(s, m, c)
      [] ~m.err /\ s.k = "modifier" ->
           IF s.how = "disable" THEN m
           ELSE MakeNode(EvalChildren(<< s.s >>, PushTree(m), c), m.rands, s.how, << >>, << >>)
      [] ~m.err /\ s.k = "if" -> EvalIf(s, StatementValue(s.c, m, c), c)
      [] ~m.err /\ s.k = "ifelse" -> EvalIfElse(s, StatementValue(s.c, m, c), c)
      [] ~m.err /\ s.k = "for" -> EvalIterations(s, 1, << >>, m, c).m
      [] ~m.err /\ s.k = "ifor" -> FinishCsg(m, EvalIntersectionFor(s, PushTree(m), c), "intersection_for", << >>)
      [] ~m.err /\ s.k = "let" -> EvalLet(s, ChildCtx(m, c))
      [] ~m.err /\ s.k = "echo" -> EvalEcho(s, EvalArgs(s.args, << >>, m, c), c)
      [] ~m.err /\ s.k = "assert" -> EvalAssertStatement(s, m, c)
=============================================================================
