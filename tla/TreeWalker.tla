----------------------------- MODULE TreeWalker -----------------------------
(***************************************************************************)
(* The AST interpreter (expr_eval.cpp, user_calls.cpp): what an expression *)
(* evaluates to, in which context, and which messages it leaves.  It is    *)
(* the reference the compiled engine is compared with, so it is an         *)
(* operator: Eval(e, m, c) is the value of e together with the memory      *)
(* after it.  An evaluation that throws leaves the memory with err set,    *)
(* and nothing after it has an effect.                                     *)
(*                                                                         *)
(* A parameter is [x, d], d its default or NoExpr; an argument is [x, e],  *)
(* x = "" when it is positional; a let or for clause is [x, e].            *)
(***************************************************************************)
EXTENDS ExprMemory

RECURSIVE Eval(_, _, _), EvalEach(_, _, _, _), EvalLetClauses(_, _, _, _),
          BindArgs(_, _, _, _, _, _), ApplyDefaults(_, _, _, _, _),
          EvalListElement(_, _, _, _), EvalElements(_, _, _, _), EvalFor(_, _, _, _, _),
          EvalForItems(_, _, _, _, _, _), EvalCFor(_, _, _, _, _), SetInLoop(_, _, _)

\* Expressions left to right: their values, and the memory after the last.
EvalRest(es, vs, r, c) == EvalEach(es, Append(vs, r.v), r.m, c)
EvalEach(es, vs, m, c) == IF es = << >> THEN R(vs, m) ELSE EvalRest(Tail(es), vs, Eval(es[1], m, c), c)

\* Each clause of a let sees the ones before it; a repeated name is
\* evaluated, reported and not bound.
BindClause(binds, i, r, c) ==
    IF RepeatsEarlierLetName(binds, i) THEN Emit(r.m, <<"duplicate", binds[i].x, Plain(r.v)>>)
    ELSE BindLetName(r.m, c, binds[i].x, r.v)
EvalLetClauses(binds, i, m, c) ==
    IF i > Len(binds) THEN m
    ELSE EvalLetClauses(binds, i + 1, BindClause(binds, i, Eval(binds[i].e, m, c), c), c)

EvalLetExpr(e, in) == Eval(e.body, EvalLetClauses(e.binds, 1, in.m, in.c), in.c)

EvalEchoExpr(e, r, c) == Eval(e.body, Emit(r.m, <<"echo", Plain(List(r.v))>>), c)

\* The message is evaluated only once the condition has failed.
FailAssert(msg) == Raise(msg.m, <<"assertion failed", Plain(List(msg.v))>>)
Asserted(e, cond, c) == IF Truthy(cond.v) THEN cond.m ELSE FailAssert(EvalEach(e.msg, << >>, cond.m, c))
EvalAssert(e, m, c) == Asserted(e, Eval(e.cond, m, c), c)

----------------------------------------------------------------------------
(* Calls.                                                                  *)

\* Arguments to names.  The last value given to a name wins; an argument
\* beyond the parameters is reported once and never evaluated.
Surplus(a, ps, at) == a.x = "" /\ at > Len(ps)
WarnArgument(a, ps, at, m) ==
    IF a.x = "" THEN IF at = Len(ps) + 1 THEN Emit(m, <<"too many arguments">>) ELSE m
    ELSE IF IsDollar(a.x) \/ Declares(ps, a.x) THEN m ELSE Emit(m, <<"not a parameter", a.x>>)
BindArgument(args, ps, at, name, bound, r, c) ==
    BindArgs(Tail(args), ps, IF args[1].x = "" THEN at + 1 ELSE at,
             [y \in DOMAIN bound \cup {name} |-> IF y = name THEN r.v ELSE bound[y]], r.m, c)
BindArgs(args, ps, at, bound, m, c) ==
    IF args = << >> THEN R(bound, m)
    ELSE IF Surplus(args[1], ps, at) THEN BindArgs(Tail(args), ps, at + 1, bound, WarnArgument(args[1], ps, at, m), c)
    ELSE BindArgument(args, ps, at, IF args[1].x = "" THEN ps[at].x ELSE args[1].x, bound,
                      Eval(args[1].e, WarnArgument(args[1], ps, at, m), c), c)

\* A default sees neither the caller's locals nor the other parameters.
DefaultIn(d, in, dyn) == Eval(d, in.m, [in.c EXCEPT !.dyn = dyn])
DefaultOf(p, m, c) == IF p.d = NoExpr THEN R(Undef, m) ELSE DefaultIn(p.d, OpenContext(m, 0, c.dyn, c.scope), c.dyn)
BindDefault(x, r, c) == BindLetName(r.m, c, x, r.v)
ApplyDefaults(ps, i, bound, m, c) ==
    IF i > Len(ps) THEN m
    ELSE ApplyDefaults(ps, i + 1, bound,
             IF ps[i].x \in DOMAIN bound THEN m ELSE BindDefault(ps[i].x, DefaultOf(ps[i], m, c), c), c)

BindCallArgsInto(ps, bound, m, c) ==
    LET RECURSIVE BindAll(_, _)
        BindAll(names, mm) == IF names = {} THEN mm
                              ELSE LET x == CHOOSE y \in names : TRUE
                                   IN  BindAll(names \ {x}, BindLetName(mm, c, x, bound[x]))
    IN  ApplyDefaults(ps, 1, bound, BindAll(DOMAIN bound, m), c)

\* A function or a function literal on arguments not yet evaluated (from c).
RunBody(ps, body, bound, c) == Eval(body, BindCallArgsInto(ps, bound.v, bound.m, c), c)
BindAndRun(ps, body, args, in, c) == RunBody(ps, body, BindArgs(args, ps, 1, << >>, in.m, c), in.c)
EvalUserFunction(ps, body, args, capturedLet, scope, m, c) ==
    BindAndRun(ps, body, args, CallCtxFor(m, c, capturedLet, scope \cup ParamNames(ps)), c)

BuiltinValue(name, r) == R(EvalBuiltin(name, r.v), r.m)
CallValue(name, callee, args, c) ==
    IF callee.v.t = "fn"
    THEN EvalUserFunction(callee.v.lit.ps, callee.v.lit.body, args, callee.v.let, callee.v.scope, callee.m, c)
    ELSE R(Undef, IF name = "" THEN callee.m ELSE Emit(callee.m, <<"unknown function", name>>))
EvalFunctionCall(e, name, m, c) ==
    CASE name \in Functions ->
           EvalUserFunction(FunctionOf(m, name).ps, FunctionOf(m, name).body, e.args, 0, {}, m, c)
      [] name \in Builtins \ Functions ->
           IF UndefProbe(e) THEN R(Bool(EvalIdentifier(m, c, e.args[1].e.x, FALSE).v = Undef), m)
           ELSE BuiltinValue(name, EvalEach([i \in 1..Len(e.args) |-> e.args[i].e], << >>, m, c))
      [] OTHER -> CallValue(name, IF name = "" THEN Eval(e.f, m, c) ELSE EvalIdentifier(m, c, name, FALSE), e.args, c)

----------------------------------------------------------------------------
(* List comprehensions.  An element appends its items to out.              *)

ElementKinds == {"for", "cfor", "if", "ifelse", "letc", "each"}

EvalMoreElements(es, r, c) == EvalElements(es, r.v, r.m, c)
EvalElements(es, out, m, c) ==
    IF es = << >> THEN R(out, m) ELSE EvalMoreElements(Tail(es), EvalListElement(es[1], out, m, c), c)

AsList(r) == R(List(r.v), r.m)
EvalListLiteral(e, m, c) == AsList(EvalElements(e.es, << >>, m, c))

\* for: the range of a later variable is evaluated once per value of the
\* earlier ones, each in a context of its own.
ForRange(e, depth, r, out, c) == EvalForItems(e, depth, ExpandIterable(r.v), out, r.m, c)
EvalFor(e, depth, out, m, c) ==
    IF depth > Len(e.binds) THEN EvalListElement(e.body, out, m, c)
    ELSE ForRange(e, depth, Eval(e.binds[depth].e, m, c), out, c)

ForItem(e, depth, item, out, in) == EvalFor(e, depth + 1, out, Bind(in.m, in.c.let, e.binds[depth].x, item), in.c)
MoreItems(e, depth, items, r, c) == EvalForItems(e, depth, items, r.v, r.m, c)
EvalForItems(e, depth, items, out, m, c) ==
    IF items = << >> THEN R(out, m)
    ELSE MoreItems(e, depth, Tail(items), ForItem(e, depth, items[1], out, LetChildCtx(m, c)), c)

\* for(;;): one context for the whole loop.
BindInLoop(x, r, c) == Bind(r.m, c.let, x, r.v)
SetInLoop(binds, m, c) ==
    IF binds = << >> THEN m ELSE SetInLoop(Tail(binds), BindInLoop(binds[1].x, Eval(binds[1].e, m, c), c), c)

NextRound(e, n, r, c) == EvalCFor(e, n + 1, r.v, SetInLoop(e.incrs, r.m, c), c)
CForRound(e, n, out, cond, c) ==
    CASE ~Truthy(cond.v) -> R(out, cond.m)
      [] Truthy(cond.v) /\ n = CForLimit -> R(out, Raise(cond.m, <<"too many iterations">>))
      [] OTHER -> NextRound(e, n, EvalListElement(e.body, out, cond.m, c), c)
EvalCFor(e, n, out, m, c) == CForRound(e, n, out, Eval(e.cond, m, c), c)
EnterCFor(e, out, in) == EvalCFor(e, 0, out, SetInLoop(e.inits, in.m, in.c), in.c)

ElementIf(e, cond, out, c) == IF Truthy(cond.v) THEN EvalListElement(e.a, out, cond.m, c) ELSE R(out, cond.m)
ElementIfElse(e, cond, out, c) == EvalListElement(IF Truthy(cond.v) THEN e.a ELSE e.b, out, cond.m, c)
ElementLet(e, out, in) == EvalListElement(e.body, out, EvalLetClauses(e.binds, 1, in.m, in.c), in.c)
AppendEachOf(out, r) ==
    LET Merged[i \in 0..Len(r.v)] == IF i = 0 THEN out ELSE AppendEach(Merged[i - 1], r.v[i])
    IN  R(Merged[Len(r.v)], r.m)
AppendTo(out, r) == R(Append(out, r.v), r.m)

EvalListElement(e, out, m, c) ==
    CASE m.err -> R(out, m)
      [] ~m.err /\ e.k = "for" -> EvalFor(e, 1, out, m, c)
      [] ~m.err /\ e.k = "cfor" -> EnterCFor(e, out, LetChildCtx(m, c))
      [] ~m.err /\ e.k = "if" -> ElementIf(e, Eval(e.c, m, c), out, c)
      [] ~m.err /\ e.k = "ifelse" -> ElementIfElse(e, Eval(e.c, m, c), out, c)
      [] ~m.err /\ e.k = "letc" -> ElementLet(e, out, LetChildCtx(m, c))
      [] ~m.err /\ e.k = "each" -> AppendEachOf(out, EvalListElement(e.body, << >>, m, c))
      [] OTHER -> AppendTo(out, Eval(e, m, c))

----------------------------------------------------------------------------
(* Expressions.                                                            *)

Operate(op, r) == IF op = ".." THEN ApplyRange(r.m, r.v[1], r.v[2]) ELSE ApplyBinaryOp(r.m, op, r.v[1], r.v[2])
\* The right operand of && and || decides only when the left one has not.
Decide(r) == R(Bool(Truthy(r.v)), r.m)
AndThen(e, l, c) == IF ~Truthy(l.v) THEN R(Bool(FALSE), l.m) ELSE Decide(Eval(e.b, l.m, c))
OrElse(e, l, c) == IF Truthy(l.v) THEN R(Bool(TRUE), l.m) ELSE Decide(Eval(e.b, l.m, c))
Chosen(e, r, c) == Eval(IF Truthy(r.v) THEN e.a ELSE e.b, r.m, c)

Eval(e, m, c) ==
    CASE m.err -> R(Undef, m)
      [] ~m.err /\ e.k = "const" -> R(e.v, m)
      [] ~m.err /\ e.k = "id" -> EvalIdentifier(m, c, e.x, TRUE)
      [] ~m.err /\ e.k = "list" -> EvalListLiteral(e, m, c)
      [] ~m.err /\ e.k = "fn" -> R(Closure(e, c.let, c.scope), m)
      [] ~m.err /\ e.k = "call" -> EvalFunctionCall(e, IF IsIdentifier(e.f) THEN e.f.x ELSE "", m, c)
      [] ~m.err /\ e.k = "let" -> EvalLetExpr(e, LetChildCtx(m, c))
      [] ~m.err /\ e.k = "echo" -> EvalEchoExpr(e, EvalEach(e.args, << >>, m, c), c)
      [] ~m.err /\ e.k = "assert" -> Eval(e.body, EvalAssert(e, m, c), c)
      [] ~m.err /\ e.k \in {"op", "range"} ->
           Operate(IF e.k = "op" THEN e.op ELSE "..", EvalEach(<<e.a, e.b>>, << >>, m, c))
      [] ~m.err /\ e.k = "and" -> AndThen(e, Eval(e.a, m, c), c)
      [] ~m.err /\ e.k = "or" -> OrElse(e, Eval(e.a, m, c), c)
      [] ~m.err /\ e.k = "cond" -> Chosen(e, Eval(e.c, m, c), c)
=============================================================================
