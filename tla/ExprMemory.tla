----------------------------- MODULE ExprMemory -----------------------------
(***************************************************************************)
(* What both expression engines of the evaluator share: the values, the    *)
(* binding levels an EvalContext points into, the messages an evaluation   *)
(* leaves behind, and the primitives on values that the tree walker and    *)
(* the virtual machine both call.                                          *)
(*                                                                         *)
(* An expression is a record whose field k names its node kind.  A memory  *)
(* is [main, levels, out, err]: the body of the function main; the binding *)
(* levels opened so far; the messages in order; and whether an assertion   *)
(* or a loop guard has thrown.                                             *)
(***************************************************************************)
EXTENDS Integers, Sequences

CONSTANTS
    Library,       \* the file's functions but one: name |-> [ps, body]
    MainParams,    \* the parameters of the one, main, whose body varies
    Globals,       \* the file's own variables: name |-> value
    DollarNames,   \* the names that begin with a dollar sign
    CForLimit      \* kMaxCForIterations, cut down for the checker

Functions == DOMAIN Library \cup {"main"}
FunctionOf(m, f) == IF f = "main" THEN [ps |-> MainParams, body |-> m.main] ELSE Library[f]

\* Values.  A closure remembers its literal, the level it captured (0: none)
\* and the parameter names its lexical scope declares.
Undef == [t |-> "undef"]
Num(n) == [t |-> "num", n |-> n]
Bool(b) == [t |-> "bool", b |-> b]
List(s) == [t |-> "list", s |-> s]
Closure(lit, let, scope) == [t |-> "fn", lit |-> lit, let |-> let, scope |-> scope]
RangeOf(a, b) == [t |-> "range", lo |-> a, hi |-> b]
NotFound == [t |-> "none"]

Truthy(v) == CASE v.t = "bool" -> v.b
               [] v.t = "num" -> v.n # 0
               [] v.t = "list" -> v.s # << >>
               [] v.t = "undef" -> FALSE
               [] OTHER -> TRUE

RangeItems(v) == [i \in 1..(IF v.hi < v.lo THEN 0 ELSE v.hi - v.lo + 1) |-> Num(v.lo + i - 1)]

\* What a for loop iterates over.
ExpandIterable(v) == CASE v.t = "list" -> v.s
                       [] v.t = "range" -> RangeItems(v)
                       [] v.t = "undef" -> << >>
                       [] OTHER -> << v >>

\* What `each v` contributes to a list.
AppendEach(out, v) == CASE v.t = "list" -> out \o v.s
                        [] v.t = "range" -> out \o RangeItems(v)
                        [] v.t = "undef" -> out
                        [] OTHER -> Append(out, v)

----------------------------------------------------------------------------
(* Binding levels.  A context is [let, dyn, scope]: the innermost level of *)
(* each trail, and the parameter names its lexical scope declares.         *)

IsDollar(x) == x \in DollarNames

OpenLevel(m, up) == [m EXCEPT !.levels = Append(@, [up |-> up, names |-> << >>])]

Bind(m, l, x, v) ==
    [m EXCEPT !.levels[l].names = [y \in DOMAIN @ \cup {x} |-> IF y = x THEN v ELSE @[y]]]

RECURSIVE Find(_, _, _)
Find(m, l, x) ==
    IF l = 0 THEN NotFound
    ELSE IF x \in DOMAIN m.levels[l].names THEN m.levels[l].names[x]
    ELSE Find(m, m.levels[l].up, x)

OpenContext(m, letUp, dynUp, scope) ==
    [m |-> OpenLevel(OpenLevel(m, letUp), dynUp),
     c |-> [let |-> Len(m.levels) + 1, dyn |-> Len(m.levels) + 2, scope |-> scope]]

LetChildCtx(m, c) == OpenContext(m, c.let, c.dyn, c.scope)

\* A call: no local of the caller is visible, its $-variables are.  A closure
\* continues from the level it captured.
CallCtxFor(m, c, capturedLet, scope) == OpenContext(m, capturedLet, c.dyn, scope)

BindLetName(m, c, x, v) == Bind(m, IF IsDollar(x) THEN c.dyn ELSE c.let, x, v)

----------------------------------------------------------------------------
(* Messages, and the primitives that may warn.  R pairs a value with the   *)
(* memory after it.  Plain is a value as a message prints it: two closures *)
(* print alike whatever they captured.                                     *)

RECURSIVE Plain(_)
Plain(v) == CASE v.t = "list" -> List([i \in DOMAIN v.s |-> Plain(v.s[i])])
              [] v.t = "fn" -> [t |-> "fn"]
              [] OTHER -> v

R(v, m) == [v |-> v, m |-> m]
Emit(m, msg) == IF m.err THEN m ELSE [m EXCEPT !.out = Append(@, msg)]
Raise(m, msg) == IF m.err THEN m ELSE [Emit(m, msg) EXCEPT !.err = TRUE]

EvalIdentifier(m, c, x, warnIfUndef) ==
    LET found == IF Find(m, c.let, x) # NotFound THEN Find(m, c.let, x)
                 ELSE IF IsDollar(x) THEN Find(m, c.dyn, x)
                 ELSE IF x \in c.scope THEN Undef
                 ELSE IF x \in DOMAIN Globals THEN Globals[x] ELSE NotFound
    IN  IF found # NotFound THEN R(found, m)
        ELSE R(Undef, IF warnIfUndef THEN Emit(m, <<"unknown variable", x>>) ELSE m)

ApplyBinaryOp(m, op, a, b) ==
    IF a.t = "num" /\ b.t = "num"
    THEN R(IF op = "+" THEN Num(a.n + b.n) ELSE Bool(a.n < b.n), m)
    ELSE R(Undef, Emit(m, <<"undefined operation", op>>))

ApplyRange(m, a, b) ==
    IF a.t # "num" \/ b.t # "num" THEN R(Undef, Emit(m, <<"no range">>))
    ELSE R(RangeOf(a.n, b.n), IF b.n < a.n THEN Emit(m, <<"begin after end">>) ELSE m)

\* Does the let clause at i rebind a name an earlier clause of the list bound?
RepeatsEarlierLetName(binds, i) == \E j \in 1..(i - 1) : binds[j].x = binds[i].x

Declares(ps, x) == \E i \in 1..Len(ps) : ps[i].x = x
ParamNames(ps) == {ps[i].x : i \in 1..Len(ps)}
IsIdentifier(e) == e.k = "id"
NoExpr == [k |-> "none"]

\* is_undef(name) only asks: it must not warn that the name is unknown.
UndefProbe(e) == /\ IsIdentifier(e.f) /\ e.f.x = "is_undef" /\ Len(e.args) = 1
                 /\ e.args[1].x = "" /\ IsIdentifier(e.args[1].e)
Builtins == {"is_undef"}
EvalBuiltin(x, vs) == Bool(vs = << >> \/ vs[1] = Undef)
=============================================================================
