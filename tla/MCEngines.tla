------------------------------ MODULE MCEngines ------------------------------
(***************************************************************************)
(* The programs the two engines are compared on: every combination of a    *)
(* few clauses, elements, literals and arguments, one construct at a time. *)
(* Left out are the shapes the engines are known to disagree on (README).  *)
(***************************************************************************)
EXTENDS BytecodeVm

MCGlobals == [g |-> Num(7)]
MCDollarNames == {"$a", "$b"}

\* Syntax.
N(n) == [k |-> "const", v |-> Num(n)]
V(x) == [k |-> "id", x |-> x]
L(es) == [k |-> "list", es |-> es]
Plus(a, b) == [k |-> "op", op |-> "+", a |-> a, b |-> b]
Less(a, b) == [k |-> "op", op |-> "<", a |-> a, b |-> b]
To(a, b) == [k |-> "range", a |-> a, b |-> b]
Cond(c, a, b) == [k |-> "cond", c |-> c, a |-> a, b |-> b]
LetIn(binds, body) == [k |-> "let", binds |-> binds, body |-> body]
B(x, e) == [x |-> x, e |-> e]
P(x) == [x |-> x, d |-> NoExpr]
PD(x, d) == [x |-> x, d |-> d]
Fn(id, ps, body) == [k |-> "fn", id |-> id, ps |-> ps, body |-> body]
CallOf(f, args) == [k |-> "call", f |-> f, args |-> args]
Pos(e) == [x |-> "", e |-> e]
Call1(f, e) == CallOf(V(f), <<Pos(e)>>)
EchoIn(args, body) == [k |-> "echo", args |-> args, body |-> body]
AssertIn(c, msg, body) == [k |-> "assert", cond |-> c, msg |-> msg, body |-> body]
For(binds, body) == [k |-> "for", binds |-> binds, body |-> body]
CFor(inits, c, incrs, body) == [k |-> "cfor", inits |-> inits, cond |-> c, incrs |-> incrs, body |-> body]
If(c, a) == [k |-> "if", c |-> c, a |-> a]
IfElse(c, a, b) == [k |-> "ifelse", c |-> c, a |-> a, b |-> b]
LetC(binds, body) == [k |-> "letc", binds |-> binds, body |-> body]
Each(body) == [k |-> "each", body |-> body]

\* Functions every program can call.
MCLibrary ==
    [f \in {"both", "given", "dyn", "sum", "apply", "late"} |->
        CASE f = "both" -> [ps |-> <<P("x"), P("y")>>, body |-> L(<<V("x"), V("y")>>)]
          [] f = "given" -> [ps |-> <<P("x"), PD("y", L(<<V("g"), V("x")>>))>>, body |-> L(<<V("x"), V("y")>>)]
          [] f = "dyn" -> [ps |-> <<P("x"), PD("$a", V("g"))>>, body |-> L(<<V("x"), V("$a"), V("$b")>>)]
          [] f = "sum" -> [ps |-> <<P("n"), PD("acc", N(0))>>,
                           body |-> Cond(Less(V("n"), N(1)), V("acc"),
                                         CallOf(V("sum"), <<Pos(Plus(V("n"), N(-1))), B("acc", Plus(V("acc"), V("n")))>>))]
          [] f = "apply" -> [ps |-> <<P("fn"), P("v")>>, body |-> Call1("fn", V("v"))]
          [] f = "late" -> [ps |-> <<PD("x", Fn("late1", << >>, V("x"))), PD("y", Call1("sum", N(1)))>>,
                            body |-> L(<<CallOf(V("x"), << >>), V("y")>>)]]

MCMainParams == <<P("x"), PD("y", N(2))>>
MCCall == Call1("main", N(1))

\* let: two clauses, a repeated name, a $-variable.
Clauses == {B(x, e) : x \in {"x", "z", "$a"}, e \in {N(5), V("x"), V("z"), V("$a")}}
Lets == {LetIn(<<a, b>>, body) : a \in Clauses, b \in Clauses,
                                 body \in {L(<<V("x"), V("z")>>), V("$a")}}

\* Short circuits and nested choices.
Atoms == {N(0), N(3), V("x"), V("q")}
Logic0 == {Cond([k |-> "and", a |-> V("x"), b |-> [k |-> "or", a |-> N(0), b |-> V("y")]], N(8), N(9)),
           CallOf(V("is_undef"), <<Pos(V("q"))>>), CallOf(V("is_undef"), <<Pos(V("$b"))>>),
           CallOf(V("is_undef"), <<Pos(Plus(V("x"), L(<< >>)))>>)}
Logic == {[k |-> op, a |-> a, b |-> b] : op \in {"and", "or"}, a \in Atoms, b \in Atoms}
         \cup {Cond(a, b, c) : a \in Atoms, b \in {N(3), V("q")}, c \in Logic0} \cup Logic0

\* List comprehensions: one or two elements, elements inside elements.
Leaves == {V("x"), If(Less(N(1), V("x")), V("x")), IfElse(V("x"), N(4), Each(N(6))), Each(L(<<V("x"), N(2)>>))}
Nests(e) == {For(<<B("x", To(N(1), N(2)))>>, e), For(<<B("z", To(N(0), V("y"))), B("x", L(<<V("z"), N(3)>>))>>, e),
             CFor(<<B("x", N(0)), B("z", V("x"))>>, Less(V("x"), N(2)), <<B("x", Plus(V("x"), N(1))), B("w", V("x"))>>, e),
             LetC(<<B("z", V("x")), B("x", Plus(V("z"), N(1))), B("z", N(0))>>, e),
             LetC(<<B("$a", V("x")), B("x", V("$a"))>>, e), Each(e), L(<<e>>)}
Elements == Leaves \cup UNION {Nests(e) : e \in Leaves}
Deeper == UNION {Nests(e) : e \in Elements}
Lists == {L(<<e>>) : e \in Deeper} \cup {L(<<e, f>>) : e \in Elements, f \in {V("x"), Each(N(1))}}
         \cup {L(<<CFor(<<B("x", N(0))>>, N(1), <<B("x", V("x"))>>, If(N(0), V("x")))>>),
               L(<<For(<<B("x", N(1))>>, V("x")), For(<<B("x", V("q"))>>, V("x")), To(N(2), N(1))>>)}

\* Literals: constant, capturing, self-reading, mutually reading, reading a
\* name nobody binds, nested, and chosen between.
Count(id, next) == Fn(id, <<P("n")>>, Cond(Less(V("n"), N(1)), V("x"), Call1(next, Plus(V("n"), N(-1)))))
Literals(id, other) ==
    {Fn(id, <<P("n")>>, V("n")), Fn(id, <<P("n")>>, L(<<V("n"), V("y")>>)), Count(id, "h"), Count(id, "k"),
     Fn(id, <<P("n")>>, L(<<V("x"), V("g")>>)), Fn(id, <<P("n"), PD("w", V("g"))>>, L(<<V("n"), V("w")>>)),
     Fn(id, <<P("n")>>, Call1("sum", V("n"))),
     Fn(id, <<P("n")>>, CallOf(Fn(other, <<P("w")>>, L(<<V("w"), V("n"), V("x")>>)), <<Pos(N(1))>>)),
     Cond(V("x"), Count(id, "k"), Fn(other, <<P("n")>>, V("x")))}
Closures == {LetIn(<<B("h", a), B("k", b)>>, body) :
                a \in Literals("h1", "h2"), b \in Literals("k1", "k2"),
                body \in {Call1("h", N(1)), L(<<Call1("k", N(2)), Call1("h", N(2))>>),
                          CallOf(V("apply"), <<Pos(V("h")), Pos(N(0))>>)}}
            \cup {L(<<For(<<B("z", To(N(1), N(2)))>>, Fn("c1", << >>, L(<<V("z"), V("x")>>))),
                      CallOf(Fn("c2", <<P("n")>>, V("n")), <<Pos(N(4))>>)>>),
                  CallOf(V("late"), << >>), Call1("q", N(1)), CallOf(N(3), << >>), L(<<Call1("x", N(1)), N(0)>>)}

\* Arguments: by place, by name, repeated, beyond the parameters, $-variables.
Argument == {Pos(N(3)), Pos(V("x")), B("x", N(5)), B("y", N(6)), B("$a", N(8)), B("$b", N(9)), B("u", N(0))}
ArgLists == {<< >>} \cup {<<a>> : a \in Argument} \cup {<<a, b>> : a \in Argument, b \in Argument}
            \cup {<<Pos(N(1)), Pos(N(2)), Pos(N(3)), Pos(N(4))>>}
Calls == {CallOf(V(f), args) : f \in {"both", "given", "dyn"}, args \in ArgLists}
         \cup {L(<<CallOf(V(f), args), V("x")>>) : f \in {"given", "dyn"}, args \in ArgLists}
         \cup {LetIn(<<B("h", Fn("h1", <<P("x"), PD("$a", V("g"))>>, L(<<V("x"), V("y"), V("$a"), V("$b")>>)))>>,
                     CallOf(V("h"), args)) : args \in ArgLists}
         \cup {Call1("sum", N(3)), Plus(Call1("sum", N(2)), V("x"))}

\* Messages and failures, before, inside and after the rest of the work.
Failing == {AssertIn(c, msg, V("x")) : c \in {N(0), N(1), V("q")}, msg \in {<< >>, <<V("q")>>}}
Messages == Failing \cup {EchoIn(<<V("x"), V("q")>>, e) : e \in Failing}
            \cup {L(<<V("x"), Each(L(<<e, V("q")>>)), V("q")>>) : e \in Failing}
            \cup {L(<<For(<<B("z", To(N(1), N(2)))>>, EchoIn(<<V("z")>>, e))>>) : e \in Failing}
            \cup {CallOf(V("both"), <<Pos(e), Pos(V("x"))>>) : e \in Failing}
            \cup {LetIn(<<B("z", e)>>, EchoIn(<<Fn("m1", << >>, V("z"))>>, CallOf(V("sum"), <<Pos(V("z"))>>))) : e \in Failing}

MCPrograms == Lets \cup Logic \cup Lists \cup Closures \cup Calls \cup Messages
=============================================================================
