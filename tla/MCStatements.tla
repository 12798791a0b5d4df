---------------------------- MODULE MCStatements ----------------------------
(***************************************************************************)
(* The files the statement engines are compared on: every block of two     *)
(* statements under every wrapper, after an assignment, and calls of       *)
(* modules that hand their blocks on.  Left out are the shapes the engines *)
(* are known to disagree on (README).                                      *)
(***************************************************************************)
EXTENDS StatementVm

MCDollarNames == {"$a", "$children", "$parent_modules"}
None == << >>

\* Syntax.
N(n) == [k |-> "const", v |-> Num(n)]
V(x) == [k |-> "id", x |-> x]
L(es) == [k |-> "list", es |-> es]
Plus(a, b) == [k |-> "op", op |-> "+", a |-> a, b |-> b]
Less(a, b) == [k |-> "op", op |-> "<", a |-> a, b |-> b]
To(a, b) == [k |-> "range", a |-> a, b |-> b]
Rands == [k |-> "rands"]
B(x, e) == [x |-> x, e |-> e]
P(x) == [x |-> x, d |-> NoExpr]
PD(x, d) == [x |-> x, d |-> d]
Pos(e) == [x |-> "", e |-> e]
Set(x, e, at) == [k |-> "assign", x |-> x, e |-> e, at |-> at]
Call3(f, args, body) == [k |-> "call", name |-> f, args |-> args, body |-> body]
Do(f, body) == Call3(f, << >>, body)
Cube(e) == Call3("cube", <<Pos(e)>>, << >>)
Children == Do("children", << >>)
Separate(args) == Call3("children", args \o <<B("separate", N(1))>>, << >>)
Mark(how, s) == [k |-> "modifier", how |-> how, s |-> s]
If(c, a) == [k |-> "if", c |-> c, a |-> a]
IfElse(c, a, b) == [k |-> "ifelse", c |-> c, a |-> a, b |-> b]
For(binds, body) == [k |-> "for", binds |-> binds, body |-> body]
IFor(binds, body) == [k |-> "ifor", binds |-> binds, body |-> body]
LetIn(binds, body) == [k |-> "let", binds |-> binds, body |-> body]
EchoOf(args, body) == [k |-> "echo", args |-> args, body |-> body]
AssertOf(c, msg, body) == [k |-> "assert", cond |-> c, msg |-> msg, body |-> body]

Mod(ps, body) == [ps |-> ps, body |-> body, within |-> {}]
In(outer, ps, body) == [ps |-> ps, body |-> body, within |-> {outer}]
MCModules ==
    [f \in {"one", "box", "pick", "wrapd", "each", "pass", "dyn", "rec", "outer", "inner", "fails"} |->
        CASE f = "one" -> Mod(<< >>, <<Children>>)
          [] f = "box" -> Mod(<<P("x"), PD("y", N(2))>>,
                              <<Cube(V("z")), Set("z", L(<<V("x"), V("y"), V("$children"), V("$a")>>), 20)>>)
          [] f = "pick" -> Mod(<<P("i")>>, <<Call3("children", <<Pos(V("i"))>>, << >>)>>)
          [] f = "wrapd" -> Mod(<< >>, <<Do("difference", <<Set("z", N(5), 21), Separate(<< >>), Cube(V("z"))>>)>>)
          [] f = "each" -> Mod(<< >>, <<For(<<B("i", To(N(0), Plus(V("$children"), N(-1))))>>,
                                             <<Call3("translate", <<Pos(V("i"))>>,
                                                     <<Call3("children", <<Pos(V("i"))>>, << >>)>>)>>)>>)
          [] f = "pass" -> Mod(<< >>, <<Set("x", N(9), 22), Call3("one", <<B("$a", N(6))>>, <<Children, Cube(V("x"))>>)>>)
          [] f = "dyn" -> Mod(<<PD("$a", N(3))>>, <<LetIn(<<B("x", N(8)), B("$a", Plus(V("$a"), N(1)))>>, <<Children>>)>>)
          [] f = "rec" -> Mod(<<P("n")>>, <<If(Less(N(0), V("n")), <<Call3("rec", <<Pos(Plus(V("n"), N(-1)))>>,
                                                                           <<Children, Cube(V("n"))>>)>>),
                                            If(Less(V("n"), N(1)), <<Children>>)>>)
          [] f = "outer" -> Mod(<<P("x")>>, <<Set("z", V("x"), 23), Do("inner", <<Cube(V("z")), Children>>)>>)
          [] f = "inner" -> In("outer", <<PD("z", N(1))>>, <<Cube(V("x")), Children>>)
          [] f = "fails" -> Mod(<< >>, <<Cube(N(1)), AssertOf(N(0), <<V("$children"), V("q")>>, << >>)>>)]

Atoms(x) ==
    {Cube(V(x)), Set(x, Plus(V(x), N(1)), 2), Set("$a", N(4), 3), Set("w", Rands, 4),
     Do("one", <<Cube(V(x)), Set("x", N(7), 5)>>), Call3("box", <<Pos(V(x)), B("$a", N(1))>>, <<Cube(N(1))>>),
     Do("each", <<Cube(V("$a")), If(N(0), <<Cube(N(2))>>)>>), Do("pass", <<Cube(V(x))>>),
     Do("wrapd", <<Cube(V(x)), Cube(V("z"))>>), Do("dyn", <<Cube(L(<<V("$a"), V(x)>>))>>),
     If(V(x), <<Cube(N(3)), Set("x", N(0), 6)>>), If(V("q"), <<Cube(N(3))>>),
     Do("outer", <<Cube(V("z"))>>), Do("fails", <<Cube(N(1))>>)}

Extra ==
    {Call3("rec", <<Pos(N(2))>>, <<Cube(V("x"))>>), Call3("pick", <<Pos(N(1))>>, <<Cube(N(1)), Set("z", V("x"), 7), Cube(V("z"))>>),
     Call3("pick", <<Pos(L(<<N(1), N(5), V("q"), N(0)>>))>>, <<Cube(N(1)), Cube(N(2))>>), Call3("pick", <<Pos(V("q"))>>, << >>),
     Call3("unheard", << >>, <<Cube(N(1))>>), Children, Mark("disable", Cube(N(1))),
     IFor(<<B("i", To(N(0), N(1)))>>, <<Cube(V("i")), Set("z", V("i"), 8), If(V("i"), <<Cube(V("z"))>>)>>),
     For(<<B("i", To(N(0), N(1))), B("x", To(N(0), V("i")))>>, <<Cube(L(<<V("i"), V("x")>>)), Set("x", N(3), 9)>>),
     AssertOf(N(1), << >>, <<Cube(N(1))>>), Call3("cube", <<Pos(V("x")), B("$a", V("$a"))>>, << >>)}

Wrapped(ss) ==
    {ss, <<Do("union", ss)>>, <<Call3("difference", <<B("$a", N(5))>>, ss)>>, <<Call3("translate", <<Pos(Rands)>>, ss)>>,
     <<Mark("highlight", Do("hull", ss))>>, <<Mark("background", Do("one", ss))>>,
     <<For(<<B("x", L(<<N(0), N(2)>>))>>, ss)>>, <<IFor(<<B("i", L(<<N(1)>>)), B("x", To(N(0), V("i")))>>, ss)>>,
     <<IfElse(V("x"), ss, <<Cube(N(0))>>)>>, <<LetIn(<<B("x", N(5)), B("$a", V("x")), B("x", N(6))>>, ss)>>,
     <<EchoOf(<<Pos(V("x"))>>, ss)>>, <<AssertOf(V("x"), <<V("q")>>, ss)>>,
     <<Do("union", <<Do("one", ss), If(V("q"), <<Cube(N(1))>>), Mark("background", Cube(N(2)))>>)>>}

MCFiles ==
    UNION {Wrapped(<<a, b>>) : a \in Atoms("x"), b \in Atoms("x")}
    \cup {<<Set("x", N(1), 1)>> \o f : f \in UNION {Wrapped(<<a>>) : a \in Atoms("x") \cup Extra}}
=============================================================================
