------------------------------- MODULE MCValues -----------------------------
(***************************************************************************)
(* Every expression ValueScripts can evaluate over a few values of each    *)
(* type, one at a time, and short scripts of rands() calls for two         *)
(* evaluators.  The numbers of the machine are small: floats of 11 bits    *)
(* printed with 2 digits, ints of 4 bits, bits and shifts of 5.            *)
(***************************************************************************)
EXTENDS ValueLaws, TLC
LOCAL INSTANCE SequencesExt

N(n) == Num(Whole(n))
Half == Num(<<1, 2>>)
L1(a) == List(<<a>>)
L2(a, b) == List(<<a, b>>)
L3(a, b, c) == List(<<a, b, c>>)
R(a, b, c) == OscRange(Whole(a), Whole(b), Whole(c))

MCEpsilon == <<1, 8>>
MCTolerance == <<1, 100>>

\* Names that scripts compare with text: member and key names, features, modules.
MCSpelling ==
  [x |-> <<120>>, y |-> <<121>>, z |-> <<122>>, w |-> <<119>>, key |-> <<107>>, det |-> <<100>>,
   singular |-> <<115>>, import |-> <<105>>, roof |-> <<114>>, outer |-> <<111>>, inner |-> <<110>>]
MCFeatures == [import |-> 1, roof |-> 2]
Frame(kind, name) == [kind |-> kind, name |-> name]
MCCallStack == <<Frame("module", "outer"), Frame("function", "x"), Frame("module", "inner")>>

\* "ab", e-acute and a smiley, a cut character, a stray continuation byte.
Ab == Str(<<97, 98>>)
Acute == Str(<<195, 169, 97>>)
Smiley == Str(<<240, 159, 152, 128>>)
Cut == Str(<<97, 226, 130>>)
Stray == Str(<<130, 97>>)
KeyText == Str(<<107>>)
XText == Str(<<120>>)
Box == Object(<< <<<<107>>, N(1)>>, <<<<120>>, Undef>> >>)
Swapped == Object(<< <<<<120>>, Undef>>, <<<<107>>, N(1)>> >>)

Numbers == {N(n) : n \in {-2, -1, 0, 1, 2, 3, 9, 20}}
             \cup {Half, Num(NaN), Num(Infinity), Num(NegInfinity)}
Texts == {Str(<<>>), Ab, Acute, Smiley, Cut, Stray}
Vectors == {List(<<>>), L1(N(2)), L2(N(1), N(2)), L3(N(1), N(2), N(3)), L2(N(1), Undef),
            L2(N(1), Num(NaN)), L2(Ab, N(1)), L2(N(1), Ab)}
Matrices == {L1(List(<<>>)), L2(L2(N(1), N(2)), L2(N(0), N(-1))), L1(L2(N(1), N(2))),
             L2(L1(N(1)), L1(N(2))), L2(L2(N(1), N(2)), L1(N(1))), L2(L2(N(1), N(2)), N(1)),
             L3(L2(N(1), N(0)), L2(N(0), N(1)), L2(N(2), N(2))), L2(L2(N(1), Ab), L2(N(0), N(1)))}
SomeRanges == {R(0, 1, 2), R(0, 1, -1), R(3, 0, 3), R(0, 1, 3)}
MCSamples ==
  UNION {Numbers, Texts, Vectors, Matrices, SomeRanges,
         {Undef, Bool(TRUE), Bool(FALSE), Box, Swapped, Object(<<>>), Closure(1), Closure(2)}}

Plain(v) == <<"", v>>
Args(values) == [i \in DOMAIN values |-> Plain(values[i])]
Call(name, values) == <<"call", name, Args(values)>>

Operators == {"+", "-", "*", "/", "%", "==", "!=", "<", "<=", ">", ">=", "|", "&", "<<", ">>"}
Binaries == {<<"binary", op, Args(<<a, b>>)>> : op \in Operators, a \in MCSamples, b \in MCSamples}
Powers == {<<"binary", "^", Args(<<a, b>>)>> :
              a \in {N(-2), N(0), N(3), Half, Num(Infinity), Num(NaN), Undef, List(<<>>)},
              b \in {N(-2), N(0), N(1), N(3), Half, Num(Infinity), Num(NaN), Ab}}
Unaries == {<<"unary", op, Args(<<v>>)>> : op \in {"-", "!", "~"}, v \in MCSamples}
Indices == {N(0), N(1), N(2), N(-1), N(9), Half, Num(<<-1, 2>>), Num(Infinity), KeyText, XText, Undef}
Indexings == {<<"index", "", Args(<<v, i>>)>> : v \in MCSamples, i \in Indices}
Members == {<<"member", m, Args(<<v>>)>> : m \in {"x", "y", "w", "key"}, v \in MCSamples}

\* Ranges with bounds within and beyond the tolerance of a step, endless ones, none.
Ends == {Whole(0), Whole(1), <<7, 4>>, <<15, 8>>, <<31, 16>>, Whole(2), Whole(3), Whole(-1), Whole(9), NaN,
         Infinity, NegInfinity}
Steps == {Whole(1), Whole(-1), <<1, 2>>, <<-1, 2>>, Whole(2), <<1, 8>>, Zero, NaN, Infinity}
AllRanges == {OscRange(a, s, b) : a \in Ends, s \in Steps, b \in Ends}
Loops == {<<"for", "", Args(<<v>>)>> : v \in UNION {AllRanges, MCSamples}}

Parts == {<<how, v>> : how \in {"", "each"},
             v \in {Undef, N(1), Ab, Acute, L2(N(1), N(2)), List(<<>>), L1(L1(N(1))), R(0, 1, 2),
                    R(0, 1, 9), Box}}
Lists == UNION {{<<"list", "", <<>>>>}, {<<"list", "", <<p>>>> : p \in Parts},
                {<<"list", "", <<p, q>>>> : p \in Parts, q \in Parts},
                {<<"list", "", <<p, q, <<"each", L1(N(3))>>>>>> : p \in Parts, q \in Parts}}

\* The pieces a string literal is written from, and what they mean.
Piece(text, undefined) == [text |-> text, undefined |-> undefined]
MCMeaning ==
     <<103>> :> Piece(<<103>>, FALSE)                                 \* g
  @@ <<195, 169>> :> Piece(<<195, 169>>, FALSE)                       \* e-acute itself
  @@ <<10>> :> Piece(<<>>, FALSE)                                     \* a line break
  @@ <<92, 10>> :> Piece(<<>>, FALSE)
  @@ <<92, 13, 10>> :> Piece(<<>>, FALSE)
  @@ <<92, 110>> :> Piece(<<10>>, FALSE)                              \* \n
  @@ <<92, 92>> :> Piece(<<92>>, FALSE)
  @@ <<92, 34>> :> Piece(<<34>>, FALSE)
  @@ <<92, 113>> :> Piece(<<113>>, TRUE)                              \* \q
  @@ <<92, 120, 52, 97>> :> Piece(<<74>>, FALSE)                      \* \x4a
  @@ <<92, 120, 56, 49>> :> Piece(<<120, 56, 49>>, TRUE)              \* \x81
  @@ <<92, 120, 52>> :> Piece(<<120, 52>>, TRUE)                      \* \x4
  @@ <<92, 117, 48, 48, 69, 57>> :> Piece(<<195, 169>>, FALSE)        \* \u00E9
  @@ <<92, 117, 68, 56, 48, 48>> :> Piece(<<32>>, FALSE)              \* \uD800
  @@ <<92, 117, 48, 48, 48, 48>> :> Piece(<<32>>, FALSE)              \* \u0000
  @@ <<92, 85, 48, 49, 70, 54, 48, 48>> :> Piece(<<240, 159, 152, 128>>, FALSE)  \* \U01F600
  @@ <<92, 85, 49, 49, 48, 48, 48, 48>> :> Piece(<<32>>, FALSE)       \* \U110000
  @@ <<92, 85, 49, 49, 48>> :> Piece(<<85, 49, 49, 48>>, TRUE)        \* \U110
Pieces == DOMAIN MCMeaning
Glued(pieces) == FoldLeft(LAMBDA s, p : s \o p, <<>>, pieces)
Literal(pieces) ==
  <<"literal", "", Args(<<Str(Glued(pieces)), List([i \in DOMAIN pieces |-> Str(pieces[i])])>>)>>
Literals == UNION {{Literal(<<p>>) : p \in Pieces}, {Literal(<<p, q>>) : p \in Pieces, q \in Pieces},
                   {Literal(<<p, <<92, 113>>, q>>) : p \in Pieces, q \in Pieces}}

\* Floats: exact ties of the two digits printed, and their neighbours.
Mantissas == (1024 .. 1040) \cup (2030 .. 2047) \cup {10 * i : i \in 103 .. 204}
                \cup {10 * i + 1 : i \in 103 .. 204}
Float(negative, m, e) == <<"float", "", <<<<"", <<negative, m, e>>>>>>>>
Floats == {Float(FALSE, m, e) : m \in Mantissas, e \in -18 .. 5}
Negatives == {Float(TRUE, m, -10) : m \in Mantissas}
Subnormals == {Float(FALSE, m, -19) : m \in 1 .. 200}

\* One argument of each type to every function, and pairs to those that take two.
OneOfEach == {Undef, Bool(TRUE), Half, N(-3), Num(NaN), Acute, L3(N(1), N(-2), N(2)), L1(Ab),
              R(0, 1, 2), Box, Closure(1)}
AllNames == UNION {Numeric, TypeTests, Extremes,
                   {"atan2", "pow", "log", "cross", "lookup", "norm", "len", "ord", "chr", "str",
                    "concat", "search", "parent_module", "has_key", "supported_feature",
                    "version", "version_num", "linear_solve"}}
Singles == {Call(name, <<v>>) : name \in AllNames, v \in OneOfEach}
Pairs == {Call(name, <<v, w>>) : name \in AllNames, v \in OneOfEach, w \in OneOfEach}
Empties == {Call(name, <<>>) : name \in AllNames}

\* Named arguments, out of order, twice, and $-variables among them.
RoundedCalls == {Call(name, <<Num(Ratio(n, 4))>>) :
                    name \in {"abs", "sign", "floor", "ceil", "round"}, n \in -11 .. 11}

Written == {<<>>, <<<<"x", N(2)>>>>, <<<<"", N(2)>>>>, <<<<"$fn", N(8)>>>>}
NamedCalls == {<<"call", name, s \o <<<<"y", N(3)>>>> \o t>> :
                  name \in {"pow", "max", "log", "str", "abs", "len", "lookup", "rands"},
                  s \in Written, t \in Written}

\* Tables: keys out of order, twice, rows that are none.
Row(k, v) == L2(N(k), N(v))
TableRows == {Row(0, 1), Row(1, 3), Row(2, -1), Row(1, 0), L1(N(1)), Row(-1, 2)}
Tables == UNION {[1 .. n -> TableRows] : n \in 0 .. 3}
Lookups == {Call("lookup", <<k, List(t)>>) :
               k \in {N(-2), N(0), N(1), N(3), Half, Num(<<3, 2>>), Num(Infinity)}, t \in Tables}

Hays == {Str(<<97, 98, 97>>), Str(<<97, 195, 169, 97, 195, 169>>), Str(<<>>),
         L3(N(1), N(2), N(1)), L3(N(1), L2(N(1), N(2)), N(1)),
         L2(L2(N(1), Ab), L2(N(2), Acute)), L3(L2(Ab, N(1)), L2(Ab, N(2)), L2(Acute, N(1))),
         L3(Ab, Str(<<97>>), Ab), List(<<>>)}
Needles == {N(1), N(2), N(7), Ab, Acute, Str(<<97>>), Str(<<>>), Cut,
            L2(N(1), N(7)), L3(N(2), N(1), N(2)), L1(Ab), List(<<>>), Undef}
Searches ==
  UNION {{Call("search", <<n, h>>) : n \in Needles, h \in Hays},
         {Call("search", <<n, h, w>>) : n \in Needles, h \in Hays, w \in {N(0), N(1), N(2), N(-1), Undef}},
         {Call("search", <<n, h, w, c>>) : n \in Needles, h \in Hays, w \in {N(0), N(1), N(2)},
                                           c \in {N(0), N(1), Num(Infinity)}}}

Triples == {L3(N(a), N(b), N(c)) : a \in -1 .. 2, b \in -1 .. 1, c \in 0 .. 2}
Crosses == UNION {{Call("cross", <<a, b>>) : a \in Triples, b \in Triples},
                  {Call("cross", <<a, b>>) : a \in Vectors, b \in Vectors \cup {L3(N(1), Num(NaN), N(0))}}}
FewNumbers == {N(-1), N(2), Half, Num(Infinity), Num(NaN), Bool(TRUE)}
Few == UNION {[1 .. n -> FewNumbers] : n \in 1 .. 3}
MinMaxes == UNION {{Call(name, s), Call(name, <<List(s)>>)} : name \in Extremes, s \in Few}

\* Square systems with one or two right-hand sides, or none.
Square2 == {L2(L2(N(a), N(b)), L2(N(c), N(d))) : a \in -1 .. 2, b \in -1 .. 2, c \in -1 .. 2, d \in -1 .. 2}
Square3 == {L3(L3(N(a), N(1), N(b)), L3(N(c), N(d), N(1)), L3(N(1), N(e), N(f))) :
               a \in 0 .. 1, b \in 0 .. 1, c \in 0 .. 1, d \in 0 .. 2, e \in 0 .. 1, f \in 0 .. 1}
Solves ==
  UNION {{Call("linear_solve", <<m, b>>) : m \in Square2,
             b \in {L2(N(1), N(2)), L2(L2(N(1), N(0)), L2(N(0), N(1))), Undef, L2(N(1), Num(NaN)),
                    L1(N(1))}},
         {Call("linear_solve", <<m>>) : m \in Square2},
         {Call("linear_solve", <<m, L3(N(1), N(2), N(0))>>) : m \in Square3},
         {Call("linear_solve", <<L2(L2(N(1), Num(Infinity)), L2(N(1), N(2)))>>)}}

\* object() from pairs, deletions, other objects, names, and what is none of these.
Entries == {Plain(L1(L2(KeyText, N(2)))), Plain(L1(L1(KeyText))), Plain(L2(L2(XText, N(3)), L1(KeyText))),
            Plain(L2(L1(KeyText), L2(KeyText, Undef))), Plain(Box), Plain(Undef), Plain(L1(N(1))),
            Plain(N(1)), <<"x", N(5)>>, <<"key", Undef>>}
Objects == {<<"object", "", s>> : s \in UNION {[1 .. n -> Entries] : n \in 0 .. 3}}

Angles == UNION {{Whole(15 * n) : n \in -74 .. 100}, {<<30 * n + 1, 2>> : n \in -40 .. 40},
                 {Infinity, NaN, Whole(180 * 7), Whole(30 * 31)}}
Turns == {Call(name, <<Num(x)>>) : name \in {"sin", "cos", "tan"}, x \in Angles}

Codes == {0, 1, 65, 127, 128, 255, 2047, 2048, 55295, 55296, 57343, 57344, 65535, 65536, 128512,
          1114111, 1114112, 4194303, 4194369, -1}
CodeCalls == UNION {{Call("chr", <<N(c)>>) : c \in Codes},
                    {Call("chr", <<v>>) : v \in {Num(<<131, 2>>), Num(NaN), Num(Infinity), L2(N(65), L1(N(233))),
                                                 R(65, 1, 67), R(65, 1, 99)}},
                    {Call("chr", <<N(65), N(c)>>) : c \in Codes}}
OtherCalls ==
  UNION {RoundedCalls,
         {Call(name, <<Num(x)>>) : name \in {"sqrt", "ln", "asin", "acos"},
              x \in {Zero, Half[2], Whole(1), Whole(-1), Whole(2), Whole(-2), Infinity, NegInfinity, NaN}},
         {Call("str", <<Num(Ratio(n, 8))>>) : n \in (-9 .. 9) \cup (790 .. 800)},
         {Call("str", <<Num(Ratio(n, 10 ^ k))>>) : n \in {1, 14, 995}, k \in 1 .. 4},
         {Call(name, <<v, w>>) : name \in {"str", "concat"}, v \in MCSamples, w \in MCSamples},
         {Call("ord", <<Str(<<226, 130, 172, 97>>)>>), Call("len", <<Swapped>>), Call("version_num", <<>>),
          Call("parent_module", <<>>)},
         {Call(name, <<v>>) : name \in {"str", "len", "ord", "norm", "is_num"}, v \in MCSamples},
         {Call("version_num", <<List(s)>>) : s \in {<<N(2026), N(1)>>, <<N(2026), N(1), N(5)>>, <<N(1)>>, <<Ab, N(1)>>}},
         {Call("parent_module", <<N(n)>>) : n \in {0, 1, 2, -1, 9}},
         {Call("supported_feature", <<Str(s)>>) : s \in {<<105>>, <<114>>, <<97>>}},
         {Call("has_key", <<o, k>>) : o \in {Box, Object(<<>>)}, k \in {KeyText, Ab}},
         {Call("pow", <<Num(x), Num(y)>>) : x \in {Zero, Whole(2), Whole(-2), <<1, 2>>, Infinity},
                                            y \in {Zero, Whole(3), Whole(-2), <<1, 2>>, NaN}}}

\* rands() with equal, reversed and endless bounds, too many, and seeds.
Rands(low, high, count) == Call("rands", <<low, high, count>>)
Seeded(low, high, count, seed) == Call("rands", <<low, high, count, seed>>)
SeedCalls == {Seeded(N(0), N(1), N(1), Num(s)) :
                 s \in {Zero, Whole(5), <<1, 2>>, <<-13, 4>>, Whole(31), Whole(100), NaN, Infinity}}
Draws == {Rands(N(0), N(1), N(1)), Rands(N(2), N(0), N(2)), Rands(N(2), N(2), N(2)),
          Rands(Num(NegInfinity), N(1), N(1)), Rands(N(0), N(1), N(9)), Rands(N(0), N(1), Undef),
          Seeded(N(0), N(1), N(1), N(3)), Seeded(N(1), N(1), N(2), N(4)), Seeded(N(0), N(1), N(9), N(4))}

Evals == {"main", "other"}
Alone(expressions) == [main : {<<x>> : x \in expressions}, other : {<<>>}]
Together == [main : {<<a, b>> : a \in Draws, b \in Draws}, other : {<<c>> : c \in Draws}]
MCScripts ==
  UNION {Alone(Binaries), Alone(Powers), Alone(Unaries), Alone(Indexings), Alone(Members), Alone(Loops), Alone(Lists),
         Alone(Literals), Alone(Floats), Alone(Negatives), Alone(Subnormals), Alone(Singles),
         Alone(Pairs), Alone(Empties), Alone(NamedCalls), Alone(Lookups), Alone(Searches),
         Alone(Crosses), Alone(MinMaxes), Alone(Solves), Alone(Objects), Alone(Turns),
         Alone(CodeCalls), Alone(OtherCalls), Alone(SeedCalls), Together}
=============================================================================
