------------------------------ MODULE ValueLaws -----------------------------
(* What the operators and built-in functions promise, said by definitions    *)
(* that do not follow the program's loops, for every expression evaluated.   *)
EXTENDS ValueScripts
LOCAL INSTANCE SequencesExt
LOCAL INSTANCE FiniteSetsExt
LOCAL INSTANCE Functions
CONSTANTS Samples,   \* values the laws about a third operand range over
          Meaning    \* of each piece a literal is written from: bytes, undefined escapes

Total(f) == FoldFunction(Plus, Zero, f)
Answered(e, a, op) == e[1] = "binary" /\ e[2] = op

-----------------------------------------------------------------------------
(* Operators *)

RECURSIVE Holds(_, _)
(* Whether v or something in it has the property named. *)
Holds(what, v) ==
    \/ what = "nan" /\ v = Num(NaN)
    \/ what = "empty range" /\ Is("range", v) /\ EmptyRange(Content(v))
    \/ Is("list", v) /\ \E i \in DOMAIN Content(v) : Holds(what, Content(v)[i])
    \/ Is("object", v) /\ \E i \in DOMAIN Content(v) : Holds(what, Content(v)[i][2])

(* == is an equivalence but for a NaN, and nothing tells equal values apart  *)
(* but the bounds of empty ranges.                                           *)
EqualityLaw(a, b, equal) ==
    /\ equal = OscEqual(b, a)
    /\ OscEqual(a, a) = ~Holds("nan", a)
    /\ equal =>
         /\ \A c \in Samples : OscEqual(b, c) => OscEqual(a, c)
         /\ Truthy(a) = Truthy(b)
         /\ FmtValue(a) = FmtValue(b) \/ Holds("empty range", a)
         /\ \A c \in Samples : OscComparable(a, c) => ValueLess(a, c) = ValueLess(b, c)

(* < is a strict order of the values it compares, total but for a NaN; the   *)
(* other comparisons follow from it, and both directions fail together.      *)
OrderLaw(a, b) ==
    LET values(answers) == {r.value : r \in answers}
        yes == {Answer(Bool(TRUE), FALSE)}
        compared == Samples \cup {a, b}
    IN \A is \in {[op \in {"<", "<=", "==", ">=", ">"}, x \in compared, y \in compared |->
                    ApplyBinaryOp(op, x, y)]} :
        /\ (values(is["<", a, b]) = {Undef}) = (values(is["<", b, a]) = {Undef})
        /\ is["<", a, b] = yes =>
             /\ is["<", b, a] # yes /\ ~OscEqual(a, b)
             /\ \A c \in Samples : is["<", b, c] = yes =>
                    is["<", a, c] \in {yes, {Answer(Undef, FALSE)}}
        /\ values(is[">", a, b]) = values(is["<", b, a])
        /\ values(is["<=", a, b]) = values(is[">=", b, a])
        /\ values(is["<", a, b]) # {Undef} /\ ~Holds("nan", a) /\ ~Holds("nan", b) =>
             Cardinality({op \in {"<", "==", ">"} : is[op, a, b] = yes}) = 1

(* The product of linear algebra: a vector is one row on the left and one    *)
(* column on the right.                                                      *)
IsVector(v) == Is("list", v) /\ Content(v) # <<>> /\ AreNumbers(Content(v))
IsTensor(v) == IsVector(v) \/ IsNumericMatrix(v)
Rows(v) == IF IsVector(v) THEN <<[j \in DOMAIN Content(v) |-> Content(Content(v)[j])]>>
           ELSE MatrixOf(v)
Columns(v) == IF IsVector(v) THEN [j \in DOMAIN Content(v) |-> <<Content(Content(v)[j])>>]
              ELSE MatrixOf(v)
Product(a, b) ==
    LET x == Rows(a)
        y == Columns(b)
        entry(i, k) == Num(Total([j \in DOMAIN y |-> Times(x[i][j], y[j][k])]))
        row(i) == [k \in DOMAIN y[1] |-> entry(i, k)]
    IN IF Len(x[1]) # Len(y) THEN Undef
       ELSE CASE IsVector(a) /\ IsVector(b) -> entry(1, 1)
              [] IsVector(a) /\ ~IsVector(b) -> List(row(1))
              [] ~IsVector(a) /\ IsVector(b) -> List([i \in DOMAIN x |-> entry(i, 1)])
              [] OTHER -> List([i \in DOMAIN x |-> List(row(i))])

(* Any operand that is not a vector or a rectangular matrix of numbers is    *)
(* undefined; a matrix of empty rows is the one the code lets through.       *)
HasNoColumns(v) == Content(v) # <<>> /\ Content(v)[1] = List(<<>>)
ProductLaw(a, b, value) ==
    Is("list", a) /\ Is("list", b) /\ ~HasNoColumns(b) =>
        value = IF IsTensor(a) /\ IsTensor(b) THEN Product(a, b) ELSE Undef

(* The bits of | and & add up to those of the operands; a shift is a product *)
(* or quotient by a power of two that keeps the integer's width.             *)
IsWhole(v) == Is("num", v) /\ Content(v)[2] = 1
              /\ Content(v)[1] \in -(2 ^ (WideBits - 1)) .. 2 ^ (WideBits - 1) - 1
BitwiseLaw(op, a, b, value) ==
    LET x == Content(a)[1]
        y == Content(b)[1]
        v == Content(value)[1]
        other == CHOOSE r \in ApplyBinaryOp(IF op = "|" THEN "&" ELSE "|", a, b) : TRUE
    IN IsWhole(a) /\ IsWhole(b) /\ value # Undef =>
         /\ IsWhole(value)
         /\ op \in {"|", "&"} => v + Content(other.value)[1] = x + y
         /\ op = "<<" => (v - x * 2 ^ y) % 2 ^ WideBits = 0
         /\ op = ">>" => v * 2 ^ y <= x /\ x < (v + 1) * 2 ^ y

(* What an index answers is what iteration meets there, in a list and in     *)
(* text of any bytes.                                                        *)
IndexLaw(v, index, value) ==
    LET all == ExpandIterable(v)
        i == Content(index)
    IN v[1] \in {"list", "str"} /\ Is("num", index) =>
         value = IF IsFinite(i) /\ TruncOf(i) + 1 \in DOMAIN all THEN all[TruncOf(i) + 1] ELSE Undef

(* x ^ y for a whole y by its steps: x ^ 1 is x, and one more in the exponent *)
(* is one more factor, on either side of 0.                                  *)
PowerLaw(x, y, value) ==
    LET to(n) == BuiltinPow(x, n)
    IN IsFinite(x) /\ IsFinite(y) =>
         IF y[2] > 1 THEN Less(x, Zero) => value = Num(NaN)
         ELSE IF x = Zero
              THEN value = Num(IF y = Zero THEN One ELSE IF Less(y, Zero) THEN Infinity ELSE Zero)
         ELSE /\ to(One) = Num(x)
              /\ to(Plus(y, One)) = Num(Times(Content(value), x))

Arithmetical == {"+", "-", "*", "/", "%", "^"}
OperatorLaw(e, a) ==
    LET x == Operand(e, 1)
        y == Operand(e, 2)
    IN /\ e[1] = "binary" =>
            /\ e[2] \in Arithmetical => a.warned = (a.value = Undef)
            /\ e[2] = "==" => EqualityLaw(x, y, Content(a.value))
            /\ e[2] = "<" => OrderLaw(x, y)
            /\ e[2] = "*" => ProductLaw(x, y, a.value)
            /\ e[2] = "^" /\ AreNumbers(<<x, y>>) => PowerLaw(Content(x), Content(y), a.value)
            /\ e[2] \in {"|", "&"} \cup Shifts => BitwiseLaw(e[2], x, y, a.value)
       /\ e[1] = "index" => IndexLaw(x, y, a.value)

(* == is an equivalence that nothing else contradicts, < an order, * the     *)
(* product of linear algebra, ^ repeated multiplication, bits keep their     *)
(* width, an index agrees with iteration, and arithmetic warns exactly when  *)
(* it is undefined (applyBinaryOp).                                          *)
OperatorsLawful == \A i \in DOMAIN log : OperatorLaw(log[i][1], log[i][2])

-----------------------------------------------------------------------------
(* Text *)

(* A printed number as [n, to]: n * 10^to, n without trailing zeros. *)
RECURSIVE Trimmed(_, _)
Trimmed(n, to) == IF n # 0 /\ n % 10 = 0 THEN Trimmed(n \div 10, to + 1) ELSE <<n, to>>
ReadBack(text) ==
    LET digits(s) == NumberOf([i \in DOMAIN s |-> s[i] - 48])
        at(c) == IF \E i \in DOMAIN text : text[i] = c
                 THEN CHOOSE i \in DOMAIN text : text[i] = c ELSE Len(text) + 1
        body == SubSeq(text, 1, at(LetterE) - 1)
        cut == IF at(Point) < at(LetterE) THEN at(Point) ELSE at(LetterE)
        whole == SubSeq(body, 1, cut - 1)
        fraction == SubSeq(body, cut + 1, Len(body))
        power == IF at(LetterE) > Len(text) THEN 0
                 ELSE LET n == digits(SubSeq(text, at(LetterE) + 2, Len(text)))
                      IN IF text[at(LetterE) + 1] = Minus0 THEN -n ELSE n
    IN Trimmed(digits(whole \o fraction), power - Len(fraction))

(* The float m * 2^e rounded to Digits digits, an exact tie upwards. *)
RoundedFloat(m, e) ==
    LET k == Exponent(m, e)
        x == Scaled(m, e, Digits - 1 - k, 0)
        n == (2 * x.num + x.den) \div (2 * x.den)
    IN Trimmed(n, k + 1 - Digits)

(* The characters a literal's pieces stand for, whatever the other pieces. *)
LiteralLaw(e, a) ==
    LET pieces == Content(Operand(e, 2))
        meant == [i \in DOMAIN pieces |-> Meaning[Content(pieces[i])]]
    IN /\ Content(a.value) = FoldLeft(LAMBDA s, m : s \o m.text, <<>>, meant)
       /\ a.warned = (\E i \in DOMAIN meant : meant[i].undefined)

(* chr() and ord() are inverse over the code points, and chr() of anything   *)
(* else is empty; a number too large for the integer it becomes is left out. *)
CodeLaw(x, text) ==
    LET cp == Content(x)
        valid == cp[2] = 1 /\ IsEncodable(cp[1])
    IN Is("num", x) /\ IsFinite(cp) /\ Less(cp, Whole(2 ^ CodeBits)) =>
         IF valid THEN Utf8DecodeFirst(text) = cp[1] /\ Utf8Length(text) = 1
         ELSE cp[2] = 1 => text = <<>>

TextLaw(e, a) ==
    CASE e[1] = "literal" -> LiteralLaw(e, a)
      [] e[1] = "float" -> LET f == Operand(e, 1)
                               text == Content(a.value)
                           IN IF f[1] THEN text[1] = Minus0 /\ ReadBack(Tail(text)) = RoundedFloat(f[2], f[3])
                              ELSE ReadBack(text) = RoundedFloat(f[2], f[3])
      [] e[1] = "call" /\ e[2] = "chr" /\ Len(e[3]) = 1 -> CodeLaw(Operand(e, 1), Content(a.value))
      [] OTHER -> TRUE

(* A number prints as its exact value rounded once, whichever rendering      *)
(* decided the rounding (formatNumber); a literal gives the characters it    *)
(* spells and warns of every undefined escape (unescapeStringLiteral); chr() *)
(* makes valid characters only.                                              *)
TextExact == \A i \in DOMAIN log : TextLaw(log[i][1], log[i][2])

-----------------------------------------------------------------------------
(* Built-in functions *)

(* Linear interpolation between the rows around the key, the nearest row's   *)
(* value outside them; the first of rows with one key counts, and order      *)
(* matters no other way.                                                     *)
LookupLaw(x, table, value) ==
    LET key == Content(x)
        rows == [i \in DOMAIN Content(table) |-> IF IsRow(Content(table)[i])
                                                 THEN {RowOf(Content(table)[i])} ELSE {}]
        keys == {r[1] : r \in UNION {rows[i] : i \in DOMAIN rows}}
        valueAt(k) == LET at == Min({i \in DOMAIN rows : \E r \in rows[i] : r[1] = k})
                      IN (CHOOSE r \in rows[at] : TRUE)[2]
        below == {k \in keys : AtMost(k, key)}
        above == {k \in keys : AtMost(key, k)}
        low == CHOOSE k \in below : \A l \in below : AtMost(l, k)
        high == CHOOSE k \in above : \A l \in above : AtMost(k, l)
        slope == Divide(Minus(valueAt(high), valueAt(low)), Minus(high, low))
    IN value = IF ~IsFinite(key) \/ rows = <<>> \/ rows[1] = {} THEN Undef
               ELSE IF below = {} \/ key \in keys THEN Num(valueAt(high))
               ELSE IF above = {} THEN Num(valueAt(low))
               ELSE Num(Plus(valueAt(low), Times(slope, Minus(key, low))))

(* The indices found are all that match, in order, cut to the wanted number. *)
MatchLaw(needle, entries, wanted, column, indices) ==
    LET found == [i \in DOMAIN indices |-> Content(indices[i])[1] + 1]
        matches == {j \in DOMAIN entries :
                       \/ column = 0 /\ OscEqual(needle, entries[j])
                       \/ /\ Is("list", entries[j])
                          /\ column + 1 \in DOMAIN Content(entries[j])
                          /\ OscEqual(Content(entries[j])[column + 1], needle)}
    IN /\ \A i, j \in DOMAIN found : i < j => found[i] < found[j]
       /\ IF wanted = 0 \/ Cardinality(matches) <= wanted
          THEN ToSet(found) = matches
          ELSE /\ ToSet(found) \subseteq matches
               /\ Len(found) = wanted
               /\ \A j \in matches \ ToSet(found) : \A i \in ToSet(found) : i < j

(* Several needles answer as so many searches, the single index of one that  *)
(* is wanted once standing for its list.  Text is searched for as the list   *)
(* of its characters, what is not found skipped: in text as in the list of   *)
(* its characters, in rows by the first character of their cells.            *)
CharsOf(v) == List(ExpandIterable(v))
Found(needles, hay, wanted, column) ==
    Content(BuiltinSearch([positional |-> <<needles, hay, Num(Whole(wanted)), Num(Whole(column))>>,
                           named |-> <<>>]).value)
SearchLaw(args, value) ==
    LET needle == PositionalAt(args, 0)
        hay == PositionalAt(args, 1)
        wanted == WholeArg(args, 2, 1)
        column == WholeArg(args, 3, 0)
        entries == IF Is("list", hay) THEN Content(hay) ELSE <<>>
        answers == Content(value)
        of(answer) == IF Is("num", answer) /\ wanted = 1 THEN <<answer>> ELSE Content(answer)
        short(row) == ~Is("list", row) \/ column + 1 \notin DOMAIN Content(row)
        initial(cell) == IF Is("str", cell) THEN ApplyIndexAccess(cell, Num(Zero)) ELSE {Answer(Undef, FALSE)}
        cells == [j \in DOMAIN entries |-> (CHOOSE r \in initial(Content(entries[j])[column + 1]) : TRUE).value]
        hits(text) == SelectSeq(Found(CharsOf(needle), text, wanted, 0),
                                LAMBDA v : wanted # 1 \/ v # List(<<>>))
    IN CASE Is("num", needle) -> MatchLaw(needle, entries, wanted, column, answers)
         [] Is("list", needle) ->
                /\ Len(answers) = Len(Content(needle))
                /\ \A i \in DOMAIN answers :
                      MatchLaw(Content(needle)[i], entries, wanted, column, of(answers[i]))
         [] Is("str", needle) ->
                answers = IF Is("str", hay) THEN hits(CharsOf(hay))
                          ELSE IF Content(needle) = <<>> \/ \E j \in DOMAIN entries : short(entries[j])
                          THEN <<>> ELSE hits(List(cells))
         [] OTHER -> value = Undef

(* One of the numbers, and none is beyond it unless one is not a number. *)
ExtremeLaw(name, items, value) ==
    LET best == Content(value)
    IN /\ value \in ToSet(items)
       /\ (\A i \in DOMAIN items : items[i] # Num(NaN)) =>
            \A i \in DOMAIN items :
                IF name = "max" THEN AtMost(Content(items[i]), best) ELSE AtMost(best, Content(items[i]))

(* Leibniz's determinant, by the first column. *)
RECURSIVE Determinant(_)
Determinant(m) ==
    LET rest(r) == [i \in 1 .. Len(m) - 1 |-> Tail(m[IF i < r THEN i ELSE i + 1])]
        term(r) == Times(m[r][1], Determinant(rest(r)))
    IN IF Len(m) = 0 THEN One
       ELSE Total([r \in DOMAIN m |-> IF r % 2 = 1 THEN term(r) ELSE Negate(term(r))])

(* The cross product is orthogonal to both vectors, as long as the area they *)
(* span (Lagrange's identity) and turned right-handed; of two plane vectors  *)
(* it is the height of the one in space.                                     *)
CrossLaw(a, b, value) ==
    LET u == Content(a)
        v == Content(b)
        dot(x, y) == Content(Dot(Content(x), Content(y)))
        row(x) == [i \in 1 .. 3 |-> Content(Content(x)[i])]
        allFinite(items) == AreNumbers(items) /\ \A i \in DOMAIN items : IsFinite(Content(items[i]))
        inSpace(x) == List([i \in 1 .. 3 |-> IF i < 3 /\ Is("num", x[i]) THEN x[i] ELSE Num(Zero)])
        lifted == BuiltinCross([positional |-> <<inSpace(u), inSpace(v)>>, named |-> <<>>]).value
    IN CASE Len(u) = 2 /\ Len(v) = 2 ->
                lifted # Undef => value = Content(lifted)[3]
         [] Len(u) = 3 /\ Len(v) = 3 /\ allFinite(u) /\ allFinite(v) ->
                /\ dot(a, value) = Zero /\ dot(b, value) = Zero
                /\ dot(value, value) = Minus(Times(dot(a, a), dot(b, b)), Times(dot(a, b), dot(a, b)))
                /\ dot(value, value) = Determinant(<<row(a), row(b), row(value)>>)
         [] OTHER -> value = Undef

(* linear_solve() finds the determinant, calls a matrix singular exactly     *)
(* when that is zero, and its x solves the system.                           *)
SolveLaw(given, b, value) ==
    LET m == MatrixOf(given)
        det == Determinant(m)
        x == Content(value)[1][2]
    IN /\ Content(value)[2][2] = Num(det)
       /\ Content(value)[3][2] = Bool(det = Zero)
       /\ IF det = Zero \/ b = Undef THEN x = Undef
          ELSE (CHOOSE r \in ApplyBinaryOp("*", given, x) : TRUE).value = b

(* A key holds what it was last set to unless deleted since, and keys stand  *)
(* in the order they were first set since their last deletion.               *)
Edits(arguments) ==
    LET of(a) == IF a[1] # "" THEN <<<<Spelling[a[1]], {a[2]}>>>>
                 ELSE IF Is("object", a[2])
                      THEN [i \in DOMAIN Content(a[2]) |-> <<Content(a[2])[i][1], {Content(a[2])[i][2]}>>]
                 ELSE IF Is("list", a[2])
                      THEN [i \in DOMAIN Content(a[2]) |->
                               LET c == Content(Content(a[2])[i])
                               IN <<Content(c[1]), IF Len(c) = 2 THEN {c[2]} ELSE {}>>]
                 ELSE <<>>
    IN FoldLeft(LAMBDA s, a : s \o of(a), <<>>, arguments)
ObjectLaw(arguments, value) ==
    LET edits == Edits(arguments)
        last(k) == Max({i \in DOMAIN edits : edits[i][1] = k})
        since(k) == Min({i \in DOMAIN edits : edits[i][1] = k /\
                            \A j \in i .. Len(edits) : edits[j][1] = k => edits[j][2] # {}})
        keys == {k \in {edits[i][1] : i \in DOMAIN edits} : edits[last(k)][2] # {}}
        pairs == Content(value)
    IN value # Undef =>
         /\ {pairs[i][1] : i \in DOMAIN pairs} = keys /\ Len(pairs) = Cardinality(keys)
         /\ \A i \in DOMAIN pairs : {pairs[i][2]} = edits[last(pairs[i][1])][2]
         /\ \A i, j \in DOMAIN pairs : i < j => since(pairs[i][1]) < since(pairs[j][1])

(* Rounding and sign: each is the whole number, or the part of x, that its   *)
(* distance from x makes it; halves round away from zero.                    *)
RoundingLaw(name, x, v) ==
    LET within(low, high) == v[2] = 1 /\ AtMost(low, v) /\ AtMost(v, high)
        off == Magnitude(Minus(v, x))
    IN CASE IsNaN(x) -> v = IF name = "sign" THEN Zero ELSE NaN
         [] ~IsNaN(x) /\ name = "abs" -> AtMost(Zero, v) /\ v \in {x, Negate(x)}
         [] ~IsNaN(x) /\ name = "sign" ->
                v \in {Whole(-1), Zero, One} /\ Times(v, Magnitude(x)) = x /\ (v = Zero) = (x = Zero)
         [] ~IsNaN(x) /\ name \in {"floor", "ceil", "round"} /\ ~IsFinite(x) -> v = x
         [] IsFinite(x) /\ name = "floor" -> within(Minus(x, One), x) /\ off # One
         [] IsFinite(x) /\ name = "ceil" -> within(x, Plus(x, One)) /\ off # One
         [] IsFinite(x) /\ name = "round" ->
                /\ within(Minus(x, <<1, 2>>), Plus(x, <<1, 2>>))
                /\ off = <<1, 2>> => Less(Magnitude(x), Magnitude(v))

(* Outside its domain a function of analysis is not a number, and the        *)
(* logarithm of zero is endless; the library answers inside.                 *)
DomainLaw(name, x, value) ==
    LET inside == CASE name = "sqrt" -> ~Less(x, Zero)
                    [] name = "ln" -> ~AtMost(x, Zero)
                    [] OTHER -> ~Less(One, Magnitude(x))
    IN value = IF inside THEN Irrational(name, <<x>>)
               ELSE IF name = "ln" /\ x = Zero THEN Num(NegInfinity) ELSE Num(NaN)

(* sin and cos are one function a quarter turn apart, exactly; each has its  *)
(* symmetries and period, and tan has them but for the sign at its poles.    *)
(* The results with a closed form satisfy the identities of squares and of   *)
(* doubled angles, and within 45 degrees (90 for tan) the others are the     *)
(* library's for that very angle, and none is negative.                      *)
TrigLaw(name, x, value) ==
    LET r == Content(value)[2]
        minus(s) == Signed(TRUE, s)
        to(n) == Minus(Whole(n), x)
        turned(n) == Plus(x, Whole(n))
        doubled == Times(Whole(2), x)
        angles == {x, to(90), to(180), turned(180), turned(360), Negate(x), doubled}
        near == \A y \in {x, to(90), to(180), turned(180), turned(360)} : ~AngleIsMeaningless(y)
        onPole == (FloorOf(x) - 90) % 180 = 0 /\ x[2] = 1
        square(s) == CASE s[2] \in {"sin", "zero"} -> Zero
                       [] s[2] \in {"cos", "one"} -> One
                       [] s[2] = "half" -> <<1, 4>>
                       [] s[2] = "sqrt 1/2" -> <<1, 2>>
                       [] s[2] = "sqrt 3/4" -> <<3, 4>>
                       [] s[2] = "sqrt 1/3" -> <<1, 3>>
                       [] s[2] = "sqrt 3" -> Whole(3)
                       [] s[2] = "inf" -> Infinity
        closed(s) == s[3] = Zero
    IN /\ value[1] = "irrational" /\ Content(value)[1] = "trig"
       /\ AngleIsMeaningless(x) => r = NotANumber
       /\ IsFinite(x) /\ near =>
            /\ \A of \in {[f \in {"sin", "cos", "tan"}, y \in angles |->
                             Content(BuiltinMath(f, [positional |-> <<Num(y)>>, named |-> <<>>]))[2]]} :
                 LET sin2(y) == square(of["sin", y])
                     cos2(y) == square(of["cos", y])
                 IN /\ r = of[name, turned(360)]
                    /\ name = "sin" => r = of["cos", to(90)] /\ r = of["sin", to(180)]
                    /\ name = "cos" => r = of["sin", to(90)] /\ r = of["cos", Negate(x)]
                    /\ name # "cos" => r = minus(of[name, Negate(x)])
                    /\ name = "tan" /\ ~onPole => r = of["tan", turned(180)]
                    /\ closed(r) /\ name # "tan" =>
                         /\ Plus(sin2(x), cos2(x)) = One
                         /\ closed(of["sin", doubled]) /\ ~AngleIsMeaningless(doubled) =>
                              sin2(doubled) = Times(Whole(4), Times(sin2(x), cos2(x)))
                    /\ closed(r) /\ name = "tan" => square(r) = Divide(sin2(x), cos2(x))
            /\ AtMost(Zero, x) /\ AtMost(x, Whole(IF name = "tan" THEN 90 ELSE 45)) =>
                 r[1] = 1 /\ (closed(r) \/ r = Library(name, x))

(* Names are ignored: arguments count in the order they are written, and     *)
(* $-variables not at all.  A name given twice is the exception: its first   *)
(* value is taken for both.                                                  *)
NamesIgnored(name, arguments, a) ==
    LET counted == SelectSeq(arguments, LAMBDA x : x[1] \notin Config)
        once == \A i, j \in DOMAIN counted : counted[i][1] = counted[j][1] =>
                    i = j \/ counted[i][1] = ""
        plain == [i \in DOMAIN counted |-> <<"", counted[i][2]>>]
    IN once => a \in EvalBuiltinFunction(name, plain)

(* A number prints within half a unit of the last digit; a list, a range and *)
(* an object print what their parts print, text within them quoted; nothing  *)
(* else prints as another value does.                                        *)
TextOf(v) == Content(BuiltinStr([positional |-> <<v>>, named |-> <<>>]))
PrintedLaw(v, text) ==
    LET c == Content(v)
        quoted(w) == IF Is("str", w) THEN <<Quote>> \o Content(w) \o <<Quote>> ELSE TextOf(w)
        between(mark, texts) == FlattenSeq([i \in DOMAIN texts |-> (IF i = 1 THEN <<>> ELSE mark) \o texts[i]])
        entry(p) == p[1] \o <<32, 61, 32>> \o quoted(p[2]) \o <<59, 32>>
        printed == ReadBack(IF text[1] = Minus0 THEN Tail(text) ELSE text)
        scale == IF printed[2] < 0 THEN <<1, 10 ^ (-printed[2])>> ELSE Whole(10 ^ printed[2])
        off == Magnitude(Minus(Times(Whole(printed[1]), scale), Magnitude(c)))
    IN CASE Is("str", v) -> text = c
         [] Is("list", v) ->
                text = <<91>> \o between(<<44, 32>>, [i \in DOMAIN c |-> quoted(c[i])]) \o <<93>>
         [] Is("range", v) ->
                text = <<91>> \o between(<<32, 58, 32>>, [i \in 1 .. 3 |-> TextOf(Num(c[i]))]) \o <<93>>
         [] Is("object", v) ->
                text = <<123, 32>> \o FlattenSeq([i \in DOMAIN c |-> entry(c[i])]) \o <<125>>
         [] Is("num", v) /\ IsFinite(c) ->
                /\ (text[1] = Minus0) = Less(c, Zero)
                /\ AtMost(Times(off, Whole(2 * 10 ^ (Digits - 1))), Magnitude(c))
         [] OTHER -> \A s \in Samples : TextOf(s) = text => s = v

(* str() and chr() put together what they make of each argument; chr() takes *)
(* a list's or a range's elements for arguments of their own.                *)
JoinedLaw(name, given, value) ==
    LET parts == IF name = "chr" /\ Len(given) = 1 /\ given[1][1] \in {"list", "range"}
                 THEN ExpandIterable(given[1]) ELSE given
        alone(v) == [positional |-> <<v>>, named |-> <<>>]
        answers(v) == IF name = "chr" THEN BuiltinChr(alone(v)) ELSE {BuiltinStr(alone(v))}
        joined(texts, v) == {s \o Content(w) : s \in texts, w \in answers(v)}
    IN Content(value) \in FoldLeft(joined, {<<>>}, parts)

(* ord() is the byte of a character of one byte, and what encodes to the     *)
(* whole character when its bytes are as many as the first one asks for.     *)
OrdLaw(chars, value) ==
    LET first == Content(chars[1])
        asked == IF first[1] < 224 THEN 2 ELSE IF first[1] < 240 THEN 3 ELSE 4
    IN IF chars = <<>> THEN value = Undef
       ELSE /\ Len(first) = 1 => value = Num(Whole(first[1]))
            /\ Len(first) = asked => Utf8Encode(Content(value)[1]) = first

(* Every value passes the test of its own type and no other; a NaN and a     *)
(* range pass none.                                                          *)
TypeLaw(name, v, value) ==
    \A passed \in {[w \in Samples \cup {v} |->
                      {n \in TypeTests : AnswersOf(n, [positional |-> <<w>>, named |-> <<>>])
                                            = {Answer(Bool(TRUE), FALSE)}}]} :
        /\ value = Bool(name \in passed[v])
        /\ Cardinality(passed[v]) = IF v = Num(NaN) \/ Is("range", v) THEN 0 ELSE 1
        /\ \A s \in Samples : passed[s] = passed[v] /\ passed[v] # {} => s[1] = v[1]

(* The module with exactly so many entered ones inside it. *)
ModuleLaw(args, a) ==
    LET out == IF args.positional = <<>> THEN {1} ELSE ToSigned(NumberAt(args, 0), IntBits)
        inside(i) == {j \in i + 1 .. Len(CallStack) : CallStack[j].kind = "module"}
        at(n) == {i \in DOMAIN CallStack : CallStack[i].kind = "module" /\ Cardinality(inside(i)) = n}
    IN \E n \in out : /\ a.warned = (at(n) = {})
                       /\ a.value \in IF at(n) = {} THEN {Undef} ELSE {Str(Spelling[CallStack[i].name]) : i \in at(n)}

(* The date's parts by place value; without a date, that of version(). *)
VersionLaw(given, value) ==
    LET date == IF given = <<>> THEN Version ELSE given[1]
        parts == Content(date)
        padded == IF Len(parts) = 2 THEN Append(parts, Num(Zero)) ELSE parts
    IN value = IF Is("list", date) /\ Len(parts) \in {2, 3} /\ AreNumbers(parts)
               THEN Dot(padded, <<Num(Whole(10000)), Num(Whole(100)), Num(One)>>) ELSE Undef

(* As many numbers as asked, each from between the bounds in their order. *)
RandsLaw(args, value) ==
    LET low == NumberAt(args, 0)
        high == NumberAt(args, 1)
        asked == NumberAt(args, 2)
        drawn == Content(value)
        bounds == IF Less(high, low) THEN <<high, low>> ELSE <<low, high>>
    IN value # Undef =>
         /\ IsFinite(asked) => Len(drawn) = TruncOf(Magnitude(asked))
         /\ IsFinite(low) /\ IsFinite(high) => \A i \in DOMAIN drawn :
                IF low = high THEN drawn[i] = Num(low)
                ELSE Is("random", drawn[i]) /\ <<Content(drawn[i])[1], Content(drawn[i])[2]>> = bounds

(* The functions whose answer is the library's or a table's: no law. *)
NoLaw == {"exp", "log", "atan", "atan2", "version", "supported_feature"}

CheckedCallLaw(name, args, a) ==
    LET x == PositionalAt(args, 0)
        y == PositionalAt(args, 1)
        given == args.positional
        items == IF Is("list", x) THEN Content(x) ELSE given
    IN CASE name \in {"abs", "sign", "floor", "ceil", "round"} -> RoundingLaw(name, Content(x), Content(a.value))
         [] name \in {"sqrt", "ln", "asin", "acos"} -> DomainLaw(name, Content(x), a.value)
         [] name \in {"sin", "cos", "tan"} -> TrigLaw(name, Content(x), a.value)
         [] name = "pow" -> PowerLaw(Content(x), Content(y), a.value)
         [] name \in Extremes -> ExtremeLaw(name, items, a.value)
         [] name = "norm" ->
                a.value = IF AreNumbers(items)
                          THEN Irrational("sqrt", <<Total([i \in DOMAIN items |-> Times(Content(items[i]), Content(items[i]))])>>)
                          ELSE Undef
         [] name = "cross" -> CrossLaw(x, y, a.value)
         [] name = "lookup" -> LookupLaw(x, y, a.value)
         [] name = "search" -> SearchLaw(args, a.value)
         [] name = "linear_solve" -> IF a.warned THEN a.value = Undef ELSE SolveLaw(x, y, a.value)
         [] name = "len" -> a.value = Num(Whole(Len(ExpandIterable(x))))
         [] name = "ord" -> OrdLaw(ExpandIterable(x), a.value)
         [] name = "str" /\ Len(given) = 1 -> PrintedLaw(x, Content(a.value))
         [] name \in {"str", "chr"} /\ (name = "str" => Len(given) # 1) -> JoinedLaw(name, given, a.value)
         [] name = "concat" ->
                a.value = BuildList([i \in DOMAIN given |-> [each |-> Is("list", given[i]), value |-> given[i]]])
         [] name \in TypeTests -> TypeLaw(name, x, a.value)
         [] name = "has_key" ->
                a.value = IF Is("object", x) /\ Is("str", y) THEN Bool(y \in ToSet(ExpandIterable(x))) ELSE Undef
         [] name = "version_num" -> VersionLaw(given, a.value)
         [] name = "parent_module" -> ModuleLaw(args, a)
         [] name = "rands" -> RandsLaw(args, a.value)
         [] name \in NoLaw -> TRUE

CallLaw(e, a) ==
    LET args == InOrder(e[3], BuildCallArgs(e[3]))
    IN /\ a.value # BadAccess
       /\ ~IsRands(e) => NamesIgnored(e[2], e[3], a)
       /\ IF CheckBuiltinArgs(e[2], args) THEN CheckedCallLaw(e[2], args, a)
          ELSE a = Answer(Undef, TRUE)

(* Every built-in call answers by its law from its arguments in order, and   *)
(* none reads an argument as a type it is not; one whose arguments are too   *)
(* few, too many or of the wrong type is undef with a warning                *)
(* (function_builtins.cpp).  exp, log, atan and atan2 are the library's, the *)
(* values of sqrt, ln, asin, acos and of angles without a closed form too;   *)
(* version() and supported_feature() are tables.                             *)
BuiltinsRight ==
    \A i \in DOMAIN log :
        /\ log[i][1][1] = "call" => CallLaw(log[i][1], log[i][2])
        /\ log[i][1][1] = "object" => ObjectLaw(log[i][1][3], log[i][2].value)

-----------------------------------------------------------------------------
(* Iteration *)

(* A step from the start is counted when it is beyond the end by no more     *)
(* than a tolerance relative to the step, and walked when by no more than an *)
(* absolute one: one set of steps for a step of magnitude one, and for any   *)
(* other whenever no step lies between the two.  A range is refused for the  *)
(* number counted, or because a bound or a zero step makes it endless.       *)
RangeLaw(r, all) ==
    LET at(k) == IF k = 0 THEN r[1] ELSE Plus(r[1], Times(Whole(k), r[2]))
        beyond(k) == IF Less(Zero, r[2]) THEN Minus(at(k), r[3]) ELSE Minus(r[3], at(k))
        upTo(tolerance) == {k \in 0 .. CountCap - 1 : AtMost(beyond(k), tolerance)}
        counted == upTo(Times(Epsilon, Magnitude(r[2])))
        refused == TooMany(<<"range", r>>)
        bounded == IsFinite(r[1]) /\ IsFinite(r[3])
    IN /\ \A k \in DOMAIN all : all[k] = Num(at(k - 1))
       /\ refused => all = <<>>
       /\ IF bounded /\ IsFinite(r[2]) /\ r[2] # Zero
          THEN /\ RangeElementCount(r) = {Cardinality(counted)} \ {0}
               /\ refused = (Cardinality(counted) >= CountLimit)
               /\ ~refused => Len(all) = Cardinality(upTo(Epsilon))
               /\ AtMost(One, Magnitude(r[2])) => Len(all) < CountLimit
          ELSE /\ refused => ~bounded \/ r[2] = Zero
               /\ bounded /\ r[2] = Zero => refused
               /\ Len(all) <= 1 /\ (all # <<>> => bounded)

(* The characters of a text put together are the text, and len() counts      *)
(* them.                                                                     *)
CharsLaw(v, all) ==
    /\ FoldLeft(LAMBDA s, c : s \o Content(c), <<>>, all) = Content(v)
    /\ BuiltinLen(v) = Num(Whole(Len(all)))
    /\ \A k \in DOMAIN all : Content(all[k]) # <<>>

(* What one contribution puts into a list: `each` what a loop over it would, *)
(* an object staying whole.                                                  *)
Contribution(part) ==
    IF part[1] = "each" /\ ~Is("object", part[2]) THEN ExpandIterable(part[2]) ELSE <<part[2]>>

IterationLaw(e, a) ==
    LET v == Operand(e, 1)
        all == Content(a.value)
    IN CASE e[1] = "for" /\ Is("range", v) -> RangeLaw(Content(v), all)
         [] e[1] = "for" /\ Is("str", v) -> CharsLaw(v, all)
         [] e[1] = "list" -> all = FoldLeft(LAMBDA s, part : s \o Contribution(part), <<>>, e[3])
         [] OTHER -> TRUE

(* A loop and `each` meet the same elements: a range exactly the steps       *)
(* within an absolute tolerance of its end, after those within a relative    *)
(* one were counted (IterableValues, rangeElementCount), a text its          *)
(* characters whatever bytes it holds, and a list literal its contributions  *)
(* in order (ListBuilder).  rangeElementCount is commented to agree with the *)
(* walk exactly; it does for a step of magnitude one only.                   *)
IterationExact == \A i \in DOMAIN log : IterationLaw(log[i][1], log[i][2])

-----------------------------------------------------------------------------
(* Random numbers *)

IsDraw(i) == IsRands(log[i][1]) /\ Is("list", log[i][2].value)
SeedOf(i) == LET args == InOrder(log[i][1][3], BuildCallArgs(log[i][1][3])) IN PositionalAt(args, 3)
Seeding(i) == IsDraw(i) /\ Is("num", SeedOf(i))

(* A seed's hash is the number itself modulo 2^SeedBits - 1. *)
HashLaw(x) ==
    LET h == PythonFloatHash(x)
    IN IsFinite(x) => (h * x[2] - x[1]) % (2 ^ SeedBits - 1) = 0

(* The draws of a seeded call depend on its arguments alone, whatever any    *)
(* evaluator drew before, and unseeded calls continue the stream of the last *)
(* seed, no number drawn twice or left out (builtinRands); each call that    *)
(* drew is noted by its evaluator.                                           *)
DrawsRepeat ==
    LET drawn(i) == {Content(v) : v \in {w \in ToSet(Content(log[i][2].value)) : Is("random", w)}}
        last(i) == {j \in 1 .. i : Seeding(j) /\ \A k \in j + 1 .. i : ~Seeding(k)}
        stream(i) == {j \in 1 .. i : IsDraw(j) /\ \A s \in last(i) : j >= s}
    IN /\ \A i \in DOMAIN log : IsDraw(i) =>
            LET positions == UNION {{d[4] : d \in drawn(j)} : j \in stream(i)}
                seeds == {d[3] : d \in drawn(i)}
            IN /\ positions = 1 .. Cardinality(positions)
               /\ \A j \in stream(i) : j # i => {d[4] : d \in drawn(i)} \cap {d[4] : d \in drawn(j)} = {}
               /\ drawn(i) # {} =>
                    seeds = IF last(i) = {} THEN {<<>>}
                            ELSE {<<PythonFloatHash(Content(SeedOf(j)))>> : j \in last(i)}
               /\ Seeding(i) => HashLaw(Content(SeedOf(i)))
       /\ Cardinality({i \in DOMAIN log : IsRands(log[i][1]) /\ IsDraw(i)})
             <= FoldFunction(+, 0, randsCalls)
=============================================================================
