------------------------------ MODULE OscValues -----------------------------
(* The values of the language and what its operators make of them: equality, *)
(* order, arithmetic over nested lists, products, indexing, and the elements *)
(* a value has when it is iterated.  A value is <<type, content>>.           *)
EXTENDS OscText
LOCAL INSTANCE SequencesExt
LOCAL INSTANCE FiniteSetsExt
CONSTANTS IntBits,     \* width of an int: 32
          WideBits,    \* width of a std::int64_t: 64
          Epsilon,     \* tolerance at the end of a range: 1e-10
          CountCap,    \* the count of an endless range: 4294967295
          CountLimit   \* a range of so many elements is not iterated: 1000000

ASSUME ValueAssumption ==
    /\ IntBits \in Nat \ {0} /\ WideBits \in Nat \ {0}
    /\ Less(Zero, Epsilon)
    /\ CountLimit <= CountCap

Undef == <<"undef", 0>>
Bool(b) == <<"bool", b>>
Num(x) == <<"num", x>>
Str(s) == <<"str", s>>
List(items) == <<"list", items>>
OscRange(first, step, last) == <<"range", <<first, step, last>>>>
Object(pairs) == <<"object", pairs>>
Closure(node) == <<"function", node>>

Is(type, v) == v[1] = type
Content(v) == v[2]
AreNumbers(items) == \A i \in DOMAIN items : Is("num", items[i])

(* Yields nothing: a zero step, the wrong direction, a NaN. *)
EmptyRange(r) ==
    \/ \E i \in 1 .. 3 : IsNaN(r[i])
    \/ r[2] = Zero
    \/ Less(Divide(Minus(r[3], r[1]), r[2]), Negate(Epsilon))

SameRange(r, s) ==
    IF EmptyRange(r) \/ EmptyRange(s) THEN EmptyRange(r) /\ EmptyRange(s)
    ELSE \A i \in 1 .. 3 : SameNumber(r[i], s[i])

(* ==: a type of its own for bool, order matters in an object, and a         *)
(* function is its source.                                                   *)
RECURSIVE OscEqual(_, _)
OscEqual(a, b) ==
    /\ a[1] = b[1]
    /\ LET x == Content(a)
           y == Content(b)
       IN CASE Is("list", a) ->
                 Len(x) = Len(y) /\ \A i \in DOMAIN x : OscEqual(x[i], y[i])
            [] Is("object", a) ->
                 /\ Len(x) = Len(y)
                 /\ \A i \in DOMAIN x : x[i][1] = y[i][1] /\ OscEqual(x[i][2], y[i][2])
            [] Is("range", a) -> SameRange(x, y)
            [] Is("num", a) -> SameNumber(x, y)
            [] OTHER -> x = y

(* A NaN is true, and so is any range or function. *)
Truthy(v) ==
    CASE v[1] = "bool" -> Content(v)
      [] v[1] = "num" -> Content(v) # Zero
      [] v[1] \in {"str", "list", "object"} -> Content(v) # <<>>
      [] OTHER -> v # Undef

OscComparable(a, b) == a[1] = b[1] /\ a[1] \in {"bool", "num", "str", "list"}

(* std::string's order, byte by byte. *)
TextLess(s, t) ==
    \/ Len(s) < Len(t) /\ IsPrefix(s, t)
    \/ \E i \in DOMAIN s \cap DOMAIN t :
          s[i] < t[i] /\ SubSeq(s, 1, i - 1) = SubSeq(t, 1, i - 1)

(* < of two comparable values; no answer when two lists first differ in      *)
(* elements that are not comparable.                                         *)
RECURSIVE ValueLess(_, _)
ValueLess(a, b) ==
    LET x == Content(a)
        y == Content(b)
        differ == {i \in DOMAIN x \cap DOMAIN y : ~OscEqual(x[i], y[i])}
        i == Min(differ)
    IN CASE Is("bool", a) -> {~x /\ y}
         [] Is("num", a) -> {Less(x, y)}
         [] Is("str", a) -> {TextLess(x, y)}
         [] OTHER -> IF differ = {} THEN {Len(x) < Len(y)}
                     ELSE IF OscComparable(x[i], y[i]) THEN ValueLess(x[i], y[i]) ELSE {}

-----------------------------------------------------------------------------
(* Arithmetic over lists: element by element, undef where it has no meaning. *)

Arithmetic(op, x, y) ==
    CASE op = "+" -> Plus(x, y)
      [] op = "-" -> Minus(x, y)
      [] op = "*" -> Times(x, y)
      [] op = "/" -> Divide(x, y)
      [] OTHER -> Divide(y, x)

RECURSIVE Elementwise(_, _, _)
Elementwise(op, v, n) ==
    LET x == Content(v)
    IN CASE Is("list", v) -> List([i \in DOMAIN x |-> Elementwise(op, x[i], n)])
         [] Is("num", v) -> Num(Arithmetic(op, x, n))
         [] OTHER -> Undef

Scale(n, v) == Elementwise("*", v, n)
DivScale(v, n) == Elementwise("/", v, n)
DivInto(n, v) == Elementwise("into", v, n)

(* Two lists give a list of the shorter one's length. *)
RECURSIVE VecCombine(_, _, _)
VecCombine(op, a, b) ==
    LET x == Content(a)
        y == Content(b)
    IN IF Is("list", a) /\ Is("list", b)
       THEN List([i \in DOMAIN x \cap DOMAIN y |-> VecCombine(op, x[i], y[i])])
       ELSE IF Is("num", a) /\ Is("num", b) THEN Num(Arithmetic(op, x, y)) ELSE Undef

VecAdd(a, b) == VecCombine("+", a, b)
VecSub(a, b) == VecCombine("-", a, b)

Dot(x, y) ==
    Num(FoldLeft(LAMBDA sum, i : Plus(sum, Times(Content(x[i]), Content(y[i]))),
                 Zero, [i \in DOMAIN x |-> i]))

(* Every row a list of so many values. *)
Rectangular(m, cols) == \A j \in DOMAIN m : Is("list", m[j]) /\ Len(Content(m[j])) = cols
Column(m, i) == [j \in DOMAIN m |-> Content(m[j])[i]]

(* One entry per column of the first row; the checks are made while a column *)
(* is summed, so a matrix without columns passes them all.                   *)
VectorTimesMatrix(v, m) ==
    LET cols == Len(Content(m[1]))
    IN IF \/ cols = 0
          \/ /\ Rectangular(m, cols)
             /\ AreNumbers(v)
             /\ \A i \in 1 .. cols : AreNumbers(Column(m, i))
       THEN List([i \in 1 .. cols |-> Dot(v, Column(m, i))])
       ELSE Undef

(* The first element of each operand alone decides which product is meant. *)
MultiplyLists(a, b) ==
    LET numbers == AreNumbers(a) /\ AreNumbers(b)
        width == Len(Content(a[1]))
        byRow(row) == IF Is("list", row) /\ Len(Content(row)) = Len(b)
                      THEN VectorTimesMatrix(Content(row), b) ELSE Undef
        products == [i \in DOMAIN a |-> byRow(a[i])]
    IN CASE a = <<>> \/ b = <<>> -> Undef
         [] a # <<>> /\ b # <<>> /\ Is("num", a[1]) /\ Is("num", b[1]) ->
                IF Len(a) = Len(b) /\ numbers THEN Dot(a, b) ELSE Undef
         [] a # <<>> /\ b # <<>> /\ Is("num", a[1]) /\ Is("list", b[1]) ->
                IF Len(a) = Len(b) THEN VectorTimesMatrix(a, b) ELSE Undef
         [] a # <<>> /\ b # <<>> /\ Is("list", a[1]) /\ Is("num", b[1]) ->
                IF /\ width = Len(b)
                   /\ Rectangular(a, Len(b))
                   /\ \A i \in DOMAIN a : AreNumbers(Content(a[i]))
                   /\ AreNumbers(b)
                THEN List([i \in DOMAIN a |-> Dot(Content(a[i]), b)]) ELSE Undef
         [] a # <<>> /\ b # <<>> /\ Is("list", a[1]) /\ Is("list", b[1]) ->
                IF width = Len(b) /\ \A i \in DOMAIN a : products[i] # Undef
                THEN List(products) ELSE Undef
         [] OTHER -> Undef

-----------------------------------------------------------------------------
(* The operators.  The answer of one is a value and whether it warned; there *)
(* are several where the conversion to an integer is undefined.              *)

Answer(v, warned) == [value |-> v, warned |-> warned]
WarnIfUndef(v) == {Answer(v, v = Undef)}

LOCAL BitOf(n, i) == (n \div 2 ^ i) % 2
(* An integer of WideBits bits from the one with these bits. *)
FromBits(Bit(_)) ==
    FoldLeft(LAMBDA sum, i : sum + Bit(i) * (IF i = WideBits - 1 THEN -(2 ^ i) ELSE 2 ^ i),
             0, [i \in 1 .. WideBits |-> i - 1])
Wrapped(n) == LET Bit(i) == BitOf(n, i) IN FromBits(Bit)

Bitwise(op, x, y) ==
    CASE op = "|" -> LET Bit(i) == IF BitOf(x, i) + BitOf(y, i) > 0 THEN 1 ELSE 0 IN FromBits(Bit)
      [] op = "&" -> LET Bit(i) == BitOf(x, i) * BitOf(y, i) IN FromBits(Bit)
      [] op = "<<" -> Wrapped(x * 2 ^ y)
      [] OTHER -> x \div 2 ^ y

Shifts == {"<<", ">>"}
ApplyBitwise(op, a, b) ==
    IF ~Is("num", a) \/ ~Is("num", b) THEN {Answer(Undef, TRUE)}
    ELSE UNION {{IF op \in Shifts /\ (y < 0 \/ y >= WideBits) THEN Answer(Undef, TRUE)
                 ELSE Answer(Num(Whole(Bitwise(op, x, y))), FALSE) :
                     x \in ToSigned(Content(a), WideBits)} : y \in ToSigned(Content(b), WideBits)}

(* The four comparisons: a pair that cannot be compared warns, elements that *)
(* cannot are undef in silence.                                              *)
ApplyOrder(op, a, b) ==
    LET less == IF op \in {"<", "<="} THEN ValueLess(a, b) ELSE ValueLess(b, a)
        holds(l) == l \/ (op \in {"<=", ">="} /\ OscEqual(a, b))
    IN IF ~OscComparable(a, b) THEN {Answer(Undef, TRUE)}
       ELSE IF less = {} THEN {Answer(Undef, FALSE)}
       ELSE {Answer(Bool(holds(l)), FALSE) : l \in less}

(* An irrational result, named by how it comes about. *)
Irrational(name, arguments) == <<"irrational", <<name, arguments>>>>

BuiltinPow(x, y) ==
    IF Less(x, Zero) /\ y[2] > 1 THEN Num(NaN)
    ELSE IF x = Zero /\ Less(y, Zero) THEN Num(Infinity)
    ELSE IF y[2] = 1 /\ IsFinite(x)
         THEN Num(IF y[1] < 0 THEN Divide(One, Power(x, -y[1])) ELSE Power(x, y[1]))
    ELSE Irrational("pow", <<x, y>>)

ApplyBinaryOp(op, a, b) ==
    LET x == Content(a)
        y == Content(b)
        both == Is("num", a) /\ Is("num", b)
    IN CASE op = "+" -> WarnIfUndef(VecAdd(a, b))
         [] op = "-" -> WarnIfUndef(VecSub(a, b))
         [] op = "*" ->
              IF both THEN {Answer(Num(Times(x, y)), FALSE)}
              ELSE IF Is("list", a) /\ Is("list", b) THEN WarnIfUndef(MultiplyLists(x, y))
              ELSE IF Is("list", a) /\ Is("num", b) THEN {Answer(Scale(y, a), FALSE)}
              ELSE IF Is("list", b) /\ Is("num", a) THEN {Answer(Scale(x, b), FALSE)}
              ELSE WarnIfUndef(Undef)
         [] op = "/" ->
              IF both THEN {Answer(Num(Divide(x, y)), FALSE)}
              ELSE IF Is("list", a) /\ Is("num", b) THEN {Answer(DivScale(a, y), FALSE)}
              ELSE IF Is("num", a) /\ Is("list", b) THEN {Answer(DivInto(x, b), FALSE)}
              ELSE WarnIfUndef(Undef)
         [] op = "%" -> WarnIfUndef(IF both THEN Num(Remainder(x, y)) ELSE Undef)
         [] op = "^" -> WarnIfUndef(IF both THEN BuiltinPow(x, y) ELSE Undef)
         [] op = "==" -> {Answer(Bool(OscEqual(a, b)), FALSE)}
         [] op = "!=" -> {Answer(Bool(~OscEqual(a, b)), FALSE)}
         [] op \in {"<", "<=", ">", ">="} -> ApplyOrder(op, a, b)
         [] OTHER -> ApplyBitwise(op, a, b)

ApplyUnaryOp(op, v) ==
    CASE op = "-" -> WarnIfUndef(IF v[1] \in {"num", "list"} THEN Scale(Whole(-1), v) ELSE Undef)
      [] op = "!" -> {Answer(Bool(~Truthy(v)), FALSE)}
      [] OTHER -> IF ~Is("num", v) THEN {Answer(Undef, TRUE)}
                  ELSE {Answer(Num(Whole(-n - 1)), FALSE) : n \in ToSigned(Content(v), WideBits)}

(* a[i]: never a warning, undef for whatever is not there. *)
ApplyIndexAccess(v, index) ==
    LET c == Content(v)
        at(i) == CASE Is("list", v) -> IF i + 1 \in DOMAIN c THEN c[i + 1] ELSE Undef
                   [] Is("str", v) -> IF i < 0 \/ Utf8CharAt(c, i) = <<>> THEN Undef
                                      ELSE Str(Utf8CharAt(c, i))
                   [] OTHER -> IF i \in 0 .. 2 THEN Num(c[i + 1]) ELSE Undef
        keyed == {i \in DOMAIN c : c[i][1] = Content(index)}
    IN IF v[1] \in {"list", "str", "range"} /\ Is("num", index)
       THEN {Answer(at(i), FALSE) : i \in ToSigned(Content(index), IntBits)}
       ELSE IF Is("object", v) /\ Is("str", index) /\ keyed # {}
       THEN {Answer(c[Min(keyed)][2], FALSE)}
       ELSE {Answer(Undef, FALSE)}

(* v.x, v.y, v.z and v.w of a list, v.key of an object. *)
Swizzle == [x |-> 1, y |-> 2, z |-> 3, w |-> 4]
ApplyMemberAccess(v, member, key) ==
    LET c == Content(v)
    IN IF Is("list", v)
       THEN IF member \in DOMAIN Swizzle /\ Swizzle[member] \in DOMAIN c
            THEN c[Swizzle[member]] ELSE Undef
       ELSE IF Is("object", v)
       THEN LET keyed == {i \in DOMAIN c : c[i][1] = key}
            IN IF keyed = {} THEN Undef ELSE c[Min(keyed)][2]
       ELSE Undef

-----------------------------------------------------------------------------
(* Iteration *)

(* How many elements a range is said to have; none for an empty one, and the *)
(* cap for one that never ends, a zero step between finite bounds included.  *)
RangeElementCount(r) ==
    LET quotient == Divide(Minus(r[3], r[1]), r[2])
        count == FloorOf(Plus(quotient, Epsilon)) + 1
    IN IF r[2] = Zero /\ IsFinite(r[1]) /\ IsFinite(r[3]) THEN {CountCap}
       ELSE IF EmptyRange(r) THEN {}
       ELSE IF ~IsFinite(quotient) \/ count >= CountCap THEN {CountCap} ELSE {count}

(* Mutant: no tolerance at the end. *)
InRangeExactly(r, x) ==
    \/ Less(Zero, r[2]) /\ AtMost(x, r[3])
    \/ Less(r[2], Zero) /\ AtMost(r[3], x)

InRange(r, x) ==
    \/ Less(Zero, r[2]) /\ AtMost(x, Plus(r[3], Epsilon))
    \/ Less(r[2], Zero) /\ AtMost(Minus(r[3], Epsilon), x)

(* The elements the walk produces, one step at a time; it is followed for at *)
(* most CountCap of them.                                                    *)
RECURSIVE WalkFrom(_, _, _)
WalkFrom(r, x, left) ==
    IF left = 0 \/ ~InRange(r, x) THEN <<>>
    ELSE <<Num(x)>> \o WalkFrom(r, Plus(x, r[2]), left - 1)
Walk(r) == WalkFrom(r, r[1], CountCap)

TooMany(v) == Is("range", v) /\ \E n \in RangeElementCount(Content(v)) : n >= CountLimit

ExpandIterable(v) ==
    LET c == Content(v)
    IN CASE Is("range", v) -> IF TooMany(v) THEN <<>> ELSE Walk(c)
         [] Is("object", v) -> [i \in DOMAIN c |-> Str(c[i][1])]
         [] Is("str", v) -> LET chars == Utf8Chars(c) IN [i \in DOMAIN chars |-> Str(chars[i])]
         [] Is("list", v) -> c
         [] OTHER -> IF v = Undef THEN <<>> ELSE <<v>>

AppendEachInto(out, v) ==
    out \o (IF v[1] \in {"list", "str", "range"} THEN ExpandIterable(v)
            ELSE IF v = Undef THEN <<>> ELSE <<v>>)

(* A list literal from its contributions; when the first is `each` of a list *)
(* the result starts as that list and the rest is appended.                  *)
BuildList(parts) ==
    LET add(out, part) == IF part.each THEN AppendEachInto(out, part.value)
                          ELSE Append(out, part.value)
        seeded == parts # <<>> /\ Head(parts).each /\ Is("list", Head(parts).value)
        seed == IF seeded THEN Content(Head(parts).value) ELSE <<>>
        rest == FoldLeft(add, <<>>, IF seeded THEN Tail(parts) ELSE parts)
    IN List(seed \o rest)

-----------------------------------------------------------------------------
(* What echo and str() print of a value *)

LOCAL Joined(texts, between) ==
    FoldLeft(LAMBDA s, i : s \o (IF i = 1 THEN <<>> ELSE between) \o texts[i],
             <<>>, [i \in DOMAIN texts |-> i])
LOCAL Colon == <<32, 58, 32>>
LOCAL Comma == <<44, 32>>

RECURSIVE FmtValue(_)
FmtValue(v) ==
    LET c == Content(v)
        numbers == [i \in 1 .. 3 |-> FormatNumber(c[i])]
        items == [i \in DOMAIN c |-> FmtValue(c[i])]
        entries == [i \in DOMAIN c |-> c[i][1] \o <<32, 61, 32>> \o FmtValue(c[i][2]) \o <<59, 32>>]
    IN CASE Is("undef", v) -> <<117, 110, 100, 101, 102>>
         [] Is("bool", v) -> IF c THEN <<116, 114, 117, 101>> ELSE <<102, 97, 108, 115, 101>>
         [] Is("range", v) -> <<91>> \o Joined(numbers, Colon) \o <<93>>
         [] Is("num", v) -> FormatNumber(c)
         [] Is("list", v) -> <<91>> \o Joined(items, Comma) \o <<93>>
         [] Is("object", v) -> <<123, 32>> \o Joined(entries, <<>>) \o <<125>>
         [] Is("str", v) -> <<Quote>> \o c \o <<Quote>>
         [] OTHER -> <<102, c>>
=============================================================================
