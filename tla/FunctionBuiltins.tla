--------------------------- MODULE FunctionBuiltins -------------------------
(* The built-in functions: how a call's arguments reach one, the checks made *)
(* of them, what each computes, and the one generator of random numbers that *)
(* every evaluator of the process shares.  An argument is <<name, value>>,   *)
(* with no name ("") when it is positional.                                  *)
EXTENDS OscValues
LOCAL INSTANCE SequencesExt
LOCAL INSTANCE FiniteSetsExt
CONSTANTS CodeBits,    \* width of the unsigned integer chr() converts to: 32
          SeedBits,    \* seeds are taken modulo 2^SeedBits - 1: 31
          MantissaBits,\* bits of the integer a seed's mantissa becomes: 53
          MaxResults,  \* more random numbers than this cannot be stored
          HalfMax,     \* half the largest number
          Tolerance,   \* relative threshold of a singular pivot
          CallStack    \* kinds and names of the entered calls, outermost first

(* The answer of a call that reads an alternative its argument does not hold.*)
BadAccess == <<"bad variant access", 0>>

-----------------------------------------------------------------------------
(* Arguments *)

Config == {"$fn", "$children"}

(* Positional arguments in order, named ones in theirs; a repeated name is   *)
(* kept twice, and the first is the one that is found.                       *)
BuildCallArgs(arguments) ==
    [positional |-> [i \in DOMAIN SelectSeq(arguments, LAMBDA a : a[1] = "") |->
                        SelectSeq(arguments, LAMBDA a : a[1] = "")[i][2]],
     named |-> SelectSeq(arguments, LAMBDA a : a[1] # "")]

PositionalAt(args, i) == IF i + 1 \in DOMAIN args.positional THEN args.positional[i + 1] ELSE Undef
FindNamed(args, name) ==
    LET found == {i \in DOMAIN args.named : args.named[i][1] = name}
    IN IF found = {} THEN {} ELSE {args.named[Min(found)][2]}

(* The arguments of a call in the order they are written, whatever their     *)
(* names; a $-variable is none of them.                                      *)
InOrder(arguments, args) ==
    LET kept == SelectSeq(arguments, LAMBDA a : a[1] \notin Config)
        position(i) == Cardinality({j \in 1 .. i - 1 : kept[j][1] = ""})
        value(i) == IF kept[i][1] = "" THEN PositionalAt(args, position(i))
                    ELSE CHOOSE v \in FindNamed(args, kept[i][1]) : TRUE
    IN [positional |-> [i \in DOMAIN kept |-> value(i)], named |-> <<>>]

-----------------------------------------------------------------------------
(* Checks before the call *)

AnyType == {"undef", "bool", "num", "str", "list", "range", "function", "object"}
Numeric == {"abs", "sign", "ceil", "floor", "round", "sqrt", "ln", "exp", "sin", "cos",
            "tan", "asin", "acos", "atan"}
TypeTests == {"is_undef", "is_num", "is_bool", "is_string", "is_list", "is_function", "is_object"}
Extremes == {"min", "max"}
Unbounded == 1000

(* Fewest and most arguments, and the types of the first ones. *)
Required(low, high, types) == [low |-> low, high |-> high, types |-> types]
BuiltinCheck(name) ==
    LET number == {"num"}
        vector == {"list"}
    IN CASE name \in Numeric -> Required(1, 1, <<number>>)
         [] name \in {"atan2", "pow"} -> Required(2, 2, <<number, number>>)
         [] name = "log" -> Required(1, 2, <<number, number>>)
         [] name = "cross" -> Required(2, 2, <<vector, vector>>)
         [] name = "lookup" -> Required(2, 2, <<number, vector>>)
         [] name = "norm" -> Required(1, 1, <<vector>>)
         [] name = "len" -> Required(1, 1, <<{"str", "list", "object"}>>)
         [] name = "ord" -> Required(1, 1, <<{"str"}>>)
         [] name = "rands" -> Required(3, 4, <<number, number, number, number>>)
         [] name = "search" -> Required(2, 4, <<>>)
         [] name = "parent_module" -> Required(0, 1, <<number>>)
         [] name = "has_key" -> Required(0, Unbounded, <<{"object"}, {"str"}>>)
         [] name = "linear_solve" -> Required(1, 2, <<vector>>)
         [] name \in TypeTests \cup {"supported_feature"} -> Required(1, 1, <<>>)
         [] OTHER -> Required(0, Unbounded, <<>>)

(* One vector of numbers, or numbers. *)
CheckMinMax(args) ==
    LET given == args.positional
    IN IF Len(given) = 1 /\ Is("list", given[1])
       THEN Content(given[1]) # <<>> /\ AreNumbers(Content(given[1]))
       ELSE Len(given) + Len(args.named) >= 1 /\ AreNumbers(given)

CheckBuiltinArgs(name, args) ==
    LET check == BuiltinCheck(name)
        given == args.positional
    IN IF name \in Extremes THEN CheckMinMax(args)
       ELSE /\ Len(given) + Len(args.named) \in check.low .. check.high
            /\ \A i \in DOMAIN check.types \cap DOMAIN given : given[i][1] \in check.types[i]

-----------------------------------------------------------------------------
(* The functions.  NumberAt is the lenient conversion: 0 for what is none.   *)

ToDoubleLenient(v) ==
    CASE Is("num", v) -> Content(v)
      [] Is("bool", v) -> IF Content(v) THEN One ELSE Zero
      [] OTHER -> Zero
NumberAt(args, i) == ToDoubleLenient(PositionalAt(args, i))

IsBoolOrListContainsBool(v) ==
    Is("bool", v) \/ (Is("list", v) /\ \E i \in DOMAIN Content(v) : Is("bool", Content(v)[i]))

(* std::max_element and min_element: the first that none after it beats. *)
Extreme(numbers, wantMax) ==
    FoldLeft(LAMBDA best, x : IF (wantMax /\ Less(best, x)) \/ (~wantMax /\ Less(x, best))
                              THEN x ELSE best, numbers[1], numbers)

BuiltinMinMax(args, wantMax) ==
    LET given == args.positional
        from(items) == Num(Extreme([i \in DOMAIN items |-> Content(items[i])], wantMax))
        items == IF Len(given) = 1 /\ Is("list", given[1]) THEN Content(given[1]) ELSE given
    IN IF \/ items = <<>>
          \/ \E i \in DOMAIN given : IsBoolOrListContainsBool(given[i])
          \/ ~AreNumbers(items)
       THEN Undef ELSE from(items)

(* Halves away from zero. *)
RoundOf(x) == IF IsFinite(x)
              THEN LET n == FloorOf(Plus(Magnitude(x), <<1, 2>>)) IN Whole(IF x[1] < 0 THEN -n ELSE n)
              ELSE x

BuiltinMath(name, args) ==
    LET x == NumberAt(args, 0)
        y == NumberAt(args, 1)
        named == Irrational(name, <<x>>)
    IN CASE name = "abs" -> Num(Magnitude(x))
         [] name = "sign" -> Num(IF Less(Zero, x) THEN One ELSE IF Less(x, Zero) THEN Whole(-1) ELSE Zero)
         [] name = "ceil" -> Num(IF IsFinite(x) THEN Whole(-FloorOf(Negate(x))) ELSE x)
         [] name = "floor" -> Num(IF IsFinite(x) THEN Whole(FloorOf(x)) ELSE x)
         [] name = "round" -> Num(RoundOf(x))
         [] name = "sqrt" -> IF Less(x, Zero) THEN Num(NaN) ELSE named
         [] name = "ln" -> IF x = Zero THEN Num(NegInfinity)
                           ELSE IF Less(x, Zero) THEN Num(NaN) ELSE named
         [] name = "log" -> Irrational("log", IF Len(args.positional) < 2 THEN <<x>> ELSE <<x, y>>)
         [] name = "sin" -> Irrational("trig", SinDegrees(x))
         [] name = "cos" -> Irrational("trig", CosDegrees(x))
         [] name = "tan" -> Irrational("trig", TanDegrees(x))
         [] name \in {"asin", "acos"} -> IF Less(One, Magnitude(x)) THEN Num(NaN) ELSE named
         [] name = "pow" -> BuiltinPow(x, y)
         [] OTHER -> Irrational(name, <<x, y>>)

(* A non-negative whole argument; 0 for what is no number. *)
WholeArg(args, i, fallback) ==
    IF i + 1 \notin DOMAIN args.positional THEN fallback
    ELSE LET v == PositionalAt(args, i)
         IN IF Is("num", v) /\ Less(Zero, Content(v)) /\ IsFinite(Content(v))
            THEN TruncOf(Content(v)) ELSE IF v = Num(Infinity) THEN Unbounded ELSE 0

(* The first wanted of these indices; all for 0. *)
FirstWanted(indices, wanted) ==
    LET found == SetToSortSeq(indices, <)
    IN [k \in 1 .. (IF wanted = 0 THEN Len(found) ELSE Min({wanted, Len(found)})) |->
            Num(Whole(found[k]))]

(* What the needles of a search contribute: with one result wanted, the      *)
(* first index of each; what is not found is skipped or an empty list.       *)
Collect(founds, wanted, skipMissing) ==
    LET one(found) == IF wanted # 1 THEN <<List(found)>>
                      ELSE IF found # <<>> THEN <<Head(found)>>
                      ELSE IF skipMissing THEN <<>> ELSE <<List(<<>>)>>
    IN List(FoldLeft(LAMBDA out, found : out \o one(found), <<>>, founds))

EntryMatches(entry, value, column) ==
    \/ column = 0 /\ OscEqual(entry, value)
    \/ /\ Is("list", entry)
       /\ Len(Content(entry)) > column
       /\ OscEqual(Content(entry)[column + 1], value)

SearchText(chars, haystack, entries, wanted, column) ==
    LET hay == Utf8Chars(Content(haystack))
        inText(c) == FirstWanted({j \in 0 .. Len(hay) - 1 : hay[j + 1] = c}, wanted)
        cell(j) == Content(entries[j + 1])[column + 1]
        inRows(c) == FirstWanted({j \in 0 .. Len(entries) - 1 :
                         Is("str", cell(j)) /\ Utf8CharAt(Content(cell(j)), 0) = c}, wanted)
        invalid == \E j \in DOMAIN entries :
                      ~Is("list", entries[j]) \/ Len(Content(entries[j])) <= column
    IN IF Is("str", haystack)
       THEN Answer(Collect([i \in DOMAIN chars |-> inText(chars[i])], wanted, TRUE), FALSE)
       ELSE IF chars # <<>> /\ invalid THEN Answer(List(<<>>), TRUE)
       ELSE Answer(Collect([i \in DOMAIN chars |-> inRows(chars[i])], wanted, TRUE), FALSE)

BuiltinSearch(args) ==
    LET needle == PositionalAt(args, 0)
        haystack == PositionalAt(args, 1)
        wanted == WholeArg(args, 2, 1)
        column == WholeArg(args, 3, 0)
        entries == IF Is("list", haystack) THEN Content(haystack) ELSE <<>>
        indices(value) == FirstWanted({j \in 0 .. Len(entries) - 1 :
                              EntryMatches(entries[j + 1], value, column)}, wanted)
    IN CASE Is("num", needle) -> Answer(List(indices(needle)), FALSE)
         [] Is("str", needle) ->
                SearchText(Utf8Chars(Content(needle)), haystack, entries, wanted, column)
         [] Is("list", needle) ->
                Answer(Collect([i \in DOMAIN Content(needle) |-> indices(Content(needle)[i])],
                               wanted, FALSE), FALSE)
         [] OTHER -> Answer(Undef, FALSE)

(* A row of a lookup table: two numbers. *)
IsRow(v) == Is("list", v) /\ Len(Content(v)) = 2 /\ AreNumbers(Content(v))
RowOf(v) == <<Content(Content(v)[1]), Content(Content(v)[2])>>

(* Mutant: a later row with the same key takes over. *)
NearestRowsLast(rows, key) ==
    LET nearer(near, row) ==
            [low |-> IF AtMost(row[1], key) /\ (Less(key, near.low[1]) \/ AtMost(near.low[1], row[1]))
                     THEN row ELSE near.low,
             high |-> IF AtMost(key, row[1]) /\ (Less(near.high[1], key) \/ AtMost(row[1], near.high[1]))
                      THEN row ELSE near.high]
    IN FoldLeft(nearer, [low |-> rows[1], high |-> rows[1]], rows)

(* The nearest rows at or below and at or above the key: each starts as the  *)
(* first row and is replaced only by a strictly nearer one.                  *)
NearestRows(rows, key) ==
    LET nearer(near, row) ==
            [low |-> IF AtMost(row[1], key) /\ (Less(key, near.low[1]) \/ Less(near.low[1], row[1]))
                     THEN row ELSE near.low,
             high |-> IF AtMost(key, row[1]) /\ (Less(near.high[1], key) \/ Less(row[1], near.high[1]))
                      THEN row ELSE near.high]
    IN FoldLeft(nearer, [low |-> rows[1], high |-> rows[1]], rows)

BuiltinLookup(args) ==
    LET key == Content(PositionalAt(args, 0))
        table == Content(PositionalAt(args, 1))
        valid == SelectSeq(table, IsRow)
        near == NearestRows([i \in DOMAIN valid |-> RowOf(valid[i])], key)
        low == near.low
        high == near.high
        f == Divide(Minus(key, low[1]), Minus(high[1], low[1]))
    IN IF ~Is("num", PositionalAt(args, 0)) THEN Answer(BadAccess, FALSE)
       ELSE IF ~IsFinite(key) THEN Answer(Undef, TRUE)
       ELSE IF ~Is("list", PositionalAt(args, 1)) THEN Answer(BadAccess, FALSE)
       ELSE IF table = <<>> \/ ~IsRow(table[1]) THEN Answer(Undef, FALSE)
       ELSE IF AtMost(key, low[1]) THEN Answer(Num(high[2]), FALSE)
       ELSE IF AtMost(high[1], key) THEN Answer(Num(low[2]), FALSE)
       ELSE Answer(Num(Plus(Times(high[2], f), Times(low[2], Minus(One, f)))), FALSE)

(* The 3D cross product, or the z of two plane vectors', where what is no    *)
(* number counts as 0.                                                       *)
BuiltinCross(args) ==
    LET a == Content(PositionalAt(args, 0))
        b == Content(PositionalAt(args, 1))
        number(v) == IF Is("num", v) THEN Content(v) ELSE Zero
        minor(i, j) == Minus(Times(number(a[i]), number(b[j])), Times(number(a[j]), number(b[i])))
        usable(v) == \A i \in DOMAIN v : Is("num", v[i]) /\ IsFinite(Content(v[i]))
    IN IF ~Is("list", PositionalAt(args, 0)) \/ ~Is("list", PositionalAt(args, 1))
       THEN Answer(BadAccess, FALSE)
       ELSE IF Len(a) = 2 /\ Len(b) = 2 THEN Answer(Num(minor(1, 2)), FALSE)
       ELSE IF Len(a) # 3 \/ Len(b) # 3 \/ ~usable(a) \/ ~usable(b) THEN Answer(Undef, TRUE)
       ELSE Answer(List(<<Num(minor(2, 3)), Num(minor(3, 1)), Num(minor(1, 2))>>), FALSE)
=============================================================================
