----------------------------- MODULE ValueScripts ---------------------------
(* Scripts that compute: each evaluator works through its expressions, one   *)
(* built-in call, operator or literal at a time, and all of them share the   *)
(* generator of rands().  An expression is <<kind, name, operands>>.         *)
EXTENDS FunctionBuiltins
LOCAL INSTANCE SequencesExt
LOCAL INSTANCE FiniteSetsExt
CONSTANTS Evaluators,
          Scripts,    \* the expressions each evaluator is given, in order
          Spelling,   \* the bytes of an argument's name
          Features    \* level of each feature that is implemented

VARIABLES script,     \* what each evaluator has still to evaluate
          generator,  \* seed of the shared generator, and draws since
          randsCalls, \* rands() calls each evaluator has noted
          log         \* expressions evaluated, with their answers
vars == <<script, generator, randsCalls, log>>

-----------------------------------------------------------------------------
(* object() *)

SetKey(pairs, key, v) ==
    LET at == {i \in DOMAIN pairs : pairs[i][1] = key}
    IN IF at = {} THEN Append(pairs, <<key, v>>) ELSE [pairs EXCEPT ![Min(at)][2] = v]
DeleteKey(pairs, key) == SelectSeq(pairs, LAMBDA p : p[1] # key)

(* An entry of an unnamed list: [key, value] sets, [key] deletes. *)
GoodEntry(entry) ==
    Is("list", entry) /\ Len(Content(entry)) \in 1 .. 2 /\ Is("str", Content(entry)[1])
ApplyEntry(pairs, entry) ==
    LET c == Content(entry)
    IN IF Len(c) = 2 THEN SetKey(pairs, Content(c[1]), c[2]) ELSE DeleteKey(pairs, Content(c[1]))

(* The arguments in the order they are written; the first bad one ends it. *)
MergeObjectArgs(arguments) ==
    LET good(a) ==
            \/ a[1] # ""
            \/ a[2][1] \in {"object", "undef"}
            \/ Is("list", a[2]) /\ \A i \in DOMAIN Content(a[2]) : GoodEntry(Content(a[2])[i])
        add(pairs, a) ==
            CASE a[1] # "" -> SetKey(pairs, Spelling[a[1]], a[2])
              [] a[1] = "" /\ Is("object", a[2]) ->
                    FoldLeft(LAMBDA ps, p : SetKey(ps, p[1], p[2]), pairs, Content(a[2]))
              [] a[1] = "" /\ Is("list", a[2]) -> FoldLeft(ApplyEntry, pairs, Content(a[2]))
              [] OTHER -> pairs
    IN IF \A i \in DOMAIN arguments : good(arguments[i])
       THEN Answer(Object(FoldLeft(add, <<>>, arguments)), FALSE)
       ELSE Answer(Undef, TRUE)

BuiltinHasKey(args) ==
    LET object == PositionalAt(args, 0)
        key == PositionalAt(args, 1)
    IN IF ~Is("object", object) \/ ~Is("str", key) THEN Undef
       ELSE Bool(\E i \in DOMAIN Content(object) : Content(object)[i][1] = Content(key))

-----------------------------------------------------------------------------
(* linear_solve() of a square system: LU with partial pivoting, in exact     *)
(* arithmetic.                                                               *)

IsNumericMatrix(v) ==
    /\ Is("list", v) /\ Content(v) # <<>>
    /\ LET rows == Content(v)
       IN /\ \A r \in DOMAIN rows : Is("list", rows[r]) /\ AreNumbers(Content(rows[r]))
          /\ Len(Content(rows[1])) > 0
          /\ Rectangular(rows, Len(Content(rows[1])))
MatrixOf(v) ==
    [r \in DOMAIN Content(v) |-> [c \in DOMAIN Content(Content(v)[r]) |->
                                     Content(Content(Content(v)[r])[c])]]
Finite(m) == \A r \in DOMAIN m : \A c \in DOMAIN m[r] : IsFinite(m[r][c])
LargestOf(m, least) ==
    FoldLeft(LAMBDA best, row :
                FoldLeft(LAMBDA b, x : IF Less(b, Magnitude(x)) THEN Magnitude(x) ELSE b, best, row),
             least, m)

(* The right-hand side as a matrix: a vector is one column. *)
IsColumn(v, rows) == Is("list", v) /\ AreNumbers(Content(v)) /\ Len(Content(v)) = rows
SidesOf(v, rows) ==
    IF v = Undef THEN [r \in 1 .. rows |-> <<>>]
    ELSE IF IsColumn(v, rows) THEN [r \in 1 .. rows |-> <<Content(Content(v)[r])>>]
    ELSE MatrixOf(v)

LessTimes(row, f, pivotRow) == [c \in DOMAIN row |-> Minus(row[c], Times(f, pivotRow[c]))]

(* One column: the largest entry at or below the diagonal becomes the pivot; *)
(* the rows below it lose their multiple of its row.                         *)
Eliminate(system, col, threshold) ==
    LET a == system.lu
        n == Len(a)
        size(r) == Magnitude(a[r][col])
        pivot == Min({r \in col .. n : \A s \in col .. n : ~Less(size(r), size(s))})
        swap(m) == [m EXCEPT ![col] = m[pivot], ![pivot] = m[col]]
        lu == swap(a)
        b == swap(system.rhs)
        p == lu[col][col]
        f(r) == Divide(lu[r][col], p)
    IN IF system.singular \/ AtMost(size(pivot), threshold) THEN [system EXCEPT !.singular = TRUE]
       ELSE [lu |-> [r \in 1 .. n |-> IF r > col THEN LessTimes(lu[r], f(r), lu[col]) ELSE lu[r]],
             rhs |-> [r \in 1 .. n |-> IF r > col THEN LessTimes(b[r], f(r), b[col]) ELSE b[r]],
             det |-> Times(IF pivot = col THEN system.det ELSE Negate(system.det), p),
             singular |-> FALSE]

(* The solution from the triangle, last row first. *)
BackSubstitute(lu, rhs) ==
    LET n == Len(lu)
        solved(x, row) ==
            LET known == FoldLeft(LAMBDA acc, j : LessTimes(acc, lu[row][j], x[j]),
                                  rhs[row], [j \in 1 .. n - row |-> row + j])
            IN [x EXCEPT ![row] = [c \in DOMAIN known |-> Divide(known[c], lu[row][row])]]
    IN FoldLeft(solved, rhs, [k \in 1 .. n |-> n + 1 - k])

Named(name, v) == <<Spelling[name], v>>
NumbersOf(row) == List([c \in DOMAIN row |-> Num(row[c])])

BuiltinLinearSolve(args) ==
    LET given == PositionalAt(args, 0)
        b == PositionalAt(args, 1)
        a == MatrixOf(given)
        n == Len(a)
        threshold == Times(Times(Tolerance, Whole(n)), LargestOf(a, One))
        start == [lu |-> a, rhs |-> SidesOf(b, n), det |-> One, singular |-> FALSE]
        done == FoldLeft(LAMBDA s, col : Eliminate(s, col, threshold), start, [c \in 1 .. n |-> c])
        x == BackSubstitute(done.lu, done.rhs)
        answer == IF b = Undef \/ done.singular THEN Undef
                  ELSE IF IsColumn(b, n) THEN List([r \in 1 .. n |-> Num(x[r][1])])
                  ELSE List([r \in 1 .. n |-> NumbersOf(x[r])])
        usableSide == b = Undef \/ IsColumn(b, n) \/ (IsNumericMatrix(b) /\ Len(Content(b)) = n)
    IN IF \/ ~IsNumericMatrix(given)
          \/ ~Finite(a)
          \/ ~usableSide
          \/ ~Finite(SidesOf(b, n))
       THEN Answer(Undef, TRUE)
       ELSE Answer(Object(<<Named("x", answer),
                            Named("det", Num(IF done.singular THEN Zero ELSE done.det)),
                            Named("singular", Bool(done.singular))>>), FALSE)

-----------------------------------------------------------------------------
(* rands() *)

(* Python's hash of a float: the number modulo 2^SeedBits - 1, by the powers *)
(* of two of its mantissa and exponent.                                      *)
PythonFloatHash(x) ==
    LET P == 2 ^ SeedBits - 1
        exponent == CHOOSE e \in -20 .. 20 :
                        AtMost(<<1, 2>>, Divide(Magnitude(x), Power2(e)))
                        /\ Less(Divide(Magnitude(x), Power2(e)), One)
        mantissa == TruncOf(Times(Divide(Magnitude(x), Power2(exponent)), Power2(MantissaBits)))
        shift == (exponent - MantissaBits) % SeedBits
        h == ((mantissa % P) * 2 ^ shift) % P
    IN CASE IsNaN(x) \/ x = Zero -> 0
         [] ~IsFinite(x) /\ ~IsNaN(x) -> 314159 * x[1]
         [] OTHER -> IF x[1] < 0 THEN -h ELSE h

Draw(low, high, seed, k) == <<"random", <<low, high, seed, k>>>>

(* Mutant: the distribution keeps its state across a seed. *)
ReseededMidway(seed) ==
    IF Is("num", seed) THEN [generator EXCEPT !.seed = <<PythonFloatHash(Content(seed))>>]
    ELSE generator

(* A seed starts the generator anew. *)
Reseeded(seed) ==
    IF Is("num", seed) THEN [seed |-> <<PythonFloatHash(Content(seed))>>, drawn |-> 0] ELSE generator

(* Bounds that are not finite are replaced, a reversed pair is swapped, and  *)
(* equal bounds draw nothing.                                                *)
BuiltinRands(args) ==
    LET minv == IF IsFinite(NumberAt(args, 0)) THEN NumberAt(args, 0) ELSE Whole(-HalfMax)
        maxv == IF IsFinite(NumberAt(args, 1)) THEN NumberAt(args, 1) ELSE Whole(HalfMax)
        low == IF Less(maxv, minv) THEN maxv ELSE minv
        high == IF Less(maxv, minv) THEN minv ELSE maxv
        asked == NumberAt(args, 2)
        count == IF IsFinite(asked) THEN TruncOf(Magnitude(asked)) ELSE 1
        from == Reseeded(PositionalAt(args, 3))
        drawn == IF low = high THEN [k \in 1 .. count |-> Num(low)]
                 ELSE [k \in 1 .. count |-> Draw(low, high, from.seed, from.drawn + k)]
        finite == \A i \in 0 .. 2 : IsFinite(NumberAt(args, i))
    IN IF count > MaxResults
       THEN [value |-> Undef, warned |-> TRUE, generator |-> generator]
       ELSE [value |-> List(drawn), warned |-> ~finite,
             generator |-> IF low = high THEN from
                           ELSE [from EXCEPT !.drawn = @ + count]]

-----------------------------------------------------------------------------
(* The remaining functions, and the choice between all of them *)

BuiltinConcat(args) ==
    List(FoldLeft(LAMBDA out, v : IF Is("list", v) THEN out \o Content(v) ELSE Append(out, v),
                  <<>>, args.positional))

BuiltinLen(v) ==
    Num(Whole(IF Is("str", v) THEN Utf8Length(Content(v)) ELSE Len(Content(v))))

BuiltinStr(args) ==
    Str(FoldLeft(LAMBDA s, v : s \o (IF Is("str", v) THEN Content(v) ELSE FmtValue(v)),
                 <<>>, args.positional))

(* The characters of code points, of lists of them and of ranges; what is no *)
(* code point contributes nothing.                                           *)
RECURSIVE Encode(_, _)
Encode(v, keepsLowBits) ==
    LET cp == ToUnsigned(Content(v), CodeBits, keepsLowBits)
        all(items) == FoldLeft(LAMBDA s, item : s \o Encode(item, keepsLowBits), <<>>, items)
    IN CASE Is("num", v) -> IF /\ IsFinite(Content(v))
                               /\ Less(Zero, Content(v))
                               /\ IsEncodable(cp)
                            THEN Utf8Encode(cp) ELSE <<>>
         [] Is("list", v) -> all(Content(v))
         [] Is("range", v) -> all(ExpandIterable(v))
         [] OTHER -> <<>>
BuiltinChr(args) == {Str(Encode(List(args.positional), low)) : low \in BOOLEAN}

TypeTested == [is_undef |-> "undef", is_num |-> "num", is_bool |-> "bool", is_string |-> "str",
               is_list |-> "list", is_function |-> "function", is_object |-> "object"]

(* What version() answers. *)
Version == List(<<Num(Whole(2026)), Num(One), Num(One)>>)

(* version_num() of [y, m] or [y, m, d]. *)
BuiltinVersionNum(args) ==
    LET v == PositionalAt(args, 0)
        c == Content(v)
        at(i) == IF i \in DOMAIN c THEN Content(c[i]) ELSE Zero
    IN IF args.positional = <<>> THEN Num(Whole(20260101))
       ELSE IF ~Is("list", v) THEN Undef
       ELSE IF ~AreNumbers(c) \/ Len(c) \notin 2 .. 3 THEN Undef
       ELSE Num(Plus(Plus(Times(at(1), Whole(10000)), Times(at(2), Whole(100))), at(3)))

(* The module so many modules out from the innermost one; int arithmetic.    *)
ParentModuleName(index) ==
    LET modules == SelectSeq(CallStack, LAMBDA f : f.kind = "module")
        at == Len(modules) - index
    IN IF at \in DOMAIN modules THEN Str(Spelling[modules[at].name]) ELSE Undef
BuiltinParentModule(args) ==
    {LET v == ParentModuleName(i) IN Answer(v, v = Undef) :
        i \in IF args.positional = <<>> THEN {1} ELSE ToSigned(NumberAt(args, 0), IntBits)}

FeatureLevel(v) ==
    LET known == {f \in DOMAIN Features : Is("str", v) /\ Spelling[f] = Content(v)}
    IN Num(Whole(IF known = {} THEN 0 ELSE Features[CHOOSE f \in known : TRUE]))

(* The answers of a function whose arguments passed the checks. *)
AnswersOf(name, args) ==
    LET x == PositionalAt(args, 0)
        numbers == Is("list", x) /\ AreNumbers(Content(x))
        squares == Content(Dot(Content(x), Content(x)))
        silent(v) == {Answer(v, FALSE)}
    IN CASE name \in Extremes -> silent(BuiltinMinMax(args, name = "max"))
         [] name = "norm" -> IF numbers THEN silent(Irrational("sqrt", <<squares>>))
                             ELSE {Answer(Undef, TRUE)}
         [] name = "cross" -> {BuiltinCross(args)}
         [] name = "lookup" -> {BuiltinLookup(args)}
         [] name = "search" -> {BuiltinSearch(args)}
         [] name = "linear_solve" -> {BuiltinLinearSolve(args)}
         [] name = "concat" -> silent(BuiltinConcat(args))
         [] name = "len" -> silent(BuiltinLen(x))
         [] name = "str" -> silent(BuiltinStr(args))
         [] name = "chr" -> {Answer(v, FALSE) : v \in BuiltinChr(args)}
         [] name = "ord" -> silent(IF Content(x) = <<>> THEN Undef
                                   ELSE Num(Whole(Utf8DecodeFirst(Content(x)))))
         [] name \in TypeTests -> silent(Bool(Is(TypeTested[name], x) /\ x # Num(NaN)))
         [] name = "has_key" -> silent(BuiltinHasKey(args))
         [] name = "supported_feature" -> silent(FeatureLevel(x))
         [] name = "version" -> silent(Version)
         [] name = "version_num" -> silent(BuiltinVersionNum(args))
         [] name = "parent_module" -> BuiltinParentModule(args)
         [] OTHER -> silent(BuiltinMath(name, args))

(* A call: its arguments in order unless all are positional anyway, the      *)
(* checks with their warning, the function.                                  *)
EvalBuiltinFunction(name, arguments) ==
    LET built == BuildCallArgs(arguments)
        args == IF built.named = <<>> THEN built ELSE InOrder(arguments, built)
    IN IF ~CheckBuiltinArgs(name, args) THEN {Answer(Undef, TRUE)} ELSE AnswersOf(name, args)

-----------------------------------------------------------------------------
(* Evaluating an expression *)

Operand(e, i) == e[3][i][2]

AnswersFor(e) ==
    LET name == e[2]
        first == Operand(e, 1)
        literal == UnescapeStringLiteral(Content(first))   \* further operands only say
                                                            \* how it was put together
    IN CASE e[1] = "binary" -> ApplyBinaryOp(name, first, Operand(e, 2))
         [] e[1] = "unary" -> ApplyUnaryOp(name, first)
         [] e[1] = "index" -> ApplyIndexAccess(first, Operand(e, 2))
         [] e[1] = "member" -> {Answer(ApplyMemberAccess(first, name, Spelling[name]), FALSE)}
         [] e[1] = "for" -> {Answer(List(ExpandIterable(first)), TooMany(first))}
         [] e[1] = "list" -> {Answer(BuildList([i \in DOMAIN e[3] |->
                                [each |-> e[3][i][1] = "each", value |-> e[3][i][2]]]), FALSE)}
         [] e[1] = "literal" -> {Answer(Str(literal.text), literal.undefined > 0)}
         [] e[1] = "float" -> {Answer(Str(FormatFloat(first[1], first[2], first[3])), FALSE)}
         [] e[1] = "object" -> {MergeObjectArgs(e[3])}
         [] OTHER -> EvalBuiltinFunction(name, e[3])

IsRands(e) == e[2] = "rands"

Evaluate(self) ==
    LET e == Head(script[self]) IN
    /\ script[self] # <<>>
    /\ ~IsRands(e)
    /\ \E a \in AnswersFor(e) : log' = Append(log, <<e, a>>)
    /\ script' = [script EXCEPT ![self] = Tail(@)]
    /\ UNCHANGED <<generator, randsCalls>>

(* The draws of one call are made under the generator's lock: one step. *)
EvaluateRands(self) ==
    LET e == Head(script[self])
        built == BuildCallArgs(e[3])
        args == IF built.named = <<>> THEN built ELSE InOrder(e[3], built)
        checked == CheckBuiltinArgs("rands", args)
    IN /\ script[self] # <<>>
       /\ IsRands(e)
       /\ IF checked
          THEN /\ randsCalls' = [randsCalls EXCEPT ![self] = @ + 1]
               /\ \E r \in {BuiltinRands(args)} :
                     /\ generator' = r.generator
                     /\ log' = Append(log, <<e, Answer(r.value, r.warned)>>)
          ELSE /\ log' = Append(log, <<e, Answer(Undef, TRUE)>>)
               /\ UNCHANGED <<generator, randsCalls>>
       /\ script' = [script EXCEPT ![self] = Tail(@)]

(* The generator starts from the entropy of the machine: no seed is known. *)
Init ==
    /\ script \in Scripts
    /\ generator = [seed |-> <<>>, drawn |-> 0]
    /\ randsCalls = [e \in Evaluators |-> 0]
    /\ log = <<>>

Finished == (\A e \in Evaluators : script[e] = <<>>) /\ UNCHANGED vars

Next == (\E e \in Evaluators : Evaluate(e) \/ EvaluateRands(e)) \/ Finished
Spec == Init /\ [][Next]_vars
=============================================================================
