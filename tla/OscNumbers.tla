----------------------------- MODULE OscNumbers -----------------------------
(* The language's one number type, an IEEE double, as the fraction it stands *)
(* for: <<p, q>> in lowest terms, with <<1, 0>> and <<-1, 0>> the two        *)
(* infinities and <<0, 0>> not a number.  Arithmetic is exact: rounding and  *)
(* the sign of zero are left out, the special values are kept.               *)
EXTENDS Integers
CONSTANT MaxAngle   \* beyond it a double cannot tell the turns: 360 * 2^52

LOCAL Size(n) == IF n < 0 THEN -n ELSE n
LOCAL SignOf(n) == IF n > 0 THEN 1 ELSE IF n < 0 THEN -1 ELSE 0

RECURSIVE Gcd(_, _)
Gcd(a, b) == IF b = 0 THEN a ELSE Gcd(b, a % b)

NaN == <<0, 0>>
Infinity == <<1, 0>>
NegInfinity == <<-1, 0>>
Whole(n) == <<n, 1>>
Zero == Whole(0)
One == Whole(1)

IsNaN(x) == x = NaN
IsFinite(x) == x[2] # 0

(* p / q for q > 0, in lowest terms. *)
Ratio(p, q) ==
    LET g == Gcd(Size(p), q) IN <<p \div g, q \div g>>

Negate(x) == <<-x[1], x[2]>>
Magnitude(x) == <<Size(x[1]), x[2]>>

Plus(x, y) ==
    IF IsFinite(x) /\ IsFinite(y) THEN Ratio(x[1] * y[2] + y[1] * x[2], x[2] * y[2])
    ELSE IF IsNaN(x) \/ IsNaN(y) \/ x = Negate(y) THEN NaN
    ELSE IF IsFinite(x) THEN y ELSE x

Minus(x, y) == Plus(x, Negate(y))

Times(x, y) ==
    IF IsFinite(x) /\ IsFinite(y) THEN Ratio(x[1] * y[1], x[2] * y[2])
    ELSE <<SignOf(x[1]) * SignOf(y[1]), 0>>

Divide(x, y) ==
    IF y[1] = 0 /\ IsFinite(y) THEN <<SignOf(x[1]), 0>>
    ELSE IF IsFinite(y) THEN
        IF IsFinite(x) THEN Ratio(x[1] * y[2] * SignOf(y[1]), x[2] * Size(y[1]))
        ELSE <<x[1] * SignOf(y[1]), 0>>
    ELSE IF IsFinite(x) /\ ~IsNaN(y) THEN Zero ELSE NaN

(* x < y; whatever has a NaN in it is false. *)
Less(x, y) ==
    /\ ~IsNaN(x)
    /\ ~IsNaN(y)
    /\ \/ x[1] * y[2] < y[1] * x[2]
       \/ x = NegInfinity /\ y = Infinity
SameNumber(x, y) == x = y /\ ~IsNaN(x)
AtMost(x, y) == Less(x, y) \/ SameNumber(x, y)

(* std::floor and std::trunc of a finite number, and C's fmod: the result    *)
(* takes the sign of the left operand.                                       *)
FloorOf(x) == x[1] \div x[2]
TruncOf(x) == SignOf(x[1]) * (Size(x[1]) \div x[2])
Remainder(x, y) ==
    IF ~IsFinite(x) \/ IsNaN(y) \/ y = Zero THEN NaN
    ELSE IF ~IsFinite(y) THEN x
    ELSE Minus(x, Times(Whole(TruncOf(Divide(x, y))), y))

RECURSIVE Power(_, _)
Power(x, n) == IF n = 0 THEN One ELSE Times(x, Power(x, n - 1))
Power2(n) == IF n < 0 THEN <<1, 2 ^ (-n)>> ELSE Whole(2 ^ n)

(* static_cast of a number to a signed integer of the given width.  Out of   *)
(* its range the conversion is undefined: x86-64 answers the most negative   *)
(* integer, arm64 the nearest one, and zero for NaN.                         *)
ToSigned(x, bits) ==
    LET bound == 2 ^ (bits - 1) IN
    IF IsFinite(x) /\ TruncOf(x) \in -bound .. bound - 1 THEN {TruncOf(x)}
    ELSE {-bound, IF IsNaN(x) THEN 0 ELSE IF x[1] > 0 THEN bound - 1 ELSE -bound}

(* The same to an unsigned integer: one machine keeps the low bits, another  *)
(* takes the nearest.  Only asked of positive finite numbers.                *)
ToUnsigned(x, bits, keepsLowBits) ==
    LET n == TruncOf(x) IN
    IF n < 2 ^ bits THEN n ELSE IF keepsLowBits THEN n % 2 ^ bits ELSE 2 ^ bits - 1

-----------------------------------------------------------------------------
(* sin, cos and tan of an angle in degrees.  The angle is folded into the    *)
(* first quadrant; there the results with a closed form are exact, and the   *)
(* others are what the library returns for an angle, named by function and   *)
(* angle.  A result is <<sign, name, angle>>.                                *)

Exact(name) == <<1, name, Zero>>
Library(name, angle) == <<1, name, angle>>
NotANumber == <<0, "nan", Zero>>

AngleIsMeaningless(x) == ~IsFinite(x) \/ ~Less(Magnitude(x), Whole(MaxAngle))

WrapDegrees(x, period) ==
    IF AtMost(Zero, x) /\ Less(x, Whole(period)) THEN x
    ELSE Minus(x, Times(Whole(period), Whole(FloorOf(Divide(x, Whole(period))))))

SinFirstQuadrant(x) ==
    IF Less(x, Whole(45)) THEN IF x = Whole(30) THEN Exact("half") ELSE Library("sin", x)
    ELSE IF x = Whole(45) THEN Exact("sqrt 1/2")
    ELSE IF x = Whole(60) THEN Exact("sqrt 3/4")
    ELSE Library("cos", Minus(Whole(90), x))

CosFirstQuadrant(x) ==
    IF Less(Whole(45), x)
    THEN IF x = Whole(60) THEN Exact("half") ELSE Library("sin", Minus(Whole(90), x))
    ELSE IF x = Whole(45) THEN Exact("sqrt 1/2")
    ELSE IF x = Whole(30) THEN Exact("sqrt 3/4")
    ELSE Library("cos", x)

(* A zero has no sign that a script could see. *)
Signed(negate, r) ==
    IF negate /\ ~(r[2] \in {"sin", "zero"} /\ r[3] = Zero) THEN <<-r[1], r[2], r[3]>> ELSE r

SinDegrees(angle) ==
    LET x == WrapDegrees(angle, 360)
        negate == AtMost(Whole(180), x)
        half == IF negate THEN Minus(x, Whole(180)) ELSE x
        folded == IF Less(Whole(90), half) THEN Minus(Whole(180), half) ELSE half
    IN IF AngleIsMeaningless(angle) THEN NotANumber
       ELSE Signed(negate, SinFirstQuadrant(folded))

CosDegrees(angle) ==
    LET x == WrapDegrees(angle, 360)
        lower == AtMost(Whole(180), x)
        half == IF lower THEN Minus(x, Whole(180)) ELSE x
        obtuse == Less(Whole(90), half)
        folded == IF obtuse THEN Minus(Whole(180), half) ELSE half
    IN IF AngleIsMeaningless(angle) THEN NotANumber
       ELSE Signed(lower # obtuse, CosFirstQuadrant(folded))

TanDegrees(angle) ==
    LET odd == FloorOf(Divide(angle, Whole(180))) % 2 # 0
        x == WrapDegrees(angle, 180)
        negate == Less(Whole(90), x)
        folded == IF negate THEN Minus(Whole(180), x) ELSE x
        r == CASE folded = Zero -> Exact("zero")
               [] folded = Whole(30) -> Exact("sqrt 1/3")
               [] folded = Whole(45) -> Exact("one")
               [] folded = Whole(60) -> Exact("sqrt 3")
               [] folded = Whole(90) -> Signed(odd, Exact("inf"))
               [] OTHER -> Library("tan", folded)
    IN IF AngleIsMeaningless(angle) THEN NotANumber ELSE Signed(negate, r)
=============================================================================
