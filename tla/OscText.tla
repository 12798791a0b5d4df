------------------------------- MODULE OscText ------------------------------
(* Text as the program keeps it, a sequence of bytes: cutting it into        *)
(* characters, encoding and decoding one, resolving the escapes of a string  *)
(* literal, and printing a number: its first Digits significant digits,      *)
(* rounded from either of two renderings of it, laid out as a decimal or     *)
(* with an exponent.  A float is mantissa * 2^power with a mantissa of       *)
(* Precision bits; the program's floats have 53 bits and it prints 6 digits. *)
EXTENDS Integers, Sequences, FiniteSets, OscNumbers
LOCAL INSTANCE SequencesExt
LOCAL INSTANCE FiniteSetsExt
CONSTANTS Digits,     \* significant digits printed: 6
          Precision,  \* bits of a float's mantissa: 53
          Rendering,  \* digits of the printf rendering: 17
          LeadZeros   \* most zeros after the point before an exponent: 4

ASSUME DecimalAssumption ==
    /\ Digits \in Nat \ {0}
    /\ Precision \in Nat \ {0}
    /\ Rendering \in Nat
    /\ LeadZeros \in Nat
    \* A decimal of Digits + 1 digits has at most one float's worth of
    \* company, and Rendering digits tell any two floats apart.
    /\ 2 ^ (Precision - 1) > 10 ^ (Digits + 1)
    /\ 10 ^ (Rendering - 1) > 2 ^ Precision

-----------------------------------------------------------------------------
(* Characters *)

IsContinuation(byte) == byte \in 128 .. 191

(* Past the end of the character that starts at i: at least one byte on,     *)
(* even in text that is no UTF-8.                                            *)
NextCharStart(s, i) ==
    Min({j \in i + 1 .. Len(s) + 1 : j = Len(s) + 1 \/ ~IsContinuation(s[j])})

Utf8IsAscii(s) == \A i \in DOMAIN s : s[i] < 128

(* Where the walk by NextCharStart from the first byte stops. *)
CharStarts(s) == {i \in DOMAIN s : i = 1 \/ ~IsContinuation(s[i])}

Utf8Length(s) == IF Utf8IsAscii(s) THEN Len(s) ELSE Cardinality(CharStarts(s))

Utf8Chars(s) ==
    IF Utf8IsAscii(s) THEN [i \in DOMAIN s |-> <<s[i]>>]
    ELSE LET starts == SetToSortSeq(CharStarts(s), <) IN
         [k \in DOMAIN starts |-> SubSeq(s, starts[k], NextCharStart(s, starts[k]) - 1)]

(* Mutant: bytes are taken for characters. *)
ByteAt(s, i) == IF i < Len(s) THEN <<s[i + 1]>> ELSE <<>>

(* The character with i before it; empty when there is none. *)
Utf8CharAt(s, i) ==
    IF Utf8IsAscii(s) THEN IF i < Len(s) THEN <<s[i + 1]>> ELSE <<>>
    ELSE LET at == {b \in CharStarts(s) : Cardinality({a \in CharStarts(s) : a < b}) = i}
         IN IF at = {} THEN <<>>
            ELSE LET b == CHOOSE x \in at : TRUE IN SubSeq(s, b, NextCharStart(s, b) - 1)

LOCAL Tail6(n) == 128 + (n % 64)
Utf8Encode(cp) ==
    IF cp < 128 THEN <<cp>>
    ELSE IF cp < 2048 THEN <<192 + cp \div 64, Tail6(cp)>>
    ELSE IF cp < 65536 THEN <<224 + cp \div 4096, Tail6(cp \div 64), Tail6(cp)>>
    ELSE <<240 + cp \div 262144, Tail6(cp \div 4096), Tail6(cp \div 64), Tail6(cp)>>

(* The code point of the first character, from as many bytes as its lead     *)
(* byte asks for; a lead byte that is none stands for itself.                *)
Utf8DecodeFirst(s) ==
    LET low(i) == s[i] % 64
    IN CASE s = <<>> -> 0
         [] s # <<>> /\ s[1] < 128 -> s[1]
         [] s # <<>> /\ s[1] \in 192 .. 223 /\ Len(s) >= 2 -> (s[1] % 32) * 64 + low(2)
         [] s # <<>> /\ s[1] \in 224 .. 239 /\ Len(s) >= 3 ->
                (s[1] % 16) * 4096 + low(2) * 64 + low(3)
         [] s # <<>> /\ s[1] \in 240 .. 247 /\ Len(s) >= 4 ->
                (s[1] % 8) * 262144 + low(2) * 4096 + low(3) * 64 + low(4)
         [] OTHER -> s[1]

-----------------------------------------------------------------------------
(* String literals *)

LF == 10
CR == 13
Tab == 9
Quote == 34
Backslash == 92
LetterN == 110
LetterR == 114
LetterT == 116
LetterX == 120
SmallU == 117
CapitalU == 85

HexDigit == [c \in (48 .. 57) \cup (65 .. 70) \cup (97 .. 102) |->
                IF c < 58 THEN c - 48 ELSE IF c < 71 THEN c - 55 ELSE c - 87]

(* The number the count bytes from at on spell in hexadecimal, if they do. *)
HexDigits(s, at, count) ==
    LET digits == SubSeq(s, at, at + count - 1) IN
    IF at + count - 1 > Len(s) \/ ~(\A i \in DOMAIN digits : digits[i] \in DOMAIN HexDigit)
    THEN {}
    ELSE {FoldLeft(LAMBDA v, c : 16 * v + HexDigit[c], 0, digits)}

IsEncodable(cp) == cp > 0 /\ cp <= 1114111 /\ cp \notin 55296 .. 57343

EncodeEscapedCodePoint(cp) == IF IsEncodable(cp) THEN Utf8Encode(cp) ELSE <<32>>

(* What the escape whose backslash is at i gives, how far it reaches, and    *)
(* whether the language calls it undefined.                                  *)
Escape(raw, i) ==
    LET next == raw[i + 1]
        plain(out) == [out |-> out, to |-> i + 2, bad |-> 0]
        undefined == [out |-> <<next>>, to |-> i + 2, bad |-> 1]
        coded(count, limit) ==
            LET found == {cp \in HexDigits(raw, i + 2, count) : cp <= limit} IN
            IF found = {} THEN undefined
            ELSE [out |-> EncodeEscapedCodePoint(CHOOSE cp \in found : TRUE),
                  to |-> i + 2 + count, bad |-> 0]
    IN CASE next = LetterN -> plain(<<LF>>)
         [] next = LetterT -> plain(<<Tab>>)
         [] next = LetterR -> plain(<<CR>>)
         [] next = LetterX -> coded(2, 127)
         [] next = SmallU -> coded(4, 16777215)
         [] next = CapitalU -> coded(6, 16777215)
         [] next \in {LF, CR} -> plain(<<>>)
         [] next \in {Backslash, Quote} -> plain(<<next>>)
         [] OTHER -> undefined

RECURSIVE UnescapeFrom(_, _)
UnescapeFrom(raw, i) ==
    LET step == IF raw[i] \in {LF, CR} THEN [out |-> <<>>, to |-> i + 1, bad |-> 0]
                ELSE IF raw[i] # Backslash \/ i = Len(raw)
                     THEN [out |-> <<raw[i]>>, to |-> i + 1, bad |-> 0]
                ELSE Escape(raw, i)
        rest == UnescapeFrom(raw, step.to)
    IN IF i > Len(raw) THEN [text |-> <<>>, undefined |-> 0]
       ELSE [text |-> step.out \o rest.text, undefined |-> step.bad + rest.undefined]

UnescapeStringLiteral(raw) == UnescapeFrom(raw, 1)

-----------------------------------------------------------------------------
(* Printed numbers *)

LOCAL Pow(base, n) == IF n < 0 THEN 1 ELSE base ^ n

(* n * 2^e * 10^s / 2^half as a fraction, the powers of two cancelled. *)
Scaled(n, e, s, half) ==
    LET twos == e + s - half
    IN [num |-> n * Pow(5, s) * Pow(2, twos), den |-> Pow(5, -s) * Pow(2, -twos)]

(* The power of ten of the first digit of p / q, and of n * 2^e. *)
RECURSIVE ExponentOf(_, _)
ExponentOf(p, q) ==
    IF p < q THEN ExponentOf(10 * p, q) - 1
    ELSE IF p >= 10 * q THEN ExponentOf(p, 10 * q) + 1 ELSE 0
Exponent(n, e) == ExponentOf(n * Pow(2, e), Pow(2, -e))

(* The first count digits of a whole number, as a sequence. *)
DigitsOf(n, count) == [i \in 1 .. count |-> (n \div 10 ^ (count - i)) % 10]
NumberOf(d) == LET value[i \in 0 .. Len(d)] == IF i = 0 THEN 0 ELSE 10 * value[i - 1] + d[i]
               IN value[Len(d)]

(* printf's rendering with count digits: exact, correctly rounded, ties to   *)
(* even.                                                                     *)
Rendered(m, e, count) ==
    LET k == Exponent(m, e)
        x == Scaled(m, e, count - 1 - k, 0)
        n == x.num \div x.den
        twice == 2 * (x.num % x.den)
        up == twice > x.den \/ (twice = x.den /\ n % 2 = 1)
        r == IF up THEN n + 1 ELSE n
    IN IF r = 10 ^ count THEN [digits |-> DigitsOf(r \div 10, count), exp10 |-> k + 1]
       ELSE [digits |-> DigitsOf(r, count), exp10 |-> k]

(* The digits from the rendering, and whether the first Digits of them round *)
(* up: the next digit tells, unless it is a 5 followed by zeros, when the    *)
(* exact expansion tells.                                                    *)
ExactSevenDigits(m, e) ==
    LET r == Rendered(m, e, Rendering)
        next == Digits + 1
        tie == r.digits[next] = 5 /\ \A i \in next + 1 .. Rendering : r.digits[i] = 0
        exact == Scaled(m, e, Digits - Exponent(m, e), 0)
    IN [digits |-> r.digits, exp10 |-> r.exp10,
        up |-> IF tie THEN (exact.num \div exact.den) % 10 >= 5 ELSE r.digits[next] >= 5]

(* Whether c / 10^s reads back as the float m * 2^e: it lies between the     *)
(* midpoints to its neighbours, or on one if m is even.                      *)
ReadsBack(c, s, m, e) ==
    LET below == IF m = 2 ^ (Precision - 1) THEN Scaled(4 * m - 1, e, s, 2)
                 ELSE Scaled(2 * m - 1, e, s, 1)
        above == Scaled(2 * m + 1, e, s, 1)
    IN IF m % 2 = 0 THEN below.num <= c * below.den /\ c * above.den <= above.num
       ELSE below.num < c * below.den /\ c * above.den < above.num

(* std::to_chars: the fewest digits that read back, the nearest such.  The   *)
(* digits are those of count, without trailing zeros.                        *)
Shortest(m, e) ==
    LET k == Exponent(m, e)
        of(count) ==
            LET s == count - 1 - k
                x == Scaled(m, e, s, 0)
                n == x.num \div x.den
            IN {c \in {n, n + 1} : ReadsBack(c, s, m, e)}
        count == Min({c \in 1 .. Rendering : of(c) # {}})
        x == Scaled(m, e, count - 1 - k, 0)
        n == x.num \div x.den
        best == IF of(count) = {n} \/ (of(count) = {n, n + 1} /\ 2 * (x.num % x.den) <= x.den)
                THEN n ELSE n + 1
    IN IF best = 10 ^ count THEN [digits |-> <<1>>, exp10 |-> k + 1]
       ELSE [digits |-> DigitsOf(best, count), exp10 |-> k]

(* Mutant: a tie of the shortest rendering is taken for one of the number. *)
ShortestSevenDigitsDecided(m, e) ==
    LET short == Shortest(m, e)
        all == [i \in 1 .. Rendering |->
                   IF i \in DOMAIN short.digits THEN short.digits[i] ELSE 0]
    IN {[digits |-> all, exp10 |-> short.exp10, up |-> all[Digits + 1] >= 5]}

(* The same answer from the shortest rendering: undecided only when that is  *)
(* exactly a tie.                                                            *)
ShortestSevenDigits(m, e) ==
    LET short == Shortest(m, e)
        next == Digits + 1
        all == [i \in 1 .. Rendering |->
                   IF i \in DOMAIN short.digits THEN short.digits[i] ELSE 0]
    IN IF Len(short.digits) = next /\ short.digits[next] = 5 THEN {}
       ELSE {[digits |-> all, exp10 |-> short.exp10, up |-> all[next] >= 5]}

(* The first Digits digits, carried up if they round up.  A subnormal is not *)
(* asked of the shortest rendering.                                          *)
SixDigits(m, e) ==
    LET answer(quick) == IF quick = {} THEN ExactSevenDigits(m, e) ELSE CHOOSE q \in quick : TRUE
        carried(n, exp10) ==
            IF n = 10 ^ Digits THEN [digits |-> DigitsOf(n \div 10, Digits), exp10 |-> exp10 + 1]
            ELSE [digits |-> DigitsOf(n, Digits), exp10 |-> exp10]
        rounded(from) == carried(NumberOf(SubSeq(from.digits, 1, Digits))
                                 + (IF from.up THEN 1 ELSE 0), from.exp10)
    IN rounded(answer(IF m < 2 ^ (Precision - 1) THEN {} ELSE ShortestSevenDigits(m, e)))

-----------------------------------------------------------------------------
(* The text, as a sequence of bytes *)

Minus0 == 45
Point == 46
LetterE == 101
Plus0 == 43
Ascii(d) == [i \in DOMAIN d |-> 48 + d[i]]
Zeros(n) == [i \in 1 .. n |-> 48]

(* The layout of the digits: trailing zeros go, and an exponent is used      *)
(* outside the range where a plain decimal is short.                         *)
Layout(negative, d, e) ==
    LET len == Max({1} \cup {i \in DOMAIN d : d[i] # 0})
        point == e + 1
        kept(from, to) == Ascii(SubSeq(d, from, to))
        whole == Min({point, len})
        sign == IF negative THEN <<Minus0>> ELSE <<>>
        fraction(from) == IF len >= from THEN <<Point>> \o kept(from, len) ELSE <<>>
        power == IF e < 0 THEN -e ELSE e
        width == IF power < 10 THEN 1 ELSE 2
    IN sign \o
       IF point < -LeadZeros \/ point > Digits
       THEN kept(1, 1) \o fraction(2)
            \o <<LetterE, IF e < 0 THEN Minus0 ELSE Plus0>> \o Ascii(DigitsOf(power, width))
       ELSE IF point <= 0 THEN <<48, Point>> \o Zeros(-point) \o kept(1, len)
       ELSE kept(1, whole) \o Zeros(point - whole) \o fraction(point + 1)

(* formatNumber of a float. *)
FormatFloat(negative, m, e) ==
    LET laid(six) == Layout(negative, six.digits, six.exp10) IN laid(SixDigits(m, e))

(* formatNumber of the fraction x, whose digits are exact. *)
LOCAL TenTo(n) == IF n >= 0 THEN Whole(10 ^ n) ELSE <<1, 10 ^ (-n)>>
FormatNumber(x) ==
    IF IsNaN(x) THEN <<110, 97, 110>>
    ELSE IF ~IsFinite(x) THEN IF x = Infinity THEN <<105, 110, 102>> ELSE <<45, 105, 110, 102>>
    ELSE IF x = Zero THEN <<48>>
    ELSE LET size == Magnitude(x)
             k == ExponentOf(size[1], size[2])
             n == FloorOf(Plus(Times(size, TenTo(Digits - 1 - k)), <<1, 2>>))
         IN IF n = 10 ^ Digits THEN Layout(x[1] < 0, DigitsOf(n \div 10, Digits), k + 1)
            ELSE Layout(x[1] < 0, DigitsOf(n, Digits), k)
=============================================================================
