------------------------------ MODULE IntMath ------------------------------
(***************************************************************************)
(* The integer and fixed-point functions of src/src/util/intmath.c and, at   *)
(* the end, the conversions of the integer types and bytes of memory.  The   *)
(* width of a word is a parameter, as is that of the Q1.15 samples of the    *)
(* curve functions and the step between SI prefixes, so that all inputs of   *)
(* a small instance can be enumerated.  Results wrap as the C types do.      *)
(***************************************************************************)
EXTENDS Integers, Sequences, SequencesExt

CONSTANTS
    W,           \* bits of unsigned and unsigned long, 32 in the code
    B,           \* bits of a sample, 16 in the code
    Margin,      \* the distance bezier_search_t is content with, 5 in the code
    Thousand,    \* the step between SI prefixes, 1000 in the code
    Kibi         \* the step between computer units, 1024 in the code

ASSUME IntMathAssumption ==
    /\ {W, B, Margin, Thousand, Kibi} \subseteq Nat
    /\ W >= 8 /\ B >= 4 /\ Thousand > 1 /\ Kibi > 1

Unsigned(x) == x % 2^W

\* A signed result of 2*B bits, as int32_t beside int16_t.
Signed(x, bits) == LET u == x % 2^bits IN IF u >= 2^(bits - 1) THEN u - 2^bits ELSE u

\* Division of C: towards zero.
Quot(a, b) == IF (a < 0) = (b < 0) THEN (IF a < 0 THEN -a ELSE a) \div (IF b < 0 THEN -b ELSE b)
              ELSE -((IF a < 0 THEN -a ELSE a) \div (IF b < 0 THEN -b ELSE b))

Abs(x) == IF x < 0 THEN -x ELSE x

----------------------------------------------------------------------------
(* Powers and logarithms.                                                  *)
\* Halving the position of the first one bit; 0 has W leading zeros.
clz(x) ==
    LET narrow(s, k) == IF s.x \div 2^k > 0 THEN [n |-> s.n - k, x |-> s.x \div 2^k] ELSE s
        s == FoldLeft(narrow, [n |-> W, x |-> x], <<16, 8, 4, 2>>)
    IN  IF s.x \div 2 > 0 THEN s.n - 2 ELSE s.n - s.x

\* The power is taken of x itself: a power of two becomes the next one.
CeilPow2Next(x) == 2^(W - clz(x))

ceil_pow2(x) == 2^(W - clz(x - 1))

floor_pow2(x) == 2^(W - 1 - clz(x))

\* log2(1 + n/64) * 2^15
Log2Table ==
  << 0,      733,    1455,   2166,   2866,   3556,   4236,   4907,   5568,   6220,
     6863,   7498,   8124,   8742,   9352,   9954,   10549,  11136,  11716,  12289,
     12855,  13415,  13968,  14514,  15055,  15589,  16117,  16639,  17156,  17667,
     18173,  18673,  19168,  19658,  20143,  20623,  21098,  21568,  22034,  22495,
     22952,  23404,  23852,  24296,  24736,  25172,  25604,  26031,  26455,  26876,
     27292,  27705,  28114,  28520,  28922,  29321,  29717,  30109,  30498,  30884,
     31267,  31647,  32024,  32397,  32768 >>

\* The leading bits pick a table entry, the following ones interpolate to the next.
log2_fixed(n, fp_exp) ==
    LET zeros == clz(n)
        frac  == Unsigned(n * 2^(zeros + 1))
        ix    == frac \div 2^(W - 6)
        rest  == ((frac * 64) % 2^W) \div 2^(W - 15)
        low   == Log2Table[ix + 1]
        part  == ((Log2Table[ix + 2] - low) * rest) \div 2^15 + low
    IN  (W - 1 - fp_exp - zeros) * 2^15 + part

\* The estimate from the leading zeros of a 32-bit word, corrected by the threshold.
Log10Estimate ==
  << 9,9,9, 8,8,8, 7,7,7, 6,6,6,6, 5,5,5, 4,4,4, 3,3,3,3, 2,2,2, 1,1,1, 0,0,0,0 >>

ilog10(n) ==
    LET corrected(log) == IF n < 10^log THEN log - 1 ELSE log
    IN  corrected(Log10Estimate[clz(n) + (32 - W) + 1])

base10_digits(n) == IF n = 0 THEN 1 ELSE ilog10(n) + 1

ilog_b(n, base) ==
    LET log[r \in 0..n] == IF r > base - 1 THEN 1 + log[r \div base] ELSE 0 IN log[n]

----------------------------------------------------------------------------
(* Fixed point in any base, in base 10, and with an SI prefix.             *)
ufixed_to_uint(fp_value, fp_scale) == Unsigned(fp_value + fp_scale \div 2) \div fp_scale

fixed_to_int(fp_value, fp_scale) ==
    LET half == fp_scale \div 2
    IN  Quot(fp_value + (IF fp_value < 0 THEN -half ELSE half), fp_scale)

\* Whole and fractional parts of one sign, and the number of fractional digits.
to_fixed_base10_parts(value, fp_scale) ==
    LET whole  == Quot(value, fp_scale)
        digits == base10_digits(fp_scale - 1)
        frac   == (Abs(value - whole * fp_scale) * 10^digits + fp_scale \div 2) \div fp_scale
    IN  IF fp_scale <= 1 THEN [integer |-> value, frac |-> 0, digits |-> 0]
        ELSE [integer |-> whole, frac |-> IF value < 0 THEN -frac ELSE frac, digits |-> digits]

\* The sign of the result is that of the whole part as adjusted, and the carry of the
\* branch with places is always upwards: both as in the code.
fixed_base10_adjust(p, places) ==
    LET frac    == Abs(p.frac)
        kept    == IF p.digits > places + 1 THEN places + 1 ELSE p.digits
        cut     == frac \div 10^(p.digits - kept)
        result(i, f, d) == [integer |-> i, frac |-> IF i < 0 THEN -f ELSE f, digits |-> d]
    IN  CASE places > 0 /\ kept <= places -> result(p.integer, cut, kept)
          [] places > 0 /\ kept > places /\ cut + 5 > 10^p.digits -> result(p.integer + 1, 0, 0)
          [] places > 0 /\ kept > places /\ cut + 5 <= 10^p.digits ->
                 result(p.integer, (cut + 5) \div 10, kept - 1)
          [] places = 0 ->
                 result(IF frac + 10^p.digits \div 2 >= 10^p.digits
                        THEN p.integer + (IF p.integer < 0 THEN -1 ELSE 1) ELSE p.integer, 0, 0)
          [] places < 0 -> result(p.integer, frac, p.digits)

\* The parts with the places asked for, and put together.
AdjustedParts(parts, places) == IF places >= 0 THEN fixed_base10_adjust(parts, places) ELSE parts

Joined(p) == [value |-> p.integer * 10^p.digits + p.frac, exp |-> -p.digits]

to_fixed_base10(value, fp_scale, places) ==
    Joined(AdjustedParts(to_fixed_base10_parts(value, fp_scale), places))

SiPrefixes == <<"a", "f", "p", "n", "u", "m", "", "k", "M", "G", "T", "P", "E">>

\* The prefix whose range holds the value, the last one if none does; the range is a
\* product that may wrap.
to_fixed_si(value, value_exp, fp_scale, pow2) ==
    LET step  == IF value_exp = 0 /\ pow2 THEN Kibi ELSE Thousand
        third == Quot(value_exp, 3)
        scaled == Abs(value) * 10^(IF value_exp > 3 * third THEN value_exp - 3 * third ELSE 0)
        min(k) == Unsigned(step^(k - 7 - third))
        fits(k) == scaled < min(k + 1) \/ k = 13
        first == CHOOSE k \in (7 + third)..13 : fits(k) /\ \A j \in (7 + third)..(k - 1) : ~fits(j)
        fixed == (scaled * fp_scale + min(first) \div 2) \div min(first)
    IN  [value |-> IF value < 0 THEN -fixed ELSE fixed, prefix |-> SiPrefixes[first], min |-> min(first)]

----------------------------------------------------------------------------
(* The square root.                                                        *)
isqrt_fixed(fp_value, fp_exp) ==
    LET integer_bits == W - fp_exp
        adj  == integer_bits \div 2
        aux  == IF adj >= 2 THEN 2 ELSE adj
        step(s, b) ==
            LET t == Unsigned(s.q + 2^b)
            IN  IF s.r >= t THEN [r |-> Unsigned((s.r - t) * 2), q |-> Unsigned(t + 2^b)]
                ELSE [s EXCEPT !.r = Unsigned(@ * 2)]
        \* b runs from 2^(W-2) down to the last power above end_b
        bits == [i \in 1..(W - 2 - (adj - aux)) |-> W - 1 - i]
        last == FoldLeft(step, [r |-> fp_value, q |-> 0], bits)
    IN  last.q \div 2^adj + (IF last.r > last.q THEN 1 ELSE 0)

----------------------------------------------------------------------------
(* Interpolation and quadratic curves over samples of B bits.              *)
lin_interp(a0, a1, t) == Signed(a0 + Signed(t * (a1 - a0), 2 * B) \div 2^B, B)

interpolate_points(p0, p1, t) ==
    [x |-> lin_interp(p0.x, p1.x, t), y |-> lin_interp(p0.y, p1.y, t)]

quadratic_eval(a, b, c, t) ==
    LET square == Signed((Signed((a - 2 * b + c) * t, 2 * B) \div 2^B) * t, 2 * B) \div 2^B
        linear == Signed((b - a) * t, 2 * B) \div 2^(B - 1)
    IN  Signed(square + linear + a, B)

quadratic_bezier(p0, p1, p2, t) ==
    [x |-> quadratic_eval(p0.x, p1.x, p2.x, t), y |-> quadratic_eval(p0.y, p1.y, p2.y, t)]

\* The search over t, step by step: the bounds are unsigned and wrap.  -1 stands for a
\* search that has not ended after twice the halvings there are: it never returns.
bezier_search_t(x0, x1, x2, x) ==
    LET mid(s)   == s.low + (s.high - s.low) \div 2
        delta(s) == Signed(quadratic_eval(x0, x1, x2, mid(s)) - x, B)
        near(s)  == -Margin < delta(s) /\ delta(s) < Margin
        move(s)  == CASE s.done \/ s.low > s.high -> [s EXCEPT !.done = TRUE]
                      [] ~s.done /\ s.low <= s.high /\ near(s) ->
                             [low |-> mid(s), high |-> mid(s), done |-> TRUE]
                      [] ~s.done /\ s.low <= s.high /\ ~near(s) /\ delta(s) > 0 ->
                             [s EXCEPT !.high = (mid(s) - 1) % 2^B]
                      [] ~s.done /\ s.low <= s.high /\ ~near(s) /\ delta(s) <= 0 ->
                             [s EXCEPT !.low = (mid(s) + 1) % 2^B]
        last == FoldLeft(LAMBDA s, i : move(s), [low |-> 0, high |-> 2^B - 1, done |-> FALSE],
                         [i \in 1..(2 * B + 4) |-> i])
    IN  IF last.done THEN last.low ELSE -1

\* The positive root, through a square root with an even number of fraction bits.
quadratic_solve(a, b, c) ==
    LET b_sq == ((b * b) % 2^(2 * B)) \div 2^(B - 1)
        f_ac == 4 * (Signed(a * c, 2 * B) \div 2^(B - 1))
        det  == b_sq - f_ac
        root == Quot(Signed((2 * isqrt_fixed(det \div 2, B - 2) - b) * 2^(B - 1), 2 * B), a)
    IN  IF det < 0 \/ root < 0 THEN 0 ELSE IF root > 2^B - 1 THEN 2^B - 1 ELSE root

bezier_solve_t(x0, x1, x2, x) == quadratic_solve(x0 - 2 * x1 + x2, 2 * (x1 - x0), x0 - x)

----------------------------------------------------------------------------
(* Reference definitions.                                                  *)
\* The powers bracket x, and the logarithms are those of the bracketing powers.
PowersAgree(x, base) ==
    /\ x > 1 /\ 2 * x <= 2^W => ceil_pow2(x) >= x /\ ceil_pow2(x) < 2 * x
    /\ floor_pow2(x) <= x /\ x < 2 * floor_pow2(x)
    /\ 10^ilog10(x) <= x /\ x < 10^(ilog10(x) + 1)
    /\ base^ilog_b(x, base) <= x /\ x < base^(ilog_b(x, base) + 1)

\* The fixed-point logarithm grows with its argument, is exact at the powers of two and
\* moves by one for every factor of two or bit of fraction.
LogAgrees(x, fp_exp) ==
    /\ x + 1 < 2^W => log2_fixed(x, fp_exp) <= log2_fixed(x + 1, fp_exp)
    /\ log2_fixed(floor_pow2(x), fp_exp) = (W - 1 - clz(x) - fp_exp) * 2^15
    /\ 2 * x < 2^W => log2_fixed(2 * x, fp_exp + 1) = log2_fixed(x, fp_exp)

\* The root is the nearest fixed-point number, or the one next to it, up to a quarter of
\* the range; above it the remainder is shifted out of the word and the root too small.
RootAgrees(x, fp_exp) ==
    LET q == isqrt_fixed(x, fp_exp)
        y == x * 2^fp_exp
    IN  /\ q > 0 => (q - 1) * (q - 1) <= y
        /\ x <= 2^(W - 2) => y < (q + 1) * (q + 1)

\* What the sign bugs of fixed_base10_adjust hit: a negative value with no whole part,
\* or one whose fraction rounds up into the whole part, when places are asked for.
SignIsLost(value, fp_scale, places) ==
    /\ value < 0 /\ places >= 0
    /\ \E p \in {to_fixed_base10_parts(value, fp_scale)} :
          p.integer = 0 \/ (places > 0 /\ fixed_base10_adjust(p, places).integer # p.integer)

\* A number in base 10 is within half a unit of its last place, two roundings apart.
Base10Agrees(value, fp_scale, places) ==
    \A r \in {to_fixed_base10(value, fp_scale, places)} :
        /\ places >= 0 => -r.exp <= places \/ places = 0
        /\ ~SignIsLost(value, fp_scale, places) =>
              5 * Abs(r.value * fp_scale - value * 10^(-r.exp)) <= 3 * fp_scale

\* A value with an SI prefix is within half a unit of the scale, and below the next
\* prefix: as long as the range of that prefix fits a word and the exponent is not a
\* negative one that is no multiple of three, which the code does not scale.
PrefixAgrees(value, value_exp, fp_scale, pow2) ==
    LET r == to_fixed_si(value, value_exp, fp_scale, pow2)
        step == IF value_exp = 0 /\ pow2 THEN Kibi ELSE Thousand
        scaled == IF value_exp >= 0 THEN value * 10^(value_exp % 3) ELSE value
    IN  Abs(scaled) * step < 2^W =>
          /\ r.min > 0 /\ 2 * Abs(r.value * r.min - scaled * fp_scale) <= r.min
          /\ r.prefix # "E" => Abs(r.value) <= step * fp_scale
          /\ Abs(scaled) >= r.min \/ r.min = 1

\* An interpolated value lies between its end points where their distance fits a sample.
InterpolationAgrees(a, c, t) ==
    LET v == lin_interp(a, c, t)
    IN  Abs(c - a) < 2^(B - 1) =>
          /\ (IF a <= c THEN a ELSE c) <= v /\ v <= (IF a <= c THEN c ELSE a)
          /\ lin_interp(a, c, 0) = a

\* On a monotonic curve whose polynomial fits a sample, the search for a point between
\* its ends returns a parameter whose point is within the margin, or between two whose
\* points enclose the one searched for.
CurveSearchAgrees(x0, x1, x2, x) ==
    LET t == bezier_search_t(x0, x1, x2, x)
        at(u) == quadratic_eval(x0, x1, x2, u)
    IN  /\ x0 <= x1 /\ x1 <= x2 /\ x2 - x0 < 2^(B - 2)
        /\ x0 < x /\ x < at(2^B - 1)
        => t >= 0 /\ (Abs(at(t) - x) < Margin \/ (t > 0 /\ at(t - 1) <= x /\ x <= at(t)))

-----------------------------------------------------------------------------
(* Integers kept at unaligned addresses: src/include/util/unaligned_access.h  *)
(* and the type-directed min and max of src/include/util/minmax.h.  A byte    *)
(* has Radix values (256 in the code); memory is a sequence of bytes, and     *)
(* the machine stores the least significant byte first.                       *)
CONSTANT Radix

ASSUME RadixAssumption == Radix \in Nat /\ Radix >= 2 /\ Radix % 2 = 0

Byte == 0 .. Radix - 1

\* The value a type of n bytes gives to number x: the conversion of C.
Converted(x, n, signed) ==
    LET u == x % Radix^n
    IN  IF signed /\ 2 * u >= Radix^n THEN u - Radix^n ELSE u

\* (T)bdata[i] << 8*k, all k: the terms share no bits, so the sum is their OR.
LOCAL Gathered(bytes, place(_)) ==
    FoldLeft(LAMBDA v, i : v + bytes[i] * Radix^place(i), 0, [i \in DOMAIN bytes |-> i])

\* (value >> 8*k) & 0xFF
LOCAL ByteAt(value, k) == (value \div Radix^k) % Radix

get_unaligned_le(bytes, n, signed) ==
    Converted(Gathered(SubSeq(bytes, 1, n), LAMBDA i : i - 1), n, signed)

\* The least significant byte is taken from the front.
GetBeBackwards(bytes, n, signed) == get_unaligned_le(bytes, n, signed)

get_unaligned_be(bytes, n, signed) ==
    Converted(Gathered(SubSeq(bytes, 1, n), LAMBDA i : n - i), n, signed)

set_unaligned_le(value, n) == [i \in 1..n |-> ByteAt(value, i - 1)]

set_unaligned_be(value, n) == [i \in 1..n |-> ByteAt(value, n - i)]

\* memcpy of the object representation.
get_unaligned(bytes, n, signed) == get_unaligned_le(bytes, n, signed)

set_unaligned(value, n) == set_unaligned_le(Converted(value, n, FALSE), n)

----------------------------------------------------------------------------
(* The six functions of each type; "result" is the type get returns.       *)
LOCAL Type(n, signed) == [size |-> n, signed |-> signed, result |-> n]

u16 == Type(2, FALSE)
s16 == Type(2, TRUE)
u32 == Type(4, FALSE)
s32 == Type(4, TRUE)
u64 == [Type(8, FALSE) EXCEPT !.result = 4]    \* get_unaligned_u64 returns uint32_t
s64 == Type(8, TRUE)

\* What get_unaligned_<type> hands to its caller.
Got(bytes, type) ==
    Converted(get_unaligned(bytes, type.size, type.signed), type.result, type.signed)

\* The numbers of a type.
Fits(x, type) == x = Converted(x, type.size, type.signed)

----------------------------------------------------------------------------
\* min and max of the generic macros: the type of the first argument picks the
\* function, and both arguments are converted to it.
MinOf(a, b, type) ==
    LET y == Converted(b, type.size, type.signed) IN IF a <= y THEN a ELSE y

MaxOf(a, b, type) ==
    LET y == Converted(b, type.size, type.signed) IN IF a >= y THEN a ELSE y

----------------------------------------------------------------------------
\* A value written in either order reads back, the orders mirror each other, and the
\* native order is the little-endian one.  get_unaligned_u64 keeps only the lower half.
RoundTrips(x, type) ==
    LET n == type.size IN
    Fits(x, type) =>
        /\ get_unaligned_be(set_unaligned_be(x, n), n, type.signed) = x
        /\ get_unaligned_le(set_unaligned_le(x, n), n, type.signed) = x
        /\ set_unaligned_be(x, n) = Reverse(set_unaligned_le(x, n))
        /\ Got(set_unaligned(x, n), type)
              = IF type = u64 THEN x % Radix^4 ELSE x

\* min and max are the smaller and the larger of their arguments when the second fits
\* the type of the first, and otherwise still one of them as converted.
MinMaxAgree(a, b, type) ==
    LET lo == MinOf(a, b, type)
        hi == MaxOf(a, b, type)
    IN  /\ lo <= a /\ a <= hi /\ Fits(lo, type) /\ Fits(hi, type)
        /\ Fits(b, type) => lo <= b /\ b <= hi /\ {lo, hi} = {a, b}

=============================================================================
