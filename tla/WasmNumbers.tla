----------------------------- MODULE WasmNumbers -----------------------------
(***************************************************************************)
(* The numbers of WebAssembly, scaled down, and what its numeric           *)
(* instructions compute: the reference the emitted code is compared with.  *)
(*                                                                         *)
(* A number is its code, a natural below 2^width.  A byte has ByteBits     *)
(* bits and every type keeps its number of bytes, so an i64 is two i32s.   *)
(* A float is a sign bit above an index into the magnitudes of its type,   *)
(* which ascend as they do in IEEE 754: even steps that double whenever    *)
(* the fraction is full, then infinity, then the NaNs.  Magnitudes are     *)
(* counted in Units of one half of one half.                               *)
(***************************************************************************)
EXTENDS Integers, Sequences, FiniteSetsExt

CONSTANTS ByteBits,      \* the bits of a byte
          Fraction,      \* for "f32" and "f64", the bits of the fraction
          Infinity,      \* for "f32" and "f64", the index of infinity
          Ieee(_, _, _)  \* Ieee(op, type, operands): the rounded result

Unit == 4
Bytes == [i8 |-> 1, i16 |-> 2, i32 |-> 4, i64 |-> 8, f32 |-> 4, f64 |-> 8, v128 |-> 16]
Width(t) == ByteBits * Bytes[t]

ASSUME NumbersAssumption ==
  /\ ByteBits \in {2, 4, 8}
  /\ \A t \in {"f32", "f64"} : /\ Fraction[t] \in 1 .. Width(t)
                               /\ Infinity[t] \in 1 .. 2^(Width(t) - 1) - 2
                               /\ Infinity[t] % 2^Fraction[t] = 0
  /\ Fraction["f32"] < Fraction["f64"]

-----------------------------------------------------------------------------
(* Integers of w bits *)

Wrap(w, x) == x % 2^w
Signed(w, x) == IF x < 2^(w - 1) THEN x ELSE x - 2^w
Least(w) == -(2^(w - 1))
Greatest(w) == 2^(w - 1) - 1
Clamp(lo, hi, x) == IF x < lo THEN lo ELSE IF x > hi THEN hi ELSE x

BitsOf(w, x) == {i \in 0 .. w - 1 : (x \div 2^i) % 2 = 1}
FromBits(S) == MapThenSumSet(LAMBDA i : 2^i, S)
And(w, x, y) == FromBits(BitsOf(w, x) \cap BitsOf(w, y))
Or(w, x, y) == FromBits(BitsOf(w, x) \cup BitsOf(w, y))
Xor(w, x, y) == Or(w, x, y) - And(w, x, y)
Not(w, x) == 2^w - 1 - x

Times(w, x, y) == Wrap(w, Signed(w, x) * Signed(w, y))
Abs(x) == IF x < 0 THEN -x ELSE x
\* Division that truncates towards zero.
Quotient(x, y) == IF (x < 0) = (y < 0) THEN Abs(x) \div Abs(y) ELSE -(Abs(x) \div Abs(y))
LeftBy(w, x, n) == (x % 2^(w - n)) * 2^n
RotateLeft(w, x, n) == LeftBy(w, x, n) + x \div 2^(w - n)

Bit(b) == IF b THEN 1 ELSE 0

\* What an instruction comes to: a value, or the exception it raises.
Value(x) == [trap |-> "none", val |-> x]
Raises(e) == [trap |-> e, val |-> 0]

IntUnary(op, w, x) ==
  LET S == BitsOf(w, x) IN
  CASE op = "clz"    -> IF S = {} THEN w ELSE w - 1 - Max(S)
    [] op = "ctz"    -> IF S = {} THEN w ELSE Min(S)
    [] op = "popcnt" -> Cardinality(S)

IntBinary(op, w, x, y) ==
  LET a == Signed(w, x)
      b == Signed(w, y)
      n == y % w
  IN CASE op = "add"   -> Value(Wrap(w, x + y))
       [] op = "sub"   -> Value(Wrap(w, x - y))
       [] op = "mul"   -> Value(Times(w, x, y))
       [] op = "div_s" -> IF y = 0 THEN Raises("integer divide by zero")
                          ELSE IF a = Least(w) /\ b = -1 THEN Raises("integer overflow")
                          ELSE Value(Wrap(w, Quotient(a, b)))
       [] op = "div_u" -> IF y = 0 THEN Raises("integer divide by zero") ELSE Value(x \div y)
       [] op = "rem_s" -> IF y = 0 THEN Raises("integer divide by zero")
                          ELSE Value(Wrap(w, a - b * Quotient(a, b)))
       [] op = "rem_u" -> IF y = 0 THEN Raises("integer divide by zero") ELSE Value(x % y)
       [] op = "and"   -> Value(And(w, x, y))
       [] op = "or"    -> Value(Or(w, x, y))
       [] op = "xor"   -> Value(Xor(w, x, y))
       [] op = "shl"   -> Value(LeftBy(w, x, n))
       [] op = "shr_s" -> Value(Wrap(w, a \div 2^n))
       [] op = "shr_u" -> Value(x \div 2^n)
       [] op = "rotl"  -> Value(RotateLeft(w, x, n))
       [] op = "rotr"  -> Value(RotateLeft(w, x, (w - n) % w))

IntHolds(op, w, x, y) ==
  LET a == Signed(w, x)
      b == Signed(w, y)
  IN CASE op = "eqz"  -> x = 0
       [] op = "eq"   -> x = y
       [] op = "ne"   -> x # y
       [] op = "lt_s" -> a < b
       [] op = "lt_u" -> x < y
       [] op = "gt_s" -> a > b
       [] op = "gt_u" -> x > y
       [] op = "le_s" -> a <= b
       [] op = "le_u" -> x <= y
       [] op = "ge_s" -> a >= b
       [] op = "ge_u" -> x >= y

Extended(from, to, x) == Wrap(to, Signed(from, x))

-----------------------------------------------------------------------------
(* Floats of type t *)

SignBit(t) == 2^(Width(t) - 1)
Negative(t, c) == c >= SignBit(t)
Index(t, c) == c % SignBit(t)
Negated(t, c) == (c + SignBit(t)) % 2^Width(t)
IsNaN(t, c) == Index(t, c) > Infinity[t]
IsInfinite(t, c) == Index(t, c) = Infinity[t]
NaN(t) == Infinity[t] + 2^(Fraction[t] - 1)
SameFloat(t, c, d) == c = d \/ (IsNaN(t, c) /\ IsNaN(t, d))

\* The size of a finite float, and its value with infinity beyond all others.
Magnitude(t, i) ==
  LET f == 2^Fraction[t]
  IN  IF i < f THEN i ELSE (f + (i % f)) * 2^(i \div f - 1)
Beyond == 2^30
Number(t, c) ==
  LET m == IF IsInfinite(t, c) THEN Beyond ELSE Magnitude(t, Index(t, c))
  IN  IF Negative(t, c) THEN -m ELSE m
\* The integer towards zero.
Truncated(t, c) == Quotient(Number(t, c), Unit)

\* The float nearest to x units, the even one of two.
Nearest(t, negative, x) ==
  LET f == 2^Fraction[t]
      e == Min({k \in 0 .. 30 : x \div 2^k < 2 * f})
      m == x \div 2^e
      r == 2 * (x % 2^e)
      up == r > 2^e \/ (r = 2^e /\ m % 2 = 1)
      i == e * f + m + Bit(up)
  IN  Min({i, Infinity[t]}) + (IF negative THEN SignBit(t) ELSE 0)
FromInteger(t, n) == Nearest(t, n < 0, Unit * Abs(n))

Lower(t, c, d) == Number(t, c) < Number(t, d)
FloatHolds(op, t, c, d) ==
  IF IsNaN(t, c) \/ IsNaN(t, d) THEN op = "ne"
  ELSE CASE op = "eq" -> Number(t, c) = Number(t, d)
         [] op = "ne" -> Number(t, c) # Number(t, d)
         [] op = "lt" -> Lower(t, c, d)
         [] op = "gt" -> Lower(t, d, c)
         [] op = "le" -> ~Lower(t, d, c)
         [] op = "ge" -> ~Lower(t, c, d)

\* Of two equal numbers only zeros can differ, and -0 is the smaller one.
Smaller(t, c, d) == Lower(t, c, d) \/ (Number(t, c) = Number(t, d) /\ Negative(t, c))
FloatBinary(op, t, c, d) ==
  CASE op \in {"min", "max"} /\ (IsNaN(t, c) \/ IsNaN(t, d)) -> NaN(t)
    [] op = "min" -> IF Smaller(t, c, d) THEN c ELSE d
    [] op = "max" -> IF Smaller(t, c, d) THEN d ELSE c
    [] op = "pmin" -> IF FloatHolds("lt", t, d, c) THEN d ELSE c
    [] op = "pmax" -> IF FloatHolds("lt", t, c, d) THEN d ELSE c
    [] op = "copysign" -> Index(t, c) + (IF Negative(t, d) THEN SignBit(t) ELSE 0)
    [] OTHER -> Ieee(op, t, <<c, d>>)

FloatUnary(op, t, c) ==
  CASE op = "abs" -> Index(t, c)
    [] op = "neg" -> Negated(t, c)
    [] OTHER -> Ieee(op, t, <<c>>)

-----------------------------------------------------------------------------
(* Conversions *)

Fitting(sign, w) == IF sign = "s" THEN Least(w) .. Greatest(w) ELSE 0 .. 2^w - 1
AsSigned(sign, w, x) == IF sign = "s" THEN Signed(w, x) ELSE x

Trunc(sign, w, t, c) ==
  IF IsNaN(t, c) THEN Raises("invalid conversion to integer")
  ELSE IF Truncated(t, c) \notin Fitting(sign, w) THEN Raises("integer overflow")
  ELSE Value(Wrap(w, Truncated(t, c)))

TruncSat(sign, w, t, c) ==
  IF IsNaN(t, c) THEN 0
  ELSE IF sign = "s" THEN Wrap(w, Clamp(Least(w), Greatest(w), Truncated(t, c)))
  ELSE Clamp(0, 2^w - 1, Truncated(t, c))

Convert(sign, w, t, x) == FromInteger(t, AsSigned(sign, w, x))

\* The float of another type with the same value, rounded when it has none.
Recast(from, to, c) ==
  IF IsNaN(from, c) THEN NaN(to)
  ELSE Nearest(to, Negative(from, c), Abs(Number(from, c)))
=============================================================================
