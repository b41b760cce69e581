------------------------------ MODULE AotVector ------------------------------
(***************************************************************************)
(* The LLVM instructions the compiler emits for the SIMD instructions      *)
(* (simd/*.c), and what they compute.  In LLVM a vector is a function from *)
(* lane numbers to numbers; on the operand stack it is its bytes.          *)
(***************************************************************************)
EXTENDS AotScalar, WasmVectors

\* The bitcasts around every instruction, from and to the operand stack.
Cast(l, v) == [i \in LaneIds(l) |-> Lane(l, v, i)]
Push(l, s) == Vector(l, LAMBDA i : s[i])

\* shufflevector, insertelement and a splat; k lanes of a vector from lane j on.
ShuffleVector(s, t, mask) ==
  LET n == Cardinality(DOMAIN s)
  IN  [i \in DOMAIN mask |-> IF mask[i] < n THEN s[mask[i]] ELSE t[mask[i] - n]]
InsertElement(s, x, i) == [s EXCEPT ![i] = x]
SplatConst(x, n) == [i \in 0 .. n - 1 |-> x]
Undef(l) == SplatConst(Poison, LaneCount(l))
From(j, k) == [i \in 0 .. k - 1 |-> j + i]
Each(s, F(_)) == [i \in DOMAIN s |-> F(s[i])]
Both(s, t, F(_, _)) == [i \in DOMAIN s |-> F(s[i], t[i])]

-----------------------------------------------------------------------------
(* Access to lanes *)

SimdShuffle(u, v, ids) ==
  Push("i8", ShuffleVector(Cast("i8", u), Cast("i8", v), [i \in 0 .. 15 |-> ids[i + 1]]))

\* pshufb takes the low bits of an index whose highest bit is clear.
PShufB(s, m) == [i \in DOMAIN m |-> IF m[i] >= 128 THEN 0 ELSE s[m[i] % 16]]
SwizzleX86Unguarded(v, ids) == Push("i8", PShufB(Cast("i8", v), Cast("i8", ids)))
SwizzleX86(v, ids) ==
  Push("i8", PShufB(Cast("i8", v), Each(Cast("i8", ids), LAMBDA m : IF m >= 16 THEN 128 ELSE m)))
SwizzleCommon(v, ids) ==
  LET out == Each(Cast("i8", ids), LAMBDA m : m >= 16)
      idx == Each(Cast("i8", ids), LAMBDA m : IF m >= 16 THEN 0 ELSE m)
  IN  Push("i8", [i \in 0 .. 15 |-> IF out[i] THEN 0 ELSE Cast("i8", v)[idx[i]]])
SimdSwizzle(x86, v, ids) == IF x86 THEN SwizzleX86(v, ids) ELSE SwizzleCommon(v, ids)

SimdExtract(l, sign, v, i) ==
  LET x == Cast(l, v)[i]
  IN  IF l \in {"i8", "i16"} THEN Extend(sign, Width(l), Width("i32"), x) ELSE x
Reduced(l, x) == IF l \in {"i8", "i16"} THEN Wrap(Width(l), x) ELSE x
SimdReplace(l, v, i, x) == Push(l, InsertElement(Cast(l, v), Reduced(l, x), i))
SimdSplat(l, x) ==
  LET base == InsertElement(Undef(l), Reduced(l, x), 0)
  IN  Push(l, ShuffleVector(base, Undef(l), SplatConst(0, LaneCount(l))))

-----------------------------------------------------------------------------
(* Shifts, masks, bits *)

ShiftMask(l) == Width(l) - 1
SimdShift(l, op, v, n) ==
  LET masked == And(Width("i32"), n, ShiftMask(l))
      count  == IF Bytes[l] < 4 THEN Wrap(Width(l), masked) ELSE masked
      w      == Width(l)
  IN  Push(l, Each(Cast(l, v), LAMBDA x :
        CASE op = "shl" -> Shl(w, x, count) [] op = "shr_s" -> AShr(w, x, count)
          [] op = "shr_u" -> LShr(w, x, count)))

\* The sign fills the lane, and lane i keeps bit i of it.
SimdBitmask(l, v) ==
  LET filled == Each(Cast(l, v), LAMBDA x : AShr(Width(l), x, Width(l) - 1))
  IN  FromBits({i \in LaneIds(l) : i \in BitsOf(Width("i64"), Extended(Width(l), Width("i64"), filled[i]))})
SimdAllTrue(l, v) == Bit(\A i \in LaneIds(l) : Cast(l, v)[i] # 0)
SimdAnyTrue(v) == Bit(\E i \in LaneIds("i8") : BitsOf(ByteBits, Cast("i8", v)[i]) # {})

SimdBitwise(op, u, v, c) ==
  LET w == Width("i64")
      and(x, y) == Both(x, y, LAMBDA p, q : And(w, p, q))
      or(x, y)  == Both(x, y, LAMBDA p, q : Or(w, p, q))
      not(x)    == Each(x, LAMBDA p : Not(w, p))
      a == Cast("i64", u)
      b == Cast("i64", v)
      m == Cast("i64", c)
  IN  Push("i64",
        CASE op = "not" -> not(a)
          [] op = "and" -> and(a, b)
          [] op = "andnot" -> and(a, not(b))
          [] op = "or"  -> or(a, b)
          [] op = "xor" -> Both(a, b, LAMBDA p, q : Xor(w, p, q))
          [] op = "bitselect" -> or(and(a, m), and(b, not(m))))

-----------------------------------------------------------------------------
(* Arithmetic and comparisons, lane by lane *)

SignExtendedBit(w, b) == Wrap(w, IF b THEN -1 ELSE 0)
SimdIntCompare(op, w, x, y) == SignExtendedBit(w, IntHolds(op, w, x, y))
SimdFloatCompare(op, t, x, y) == SignExtendedBit(Width(t), FloatCompare(op, t, x, y) = 1)

\* One of the operands, chosen by a comparison.
Chosen(cmp, w, x, y) == IF IntHolds(cmp, w, x, y) THEN x ELSE y
IntMinMax(op, w, x, y) ==
  CASE op = "min_s" -> Chosen("lt_s", w, x, y) [] op = "min_u" -> Chosen("lt_u", w, x, y)
    [] op = "max_s" -> Chosen("gt_s", w, x, y) [] op = "max_u" -> Chosen("gt_u", w, x, y)

\* llvm.sadd.sat and its like.
SatArith(op, w, x, y) ==
  CASE op = "add_sat_s" -> SatS(w, Signed(w, x) + Signed(w, y))
    [] op = "sub_sat_s" -> SatS(w, Signed(w, x) - Signed(w, y))
    [] op = "add_sat_u" -> SatU(w, x + y)
    [] op = "sub_sat_u" -> SatU(w, x - y)

\* In i64 lanes the sum of three cannot wrap.
Avgr(w, x, y) ==
  LET sum == Wrap(Width("i64"), Wrap(Width("i64"), x + y) + 1)
  IN  Wrap(w, LShr(Width("i64"), sum, 1))

\* llvm.smin and llvm.smax of type f over lanes of type l.
Saturated(f, l, lo, hi, x) == IF f # l THEN Poison ELSE Clamp(lo, hi, x)

\* In i32 lanes, rounded, shifted and saturated.
Q15Mulr(w, x, y) ==
  LET wide == Width("i32")
      prod == Times(wide, Extended(w, wide, x), Extended(w, wide, y))
      sum  == Wrap(wide, prod + 2^(w - 2))
      high == AShr(wide, sum, w - 1)
  IN  Wrap(w, Saturated("i32", "i32", Least(w), Greatest(w), Signed(wide, high)))

SimdIntArith(op, w, x, y) ==
  CASE op \in Comparisons -> SimdIntCompare(op, w, x, y)
    [] op \in {"min_s", "min_u", "max_s", "max_u"} -> IntMinMax(op, w, x, y)
    [] op \in {"add_sat_s", "add_sat_u", "sub_sat_s", "sub_sat_u"} -> SatArith(op, w, x, y)
    [] op = "avgr_u" -> Avgr(w, x, y)
    [] op = "q15mulr_sat_s" -> Q15Mulr(w, x, y)
    [] op = "add" -> Wrap(w, x + y)
    [] op = "sub" -> Wrap(w, x - y)
    [] op = "mul" -> Times(w, x, y)

\* The later of the selects win: NaN of the right, NaN of the left, order, bits.
Selected(less, t, x, y, equal) ==
  IF IsNaN(t, y) THEN y
  ELSE IF IsNaN(t, x) THEN x
  ELSE IF Number(t, x) = Number(t, y) THEN equal
  ELSE IF Lower(t, x, y) = less THEN x ELSE y
SimdFloatMin(t, x, y) == Selected(TRUE, t, x, y, Or(Width(t), x, y))
SimdFloatMax(t, x, y) == Selected(FALSE, t, x, y, And(Width(t), x, y))
SimdFloatCmp(op, t, x, y) ==
  IF FloatCompare(IF op = "pmin" THEN "lt" ELSE "gt", t, y, x) = 1 THEN y ELSE x

SimdFloatArith(op, t, x, y) ==
  CASE op \in Comparisons -> SimdFloatCompare(op, t, x, y)
    [] op = "min" -> SimdFloatMin(t, x, y)
    [] op = "max" -> SimdFloatMax(t, x, y)
    [] op \in {"pmin", "pmax"} -> SimdFloatCmp(op, t, x, y)
    [] OTHER -> Ieee(op, t, <<x, y>>)

SimdBinary(l, op, u, v) ==
  Push(l, Both(Cast(l, u), Cast(l, v), LAMBDA x, y :
            IF IsFloat(l) THEN SimdFloatArith(op, l, x, y)
            ELSE SimdIntArith(op, Width(l), x, y)))

\* llvm.abs, whose least integer is not poison.
SimdAbs(w, x) == IF Signed(w, x) < 0 THEN Wrap(w, -x) ELSE x
\* A negation and llvm.ctpop.
SimdIntUnary(op, w, x) ==
  CASE op = "abs" -> SimdAbs(w, x)
    [] op = "neg" -> Wrap(w, 0 - x)
    [] op = "popcnt" -> IntBitCount("popcnt", w, x)
SimdUnary(l, op, v) ==
  Push(l, Each(Cast(l, v), LAMBDA x : IF IsFloat(l) THEN FloatMath(op, l, x)
                                      ELSE SimdIntUnary(op, Width(l), x)))

-----------------------------------------------------------------------------
(* Conversions from lanes of type f to lanes of type l *)

\* The packing instructions of x86 saturate signed lanes.
NarrowX86(f, l, sign, u, v) ==
  LET sat(x) == IF sign = "s" THEN SatS(Width(l), Signed(Width(f), x))
                ELSE SatU(Width(l), Signed(Width(f), x))
  IN  Push(l, [i \in LaneIds(l) |-> IF i < LaneCount(f) THEN sat(Cast(f, u)[i])
                                    ELSE sat(Cast(f, v)[i - LaneCount(f)])])
\* Elsewhere both calls of simd_saturate ask for the intrinsics on i16x8.
NarrowCommon(f, l, sign, u, v) ==
  LET lo == IF sign = "s" THEN Least(Width(l)) ELSE 0
      hi == IF sign = "s" THEN Greatest(Width(l)) ELSE 2^Width(l) - 1
      sat(x) == Saturated("i16", f, lo, hi, Signed(Width(f), x))
      trunc(x) == IF x = Poison /\ f # "i16" THEN Poison ELSE Wrap(Width(l), x)
      half(s) == Each(Cast(f, s), LAMBDA x : trunc(sat(x)))
  IN  Push(l, ShuffleVector(half(u), half(v), From(0, LaneCount(l))))
SimdNarrow(x86, f, l, sign, u, v) ==
  IF x86 THEN NarrowX86(f, l, sign, u, v) ELSE NarrowCommon(f, l, sign, u, v)

\* simd_integer_extension: a half, then SExt or ZExt.
Extension(f, l, half, sign, s) ==
  LET n == LaneCount(l)
  IN  Each(ShuffleVector(s, s, From(IF half = "low" THEN 0 ELSE n, n)),
           LAMBDA x : Extend(sign, Width(f), Width(l), x))
SimdExtend(f, l, half, sign, v) == Push(l, Extension(f, l, half, sign, Cast(f, v)))
SimdExtMul(f, l, half, sign, u, v) ==
  Push(l, Both(Extension(f, l, half, sign, Cast(f, u)), Extension(f, l, half, sign, Cast(f, v)),
               LAMBDA x, y : Times(Width(l), x, y)))

Picked(s, parity, n) == ShuffleVector(s, s, [i \in 0 .. n - 1 |-> 2 * i + parity])
PairSums(s, l) ==
  Push(l, Both(Picked(s, 0, LaneCount(l)), Picked(s, 1, LaneCount(l)),
               LAMBDA x, y : Wrap(Width(l), x + y)))
SimdExtAdd(f, l, sign, v) ==
  PairSums(Each(Cast(f, v), LAMBDA x : Extend(sign, Width(f), Width(l), x)), l)
SimdDot(f, l, u, v) ==
  PairSums(Both(Cast(f, u), Cast(f, v), LAMBDA x, y :
             Times(Width(l), Extended(Width(f), Width(l), x), Extended(Width(f), Width(l), y))), l)

\* llvm.fptosi.sat and llvm.fptoui.sat; two f64 lanes leave two zeros.
SimdTruncSat(f, l, sign, v) ==
  LET s == Each(Cast(f, v), LAMBDA x : TruncSat(sign, Width(l), f, x))
  IN  Push(l, ShuffleVector(s, Each(s, LAMBDA x : 0), From(0, LaneCount(l))))
\* SIToFP or UIToFP of the lanes there is room for.
SimdConvert(f, l, sign, v) ==
  LET s == Cast(f, v)
  IN  Push(l, Each(ShuffleVector(s, s, From(0, LaneCount(l))),
                   LAMBDA x : FloatConvert(sign, Width(f), l, x)))
\* fptrunc or fpext of lanes 0 and 1 of a zero vector.
SimdRecast(f, l, v) ==
  LET x(i) == Recast(f, l, Cast(f, v)[i])
  IN  Push(l, InsertElement(InsertElement(SplatConst(0, LaneCount(l)), x(0), 0), x(1), 1))
=============================================================================
