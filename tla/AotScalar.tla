------------------------------ MODULE AotScalar ------------------------------
(***************************************************************************)
(* The LLVM instructions the compiler emits for one numeric instruction    *)
(* of WebAssembly (aot_emit_numberic.c, aot_emit_conversion.c,             *)
(* aot_emit_compare.c), and what they compute.                             *)
(*                                                                         *)
(* An operand is a value together with what LLVM knows of it: a constant   *)
(* takes other paths through the compiler than a value known at run time.  *)
(* What LLVM leaves undefined is Poison, and never equal to a number.      *)
(***************************************************************************)
EXTENDS WasmNumbers

Poison == -1
Operand(t, x, known) == [type |-> t, val |-> x, known |-> known]

-----------------------------------------------------------------------------
(* Instructions of LLVM on integers of w bits *)

Shl(w, x, n) == IF n < w THEN LeftBy(w, x, n) ELSE Poison
LShr(w, x, n) == IF n < w THEN x \div 2^n ELSE Poison
AShr(w, x, n) == IF n < w THEN Wrap(w, Signed(w, x) \div 2^n) ELSE Poison
Overflows(w, x, y) == Signed(w, x) = Least(w) /\ Signed(w, y) = -1
SDiv(w, x, y) == IF y = 0 \/ Overflows(w, x, y) THEN Poison
                 ELSE Wrap(w, Quotient(Signed(w, x), Signed(w, y)))
SRem(w, x, y) == IF y = 0 \/ Overflows(w, x, y) THEN Poison
                 ELSE Wrap(w, Signed(w, x) - Signed(w, y) * Quotient(Signed(w, x), Signed(w, y)))
UDiv(w, x, y) == IF y = 0 THEN Poison ELSE x \div y
URem(w, x, y) == IF y = 0 THEN Poison ELSE x % y
Divide(op, w, x, y) == CASE op = "div_s" -> SDiv(w, x, y) [] op = "div_u" -> UDiv(w, x, y)
                         [] op = "rem_s" -> SRem(w, x, y) [] op = "rem_u" -> URem(w, x, y)

FPToSI(w, t, c) == IF IsNaN(t, c) \/ Truncated(t, c) \notin Fitting("s", w) THEN Poison
                   ELSE Wrap(w, Truncated(t, c))
FPToUI(w, t, c) == IF IsNaN(t, c) \/ Truncated(t, c) \notin Fitting("u", w) THEN Poison
                   ELSE Truncated(t, c)
\* llvm.minnum and llvm.maxnum prefer numbers to NaNs; of equal ones, either.
NumberOf(better, t, c, d) == IF IsNaN(t, c) THEN d ELSE IF IsNaN(t, d) THEN c
                             ELSE IF better THEN c ELSE d

-----------------------------------------------------------------------------
(* Exceptions: without the sandbox they are a return of zeros. *)

Raise(sandbox, e) == Raises(IF sandbox THEN e ELSE "returned")
Guarded(sandbox, fails, e, x) == IF sandbox /\ fails THEN Raises(e) ELSE x

-----------------------------------------------------------------------------
(* Integer arithmetic *)

IsConstZero(v) == v.known /\ v.val = 0

IntAdd(w, l, r) == IF IsConstZero(l) THEN r.val
                   ELSE IF IsConstZero(r) THEN l.val ELSE Wrap(w, l.val + r.val)
IntSub(w, l, r) == IF IsConstZero(r) THEN l.val ELSE Wrap(w, l.val - r.val)
IntMul(w, l, r) == IF IsConstZero(l) \/ IsConstZero(r) THEN 0 ELSE Times(w, l.val, r.val)

\* compile_rems: the overflow goes around the instruction.
RemsUnguarded(w, x, y) == SRem(w, x, y)
Rems(w, x, y) == IF Overflows(w, x, y) THEN 0 ELSE SRem(w, x, y)

DivByConstant(op, w, x, y, sandbox) ==
  CASE y = 0 -> Raise(sandbox, "integer divide by zero")
    [] y = 1 -> Value(IF op \in {"div_s", "div_u"} THEN x ELSE 0)
    [] Signed(w, y) = -1 /\ op = "div_s" ->
         Guarded(sandbox, Signed(w, x) = Least(w), "integer overflow", Value(Wrap(w, -x)))
    [] Signed(w, y) = -1 /\ op = "rem_s" -> Value(0)
    [] OTHER -> Value(Divide(op, w, x, y))

DivByVariable(op, w, x, y, sandbox) ==
  Guarded(sandbox, y = 0, "integer divide by zero",
    CASE op = "div_s" -> Guarded(sandbox, Overflows(w, x, y), "integer overflow",
                                 Value(SDiv(w, x, y)))
      [] op = "rem_s" -> Value(Rems(w, x, y))
      [] OTHER -> Value(Divide(op, w, x, y)))

\* Operands that LLVM knows to be undefined take a path of their own; they are
\* not among the inputs, and it is left out.
IntDiv(op, w, l, r, sandbox) ==
  IF r.known THEN DivByConstant(op, w, l.val, r.val, sandbox)
  ELSE DivByVariable(op, w, l.val, r.val, sandbox)

IntArithmetic(op, w, l, r, sandbox) ==
  CASE op = "add" -> Value(IntAdd(w, l, r))
    [] op = "sub" -> Value(IntSub(w, l, r))
    [] op = "mul" -> Value(IntMul(w, l, r))
    [] OTHER -> IntDiv(op, w, l, r, sandbox)

IntBitwise(op, w, x, y) ==
  CASE op = "and" -> And(w, x, y) [] op = "or" -> Or(w, x, y) [] op = "xor" -> Xor(w, x, y)

\* SHIFT_COUNT_MASK
Count(w, y) == And(w, y, w - 1)
Rotate(left, w, l, r) ==
  LET n == Count(w, r.val)
      m == And(w, Wrap(w, w - n), w - 1)
  IN  IF IsConstZero(r) THEN l.val
      ELSE IF left THEN Or(w, Shl(w, l.val, n), LShr(w, l.val, m))
      ELSE Or(w, LShr(w, l.val, n), Shl(w, l.val, m))
IntShift(op, w, l, r) ==
  LET n == Count(w, r.val) IN
  CASE op = "shl"   -> Shl(w, l.val, n)
    [] op = "shr_s" -> AShr(w, l.val, n)
    [] op = "shr_u" -> LShr(w, l.val, n)
    [] OTHER        -> Rotate(op = "rotl", w, l, r)

\* llvm.ctlz, llvm.cttz (zero_undef is false) and llvm.ctpop.
IntBitCount(op, w, x) == IntUnary(op, w, x)

IntCompare(op, w, x, y) == Bit(IntHolds(op, w, x, IF op = "eqz" THEN 0 ELSE y))

-----------------------------------------------------------------------------
(* Floats *)

\* UNE holds for unordered operands, the other predicates do not.
FloatCompare(op, t, c, d) ==
  LET unordered == IsNaN(t, c) \/ IsNaN(t, d)
  IN  Bit(IF op = "ne" THEN unordered \/ Number(t, c) # Number(t, d)
          ELSE ~unordered /\ FloatHolds(op, t, c, d))

\* Equal operands may be zeros: their bits are combined.
MinMax(isMin, t, c, d) ==
  IF IsNaN(t, c) \/ IsNaN(t, d) THEN NaN(t)
  ELSE IF Number(t, c) = Number(t, d)
       THEN IF isMin THEN Or(Width(t), c, d) ELSE And(Width(t), c, d)
       ELSE NumberOf(Lower(t, c, d) = isMin, t, c, d)

FloatArithmetic(op, t, c, d) ==
  IF op \in {"min", "max"} THEN MinMax(op = "min", t, c, d) ELSE Ieee(op, t, <<c, d>>)
FloatMath(op, t, c) ==
  CASE op = "abs" -> Index(t, c) [] op = "neg" -> Negated(t, c) [] OTHER -> Ieee(op, t, <<c>>)
Copysign(t, c, d) == Index(t, c) + d - Index(t, d)

-----------------------------------------------------------------------------
(* Conversions.  The limits are the first floats out of range: below the    *)
(* least integer lies a float one step away, or one unit if there is room.  *)

MinValueNear(sign, w, t) == IF sign = "u" THEN 0 ELSE Least(w)
MinValue(sign, w, t) ==
  LET digits == Fraction[t] + 1
  IN  IF sign = "u" THEN -1
      ELSE Least(w) - (IF digits < w THEN 2^(w - digits) ELSE 1)
MaxValue(sign, w) == IF sign = "u" THEN 2^w ELSE Greatest(w) + 1

TooSmall(sign, w, t, c) == Number(t, c) <= Unit * MinValue(sign, w, t)
TooLarge(sign, w, t, c) == Number(t, c) >= Unit * MaxValue(sign, w)
FPToInt(sign, w, t, c) == IF sign = "s" THEN FPToSI(w, t, c) ELSE FPToUI(w, t, c)

TruncFloat(sign, w, t, c, sandbox) ==
  Guarded(sandbox, IsNaN(t, c), "invalid conversion to integer",
    Guarded(sandbox, TooSmall(sign, w, t, c) \/ TooLarge(sign, w, t, c), "integer overflow",
            Value(FPToInt(sign, w, t, c))))

TruncSatFloat(sign, w, t, c) ==
  IF IsNaN(t, c) THEN 0
  ELSE IF TooSmall(sign, w, t, c) THEN IF sign = "s" THEN Wrap(w, Least(w)) ELSE 0
  ELSE IF TooLarge(sign, w, t, c) THEN IF sign = "s" THEN Greatest(w) ELSE 2^w - 1
  ELSE FPToInt(sign, w, t, c)

\* SExt or ZExt, after a cast to the narrow type where there is one.
Extend(sign, from, to, x) ==
  IF sign = "s" THEN Extended(from, to, Wrap(from, x)) ELSE Wrap(from, x)
\* SIToFP or UIToFP.
FloatConvert(sign, w, t, x) == FromInteger(t, AsSigned(sign, w, x))
=============================================================================
