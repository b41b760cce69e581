----------------------------- MODULE WasmVectors -----------------------------
(***************************************************************************)
(* The vectors of WebAssembly and what its SIMD instructions compute: the  *)
(* reference the emitted code is compared with.  A vector is its sixteen   *)
(* bytes; as lanes of type l it has LaneCount(l) numbers, counted from 0,  *)
(* the low byte of a lane first.                                           *)
(***************************************************************************)
EXTENDS WasmNumbers

LaneCount(l) == 16 \div Bytes[l]
LaneIds(l) == 0 .. LaneCount(l) - 1
IsFloat(l) == l \in {"f32", "f64"}
Ones(l) == 2^Width(l) - 1

Lane1(v, i) == v[i + 1]
Lane2(v, i) == Lane1(v, 2 * i) + Lane1(v, 2 * i + 1) * 2^ByteBits
Lane4(v, i) == Lane2(v, 2 * i) + Lane2(v, 2 * i + 1) * 2^(2 * ByteBits)
Lane8(v, i) == Lane4(v, 2 * i) + Lane4(v, 2 * i + 1) * 2^(4 * ByteBits)
Lane(l, v, i) == CASE Bytes[l] = 1 -> Lane1(v, i) [] Bytes[l] = 2 -> Lane2(v, i)
                   [] Bytes[l] = 4 -> Lane4(v, i) [] Bytes[l] = 8 -> Lane8(v, i)

\* Byte k of a number; those of an undefined one are undefined.
ByteOf(x, k) == IF x < 0 THEN x ELSE (x \div 2^(ByteBits * k)) % 2^ByteBits
\* The vector whose lane i is F(i).
Vector(l, F(_)) ==
  [j \in 1 .. 16 |-> ByteOf(F((j - 1) \div Bytes[l]), (j - 1) % Bytes[l])]

\* Equal, one NaN being as good as another.
SameVector(l, u, v) ==
  IF IsFloat(l) THEN \A i \in LaneIds(l) : SameFloat(l, Lane(l, u, i), Lane(l, v, i))
  ELSE u = v

-----------------------------------------------------------------------------
(* Lane by lane *)

Least2(x, y) == IF x < y THEN x ELSE y
Most2(x, y) == IF x < y THEN y ELSE x
SatS(w, x) == Wrap(w, Clamp(Least(w), Greatest(w), x))
SatU(w, x) == Clamp(0, 2^w - 1, x)

Comparisons == {"eq", "ne", "lt", "gt", "le", "ge", "lt_s", "lt_u", "gt_s", "gt_u",
                "le_s", "le_u", "ge_s", "ge_u"}

IntLane(op, w, x, y) ==
  LET a == Signed(w, x)
      b == Signed(w, y)
  IN CASE op \in Comparisons -> IF IntHolds(op, w, x, y) THEN 2^w - 1 ELSE 0
       [] op = "min_s" -> Wrap(w, Least2(a, b))
       [] op = "min_u" -> Least2(x, y)
       [] op = "max_s" -> Wrap(w, Most2(a, b))
       [] op = "max_u" -> Most2(x, y)
       [] op = "add_sat_s" -> SatS(w, a + b)
       [] op = "add_sat_u" -> SatU(w, x + y)
       [] op = "sub_sat_s" -> SatS(w, a - b)
       [] op = "sub_sat_u" -> SatU(w, x - y)
       [] op = "avgr_u" -> (x + y + 1) \div 2
       [] op = "q15mulr_sat_s" -> SatS(w, (a * b + 2^(w - 2)) \div 2^(w - 1))
       [] OTHER -> IntBinary(op, w, x, y).val

FloatLane(op, t, x, y) ==
  IF op \in Comparisons THEN IF FloatHolds(op, t, x, y) THEN Ones(t) ELSE 0
  ELSE FloatBinary(op, t, x, y)

VBinary(l, op, u, v) ==
  Vector(l, LAMBDA i : IF IsFloat(l) THEN FloatLane(op, l, Lane(l, u, i), Lane(l, v, i))
                       ELSE IntLane(op, Width(l), Lane(l, u, i), Lane(l, v, i)))

VUnary(l, op, v) ==
  Vector(l, LAMBDA i :
    LET x == Lane(l, v, i) IN
    CASE IsFloat(l)    -> FloatUnary(op, l, x)
      [] op = "abs"    -> Wrap(Width(l), Abs(Signed(Width(l), x)))
      [] op = "neg"    -> Wrap(Width(l), -x)
      [] op = "popcnt" -> IntUnary(op, Width(l), x))

VShift(l, op, v, n) ==
  Vector(l, LAMBDA i : IntBinary(op, Width(l), Lane(l, v, i), n % Width(l)).val)

Bitwise1(op, u, v, c) ==
  Vector("i8", LAMBDA i :
    LET U == BitsOf(ByteBits, Lane1(u, i))
        V == BitsOf(ByteBits, Lane1(v, i))
        C == BitsOf(ByteBits, Lane1(c, i))
    IN  FromBits(CASE op = "not" -> (0 .. ByteBits - 1) \ U
                   [] op = "and" -> U \cap V
                   [] op = "andnot" -> U \ V
                   [] op = "or"  -> U \cup V
                   [] op = "xor" -> (U \ V) \cup (V \ U)
                   [] op = "bitselect" -> (U \cap C) \cup (V \ C)))

-----------------------------------------------------------------------------
(* Over lanes.  Lane numbers are not scaled: a bitmask has a bit for each.  *)

AnyTrue(v) == Bit(\E j \in 1 .. 16 : v[j] # 0)
AllTrue(l, v) == Bit(\A i \in LaneIds(l) : Lane(l, v, i) # 0)
Bitmask(l, v) == FromBits({i \in LaneIds(l) : Signed(Width(l), Lane(l, v, i)) < 0})

Splat(l, x) == Vector(l, LAMBDA i : x % 2^Width(l))
ExtractLane(l, sign, v, i) ==
  IF l \in {"i8", "i16"}
  THEN Wrap(Width("i32"), AsSigned(sign, Width(l), Lane(l, v, i))) ELSE Lane(l, v, i)
ReplaceLane(l, v, i, x) ==
  Vector(l, LAMBDA k : IF k = i THEN x % 2^Width(l) ELSE Lane(l, v, k))
Shuffle(u, v, ids) == [j \in 1 .. 16 |-> (u \o v)[ids[j] + 1]]
Swizzle(v, ids) == [j \in 1 .. 16 |-> IF ids[j] < 16 THEN v[ids[j] + 1] ELSE 0]

-----------------------------------------------------------------------------
(* Between lane types: from lanes of type f to lanes of type l *)

WideLane(f, sign, v, i) == AsSigned(sign, Width(f), Lane(f, v, i))
\* The half of the narrow lanes an instruction looks at.
Start(l, half) == IF half = "low" THEN 0 ELSE LaneCount(l)

Narrow(f, l, sign, u, v) ==
  LET x(i) == IF i < LaneCount(f) THEN WideLane(f, "s", u, i)
              ELSE WideLane(f, "s", v, i - LaneCount(f))
  IN  Vector(l, LAMBDA i : IF sign = "s" THEN SatS(Width(l), x(i)) ELSE SatU(Width(l), x(i)))
Widen(f, l, half, sign, v) ==
  Vector(l, LAMBDA i : Wrap(Width(l), WideLane(f, sign, v, Start(l, half) + i)))
ExtMul(f, l, half, sign, u, v) ==
  LET k == Start(l, half)
  IN  Vector(l, LAMBDA i : Wrap(Width(l), WideLane(f, sign, u, k + i) * WideLane(f, sign, v, k + i)))
ExtAdd(f, l, sign, v) ==
  Vector(l, LAMBDA i : Wrap(Width(l), WideLane(f, sign, v, 2 * i) + WideLane(f, sign, v, 2 * i + 1)))
Dot(f, l, u, v) ==
  LET p(k) == WideLane(f, "s", u, k) * WideLane(f, "s", v, k)
  IN  Vector(l, LAMBDA i : Wrap(Width(l), p(2 * i) + p(2 * i + 1)))

\* Lanes that the source has none for are zero.
Across(f, l, F(_), v) ==
  Vector(l, LAMBDA i : IF i < LaneCount(f) THEN F(Lane(f, v, i)) ELSE 0)
VTruncSat(f, l, sign, v) == Across(f, l, LAMBDA x : TruncSat(sign, Width(l), f, x), v)
VConvert(f, l, sign, v) == Across(f, l, LAMBDA x : Convert(sign, Width(f), l, x), v)
VRecast(f, l, v) == Across(f, l, LAMBDA x : Recast(f, l, x), v)
=============================================================================
