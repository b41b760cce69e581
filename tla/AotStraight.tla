----------------------------- MODULE AotStraight -----------------------------
(***************************************************************************)
(* Opcodes without control flow, from the dispatch in aot_compile_func to  *)
(* what the emitted code computes, in lock step with the reference.        *)
(*                                                                         *)
(* An opcode is its group, the type t it works on (of a lane, for a        *)
(* vector), its place n among the opcodes of the group, and a record m of  *)
(* what else it says.  The code runs on a pending opcode and on operands   *)
(* of every kind the operand stack may hold; a store or a set may be       *)
(* followed by a load or a get.  Loads and stores are in bounds, copies and *)
(* fills need not be.  How the dispatch gets at the opcodes of a whole     *)
(* body is CodeWalk's, as one more group.                                  *)
(***************************************************************************)
EXTENDS AotCalls

CONSTANTS Targets,       \* records of sandbox (~no_sandbox_mode), x86, and
                         \* reloc (the instruction has a relocation)
          Samples,       \* for each type, a sequence of numbers to compute with
          SwizzleIds,    \* sequences of sixteen indices of bytes
          Addresses, Offsets,  \* of loads and stores
          Exports,       \* the functions the host calls, which have a quick entry
          Blocks,        \* where the heap's block for them may lie
          Arguments,     \* lists of strings for main
          InitialMemory, \* a function from addresses to bytes
          Base,          \* where the memory lies
          LebBits,       \* the bits of a number that one byte of it carries
          Bodies,        \* functions as sequences of instructions of CodeWalk
          LibcMemories,  \* memories with strings
          LibcArguments, \* three numbers each
          PrintCalls,    \* calls of printf, of sprintf and of snprintf
          TempFormat, StringBuffer, LongestString  \* limits of LibcPrintf

Walk == INSTANCE CodeWalk
Lib == INSTANCE LibcPrintf WITH Data <- Base, ByteValues <- 2^ByteBits

IntTypes == {"i32", "i64"}
FloatTypes == {"f32", "f64"}
IntLanes == {"i8", "i16", "i32", "i64"}

VARIABLES code, target, phase,
          got, want,         \* what the emitted code and the reference say
          mem, wasmMem,      \* the memory, and the memory of the reference
          cells, wasmCells   \* a local of type i32 and the stack pointer

vars == <<code, target, phase, got, want, mem, wasmMem, cells, wasmCells>>

-----------------------------------------------------------------------------
(* The opcodes of each group, in the order of their numbers, and the order  *)
(* of the compiler's own enumerations: an opcode is translated by the       *)
(* distance from the first one of its group.                                *)

NumericOpcodes == [
  compare   |-> <<"eqz", "eq", "ne", "lt_s", "lt_u", "gt_s", "gt_u", "le_s", "le_u", "ge_s", "ge_u">>,
  fcompare  |-> <<"eq", "ne", "lt", "gt", "le", "ge">>,
  count     |-> <<"clz", "ctz", "popcnt">>,
  arith     |-> <<"add", "sub", "mul", "div_s", "div_u", "rem_s", "rem_u">>,
  bitwise   |-> <<"and", "or", "xor">>,
  shift     |-> <<"shl", "shr_s", "shr_u", "rotl", "rotr">>,
  fmath     |-> <<"abs", "neg", "ceil", "floor", "trunc", "nearest", "sqrt">>,
  farith    |-> <<"add", "sub", "mul", "div", "min", "max">>]

SimdOpcodes == [
  vcompare  |-> <<"eq", "ne", "lt_s", "lt_u", "gt_s", "gt_u", "le_s", "le_u", "ge_s", "ge_u">>,
  vcompare64 |-> <<"eq", "ne", "lt_s", "gt_s", "le_s", "ge_s">>,
  vfcompare |-> <<"eq", "ne", "lt", "gt", "le", "ge">>,
  vbits     |-> <<"not", "and", "andnot", "or", "xor", "bitselect">>,
  vshift    |-> <<"shl", "shr_s", "shr_u">>,
  vunary    |-> <<"abs", "neg", "popcnt">>,
  varith    |-> <<"add", "sub", "mul">>,
  vminmax   |-> <<"min_s", "min_u", "max_s", "max_u">>,
  vsat      |-> <<"add_sat_s", "add_sat_u", "sub_sat_s", "sub_sat_u", "avgr_u">>,
  vfunary   |-> <<"abs", "neg", "sqrt", "ceil", "floor", "trunc", "nearest">>,
  vfarith   |-> <<"add", "sub", "mul", "div", "min", "max", "pmin", "pmax">>]

Opcodes == [g \in DOMAIN NumericOpcodes \cup DOMAIN SimdOpcodes |->
              IF g \in DOMAIN SimdOpcodes THEN SimdOpcodes[g] ELSE NumericOpcodes[g]]

IntCond == <<"eqz", "eq", "ne", "lt_s", "lt_u", "gt_s", "gt_u", "le_s", "le_u", "ge_s", "ge_u">>
FloatCond == <<"eq", "ne", "lt", "gt", "le", "ge", "uno">>
EnumArithmetic == <<"add", "sub", "mul", "div_s", "div_u", "rem_s", "rem_u">>
EnumBitwise == <<"and", "or", "xor">>
EnumShift == <<"shl", "shr_s", "shr_u", "rotl", "rotr">>
EnumFloatMath == <<"abs", "neg", "ceil", "floor", "trunc", "nearest", "sqrt">>
EnumFloatArithmetic == <<"add", "sub", "mul", "div", "min", "max">>
EnumV128Bitwise == <<"not", "and", "andnot", "or", "xor", "bitselect">>

\* Scalar opcodes: the enumeration of the group, from the first opcode on.
Dispatch(group, n) ==
  CASE group = "compare"  -> IntCond[n]
    [] group = "fcompare" -> FloatCond[n]
    [] group = "arith"    -> EnumArithmetic[n]
    [] group = "bitwise"  -> EnumBitwise[n]
    [] group = "shift"    -> EnumShift[n]
    [] group = "fmath"    -> EnumFloatMath[n]
    [] group = "farith"   -> EnumFloatArithmetic[n]
    [] OTHER              -> Opcodes[group][n]

\* SIMD opcodes; those of i64x2 comparisons lack the unsigned ones.
VDispatchDense(group, n) ==
  CASE group \in {"vcompare", "vcompare64"} -> IntCond[n + 1]
    [] group = "vfcompare"  -> FloatCond[n]
    [] group = "vbits"      -> EnumV128Bitwise[n]
    [] group = "vshift"     -> EnumShift[n]
    [] OTHER                -> Opcodes[group][n]
VDispatch(group, n) ==
  CASE group = "vcompare"   -> IntCond[n + 1]
    [] group = "vcompare64" -> <<"eq", "ne", "lt_s", "gt_s", "le_s", "ge_s">>[n]
    [] group = "vfcompare"  -> FloatCond[n]
    [] group = "vbits"      -> EnumV128Bitwise[n]
    [] group = "vshift"     -> EnumShift[n]
    [] OTHER                -> Opcodes[group][n]

Op(group, t, n, m) == [group |-> group, t |-> t, n |-> n, m |-> m]
No == [none |-> 0]
InOrder(group, Types) == {Op(group, t, n, No) : t \in Types, n \in DOMAIN Opcodes[group]}

CompareIntOps == InOrder("compare", IntTypes)
I32Ops == UNION {InOrder(g, {"i32"}) : g \in {"count", "arith", "bitwise", "shift"}}
I64Ops == UNION {InOrder(g, {"i64"}) : g \in {"count", "arith", "bitwise", "shift"}}
IntegerOps == CompareIntOps \cup I32Ops \cup I64Ops
FloatOps == UNION {InOrder(g, FloatTypes) : g \in {"fcompare", "fmath", "farith"}}
            \cup {Op("copysign", t, 1, No) : t \in FloatTypes}

Signs == {"s", "u"}
ConversionOps ==
  {Op("trunc", f, 1, [to |-> t, sign |-> s, sat |-> b]) :
      f \in FloatTypes, t \in IntTypes, s \in Signs, b \in BOOLEAN}
  \cup {Op("convert", f, 1, [to |-> t, sign |-> s]) : f \in IntTypes, t \in FloatTypes, s \in Signs}
  \cup {Op("extend", "i32", 1, [to |-> "i64", sign |-> s, from |-> "i32"]) : s \in Signs}
  \cup {Op("extend", t, 1, [to |-> t, sign |-> "s", from |-> f]) : t \in IntTypes, f \in {"i8", "i16"}}
  \cup {Op("extend", "i64", 1, [to |-> "i64", sign |-> "s", from |-> "i32"]),
        Op("wrap", "i64", 1, [to |-> "i32"]),
        Op("recast", "f32", 1, [to |-> "f64"]), Op("recast", "f64", 1, [to |-> "f32"]),
        Op("reinterpret", "f32", 1, [to |-> "i32"]), Op("reinterpret", "i32", 1, [to |-> "f32"]),
        Op("reinterpret", "f64", 1, [to |-> "i64"]), Op("reinterpret", "i64", 1, [to |-> "f64"])}

ParametricOps == {Op(g, t, 1, No) : g \in {"drop", "select", "const"}, t \in IntTypes \cup FloatTypes}

\* SIMD opcodes on lanes of a type, in the order of the dispatch.
Of(l, groups) == UNION {InOrder(g, {l}) : g \in groups}
Alone(l, groups) == {Op(g, l, 1, No) : g \in groups}
Halves(group, f, l) ==
  {Op(group, f, 1, [to |-> l, sign |-> s, half |-> h]) : s \in Signs, h \in {"low", "high"}}
Between(group, f, l) == {Op(group, f, 1, [to |-> l, sign |-> s]) : s \in Signs}

ByteOps == Alone("i8", {"shuffle", "swizzle"})
SplatOps == {Op("splat", l, 1, No) : l \in IntLanes \cup FloatTypes}
LaneOps ==
  {Op("extract", l, 1, [lane |-> i, sign |-> s]) : l \in {"i8", "i16"}, i \in {0, 7}, s \in Signs}
  \cup {Op("extract", l, 1, [lane |-> 1, sign |-> "u"]) : l \in {"i32", "i64", "f32", "f64"}}
  \cup {Op("replace", l, 1, [lane |-> 1]) : l \in IntLanes \cup FloatTypes}
CompareOps == InOrder("vcompare", {"i8", "i16", "i32"}) \cup InOrder("vfcompare", FloatTypes)
V128Ops == InOrder("vbits", {"i8"}) \cup Alone("i8", {"any_true"})
I8x16Ops ==
  Of("i8", {"vunary", "vshift", "vsat", "vminmax"}) \cup Alone("i8", {"all_true", "bitmask"})
  \cup {o \in Of("i8", {"varith"}) : o.n < 3}
  \cup Between("narrow", "i16", "i8") \cup Between("extadd", "i8", "i16") \cup Between("extadd", "i16", "i32")
I16x8Ops ==
  Of("i16", {"vshift", "vsat", "vminmax", "varith"}) \cup {o \in Of("i16", {"vunary"}) : o.n < 3}
  \cup Alone("i16", {"all_true", "bitmask", "q15mulr"})
  \cup Between("narrow", "i32", "i16") \cup Halves("vextend", "i8", "i16") \cup Halves("extmul", "i8", "i16")
I32x4Ops ==
  Of("i32", {"vshift", "vminmax", "varith"}) \cup {o \in Of("i32", {"vunary"}) : o.n < 3}
  \cup Alone("i32", {"all_true", "bitmask"}) \cup {Op("dot", "i16", 1, [to |-> "i32"])}
  \cup Halves("vextend", "i16", "i32") \cup Halves("extmul", "i16", "i32")
I64x2Ops ==
  Of("i64", {"vshift", "varith", "vcompare64"}) \cup {o \in Of("i64", {"vunary"}) : o.n < 3}
  \cup Alone("i64", {"all_true", "bitmask"})
  \cup Halves("vextend", "i32", "i64") \cup Halves("extmul", "i32", "i64")
F32x4Ops == Of("f32", {"vfunary", "vfarith"})
F64x2Ops == Of("f64", {"vfunary", "vfarith"})
RecastOps == {Op("vrecast", "f64", 1, [to |-> "f32"]), Op("vrecast", "f32", 1, [to |-> "f64"])}
VConversionOps ==
  UNION {Between("vtrunc", f, "i32") \cup Between("vconvert", "i32", f) : f \in FloatTypes}

VectorOps == UNION {ByteOps, SplatOps, LaneOps, CompareOps, V128Ops, I8x16Ops, I16x8Ops, I32x4Ops,
                    I64x2Ops, F32x4Ops, F64x2Ops, RecastOps, VConversionOps}

\* Loads and stores of some bytes of a type, and of vectors in their ways.
NarrowLoads(t) == {b \in {1, 2, 4} : b < Bytes[t]}
ScalarLoadOps ==
  {Op("load", t, 1, [bytes |-> b, sign |-> s]) : t \in {"i32"}, b \in NarrowLoads("i32"), s \in Signs}
  \cup {Op("load", "i64", 1, [bytes |-> b, sign |-> s]) : b \in NarrowLoads("i64"), s \in Signs}
  \cup {Op("load", t, 1, [bytes |-> Bytes[t], sign |-> "u"]) : t \in IntTypes \cup FloatTypes}
SimdLoadOps ==
  Alone("i8", {"vload"})
  \cup UNION {Between("load_extend", "i8", "i16"), Between("load_extend", "i16", "i32"),
              Between("load_extend", "i32", "i64")}
  \cup {Op("load_splat", l, 1, No) : l \in IntLanes}
SimdLaneOps ==
  {Op(g, l, 1, [lane |-> 1]) : g \in {"load_lane", "store_lane"}, l \in IntLanes}
  \cup {Op("load_zero", l, 1, No) : l \in {"i32", "i64"}}
ScalarStoreOps ==
  {Op("store", t, 1, [bytes |-> b]) : t \in IntTypes, b \in {1, 2, 4}}
  \cup {Op("store", t, 1, [bytes |-> Bytes[t]]) : t \in {"i64", "f32", "f64"}}
LoadOps == ScalarLoadOps \cup SimdLoadOps \cup {o \in SimdLaneOps : o.group # "store_lane"}
BulkOps == {Op("memory.copy", t, 1, No) : t \in IntTypes} \cup Alone("i32", {"memory.fill"})
StoreOps == ScalarStoreOps \cup Alone("i8", {"vstore"}) \cup {o \in SimdLaneOps : o.group = "store_lane"}

GetOps == {Op("local.get", "i32", 1, No), Op("global.get", "i64", 1, No)}
AddressOps == {Op("const.address", "i64", 1, No)}
SetOps == {Op("local.set", "i32", 1, No), Op("local.tee", "i32", 1, No), Op("global.set", "i64", 1, No)}

\* Calls, indirect calls through every type, and the host's own calls.
CallOps == {Op("call", "i8", 1, [func |-> f]) : f \in DOMAIN Functions}
           \cup {Op("call_indirect", "i8", 1, [type |-> t]) : t \in DOMAIN FuncTypes}
HostOps == {Op("execute_func", "i8", 1, [func |-> f]) : f \in Exports}
           \cup {Op("execute_main", "i8", 1, [strings |-> s, wide |-> b]) : s \in Arguments, b \in BOOLEAN}

\* Reading the bytes of a body.
BodyOps == {Op("body", "i8", 1, [body |-> b]) : b \in Bodies}

\* Functions of the built-in libc.
PrintGroups == {"printf", "sprintf", "snprintf"}
LibcOps == {Op("libc", "i8", 1, [func |-> f, memory |-> x]) : f \in Lib!LibcFunctions, x \in LibcMemories}
           \cup {Op(g, "i8", 1, [wide |-> b]) : g \in PrintGroups, b \in BOOLEAN}

ScalarGroups == {"compare", "count", "arith", "bitwise", "shift", "fcompare", "fmath", "farith"}
ConversionGroups == {"trunc", "convert", "extend", "wrap", "recast", "reinterpret", "copysign",
                     "const", "drop", "select"}
LanewiseGroups == {"vcompare", "vcompare64", "vfcompare", "varith", "vminmax", "vsat", "vfarith",
                   "vbits", "vunary", "vfunary", "vshift"}
MeasureGroups == {"bitmask", "all_true", "any_true", "extract"}
LoadGroups == {"load", "vload", "load_extend", "load_splat", "load_zero", "load_lane"}
StoreGroups == {"store", "vstore", "store_lane"}
BulkGroups == {"memory.copy", "memory.fill"}
AddressGroups == {"const.address", "global.get"}
LocalGroups == {"local.get", "local.tee"}
SetGroups == {"local.set", "global.set"}
CallGroups == {"call", "call_indirect", "execute_func", "execute_main"}
LibcGroups == {"libc"} \cup PrintGroups

AllOps == UNION {IntegerOps, FloatOps, ConversionOps, ParametricOps, VectorOps,
                 LoadOps, StoreOps, BulkOps, AddressOps, GetOps, SetOps, CallOps, HostOps, BodyOps, LibcOps}

-----------------------------------------------------------------------------
(* Operands *)

\* What the operands are, the top last; "ids" is an immediate of a shuffle.
OperandTypes(o) ==
  CASE o.group = "compare" /\ o.n = 1 -> <<o.t>>
    [] o.group \in {"compare", "arith", "bitwise", "shift", "fcompare", "farith", "copysign"} -> <<o.t, o.t>>
    [] o.group \in {"count", "fmath", "trunc", "convert", "extend", "wrap", "recast",
                    "reinterpret", "drop"} -> <<o.t>>
    [] o.group = "const" -> <<"known">>
    [] o.group \in {"const.address", "global.set"} -> <<"address">>
    [] o.group = "select" -> <<o.t, o.t, "i32">>
    [] o.group \in {"vcompare", "vcompare64", "vfcompare", "varith", "vminmax", "vsat", "vfarith",
                    "narrow", "extmul", "dot", "q15mulr"} -> <<"v128", "v128">>
    [] o.group = "vbits" -> <<"v128", "v128", "v128">>
    [] o.group \in {"vunary", "vfunary", "bitmask", "all_true", "any_true", "extract", "vextend",
                    "extadd", "vrecast", "vtrunc", "vconvert"} -> <<"v128">>
    [] o.group = "vshift" -> <<"v128", "i32">>
    [] o.group = "shuffle" -> <<"v128", "v128", "ids">>
    [] o.group = "swizzle" -> <<"v128", "ids">>
    [] o.group = "splat" -> <<IF o.t \in {"i8", "i16"} THEN "i32" ELSE o.t>>
    [] o.group = "replace" -> <<"v128", IF o.t \in {"i8", "i16"} THEN "i32" ELSE o.t>>
    [] o.group \in {"load", "vload", "load_extend", "load_splat", "load_zero"} -> <<"address">>
    [] o.group = "load_lane" -> <<"address", "v128">>
    [] o.group = "store" -> <<"address", o.t>>
    [] o.group \in {"vstore", "store_lane"} -> <<"address", "v128">>
    [] o.group = "memory.copy" -> <<"place", "place", "place">>
    [] o.group = "memory.fill" -> <<"place", "i32", "place">>
    [] o.group \in {"local.get", "global.get", "body"} -> << >>
    [] o.group \in {"call", "execute_func"} -> TypeOfFunc(o.m.func).params
    [] o.group = "call_indirect" -> Append(FuncTypes[o.m.type].params, "element")
    [] o.group = "execute_main" -> <<"block">>
    [] o.group \in {"local.set", "local.tee"} -> <<o.t>>
    [] o.group = "libc" -> <<"argument", "argument", "argument">>
    [] o.group \in PrintGroups -> <<"call">>

Samples128(l) ==
  LET n == Len(Samples[l])
  IN  {Vector(l, LAMBDA i : Samples[l][((i + k) % n) + 1]) : k \in 1 .. n}
      \cup {Vector(l, LAMBDA i : 0)}
\* Addresses and lengths up to the end of the memory, and far behind it.
MemorySize == Cardinality(DOMAIN InitialMemory)
AroundTheEnd(t) == {MemorySize - 1, MemorySize, MemorySize + 1, 2^Width(t) - 1}
\* A number known to LLVM or not, the result of a comparison, or one undefined.
Operands(o, t) ==
  CASE t = "v128" -> {Operand(t, v, FALSE) : v \in Samples128(o.t)}
    [] t = "ids" -> {Operand(t, s, TRUE) : s \in {r \in SwizzleIds :
                       o.group = "shuffle" => \A j \in DOMAIN r : r[j] < 32}}
    [] t = "address" -> {Operand("i32", a, FALSE) : a \in Addresses}
    [] t = "place" -> {Operand(o.t, a, FALSE) : a \in Addresses \cup AroundTheEnd(o.t)}
    [] t = "known" -> {Operand(o.t, Samples[o.t][k], TRUE) : k \in DOMAIN Samples[o.t]}
    [] OTHER -> {Operand(t, Samples[t][k], b) : k \in DOMAIN Samples[t],
                                                b \in IF t \in IntTypes THEN BOOLEAN ELSE {FALSE}}
                \cup {Operand("i1", b, FALSE) : b \in IF t = "i32" THEN {0, 1} ELSE {}}

\* POP: the result of a comparison is extended to the i32 it is used as.
PoppedSigned(v) == IF v.type = "i1" THEN Operand("i32", Wrap(Width("i32"), -v.val), v.known) ELSE v
Popped(v) == IF v.type = "i1" THEN Operand("i32", v.val, v.known) ELSE v
\* POP_COND
Condition(v) == v.val # 0

Result(t, r) == [trap |-> r.trap, type |-> t, val |-> r.val]
Pushes(t, x) == Result(t, Value(x))
Nothing == Pushes("none", 0)
OutOfBounds == Result("none", Raises("out of bounds memory access"))
WideType(l) == IF l \in {"i8", "i16"} THEN "i32" ELSE l

-----------------------------------------------------------------------------
(* What the reference says of an opcode, the numbers a and the memory m.    *)

Scalar(o, a) ==
  LET w == Width(o.t)
      name == Opcodes[o.group][o.n]
  IN CASE o.group = "compare" -> Pushes("i32", Bit(IntHolds(name, w, a[1], IF o.n = 1 THEN 0 ELSE a[2])))
       [] o.group = "count" -> Pushes(o.t, IntUnary(name, w, a[1]))
       [] o.group \in {"arith", "bitwise", "shift"} -> Result(o.t, IntBinary(name, w, a[1], a[2]))
       [] o.group = "fcompare" -> Pushes("i32", Bit(FloatHolds(name, o.t, a[1], a[2])))
       [] o.group = "fmath" -> Pushes(o.t, FloatUnary(name, o.t, a[1]))
       [] o.group = "farith" -> Pushes(o.t, FloatBinary(name, o.t, a[1], a[2]))

Conversion(o, a) ==
  CASE o.group = "copysign" -> Pushes(o.t, FloatBinary("copysign", o.t, a[1], a[2]))
    [] o.group = "trunc" ->
         IF o.m.sat THEN Pushes(o.m.to, TruncSat(o.m.sign, Width(o.m.to), o.t, a[1]))
         ELSE Result(o.m.to, Trunc(o.m.sign, Width(o.m.to), o.t, a[1]))
    [] o.group = "convert" -> Pushes(o.m.to, Convert(o.m.sign, Width(o.t), o.m.to, a[1]))
    [] o.group = "extend" ->
         Pushes(o.m.to, Wrap(Width(o.m.to), AsSigned(o.m.sign, Width(o.m.from),
                                                     a[1] % 2^Width(o.m.from))))
    [] o.group = "wrap" -> Pushes("i32", a[1] % 2^Width("i32"))
    [] o.group = "recast" -> Pushes(o.m.to, Recast(o.t, o.m.to, a[1]))
    [] o.group \in {"reinterpret"} -> Pushes(o.m.to, a[1])
    [] o.group = "const" -> Pushes(o.t, a[1])
    [] o.group = "drop" -> Nothing
    [] o.group = "select" -> Pushes(o.t, IF a[3] # 0 THEN a[1] ELSE a[2])

Lanewise(o, a) ==
  LET l == o.t
      name == Opcodes[o.group][o.n]
  IN CASE o.group \in {"vunary", "vfunary"} -> VUnary(l, name, a[1])
       [] o.group = "vshift" -> VShift(l, name, a[1], a[2])
       [] o.group = "vbits" -> Bitwise1(name, a[1], a[2], a[3])
       [] OTHER -> VBinary(l, name, a[1], a[2])

OfVectors(o, a) ==
  LET l == o.t IN
  CASE o.group = "q15mulr" -> VBinary(l, "q15mulr_sat_s", a[1], a[2])
    [] o.group = "shuffle" -> Shuffle(a[1], a[2], a[3])
    [] o.group = "swizzle" -> Swizzle(a[1], a[2])
    [] o.group = "splat" -> Splat(l, a[1])
    [] o.group = "replace" -> ReplaceLane(l, a[1], o.m.lane, a[2])
    [] o.group = "narrow" -> Narrow(l, o.m.to, o.m.sign, a[1], a[2])
    [] o.group = "vextend" -> Widen(l, o.m.to, o.m.half, o.m.sign, a[1])
    [] o.group = "extmul" -> ExtMul(l, o.m.to, o.m.half, o.m.sign, a[1], a[2])
    [] o.group = "extadd" -> ExtAdd(l, o.m.to, o.m.sign, a[1])
    [] o.group = "dot" -> Dot(l, o.m.to, a[1], a[2])
    [] o.group = "vtrunc" -> VTruncSat(l, o.m.to, o.m.sign, a[1])
    [] o.group = "vconvert" -> VConvert(l, o.m.to, o.m.sign, a[1])
    [] o.group = "vrecast" -> VRecast(l, o.m.to, a[1])

Measured(o, a) ==
  CASE o.group = "bitmask" -> Pushes("i32", Bitmask(o.t, a[1]))
    [] o.group = "all_true" -> Pushes("i32", AllTrue(o.t, a[1]))
    [] o.group = "any_true" -> Pushes("i32", AnyTrue(a[1]))
    [] o.group = "extract" -> Pushes(WideType(o.t), ExtractLane(o.t, o.m.sign, a[1], o.m.lane))

\* The lane type of the vector an opcode pushes.
LaneType(o) == IF "to" \in DOMAIN o.m THEN o.m.to ELSE o.t

ReadVector(m, at) == [j \in 1 .. 16 |-> m[at + j - 1]]
WrittenVector(m, at, v) == [k \in DOMAIN m |-> IF k \in at .. at + 15 THEN v[k - at + 1] ELSE m[k]]

Loaded(o, m, at, a) ==
  LET l == o.t
      number == Read(m, at, Bytes[l])
  IN CASE o.group = "load" ->
            Pushes(l, Wrap(Width(l), AsSigned(o.m.sign, ByteBits * o.m.bytes, Read(m, at, o.m.bytes))))
       [] o.group = "vload" -> Pushes("v128", ReadVector(m, at))
       [] o.group = "load_extend" ->
            Pushes("v128", Vector(o.m.to, LAMBDA i :
              Wrap(Width(o.m.to), AsSigned(o.m.sign, Width(l), Read(m, at + i * Bytes[l], Bytes[l])))))
       [] o.group = "load_splat" -> Pushes("v128", Splat(l, number))
       [] o.group = "load_zero" -> Pushes("v128", Vector(l, LAMBDA i : IF i = 0 THEN number ELSE 0))
       [] o.group = "load_lane" -> Pushes("v128", ReplaceLane(l, a[2], o.m.lane, number))

Stored(o, m, at, a) ==
  CASE o.group = "store" -> Written(m, at, o.m.bytes, a[2])
    [] o.group = "vstore" -> WrittenVector(m, at, a[2])
    [] o.group = "store_lane" -> Written(m, at, Bytes[o.t], Lane(o.t, a[2], o.m.lane))

BulkMeant(o, m, a) ==
  [k \in DOMAIN m |-> IF k \notin a[1] .. a[1] + a[3] - 1 THEN m[k]
                      ELSE IF o.group = "memory.fill" THEN a[2] % 2^ByteBits
                      ELSE m[a[2] + k - a[1]]]
\* The places that must lie in the memory up to the length behind them.
Places(o, a) == IF o.group = "memory.fill" THEN <<a[1]>> ELSE <<a[2], a[1]>>
BulkTraps(o, a) == \E k \in DOMAIN Places(o, a) : Places(o, a)[k] + a[3] > MemorySize

PrintMeant(o, c) ==
  CASE o.group = "printf" -> Lib!PrintfMeant(c)
    [] o.group = "sprintf" -> Lib!SprintfMeant(c)
    [] o.group = "snprintf" -> Lib!SnprintfMeant(c)
PrintPromised(o, c) ==
  CASE o.group = "printf" -> Lib!PrintfPromised(c)
    [] o.group = "sprintf" -> Lib!SprintfPromised(c)
    [] o.group = "snprintf" -> Lib!SnprintfPromised(c)

Want(o, a, offset) ==
  CASE o.group \in ScalarGroups -> Scalar(o, a)
    [] o.group \in ConversionGroups -> Conversion(o, a)
    [] o.group \in LanewiseGroups -> Pushes("v128", Lanewise(o, a))
    [] o.group \in MeasureGroups -> Measured(o, a)
    [] o.group \in LoadGroups -> Loaded(o, wasmMem, a[1] + offset, a)
    [] o.group = "call" -> Result("results", CallMeans(o.m.func, a))
    [] o.group = "call_indirect" -> Result("results", IndirectCallMeans(o.m.type, Last(a), Front(a)))
    [] o.group = "execute_func" -> Pushes("results", AnswersOf(o.m.func, a))
    [] o.group = "execute_main" -> Pushes("results", o.m.strings)
    [] o.group = "body" -> Pushes("code", Walk!Meant(o.m.body))
    [] o.group = "libc" -> Pushes("answer", Lib!Meant(o.m.func, o.m.memory, a))
    [] o.group \in PrintGroups -> Pushes("answer", [call |-> a[1], answer |-> PrintMeant(o, a[1])])
    [] o.group \in BulkGroups -> IF BulkTraps(o, a) THEN OutOfBounds ELSE Nothing
    [] o.group = "const.address" -> Pushes("i64", a[1])
    [] o.group = "local.get" -> Pushes("i32", wasmCells.local)
    [] o.group = "local.tee" -> Pushes("i32", a[1])
    [] o.group = "global.get" -> Pushes("i64", wasmCells.pointer)
    [] o.group \in StoreGroups \cup SetGroups -> Nothing
    [] OTHER -> Pushes("v128", OfVectors(o, a))

-----------------------------------------------------------------------------
(* What the emitted code does of an opcode and the popped operands v. *)

EmitScalar(o, v) ==
  LET w == Width(o.t)
      name == Dispatch(o.group, o.n)
      x == v[1].val
      y == v[Len(v)].val
  IN CASE o.group = "compare" -> Pushes("i1", IntCompare(name, w, x, y))
       [] o.group = "count" -> Pushes(o.t, IntBitCount(name, w, x))
       [] o.group = "arith" -> Result(o.t, IntArithmetic(name, w, v[1], v[2], target.sandbox))
       [] o.group = "bitwise" -> Pushes(o.t, IntBitwise(name, w, x, y))
       [] o.group = "shift" -> Pushes(o.t, IntShift(name, w, v[1], v[2]))
       [] o.group = "fcompare" -> Pushes("i1", FloatCompare(name, o.t, x, y))
       [] o.group = "fmath" -> Pushes(o.t, FloatMath(name, o.t, x))
       [] o.group = "farith" -> Pushes(o.t, FloatArithmetic(name, o.t, x, y))

EmitConversion(o, v) ==
  LET x == v[1].val IN
  CASE o.group = "copysign" -> Pushes(o.t, Copysign(o.t, x, v[2].val))
    [] o.group = "trunc" ->
         IF o.m.sat THEN Pushes(o.m.to, TruncSatFloat(o.m.sign, Width(o.m.to), o.t, x))
         ELSE Result(o.m.to, TruncFloat(o.m.sign, Width(o.m.to), o.t, x, target.sandbox))
    [] o.group = "convert" -> Pushes(o.m.to, FloatConvert(o.m.sign, Width(o.t), o.m.to, x))
    [] o.group = "extend" -> Pushes(o.m.to, Extend(o.m.sign, Width(o.m.from), Width(o.m.to), x))
    [] o.group = "wrap" -> Pushes(o.m.to, Wrap(Width("i32"), x))
    [] o.group = "recast" -> Pushes(o.m.to, Recast(o.t, o.m.to, x))
    [] o.group = "reinterpret" -> Pushes(o.m.to, x)
    [] o.group = "const" -> Pushes(o.t, x)
    [] o.group = "drop" -> Nothing
    [] o.group = "select" -> Pushes(v[1].type, IF Condition(v[3]) THEN x ELSE v[2].val)

EmitLanewise(o, v) ==
  LET l == o.t
      name == VDispatch(o.group, o.n)
      x == v[1].val
      y == v[Len(v)].val
  IN CASE o.group \in {"vunary", "vfunary"} -> SimdUnary(l, name, x)
       [] o.group = "vshift" -> SimdShift(l, name, x, y)
       [] o.group = "vbits" -> SimdBitwise(name, x, v[2].val, y)
       [] OTHER -> SimdBinary(l, name, x, y)

EmitVector(o, v) ==
  LET l == o.t
      x == v[1].val
      y == v[Len(v)].val
  IN CASE o.group = "q15mulr" -> SimdBinary(l, "q15mulr_sat_s", x, y)
       [] o.group = "shuffle" -> SimdShuffle(x, v[2].val, y)
       [] o.group = "swizzle" -> SimdSwizzle(target.x86, x, y)
       [] o.group = "splat" -> SimdSplat(l, x)
       [] o.group = "replace" -> SimdReplace(l, x, o.m.lane, y)
       [] o.group = "narrow" -> SimdNarrow(target.x86, l, o.m.to, o.m.sign, x, y)
       [] o.group = "vextend" -> SimdExtend(l, o.m.to, o.m.half, o.m.sign, x)
       [] o.group = "extmul" -> SimdExtMul(l, o.m.to, o.m.half, o.m.sign, x, y)
       [] o.group = "extadd" -> SimdExtAdd(l, o.m.to, o.m.sign, x)
       [] o.group = "dot" -> SimdDot(l, o.m.to, x, y)
       [] o.group = "vtrunc" -> SimdTruncSat(l, o.m.to, o.m.sign, x)
       [] o.group = "vconvert" -> SimdConvert(l, o.m.to, o.m.sign, x)
       [] o.group = "vrecast" -> SimdRecast(l, o.m.to, x)

EmitMeasure(o, v) ==
  CASE o.group = "bitmask" -> Pushes("i32", SimdBitmask(o.t, v[1].val))
    [] o.group = "all_true" -> Pushes("i1", SimdAllTrue(o.t, v[1].val))
    [] o.group = "any_true" -> Pushes("i1", SimdAnyTrue(v[1].val))
    [] o.group = "extract" -> Pushes(WideType(o.t), SimdExtract(o.t, o.m.sign, v[1].val, o.m.lane))

-----------------------------------------------------------------------------
(* Memory: an address is an index into the memory or, without the sandbox,  *)
(* a pointer, unless a relocation says that it is known from the module.    *)

Memory64 == Width("i64")
\* aot_check_memory_overflow; the bytes of the memory begin at Base.
Maddr(x, offset) ==
  LET offset1 == IF offset # 0 THEN Wrap(Memory64, offset + x) ELSE x
  IN  IF target.sandbox \/ target.reloc THEN Wrap(Memory64, Base + offset1)
      ELSE Wrap(Memory64, x + offset)
At(maddr) == maddr - Base
Reaches(maddr, n) == At(maddr) .. At(maddr) + n - 1 \subseteq DOMAIN mem
LoadNumber(maddr, n) == IF Reaches(maddr, n) THEN Read(mem, At(maddr), n) ELSE Poison
LoadLanes(l, maddr, n) == [i \in 0 .. n - 1 |-> LoadNumber(maddr + i * Bytes[l], Bytes[l])]
LoadVector(maddr) == [j \in 1 .. 16 |-> LoadNumber(maddr + j - 1, 1)]

\* The loads of a narrow integer, and the loads of a full number.
LoadZeroed(o, maddr) == LoadNumber(maddr, o.m.bytes)
LoadScalar(o, maddr) ==
  LET x == LoadNumber(maddr, o.m.bytes)
  IN  IF o.m.bytes = Bytes[o.t] THEN x
      ELSE Extend(o.m.sign, ByteBits * o.m.bytes, Width(o.t), x)
LoadExtend(o, maddr) ==
  Push(o.m.to, Each(LoadLanes(o.t, maddr, 8 \div Bytes[o.t]),
                    LAMBDA x : Extend(o.m.sign, Width(o.t), Width(o.m.to), x)))
LoadSplat(l, maddr) ==
  Push(l, ShuffleVector(InsertElement(Undef(l), LoadNumber(maddr, Bytes[l]), 0), Undef(l),
                        SplatConst(0, LaneCount(l))))
\* Lane 0 of the loaded one and the other lanes of zeros.
LoadZero(l, maddr) ==
  LET n == LaneCount(l)
  IN  Push(l, ShuffleVector(InsertElement(Undef(l), LoadNumber(maddr, Bytes[l]), 0),
                            SplatConst(0, n), [i \in LaneIds(l) |-> IF i = 0 THEN 0 ELSE n + i - 1]))
LoadLane(l, maddr, v, i) == Push(l, InsertElement(Cast(l, v), LoadNumber(maddr, Bytes[l]), i))

EmitLoad(o, v, offset) ==
  LET maddr == Maddr(v[1].val, offset) IN
  CASE o.group = "load" -> Pushes(o.t, LoadScalar(o, maddr))
    [] o.group = "vload" -> Pushes("v128", LoadVector(maddr))
    [] o.group = "load_extend" -> Pushes("v128", LoadExtend(o, maddr))
    [] o.group = "load_splat" -> Pushes("v128", LoadSplat(o.t, maddr))
    [] o.group = "load_zero" -> Pushes("v128", LoadZero(o.t, maddr))
    [] o.group = "load_lane" -> Pushes("v128", LoadLane(o.t, maddr, v[2].val, o.m.lane))

StoreNumber(maddr, n, x) == Written(mem, At(maddr), n, Wrap(ByteBits * n, x))
SimdStoreLane(l, maddr, v, i) == StoreNumber(maddr, Bytes[l], Cast(l, v)[i])
EmitStore(o, v, offset) ==
  LET maddr == Maddr(v[1].val, offset)
      x == v[2].val
  IN CASE o.group = "store" -> StoreNumber(maddr, o.m.bytes, x)
       [] o.group = "vstore" -> WrittenVector(mem, At(maddr), x)
       [] o.group = "store_lane" -> SimdStoreLane(o.t, maddr, x, o.m.lane)

BulkAddrStart(x, n) == IF target.sandbox /\ x > MemorySize THEN Poison ELSE Wrap(Memory64, Base + x)
\* Whole ranges: check_bulk_memory_overflow adds in 64 bits, and begins at
\* the memory with the sandbox and without.
BulkAddr(x, n) == IF target.sandbox /\ Wrap(Memory64, x + n) > MemorySize THEN Poison
                  ELSE Wrap(Memory64, Base + x)
CopiedUp(m, to, from, n) ==
  FoldLeft(LAMBDA r, k : [r EXCEPT ![to + k - 1] = r[from + k - 1]], m, [k \in 1 .. n |-> k])
MemMove(m, to, from, n) ==
  [k \in DOMAIN m |-> IF k \in to .. to + n - 1 THEN m[from + k - to] ELSE m[k]]
MemSet(m, to, x, n) ==
  [k \in DOMAIN m |-> IF k \in to .. to + n - 1 THEN x % 2^ByteBits ELSE m[k]]

BulkFaults(o, a) == \E k \in DOMAIN Places(o, a) : BulkAddr(Places(o, a)[k], a[3]) = Poison
EmitBulk(o, a) ==
  LET dst == At(BulkAddr(a[1], a[3])) IN
  CASE BulkFaults(o, a) -> mem
    [] o.group = "memory.fill" -> MemSet(mem, dst, a[2], a[3])
    [] OTHER -> IF Reaches(BulkAddr(a[2], a[3]), a[3])
                THEN MemMove(mem, dst, At(BulkAddr(a[2], a[3])), a[3])
                ELSE [k \in DOMAIN mem |-> Poison]

-----------------------------------------------------------------------------
(* Locals, globals and constants that hold an address. *)

Relocated == ~target.sandbox /\ target.reloc
\* i64.const and global.get make a pointer of it, global.set unmakes it.
ToPointer(x) == IF Relocated THEN Wrap(Memory64, Base + x) ELSE x
GlobalKept(x) == x
FromPointer(x) == IF Relocated THEN Wrap(Memory64, x - Base) ELSE x

GetLocal == Pushes("i32", cells.local)
LocalSet(v) == [cells EXCEPT !.local = v.val]
GlobalSet(v) == [cells EXCEPT !.pointer = FromPointer(v.val)]

Numbers(v) == [k \in DOMAIN v |-> v[k].val]
EmitCall(o, a) ==
  CASE o.group = "call" -> Result("results", DirectCall(target.sandbox, o.m.func, a))
    [] o.group = "call_indirect" ->
         Result("results", IndirectCall(target.sandbox, o.m.type, Last(a), Front(a)))
    [] o.group = "execute_func" -> Pushes("results", ExecuteFunc(o.m.func, a))
    [] o.group = "execute_main" -> Pushes("results", ExecuteMain(o.m.strings, o.m.wide, a[1]))
LibcCall(o, a) ==
  CASE o.group = "libc" -> Lib!Wrapper(o.m.func, o.m.memory, a)
    [] o.group = "printf" -> [call |-> a[1], answer |-> Lib!Printf(a[1])]
    [] o.group = "sprintf" -> [call |-> a[1], answer |-> Lib!Sprintf(a[1])]
    [] o.group = "snprintf" -> [call |-> a[1], answer |-> Lib!Snprintf(a[1])]

Got(o, v, offset) ==
  CASE o.group \in ScalarGroups -> EmitScalar(o, v)
    [] o.group \in ConversionGroups -> EmitConversion(o, v)
    [] o.group \in LanewiseGroups -> Pushes("v128", EmitLanewise(o, v))
    [] o.group \in MeasureGroups -> EmitMeasure(o, v)
    [] o.group \in LoadGroups -> EmitLoad(o, v, offset)
    [] o.group \in CallGroups -> EmitCall(o, Numbers(v))
    [] o.group = "body" -> Pushes("code", Walk!Compiled(Walk!BytesOf(o.m.body)))
    [] o.group \in LibcGroups -> Pushes("answer", LibcCall(o, Numbers(v)))
    [] o.group \in BulkGroups -> IF BulkFaults(o, Numbers(v)) THEN OutOfBounds ELSE Nothing
    [] o.group = "const.address" -> Pushes("i64", ToPointer(v[1].val))
    [] o.group = "local.get" -> GetLocal
    [] o.group = "local.tee" -> Pushes("i32", v[1].val)
    [] o.group = "global.get" -> Pushes("i64", ToPointer(cells.pointer))
    [] o.group \in StoreGroups \cup SetGroups -> Nothing
    [] OTHER -> Pushes("v128", EmitVector(o, v))

-----------------------------------------------------------------------------
(* One instruction *)

\* What the emitted code finds where the reference has address x.
Located(o, x) ==
  CASE o.group = "global.set" -> ToPointer(x)
    [] o.group = "call_indirect" -> IF target.sandbox \/ x >= TableSize THEN x ELSE TableElems[x]
    [] o.group = "const.address" \/ target.sandbox \/ target.reloc -> x
    [] OTHER -> Base + x
IsPlace(o, k) == OperandTypes(o)[k] = "place" /\ k < 3
OnStack(o, v) ==
  [k \in DOMAIN v |-> IF OperandTypes(o)[k] \in {"address", "element"} \/ IsPlace(o, k)
                      THEN [v[k] EXCEPT !.val = Located(o, @)]
                      ELSE IF o.group = "select" /\ k = 3 THEN v[k] ELSE Popped(v[k])]

\* Values of the types T, of which a call may have many; the last number of
\* a comparison may be among them.
CallArguments(T) ==
  {[k \in DOMAIN T |->
      CASE T[k] = "v128" -> Operand("v128", Vector("i8", LAMBDA i : (i + k + n) % 4), FALSE)
        [] T[k] = "i32" /\ n = 3 -> Operand("i1", 1, FALSE)
        [] OTHER -> Operand(T[k], Samples[T[k]][((3 * n + k) % Len(Samples[T[k]])) + 1], FALSE)] :
     n \in 1 .. 3}

\* Above 2 GB, a 64-bit argv would be sign-extended.
LowArgv(o, b) == b + ArgvOffsets(o.m.strings, TRUE) < 2^(Width("i32") - 1)

\* The end of a range of a 64-bit memory would wrap.
EndsExist(o, v) == \A x \in ToSet(Places(o, Numbers(v))) : x + v[3].val < 2^Width("i64")

OperandLists(o) ==
  LET T == OperandTypes(o) IN
  CASE o.group \in {"call", "execute_func"} -> CallArguments(T)
    [] o.group = "call_indirect" ->
         {Append(a, Operand("i32", x, FALSE)) : a \in CallArguments(Front(T)), x \in 0 .. TableSize}
    [] o.group = "execute_main" -> {<<Operand("i32", x, FALSE)>> : x \in {b \in Blocks : o.m.wide => LowArgv(o, b)}}
    [] o.group = "libc" -> {[k \in 1 .. 3 |-> Operand("argument", a[k], FALSE)] : a \in LibcArguments}
    [] o.group \in PrintGroups ->
         {<<Operand("call", c, FALSE)>> : c \in {x \in PrintCalls[o.group] : x.wide = o.m.wide}}
    [] Len(T) = 0 -> {<< >>}
    [] Len(T) = 1 -> {<<x>> : x \in Operands(o, T[1])}
    [] Len(T) = 2 -> {<<x, y>> : x \in Operands(o, T[1]), y \in Operands(o, T[2])}
    [] Len(T) = 3 -> {v \in Operands(o, T[1]) \X Operands(o, T[2]) \X Operands(o, T[3]) :
                        o.group \in BulkGroups => EndsExist(o, v)}
OffsetsOf(o) == IF o.group \in LoadGroups \cup StoreGroups THEN Offsets ELSE {0}

\* The built-in libc is that of the sandbox.
Init ==
  /\ code \in AllOps
  /\ target \in {x \in Targets : code.group \in LibcGroups => x.sandbox}
  /\ phase = "ready"
  /\ got = Nothing /\ want = Nothing
  /\ mem = InitialMemory /\ wasmMem = InitialMemory
  /\ \E x \in IF code.group = "global.get" THEN Addresses ELSE {Min(Addresses)} :
       /\ cells = [local |-> 1, pointer |-> x]
       /\ wasmCells = [local |-> 1, pointer |-> x]

Run ==
  /\ phase = "ready" /\ phase' = "ran"
  /\ \E v \in OperandLists(code), offset \in OffsetsOf(code) :
       LET s == OnStack(code, v)
           a == Numbers(v)
       IN  /\ got' = Got(code, s, offset)
           /\ want' = Want(code, a, offset)
           /\ IF code.group \in StoreGroups
              THEN /\ mem' = EmitStore(code, s, offset)
                   /\ wasmMem' = Stored(code, wasmMem, a[1] + offset, a)
              ELSE IF code.group \in BulkGroups
              THEN /\ mem' = EmitBulk(code, Numbers(s))
                   /\ wasmMem' = IF BulkTraps(code, a) THEN wasmMem ELSE BulkMeant(code, wasmMem, a)
              ELSE UNCHANGED <<mem, wasmMem>>
           /\ IF code.group \in {"local.set", "local.tee"}
              THEN /\ cells' = LocalSet(s[1])
                   /\ wasmCells' = [wasmCells EXCEPT !.local = a[1]]
              ELSE IF code.group = "global.set"
              THEN /\ cells' = GlobalSet(s[1])
                   /\ wasmCells' = [wasmCells EXCEPT !.pointer = a[1]]
              ELSE UNCHANGED <<cells, wasmCells>>
           /\ UNCHANGED <<code, target>>

Next == Run
Spec == Init /\ [][Next]_vars

-----------------------------------------------------------------------------
(* Properties *)

\* These keep the bits of a NaN.
Exact == {"const", "select", "reinterpret", "copysign", "load"}
SameValue(o, t, x, y) ==
  CASE t = "v128" -> SameVector(LaneType(o), x, y)
    [] t \in FloatTypes /\ o.group \notin Exact -> x >= 0 /\ SameFloat(t, x, y)
    [] OTHER -> x = y
TypeOf(r) == IF r.type = "i1" THEN "i32" ELSE r.type
Same(o) ==
  /\ got.trap = want.trap
  /\ got.trap = "none" => TypeOf(got) = want.type /\ SameValue(o, want.type, got.val, want.val)
\* Without the sandbox nothing is promised of an instruction that should trap.
Agrees == phase = "ran" /\ (target.sandbox \/ want.trap = "none") => Same(code)

\* The code of an integer instruction, with the shortcuts taken for
\* constants and with a comparison used as a number, computes what the
\* instruction means, and raises the exceptions it must and no others.
IntegersAgree == /\ code.group \in ScalarGroups \cup {"extend", "wrap", "drop", "select", "const"}
                 /\ code.t \in IntTypes
                 => Agrees

\* Comparisons, minimum and maximum of NaNs and zeros, and the limits of
\* what a float may be truncated to are those of the instruction.
FloatsAgree == /\ code.group \in ScalarGroups \cup ConversionGroups
               /\ code.t \in FloatTypes \/ code.group \in {"convert", "reinterpret"}
               => Agrees

\* The code of a SIMD instruction computes what the instruction means in
\* every lane.  Except on x86, narrowing i32 lanes does not: simd_saturate
\* is told of lanes of i16.
VectorsAgree ==
  /\ code.group \notin UNION {ScalarGroups, ConversionGroups, LoadGroups, StoreGroups, BulkGroups,
                              AddressGroups, LocalGroups, SetGroups, CallGroups, LibcGroups, {"body"}}
  /\ code.group = "narrow" /\ code.t = "i32" => target.x86
  => Agrees

\* A load and a store, a local, the stack pointer and an address constant
\* reach the same bytes of memory and the same number with the sandbox,
\* with relocated addresses and with pointers.  memory.copy and memory.fill
\* trap where they must and otherwise change the bytes they should, ranges
\* that overlap included; without the sandbox they add the memory's address
\* to what is a pointer already.
MemoryAgrees ==
  (code.group \in BulkGroups => target.sandbox) =>
  /\ code.group \in LoadGroups \cup LocalGroups \cup BulkGroups => Agrees
  /\ phase = "ran" /\ code.group \in AddressGroups =>
       want.val = IF Relocated THEN At(got.val) ELSE got.val
  /\ mem = wasmMem /\ cells = wasmCells

\* A call finds the function it names, raises what it must, and every
\* argument and every result arrives as it was sent, between functions and
\* between the host and a function.  Left out are the two kinds of indirect
\* calls that pass wrong pointers to the extra results.
CallsAgree ==
  /\ code.group \in CallGroups
  /\ code.group = "call_indirect" =>
       LET R == FuncTypes[code.m.type].results
       IN  IF target.sandbox THEN SameCells(R) ELSE Len(R) <= 1
  => Agrees

\* The compiler comes to the opcodes of a body one by one, finds the else
\* and the end of every block, and the labels of every br_table, in the
\* bytes that the loader has written over.
BlocksFound == code.group = "body" => Agrees

\* A function of the built-in libc answers what C says of the module's own
\* memory, or raises the exception because it was handed something that is
\* not inside of it.  printf, sprintf and snprintf take every argument from
\* where the caller put it, raise the exception at the first argument or
\* string that is not inside of the memory, with what came before it put
\* out, and write no more than fits.  Left out are calls of which the code
\* does something else: memchr and strstr that find nothing, and those that
\* LibcPrintf names.
LibcAgrees ==
  /\ code.group \in LibcGroups /\ phase = "ran"
  /\ code.group = "libc" /\ code.m.func \in {"memchr", "strstr"} =>
       want.val.trap # "none" \/ want.val.val # 0
  /\ code.group \in PrintGroups => PrintPromised(code, want.val.call)
  => Agrees
=============================================================================
