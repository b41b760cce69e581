----------------------------- MODULE WasmTypes -----------------------------
(***************************************************************************)
(* Value types, their width on the loader's operand stack, and the         *)
(* operands and results of every opcode without control flow, as           *)
(* wasm_loader_prepare_bytecode pops and pushes them.  A signature stands  *)
(* for all opcodes that have it.                                           *)
(***************************************************************************)
EXTENDS Integers, Sequences

CONSTANTS ValueTypes,      \* the value types in use
          MemOffsetType,   \* "i64" in a memory64 module, else "i32"
          TableIndexType,  \* the same for a table64 table
          FuncTypes        \* the module's function types

Cells(t) == CASE t \in {"i32", "f32"} -> 1
              [] t \in {"i64", "f64"} -> 2
              [] t = "v128" -> 4

ASSUME TypesAssumption ==
  /\ ValueTypes \subseteq {"i32", "f32", "i64", "f64", "v128"}
  /\ {"i32", MemOffsetType, TableIndexType} \subseteq ValueTypes
  /\ FuncTypes \subseteq [params : Seq(ValueTypes), results : Seq(ValueTypes)]

NumTypes == ValueTypes \ {"v128"}
IntTypes == ValueTypes \cap {"i32", "i64"}
FloatTypes == ValueTypes \cap {"f32", "f64"}
VectorTypes == ValueTypes \cap {"v128"}

Sig(pops, pushes) == [pops |-> pops, pushes |-> pushes]
Unary(Args, Results) == {Sig(<<a>>, <<r>>) : a \in Args, r \in Results}
Binary(Args, Results) == {Sig(<<a, a>>, <<r>>) : a \in Args, r \in Results}

\* get_local, set_local and tee_local; get_global and set_global.
LocalSigs == UNION {{Sig(<< >>, <<t>>), Sig(<<t>>, << >>), Sig(<<t>>, <<t>>)} : t \in ValueTypes}
GlobalSigs == UNION {{Sig(<< >>, <<t>>), Sig(<<t>>, << >>)} : t \in ValueTypes}

LoadSigs == Unary({MemOffsetType}, NumTypes)
StoreSigs == {Sig(<<MemOffsetType, t>>, << >>) : t \in NumTypes}
MemorySizeSigs == {Sig(<< >>, <<MemOffsetType>>)}
MemoryGrowSigs == Unary({MemOffsetType}, {MemOffsetType})
ConstSigs == {Sig(<< >>, <<t>>) : t \in NumTypes}
CompareSigs == Unary(IntTypes, {"i32"}) \cup Binary(NumTypes, {"i32"})
ArithSigs == UNION {Unary({t}, {t}) \cup Binary({t}, {t}) : t \in NumTypes}
ConversionSigs == (UNION {Unary({t}, NumTypes \ {t}) : t \in NumTypes})
                  \cup (UNION {Unary({t}, {t}) : t \in IntTypes})
SatConversionSigs == Unary(FloatTypes, IntTypes)
BulkSigs == {Sig(<<MemOffsetType, "i32", "i32">>, << >>),
             Sig(<< >>, << >>),
             Sig(<<MemOffsetType, MemOffsetType, MemOffsetType>>, << >>),
             Sig(<<MemOffsetType, "i32", MemOffsetType>>, << >>)}

SimdMemorySigs == Unary({MemOffsetType}, VectorTypes)
                  \cup {Sig(<<MemOffsetType, v>>, << >>) : v \in VectorTypes}
                  \cup {Sig(<<MemOffsetType, v>>, <<v>>) : v \in VectorTypes}
SimdLaneSigs == Unary(NumTypes, VectorTypes) \cup Unary(VectorTypes, NumTypes)
                \cup {Sig(<<v, t>>, <<v>>) : v \in VectorTypes, t \in NumTypes}
SimdVectorSigs == Unary(VectorTypes, VectorTypes) \cup Binary(VectorTypes, VectorTypes)
                  \cup {Sig(<<v, v, v>>, <<v>>) : v \in VectorTypes}
                  \cup {Sig(<< >>, <<v>>) : v \in VectorTypes}
SimdShiftSigs == {Sig(<<v, "i32">>, <<v>>) : v \in VectorTypes}

\* call, and call_indirect, whose table index is on top of the arguments.
CallSigs == {Sig(f.params, f.results) : f \in FuncTypes}
CallIndirectSigs == {Sig(Append(f.params, TableIndexType), f.results) : f \in FuncTypes}

Signatures ==
  UNION {LocalSigs, GlobalSigs, LoadSigs, StoreSigs, MemorySizeSigs,
         MemoryGrowSigs, ConstSigs, CompareSigs, ArithSigs, ConversionSigs,
         SatConversionSigs, BulkSigs, SimdMemorySigs, SimdLaneSigs,
         SimdVectorSigs, SimdShiftSigs, CallSigs, CallIndirectSigs}
=============================================================================
