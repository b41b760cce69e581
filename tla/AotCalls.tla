------------------------------- MODULE AotCalls -------------------------------
(***************************************************************************)
(* Calls: where arguments and results travel (aot_emit_function.c), and    *)
(* how the host passes them (wasm_application.c).                          *)
(*                                                                         *)
(* A function returns its first result; it stores the others through       *)
(* pointers that come behind its parameters.  Callers let them point into  *)
(* a buffer of cells of 32 bits, the host at the cells its arguments were  *)
(* in.  A cell nothing was stored in, or a place outside the buffer, holds *)
(* Poison.  Functions and types are counted from 1, imports first.         *)
(***************************************************************************)
EXTENDS AotVector, SequencesExt

CONSTANTS FuncTypes,      \* the types of the module, with params and results
          Functions,      \* the type of each function, as an index
          Imports,        \* the names of the imported functions
          Natives,        \* the type of each native function, by its name
          TableInit,      \* the element segments: an offset and functions
          TableSize,
          Answer(_, _, _, _) \* Answer(f, j, t, args): result j, of type t, of f

TypeOfFunc(f) == FuncTypes[Functions[f]]
IsImport(f) == f <= Len(Imports)

\* The code of an imported function with several results is not modelled.
ASSUME CallsAssumption ==
  /\ \A f \in DOMAIN Functions : Functions[f] \in DOMAIN FuncTypes
  /\ \A f \in DOMAIN Imports : Len(TypeOfFunc(f).results) <= 1
  /\ \A s \in DOMAIN TableInit : TableInit[s].offset + Len(TableInit[s].funcs) <= TableSize

-----------------------------------------------------------------------------
(* Cells *)

CellBits == Width("i32")
CellCount(t) == Bytes[t] \div 4
CellNum(types) == FoldLeft(LAMBDA n, t : n + CellCount(t), 0, types)
\* Where the value k of types begins.
CellStart(types, k) == CellNum(SubSeq(types, 1, k - 1))
Nowhere == -16
Buffer(n) == [c \in 0 .. n - 1 |-> Poison]

NumberCell(x, c) == (x \div 2^(CellBits * c)) % 2^CellBits
VectorCell(v, c) == FoldLeft(LAMBDA n, j : n + v[4 * c + j] * 2^(ByteBits * (j - 1)), 0, <<1, 2, 3, 4>>)
CellOf(t, x, c) == IF t = "v128" THEN VectorCell(x, c) ELSE NumberCell(x, c)
Put(cs, at, t, x) ==
  [c \in DOMAIN cs |-> IF c \in at .. at + CellCount(t) - 1 THEN CellOf(t, x, c - at) ELSE cs[c]]

Defined(cs, at, t) ==
  \A c \in at .. at + CellCount(t) - 1 : c \in DOMAIN cs /\ cs[c] # Poison
Get(cs, at, t) ==
  CASE ~Defined(cs, at, t) -> IF t = "v128" THEN [j \in 1 .. 16 |-> Poison] ELSE Poison
    [] t = "v128" -> [j \in 1 .. 16 |-> ByteOf(cs[at + (j - 1) \div 4], (j - 1) % 4)]
    [] OTHER -> FoldLeft(LAMBDA n, c : n + cs[at + c] * 2^(CellBits * c), 0,
                         [c \in 1 .. CellCount(t) |-> c - 1])

-----------------------------------------------------------------------------
(* The called function *)

\* The pointers of the extra results, and what they point into.
Pointers(cs, starts) == [cells |-> cs, starts |-> starts]
\* The last result is on top of the stack and stored first.
StoreResults(f, args, p) ==
  LET R == TypeOfFunc(f).results
  IN  FoldLeft(LAMBDA cs, j : Put(cs, p.starts[j - 1], R[j], Answer(f, j, R[j], args)),
               p.cells, Reverse([i \in 1 .. Len(R) - 1 |-> i + 1]))
\* The results a caller of type sig finds: the returned one, and those it
\* loads.  What a function of another type does is undefined.
Results(f, sig, args, p) ==
  LET R == sig.results
      Received(cs) == [j \in DOMAIN R |-> IF j = 1 THEN Answer(f, 1, R[1], args)
                                         ELSE Get(cs, p.starts[j - 1], R[j])]
  IN  IF f \in DOMAIN Functions /\ TypeOfFunc(f) = sig THEN Received(StoreResults(f, args, p))
      ELSE [j \in DOMAIN R |-> Poison]

-----------------------------------------------------------------------------
(* Linking and the globals of calls *)

AnySignature(f, native) == TRUE
SameSignature(f, native) == Natives[native] = TypeOfFunc(f)
\* The type is looked at with the name: natives are found by both.
Linked(f) == Imports[f] \in DOMAIN Natives /\ SameSignature(f, Imports[f])
GivenType(t) == t
SmallestType(t) == Min({u \in DOMAIN FuncTypes : FuncTypes[u] = FuncTypes[t]})
FuncTypeIndexes == [f \in DOMAIN Functions |-> SmallestType(Functions[f])]
NoFunction == 0
TableElems ==
  FoldLeft(LAMBDA elems, s : [x \in DOMAIN elems |->
             IF x \in s.offset .. s.offset + Len(s.funcs) - 1 THEN s.funcs[x - s.offset + 1]
             ELSE elems[x]],
           [x \in 0 .. TableSize - 1 |-> NoFunction], TableInit)

-----------------------------------------------------------------------------
(* The instructions *)

ExtraResults(R) == IF R = << >> THEN << >> ELSE Tail(R)
CallPointersStuck(R) == Pointers(Buffer(CellNum(ExtraResults(R))), [j \in 1 .. Len(R) - 1 |-> 0])
CallPointers(R) ==
  Pointers(Buffer(CellNum(ExtraResults(R))), [j \in 1 .. Len(R) - 1 |-> CellStart(ExtraResults(R), j)])
\* The cells advance by the type of the result before: they are the right
\* ones when all results but the last take the same number of cells.
IndirectPointers(R) ==
  Pointers(Buffer(CellNum(ExtraResults(R))), [j \in 1 .. Len(R) - 1 |-> CellStart(R, j)])
SameCells(R) == \A j \in DOMAIN R : j < Len(R) => CellCount(R[j]) = CellCount(R[1])
\* Pointer j is put where the callee expects the one after it.
NoSandboxPointers(R) ==
  Pointers(Buffer(CellNum(ExtraResults(R))),
           [j \in 1 .. Len(R) - 1 |-> IF j = 1 THEN Nowhere ELSE CellStart(ExtraResults(R), j - 1)])

DirectCall(sandbox, f, args) ==
  IF IsImport(f) /\ sandbox /\ ~Linked(f) THEN Raises("failed to call unlinked import function")
  ELSE Value(Results(f, TypeOfFunc(f), args, CallPointers(TypeOfFunc(f).results)))

\* elem is an index into the table or, without the sandbox, a function.
IndirectCall(sandbox, t, elem, args) ==
  LET f == TableElems[elem]
      sig == FuncTypes[SmallestType(t)]
  IN  IF ~sandbox THEN Value(Results(elem, sig, args, NoSandboxPointers(sig.results)))
      ELSE IF elem >= TableSize THEN Raises("undefined element")
      ELSE IF f = NoFunction THEN Raises("uninitialized element")
      ELSE IF FuncTypeIndexes[f] # SmallestType(t) THEN Raises("indirect call type mismatch")
      ELSE IF IsImport(f) /\ ~Linked(f) THEN Raises("failed to call unlinked import function")
      ELSE Value(Results(f, sig, args, IndirectPointers(sig.results)))

-----------------------------------------------------------------------------
(* The host: execute_func, and the quick entry of the function's signature  *)

HostCellsIn(sig) == Buffer(Max({CellNum(sig.params), 2}))
HostCells(sig) == Buffer(Max({CellNum(sig.params), CellNum(sig.results), 2}))
Parsed(sig, args) ==
  FoldLeft(LAMBDA cs, i : Put(cs, CellStart(sig.params, i), sig.params[i], args[i]),
           HostCells(sig), [i \in DOMAIN args |-> i])
EntryArguments(sig, argv) == [i \in DOMAIN sig.params |-> Get(argv, CellStart(sig.params, i), sig.params[i])]
\* The cells after the entry: extra results behind the first one.
InvokeNative(f, argv) ==
  LET sig == TypeOfFunc(f)
      R == sig.results
      args == EntryArguments(sig, argv)
      cs == StoreResults(f, args, Pointers(argv, [j \in 1 .. Len(R) - 1 |-> CellStart(R, j + 1)]))
  IN  IF R = << >> THEN cs ELSE Put(cs, 0, R[1], Answer(f, 1, R[1], args))
ExecuteFunc(f, args) ==
  LET R == TypeOfFunc(f).results
      argv1 == InvokeNative(f, Parsed(TypeOfFunc(f), args))
  IN  [j \in DOMAIN R |-> Get(argv1, CellStart(R, j), R[j])]

-----------------------------------------------------------------------------
(* The host: execute_main.  A string is its bytes without the final zero.   *)

Read(m, at, n) == MapThenSumSet(LAMBDA k : m[at + k] * 2^(ByteBits * k), 0 .. n - 1)
Written(m, at, n, x) ==
  [k \in DOMAIN m |-> IF k \in at .. at + n - 1 THEN ByteOf(x, k - at) ELSE m[k]]

AlignUint(n, a) == ((n + a - 1) \div a) * a
PointerSize(wide) == IF wide THEN 8 ELSE 4
PointerType(wide) == IF wide THEN "i64" ELSE "i32"
Lengths(strings) == FoldLeft(LAMBDA n, s : n + Len(s) + 1, 0, strings)
ArgvOffsets(strings, wide) == AlignUint(Lengths(strings), PointerSize(wide))

\* The block of the heap at argv_buf, with the strings and their addresses.
ArgvBlock(strings, wide, argv_buf) ==
  LET w == PointerSize(wide)
      n == Len(strings)
      offsets == argv_buf + ArgvOffsets(strings, wide)
      blank == [k \in argv_buf .. offsets + w * n - 1 |-> 0]
      At(i) == argv_buf + Lengths(SubSeq(strings, 1, i - 1))
      Copied(m, i) == [k \in DOMAIN m |-> IF k \in At(i) .. At(i) + Len(strings[i]) - 1
                                         THEN strings[i][k - At(i) + 1] ELSE m[k]]
  IN  FoldLeft(LAMBDA m, i : Written(Copied(m, i), offsets + w * (i - 1), w, At(i)),
               blank, [i \in 1 .. n |-> i])
\* argc and argv, which the entry (ii)i or (iI)i reads; the address of argv
\* becomes an int32 on its way.
MainArguments(strings, wide, argv_buf) ==
  LET sig == [params |-> <<"i32", PointerType(wide)>>, results |-> <<"i32">>]
      argv == Wrap(Width("i32"), argv_buf + ArgvOffsets(strings, wide))
      signed == Wrap(Width(PointerType(wide)), Signed(Width("i32"), argv))
      argv1 == Put(Put(Buffer(3), 0, "i32", Len(strings)), 1, PointerType(wide), signed)
  IN  EntryArguments(sig, argv1)

\* What main finds: the strings its argv leads to.
StringAt(m, at) ==
  LET ends == {k \in DOMAIN m : k >= at /\ m[k] = 0}
  IN  IF at \notin DOMAIN m \/ ends = {} THEN <<Poison>>
      ELSE [k \in 1 .. Min(ends) - at |-> m[at + k - 1]]
ExecuteMain(strings, wide, argv_buf) ==
  LET m == ArgvBlock(strings, wide, argv_buf)
      w == PointerSize(wide)
      a == MainArguments(strings, wide, argv_buf)
      slots == [i \in 1 .. a[1] |-> a[2] + w * (i - 1)]
  IN  [i \in 1 .. a[1] |-> IF slots[i] .. slots[i] + w - 1 \subseteq DOMAIN m
                           THEN StringAt(m, Read(m, slots[i], w)) ELSE <<Poison>>]

-----------------------------------------------------------------------------
(* What calls mean *)

AnswersOf(f, args) ==
  LET R == TypeOfFunc(f).results IN [j \in DOMAIN R |-> Answer(f, j, R[j], args)]
Callable(f) == IsImport(f) => Imports[f] \in DOMAIN Natives /\ Natives[Imports[f]] = TypeOfFunc(f)
CallMeans(f, args) ==
  IF Callable(f) THEN Value(AnswersOf(f, args)) ELSE Raises("failed to call unlinked import function")

\* The element segments are copied in turn: the last one that covers x counts.
Covering(x) == {s \in DOMAIN TableInit :
                  x \in TableInit[s].offset .. TableInit[s].offset + Len(TableInit[s].funcs) - 1}
Element(x) == LET s == TableInit[Max(Covering(x))] IN s.funcs[x - s.offset + 1]
IndirectCallMeans(t, x, args) ==
  IF x >= TableSize THEN Raises("undefined element")
  ELSE IF Covering(x) = {} THEN Raises("uninitialized element")
  ELSE IF TypeOfFunc(Element(x)) # FuncTypes[t] THEN Raises("indirect call type mismatch")
  ELSE CallMeans(Element(x), args)

=============================================================================
