---------------------------- MODULE MCAotStraight ----------------------------
(***************************************************************************)
(* Numbers around every boundary, for bytes of two bits.                   *)
(***************************************************************************)
EXTENDS AotStraight

MCTargets == {[sandbox |-> TRUE,  x86 |-> TRUE,  reloc |-> FALSE],
              [sandbox |-> FALSE, x86 |-> FALSE, reloc |-> TRUE],
              [sandbox |-> FALSE, x86 |-> TRUE,  reloc |-> FALSE]}

\* An f32 reaches twice the integers of i32, and an f64 those of i64.
MCFraction == [f32 |-> 2, f64 |-> 10]
MCInfinity == [f32 |-> 76, f64 |-> 13312]
\* Any function does: both sides leave the rounding to IEEE 754.
MCIeee(op, t, operands) ==
  (7 * operands[1] + 13 * operands[Len(operands)] + (IF op \in {"add", "sqrt"} THEN 3 ELSE 5))
    % (2^(IF t = "f32" THEN 8 ELSE 16))

\* 0, 1, 1/2, 1/4, 2^7 and its neighbours, 2^8, the limits, infinity, NaNs.
MCSamples == [
  i8  |-> <<0, 1, 2, 3>>,
  i16 |-> <<0, 1, 2, 7, 8, 9, 15>>,
  i32 |-> <<0, 1, 7, 8, 127, 128, 129, 248, 254, 255>>,
  i64 |-> <<0, 1, 15, 16, 255, 256, 32767, 32768, 32769, 65408, 65535>>,
  f32 |-> <<0, 128, 1, 2, 4, 132, 32, 159, 160, 161, 35, 36, 37, 163, 164, 75, 76, 204, 78, 208>>,
  f64 |-> <<0, 32768, 1, 1024, 2049, 8192, 8193, 9215, 9216, 40960, 40961, 40962,
            16383, 13312, 46080, 13313, 46592>>]

MCSwizzleIds == {<<0, 1, 2, 3, 4, 5, 6, 7, 8, 9, 10, 11, 12, 13, 14, 15>>,
                 <<31, 16, 0, 15, 30, 17, 1, 14, 8, 8, 24, 24, 0, 31, 16, 15>>,
                 <<16, 31, 127, 128, 129, 143, 144, 255, 0, 15, 17, 112, 113, 240, 5, 64>>}

MCInitialMemory == [k \in 0 .. 23 |-> (k + k \div 4 + k \div 7) % 4]

-----------------------------------------------------------------------------
(* Calls: types one of which is there twice, natives of which one has       *)
(* another type, segments that overlap, elements of every kind.             *)

T(params, results) == [params |-> params, results |-> results]
MCFuncTypes == <<
  T(<<"i32", "i64">>, <<"i32">>), T(<< >>, <<"i64", "i32">>), T(<<"i32">>, <<"i32", "i32", "i64">>),
  T(<<"f32", "i32", "i64", "i32", "f64", "i32">>, <<"f64">>), T(<<"v128", "i32", "v128">>, <<"v128">>),
  T(<<"i32", "i64">>, <<"i32">>), T(<<"i32">>, <<"i64", "f64", "i32">>), T(<<"i64">>, <<"i32", "v128", "f32">>),
  T(<< >>, << >>), T(<<"i32">>, <<"i32">>)>>
MCFunctions == <<10, 6, 10, 9, 1, 2, 3, 4, 5, 7, 8, 9, 6>>
MCImports == <<"abs", "strchr", "rand", "missing">>
MCNatives == "abs" :> T(<<"i32">>, <<"i32">>) @@ "strchr" :> T(<<"i32", "i64">>, <<"i32">>)
             @@ "rand" :> T(<< >>, <<"i32">>)
MCTableInit == <<[offset |-> 0, funcs |-> <<5, 6, 7, 4>>], [offset |-> 2, funcs |-> <<10, 2, 13>>],
                 [offset |-> 6, funcs |-> <<3, 8, 9, 11, 12, 1, 7>>]>>
\* (iI)i, ()Ii, (i)iiI, (fiIiFi)F, (ViV)V and () have quick entries.
MCExports == {5, 6, 7, 8, 9, 12}

\* Any function of the arguments does.
MCSum(t, x) == IF t = "v128" THEN FoldLeft(LAMBDA n, b : (3 * n + b) % 251, 1, x) ELSE x
MCAnswer(f, j, t, args) ==
  LET P == FuncTypes[Functions[f]].params
      n == FoldLeft(LAMBDA m, k : (5 * m + MCSum(P[k], args[k])) % 9973, 11 * f + 29 * j, [k \in DOMAIN args |-> k])
  IN  IF t = "v128" THEN [b \in 1 .. 16 |-> (n + b \div 3) % 4] ELSE (197 * n + 1) % 2^Width(t)

MCArguments == {<<<<1, 2>>>>, <<<<3>>, <<2, 1, 3, 1>>, << >>>>,
                <<<<1, 1, 2>>, <<3>>, <<2, 2, 2, 2, 2>>, <<1>>>>}

-----------------------------------------------------------------------------
(* Bodies whose immediates look like opcodes: else, end, the blocks, nop.   *)

Simple(o, says, bytes, d) == <<Walk!Instruction(o, says, bytes, d)>>
\* Padded numbers of two bytes, 11 and 5, or plain ones.
Pieces(d) ==
  {Simple("const", <<11>>, <<11>>, d), Simple("local", <<5>>, <<21, 0>>, d),
   Simple("call_indirect", <<4>>, <<4, 11>>, d), Simple("memory_init", << >>, <<27, 0, 11>>, d),
   Simple("memory_copy", << >>, <<5, 11>>, d), Simple("memory_fill", << >>, <<11>>, d),
   Simple("lane", << >>, <<20, 0, 11, 5>>, d),
   Simple("vector", << >>, [b \in 1 .. 16 |-> <<2, 11, 5, 14>>[(b % 4) + 1]], d),
   Simple("nop", << >>, << >>, d), Simple("drop", << >>, << >>, d) \o Simple("return", << >>, << >>, d)}
Padded(n) == <<16 + (n % 16), n \div 16>>
\* A br_table to the labels, each written in one byte or in two.
Table(labels, wide, d) ==
  <<Walk!Instruction("br_table", labels,
      <<Len(labels) - 1>> \o FlattenSeq([k \in DOMAIN labels |->
                                          IF k \in wide THEN Padded(labels[k]) ELSE <<labels[k]>>]), d)>>
Tables(d) ==
  {Table(l, w, d) : l \in {<<0>>, <<1, 0, 1>>, <<0, 1, 1>>}, w \in SUBSET {1, 2}}
  \cup IF d < 32 THEN {} ELSE {Table(<<11, 32>>, {2}, d), Table(<<32, 5, 11, 31>>, {1, 4}, d),
                               Table(<<2, 11, 1>>, {}, d), Table(<<31, 11, 14>>, {1}, d)}

\* A block with a type byte or the index of a type, 2 or 11.
Heads == {<<15>>, <<2>>, <<27, 0>>}
Closed(d) == Simple("end", << >>, << >>, d)
Nest(o, head, inner, d) == Simple(o, << >>, head, d) \o inner \o Closed(d)
Either(head, then, else, d) ==
  Simple("if", << >>, head, d) \o then \o Simple("else", << >>, << >>, d) \o else \o Closed(d)
Shapes(h, P, Q, d) ==
  {Either(h, p, q, d) : p \in P, q \in Q}
  \cup {Nest("if", h, Either(<<15>>, p, q, d + 1), d) : p \in P, q \in Q}
  \cup {Either(h, Nest("loop", <<8>>, p, d + 1), Nest("if", h, q, d + 1), d) : p \in P, q \in Q}
RECURSIVE Wrapped(_, _)
Wrapped(n, inner) ==
  IF n = 0 THEN inner \o Closed(0)
  ELSE Wrapped(n - 1, Nest("block", IF n % 3 = 0 THEN <<2>> ELSE <<8>>, inner, n))
MCBodies ==
  {Wrapped(0, b) : b \in UNION {Shapes(h, Pieces(2), Tables(2), 1) : h \in Heads}}
  \cup {Wrapped(33, b) : b \in Shapes(<<27, 0>>, Tables(35), {Simple("const", <<11>>, <<11>>, 35)}, 34)}

-----------------------------------------------------------------------------
(* Memories with strings, the last of which has no end; addresses up to the *)
(* end of the memory, ranges beyond it.                                     *)

AsMemory(x) == [p \in 0 .. Len(x) - 1 |-> x[p + 1]]
MCLibcMemories == {AsMemory(<<1, 2, 1, 0, 2, 1, 0, 0>>), AsMemory(<<2, 1, 2, 1, 2, 0, 1, 2>>)}
MCLibcArguments == {0, 1, 4, 6, 8} \X {0, 1, 2, 4, 5, 8} \X {0, 1, 3, 8, 9}

-----------------------------------------------------------------------------
(* printf: conversions of every size, allocations that fail, and memories   *)
(* of 32 bytes: strings, a place to write to, and arguments up to the end   *)
(* of the memory, or arguments and a place at the end.                      *)

WordOf(n) == <<n % 4, (n \div 4) % 4, (n \div 16) % 4, n \div 64>>
Words(w) == FlattenSeq([k \in DOMAIN w |-> WordOf(w[k])])
\* Strings of no, one, two and, from 4 on, three characters.
Strings == <<0, 1, 2, 0, 3, 1, 2, 0>>
Place == <<1, 2, 1, 0, 2, 0, 1, 2>>
\* Addresses of strings; of one that is too long and of none; of one that
\* has no end and of none.
WordLists == {<<1, 0, 2, 0>>, <<4, 0, 40, 0>>, <<29, 0, 1, 85>>}
ArgumentsLast == {AsMemory(Strings \o Place \o Words(w)) : w \in WordLists}
PlaceLast == {AsMemory(Strings \o Words(w) \o x) :
                w \in {<<1, 0, 2, 0>>, <<1, 0, 40, 0>>}, x \in {<<1, 2, 1, 0, 1, 2, 1, 0>>, <<1, 0, 1, 2, 1, 2, 1, 2>>}}

C(mods, conv) == [mods |-> mods, conv |-> conv, fails |-> "none"]
LongFails == [C(<<"l", "l">>, "x") EXCEPT !.fails = "format"]
StringFails == [C(<< >>, "s") EXCEPT !.fails = "string"]
Plain == C(<<1, 2, 3>>, "text")
D == C(<< >>, "d")
S == C(<< >>, "s")
MCItems == {D, C(<<"l">>, "d"), C(<<"l", "l">>, "x"), C(<<"h">>, "u"), C(<<"z">>, "u"), C(<<"j">>, "d"),
            S, C(<< >>, "p"), C(<< >>, "f"), C(<< >>, "c"), LongFails, StringFails, Plain}
FewItems == {D, C(<<"l", "l">>, "x"), S}
Pairs == UNION {[1 .. n -> MCItems] : n \in 0 .. 2}
PrintFormats == {<< >>, <<D>>, <<S>>, <<Plain>>, <<D, S>>, <<S, S>>, <<Plain, S>>, <<Plain, D, S>>,
                 <<D, D, Plain>>, <<S, LongFails>>, <<Plain, StringFails>>, <<Plain, S, S, D>>}

Calls(memories, formats, places, lists) ==
  {[memory |-> m, items |-> f, fmt |-> q, ap |-> a, wide |-> b] :
     m \in memories, f \in formats, q \in places, a \in lists, b \in BOOLEAN}
To(calls, strs, sizes) == {c @@ [str |-> s, size |-> n] : c \in calls, s \in strs, n \in sizes}
MCPrintfCalls ==
  Calls(ArgumentsLast, Pairs \cup [1 .. 3 -> FewItems], {8}, {16, 20, 24, 28, 32})
  \cup Calls(ArgumentsLast, {<< >>, <<D>>, <<Plain>>, <<S, D>>}, {24, 27, 28, 29, 30, 32}, {16, 28})
\* To a place before the arguments, and to one at the end of the memory.
ToCalls(first, second) ==
  To(Calls(ArgumentsLast, PrintFormats, {8, 29}, {16, 24, 28, 32}), {8, 13}, first)
  \cup To(Calls(PlaceLast, PrintFormats, {8}, {8}), {24, 25, 27, 30, 31, 32}, second)
\* sprintf has no size; one that 32 bits do not hold is of 64-bit modules.
MCPrintCalls ==
  [printf |-> MCPrintfCalls, sprintf |-> ToCalls({0}, {0}),
   snprintf |-> ToCalls({0, 1, 3, 4, 6}, {0, 1, 2, 3, 5, 8, 20})
                \cup To({c \in Calls(PlaceLast, PrintFormats, {8}, {8}) : c.wide}, {24}, {256, 258})]
=============================================================================
