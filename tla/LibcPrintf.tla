----------------------------- MODULE LibcPrintf -----------------------------
(***************************************************************************)
(* printf, sprintf and snprintf of the built-in libc, which take their     *)
(* arguments out of the module's memory one by one and check each of them, *)
(* for modules with 32-bit and with 64-bit addresses (wide).               *)
(*                                                                         *)
(* A format is a sequence of items: conversions, each with its modifiers,  *)
(* and texts, with their characters in place of the modifiers, what %% and *)
(* unknown conversions put out among them.  The characters of a format are *)
(* not looked up in the memory; only where it lies is.  fails says         *)
(* which allocation of a conversion fails: of its "format", of the         *)
(* "string", or "none".  A call is a record of the memory, wide, where the *)
(* format lies (fmt), its items, where the arguments begin (ap), the       *)
(* destination (str) and its size, of which printf has neither and sprintf *)
(* no size.                                                                *)
(*                                                                         *)
(* The state of the loop has the str_context and the function it puts      *)
(* characters out with (out) and, beside it, ap, fmt, what os_printf has   *)
(* put out (text), the arguments taken, and trap, which is "outside" after *)
(* an access to what is not the module's memory.                           *)
(***************************************************************************)
EXTENDS Libc

CONSTANTS ByteValues,     \* how many values a byte has
          TempFormat,     \* the size of temp_fmt, 32
          StringBuffer,   \* a string longer than it needs an allocation, 64
          LongestString   \* from here on a string is not printed, UINT32_MAX - 64

-----------------------------------------------------------------------------
(* The conversions *)

Integer == {"d", "u", "x", "c", "p"}
\* long_ctr of a 32-bit module, and long_argument of a 64-bit one.
LongCtr(mods) ==
  FoldLeft(LAMBDA n, c : CASE c \in {"t", "z"} -> 1 [] c = "j" -> 2 [] c = "l" -> n + 1 [] c = "h" -> n,
           0, mods)
LongArgument(i) == i.conv = "p" \/ ToSet(i.mods) \cap {"t", "z", "j", "l"} # {}
IsLong(wide, i) ==
  CASE i.conv \in Integer -> IF wide THEN LongArgument(i) ELSE LongCtr(i.mods) >= 2
    [] i.conv = "s" -> wide
    [] i.conv = "f" -> TRUE
\* What becomes of %ld, %zd and %td of a 32-bit module.
FormatOf(wide, i) ==
  IF ~wide /\ i.conv \in Integer /\ LongCtr(i.mods) = 1 /\ Last(i.mods) \in {"l", "z", "t"}
  THEN Front(i.mods) ELSE i.mods

AlignedUp(ap, n) == ((ap + n - 1) \div n) * n
Unaligned(wide, ap, bytes) == ap
\* In a 32-bit module only what takes eight bytes is aligned, by its pointer.
Aligned(wide, ap, bytes) ==
  IF wide \/ bytes = 8 THEN AddrNativeToApp(AlignedUp(AddrAppToNative(ap), bytes)) ELSE ap

\* CHECK_VA_ARG, of an argument at its aligned place.
CheckVaArgStart(m, at, bytes) == at <= Size(m)
CheckVaArg32(m, at, bytes) == at + bytes <= Size(m)
CheckVaArg64(m, at, bytes) == at <= Size(m)
VaArg(wide, m, ap, bytes) ==
  LET at == Aligned(wide, ap, bytes)
  IN  [at |-> at, bytes |-> bytes,
       checked |-> IF wide THEN CheckVaArg64(m, at, bytes) ELSE CheckVaArg32(m, at, bytes)]

\* The host's snprintf: the bytes of an integer it takes for the modifiers,
\* and characters that tell numbers apart.
HostBytes(mods) == IF ToSet(mods) \cap {"l", "j", "z", "t"} # {} THEN 8 ELSE 4
HostText(conv, n) == IF conv = "c" THEN <<n % ByteValues>> ELSE <<1 + (n % (ByteValues - 1))>>
NullText == <<3, 1, 3>>
ErrText == <<2, 3, 3>>

Number(m, at, n) == FoldRight(LAMBDA b, x : b + ByteValues * x, BytesAt(m, at, n), 0)
ItemBytes(i) == Len(i.mods) + IF i.conv = "text" THEN 0 ELSE 2
FormatLost(i) == i.conv # "text" /\ Len(i.mods) + 3 >= TempFormat /\ i.fails = "format"
StringLost(i, len) == len >= LongestString \/ (len > StringBuffer /\ i.fails = "string")

\* printf_out, and sprintf_out where there is a str.
PrintfOut(ctx, c) == [ctx EXCEPT !.text = Append(@, c), !.count = @ + 1]
PutChar(ctx, c) ==
  IF ctx.str + ctx.count \in DOMAIN ctx.mem
  THEN [ctx EXCEPT !.mem = Put(@, ctx.str + ctx.count, <<c>>)] ELSE [ctx EXCEPT !.trap = "outside"]
SprintfOutLate(ctx, c) ==
  [(IF ctx.count >= ctx.max THEN ctx ELSE PutChar(ctx, c)) EXCEPT !.count = @ + 1]
SprintfOut(ctx, c) ==
  [(IF ctx.count >= ctx.max THEN ctx
    ELSE PutChar(ctx, IF ctx.count = ctx.max - 1 THEN 0 ELSE c)) EXCEPT !.count = @ + 1]
\* The function that the caller of _vprintf_wa passed.
Out(ctx, c) == IF ctx.out = "printf_out" THEN PrintfOut(ctx, c) ELSE SprintfOut(ctx, c)

\* OUTPUT_TEMP_FORMAT stops at a zero in the host's text.
UpToZero(x) == SubSeq(x, 1, Span(x, LAMBDA c : c # 0))
StringText(m, s) == IF s = 0 /\ StrLen(m, s) = 0 THEN NullText ELSE StringAt(m, s)
Raised(w) == [w EXCEPT !.trap = "out of bounds"]
ConvertString(w, i, s) ==
  IF ~ValidateAppStrAddr(w.mem, s) THEN Raised(w)
  ELSE FoldLeft(Out, w, IF StringLost(i, StrLen(w.mem, s)) THEN ErrText ELSE StringText(w.mem, s))
\* A format that cannot be copied leaves its argument where it is.
Convert(wide, w, i) ==
  LET v == VaArg(wide, w.mem, w.ap, IF IsLong(wide, i) THEN 8 ELSE 4)
      n == Number(w.mem, v.at, v.bytes)
      t == [w EXCEPT !.ap = v.at + v.bytes,
              !.taken = Append(@, [at |-> v.at, bytes |-> v.bytes,
                          host |-> IF i.conv \in Integer \ {"p"} THEN HostBytes(FormatOf(wide, i)) ELSE v.bytes])]
  IN  IF FormatLost(i) THEN FoldLeft(Out, w, ErrText)
      ELSE IF ~v.checked THEN Raised(w)
      ELSE IF v.at + v.bytes > Size(w.mem) THEN [w EXCEPT !.trap = "outside"]
      ELSE IF i.conv = "s" THEN ConvertString(t, i, n)
      ELSE FoldLeft(Out, t, UpToZero(HostText(i.conv, n)))
\* _vprintf_wa.  Nothing stops it at the end of the memory but the format's.
VprintfItem(wide, w, i) ==
  LET x == [w EXCEPT !.fmt = @ + ItemBytes(i)]
  IN  IF w.trap # "none" THEN w
      ELSE IF x.fmt > Size(w.mem) THEN [w EXCEPT !.trap = "outside"]
      ELSE IF i.conv = "text" THEN FoldLeft(Out, x, i.mods)
      ELSE Convert(wide, x, i)
Vprintf(wide, ctx, items) ==
  LET w == FoldLeft(LAMBDA x, i : VprintfItem(wide, x, i), ctx, items)
  IN  IF ctx.ap \notin DOMAIN ctx.mem THEN Raised(ctx)
      ELSE IF w.trap = "none" /\ w.fmt \notin DOMAIN w.mem THEN [w EXCEPT !.trap = "outside"]
      ELSE w

\* The wrappers: what the addresses must have behind them, and the answer.
AddressBytes(c) == IF c.wide THEN 8 ELSE 4
AddressesValidated(c) ==
  /\ ValidateAppAddr(c.memory, c.fmt, AddressBytes(c))
  /\ ValidateAppAddr(c.memory, c.ap, AddressBytes(c))
StrContext(c, out, str, max) ==
  [out |-> out, str |-> str, max |-> max % ByteValues^4, count |-> 0, mem |-> c.memory, text |-> << >>,
   ap |-> c.ap, fmt |-> c.fmt, taken |-> << >>, trap |-> "none"]
Outcome(w) == [trap |-> w.trap, val |-> IF w.trap = "none" THEN w.count ELSE 0,
               mem |-> w.mem, text |-> w.text, taken |-> w.taken]
Printf(c) ==
  LET ctx == StrContext(c, "printf_out", 0, 0)
  IN  Outcome(IF AddressesValidated(c) THEN Vprintf(c.wide, ctx, c.items) ELSE Raised(ctx))
PrintTo(c, max) ==
  LET ctx == StrContext(c, "sprintf_out", c.str, max)
      w == Vprintf(c.wide, ctx, c.items)
  IN  Outcome(IF ~(ValidateAppStrAddr(c.memory, c.str) /\ AddressesValidated(c)) THEN Raised(ctx)
              ELSE IF w.trap = "none" /\ w.count < w.max THEN PutChar(w, 0)
              ELSE w)
Sprintf(c) == PrintTo(c, Size(c.memory) - c.str)
Snprintf(c) == PrintTo(c, c.size)

-----------------------------------------------------------------------------
(* What C says of printf, for a caller that puts the arguments one behind   *)
(* the other where their types belong.  The list of arguments, and the      *)
(* format, are taken to have room for an address each.  What is printed     *)
(* when an allocation fails or a string is too long is the program's choice. *)

CBytes(wide, i) ==
  CASE i.conv = "text" -> 0
    [] i.conv = "f" \/ i.mods \in {<<"l", "l">>, <<"j">>} -> 8
    [] i.conv \in {"p", "s"} \/ i.mods \in {<<"l">>, <<"z">>, <<"t">>} -> IF wide THEN 8 ELSE 4
    [] OTHER -> 4
\* Where the argument of each item is, and how long.
Passed(c) ==
  FoldLeft(LAMBDA w, i :
             LET n == CBytes(c.wide, i)
                 at == IF n = 0 THEN w.ap ELSE Min({q \in w.ap .. w.ap + 7 : q % n = 0})
             IN  [ap |-> at + n, places |-> Append(w.places, [at |-> at, bytes |-> n, host |-> n])],
           [ap |-> c.ap, places |-> << >>], c.items).places
Inside(m, p) == p.at .. p.at + p.bytes - 1 \subseteq DOMAIN m
\* Every item up to the first whose argument or whose string is not inside.
Sound(c) ==
  LET P == Passed(c)
      Fine(k) ==
        c.items[k].conv = "text" \/ FormatLost(c.items[k])
        \/ /\ Inside(c.memory, P[k])
           /\ c.items[k].conv = "s" =>
                Whole(c.memory, Number(c.memory, P[k].at, P[k].bytes)) \subseteq DOMAIN c.memory
  IN  {k \in DOMAIN c.items : \A j \in 1 .. k : Fine(j)}
Says(c, i, p) ==
  LET n == Number(c.memory, p.at, p.bytes) IN
  CASE i.conv = "text" -> i.mods
    [] FormatLost(i) -> ErrText
    [] i.conv = "s" /\ ~FormatLost(i) ->
         IF StringLost(i, StrLen(c.memory, n)) THEN ErrText
         ELSE IF n = 0 /\ c.memory[0] = 0 THEN NullText ELSE StringAt(c.memory, n)
    [] OTHER -> HostText(i.conv, n)
\* What the items up to there say, and their arguments, with that of the string.
Text(c) == FlattenSeq([k \in 1 .. Cardinality(Sound(c)) |-> Says(c, c.items[k], Passed(c)[k])])
Taken(c) ==
  LET K == SelectSeq([k \in 1 .. Min({Cardinality(Sound(c)) + 1, Len(c.items)}) |-> k],
                     LAMBDA k : /\ c.items[k].conv # "text" /\ ~FormatLost(c.items[k])
                                /\ Inside(c.memory, Passed(c)[k]))
  IN  [j \in DOMAIN K |-> Passed(c)[K[j]]]
FormatBytes(c) == 1 + FoldLeft(LAMBDA n, i : n + ItemBytes(i), 0, c.items)
AddressesInside(c) ==
  \A a \in {c.fmt, c.ap} : a .. a + AddressBytes(c) - 1 \subseteq DOMAIN c.memory
FormatInside(c) == c.fmt .. c.fmt + FormatBytes(c) - 1 \subseteq DOMAIN c.memory
Begins(c) == AddressesInside(c) /\ FormatInside(c)
\* As much as fits with a zero after it; what was printed before an exception
\* has no zero yet.
Written(size, chars, whole) ==
  IF size = 0 THEN << >>
  ELSE IF whole \/ Len(chars) >= size THEN Append(Cut(chars, size - 1), 0) ELSE chars
MeantOf(c, mem, text, starts) ==
  LET whole == starts /\ Sound(c) = DOMAIN c.items
  IN  [trap |-> IF whole THEN "none" ELSE "out of bounds", val |-> IF whole THEN Len(Text(c)) ELSE 0,
       mem |-> IF starts THEN mem ELSE c.memory, text |-> IF starts THEN text ELSE << >>,
       taken |-> IF starts THEN Taken(c) ELSE << >>]
WrittenTo(c, size) == Written(size, Text(c), Sound(c) = DOMAIN c.items)
PrintfMeant(c) == MeantOf(c, c.memory, Text(c), Begins(c))
PrintToMeant(c, size) ==
  MeantOf(c, Put(c.memory, c.str, WrittenTo(c, size)), << >>, c.str \in DOMAIN c.memory /\ Begins(c))
SprintfMeant(c) == PrintToMeant(c, Size(c.memory) - c.str)
SnprintfMeant(c) == PrintToMeant(c, c.size)

-----------------------------------------------------------------------------
(* Calls of which the code does something else, or something undefined.     *)

\* The format goes on beyond the end of the memory.
FormatUnended(c) == ~FormatInside(c)
\* CHECK_VA_ARG of 64 bits lets an argument begin where the memory ends.
ArgumentsRunOut64(c) == c.wide /\ \E p \in ToSet(Passed(c)) : ~Inside(c.memory, p)
\* The argument of a format that was not copied is taken for the next one's.
ArgumentLeft(c) ==
  \E j, k \in DOMAIN c.items : j < k /\ FormatLost(c.items[j]) /\ c.items[k].conv # "text"
\* %c of zero puts out nothing.
ZeroCharacter(c) ==
  \E k \in Sound(c) : c.items[k].conv = "c" /\ Number(c.memory, Passed(c)[k].at, 1) = 0
\* A destination is refused when it has no zero yet.
DestinationUnended(c) ==
  c.str \in DOMAIN c.memory /\ ~(Whole(c.memory, c.str) \subseteq DOMAIN c.memory)
\* Nobody looks whether the size fits the memory, and 64 bits of it are cut.
WritesBeyond(c) ==
  c.str \in DOMAIN c.memory /\ Len(WrittenTo(c, c.size)) > Size(c.memory) - c.str
SizeCut(c) == c.size >= ByteValues^4

\* Addresses that are no good are refused in any case.
PrintfPromised(c) ==
  AddressesInside(c) =>
    ~(FormatUnended(c) \/ ArgumentsRunOut64(c) \/ ArgumentLeft(c) \/ ZeroCharacter(c))
SprintfPromised(c) == PrintfPromised(c) /\ ~DestinationUnended(c)
SnprintfPromised(c) == SprintfPromised(c) /\ ~(WritesBeyond(c) \/ SizeCut(c))
=============================================================================
