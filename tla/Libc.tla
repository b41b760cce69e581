-------------------------------- MODULE Libc --------------------------------
(***************************************************************************)
(* The built-in libc of sandboxed modules: functions that check what they  *)
(* are handed, turn the module's addresses into pointers, call the host's  *)
(* libc and turn a pointer it answers back.                                *)
(*                                                                         *)
(* A memory is a function from its addresses to bytes, zero ending a       *)
(* string.  What the host's functions do is given by CCall, for the        *)
(* module's memory as for the host's, with zero for a null pointer.        *)
(***************************************************************************)
EXTENDS Integers, Sequences, SequencesExt, FiniteSetsExt

CONSTANT Data   \* where the memory begins, a multiple of 8

Size(m) == Cardinality(DOMAIN m)
Trapped(m) == [trap |-> "out of bounds", val |-> 0, mem |-> m]
Answers(c) == [trap |-> "none", val |-> c.val, mem |-> c.mem]

-----------------------------------------------------------------------------
(* The functions of libc, over any memory. *)

StrEnd(M, s) == Min({p \in DOMAIN M : p >= s /\ M[p] = 0})
StrLen(M, s) == StrEnd(M, s) - s
StringAt(M, s) == [k \in 1 .. StrLen(M, s) |-> M[s + k - 1]]
BytesAt(M, s, n) == [k \in 1 .. n |-> M[s + k - 1]]
First(S) == IF S = {} THEN 0 ELSE Min(S)
Put(M, d, x) == [p \in DOMAIN M |-> IF p \in d .. d + Len(x) - 1 THEN x[p - d + 1] ELSE M[p]]
\* The first place where they differ decides.
Compare(x, y) ==
  LET D == {k \in 1 .. Min({Len(x), Len(y)}) : x[k] # y[k]}
      Sign(n) == IF n > 0 THEN 1 ELSE IF n < 0 THEN -1 ELSE 0
  IN  Sign(IF D = {} THEN Len(x) - Len(y) ELSE x[Min(D)] - y[Min(D)])
Cut(x, n) == SubSeq(x, 1, Min({n, Len(x)}))
Span(x, in(_)) == Min({k \in 0 .. Len(x) : k = Len(x) \/ ~in(x[k + 1])})

LibcFunctions == {"memcmp", "memcpy", "memmove", "memset", "memchr", "strlen", "strchr", "strcmp",
              "strncmp", "strcpy", "strncpy", "strspn", "strcspn", "strstr"}
CCall(f, M, a) ==
  LET Val(v) == [val |-> v, mem |-> M]
      Gives(x) == [val |-> a[1], mem |-> Put(M, a[1], x)]
      x == StringAt(M, a[1])
      y == StringAt(M, a[2])
  IN CASE f = "memcmp" -> Val(Compare(BytesAt(M, a[1], a[3]), BytesAt(M, a[2], a[3])))
       [] f \in {"memcpy", "memmove"} -> Gives(BytesAt(M, a[2], a[3]))
       [] f = "memset" -> Gives([k \in 1 .. a[3] |-> a[2]])
       [] f = "memchr" -> Val(First({p \in a[1] .. a[1] + a[3] - 1 : M[p] = a[2]}))
       [] f = "strlen" -> Val(Len(x))
       [] f = "strchr" -> Val(First({p \in a[1] .. StrEnd(M, a[1]) : M[p] = a[2]}))
       [] f = "strcmp" -> Val(Compare(x, y))
       [] f = "strncmp" -> Val(Compare(Cut(x, a[3]), Cut(y, a[3])))
       [] f = "strcpy" -> Gives(Append(y, 0))
       [] f = "strncpy" -> Gives([k \in 1 .. a[3] |-> IF k <= Len(y) THEN y[k] ELSE 0])
       [] f = "strspn" -> Val(Span(x, LAMBDA c : c \in ToSet(y)))
       [] f = "strcspn" -> Val(Span(x, LAMBDA c : c \notin ToSet(y)))
       [] f = "strstr" -> Val(First({p \in a[1] .. StrEnd(M, a[1]) - Len(y) : BytesAt(M, p, Len(y)) = y}))

-----------------------------------------------------------------------------
(* The wrappers *)

ValidateAppEnd(m, offset, size) == size <= Size(m) - offset
ValidateAppAddr(m, offset, size) == offset < Size(m) /\ size <= Size(m) - offset
ValidateAppStrAddr(m, offset) ==
  offset < Size(m) /\ \E p \in offset .. Size(m) - 1 : m[p] = 0
ValidateNativeAddr(m, ptr, size) == Data <= ptr /\ ptr + size <= Data + Size(m)
AddrAppToNative(offset) == Data + offset
AddrNativeToApp(ptr) == ptr - Data

RangesValidated(f, m, a) ==
  /\ ValidateAppAddr(m, a[1], a[3])
  /\ f \notin {"memset", "memchr"} => ValidateAppAddr(m, a[2], a[3])
StringsValidated(f, m, a) ==
  LET dst == AddrAppToNative(a[1]) IN
  /\ f \notin {"strcpy", "strncpy"} => ValidateAppStrAddr(m, a[1])
  /\ f \notin {"strlen", "strchr"} => ValidateAppStrAddr(m, a[2])
  /\ f = "strcpy" => ValidateNativeAddr(m, dst, StrLen(m, a[2]) + 1)
  /\ f = "strncpy" => ValidateNativeAddr(m, dst, a[3])
Validated(f, m, a) ==
  IF f \in {"memcmp", "memcpy", "memmove", "memset", "memchr"}
  THEN RangesValidated(f, m, a) ELSE StringsValidated(f, m, a)

\* The arguments that are addresses.
PointersAmong(f) == IF f \in {"memset", "memchr", "strlen", "strchr"} THEN {1} ELSE {1, 2}
AppAnswer(f, a, res) ==
  CASE f \in {"memcpy", "memmove", "memset", "strcpy"} -> a[1]
    [] f \in {"memchr", "strstr", "strncpy"} -> AddrNativeToApp(res)
    [] f = "strchr" -> IF res # 0 THEN AddrNativeToApp(res) ELSE 0
    [] OTHER -> res
Wrapper(f, m, a) ==
  LET host == [p \in Data .. Data + Size(m) - 1 |-> m[p - Data]]
      c == CCall(f, host, [k \in DOMAIN a |-> IF k \in PointersAmong(f) THEN AddrAppToNative(a[k]) ELSE a[k]])
  IN  IF Validated(f, m, a)
      THEN Answers([val |-> AppAnswer(f, a, c.val), mem |-> [p \in DOMAIN m |-> c.mem[p + Data]]])
      ELSE Trapped(m)

\* What a call has to have inside of the memory: whole ranges, whose address
\* is one even if they are empty, and strings with their end.
Range1(s, n) == {s} \cup s .. s + n - 1
Whole(m, s) == s .. First({p \in DOMAIN m : p >= s /\ m[p] = 0} \cup {Size(m) + s})
Handed(f, m, a) ==
  CASE f \in {"memcmp", "memcpy", "memmove"} -> Range1(a[1], a[3]) \cup Range1(a[2], a[3])
    [] f \in {"memset", "memchr"} -> Range1(a[1], a[3])
    [] f \in {"strlen", "strchr"} -> Whole(m, a[1])
    [] f = "strcpy" -> Whole(m, a[2]) \cup {a[1] + (p - a[2]) : p \in Whole(m, a[2])}
    [] f = "strncpy" -> Whole(m, a[2]) \cup {a[1] + k : k \in 0 .. a[3] - 1}
    [] OTHER -> Whole(m, a[1]) \cup Whole(m, a[2])
Meant(f, m, a) == IF Handed(f, m, a) \subseteq DOMAIN m THEN Answers(CCall(f, m, a)) ELSE Trapped(m)
=============================================================================
