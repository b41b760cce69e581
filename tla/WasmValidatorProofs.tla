------------------------ MODULE WasmValidatorProofs ------------------------
(***************************************************************************)
(* The operand stack of the validator, for all types, limits and bodies:   *)
(* bases rise with the nesting (TypesInvariant), an opcode changes no      *)
(* operand of an enclosing block (LowerKept), values are never split       *)
(* (WholeInvariant), and one of unknown type is only ever the lowest of a  *)
(* block whose code is unreachable (AnyInvariant).  The second half proves *)
(* that the walk over cells is the typing algorithm over values            *)
(* (ValidatorImplementsTyping).                                            *)
(*                                                                         *)
(* Values are popped and pushed in loops, which are recursive functions    *)
(* here.  Induction over them rests on the least element of a set of       *)
(* numbers, which the library gives for well-founded relations.            *)
(***************************************************************************)
EXTENDS WasmValidator, SequenceTheorems, WellFoundedInduction, TLAPS

-----------------------------------------------------------------------------
(* Induction *)

LEMMA LessIsWellFounded == IsWellFoundedOn({p \in Nat \X Nat : p[1] < p[2]}, Nat)
  BY NatLessThanWellFounded DEF OpToRel

LEMMA Least ==
  ASSUME NEW T \in SUBSET Nat, T # {}
  PROVE  \E m \in T : \A n \in T : m <= n
<1>. DEFINE R == {p \in Nat \X Nat : p[1] < p[2]}
<1>1. IsWellFoundedOn(R, Nat)
  BY LessIsWellFounded
<1>2. ASSUME NEW m \in Nat, NEW n \in Nat, <<n, m>> \notin R PROVE m <= n
  BY <1>2
<1>. HIDE DEF R
<1>3. PICK m \in T : \A n \in T : <<n, m>> \notin R
  BY <1>1, WFMin
<1>4. QED
  BY <1>2, <1>3

\* Induction up to n, for a set in place of a predicate.
LEMMA UpTo ==
  ASSUME NEW n \in Nat, NEW S, 0 \in S, \A i \in 1 .. n : i - 1 \in S => i \in S
  PROVE  \A i \in 0 .. n : i \in S
<1>. DEFINE T == {i \in 0 .. n : i \notin S}
<1>1. SUFFICES ASSUME T # {} PROVE FALSE
  OBVIOUS
<1>2. T \in SUBSET Nat
  OBVIOUS
<1>3. PICK m \in T : \A k \in T : m <= k
  <2>. HIDE DEF T
  <2>1. QED
    BY <1>1, <1>2, Least
<1>4. m \in 1 .. n /\ m - 1 \in 0 .. n /\ m - 1 \notin T
  BY <1>3
<1>5. QED
  BY <1>3, <1>4

\* PushAll and PopAll do one step after the other.
LEMMA PushAllSteps ==
  ASSUME NEW s, NEW ts \in Seq(ValueTypes \cup {AnyType})
  PROVE  \E f : /\ f[0] = s /\ PushAll(s, ts) = f[Len(ts)]
                /\ \A i \in 1 .. Len(ts) : f[i] = Push(f[i - 1], ts[i])
<1>. DEFINE n == Len(ts)
            Upto(f, m) == f = [i \in 0 .. m |-> IF i = 0 THEN s ELSE Push(f[i - 1], ts[i])]
            S == {m \in 0 .. n : \E f : Upto(f, m)}
<1>1. n \in Nat
  OBVIOUS
<1>. HIDE DEF n
<1>2. 0 \in S
  <2>1. Upto([i \in 0 .. 0 |-> s], 0)
    OBVIOUS
  <2>. HIDE DEF Upto
  <2>2. QED
    BY <2>1, <1>1
<1>3. ASSUME NEW m \in 1 .. n, m - 1 \in S PROVE m \in S
  <2>1. PICK g : Upto(g, m - 1)
    BY <1>3
  <2>. DEFINE h == [i \in 0 .. m |-> IF i = m THEN Push(g[m - 1], ts[m]) ELSE g[i]]
  <2>2. ASSUME NEW i \in 0 .. m PROVE h[i] = IF i = 0 THEN s ELSE Push(h[i - 1], ts[i])
    <3>1. CASE i = m
      BY <3>1, <1>1
    <3>2. CASE i # m
      <4>1. g[i] = IF i = 0 THEN s ELSE Push(g[i - 1], ts[i])
        BY <3>2, <2>1, <1>1
      <4>2. i # 0 => i - 1 \in 0 .. m /\ i - 1 # m
        BY <1>1
      <4>3. QED
        BY <4>1, <4>2, <3>2
    <3>3. QED
      BY <3>1, <3>2
  <2>3. Upto(h, m)
    BY <2>2
  <2>. HIDE DEF Upto, h
  <2>4. QED
    BY <2>3, <1>1
<1>4. PICK g : Upto(g, n)
  <2>. HIDE DEF S
  <2>1. \A i \in 0 .. n : i \in S
    BY <1>1, <1>2, <1>3, UpTo
  <2>2. n \in S
    BY <2>1, <1>1
  <2>. HIDE DEF Upto
  <2>3. QED
    BY <2>2 DEF S
<1>. DEFINE f == CHOOSE f : Upto(f, n)
<1>5. Upto(f, n)
  BY <1>4
<1>6. PushAll(s, ts) = f[Len(ts)]
  BY DEF PushAll, n
<1>. HIDE DEF f
<1>7. QED
  BY <1>1, <1>5, <1>6 DEF n

LEMMA PopAllSteps ==
  ASSUME NEW s, NEW b, NEW ts \in Seq(ValueTypes \cup {AnyType})
  PROVE  \E f : /\ f[0] = s /\ PopAll(s, b, ts) = f[Len(ts)]
                /\ \A i \in 1 .. Len(ts) : f[i] = Pop(f[i - 1], b, ts[Len(ts) + 1 - i])
<1>. DEFINE n == Len(ts)
            From(f, m) == f = [i \in m .. n |-> IF i = n THEN s ELSE Pop(f[i + 1], b, ts[i + 1])]
            S == {k \in 0 .. n : \E f : From(f, n - k)}
<1>1. n \in Nat
  OBVIOUS
<1>. HIDE DEF n
<1>2. 0 \in S
  <2>1. From([i \in n .. n |-> s], n - 0)
    BY <1>1
  <2>. HIDE DEF From
  <2>2. QED
    BY <2>1, <1>1
<1>3. ASSUME NEW k \in 1 .. n, k - 1 \in S PROVE k \in S
  <2>. DEFINE m == n - k
  <2>1. m \in Nat /\ m < n /\ n - (k - 1) = m + 1
    BY <1>1
  <2>2. PICK g : From(g, m + 1)
    BY <1>3, <2>1
  <2>. HIDE DEF m
  <2>. DEFINE h == [i \in m .. n |-> IF i = m THEN Pop(g[m + 1], b, ts[m + 1]) ELSE g[i]]
  <2>3. ASSUME NEW i \in m .. n
        PROVE  h[i] = IF i = n THEN s ELSE Pop(h[i + 1], b, ts[i + 1])
    <3>1. i # n => i + 1 \in m .. n /\ i + 1 # m
      BY <1>1, <2>1
    <3>2. CASE i = m
      BY <3>1, <3>2, <2>1
    <3>3. CASE i # m
      <4>1. g[i] = IF i = n THEN s ELSE Pop(g[i + 1], b, ts[i + 1])
        BY <3>3, <2>1, <2>2, <1>1
      <4>2. QED
        BY <4>1, <3>1, <3>3
    <3>4. QED
      BY <3>2, <3>3
  <2>4. From(h, m)
    BY <2>3
  <2>. HIDE DEF From, h
  <2>5. QED
    BY <2>4, <1>1 DEF m
<1>4. PICK g : From(g, 0)
  <2>. HIDE DEF S
  <2>1. \A i \in 0 .. n : i \in S
    BY <1>1, <1>2, <1>3, UpTo
  <2>2. n \in S /\ n - n = 0
    BY <2>1, <1>1
  <2>3. QED
    BY <2>2 DEF S
<1>. DEFINE f == CHOOSE f : From(f, 0)
<1>5. From(f, 0)
  BY <1>4
<1>6. PopAll(s, b, ts) = f[0]
  BY DEF PopAll, n
<1>. HIDE DEF f
<1>. DEFINE e == [i \in 0 .. n |-> f[n - i]]
<1>7. e[0] = s /\ e[n] = f[0]
  BY <1>1, <1>5
<1>8. ASSUME NEW i \in 1 .. n PROVE e[i] = Pop(e[i - 1], b, ts[n + 1 - i])
  <2>1. n - i \in 0 .. n /\ n - i # n /\ n - i + 1 = n - (i - 1) /\ n - i + 1 = n + 1 - i
    BY <1>1
  <2>2. f[n - i] = Pop(f[n - i + 1], b, ts[n - i + 1])
    BY <1>5, <2>1
  <2>3. i - 1 \in 0 .. n
    BY <1>1
  <2>4. QED
    BY <2>1, <2>2, <2>3
<1>9. QED
  BY <1>6, <1>7, <1>8 DEF n

-----------------------------------------------------------------------------
(* What pushing and popping leave alone *)

Cell == ValueTypes \cup {AnyType}
Outcomes == {"checking", "rejected", "limit", "accepted"}
Stacks == [cells : Seq(Cell), outcome : Outcomes]
Blocks == [label : {"function", "block", "loop", "if"}, params : Seq(ValueTypes),
           results : Seq(ValueTypes), base : Nat, hasElse : BOOLEAN, poly : BOOLEAN]

\* s reaches down to the base of b, is as r is below it, and has whole values
\* above it, one of unknown type only as the first, in unreachable code.
Keeps(s, b, r) ==
  /\ s \in Stacks
  /\ Good(s) =>
       /\ b.base <= Len(s.cells) /\ Len(s.cells) <= MaxCells
       /\ \A k \in 1 .. b.base : s.cells[k] = r[k]
       /\ \A k \in b.base + 1 .. Len(s.cells) :
            s.cells[k] = AnyType => k = b.base + 1 /\ b.poly
       /\ WholeFrom(s.cells, b.base, Len(s.cells))

LEMMA WholeSame ==
  ASSUME NEW c, NEW d, NEW lo \in Nat, NEW hi \in Nat, WholeFrom(c, lo, hi),
         \A k \in lo + 1 .. hi : d[k] = c[k]
  PROVE  WholeFrom(d, lo, hi)
<1>1. PICK T \in SUBSET (lo .. hi) : /\ lo \in T /\ hi \in T
                                    /\ \A u \in T \ {lo} : OneValue(c, T, u)
  BY DEF WholeFrom
<1>2. \A u \in T \ {lo} : u \in lo + 1 .. hi
  <2>1. \A u \in lo .. hi : u # lo => u \in lo + 1 .. hi
    OBVIOUS
  <2>2. QED
    BY <2>1
<1>3. ASSUME NEW u \in T \ {lo} PROVE OneValue(d, T, u)
  <2>. DEFINE v == Below(c, u)
  <2>1. v \in T /\ \A k \in v + 1 .. u : c[k] = c[u]
    BY <1>1 DEF OneValue
  <2>2. d[u] = c[u]
    BY <1>2
  <2>3. Below(d, u) = v
    BY <2>2 DEF Below
  <2>. HIDE DEF v
  <2>4. v \in lo .. hi /\ u \in lo .. hi
    BY <2>1
  <2>5. \A k \in v + 1 .. u : d[k] = d[u]
    BY <2>1, <2>2, <2>4
  <2>6. QED
    BY <2>1, <2>3, <2>5 DEF OneValue
<1>4. QED
  BY <1>1, <1>3 DEF WholeFrom

LEMMA WholeNone ==
  ASSUME NEW c, NEW lo \in Nat
  PROVE  WholeFrom(c, lo, lo)
<1>1. {lo} \in SUBSET (lo .. lo)
  OBVIOUS
<1>2. QED
  BY <1>1 DEF WholeFrom

LEMMA WholeJoined ==
  ASSUME NEW c, NEW lo \in Nat, NEW mid \in Nat, NEW hi \in Nat,
         lo <= mid, mid <= hi, WholeFrom(c, lo, mid), WholeFrom(c, mid, hi)
  PROVE  WholeFrom(c, lo, hi)
<1>1. PICK T \in SUBSET (lo .. mid) : /\ lo \in T /\ mid \in T
                                     /\ \A u \in T \ {lo} : OneValue(c, T, u)
  BY DEF WholeFrom
<1>2. PICK U \in SUBSET (mid .. hi) : /\ mid \in U /\ hi \in U
                                     /\ \A u \in U \ {mid} : OneValue(c, U, u)
  BY DEF WholeFrom
<1>3. T \cup U \in SUBSET (lo .. hi)
  OBVIOUS
<1>4. ASSUME NEW u \in (T \cup U) \ {lo} PROVE OneValue(c, T \cup U, u)
  <2>1. u \in T \ {lo} \/ u \in U \ {mid}
    BY <1>1
  <2>2. QED
    BY <2>1, <1>1, <1>2 DEF OneValue
<1>5. QED
  BY <1>1, <1>2, <1>3, <1>4 DEF WholeFrom

LEMMA CopiesType ==
  ASSUME NEW t \in Cell
  PROVE  /\ Copies(t) \in Seq(Cell) /\ Len(Copies(t)) \in {1, 2, 4}
         /\ \A i \in 1 .. Len(Copies(t)) : Copies(t)[i] = t
         /\ t # AnyType => Len(Copies(t)) = Cells(t)
         /\ t = AnyType => Len(Copies(t)) = 1
         /\ t = AnyType <=> t \notin ValueTypes
         /\ Len(Copies(t)) = Width(t) /\ Width(t) \in {1, 2, 4}
<1>1. "any" \notin ValueTypes
  BY TypesAssumption
<1>2. CASE t = AnyType
  BY <1>1, <1>2 DEF Copies, AnyType, Cell, Width
<1>3. CASE t # AnyType
  <2>1. t \in {"i32", "f32", "i64", "f64", "v128"}
    BY <1>3, TypesAssumption DEF Cell
  <2>2. Cells(t) \in {1, 2, 4}
    BY <2>1 DEF Cells
  <2>. DEFINE n == Cells(t)
  <2>3. Copies(t) = [i \in 1 .. n |-> t]
    BY <1>3 DEF Copies
  <2>. HIDE DEF n
  <2>4. n \in {1, 2, 4}
    BY <2>2 DEF n
  <2>5. Copies(t) \in Seq(Cell) /\ Len(Copies(t)) = n /\ \A i \in 1 .. n : Copies(t)[i] = t
    BY <2>3, <2>4
  <2>6. QED
    BY <2>4, <2>5, <1>3 DEF n, Cell, Width
<1>4. QED
  BY <1>2, <1>3

LEMMA PushKeeps ==
  ASSUME NEW s, NEW b \in Blocks, NEW r, NEW t \in Cell, Keeps(s, b, r),
         t = AnyType => b.poly /\ (Good(s) => Len(s.cells) = b.base)
  PROVE  Keeps(Push(s, t), b, r)
<1>1. CASE ~Good(s)
  BY <1>1 DEF Push
<1>2. CASE Good(s) /\ Len(s.cells) + Len(Copies(t)) > MaxCells
  BY <1>2 DEF Push, Fails, Keeps, Stacks, Good, Outcomes
<1>3. CASE Good(s) /\ ~(Len(s.cells) + Len(Copies(t)) > MaxCells)
  <2>. DEFINE c == Copies(t)
              d == s.cells \o c
  <2>1. Push(s, t) = Fine(d)
    BY <1>3 DEF Push
  <2>2. /\ c \in Seq(Cell) /\ Len(c) \in {1, 2, 4} /\ \A i \in 1 .. Len(c) : c[i] = t
        /\ t = AnyType => Len(c) = 1
    BY CopiesType
  <2>3. s.cells \in Seq(Cell) /\ b.base \in Nat /\ MaxCells \in Nat
    BY ValidatorAssumption DEF Keeps, Stacks, Blocks
  <2>4. Len(s.cells) + Len(c) <= MaxCells
    BY <1>3, <2>2, <2>3
  <2>. HIDE DEF c
  <2>5. /\ d \in Seq(Cell) /\ Len(d) = Len(s.cells) + Len(c)
        /\ \A k \in 1 .. Len(s.cells) : d[k] = s.cells[k]
        /\ \A k \in Len(s.cells) + 1 .. Len(d) : d[k] = t
    BY <2>2, <2>3
  <2>. HIDE DEF d
  <2>6. /\ b.base <= Len(d) /\ \A k \in 1 .. b.base : d[k] = r[k]
    BY <2>2, <2>3, <2>5, <1>3 DEF Keeps
  <2>7. ASSUME NEW k \in b.base + 1 .. Len(d), d[k] = AnyType PROVE k = b.base + 1 /\ b.poly
    <3>1. CASE k <= Len(s.cells)
      <4>1. /\ Len(s.cells) \in Nat /\ k \in b.base + 1 .. Len(s.cells)
            /\ k \in 1 .. Len(s.cells)
        BY <3>1, <2>3
      <4>2. s.cells[k] = AnyType
        BY <4>1, <2>5, <2>7
      <4>3. QED
        BY <4>1, <4>2, <1>3 DEF Keeps
    <3>2. CASE k > Len(s.cells)
      <4>1. t = AnyType
        BY <3>2, <2>3, <2>5, <2>7
      <4>2. b.poly /\ Len(s.cells) = b.base /\ Len(c) = 1
        BY <4>1, <2>2, <1>3
      <4>3. Len(d) = b.base + 1
        BY <4>2, <2>5
      <4>4. k = b.base + 1
        BY <4>3, <2>3
      <4>5. QED
        BY <4>2, <4>4
    <3>3. QED
      BY <3>1, <3>2, <2>3, <2>5
  <2>8. Fine(d) \in Stacks /\ Fine(d).cells = d
    BY <2>5 DEF Fine, Stacks, Outcomes
  <2>9. WholeFrom(d, b.base, Len(d))
    <3>1. Len(c) = Width(t)
      BY CopiesType DEF c
    <3>2. b.base <= Len(s.cells) /\ WholeFrom(s.cells, b.base, Len(s.cells))
      BY <1>3 DEF Keeps
    <3>3. Len(s.cells) \in Nat /\ Len(d) \in Nat
      BY <2>2, <2>3, <2>5
    <3>4. WholeFrom(d, b.base, Len(s.cells))
      <4>1. \A k \in b.base + 1 .. Len(s.cells) : d[k] = s.cells[k]
        BY <3>3, <2>3, <2>5
      <4>. DEFINE lo == b.base
                  hi == Len(s.cells)
                  e == s.cells
      <4>2. lo \in Nat /\ hi \in Nat /\ WholeFrom(e, lo, hi)
        BY <3>2, <3>3, <2>3
      <4>3. \A k \in lo + 1 .. hi : d[k] = e[k]
        BY <4>1
      <4>. HIDE DEF lo, hi, e
      <4>4. WholeFrom(d, lo, hi)
        BY <4>2, <4>3, WholeSame
      <4>5. QED
        BY <4>4 DEF lo, hi
    <3>5. WholeFrom(d, Len(s.cells), Len(d))
      <4>1. {Len(s.cells), Len(d)} \in SUBSET (Len(s.cells) .. Len(d))
        BY <3>3, <2>2, <2>5
      <4>2. Below(d, Len(d)) = Len(s.cells)
        <5>1. Len(d) \in Len(s.cells) + 1 .. Len(d)
          <6>1. Len(c) \in {1, 2, 4}
            BY <2>2
          <6>2. Len(d) = Len(s.cells) + Len(c)
            BY <2>5
          <6>. DEFINE n == Len(c)
          <6>. HIDE DEF n
          <6>3. n \in {1, 2, 4} /\ Len(d) = Len(s.cells) + n
            BY <6>1, <6>2 DEF n
          <6>4. QED
            BY <6>3, <3>3
        <5>2. d[Len(d)] = t
          BY <5>1, <2>5
        <5>3. QED
          BY <5>2, <3>3, <2>2, <2>5 DEF Below, c
      <4>3. \A k \in Below(d, Len(d)) + 1 .. Len(d) : d[k] = d[Len(d)]
        <5>1. Len(d) \in Len(s.cells) + 1 .. Len(d) \/ Len(d) = Len(s.cells)
          BY <3>3, <2>2, <2>5
        <5>2. QED
          BY <5>1, <4>2, <3>3, <2>5
      <4>4. QED
        BY <4>1, <4>2, <4>3 DEF WholeFrom, OneValue
    <3>6. QED
      BY <3>2, <3>3, <3>4, <3>5, <2>2, <2>3, <2>5, WholeJoined
  <2>10. QED
    BY <2>1, <2>2, <2>3, <2>4, <2>5, <2>6, <2>7, <2>8, <2>9 DEF Keeps
<1>4. QED
  BY <1>1, <1>2, <1>3

\* Popping the value on top, by the width of its last cell.
LEMMA CutKeeps ==
  ASSUME NEW s, NEW b \in Blocks, NEW r, Keeps(s, b, r), Good(s), Len(s.cells) > b.base
  PROVE  /\ Keeps(Fine(PopCells(s.cells, Width(Last(s.cells)))), b, r)
         /\ Len(PopCells(s.cells, Width(Last(s.cells)))) = Len(s.cells) - Width(Last(s.cells))
<1>. DEFINE n == Width(Last(s.cells))
            d == SubSeq(s.cells, 1, Len(s.cells) - n)
<1>1. s.cells \in Seq(Cell) /\ b.base \in Nat /\ MaxCells \in Nat
  BY ValidatorAssumption DEF Keeps, Stacks, Blocks
<1>2. Last(s.cells) = s.cells[Len(s.cells)] /\ Last(s.cells) \in Cell
  BY <1>1 DEF Last
<1>3. n \in {1, 2, 4} /\ n = Width(s.cells[Len(s.cells)])
  BY <1>2, CopiesType
<1>. HIDE DEF n
<1>4. PICK T \in SUBSET (b.base .. Len(s.cells)) :
            /\ b.base \in T /\ Len(s.cells) \in T
            /\ \A u \in T \ {b.base} : OneValue(s.cells, T, u)
  BY DEF Keeps, WholeFrom
<1>5. Len(s.cells) - n \in T /\ Len(s.cells) - n >= b.base
  <2>1. Len(s.cells) # b.base
    BY <1>1
  <2>2. Len(s.cells) - n \in T
    BY <2>1, <1>2, <1>3, <1>4, CopiesType DEF OneValue, Below
  <2>3. QED
    BY <2>2, <1>1, <1>3
<1>6. /\ d \in Seq(Cell) /\ Len(d) = Len(s.cells) - n
      /\ \A k \in 1 .. Len(d) : d[k] = s.cells[k]
  BY <1>1, <1>3, <1>5
<1>7. PopCells(s.cells, n) = d
  BY DEF PopCells
<1>. HIDE DEF d
<1>8. Fine(d) \in Stacks /\ Fine(d).cells = d
  BY <1>6 DEF Fine, Stacks, Outcomes
<1>9. /\ b.base <= Len(s.cells) /\ Len(s.cells) <= MaxCells
      /\ \A k \in 1 .. b.base : s.cells[k] = r[k]
      /\ \A k \in b.base + 1 .. Len(s.cells) : s.cells[k] = AnyType => k = b.base + 1 /\ b.poly
  BY DEF Keeps
<1>10. b.base <= Len(d) /\ Len(d) <= MaxCells
  BY <1>1, <1>3, <1>5, <1>6, <1>9
<1>11. ASSUME NEW k \in 1 .. b.base PROVE d[k] = r[k]
  BY <1>1, <1>6, <1>9, <1>10
<1>12. ASSUME NEW k \in b.base + 1 .. Len(d), d[k] = AnyType PROVE k = b.base + 1 /\ b.poly
  <2>1. k \in 1 .. Len(d) /\ k \in b.base + 1 .. Len(s.cells)
    BY <1>1, <1>3, <1>6
  <2>2. s.cells[k] = AnyType
    BY <2>1, <1>6, <1>12
  <2>3. QED
    BY <2>1, <2>2, <1>9
<1>13. WholeFrom(d, b.base, Len(d))
  <2>. DEFINE U == {u \in T : u <= Len(d)}
  <2>1. U \in SUBSET (b.base .. Len(d)) /\ b.base \in U /\ Len(d) \in U
    <3>1. Len(d) \in Nat /\ Len(d) \in T /\ b.base \in T /\ b.base <= Len(d)
      BY <1>4, <1>5, <1>6, <1>10
    <3>2. Len(d) \in U /\ b.base \in U
      BY <3>1, <1>1
    <3>3. ASSUME NEW u \in U PROVE u \in b.base .. Len(d)
      <4>1. u \in b.base .. Len(s.cells) /\ u <= Len(d)
        OBVIOUS
      <4>2. QED
        BY <4>1, <3>1, <1>1
    <3>4. QED
      BY <3>2, <3>3
  <2>2. ASSUME NEW u \in U \ {b.base} PROVE OneValue(d, U, u)
    <3>1. u \in 1 .. Len(d) /\ u \in T \ {b.base}
      BY <2>1, <1>1
    <3>2. d[u] = s.cells[u] /\ d[u] \in Cell
      BY <3>1, <1>6
    <3>. DEFINE v == Below(d, u)
    <3>3. PICK l \in {1, 2, 4} : v = u - l
      BY <3>2, CopiesType DEF Below
    <3>4. v \in T /\ \A k \in v + 1 .. u : s.cells[k] = s.cells[u]
      BY <3>1, <3>2, <1>4 DEF OneValue, Below
    <3>. HIDE DEF v
    <3>5. v \in b.base .. Len(s.cells) /\ v < u /\ u <= Len(d) /\ Len(d) \in Nat
      BY <3>1, <3>3, <3>4, <1>1, <1>6
    <3>6. v \in U /\ \A k \in v + 1 .. u : k \in 1 .. Len(d)
      BY <3>1, <3>4, <3>5, <1>1
    <3>7. \A k \in v + 1 .. u : d[k] = d[u]
      BY <3>1, <3>4, <3>6, <1>6
    <3>8. QED
      BY <3>6, <3>7 DEF OneValue, v
  <2>. HIDE DEF U
  <2>3. QED
    BY <2>1, <2>2 DEF WholeFrom
<1>14. QED
  BY <1>6, <1>7, <1>8, <1>10, <1>11, <1>12, <1>13 DEF Keeps, n

LEMMA PopKeeps ==
  ASSUME NEW s, NEW b \in Blocks, NEW r, NEW t \in Cell, Keeps(s, b, r)
  PROVE  Keeps(Pop(s, b, t), b, r)
<1>. DEFINE available == Len(s.cells) - b.base
<1>1. s.cells \in Seq(Cell) /\ b.base \in Nat /\ available \in Int
  BY DEF Keeps, Stacks, Blocks
<1>2. CASE ~Good(s) \/ (available <= 0 /\ b.poly)
  BY <1>2 DEF Pop
<1>3. CASE Good(s) /\ ~(available <= 0 /\ b.poly)
  <2>1. CASE available > 0 /\ Last(s.cells) = AnyType
    <3>1. Pop(s, b, t) = Fine(PopCells(s.cells, 1))
      BY <1>3, <2>1 DEF Pop
    <3>2. Width(Last(s.cells)) = 1
      BY <2>1 DEF Width
    <3>3. QED
      BY <3>1, <3>2, <1>1, <1>3, <2>1, CutKeeps
  <2>2. CASE ~(available > 0 /\ Last(s.cells) = AnyType) /\ OnTop(s.cells, available, Copies(t))
    <3>1. Pop(s, b, t) = Fine(PopCells(s.cells, Cells(t)))
      BY <1>3, <2>2 DEF Pop
    <3>. DEFINE c == Copies(t)
    <3>2. Len(c) \in {1, 2, 4} /\ \A i \in 1 .. Len(c) : c[i] = t
      BY CopiesType
    <3>3. Len(c) <= available /\ SubSeq(s.cells, Len(s.cells) - Len(c) + 1, Len(s.cells)) = c
      BY <2>2 DEF OnTop
    <3>. HIDE DEF c
    <3>4. Last(s.cells) = t /\ available > 0
      <4>1. Len(s.cells) \in Nat /\ Len(s.cells) - Len(c) + 1 \in 1 .. Len(s.cells)
        BY <3>2, <3>3, <1>1
      <4>2. SubSeq(s.cells, Len(s.cells) - Len(c) + 1, Len(s.cells))[Len(c)] = s.cells[Len(s.cells)]
        BY <4>1, <3>2, <1>1
      <4>3. c[Len(c)] = t
        BY <3>2
      <4>4. s.cells[Len(s.cells)] = t
        BY <4>2, <4>3, <3>3
      <4>5. available > 0
        BY <3>2, <3>3, <1>1
      <4>6. QED
        BY <4>4, <4>5 DEF Last
    <3>5. Cells(t) = Width(Last(s.cells))
      BY <3>4, <2>2 DEF Width
    <3>6. QED
      BY <3>1, <3>4, <3>5, <1>1, <1>3, CutKeeps
  <2>3. CASE ~(available > 0 /\ Last(s.cells) = AnyType) /\ ~OnTop(s.cells, available, Copies(t))
    BY <1>3, <2>3 DEF Pop, Fails, Keeps, Stacks, Good, Outcomes
  <2>4. QED
    BY <2>1, <2>2, <2>3
<1>4. QED
  BY <1>2, <1>3

LEMMA PushAllKeeps ==
  ASSUME NEW s, NEW b \in Blocks, NEW r, NEW ts \in Seq(ValueTypes), Keeps(s, b, r)
  PROVE  Keeps(PushAll(s, ts), b, r)
<1>1. PICK f : /\ f[0] = s /\ PushAll(s, ts) = f[Len(ts)]
               /\ \A i \in 1 .. Len(ts) : f[i] = Push(f[i - 1], ts[i])
  <2>1. ts \in Seq(ValueTypes \cup {AnyType})
    OBVIOUS
  <2>2. QED
    BY <2>1, PushAllSteps
<1>. DEFINE S == {i \in 0 .. Len(ts) : Keeps(f[i], b, r)}
<1>2. 0 \in S
  BY <1>1
<1>3. ASSUME NEW i \in 1 .. Len(ts), i - 1 \in S PROVE i \in S
  <2>1. ts[i] \in Cell /\ ts[i] # AnyType
    BY CopiesType DEF Cell
  <2>2. Keeps(f[i - 1], b, r)
    BY <1>3
  <2>3. Keeps(Push(f[i - 1], ts[i]), b, r)
    BY <2>1, <2>2, PushKeeps
  <2>4. QED
    BY <2>3, <1>1
<1>. HIDE DEF S
<1>4. \A i \in 0 .. Len(ts) : i \in S
  <2>1. Len(ts) \in Nat
    OBVIOUS
  <2>2. QED
    BY <2>1, <1>2, <1>3, UpTo
<1>5. QED
  BY <1>1, <1>4 DEF S

LEMMA PopAllKeeps ==
  ASSUME NEW s, NEW b \in Blocks, NEW r, NEW ts \in Seq(Cell), Keeps(s, b, r)
  PROVE  Keeps(PopAll(s, b, ts), b, r)
<1>1. PICK f : /\ f[0] = s /\ PopAll(s, b, ts) = f[Len(ts)]
               /\ \A i \in 1 .. Len(ts) : f[i] = Pop(f[i - 1], b, ts[Len(ts) + 1 - i])
  <2>1. ts \in Seq(ValueTypes \cup {AnyType})
    BY DEF Cell
  <2>2. QED
    BY <2>1, PopAllSteps
<1>. DEFINE S == {i \in 0 .. Len(ts) : Keeps(f[i], b, r)}
<1>2. 0 \in S
  BY <1>1
<1>3. ASSUME NEW i \in 1 .. Len(ts), i - 1 \in S PROVE i \in S
  <2>1. ts[Len(ts) + 1 - i] \in Cell
    OBVIOUS
  <2>2. Keeps(f[i - 1], b, r)
    BY <1>3
  <2>3. Keeps(Pop(f[i - 1], b, ts[Len(ts) + 1 - i]), b, r)
    BY <2>1, <2>2, PopKeeps
  <2>4. QED
    BY <2>3, <1>1
<1>. HIDE DEF S
<1>4. \A i \in 0 .. Len(ts) : i \in S
  <2>1. Len(ts) \in Nat
    OBVIOUS
  <2>2. QED
    BY <2>1, <1>2, <1>3, UpTo
<1>5. QED
  BY <1>1, <1>4 DEF S

\* A stack cut back to a block's base suits every block with that base.
LEMMA ResetKeeps ==
  ASSUME NEW s, NEW b \in Blocks, NEW c \in Blocks, NEW r, Keeps(s, b, r), Good(s),
         c.base = b.base
  PROVE  Keeps(Fine(Reset(s.cells, b)), c, r)
<1>. DEFINE d == SubSeq(s.cells, 1, b.base)
<1>1. /\ s.cells \in Seq(Cell) /\ b.base \in Nat /\ MaxCells \in Nat
      /\ b.base <= Len(s.cells) /\ Len(s.cells) <= MaxCells
      /\ \A k \in 1 .. b.base : s.cells[k] = r[k]
  BY ValidatorAssumption DEF Keeps, Stacks, Blocks
<1>2. /\ d \in Seq(Cell) /\ Len(d) = b.base
      /\ \A k \in 1 .. b.base : d[k] = s.cells[k]
  BY <1>1
<1>3. Reset(s.cells, b) = d
  BY DEF Reset
<1>. HIDE DEF d
<1>4. Fine(d) \in Stacks /\ Fine(d).cells = d
  BY <1>2 DEF Fine, Stacks, Outcomes
<1>5. /\ c.base <= Len(d) /\ Len(d) <= MaxCells /\ \A k \in 1 .. c.base : d[k] = r[k]
      /\ \A k \in c.base + 1 .. Len(d) : FALSE
  BY <1>1, <1>2
<1>6. WholeFrom(d, c.base, Len(d))
  BY <1>1, <1>2, WholeNone
<1>7. QED
  BY <1>3, <1>4, <1>5, <1>6 DEF Keeps

LEMMA FailsKeeps ==
  ASSUME NEW s \in Stacks, NEW why \in Outcomes \ {"checking"}, NEW b, NEW r
  PROVE  Keeps(Fails(s, why), b, r)
BY DEF Keeps, Fails, Good, Stacks

\* A block's end leaves nothing of unknown type above the base.
LEMMA CheckBlockStackKeeps ==
  ASSUME NEW s, NEW b \in Blocks, NEW r, Keeps(s, b, r)
  PROVE  Keeps(CheckBlockStack(s, b), [b EXCEPT !.poly = FALSE], r)
<1>. DEFINE c == [b EXCEPT !.poly = FALSE]
            popped == PopAll(s, b, b.results)
<1>1. /\ c \in Blocks /\ c.base = b.base /\ ~c.poly /\ b.base \in Nat
      /\ b.results \in Seq(ValueTypes) /\ s \in Stacks
  BY DEF Blocks, Keeps
<1>. HIDE DEF c
<1>2. CASE ~Good(s)
  BY <1>1, <1>2 DEF CheckBlockStack, Keeps, c
<1>3. CASE Good(s) /\ b.poly
  <2>1. b.results \in Seq(Cell)
    BY <1>1 DEF Cell
  <2>2. Keeps(popped, b, r)
    BY <2>1, PopAllKeeps
  <2>. HIDE DEF popped
  <2>3. CASE Good(popped) /\ Len(popped.cells) # b.base
    <3>1. CheckBlockStack(s, b) = Fails(s, "rejected")
      BY <1>3, <2>3 DEF CheckBlockStack, popped
    <3>2. QED
      BY <3>1, <1>1, FailsKeeps DEF Outcomes, c
  <2>4. CASE ~(Good(popped) /\ Len(popped.cells) # b.base)
    <3>1. CheckBlockStack(s, b) = PushAll(popped, b.results)
      BY <1>3, <2>4 DEF CheckBlockStack, popped
    <3>2. Good(popped) => \A k \in b.base + 1 .. Len(popped.cells) : FALSE
      BY <1>1, <2>4
    <3>3. Keeps(popped, c, r)
      BY <1>1, <2>2, <3>2 DEF Keeps
    <3>4. QED
      BY <3>1, <3>3, <1>1, PushAllKeeps DEF c
  <2>5. QED
    BY <2>3, <2>4
<1>4. CASE Good(s) /\ ~b.poly
  <2>1. CheckBlockStack(s, b) \in {s, Fails(s, "rejected")}
    BY <1>4 DEF CheckBlockStack
  <2>2. Keeps(s, c, r)
    BY <1>1, <1>4 DEF Keeps
  <2>3. Keeps(Fails(s, "rejected"), c, r)
    BY <1>1, FailsKeeps DEF Outcomes
  <2>4. QED
    BY <2>1, <2>2, <2>3 DEF c
<1>5. QED
  BY <1>2, <1>3, <1>4

-----------------------------------------------------------------------------
(* The inductive invariant *)

\* The blocks and the cells of a walk that goes on.
Typed(r, bs) == /\ r \in Seq(Cell) /\ Len(r) <= MaxCells
                /\ bs \in Seq(Blocks) /\ bs # << >> /\ Len(bs) <= MaxBlocks
Nested(r, bs) ==
  \A i \in 1 .. Len(bs) : /\ bs[i].base <= Len(r) /\ (bs[i].label = "function" <=> i = 1)
                          /\ \A j \in i .. Len(bs) : bs[i].base <= bs[j].base
LowestOf(bs, k) == \E i \in 1 .. Len(bs) : /\ bs[i].base = k - 1 /\ bs[i].poly
                                           /\ \A j \in i + 1 .. Len(bs) : bs[j].base >= k
AnyLowest(r, bs) == \A k \in 1 .. Len(r) : r[k] = AnyType => LowestOf(bs, k)
WholeAll(r, bs) ==
  \A i \in 1 .. Len(bs) :
    WholeFrom(r, bs[i].base, IF i = Len(bs) THEN Len(r) ELSE bs[i + 1].base)
Shape(r, bs) == Typed(r, bs) /\ Nested(r, bs) /\ AnyLowest(r, bs) /\ WholeAll(r, bs)

IInv == \/ verdict = "checking" /\ Shape(ref, csp)
        \/ verdict \in Outcomes \ {"checking"} /\ ref = << >> /\ csp = << >>

\* What LowerOperandsKept says of a step, cell by cell.
Lower == csp' # << >> => /\ Len(ref') >= Top.base
                         /\ \A k \in 1 .. Top.base : ref'[k] = ref[k]

LEMMA FrontOfSeq ==
  ASSUME NEW S, NEW q \in Seq(S), q # << >>
  PROVE  /\ Front(q) \in Seq(S) /\ Len(Front(q)) = Len(q) - 1 /\ Len(q) \in Nat \ {0}
         /\ \A i \in 1 .. Len(q) - 1 : Front(q)[i] = q[i]
<1>1. Len(q) \in Nat /\ Len(q) # 0
  OBVIOUS
<1>2. Front(q) = SubSeq(q, 1, Len(q) - 1)
  BY DEF Front
<1>3. \A i \in 1 .. Len(q) - 1 : q[i] \in S
  BY <1>1
<1>4. Len(q) - 1 \in Nat
  BY <1>1
<1>. DEFINE n == Len(q) - 1
<1>. HIDE DEF n
<1>5. n \in Nat /\ n \in Int /\ 1 \in Int /\ \A i \in 1 .. n : q[i] \in S
  BY <1>3, <1>4 DEF n
<1>6. /\ SubSeq(q, 1, n) \in Seq(S)
      /\ Len(SubSeq(q, 1, n)) = IF 1 <= n THEN n - 1 + 1 ELSE 0
      /\ \A i \in 1 .. n - 1 + 1 : SubSeq(q, 1, n)[i] = q[1 + i - 1]
  BY <1>5, SubSeqProperties
<1>7. /\ Len(SubSeq(q, 1, n)) = n
      /\ \A i \in 1 .. n : SubSeq(q, 1, n)[i] = q[i]
  BY <1>5, <1>6
<1>8. QED
  BY <1>1, <1>2, <1>6, <1>7 DEF n

LEMMA TopKeeps ==
  ASSUME Shape(ref, csp)
  PROVE  /\ Top \in Blocks /\ Keeps(Now, Top, ref) /\ Now \in Stacks
         /\ Len(csp) \in Nat \ {0} /\ csp = SetTop(Top) /\ Top = csp[Len(csp)]
         /\ Top.base \in Nat /\ Top.base <= Len(ref)
         /\ \A i \in 1 .. Len(csp) : csp[i] \in Blocks /\ csp[i].base \in Nat
         /\ (Top.label = "function" <=> Len(csp) = 1)
<1>. DEFINE n == Len(csp)
<1>1. n = Len(csp) /\ n \in Nat \ {0} /\ csp \in Seq(Blocks) /\ ref \in Seq(Cell)
  BY DEF Shape, Typed
<1>2. Top = csp[n] /\ \A i \in 1 .. n : csp[i] \in Blocks
  BY <1>1 DEF Top
<1>3. csp = SetTop(Top)
  BY <1>1 DEF SetTop, Outer, Top, Front
<1>4. Now \in Stacks /\ Now.cells = ref /\ Good(Now)
  BY <1>1 DEF Now, Fine, Stacks, Outcomes, Good
<1>. HIDE DEF n
<1>5. /\ Top \in Blocks /\ Top.base \in Nat /\ \A i \in 1 .. n : csp[i].base \in Nat
      /\ n \in 1 .. n
  <2>1. \A b \in Blocks : b.base \in Nat
    BY DEF Blocks
  <2>2. QED
    BY <2>1, <1>1, <1>2
<1>6. Top.base <= Len(ref) /\ Len(ref) <= MaxCells /\ (Top.label = "function" <=> n = 1)
  BY <1>1, <1>2, <1>5 DEF Shape, Nested, Typed
<1>7. ASSUME NEW k \in Top.base + 1 .. Len(ref), ref[k] = AnyType
      PROVE  k = Top.base + 1 /\ Top.poly
  <2>1. k \in 1 .. Len(ref) /\ k \in Nat
    BY <1>5
  <2>2. PICK i \in 1 .. n : /\ csp[i].base = k - 1 /\ csp[i].poly
                            /\ \A j \in i + 1 .. n : csp[j].base >= k
    BY <1>1, <1>7, <2>1 DEF Shape, AnyLowest, LowestOf
  <2>3. csp[i].base <= Top.base
    BY <1>1, <1>2, <1>5 DEF Shape, Nested
  <2>4. csp[i].base = Top.base /\ k = Top.base + 1
    BY <1>5, <2>1, <2>2, <2>3
  <2>5. i = n
    BY <1>1, <1>2, <1>5, <2>2, <2>4
  <2>6. QED
    BY <2>2, <2>4, <2>5, <1>2
<1>8. WholeFrom(ref, Top.base, Len(ref))
  BY <1>1, <1>2, <1>5 DEF Shape, WholeAll
<1>9. QED
  BY <1>1, <1>2, <1>3, <1>4, <1>5, <1>6, <1>7, <1>8 DEF Keeps

\* The innermost block goes on, as b.
LEMMA SettleTop ==
  ASSUME Shape(ref, csp), NEW s, NEW b \in Blocks, Keeps(s, b, ref), Settle(s, SetTop(b)),
         b.base = Top.base, b.label = "function" <=> Len(csp) = 1
  PROVE  IInv' /\ Lower
<1>. DEFINE n == Len(csp)
            bs == SetTop(b)
<1>1. /\ n = Len(csp) /\ n \in Nat \ {0} /\ csp \in Seq(Blocks) /\ ref \in Seq(Cell)
      /\ Top = csp[n] /\ b.base \in Nat /\ b.base <= Len(ref)
      /\ \A i \in 1 .. n : csp[i].base \in Nat
  BY TopKeeps DEF Shape, Typed
<1>2. /\ bs \in Seq(Blocks) /\ Len(bs) = n /\ bs[n] = b
      /\ \A i \in 1 .. n - 1 : bs[i] = csp[i]
  <2>. DEFINE o == Front(csp)
  <2>1. bs = Append(o, b)
    BY DEF SetTop, Outer
  <2>2. o \in Seq(Blocks) /\ Len(o) = n - 1 /\ \A i \in 1 .. n - 1 : o[i] = csp[i]
    BY <1>1, FrontOfSeq
  <2>. HIDE DEF o, bs, n
  <2>3. QED
    BY <2>1, <2>2, <1>1
<1>. HIDE DEF bs, n
<1>3. s \in Stacks
  BY DEF Keeps
<1>4. CASE ~Good(s)
  BY <1>3, <1>4 DEF Settle, IInv, Lower, Good, Stacks
<1>5. CASE Good(s)
  <2>. DEFINE d == s.cells
  <2>1. ref' = d /\ csp' = bs /\ verdict' = "checking"
    BY <1>5 DEF Settle, Good, bs
  <2>2. /\ d \in Seq(Cell) /\ b.base <= Len(d) /\ Len(d) <= MaxCells
        /\ \A k \in 1 .. b.base : d[k] = ref[k]
        /\ \A k \in b.base + 1 .. Len(d) : d[k] = AnyType => k = b.base + 1 /\ b.poly
    <3>1. d \in Seq(Cell)
      BY <1>3 DEF Stacks
    <3>2. QED
      BY <3>1, <1>5 DEF Keeps
  <2>. HIDE DEF d
  <2>3. Len(d) \in Nat
    BY <2>2
  <2>4. ASSUME NEW i \in 1 .. n PROVE bs[i].base = csp[i].base
    <3>1. CASE i = n
      BY <3>1, <1>1, <1>2
    <3>2. CASE i # n
      <4>1. i \in 1 .. n - 1
        BY <3>2, <1>1
      <4>2. QED
        BY <4>1, <1>2
    <3>3. QED
      BY <3>1, <3>2
  <2>5. ASSUME NEW i \in 1 .. n
        PROVE  /\ bs[i].base <= Len(d) /\ (bs[i].label = "function" <=> i = 1)
               /\ \A j \in i .. n : bs[i].base <= bs[j].base
    <3>1. \A j \in i .. n : csp[i].base <= csp[j].base
      BY <1>1 DEF Shape, Nested
    <3>2. \A j \in i .. n : bs[i].base <= bs[j].base
      BY <3>1, <2>4
    <3>3. bs[i].base <= b.base /\ bs[i].base \in Nat
      BY <3>2, <2>4, <1>1, <1>2
    <3>4. bs[i].base <= Len(d)
      BY <3>3, <2>2, <2>3, <1>1
    <3>5. csp[i].label = "function" <=> i = 1
      BY <1>1 DEF Shape, Nested
    <3>6. CASE i = n
      BY <3>2, <3>4, <3>6, <1>1, <1>2
    <3>7. CASE i # n
      BY <3>2, <3>4, <3>5, <3>7, <1>2
    <3>8. QED
      BY <3>6, <3>7
  <2>6. ASSUME NEW k \in 1 .. Len(d), d[k] = AnyType
        PROVE  \E i \in 1 .. n : /\ bs[i].base = k - 1 /\ bs[i].poly
                                 /\ \A j \in i + 1 .. n : bs[j].base >= k
    <3>1. CASE k <= b.base
      <4>1. k \in 1 .. Len(ref) /\ ref[k] = AnyType
        BY <3>1, <2>2, <2>6, <1>1
      <4>2. PICK i \in 1 .. n : /\ csp[i].base = k - 1 /\ csp[i].poly
                                /\ \A j \in i + 1 .. n : csp[j].base >= k
        BY <4>1, <1>1 DEF Shape, AnyLowest, LowestOf
      <4>3. i # n
        BY <3>1, <4>2, <1>1
      <4>4. bs[i] = csp[i]
        BY <4>3, <1>1, <1>2
      <4>5. QED
        BY <4>2, <4>4, <2>4
    <3>2. CASE k > b.base
      <4>1. k = b.base + 1 /\ b.poly
        BY <3>2, <2>2, <2>6, <1>1
      <4>2. n \in 1 .. n /\ \A j \in n + 1 .. n : FALSE
        BY <1>1
      <4>3. bs[n].base = k - 1 /\ bs[n].poly
        BY <4>1, <1>1, <1>2
      <4>4. QED
        BY <4>2, <4>3
    <3>3. QED
      BY <3>1, <3>2, <1>1
  <2>7. Typed(d, bs)
    BY <1>1, <1>2, <2>2 DEF Shape, Typed
  <2>8. Nested(d, bs)
    BY <1>2, <2>5 DEF Nested
  <2>9. AnyLowest(d, bs)
    BY <1>2, <2>6 DEF AnyLowest, LowestOf
  <2>10. ASSUME NEW i \in 1 .. n
         PROVE  WholeFrom(d, bs[i].base, IF i = n THEN Len(d) ELSE bs[i + 1].base)
    <3>1. CASE i = n
      BY <3>1, <1>2, <1>3, <1>5 DEF Keeps, d
    <3>2. CASE i # n
      <4>1. i + 1 \in 1 .. n /\ bs[i].base = csp[i].base /\ bs[i + 1].base = csp[i + 1].base
        BY <3>2, <2>4, <1>1
      <4>2. WholeFrom(ref, csp[i].base, csp[i + 1].base)
        BY <3>2, <1>1 DEF Shape, WholeAll
      <4>3. csp[i + 1].base <= Top.base
        BY <4>1, <1>1 DEF Shape, Nested
      <4>4. \A k \in csp[i].base + 1 .. csp[i + 1].base : d[k] = ref[k]
        BY <4>1, <4>3, <2>2, <1>1
      <4>5. QED
        BY <4>1, <4>2, <4>4, <3>2, <1>1, WholeSame
    <3>3. QED
      BY <3>1, <3>2
  <2>11. WholeAll(d, bs)
    BY <2>10, <1>2 DEF WholeAll
  <2>12. IInv'
    BY <2>1, <2>7, <2>8, <2>9, <2>11 DEF IInv, Shape
  <2>13. QED
    BY <2>1, <2>2, <2>12 DEF Lower
<1>6. QED
  BY <1>4, <1>5

\* A block b opens on the cells q, and its parameters have been pushed.
LEMMA SettleNew ==
  ASSUME Shape(ref, csp), NEW q, NEW s, NEW b \in Blocks, Settle(s, Append(csp, b)),
         Keeps(q, Top, ref), Good(s) => Good(q) /\ Len(csp) + 1 <= MaxBlocks,
         b.base = Len(q.cells), b.label # "function", Keeps(s, b, q.cells)
  PROVE  IInv' /\ Lower
<1>. DEFINE n == Len(csp)
            bs == Append(csp, b)
            m == n + 1
<1>1. /\ n = Len(csp) /\ n \in Nat \ {0} /\ csp \in Seq(Blocks) /\ Top = csp[n]
      /\ Top.base \in Nat /\ Top.base <= Len(ref) /\ Len(ref) \in Nat /\ b.base \in Nat
      /\ \A i \in 1 .. n : csp[i].base \in Nat
  <2>1. csp \in Seq(Blocks) /\ ref \in Seq(Cell)
    BY DEF Shape, Typed
  <2>2. Len(ref) \in Nat /\ b.base \in Nat
    BY <2>1 DEF Blocks
  <2>3. QED
    BY <2>1, <2>2, TopKeeps
<1>. HIDE DEF n
<1>2. /\ bs \in Seq(Blocks) /\ Len(bs) = m /\ bs[m] = b
      /\ \A i \in 1 .. n : bs[i] = csp[i]
  <2>1. csp \in Seq(Blocks) /\ n = Len(csp) /\ n \in Nat
    BY <1>1
  <2>2. QED
    BY <2>1
<1>. HIDE DEF bs
<1>3. s \in Stacks /\ q \in Stacks
  BY DEF Keeps
<1>4. CASE ~Good(s)
  BY <1>3, <1>4 DEF Settle, IInv, Lower, Good, Stacks
<1>5. CASE Good(s)
  <2>. DEFINE d == s.cells
              c == q.cells
  <2>1. ref' = d /\ csp' = bs /\ verdict' = "checking"
    BY <1>5 DEF Settle, Good, bs
  <2>2. /\ d \in Seq(Cell) /\ b.base <= Len(d) /\ Len(d) <= MaxCells
        /\ \A k \in 1 .. b.base : d[k] = c[k]
        /\ \A k \in b.base + 1 .. Len(d) : d[k] = AnyType => k = b.base + 1 /\ b.poly
    BY <1>3, <1>5 DEF Keeps, Stacks
  <2>3. /\ c \in Seq(Cell) /\ Top.base <= Len(c) /\ b.base = Len(c)
        /\ \A k \in 1 .. Top.base : c[k] = ref[k]
        /\ \A k \in Top.base + 1 .. Len(c) : c[k] = AnyType => k = Top.base + 1 /\ Top.poly
    BY <1>3, <1>5 DEF Keeps, Stacks
  <2>. HIDE DEF d, c
  <2>4. Len(d) \in Nat /\ Top.base <= b.base /\ Top.base <= Len(d)
    BY <2>2, <2>3, <1>1
  <2>5. ASSUME NEW i \in 1 .. m
        PROVE  /\ bs[i].base <= Len(d) /\ (bs[i].label = "function" <=> i = 1)
               /\ \A j \in i .. m : bs[i].base <= bs[j].base
    <3>1. CASE i = m
      BY <3>1, <1>1, <1>2, <2>2
    <3>2. CASE i # m
      <4>1. i \in 1 .. n /\ bs[i] = csp[i]
        BY <3>2, <1>1, <1>2
      <4>2. /\ \A j \in i .. n : csp[i].base <= csp[j].base
            /\ (csp[i].label = "function" <=> i = 1)
        BY <4>1, <1>1 DEF Shape, Nested
      <4>3. csp[i].base <= Top.base /\ csp[i].base \in Nat
        BY <4>1, <4>2, <1>1
      <4>4. csp[i].base <= b.base /\ csp[i].base <= Len(d)
        BY <4>3, <2>4, <1>1
      <4>5. ASSUME NEW j \in i .. m PROVE csp[i].base <= bs[j].base
        <5>1. CASE j = m
          BY <5>1, <4>4, <1>2
        <5>2. CASE j # m
          <6>1. j \in i .. n /\ j \in 1 .. n
            BY <5>2, <4>1, <1>1
          <6>2. QED
            BY <6>1, <4>2, <1>2
        <5>3. QED
          BY <5>1, <5>2
      <4>6. QED
        BY <4>1, <4>2, <4>4, <4>5
    <3>3. QED
      BY <3>1, <3>2
  <2>6. ASSUME NEW k \in 1 .. Len(d), d[k] = AnyType
        PROVE  \E i \in 1 .. m : /\ bs[i].base = k - 1 /\ bs[i].poly
                                 /\ \A j \in i + 1 .. m : bs[j].base >= k
    <3>1. CASE k <= Top.base
      <4>1. k \in 1 .. Len(ref) /\ ref[k] = AnyType
        BY <3>1, <2>2, <2>3, <2>4, <2>6, <1>1
      <4>2. PICK i \in 1 .. n : /\ csp[i].base = k - 1 /\ csp[i].poly
                                /\ \A j \in i + 1 .. n : csp[j].base >= k
        BY <4>1, <1>1 DEF Shape, AnyLowest, LowestOf
      <4>3. b.base >= k
        BY <3>1, <2>4, <1>1
      <4>4. i \in 1 .. m /\ bs[i] = csp[i]
        BY <1>1, <1>2
      <4>5. ASSUME NEW j \in i + 1 .. m PROVE bs[j].base >= k
        <5>1. CASE j = m
          BY <5>1, <4>3, <1>2
        <5>2. CASE j # m
          <6>1. j \in i + 1 .. n /\ j \in 1 .. n
            BY <5>2, <1>1
          <6>2. QED
            BY <6>1, <4>2, <1>2
        <5>3. QED
          BY <5>1, <5>2
      <4>6. QED
        BY <4>2, <4>4, <4>5
    <3>2. CASE k > Top.base /\ k <= b.base
      <4>1. k = Top.base + 1 /\ Top.poly
        BY <3>2, <2>2, <2>3, <2>6, <1>1
      <4>2. bs[n].base = k - 1 /\ bs[n].poly /\ n \in 1 .. m
        BY <4>1, <1>1, <1>2
      <4>3. \A j \in n + 1 .. m : bs[j].base >= k
        BY <3>2, <1>1, <1>2
      <4>4. QED
        BY <4>2, <4>3
    <3>3. CASE k > b.base
      <4>1. k = b.base + 1 /\ b.poly
        BY <3>3, <2>2, <2>6, <1>1
      <4>2. m \in 1 .. m /\ \A j \in m + 1 .. m : FALSE
        BY <1>1
      <4>3. bs[m].base = k - 1 /\ bs[m].poly
        BY <4>1, <1>1, <1>2
      <4>4. QED
        BY <4>2, <4>3
    <3>4. QED
      BY <3>1, <3>2, <3>3, <1>1
  <2>7. Typed(d, bs)
    <3>1. m <= MaxBlocks
      BY <1>5, <1>1
    <3>2. QED
      BY <3>1, <1>1, <1>2, <2>2 DEF Typed
  <2>8. Nested(d, bs)
    BY <1>2, <2>5 DEF Nested
  <2>9. AnyLowest(d, bs)
    BY <1>2, <2>6 DEF AnyLowest, LowestOf
  <2>10. ASSUME NEW k \in 1 .. Top.base PROVE d[k] = ref[k]
    BY <2>2, <2>3, <2>4, <1>1
  <2>11. ASSUME NEW i \in 1 .. m
         PROVE  WholeFrom(d, bs[i].base, IF i = m THEN Len(d) ELSE bs[i + 1].base)
    <3>1. CASE i = m
      BY <3>1, <1>2, <1>3, <1>5 DEF Keeps, d
    <3>2. CASE i = n
      <4>1. WholeFrom(c, Top.base, b.base)
        BY <1>5, <2>3 DEF Keeps, c
      <4>2. \A k \in Top.base + 1 .. b.base : d[k] = c[k]
        BY <2>2, <1>1
      <4>3. WholeFrom(d, Top.base, b.base)
        BY <4>1, <4>2, <1>1, WholeSame
      <4>4. bs[i].base = Top.base /\ i # m /\ bs[i + 1].base = b.base
        BY <3>2, <1>1, <1>2
      <4>5. QED
        BY <4>3, <4>4
    <3>3. CASE i \in 1 .. n - 1
      <4>. n \in Nat /\ i \in Int
        BY <1>1, <3>3
      <4>0. i \in 1 .. n /\ i + 1 \in 1 .. n /\ i # m /\ i # n
        BY <3>3
      <4>1. /\ i \in 1 .. n /\ i + 1 \in 1 .. n /\ i # m /\ i # n
            /\ bs[i].base = csp[i].base /\ bs[i + 1].base = csp[i + 1].base
        BY <4>0, <1>2
      <4>2. WholeFrom(ref, csp[i].base, csp[i + 1].base)
        BY <4>1, <1>1 DEF Shape, WholeAll
      <4>3. csp[i + 1].base <= Top.base
        BY <4>1, <1>1 DEF Shape, Nested
      <4>4. \A k \in csp[i].base + 1 .. csp[i + 1].base : d[k] = ref[k]
        BY <4>1, <4>3, <2>10, <1>1
      <4>5. QED
        BY <4>1, <4>2, <4>4, <1>1, WholeSame
    <3>4. QED
      BY <3>1, <3>2, <3>3, <1>1
  <2>12. WholeAll(d, bs)
    BY <2>11, <1>2 DEF WholeAll
  <2>13. IInv'
    BY <2>1, <2>7, <2>8, <2>9, <2>12 DEF IInv, Shape
  <2>14. QED
    BY <2>1, <2>4, <2>10, <2>13 DEF Lower
<1>6. QED
  BY <1>4, <1>5

\* The innermost block has ended, with nothing of unknown type above its base.
LEMMA SettleOuter ==
  ASSUME Shape(ref, csp), NEW s, NEW b \in Blocks, Keeps(s, b, ref), Settle(s, Outer),
         b.base = Top.base, ~b.poly, Good(s) => Len(csp) # 1
  PROVE  IInv' /\ Lower
<1>. DEFINE n == Len(csp)
            bs == Outer
            m == n - 1
<1>1. /\ n = Len(csp) /\ n \in Nat \ {0} /\ csp \in Seq(Blocks) /\ Top = csp[n]
      /\ Top.base \in Nat /\ Top.base <= Len(ref) /\ Len(ref) \in Nat
      /\ \A i \in 1 .. n : csp[i].base \in Nat
  BY TopKeeps DEF Shape, Typed
<1>2. bs \in Seq(Blocks) /\ Len(bs) = m /\ \A i \in 1 .. m : bs[i] = csp[i]
  BY <1>1, FrontOfSeq DEF Outer
<1>. HIDE DEF bs, n
<1>3. s \in Stacks
  BY DEF Keeps
<1>4. CASE ~Good(s)
  BY <1>3, <1>4 DEF Settle, IInv, Lower, Good, Stacks
<1>5. CASE Good(s)
  <2>. DEFINE d == s.cells
  <2>1. ref' = d /\ csp' = bs /\ verdict' = "checking"
    BY <1>5 DEF Settle, Good, bs
  <2>2. /\ d \in Seq(Cell) /\ b.base <= Len(d) /\ Len(d) <= MaxCells
        /\ \A k \in 1 .. b.base : d[k] = ref[k]
        /\ \A k \in b.base + 1 .. Len(d) : d[k] # AnyType
    BY <1>3, <1>5 DEF Keeps, Stacks
  <2>. HIDE DEF d
  <2>3. Len(d) \in Nat /\ m \in Nat \ {0}
    BY <2>2, <1>1, <1>5
  <2>4. ASSUME NEW i \in 1 .. m
        PROVE  /\ bs[i].base <= Len(d) /\ (bs[i].label = "function" <=> i = 1)
               /\ \A j \in i .. m : bs[i].base <= bs[j].base
    <3>1. i \in 1 .. n /\ bs[i] = csp[i] /\ n \in i .. n
      BY <1>1, <1>2
    <3>2. /\ \A j \in i .. n : csp[i].base <= csp[j].base
          /\ (csp[i].label = "function" <=> i = 1)
      BY <3>1, <1>1 DEF Shape, Nested
    <3>3. csp[i].base <= Top.base /\ csp[i].base \in Nat
      BY <3>1, <3>2, <1>1
    <3>4. csp[i].base <= Len(d)
      BY <3>3, <2>2, <2>3, <1>1
    <3>5. ASSUME NEW j \in i .. m PROVE csp[i].base <= bs[j].base
      <4>1. j \in i .. n /\ j \in 1 .. m
        BY <1>1
      <4>2. QED
        BY <4>1, <3>2, <1>2
    <3>6. QED
      BY <3>1, <3>2, <3>4, <3>5
  <2>5. ASSUME NEW k \in 1 .. Len(d), d[k] = AnyType
        PROVE  \E i \in 1 .. m : /\ bs[i].base = k - 1 /\ bs[i].poly
                                 /\ \A j \in i + 1 .. m : bs[j].base >= k
    <3>1. k <= Top.base
      BY <2>2, <2>3, <2>5, <1>1
    <3>2. k \in 1 .. Len(ref) /\ ref[k] = AnyType
      BY <3>1, <2>2, <2>5, <1>1
    <3>3. PICK i \in 1 .. n : /\ csp[i].base = k - 1 /\ csp[i].poly
                              /\ \A j \in i + 1 .. n : csp[j].base >= k
      BY <3>2, <1>1 DEF Shape, AnyLowest, LowestOf
    <3>4. i # n
      BY <3>1, <3>3, <1>1
    <3>5. i \in 1 .. m /\ bs[i] = csp[i]
      BY <3>4, <1>1, <1>2
    <3>6. \A j \in i + 1 .. m : bs[j].base >= k
      BY <3>3, <1>1, <1>2
    <3>7. QED
      BY <3>3, <3>5, <3>6
  <2>6. Typed(d, bs)
    <3>1. m <= MaxBlocks
      BY <1>1, ValidatorAssumption DEF Shape, Typed
    <3>2. QED
      BY <3>1, <1>2, <2>2, <2>3 DEF Typed
  <2>7. Nested(d, bs)
    BY <1>2, <2>4 DEF Nested
  <2>8. AnyLowest(d, bs)
    BY <1>2, <2>5 DEF AnyLowest, LowestOf
  <2>9. ASSUME NEW i \in 1 .. m
        PROVE  WholeFrom(d, bs[i].base, IF i = m THEN Len(d) ELSE bs[i + 1].base)
    <3>1. /\ i \in 1 .. n /\ i + 1 \in 1 .. n /\ i # n /\ bs[i].base = csp[i].base
          /\ csp[i].base \in Nat /\ csp[i + 1].base \in Nat
      BY <1>1, <1>2
    <3>2. WholeFrom(ref, csp[i].base, csp[i + 1].base)
      BY <3>1, <1>1 DEF Shape, WholeAll
    <3>3. csp[i].base <= csp[i + 1].base /\ csp[i + 1].base <= Top.base
      BY <3>1, <1>1 DEF Shape, Nested
    <3>4. \A k \in csp[i].base + 1 .. csp[i + 1].base : d[k] = ref[k]
      BY <3>1, <3>3, <2>2, <1>1
    <3>5. WholeFrom(d, csp[i].base, csp[i + 1].base)
      BY <3>1, <3>2, <3>4, WholeSame
    <3>6. CASE i = m
      <4>1. WholeFrom(d, Top.base, Len(d)) /\ Top.base <= Len(d)
        BY <1>5, <2>2 DEF Keeps, d
      <4>2. csp[i + 1].base = Top.base
        BY <3>6, <1>1
      <4>3. QED
        BY <4>1, <4>2, <3>1, <3>3, <3>5, <3>6, <2>3, WholeJoined
    <3>7. CASE i # m
      BY <3>1, <3>5, <3>7, <1>1, <1>2
    <3>8. QED
      BY <3>6, <3>7
  <2>10. WholeAll(d, bs)
    BY <2>9, <1>2 DEF WholeAll
  <2>11. IInv'
    BY <2>1, <2>6, <2>7, <2>8, <2>10 DEF IInv, Shape
  <2>12. QED
    BY <2>1, <2>2, <2>11 DEF Lower
<1>6. QED
  BY <1>4, <1>5

-----------------------------------------------------------------------------
(* Branches *)

LEMMA TargetTypes ==
  ASSUME Shape(ref, csp), NEW n \in Nat, n <= Len(csp) - 1
  PROVE  LabelTypes(Target(n)) \in Seq(ValueTypes)
<1>1. Target(n) \in Blocks
  BY TopKeeps DEF Target
<1>2. QED
  BY <1>1 DEF LabelTypes, Blocks

LEMMA CheckBrKeeps ==
  ASSUME Shape(ref, csp), NEW s, Keeps(s, Top, ref), NEW n \in Nat, NEW isTable \in BOOLEAN
  PROVE  Keeps(CheckBr(s, n, isTable), Top, ref)
<1>. DEFINE ts == LabelTypes(Target(n))
<1>1. /\ Top \in Blocks /\ s \in Stacks /\ Len(csp) \in Nat
      /\ Keeps(Fails(s, "rejected"), Top, ref)
  BY TopKeeps, FailsKeeps DEF Keeps, Outcomes
<1>2. CASE Len(csp) - 1 < n
  BY <1>1, <1>2 DEF CheckBr
<1>3. CASE n <= Len(csp) - 1
  <2>1. ts \in Seq(ValueTypes)
    BY <1>3, TargetTypes
  <2>. HIDE DEF ts
  <2>2. ts \in Seq(Cell)
    BY <2>1 DEF Cell
  <2>3. Keeps(PopAll(s, Top, ts), Top, ref)
    BY <1>1, <2>2, PopAllKeeps
  <2>4. Keeps(PushAll(PopAll(s, Top, ts), ts), Top, ref)
    BY <1>1, <2>1, <2>3, PushAllKeeps
  <2>5. Keeps(Repushed(s, n), Top, ref)
    BY <2>4 DEF Repushed, ts
  <2>6. CheckBr(s, n, isTable) \in {s, Fails(s, "rejected"), Repushed(s, n)}
    BY DEF CheckBr
  <2>7. QED
    BY <1>1, <2>5, <2>6
<1>4. QED
  BY <1>1, <1>2, <1>3

\* f holds the outcome after every target.
Targets(f, s, k, ns) == f[0] = s /\ \A i \in 1 .. k : f[i] = CheckTarget(f[i - 1], ns, i)

LEMMA CheckTargetsSteps ==
  ASSUME NEW s, NEW k \in Nat, NEW ns \in [1 .. k -> Nat]
  PROVE  \E f : Targets(f, s, k, ns) /\ CheckTargets(s, ns) = f[k]
<1>. DEFINE n == Len(ns)
            Upto(f, m) == f = [i \in 0 .. m |-> IF i = 0 THEN s ELSE CheckTarget(f[i - 1], ns, i)]
            S == {m \in 0 .. n : \E f : Upto(f, m)}
<1>1. n \in Nat /\ n = k
  OBVIOUS
<1>. HIDE DEF n
<1>2. 0 \in S
  <2>1. Upto([i \in 0 .. 0 |-> s], 0)
    OBVIOUS
  <2>. HIDE DEF Upto
  <2>2. QED
    BY <2>1, <1>1
<1>3. ASSUME NEW m \in 1 .. n, m - 1 \in S PROVE m \in S
  <2>1. PICK g : Upto(g, m - 1)
    BY <1>3
  <2>. DEFINE h == [i \in 0 .. m |-> IF i = m THEN CheckTarget(g[m - 1], ns, m) ELSE g[i]]
  <2>2. ASSUME NEW i \in 0 .. m
        PROVE  h[i] = IF i = 0 THEN s ELSE CheckTarget(h[i - 1], ns, i)
    <3>1. CASE i = m
      BY <3>1, <1>1
    <3>2. CASE i # m
      <4>1. g[i] = IF i = 0 THEN s ELSE CheckTarget(g[i - 1], ns, i)
        BY <3>2, <2>1, <1>1
      <4>2. i # 0 => i - 1 \in 0 .. m /\ i - 1 # m
        BY <1>1
      <4>3. QED
        BY <4>1, <4>2, <3>2
    <3>3. QED
      BY <3>1, <3>2
  <2>3. Upto(h, m)
    BY <2>2
  <2>. HIDE DEF Upto, h
  <2>4. QED
    BY <2>3, <1>1
<1>4. PICK g : Upto(g, n)
  <2>. HIDE DEF S
  <2>1. \A i \in 0 .. n : i \in S
    BY <1>1, <1>2, <1>3, UpTo
  <2>2. n \in S
    BY <2>1, <1>1
  <2>. HIDE DEF Upto
  <2>3. QED
    BY <2>2 DEF S
<1>. DEFINE f == CHOOSE f : Upto(f, n)
<1>5. Upto(f, n)
  BY <1>4
<1>6. CheckTargets(s, ns) = f[k]
  BY <1>1 DEF CheckTargets, n
<1>. HIDE DEF f
<1>7. Targets(f, s, k, ns)
  BY <1>1, <1>5 DEF Targets
<1>8. QED
  BY <1>6, <1>7

LEMMA CheckTargetsKeeps ==
  ASSUME Shape(ref, csp), NEW s, Keeps(s, Top, ref), NEW k \in Nat, NEW ns \in [1 .. k -> Nat]
  PROVE  Keeps(CheckTargets(s, ns), Top, ref)
<1>1. PICK f : Targets(f, s, k, ns) /\ CheckTargets(s, ns) = f[k]
  BY CheckTargetsSteps
<1>2. f[0] = s /\ \A i \in 1 .. k : f[i] = CheckTarget(f[i - 1], ns, i)
  BY <1>1 DEF Targets
<1>. DEFINE K == {i \in 0 .. k : Keeps(f[i], Top, ref)}
<1>3. 0 \in K
  BY <1>2
<1>4. ASSUME NEW i \in 1 .. k, i - 1 \in K PROVE i \in K
  <2>1. Keeps(f[i - 1], Top, ref)
    BY <1>4
  <2>2. Keeps(CheckBr(f[i - 1], ns[i], TRUE), Top, ref)
    BY <2>1, CheckBrKeeps
  <2>3. Keeps(Rejected, Top, ref)
    BY TopKeeps, FailsKeeps DEF Rejected, Outcomes
  <2>4. CheckTarget(f[i - 1], ns, i) \in {f[i - 1], Rejected, CheckBr(f[i - 1], ns[i], TRUE)}
    BY DEF CheckTarget
  <2>5. Keeps(f[i], Top, ref)
    BY <2>1, <2>2, <2>3, <2>4, <1>2
  <2>6. QED
    BY <2>5
<1>. HIDE DEF K
<1>5. \A i \in 0 .. k : i \in K
  BY <1>3, <1>4, UpTo
<1>6. QED
  BY <1>1, <1>5 DEF K

\* Code after the opcode is unreachable.
LEMMA SettleUnreachableKeeps ==
  ASSUME Shape(ref, csp), NEW s, Keeps(s, Top, ref), SettleUnreachable(s)
  PROVE  IInv' /\ Lower
<1>. DEFINE b == [Top EXCEPT !.poly = TRUE]
            q == IF Good(s) THEN Fine(Reset(s.cells, Top)) ELSE s
<1>1. Top \in Blocks /\ (Top.label = "function" <=> Len(csp) = 1)
  BY TopKeeps
<1>2. b \in Blocks /\ b.base = Top.base /\ b.label = Top.label
  BY <1>1 DEF Blocks
<1>3. Settle(q, SetTop(b))
  BY DEF SettleUnreachable
<1>. HIDE DEF b
<1>4. Keeps(q, b, ref)
  BY <1>1, <1>2, ResetKeeps DEF Keeps
<1>. HIDE DEF q
<1>5. QED
  BY <1>1, <1>2, <1>3, <1>4, SettleTop

LEMMA SettleSame ==
  ASSUME Shape(ref, csp), NEW s, Keeps(s, Top, ref), Settle(s, csp)
  PROVE  IInv' /\ Lower
<1>1. Top \in Blocks /\ (Top.label = "function" <=> Len(csp) = 1) /\ csp = SetTop(Top)
  BY TopKeeps
<1>2. Settle(s, SetTop(Top))
  BY <1>1
<1>3. QED
  BY <1>1, <1>2, SettleTop

LEMMA SignaturesTyped ==
  ASSUME NEW sig \in Signatures \cup CallSigs \cup CallIndirectSigs
  PROVE  sig.pops \in Seq(ValueTypes) /\ sig.pushes \in Seq(ValueTypes)
<1>. DEFINE S == [pops : Seq(ValueTypes), pushes : Seq(ValueTypes)]
<1>1. \A p, q \in Seq(ValueTypes) : Sig(p, q) \in S
  BY DEF Sig
<1>2. /\ {"i32", MemOffsetType, TableIndexType} \subseteq ValueTypes
      /\ NumTypes \subseteq ValueTypes /\ IntTypes \subseteq ValueTypes
      /\ FloatTypes \subseteq ValueTypes /\ VectorTypes \subseteq ValueTypes
  BY TypesAssumption DEF NumTypes, IntTypes, FloatTypes, VectorTypes
<1>3. /\ << >> \in Seq(ValueTypes)
      /\ \A t \in ValueTypes : <<t>> \in Seq(ValueTypes)
      /\ \A t, u \in ValueTypes : <<t, u>> \in Seq(ValueTypes)
      /\ \A t, u, v \in ValueTypes : <<t, u, v>> \in Seq(ValueTypes)
  OBVIOUS
<1>. HIDE DEF S
<1>4. ASSUME NEW A \in SUBSET ValueTypes, NEW R \in SUBSET ValueTypes
      PROVE  Unary(A, R) \subseteq S /\ Binary(A, R) \subseteq S
  <2>1. ASSUME NEW x \in Unary(A, R) PROVE x \in S
    <3>1. PICK a \in A, r \in R : x = Sig(<<a>>, <<r>>)
      BY <2>1 DEF Unary
    <3>2. QED
      BY <3>1, <1>1, <1>3
  <2>2. ASSUME NEW x \in Binary(A, R) PROVE x \in S
    <3>1. PICK a \in A, r \in R : x = Sig(<<a, a>>, <<r>>)
      BY <2>2 DEF Binary
    <3>2. QED
      BY <3>1, <1>1, <1>3
  <2>3. QED
    BY <2>1, <2>2
<1>5. /\ LocalSigs \subseteq S /\ GlobalSigs \subseteq S
      /\ LoadSigs \subseteq S /\ StoreSigs \subseteq S /\ ConstSigs \subseteq S
  <2>1. \A t \in ValueTypes : {Sig(<< >>, <<t>>), Sig(<<t>>, << >>), Sig(<<t>>, <<t>>)} \subseteq S
    BY <1>1, <1>3
  <2>2. LocalSigs \subseteq S
    BY <2>1 DEF LocalSigs
  <2>3. GlobalSigs \subseteq S
    BY <2>1 DEF GlobalSigs
  <2>4. StoreSigs \subseteq S /\ ConstSigs \subseteq S
    BY <1>1, <1>2, <1>3 DEF StoreSigs, ConstSigs
  <2>5. LoadSigs \subseteq S
    BY <1>2, <1>4 DEF LoadSigs
  <2>6. QED
    BY <2>2, <2>3, <2>4, <2>5
<1>6. /\ MemorySizeSigs \subseteq S /\ MemoryGrowSigs \subseteq S /\ BulkSigs \subseteq S
  BY <1>1, <1>2, <1>3, <1>4 DEF MemorySizeSigs, MemoryGrowSigs, BulkSigs
<1>7. CompareSigs \subseteq S /\ SatConversionSigs \subseteq S
  BY <1>2, <1>4 DEF CompareSigs, SatConversionSigs
<1>8. ArithSigs \subseteq S /\ ConversionSigs \subseteq S
  <2>1. ASSUME NEW t \in NumTypes
        PROVE  /\ Unary({t}, {t}) \subseteq S /\ Binary({t}, {t}) \subseteq S
               /\ Unary({t}, NumTypes \ {t}) \subseteq S
    <3>1. {t} \in SUBSET ValueTypes /\ NumTypes \ {t} \in SUBSET ValueTypes
      BY <1>2
    <3>2. QED
      BY <3>1, <1>4
  <2>2. IntTypes \subseteq NumTypes
    BY TypesAssumption DEF IntTypes, NumTypes
  <2>3. ArithSigs \subseteq S
    BY <2>1 DEF ArithSigs
  <2>4. ConversionSigs \subseteq S
    BY <2>1, <2>2 DEF ConversionSigs
  <2>5. QED
    BY <2>3, <2>4
<1>9. SimdMemorySigs \subseteq S /\ SimdLaneSigs \subseteq S
  <2>1. SimdMemorySigs \subseteq S
    <3>1. Unary({MemOffsetType}, VectorTypes) \subseteq S
      BY <1>2, <1>4
    <3>2. \A v \in VectorTypes : /\ Sig(<<MemOffsetType, v>>, << >>) \in S
                                 /\ Sig(<<MemOffsetType, v>>, <<v>>) \in S
      BY <1>1, <1>2, <1>3
    <3>3. QED
      BY <3>1, <3>2 DEF SimdMemorySigs
  <2>2. SimdLaneSigs \subseteq S
    <3>1. Unary(NumTypes, VectorTypes) \subseteq S /\ Unary(VectorTypes, NumTypes) \subseteq S
      BY <1>2, <1>4
    <3>2. \A v \in VectorTypes, t \in NumTypes : Sig(<<v, t>>, <<v>>) \in S
      BY <1>1, <1>2, <1>3
    <3>3. ASSUME NEW x \in SimdLaneSigs PROVE x \in S
      <4>1. CASE x \in Unary(NumTypes, VectorTypes) \cup Unary(VectorTypes, NumTypes)
        BY <4>1, <3>1
      <4>2. CASE \E v \in VectorTypes, t \in NumTypes : x = Sig(<<v, t>>, <<v>>)
        BY <4>2, <3>2
      <4>3. QED
        BY <4>1, <4>2 DEF SimdLaneSigs
    <3>4. QED
      BY <3>3
  <2>3. QED
    BY <2>1, <2>2
<1>10. SimdVectorSigs \subseteq S /\ SimdShiftSigs \subseteq S
  BY <1>1, <1>2, <1>3, <1>4 DEF SimdVectorSigs, SimdShiftSigs
<1>11. CallSigs \subseteq S /\ CallIndirectSigs \subseteq S
  <2>1. ASSUME NEW f \in FuncTypes
        PROVE  /\ f.params \in Seq(ValueTypes) /\ f.results \in Seq(ValueTypes)
               /\ Append(f.params, TableIndexType) \in Seq(ValueTypes)
    <3>1. f.params \in Seq(ValueTypes) /\ f.results \in Seq(ValueTypes)
      BY TypesAssumption
    <3>2. QED
      BY <3>1, <1>2
  <2>2. QED
    BY <2>1, <1>1 DEF CallSigs, CallIndirectSigs
<1>12. sig \in S
  BY <1>5, <1>6, <1>7, <1>8, <1>9, <1>10, <1>11 DEF Signatures
<1>13. QED
  BY <1>12 DEF S

-----------------------------------------------------------------------------
(* Every opcode *)

LEMMA PlainKeeps ==
  ASSUME Shape(ref, csp), NEW sig \in Signatures, NEW legal, Plain(sig, legal)
  PROVE  IInv' /\ Lower
<1>. DEFINE q == PopAll(Now, Top, sig.pops)
            s == IF legal THEN PushAll(q, sig.pushes) ELSE Rejected
<1>1. Settle(s, csp)
  BY DEF Plain
<1>2. Top \in Blocks /\ Keeps(Now, Top, ref) /\ Now \in Stacks
  BY TopKeeps
<1>3. sig.pops \in Seq(ValueTypes) /\ sig.pushes \in Seq(ValueTypes) /\ sig.pops \in Seq(Cell)
  BY SignaturesTyped DEF Cell
<1>4. Keeps(q, Top, ref)
  BY <1>2, <1>3, PopAllKeeps
<1>. HIDE DEF q
<1>5. Keeps(PushAll(q, sig.pushes), Top, ref)
  BY <1>2, <1>3, <1>4, PushAllKeeps
<1>6. Keeps(Rejected, Top, ref)
  BY <1>2, FailsKeeps DEF Rejected, Outcomes
<1>7. Keeps(s, Top, ref)
  BY <1>5, <1>6
<1>. HIDE DEF s
<1>8. QED
  BY <1>1, <1>7, SettleSame

LEMMA PopIntKeeps ==
  ASSUME Shape(ref, csp)
  PROVE  /\ Keeps(Pop(Now, Top, "i32"), Top, ref) /\ Keeps(Rejected, Top, ref)
         /\ Keeps(Now, Top, ref) /\ Top \in Blocks
<1>1. Top \in Blocks /\ Keeps(Now, Top, ref) /\ Now \in Stacks
  BY TopKeeps
<1>2. "i32" \in Cell
  BY TypesAssumption DEF Cell
<1>3. Keeps(Rejected, Top, ref)
  BY <1>1, FailsKeeps DEF Rejected, Outcomes
<1>4. QED
  BY <1>1, <1>2, <1>3, PopKeeps

\* Nothing that is pushed mends a stack that has failed.
LEMMA PushAllFailed ==
  ASSUME NEW s, NEW ts \in Seq(ValueTypes), Good(PushAll(s, ts))
  PROVE  Good(s)
<1>1. SUFFICES ASSUME ~Good(s) PROVE ~Good(PushAll(s, ts))
  OBVIOUS
<1>2. PICK f : /\ f[0] = s /\ PushAll(s, ts) = f[Len(ts)]
               /\ \A i \in 1 .. Len(ts) : f[i] = Push(f[i - 1], ts[i])
  <2>1. ts \in Seq(ValueTypes \cup {AnyType})
    OBVIOUS
  <2>2. QED
    BY <2>1, PushAllSteps
<1>. DEFINE S == {i \in 0 .. Len(ts) : f[i] = s}
<1>3. 0 \in S
  BY <1>2
<1>4. ASSUME NEW i \in 1 .. Len(ts), i - 1 \in S PROVE i \in S
  <2>1. f[i - 1] = s
    BY <1>4
  <2>2. Push(s, ts[i]) = s
    BY <1>1 DEF Push
  <2>3. f[i] = s
    BY <2>1, <2>2, <1>2
  <2>4. QED
    BY <2>3
<1>. HIDE DEF S
<1>5. Len(ts) \in Nat
  OBVIOUS
<1>6. \A i \in 0 .. Len(ts) : i \in S
  BY <1>3, <1>4, <1>5, UpTo
<1>7. QED
  BY <1>1, <1>2, <1>5, <1>6 DEF S

LEMMA ElseStackKeeps ==
  ASSUME Top \in Blocks, NEW s, NEW r, Keeps(s, [Top EXCEPT !.poly = FALSE], r), Good(s)
  PROVE  Keeps(ElseStack(s), ElseBlock, r)
<1>. DEFINE b == [Top EXCEPT !.poly = FALSE]
            q == Fine(Reset(s.cells, Top))
<1>1. /\ b \in Blocks /\ b.base = Top.base /\ Top.params \in Seq(ValueTypes)
      /\ ElseBlock \in Blocks /\ ElseBlock.base = Top.base
  BY DEF ElseBlock, Blocks
<1>. HIDE DEF b
<1>2. Reset(s.cells, Top) = Reset(s.cells, b)
  BY <1>1 DEF Reset
<1>3. Keeps(q, ElseBlock, r)
  BY <1>1, <1>2, ResetKeeps DEF b
<1>. HIDE DEF q
<1>4. Keeps(PushAll(q, Top.params), ElseBlock, r)
  BY <1>1, <1>3, PushAllKeeps
<1>5. QED
  BY <1>4 DEF ElseStack, q

LEMMA OpenBlockKeeps ==
  ASSUME Shape(ref, csp), NEW label \in {"block", "loop", "if"}, NEW type \in BlockTypes,
         OpenBlock(label, type)
  PROVE  IInv' /\ Lower
<1>. DEFINE from == IF label = "if" THEN Pop(Now, Top, "i32") ELSE Now
            q == PopAll(from, Top, type.params)
            q2 == IF Good(q) /\ Len(csp) + 1 > MaxBlocks THEN Fails(q, "limit") ELSE q
            b == Block(label, type, Len(q.cells))
            s == PushAll(q2, type.params)
<1>1. Settle(s, Append(csp, b))
  BY DEF OpenBlock
<1>2. /\ type.params \in Seq(ValueTypes) /\ type.results \in Seq(ValueTypes)
      /\ type.params \in Seq(Cell)
  BY ValidatorAssumption DEF Cell
<1>3. Top \in Blocks /\ Keeps(from, Top, ref)
  BY PopIntKeeps
<1>4. Keeps(q, Top, ref) /\ q \in Stacks
  <2>. HIDE DEF from
  <2>1. Keeps(q, Top, ref)
    BY <1>2, <1>3, PopAllKeeps
  <2>2. QED
    BY <2>1 DEF Keeps
<1>. HIDE DEF q
<1>5. Len(q.cells) \in Nat /\ q.cells \in Seq(Cell)
  BY <1>4 DEF Stacks
<1>6. /\ b \in Blocks /\ b.base = Len(q.cells) /\ b.label # "function"
  BY <1>2, <1>5 DEF Block, Blocks
<1>. HIDE DEF b
<1>7. Keeps(q, b, q.cells)
  <2>. HIDE DEF from, q2, s
  <2>1. WholeFrom(q.cells, Len(q.cells), Len(q.cells))
    BY <1>5, WholeNone
  <2>2. Good(q) => Len(q.cells) <= MaxCells
    BY <1>4 DEF Keeps
  <2>3. \A k \in b.base + 1 .. Len(q.cells) : FALSE
    BY <1>5, <1>6
  <2>4. QED
    BY <1>4, <1>5, <1>6, <2>1, <2>2, <2>3 DEF Keeps
<1>8. Keeps(q2, b, q.cells)
  BY <1>4, <1>7, FailsKeeps DEF Outcomes
<1>9. Keeps(s, b, q.cells)
  <2>. HIDE DEF q2
  <2>1. QED
    BY <1>2, <1>6, <1>8, PushAllKeeps
<1>10. Good(s) => Good(q2)
  BY <1>2, PushAllFailed
<1>11. Good(s) => Good(q) /\ Len(csp) + 1 <= MaxBlocks
  <2>1. Len(csp) + 1 \in Int /\ MaxBlocks \in Int
    BY ValidatorAssumption, TopKeeps
  <2>2. Good(q2) => Good(q) /\ ~(Len(csp) + 1 > MaxBlocks)
    BY DEF Fails, Good
  <2>3. QED
    BY <2>1, <2>2, <1>10
<1>. HIDE DEF s
<1>12. QED
  BY <1>1, <1>4, <1>6, <1>9, <1>11, SettleNew

LEMMA ElseKeeps ==
  ASSUME Shape(ref, csp), Else
  PROVE  IInv' /\ Lower
<1>. DEFINE c == CheckBlockStack(Now, Top)
            q == IF Len(csp) < 2 \/ Top.label # "if" \/ Top.hasElse THEN Rejected ELSE c
            s == IF Good(q) THEN ElseStack(q) ELSE q
            b == ElseBlock
<1>1. Settle(s, SetTop(b))
  BY DEF Else
<1>2. /\ Top \in Blocks /\ Keeps(Now, Top, ref) /\ Now \in Stacks
      /\ (Top.label = "function" <=> Len(csp) = 1)
  BY TopKeeps
<1>3. /\ b \in Blocks /\ b.base = Top.base /\ b.label = Top.label
      /\ Top.params \in Seq(ValueTypes)
  BY <1>2 DEF ElseBlock, Blocks
<1>4. Keeps(q, [Top EXCEPT !.poly = FALSE], ref)
  <2>1. Keeps(c, [Top EXCEPT !.poly = FALSE], ref)
    BY <1>2, CheckBlockStackKeeps
  <2>2. Keeps(Rejected, [Top EXCEPT !.poly = FALSE], ref)
    BY <1>2, FailsKeeps DEF Rejected, Outcomes
  <2>. HIDE DEF c
  <2>3. QED
    BY <2>1, <2>2
<1>. HIDE DEF q
<1>5. Keeps(s, b, ref)
  <2>1. CASE Good(q)
    BY <2>1, <1>2, <1>4, ElseStackKeeps
  <2>2. CASE ~Good(q)
    BY <2>2, <1>4 DEF Keeps
  <2>3. QED
    BY <2>1, <2>2
<1>. HIDE DEF s, b
<1>6. QED
  BY <1>1, <1>2, <1>3, <1>5, SettleTop

LEMMA EndKeeps ==
  ASSUME Shape(ref, csp), NEW more \in BOOLEAN, End(more)
  PROVE  IInv' /\ Lower
<1>. DEFINE b == [Top EXCEPT !.poly = FALSE]
            c == CheckBlockStack(Now, Top)
            q == EndWithElse(c)
            s == IF Good(q) /\ Len(csp) = 1
                 THEN Fails(q, IF more THEN "rejected" ELSE "accepted") ELSE q
<1>1. Settle(s, Outer)
  BY DEF End
<1>2. /\ Top \in Blocks /\ Keeps(Now, Top, ref)
  BY TopKeeps
<1>3. /\ b \in Blocks /\ b.base = Top.base /\ ~b.poly
      /\ ElseBlock \in Blocks /\ ElseBlock.base = Top.base
  BY <1>2 DEF ElseBlock, Blocks
<1>4. Keeps(c, b, ref)
  BY <1>2, CheckBlockStackKeeps
<1>. HIDE DEF c
<1>5. Keeps(q, b, ref)
  <2>1. CASE Good(c) /\ Top.label = "if" /\ ~Top.hasElse
    <3>1. q = CheckBlockStack(ElseStack(c), ElseBlock)
      BY <2>1 DEF EndWithElse
    <3>. DEFINE e == ElseStack(c)
    <3>2. Keeps(e, ElseBlock, ref)
      BY <2>1, <1>2, <1>4, ElseStackKeeps
    <3>. HIDE DEF e
    <3>3. Keeps(CheckBlockStack(e, ElseBlock), [ElseBlock EXCEPT !.poly = FALSE], ref)
      BY <3>2, <1>3, CheckBlockStackKeeps
    <3>4. [ElseBlock EXCEPT !.poly = FALSE].base = b.base /\ ~[ElseBlock EXCEPT !.poly = FALSE].poly
      BY <1>2, <1>3 DEF Blocks
    <3>. DEFINE d == [ElseBlock EXCEPT !.poly = FALSE]
    <3>. HIDE DEF d
    <3>5. Keeps(q, d, ref) /\ d.base = b.base /\ ~d.poly
      BY <3>1, <3>3, <3>4 DEF d, e
    <3>. HIDE DEF q, b
    <3>6. QED
      BY <3>5, <1>3 DEF Keeps
  <2>2. CASE ~(Good(c) /\ Top.label = "if" /\ ~Top.hasElse)
    BY <2>2, <1>4 DEF EndWithElse
  <2>3. QED
    BY <2>1, <2>2
<1>. HIDE DEF q, b
<1>6. q \in Stacks
  BY <1>5 DEF Keeps
<1>7. Keeps(s, b, ref)
  BY <1>5, <1>6, FailsKeeps DEF Outcomes
<1>8. Good(s) => Len(csp) # 1
  BY DEF Good, Fails
<1>. HIDE DEF s
<1>9. QED
  BY <1>1, <1>3, <1>7, <1>8, SettleOuter

LEMMA BranchKeeps ==
  ASSUME Shape(ref, csp), NEW n \in Depths, Br(n) \/ BrIf(n)
  PROVE  IInv' /\ Lower
<1>1. n \in Nat /\ FALSE \in BOOLEAN
  BY ValidatorAssumption
<1>2. CASE Br(n)
  <2>1. Keeps(CheckBr(Now, n, FALSE), Top, ref)
    BY <1>1, PopIntKeeps, CheckBrKeeps
  <2>2. SettleUnreachable(CheckBr(Now, n, FALSE))
    BY <1>2 DEF Br
  <2>3. QED
    BY <2>1, <2>2, SettleUnreachableKeeps
<1>3. CASE BrIf(n)
  <2>1. Keeps(CheckBr(Pop(Now, Top, "i32"), n, FALSE), Top, ref)
    BY <1>1, PopIntKeeps, CheckBrKeeps
  <2>2. Settle(CheckBr(Pop(Now, Top, "i32"), n, FALSE), csp)
    BY <1>3 DEF BrIf
  <2>3. QED
    BY <2>1, <2>2, SettleSame
<1>4. QED
  BY <1>2, <1>3

LEMMA BrTableKeeps ==
  ASSUME Shape(ref, csp), NEW k \in TableSizes, NEW ns \in [1 .. k -> Depths], BrTable(ns)
  PROVE  IInv' /\ Lower
<1>. DEFINE q == CheckTargets(Pop(Now, Top, "i32"), ns)
            s == IF \A i \in 1 .. Len(ns) : ns[i] <= Len(csp) - 1 THEN q ELSE Rejected
<1>1. k \in Nat /\ ns \in [1 .. k -> Nat]
  BY ValidatorAssumption
<1>2. Keeps(q, Top, ref) /\ Keeps(Rejected, Top, ref)
  BY <1>1, PopIntKeeps, CheckTargetsKeeps
<1>3. SettleUnreachable(s)
  BY DEF BrTable
<1>. HIDE DEF q
<1>4. Keeps(s, Top, ref)
  BY <1>2
<1>. HIDE DEF s
<1>5. QED
  BY <1>3, <1>4, SettleUnreachableKeeps

LEMMA ReturnKeeps ==
  ASSUME Shape(ref, csp), Return
  PROVE  IInv' /\ Lower
<1>1. csp[1] \in Blocks
  BY TopKeeps
<1>2. csp[1].results \in Seq(Cell)
  BY <1>1 DEF Blocks, Cell
<1>3. Keeps(PopAll(Now, Top, csp[1].results), Top, ref)
  BY <1>2, PopIntKeeps, PopAllKeeps
<1>4. SettleUnreachable(PopAll(Now, Top, csp[1].results))
  BY DEF Return
<1>5. QED
  BY <1>3, <1>4, SettleUnreachableKeeps

LEMMA ReturnCallKeeps ==
  ASSUME Shape(ref, csp), NEW sig \in CallSigs \cup CallIndirectSigs, ReturnCall(sig)
  PROVE  IInv' /\ Lower
<1>. DEFINE q == PopAll(Now, Top, sig.pops)
            s == IF Good(q) /\ sig.pushes # csp[1].results THEN Rejected ELSE q
<1>1. sig.pops \in Seq(Cell)
  BY SignaturesTyped DEF Cell
<1>2. Keeps(q, Top, ref) /\ Keeps(Rejected, Top, ref)
  BY <1>1, PopIntKeeps, PopAllKeeps
<1>3. SettleUnreachable(s)
  BY DEF ReturnCall
<1>. HIDE DEF q
<1>4. Keeps(s, Top, ref)
  BY <1>2
<1>. HIDE DEF s
<1>5. QED
  BY <1>3, <1>4, SettleUnreachableKeeps

LEMMA DropKeeps ==
  ASSUME Shape(ref, csp), Drop
  PROVE  IInv' /\ Lower
<1>. DEFINE s == IF Available > 0 THEN Fine(PopCells(ref, Width(Last(ref))))
                 ELSE IF Top.poly THEN Now ELSE Rejected
<1>1. Top \in Blocks /\ Keeps(Now, Top, ref) /\ Keeps(Rejected, Top, ref)
  BY PopIntKeeps
<1>2. Now.cells = ref /\ Good(Now) /\ ref \in Seq(Cell) /\ Top.base \in Nat
  BY TopKeeps DEF Now, Fine, Good, Shape, Typed
<1>3. Available > 0 => Keeps(Fine(PopCells(ref, Width(Last(ref)))), Top, ref)
  <2>1. Available > 0 => Len(Now.cells) > Top.base
    BY <1>2 DEF Available
  <2>2. QED
    BY <2>1, <1>1, <1>2, CutKeeps
<1>4. Keeps(s, Top, ref)
  BY <1>1, <1>3
<1>5. Settle(s, csp)
  BY DEF Drop
<1>. HIDE DEF s
<1>6. QED
  BY <1>4, <1>5, SettleSame

LEMMA PushAllOne ==
  ASSUME NEW s, NEW t \in Cell
  PROVE  PushAll(s, <<t>>) = Push(s, t)
<1>. DEFINE ts == <<t>>
<1>1. ts \in Seq(ValueTypes \cup {AnyType}) /\ Len(ts) = 1 /\ ts[1] = t
  BY DEF Cell
<1>. HIDE DEF ts
<1>2. PICK f : /\ f[0] = s /\ PushAll(s, ts) = f[Len(ts)]
               /\ \A i \in 1 .. Len(ts) : f[i] = Push(f[i - 1], ts[i])
  BY <1>1, PushAllSteps
<1>3. PushAll(s, ts) = Push(s, t)
  BY <1>1, <1>2
<1>4. QED
  BY <1>3 DEF ts

\* Two values of the type t, the one on top, give way to one.
LEMMA SelectedKeeps ==
  ASSUME NEW s, NEW b \in Blocks, NEW r, Keeps(s, b, r), Good(s), Len(s.cells) > b.base,
         NEW t, t = Last(s.cells)
  PROVE  Keeps(PushAll(PopAll(s, b, <<t, t>>), <<t>>), b, r)
<1>. DEFINE q == PopAll(s, b, <<t, t>>)
<1>1. s.cells \in Seq(Cell) /\ b.base \in Nat
  BY DEF Keeps, Stacks, Blocks
<1>2. t = s.cells[Len(s.cells)] /\ t \in Cell
  BY <1>1 DEF Last
<1>3. <<t, t>> \in Seq(Cell)
  BY <1>2
<1>4. Keeps(q, b, r)
  BY <1>3, PopAllKeeps
<1>5. CASE t # AnyType
  <2>1. <<t>> \in Seq(ValueTypes)
    BY <1>2, <1>5 DEF Cell
  <2>. HIDE DEF q
  <2>2. Keeps(PushAll(q, <<t>>), b, r)
    BY <1>4, <2>1, PushAllKeeps
  <2>3. QED
    BY <2>2 DEF q
<1>6. CASE t = AnyType
  <2>1. Len(s.cells) = b.base + 1 /\ b.poly
    <3>. HIDE DEF q
    <3>1. Len(s.cells) \in b.base + 1 .. Len(s.cells) /\ s.cells[Len(s.cells)] = AnyType
      BY <1>1, <1>2, <1>6
    <3>2. QED
      BY <3>1 DEF Keeps
  <2>. DEFINE c == PopCells(s.cells, 1)
  <2>2. Width(Last(s.cells)) = 1
    BY <1>6 DEF Width
  <2>3. Len(c) = b.base
    BY <2>1, <2>2, <1>1, CutKeeps
  <2>4. Pop(s, b, t) = Fine(c)
    BY <2>1, <1>1, <1>6 DEF Pop
  <2>. HIDE DEF c
  <2>5. Good(Fine(c)) /\ Fine(c).cells = c
    BY DEF Good, Fine
  <2>6. Pop(Fine(c), b, t) = Fine(c)
    BY <2>1, <2>3, <2>5, <1>1 DEF Pop
  <2>7. q = Fine(c)
    <3>. DEFINE ts == <<t, t>>
    <3>1. ts \in Seq(ValueTypes \cup {AnyType}) /\ Len(ts) = 2 /\ ts[1] = t /\ ts[2] = t
      BY <1>3 DEF Cell
    <3>. HIDE DEF ts
    <3>2. PICK f : /\ f[0] = s /\ PopAll(s, b, ts) = f[Len(ts)]
                   /\ \A i \in 1 .. Len(ts) : f[i] = Pop(f[i - 1], b, ts[Len(ts) + 1 - i])
      BY <3>1, PopAllSteps
    <3>3. PopAll(s, b, ts) = f[2] /\ f[1] = Pop(f[0], b, t) /\ f[2] = Pop(f[1], b, t)
      BY <3>1, <3>2
    <3>4. PopAll(s, b, ts) = Fine(c)
      BY <3>2, <3>3, <2>4, <2>6
    <3>5. QED
      BY <3>4 DEF ts
  <2>. HIDE DEF q
  <2>8. PushAll(q, <<t>>) = Push(q, t)
    BY <1>2, PushAllOne
  <2>9. Keeps(Push(q, t), b, r)
    BY <1>2, <1>4, <2>1, <2>3, <2>5, <2>7, PushKeeps
  <2>10. QED
    BY <2>8, <2>9 DEF q
<1>7. QED
  BY <1>5, <1>6

LEMMA SelectKeeps ==
  ASSUME Shape(ref, csp), Select
  PROVE  IInv' /\ Lower
<1>. DEFINE s == Pop(Now, Top, "i32")
            t == Last(s.cells)
            q == IF ~Good(s) THEN s
                 ELSE IF Len(s.cells) > Top.base THEN PushAll(PopAll(s, Top, <<t, t>>), <<t>>)
                 ELSE SelectFromEmpty(s)
<1>1. Settle(q, csp)
  BY DEF Select
<1>2. Top \in Blocks /\ Keeps(s, Top, ref) /\ Keeps(Rejected, Top, ref)
  BY PopIntKeeps
<1>. HIDE DEF s
<1>3. CASE ~Good(s)
  BY <1>1, <1>2, <1>3, SettleSame
<1>4. CASE Good(s) /\ Len(s.cells) > Top.base
  <2>1. Keeps(PushAll(PopAll(s, Top, <<t, t>>), <<t>>), Top, ref)
    BY <1>2, <1>4, SelectedKeeps
  <2>2. Settle(PushAll(PopAll(s, Top, <<t, t>>), <<t>>), csp)
    BY <1>1, <1>4
  <2>. HIDE DEF t
  <2>3. QED
    BY <2>1, <2>2, SettleSame
<1>5. CASE Good(s) /\ ~(Len(s.cells) > Top.base)
  <2>1. Settle(SelectFromEmpty(s), csp)
    BY <1>1, <1>5
  <2>2. Top.base \in Nat /\ Len(s.cells) \in Nat /\ Len(s.cells) >= Top.base
    BY <1>2, <1>5 DEF Keeps, Stacks, Blocks
  <2>3. Keeps(SelectFromEmpty(s), Top, ref)
    <3>1. CASE Top.poly
      <4>1. AnyType \in Cell /\ Len(s.cells) = Top.base
        BY <1>5, <2>2 DEF Cell
      <4>2. Keeps(Push(s, AnyType), Top, ref)
        BY <4>1, <3>1, <1>2, PushKeeps
      <4>3. QED
        BY <4>2, <3>1 DEF SelectFromEmpty
    <3>2. CASE ~Top.poly
      BY <3>2, <1>2 DEF SelectFromEmpty
    <3>3. QED
      BY <3>1, <3>2
  <2>4. QED
    BY <2>1, <2>3, SettleSame
<1>6. QED
  BY <1>3, <1>4, <1>5

LEMMA OthersKeep ==
  ASSUME Shape(ref, csp), Unreachable \/ Unsupported \/ BodyEnds
  PROVE  IInv' /\ Lower
<1>1. Keeps(Now, Top, ref) /\ Keeps(Rejected, Top, ref)
  BY PopIntKeeps
<1>2. CASE Unreachable
  <2>1. SettleUnreachable(Now)
    BY <1>2 DEF Unreachable
  <2>2. QED
    BY <2>1, <1>1, SettleUnreachableKeeps
<1>3. CASE Unsupported \/ BodyEnds
  <2>1. Settle(Rejected, csp)
    BY <1>3 DEF Unsupported, BodyEnds
  <2>2. QED
    BY <2>1, <1>1, SettleSame
<1>4. QED
  BY <1>2, <1>3

-----------------------------------------------------------------------------
(* The walk *)

LEMMA InitHolds == Init => IInv
<1>1. SUFFICES ASSUME Init PROVE IInv
  OBVIOUS
<1>2. PICK f \in FuncTypes :
        /\ ref = << >> /\ csp = <<Block("function", [f EXCEPT !.params = << >>], 0)>>
        /\ verdict = "checking"
  BY <1>1 DEF Init
<1>. DEFINE b == Block("function", [f EXCEPT !.params = << >>], 0)
<1>3. f \in [params : Seq(ValueTypes), results : Seq(ValueTypes)]
  BY TypesAssumption
<1>4. b \in Blocks /\ b.base = 0 /\ b.label = "function"
  BY <1>3 DEF Block, Blocks
<1>. HIDE DEF b
<1>5. csp = <<b>>
  BY <1>2 DEF b
<1>6. csp \in Seq(Blocks) /\ Len(csp) = 1 /\ csp[1] = b /\ csp # << >> /\ ref \in Seq(Cell)
      /\ Len(ref) = 0
  BY <1>2, <1>4, <1>5
<1>7. Typed(ref, csp) /\ Nested(ref, csp) /\ AnyLowest(ref, csp)
  BY <1>4, <1>6, ValidatorAssumption DEF Typed, Nested, AnyLowest
<1>8. WholeAll(ref, csp)
  BY <1>4, <1>6, WholeNone DEF WholeAll
<1>9. QED
  BY <1>2, <1>7, <1>8 DEF IInv, Shape

LEMMA StepKeeps == IInv /\ [Next]_vars => IInv' /\ (Lower \/ UNCHANGED vars)
<1>1. SUFFICES ASSUME IInv, [Next]_vars PROVE IInv' /\ (Lower \/ UNCHANGED vars)
  OBVIOUS
<1>2. CASE UNCHANGED vars
  BY <1>1, <1>2 DEF vars, IInv, Shape, Typed, Nested, AnyLowest, LowestOf, WholeAll
<1>3. CASE Next
  <2>1. verdict = "checking"
    BY <1>3 DEF Next, Plain, Unreachable, Unsupported, Else, BodyEnds, Return, Drop, Select,
                OpenBlock, End, Br, BrIf, BrTable, ReturnCall, Checking
  <2>2. Shape(ref, csp)
    BY <1>1, <2>1 DEF IInv
  <2>3. ASSUME NEW sig \in Signatures, NEW legal \in BOOLEAN, Plain(sig, legal)
        PROVE  IInv' /\ Lower
    BY <2>2, <2>3, PlainKeeps
  <2>4. ASSUME NEW label \in {"block", "loop", "if"}, NEW type \in BlockTypes,
               OpenBlock(label, type)
        PROVE  IInv' /\ Lower
    BY <2>2, <2>4, OpenBlockKeeps
  <2>5. ASSUME NEW more \in BOOLEAN, End(more) PROVE IInv' /\ Lower
    BY <2>2, <2>5, EndKeeps
  <2>6. ASSUME NEW n \in Depths, Br(n) \/ BrIf(n) PROVE IInv' /\ Lower
    BY <2>2, <2>6, BranchKeeps
  <2>7. ASSUME NEW k \in TableSizes, NEW ns \in [1 .. k -> Depths], BrTable(ns)
        PROVE  IInv' /\ Lower
    BY <2>2, <2>7, BrTableKeeps
  <2>8. ASSUME NEW sig \in CallSigs \cup CallIndirectSigs, ReturnCall(sig)
        PROVE  IInv' /\ Lower
    BY <2>2, <2>8, ReturnCallKeeps
  <2>9. ASSUME Unreachable \/ Unsupported \/ BodyEnds PROVE IInv' /\ Lower
    BY <2>2, <2>9, OthersKeep
  <2>10. ASSUME Else PROVE IInv' /\ Lower
    BY <2>2, <2>10, ElseKeeps
  <2>11. ASSUME Return PROVE IInv' /\ Lower
    BY <2>2, <2>11, ReturnKeeps
  <2>12. ASSUME Drop PROVE IInv' /\ Lower
    BY <2>2, <2>12, DropKeeps
  <2>13. ASSUME Select PROVE IInv' /\ Lower
    BY <2>2, <2>13, SelectKeeps
  <2>14. QED
    BY <1>3, <2>3, <2>4, <2>5, <2>6, <2>7, <2>8, <2>9, <2>10, <2>11, <2>12, <2>13 DEF Next
<1>4. QED
  BY <1>1, <1>2, <1>3

\* Through the whole walk both stacks keep the shape that each opcode relies
\* on: types, nested bases, unknown types where they may be, whole values.
THEOREM ShapeInvariant == Spec => []IInv
<1>1. IInv /\ [Next]_vars => IInv'
  BY StepKeeps
<1>2. QED
  BY <1>1, InitHolds, PTL DEF Spec

\* Types, limits and bases: the cells a block resets to are always there.
THEOREM TypesInvariant == Spec => []TypeOK
<1>1. IInv => TypeOK
  <2>1. SUFFICES ASSUME IInv PROVE TypeOK
    OBVIOUS
  <2>2. CASE verdict = "checking" /\ Shape(ref, csp)
    <3>1. /\ ref \in Seq(Cell) /\ Len(ref) <= MaxCells /\ csp \in Seq(Blocks)
          /\ csp # << >> /\ Len(csp) <= MaxBlocks /\ Len(csp) \in Nat
      BY <2>2 DEF Shape, Typed
    <3>2. ASSUME NEW i \in 1 .. Len(csp)
          PROVE  /\ csp[i].label \in {"function", "block", "loop", "if"}
                 /\ csp[i].base <= Len(ref) /\ (csp[i].label = "function" <=> i = 1)
                 /\ i > 1 => csp[i - 1].base <= csp[i].base
      <4>1. csp[i] \in Blocks
        BY <3>1
      <4>2. i > 1 => i - 1 \in 1 .. Len(csp) /\ i \in i - 1 .. Len(csp)
        BY <3>1
      <4>3. QED
        BY <4>1, <4>2, <2>2 DEF Shape, Nested, Blocks
    <3>3. QED
      BY <3>1, <3>2, <2>2 DEF TypeOK, Cell
  <2>3. CASE verdict \in Outcomes \ {"checking"} /\ ref = << >> /\ csp = << >>
    BY <2>3, ValidatorAssumption DEF TypeOK, Outcomes
  <2>4. QED
    BY <2>1, <2>2, <2>3 DEF IInv
<1>2. QED
  BY <1>1, ShapeInvariant, PTL

\* The cells of every block are whole values; so drop, which looks at one cell
\* only, takes one whole value and nothing of the next.
THEOREM WholeInvariant == Spec => []OperandsWhole
<1>1. IInv => OperandsWhole
  BY DEF IInv, Shape, WholeAll, OperandsWhole
<1>2. QED
  BY <1>1, ShapeInvariant, PTL

\* An operand of unknown type is the lowest of its block, in unreachable code:
\* branches and ends in reachable code never meet one.
THEOREM AnyInvariant == Spec => []AnyOnlyAtBase
<1>1. IInv => AnyOnlyAtBase
  BY DEF IInv, Shape, AnyLowest, LowestOf, AnyOnlyAtBase
<1>2. QED
  BY <1>1, ShapeInvariant, PTL

\* No opcode reads or changes an operand of an enclosing block: the walk leaves
\* to it, at the inner block's end, what it had.
THEOREM LowerKept == Spec => LowerOperandsKept
<1>. DEFINE Kept == csp' # << >> => /\ Len(ref') >= Top.base
                                    /\ Reset(ref', Top) = Reset(ref, Top)
<1>1. ASSUME IInv, IInv', Next, Lower, csp' # << >> PROVE Kept
  <2>1. Shape(ref, csp)
    BY <1>1 DEF IInv, Next, Plain, Unreachable, Unsupported, Else, BodyEnds, Return, Drop,
                Select, OpenBlock, End, Br, BrIf, BrTable, ReturnCall, Checking, Outcomes
  <2>2. ref \in Seq(Cell) /\ Top.base \in Nat /\ Top.base <= Len(ref)
    BY <2>1, TopKeeps DEF Shape, Typed
  <2>3. ref' \in Seq(Cell)
    BY <1>1 DEF IInv, Shape, Typed
  <2>4. Len(ref') >= Top.base /\ \A k \in 1 .. Top.base : ref'[k] = ref[k]
    BY <1>1 DEF Lower
  <2>5. SubSeq(ref', 1, Top.base) = SubSeq(ref, 1, Top.base)
    BY <2>2, <2>3, <2>4
  <2>6. QED
    BY <2>4, <2>5 DEF Reset
<1>2. IInv /\ IInv' /\ [Next]_vars => [Kept]_vars
  BY <1>1, StepKeeps
<1>3. QED
  BY <1>2, ShapeInvariant, PTL DEF Spec, LowerOperandsKept

-----------------------------------------------------------------------------
(* Sequences of values and their cells *)

LEMMA CatAssoc ==
  ASSUME NEW a \in Seq(Cell), NEW b \in Seq(Cell), NEW c \in Seq(Cell)
  PROVE  (a \o b) \o c = a \o (b \o c)
BY ConcatAssociative

\* The same as a relation, for leaves with many sequences.
Associates(a, b, c) == (a \o b) \o c = a \o (b \o c)

LEMMA CatAssociates ==
  ASSUME NEW a \in Seq(Cell), NEW b \in Seq(Cell), NEW c \in Seq(Cell)
  PROVE  Associates(a, b, c)
BY CatAssoc DEF Associates

LEMMA CatEmpty ==
  ASSUME NEW a \in Seq(Cell)
  PROVE  a \o << >> = a /\ << >> \o a = a
BY ConcatEmptySeq

LEMMA CatType ==
  ASSUME NEW a \in Seq(Cell), NEW b \in Seq(Cell)
  PROVE  /\ a \o b \in Seq(Cell) /\ Len(a) \in Nat /\ Len(b) \in Nat
         /\ Len(a \o b) = Len(a) + Len(b)
         /\ \A i \in 1 .. Len(a) : (a \o b)[i] = a[i]
         /\ \A i \in 1 .. Len(b) : (a \o b)[Len(a) + i] = b[i]
<1>1. /\ a \o b \in Seq(Cell)
      /\ Len(a \o b) = Len(a) + Len(b)
      /\ \A i \in 1 .. Len(a) + Len(b) : (a \o b)[i] =
                     IF i <= Len(a) THEN a[i] ELSE b[i - Len(a)]
  BY ConcatProperties
<1>2. Len(a) \in Nat /\ Len(b) \in Nat
  BY LenProperties
<1>3. QED
  BY <1>1, <1>2

LEMMA CopiesOf ==
  ASSUME NEW t \in Cell
  PROVE  /\ Copies(t) \in Seq(Cell) /\ Len(Copies(t)) \in Nat /\ Len(Copies(t)) >= 1
         /\ Copies(t)[Len(Copies(t))] = t
         /\ Len(Copies(t)) = Width(t) /\ Width(t) \in {1, 2, 4}
<1>1. Len(Copies(t)) \in {1, 2, 4}
  BY CopiesType
<1>2. \A i \in 1 .. Len(Copies(t)) : Copies(t)[i] = t
  BY CopiesType
<1>3. Copies(t) \in Seq(Cell) /\ Len(Copies(t)) = Width(t)
  BY CopiesType
<1>4. QED
  BY <1>1, <1>2, <1>3

\* Induction over sequences, for a set in place of a predicate.
LEMMA SeqFrom ==
  ASSUME NEW S, << >> \in S, \A v \in Seq(Cell), t \in Cell : v \in S => Append(v, t) \in S
  PROVE  Seq(Cell) \subseteq S
<1>1. SUFFICES ASSUME NEW v \in Seq(Cell) PROVE v \in S
  OBVIOUS
<1>. DEFINE n == Len(v)
            In(i) == SubSeq(v, 1, i) \in S
            K == {i \in 0 .. n : In(i)}
<1>2. n \in Nat
  BY LenProperties
<1>3. SubSeq(v, 1, 0) = << >> /\ SubSeq(v, 1, n) = v
  BY SubSeqEmpty, SubSeqFull
<1>4. \A i \in 1 .. n : v[i] \in Cell
  BY ElementOfSeq
<1>. HIDE DEF n
<1>5. 0 \in K
  <2>1. In(0)
    BY <1>3
  <2>. HIDE DEF In
  <2>2. QED
    BY <1>2, <2>1
<1>6. ASSUME NEW i \in 1 .. n, i - 1 \in K PROVE i \in K
  <2>1. PICK u : u = SubSeq(v, 1, i - 1)
    OBVIOUS
  <2>2. u \in Seq(Cell)
    BY <1>2, <1>4, <2>1, SubSeqProperties
  <2>3. SubSeq(v, 1, i) = u \o <<v[i]>>
    BY <1>2, <2>1, SubSeqRecursiveSecond DEF n
  <2>4. SubSeq(v, 1, i) = Append(u, v[i])
    BY <1>4, <2>2, <2>3, AppendIsConcat
  <2>5. u \in S
    BY <1>6, <2>1
  <2>6. In(i)
    BY <1>4, <2>2, <2>4, <2>5
  <2>. HIDE DEF In
  <2>7. QED
    BY <1>2, <2>6
<1>. HIDE DEF K
<1>7. \A i \in 0 .. n : i \in K
  BY <1>2, <1>5, <1>6, UpTo
<1>8. n \in K
  BY <1>2, <1>7
<1>9. QED
  BY <1>3, <1>8 DEF K

\* FlattenSeq joins one run of cells after the other.
LEMMA CellsOfSteps ==
  ASSUME NEW v \in Seq(Cell)
  PROVE  \E f : /\ f[0] = << >> /\ CellsOf(v) = f[Len(v)]
                /\ \A i \in 1 .. Len(v) : f[i] = f[i - 1] \o Copies(v[i])
<1>. DEFINE n == Len(v)
            q == [i \in 1 .. n |-> Copies(v[i])]
            Walk(g, m) == g = [i \in 1 .. m |-> IF i = 1 THEN q[i] ELSE g[i - 1] \o q[i]]
            S == {m \in 0 .. n : \E g : Walk(g, m)}
<1>1. n \in Nat /\ \A i \in 1 .. n : v[i] \in Cell
  BY LenProperties, ElementOfSeq
<1>2. CellsOf(v) = FlattenSeq(q)
  BY DEF CellsOf
<1>3. Len(q) = n /\ (n = 0 => q = << >>)
      /\ \A i \in 1 .. n : q[i] = Copies(v[i]) /\ q[i] \in Seq(Cell)
  <2>1. \A i \in 1 .. n : Copies(v[i]) \in Seq(Cell)
    BY <1>1, CopiesType
  <2>. HIDE DEF n
  <2>2. q \in [1 .. n -> Seq(Cell)] /\ \A i \in 1 .. n : q[i] = Copies(v[i]) /\ q[i] \in Seq(Cell)
    BY <2>1
  <2>. HIDE DEF q
  <2>3. Len(q) = n
    BY <2>2, <1>1
  <2>4. n = 0 => q = << >>
    BY <2>2
  <2>5. QED
    BY <2>2, <2>3, <2>4
<1>. HIDE DEF n, q
<1>4. 0 \in S
  <2>1. Walk([i \in 1 .. 0 |-> q], 0)
    OBVIOUS
  <2>. HIDE DEF Walk
  <2>2. QED
    BY <2>1, <1>1
<1>5. ASSUME NEW m \in 1 .. n, m - 1 \in S PROVE m \in S
  <2>1. PICK g : Walk(g, m - 1)
    BY <1>5
  <2>. DEFINE h == [i \in 1 .. m |->
                     IF i = m THEN IF m = 1 THEN q[1] ELSE g[m - 1] \o q[m] ELSE g[i]]
  <2>2. ASSUME NEW i \in 1 .. m PROVE h[i] = IF i = 1 THEN q[i] ELSE h[i - 1] \o q[i]
    <3>1. CASE i = m
      BY <3>1, <1>1
    <3>2. CASE i # m
      <4>1. g[i] = IF i = 1 THEN q[i] ELSE g[i - 1] \o q[i]
        <5>1. i \in 1 .. m - 1
          BY <3>2, <1>1
        <5>2. QED
          BY <5>1, <2>1
      <4>2. i # 1 => i - 1 \in 1 .. m /\ i - 1 # m
        BY <1>1
      <4>3. QED
        BY <4>1, <4>2, <3>2
    <3>3. QED
      BY <3>1, <3>2
  <2>3. Walk(h, m)
    BY <2>2
  <2>. HIDE DEF Walk, h
  <2>4. QED
    BY <2>3, <1>1
<1>6. PICK walk : Walk(walk, n)
  <2>. HIDE DEF S
  <2>1. \A i \in 0 .. n : i \in S
    BY <1>1, <1>4, <1>5, UpTo
  <2>2. n \in S
    BY <2>1, <1>1
  <2>. HIDE DEF Walk
  <2>3. QED
    BY <2>2 DEF S
<1>. DEFINE flat == CHOOSE g : Walk(g, n)
<1>7. Walk(flat, n)
  BY <1>6
<1>8. CellsOf(v) = IF n = 0 THEN << >> ELSE flat[n]
  <2>1. PICK flatten : flatten = CHOOSE g : g = [i \in 1 .. Len(q) |->
                                                  IF i = 1 THEN q[i] ELSE g[i - 1] \o q[i]]
    OBVIOUS
  <2>2. FlattenSeq(q) = IF Len(q) = 0 THEN q ELSE flatten[Len(q)]
    BY <2>1 DEF FlattenSeq
  <2>3. flatten = flat
    BY <1>3, <2>1
  <2>4. QED
    BY <1>2, <1>3, <2>2, <2>3
<1>9. \A i \in 1 .. n : flat[i] = IF i = 1 THEN q[i] ELSE flat[i - 1] \o q[i]
  BY <1>7
<1>. HIDE DEF flat, Walk
<1>. DEFINE f == [i \in 0 .. n |-> IF i = 0 THEN << >> ELSE flat[i]]
<1>10. f[0] = << >> /\ CellsOf(v) = f[n] /\ \A i \in 1 .. n : f[i] = flat[i]
  BY <1>1, <1>8
<1>. HIDE DEF f
<1>11. ASSUME NEW i \in 1 .. n PROVE f[i] = f[i - 1] \o Copies(v[i])
  <2>1. flat[i] = IF i = 1 THEN q[i] ELSE flat[i - 1] \o q[i]
    BY <1>9
  <2>2. q[i] = Copies(v[i]) /\ << >> \o q[i] = q[i]
    BY <1>3, ConcatEmptySeq
  <2>3. i # 1 => i - 1 \in 1 .. n
    BY <1>1
  <2>4. CASE i = 1
    <3>1. f[i - 1] = << >> /\ f[i] = q[i]
      BY <1>10, <2>1, <2>4
    <3>2. QED
      BY <3>1, <2>2, Zenon
  <2>5. CASE i # 1
    BY <1>10, <2>1, <2>2, <2>3, <2>5
  <2>6. QED
    BY <2>4, <2>5
<1>12. QED
  BY <1>10, <1>11 DEF n

LEMMA CellsOfAppend ==
  ASSUME NEW v \in Seq(Cell), NEW t \in Cell
  PROVE  CellsOf(Append(v, t)) = CellsOf(v) \o Copies(t)
<1>1. PICK u : u = Append(v, t)
  OBVIOUS
<1>2. u \in Seq(Cell) /\ Len(u) = Len(v) + 1 /\ u[Len(v) + 1] = t /\ Len(v) \in Nat
      /\ \A i \in 1 .. Len(v) : u[i] = v[i]
  BY <1>1, AppendProperties, LenProperties
<1>3. PICK f : /\ f[0] = << >> /\ CellsOf(v) = f[Len(v)]
               /\ \A i \in 1 .. Len(v) : f[i] = f[i - 1] \o Copies(v[i])
  BY CellsOfSteps
<1>4. PICK g : /\ g[0] = << >> /\ CellsOf(u) = g[Len(u)]
               /\ \A i \in 1 .. Len(u) : g[i] = g[i - 1] \o Copies(u[i])
  BY <1>2, CellsOfSteps
<1>. DEFINE S == {i \in 0 .. Len(v) : f[i] = g[i]}
<1>5. 0 \in S
  BY <1>2, <1>3, <1>4
<1>6. ASSUME NEW i \in 1 .. Len(v), i - 1 \in S PROVE i \in S
  <2>1. f[i - 1] = g[i - 1] /\ i \in 1 .. Len(u) /\ u[i] = v[i]
    BY <1>2, <1>6
  <2>2. f[i] = g[i]
    BY <2>1, <1>3, <1>4
  <2>3. QED
    BY <2>2, <1>2
<1>. HIDE DEF S
<1>7. \A i \in 0 .. Len(v) : i \in S
  BY <1>2, <1>5, <1>6, UpTo
<1>8. f[Len(v)] = g[Len(v)]
  BY <1>2, <1>7 DEF S
<1>9. Len(u) \in 1 .. Len(u) /\ Len(u) - 1 = Len(v)
  BY <1>2
<1>10. CellsOf(u) = CellsOf(v) \o Copies(t)
  <2>1. g[Len(u)] = g[Len(u) - 1] \o Copies(u[Len(u)])
    BY <1>9, <1>4
  <2>2. QED
    BY <2>1, <1>2, <1>3, <1>4, <1>8, <1>9
<1>11. QED
  BY <1>1, <1>10

LEMMA CellsOfEmpty == CellsOf(<< >>) = << >>
<1>1. PICK e : e = << >>
  OBVIOUS
<1>2. e \in Seq(Cell) /\ Len(e) = 0
  BY <1>1
<1>3. CellsOf(e) = << >>
  BY <1>2, CellsOfSteps
<1>4. QED
  BY <1>1, <1>3

LEMMA CellsOfType ==
  ASSUME NEW v \in Seq(Cell)
  PROVE  CellsOf(v) \in Seq(Cell) /\ Len(CellsOf(v)) \in Nat /\ Len(CellsOf(v)) >= Len(v)
<1>. DEFINE P(x) == CellsOf(x) \in Seq(Cell) /\ Len(CellsOf(x)) >= Len(x)
            S == {x \in Seq(Cell) : P(x)}
<1>1. << >> \in S
  <2>1. PICK e : e = << >>
    OBVIOUS
  <2>2. e \in Seq(Cell) /\ CellsOf(e) = e /\ Len(e) = 0
    BY <2>1, CellsOfEmpty
  <2>3. P(e)
    BY <2>2
  <2>. HIDE DEF P
  <2>4. QED
    BY <2>1, <2>2, <2>3
<1>2. ASSUME NEW x \in Seq(Cell), NEW t \in Cell, x \in S PROVE Append(x, t) \in S
  <2>1. PICK c : c = CellsOf(x)
    OBVIOUS
  <2>2. PICK d : d = Copies(t)
    OBVIOUS
  <2>3. c \in Seq(Cell) /\ Len(c) >= Len(x)
    BY <1>2, <2>1
  <2>4. d \in Seq(Cell) /\ Len(d) >= 1
    BY <2>2, CopiesOf
  <2>5. CellsOf(Append(x, t)) = c \o d
    BY <2>1, <2>2, CellsOfAppend
  <2>6. c \o d \in Seq(Cell) /\ Len(c \o d) = Len(c) + Len(d)
    BY <2>3, <2>4, ConcatProperties
  <2>7. Append(x, t) \in Seq(Cell) /\ Len(Append(x, t)) = Len(x) + 1
    BY AppendProperties
  <2>8. Len(x) \in Nat /\ Len(c) \in Nat /\ Len(d) \in Nat
    BY <2>3, <2>4, LenProperties
  <2>9. P(Append(x, t))
    BY <2>3, <2>4, <2>5, <2>6, <2>7, <2>8
  <2>. HIDE DEF P
  <2>10. QED
    BY <2>7, <2>9
<1>. HIDE DEF S
<1>3. v \in S
  BY <1>1, <1>2, SeqFrom
<1>4. QED
  BY <1>3, LenProperties DEF S

LEMMA CellsOfJoined ==
  ASSUME NEW v \in Seq(Cell), NEW w \in Seq(Cell)
  PROVE  CellsOf(v \o w) = CellsOf(v) \o CellsOf(w)
<1>. DEFINE P(x) == CellsOf(v \o x) = CellsOf(v) \o CellsOf(x)
            S == {x \in Seq(Cell) : P(x)}
<1>1. << >> \in S
  <2>1. CellsOf(v) \o << >> = CellsOf(v) /\ v \o << >> = v
    BY CellsOfType, ConcatEmptySeq
  <2>2. P(<< >>)
    BY <2>1, CellsOfEmpty
  <2>. HIDE DEF P
  <2>3. QED
    BY <2>2
<1>2. ASSUME NEW x \in Seq(Cell), NEW t \in Cell, x \in S PROVE Append(x, t) \in S
  <2>1. v \o Append(x, t) = Append(v \o x, t) /\ v \o x \in Seq(Cell) /\ Append(x, t) \in Seq(Cell)
    <3>1. <<t>> \in Seq(Cell)
      OBVIOUS
    <3>2. QED
      BY <3>1, AppendIsConcat, ConcatAssociative, ConcatProperties, AppendProperties
  <2>2. PICK a : a = CellsOf(v)
    OBVIOUS
  <2>3. PICK b : b = CellsOf(x)
    OBVIOUS
  <2>4. PICK c : c = Copies(t)
    OBVIOUS
  <2>5. a \in Seq(Cell) /\ b \in Seq(Cell) /\ c \in Seq(Cell)
    BY <2>2, <2>3, <2>4, CellsOfType, CopiesType
  <2>6. CellsOf(Append(v \o x, t)) = (a \o b) \o c
    BY <1>2, <2>1, <2>2, <2>3, <2>4, CellsOfAppend
  <2>7. CellsOf(Append(x, t)) = b \o c
    BY <2>3, <2>4, CellsOfAppend
  <2>8. (a \o b) \o c = a \o (b \o c)
    <3>1. Associates(a, b, c)
      BY <2>5, CatAssociates, Zenon
    <3>2. QED
      BY <3>1 DEF Associates
  <2>9. P(Append(x, t))
    BY <2>1, <2>2, <2>6, <2>7, <2>8
  <2>. HIDE DEF P
  <2>10. QED
    BY <2>1, <2>9
<1>. HIDE DEF S
<1>3. w \in S
  BY <1>1, <1>2, SeqFrom
<1>4. QED
  BY <1>3 DEF S

\* The cells of the last value are above those of the others and alike.
LEMMA CellsOfLast ==
  ASSUME NEW v \in Seq(Cell), NEW t \in Cell
  PROVE  /\ Append(v, t) \in Seq(Cell) /\ CellsOf(Append(v, t)) \in Seq(Cell)
         /\ Len(CellsOf(v)) \in Nat
         /\ Len(CellsOf(Append(v, t))) = Len(CellsOf(v)) + Width(t)
         /\ \A i \in 1 .. Len(CellsOf(v)) : CellsOf(Append(v, t))[i] = CellsOf(v)[i]
         /\ \A i \in 1 .. Width(t) : CellsOf(Append(v, t))[Len(CellsOf(v)) + i] = t
         /\ CellsOf(Append(v, t))[Len(CellsOf(Append(v, t)))] = t
<1>1. PICK c : c = CellsOf(v)
  OBVIOUS
<1>2. PICK d : d = Copies(t)
  OBVIOUS
<1>3. PICK e : e = CellsOf(Append(v, t))
  OBVIOUS
<1>4. c \in Seq(Cell) /\ d \in Seq(Cell) /\ e = c \o d /\ Len(c) \in Nat
  BY <1>1, <1>2, <1>3, CellsOfType, CopiesType, CellsOfAppend
<1>5. Len(d) = Width(t) /\ Width(t) \in {1, 2, 4} /\ \A i \in 1 .. Width(t) : d[i] = t
  BY <1>2, CopiesType
<1>6. /\ e \in Seq(Cell) /\ Len(e) = Len(c) + Len(d)
      /\ \A i \in 1 .. Len(c) : e[i] = c[i]
      /\ \A i \in 1 .. Len(d) : e[Len(c) + i] = d[i]
  BY <1>4, CatType
<1>7. e[Len(c) + Width(t)] = t
  BY <1>5, <1>6
<1>8. Append(v, t) \in Seq(Cell)
  BY AppendProperties
<1>9. QED
  BY <1>1, <1>3, <1>4, <1>5, <1>6, <1>7, <1>8

\* Every value has a cell, not below its own place.
LEMMA CellOfValue ==
  ASSUME NEW v \in Seq(Cell), NEW i \in 1 .. Len(v)
  PROVE  \E k \in i .. Len(CellsOf(v)) : CellsOf(v)[k] = v[i]
<1>. DEFINE P(x) == \A j \in 1 .. Len(x) : \E k \in j .. Len(CellsOf(x)) : CellsOf(x)[k] = x[j]
            S == {x \in Seq(Cell) : P(x)}
<1>1. << >> \in S
  <2>1. PICK e : e = << >>
    OBVIOUS
  <2>2. e \in Seq(Cell) /\ Len(e) = 0
    BY <2>1
  <2>3. P(e)
    BY <2>2
  <2>. HIDE DEF P
  <2>4. QED
    BY <2>1, <2>2, <2>3
<1>2. ASSUME NEW x \in Seq(Cell), NEW t \in Cell, x \in S PROVE Append(x, t) \in S
  <2>1. PICK y : y = Append(x, t)
    OBVIOUS
  <2>2. PICK c : c = CellsOf(x)
    OBVIOUS
  <2>3. PICK d : d = CellsOf(y)
    OBVIOUS
  <2>4. /\ y \in Seq(Cell) /\ Len(y) = Len(x) + 1 /\ y[Len(x) + 1] = t /\ Len(x) \in Nat
        /\ \A j \in 1 .. Len(x) : y[j] = x[j]
    BY <2>1, AppendProperties, LenProperties
  <2>5. /\ Len(c) \in Nat /\ Len(d) = Len(c) + Width(t) /\ Width(t) \in {1, 2, 4}
        /\ \A j \in 1 .. Len(c) : d[j] = c[j]
        /\ d[Len(d)] = t /\ Len(c) >= Len(x)
    <3>1. Width(t) \in {1, 2, 4}
      BY CopiesOf
    <3>2. Len(c) >= Len(x)
      BY <2>2, CellsOfType
    <3>3. /\ Len(c) \in Nat /\ Len(d) = Len(c) + Width(t)
          /\ \A j \in 1 .. Len(c) : d[j] = c[j]
          /\ d[Len(d)] = t
      <4>1. d = CellsOf(Append(x, t))
        BY <2>1, <2>3
      <4>2. QED
        BY <2>2, <4>1, CellsOfLast, Zenon
    <3>4. QED
      BY <3>1, <3>2, <3>3
  <2>6. \A j \in 1 .. Len(x) : \E k \in j .. Len(c) : c[k] = x[j]
    BY <1>2, <2>2
  <2>7. ASSUME NEW j \in 1 .. Len(y) PROVE \E k \in j .. Len(d) : d[k] = y[j]
    <3>1. CASE j = Len(y)
      <4>1. Len(d) \in j .. Len(d)
        BY <2>4, <2>5, <3>1
      <4>2. QED
        BY <2>4, <2>5, <3>1, <4>1
    <3>2. CASE j # Len(y)
      <4>1. j \in 1 .. Len(x)
        BY <2>4, <3>2
      <4>2. PICK k \in j .. Len(c) : c[k] = x[j]
        BY <2>6, <4>1
      <4>3. k \in j .. Len(d) /\ k \in 1 .. Len(c)
        BY <2>5, <4>1, <4>2
      <4>4. QED
        BY <2>4, <2>5, <4>1, <4>2, <4>3
    <3>3. QED
      BY <3>1, <3>2
  <2>8. P(y)
    BY <2>3, <2>7
  <2>. HIDE DEF P
  <2>9. QED
    BY <2>1, <2>4, <2>8
<1>. HIDE DEF S
<1>3. v \in S
  BY <1>1, <1>2, SeqFrom
<1>4. QED
  BY <1>3 DEF S

\* w is the values whose cells are d, then ts.
Ends(w, d, ts) == \E u \in Seq(Cell) : w = u \o ts /\ CellsOf(u) = d

\* Cells tell their values: values whose cells end with those of ts end with ts.
LEMMA CellsEndWith ==
  ASSUME NEW ts \in Seq(Cell), NEW w \in Seq(Cell), NEW d \in Seq(Cell),
         CellsOf(w) = d \o CellsOf(ts)
  PROVE  Ends(w, d, ts)
<1>. DEFINE P(x) == \A y \in Seq(Cell), e \in Seq(Cell) :
                      CellsOf(y) = e \o CellsOf(x) => \E u \in Seq(Cell) : y = u \o x /\ CellsOf(u) = e
            S == {x \in Seq(Cell) : P(x)}
<1>1. << >> \in S
  <2>1. PICK o : o = << >>
    OBVIOUS
  <2>2. o \in Seq(Cell) /\ CellsOf(o) = o /\ \A y \in Seq(Cell) : y \o o = y
    BY <2>1, CellsOfEmpty, ConcatEmptySeq
  <2>3. P(o)
    <3>1. ASSUME NEW y \in Seq(Cell), NEW e \in Seq(Cell), CellsOf(y) = e \o CellsOf(o)
          PROVE  \E u \in Seq(Cell) : y = u \o o /\ CellsOf(u) = e
      BY <2>2, <3>1, Zenon
    <3>2. QED
      BY <3>1
  <2>. HIDE DEF P
  <2>4. QED
    BY <2>1, <2>2, <2>3
<1>2. ASSUME NEW x \in Seq(Cell), NEW t \in Cell, x \in S PROVE Append(x, t) \in S
  <2>1. ASSUME NEW y \in Seq(Cell), NEW e \in Seq(Cell), CellsOf(y) = e \o CellsOf(Append(x, t))
        PROVE  \E u \in Seq(Cell) : y = u \o Append(x, t) /\ CellsOf(u) = e
    <3>1. PICK c : c = CellsOf(x)
      OBVIOUS
    <3>2. PICK k : k = Copies(t)
      OBVIOUS
    <3>3. c \in Seq(Cell) /\ k \in Seq(Cell) /\ Len(k) >= 1 /\ Len(k) \in Nat /\ k[Len(k)] = t
      <4>1. c \in Seq(Cell)
        BY <3>1, CellsOfType
      <4>2. QED
        BY <4>1, <3>2, CopiesOf
    <3>4. CellsOf(y) = (e \o c) \o k
      <4>1. CellsOf(Append(x, t)) = c \o k
        BY <3>1, <3>2, CellsOfAppend
      <4>2. (e \o c) \o k = e \o (c \o k)
        <5>1. Associates(e, c, k)
          BY <3>3, CatAssociates, Zenon
        <5>2. QED
          BY <5>1 DEF Associates
      <4>3. QED
        BY <2>1, <4>1, <4>2
    <3>5. PICK a : a = e \o c
      OBVIOUS
    <3>6. a \in Seq(Cell)
      BY <3>3, <3>5, CatType
    <3>7. y # << >>
      <4>1. Len(a \o k) = Len(a) + Len(k) /\ Len(a) \in Nat
        BY <3>3, <3>6, CatType
      <4>2. y = << >> => CellsOf(y) = << >>
        BY CellsOfEmpty
      <4>3. QED
        BY <3>3, <3>4, <3>5, <4>1, <4>2
    <3>8. PICK z \in Seq(Cell), s \in Cell : y = Append(z, s)
      BY <3>7, SequenceEmptyOrAppend
    <3>9. PICK b : b = CellsOf(z)
      OBVIOUS
    <3>10. PICK l : l = Copies(s)
      OBVIOUS
    <3>11. b \in Seq(Cell) /\ l \in Seq(Cell) /\ Len(l) >= 1 /\ Len(l) \in Nat /\ l[Len(l)] = s
      <4>1. b \in Seq(Cell)
        BY <3>9, CellsOfType
      <4>2. QED
        BY <4>1, <3>10, CopiesOf
    <3>12. b \o l = a \o k
      BY <3>4, <3>5, <3>8, <3>9, <3>10, CellsOfAppend
    <3>13. s = t
      <4>1. /\ (a \o k)[Len(a) + Len(k)] = k[Len(k)] /\ Len(a \o k) = Len(a) + Len(k)
            /\ (b \o l)[Len(b) + Len(l)] = l[Len(l)] /\ Len(b \o l) = Len(b) + Len(l)
        BY <3>3, <3>6, <3>11, CatType
      <4>2. k[Len(k)] = t /\ l[Len(l)] = s
        BY <3>3, <3>11
      <4>3. QED
        BY <3>12, <4>1, <4>2
    <3>14. b = a
      <4>1. b \o k = a \o k
        BY <3>2, <3>10, <3>12, <3>13
      <4>2. QED
        BY <3>3, <3>6, <3>11, <4>1, ConcatSimplifications
    <3>15. P(x)
      BY <1>2
    <3>16. PICK u \in Seq(Cell) : z = u \o x /\ CellsOf(u) = e
      BY <3>1, <3>5, <3>9, <3>14, <3>15
    <3>17. Append(u \o x, t) = u \o Append(x, t)
      <4>1. <<t>> \in Seq(Cell) /\ u \o x \in Seq(Cell)
        BY CatType
      <4>2. Append(u \o x, t) = (u \o x) \o <<t>> /\ Append(x, t) = x \o <<t>>
        BY <4>1, AppendIsConcat
      <4>3. (u \o x) \o <<t>> = u \o (x \o <<t>>)
        <5>1. Associates(u, x, <<t>>)
          BY <4>1, CatAssociates, Zenon
        <5>2. QED
          BY <5>1 DEF Associates
      <4>4. QED
        BY <4>2, <4>3
    <3>18. QED
      BY <3>8, <3>13, <3>16, <3>17
  <2>2. P(Append(x, t))
    BY <2>1
  <2>3. Append(x, t) \in Seq(Cell)
    BY AppendProperties
  <2>. HIDE DEF P
  <2>4. QED
    BY <2>2, <2>3
<1>. HIDE DEF S
<1>3. ts \in S
  BY <1>1, <1>2, SeqFrom
<1>4. P(ts)
  BY <1>3 DEF S
<1>5. QED
  BY <1>4 DEF Ends

LEMMA CellsOfInjective ==
  ASSUME NEW v \in Seq(Cell), NEW w \in Seq(Cell), CellsOf(v) = CellsOf(w)
  PROVE  v = w
<1>1. PICK none : none = << >>
  OBVIOUS
<1>2. none \in Seq(Cell) /\ Len(none) = 0
  BY <1>1
<1>3. CellsOf(v) = none \o CellsOf(w)
  <2>1. CellsOf(w) \in Seq(Cell)
    BY CellsOfType
  <2>2. QED
    BY <1>1, <2>1, CatEmpty
<1>4. PICK u \in Seq(Cell) : v = u \o w /\ CellsOf(u) = none
  <2>1. PICK y : y = w
    OBVIOUS
  <2>2. y \in Seq(Cell) /\ CellsOf(v) = none \o CellsOf(y)
    BY <1>3, <2>1
  <2>3. Ends(v, none, y)
    BY <1>2, <2>2, CellsEndWith
  <2>4. QED
    BY <2>1, <2>3 DEF Ends
<1>5. Len(u) = 0
  BY <1>2, <1>4, CellsOfType, LenProperties
<1>6. u = << >>
  BY <1>5, EmptySeq
<1>7. QED
  BY <1>4, <1>6, ConcatEmptySeq

-----------------------------------------------------------------------------
(* Reading values back from cells *)

LEMMA ValuesSteps ==
  ASSUME NEW r \in Seq(Cell)
  PROVE  \E f : /\ Values(r) = f[Len(r)] /\ \A i \in -3 .. 0 : f[i] = << >>
                /\ \A i \in 1 .. Len(r) : f[i] = Append(f[i - Width(r[i])], r[i])
<1>. DEFINE n == Len(r)
            Upto(f, m) == f = [i \in -3 .. m |-> IF i <= 0 THEN << >>
                                                ELSE Append(f[i - Width(r[i])], r[i])]
            S == {m \in 0 .. n : \E f : Upto(f, m)}
<1>1. n \in Nat /\ \A i \in 1 .. n : Width(r[i]) \in {1, 2, 4}
  BY LenProperties, ElementOfSeq, CopiesOf
<1>. HIDE DEF n
<1>2. 0 \in S
  <2>1. Upto([i \in -3 .. 0 |-> << >>], 0)
    OBVIOUS
  <2>. HIDE DEF Upto
  <2>2. QED
    BY <2>1, <1>1
<1>3. ASSUME NEW m \in 1 .. n, m - 1 \in S PROVE m \in S
  <2>1. PICK f : Upto(f, m - 1)
    BY <1>3
  <2>. DEFINE Next1(i) == Append(f[i - Width(r[i])], r[i])
              g == [i \in -3 .. m |-> IF i = m THEN Next1(m) ELSE f[i]]
  <2>2. ASSUME NEW i \in -3 .. m
        PROVE  g[i] = IF i <= 0 THEN << >> ELSE Append(g[i - Width(r[i])], r[i])
    <3>1. i >= 1 => i - Width(r[i]) \in -3 .. m - 1
      <4>1. i >= 1 => Width(r[i]) \in {1, 2, 4}
        BY <1>1
      <4>2. QED
        BY <1>1, <4>1
    <3>2. i >= 1 => g[i - Width(r[i])] = f[i - Width(r[i])]
      BY <3>1, <1>1
    <3>3. CASE i = m
      <4>1. g[i] = Next1(i) /\ i >= 1
        BY <3>3, <1>1
      <4>. HIDE DEF g
      <4>2. Next1(i) = Append(g[i - Width(r[i])], r[i])
        BY <3>2, <4>1
      <4>. HIDE DEF Next1
      <4>3. ~(i <= 0)
        BY <4>1
      <4>4. QED
        BY <4>1, <4>2, <4>3
    <3>4. CASE i # m
      <4>1. i \in -3 .. m - 1 /\ g[i] = f[i]
        BY <3>4, <1>1
      <4>2. f[i] = IF i <= 0 THEN << >> ELSE Append(f[i - Width(r[i])], r[i])
        BY <2>1, <4>1
      <4>3. QED
        BY <3>2, <4>1, <4>2
    <3>5. QED
      BY <3>3, <3>4
  <2>3. Upto(g, m)
    BY <2>2
  <2>. HIDE DEF Upto, g
  <2>4. QED
    BY <2>3, <1>1
<1>4. PICK g : Upto(g, n)
  <2>. HIDE DEF S
  <2>1. \A i \in 0 .. n : i \in S
    BY <1>1, <1>2, <1>3, UpTo
  <2>2. n \in S
    BY <2>1, <1>1
  <2>. HIDE DEF Upto
  <2>3. QED
    BY <2>2 DEF S
<1>. DEFINE h == CHOOSE f : Upto(f, n)
<1>5. Upto(h, n)
  BY <1>4
<1>6. Values(r) = h[n]
  BY DEF Values, n
<1>. HIDE DEF h
<1>7. \A i \in -3 .. n : h[i] = IF i <= 0 THEN << >> ELSE Append(h[i - Width(r[i])], r[i])
  BY <1>5
<1>. HIDE DEF Upto
<1>8. \A i \in -3 .. 0 : h[i] = << >>
  BY <1>1, <1>7
<1>9. ASSUME NEW i \in 1 .. n PROVE h[i] = Append(h[i - Width(r[i])], r[i])
  <2>1. i \in -3 .. n /\ ~(i <= 0)
    BY <1>1
  <2>2. QED
    BY <1>7, <2>1
<1>10. QED
  BY <1>6, <1>8, <1>9 DEF n

\* What Values makes of a prefix of the cells of v.
LEMMA ValuesOfCells ==
  ASSUME NEW v \in Seq(Cell)
  PROVE  Values(CellsOf(v)) = v
<1>1. PICK r : r = CellsOf(v)
  OBVIOUS
<1>2. r \in Seq(Cell)
  BY <1>1, CellsOfType
<1>3. PICK f : /\ Values(r) = f[Len(r)] /\ \A i \in -3 .. 0 : f[i] = << >>
               /\ \A i \in 1 .. Len(r) : f[i] = Append(f[i - Width(r[i])], r[i])
  BY <1>2, ValuesSteps
<1>. DEFINE P(x) == \A y \in Seq(Cell) : v = x \o y => f[Len(CellsOf(x))] = x
            S == {x \in Seq(Cell) : P(x)}
<1>4. << >> \in S
  <2>1. PICK e : e = << >>
    OBVIOUS
  <2>2. e \in Seq(Cell) /\ CellsOf(e) = e /\ Len(e) = 0
    BY <2>1, CellsOfEmpty
  <2>3. f[0] = e
    BY <1>3, <2>1
  <2>4. P(e)
    BY <2>2, <2>3
  <2>. HIDE DEF P
  <2>5. QED
    BY <2>1, <2>2, <2>4
<1>5. ASSUME NEW x \in Seq(Cell), NEW t \in Cell, x \in S PROVE Append(x, t) \in S
  <2>1. PICK z : z = Append(x, t)
    OBVIOUS
  <2>2. ASSUME NEW y \in Seq(Cell), v = z \o y PROVE f[Len(CellsOf(z))] = z
    <3>1. <<t>> \in Seq(Cell) /\ <<t>> \o y \in Seq(Cell) /\ z = x \o <<t>> /\ z \in Seq(Cell)
      <4>1. <<t>> \in Seq(Cell)
        OBVIOUS
      <4>2. QED
        BY <2>1, <4>1, CatType, AppendIsConcat, AppendProperties
    <3>2. v = x \o (<<t>> \o y)
      BY <2>2, <3>1, CatAssoc
    <3>3. f[Len(CellsOf(x))] = x
      <4>1. P(x)
        BY <1>5
      <4>2. QED
        BY <3>1, <3>2, <4>1
    <3>4. PICK c : c = CellsOf(x)
      OBVIOUS
    <3>5. PICK d : d = CellsOf(z)
      OBVIOUS
    <3>6. /\ Len(c) \in Nat /\ Len(d) = Len(c) + Width(t) /\ d[Len(d)] = t
      BY <2>1, <3>4, <3>5, CellsOfLast, Zenon
    <3>7. Width(t) \in {1, 2, 4}
      BY CopiesOf
    <3>8. PICK k : k = CellsOf(y)
      OBVIOUS
    <3>9. r = d \o k
      BY <1>1, <2>2, <3>1, <3>5, <3>8, CellsOfJoined
    <3>10. d \in Seq(Cell) /\ k \in Seq(Cell)
      BY <3>1, <3>5, <3>8, CellsOfType
    <3>11. Len(d) \in 1 .. Len(r) /\ r[Len(d)] = t
      <4>1. Len(d) \in 1 .. Len(d)
        BY <3>6, <3>7
      <4>2. /\ Len(r) = Len(d) + Len(k) /\ Len(k) \in Nat
            /\ \A i \in 1 .. Len(d) : r[i] = d[i]
        BY <3>9, <3>10, CatType
      <4>3. QED
        BY <3>6, <4>1, <4>2
    <3>12. f[Len(d)] = Append(f[Len(d) - Width(t)], t)
      BY <1>3, <3>11
    <3>13. Len(d) - Width(t) = Len(c)
      BY <3>6, <3>7
    <3>14. QED
      BY <2>1, <3>3, <3>4, <3>5, <3>12, <3>13
  <2>3. P(z)
    BY <2>2
  <2>4. z \in Seq(Cell)
    BY <2>1, AppendProperties
  <2>. HIDE DEF P
  <2>5. QED
    BY <2>1, <2>3, <2>4
<1>. HIDE DEF S
<1>6. v \in S
  BY <1>4, <1>5, SeqFrom
<1>7. << >> \in Seq(Cell) /\ v = v \o << >>
  BY CatEmpty
<1>8. f[Len(CellsOf(v))] = v
  BY <1>6, <1>7 DEF S
<1>9. QED
  BY <1>1, <1>3, <1>8

\* Cells that are whole values are the cells of some.
LEMMA WholeCells ==
  ASSUME NEW c \in Seq(Cell), NEW lo \in Nat, NEW hi \in Nat, lo <= hi, hi <= Len(c),
         WholeFrom(c, lo, hi)
  PROVE  \E w \in Seq(Cell) : SubSeq(c, lo + 1, hi) = CellsOf(w)
<1>1. PICK T \in SUBSET (lo .. hi) : /\ lo \in T /\ hi \in T
                                     /\ \A u \in T \ {lo} : OneValue(c, T, u)
  BY DEF WholeFrom
<1>. DEFINE Cut(u) == \E w \in Seq(Cell) : SubSeq(c, lo + 1, u) = CellsOf(w)
            Bad == {u \in T : ~Cut(u)}
<1>2. Cut(lo)
  <2>1. SubSeq(c, lo + 1, lo) = << >>
    BY SubSeqEmpty
  <2>2. QED
    BY <2>1, CellsOfEmpty, EmptySeq
<1>3. \A i \in lo + 1 .. hi : c[i] \in Cell
  BY ElementOfSeq
<1>4. ASSUME NEW u \in T, u # lo, \A n \in T : n < u => Cut(n) PROVE Cut(u)
  <2>1. u \in Nat /\ lo < u /\ u <= hi
    BY <1>1, <1>4
  <2>2. PICK t : t = c[u]
    OBVIOUS
  <2>3. PICK k : k = Copies(t)
    OBVIOUS
  <2>4. t \in Cell
    BY <1>3, <2>1, <2>2
  <2>5. /\ k \in Seq(Cell) /\ Len(k) \in {1, 2, 4} /\ \A i \in 1 .. Len(k) : k[i] = t
    BY <2>3, <2>4, CopiesType
  <2>6. PICK m : m = Below(c, u)
    OBVIOUS
  <2>7. m = u - Len(k)
    BY <2>2, <2>3, <2>6 DEF Below
  <2>8. m \in T /\ \A i \in m + 1 .. u : c[i] = t
    BY <1>1, <1>4, <2>2, <2>6 DEF OneValue
  <2>9. m \in Nat /\ lo <= m /\ m < u
    <3>1. m \in lo .. hi
      BY <2>8
    <3>2. PICK n : n = Len(k)
      OBVIOUS
    <3>3. n \in {1, 2, 4} /\ m = u - n
      BY <2>5, <2>7, <3>2
    <3>4. QED
      BY <2>1, <3>1, <3>3
  <2>10. Cut(m)
    BY <1>4, <2>8, <2>9
  <2>11. PICK w \in Seq(Cell) : SubSeq(c, lo + 1, m) = CellsOf(w)
    BY <2>10
  <2>12. SubSeq(c, m + 1, u) = k
    <3>1. /\ SubSeq(c, m + 1, u) \in Seq(Cell)
          /\ Len(SubSeq(c, m + 1, u)) = IF m + 1 <= u THEN u - (m + 1) + 1 ELSE 0
          /\ \A i \in 1 .. u - (m + 1) + 1 : SubSeq(c, m + 1, u)[i] = c[m + 1 + i - 1]
      <4>1. \A i \in m + 1 .. u : c[i] \in Cell
        BY <1>3, <2>1, <2>9
      <4>2. m + 1 \in Int /\ u \in Int
        BY <2>1, <2>9
      <4>3. QED
        BY <4>1, <4>2, SubSeqProperties
    <3>2. PICK s : s = SubSeq(c, m + 1, u)
      OBVIOUS
    <3>3. s \in Seq(Cell) /\ Len(s) = Len(k)
      <4>1. PICK n : n = Len(k)
        OBVIOUS
      <4>2. n \in Nat /\ m = u - n
        BY <2>5, <2>7, <4>1
      <4>3. m + 1 <= u /\ u - (m + 1) + 1 = n
        BY <2>1, <2>9, <4>2
      <4>4. QED
        BY <3>1, <3>2, <4>1, <4>3
    <3>4. \A i \in 1 .. Len(s) : s[i] = k[i]
      <4>1. ASSUME NEW i \in 1 .. Len(s) PROVE s[i] = k[i]
        <5>1. s[i] = c[m + i] /\ m + i \in m + 1 .. u
          BY <2>1, <2>5, <2>7, <2>9, <3>1, <3>2, <3>3
        <5>2. QED
          BY <2>5, <2>8, <3>3, <5>1
      <4>2. QED
        BY <4>1
    <3>5. s = k
      BY <2>5, <3>3, <3>4, SeqEqual
    <3>6. QED
      BY <3>2, <3>5
  <2>13. SubSeq(c, lo + 1, u) = SubSeq(c, lo + 1, m) \o SubSeq(c, m + 1, u)
    <3>1. lo + 1 \in 1 .. Len(c) + 1 /\ m \in lo + 1 - 1 .. Len(c) /\ u \in m .. Len(c)
      BY <2>1, <2>9, LenProperties
    <3>2. QED
      BY <3>1, ConcatAdjacentSubSeq
  <2>14. SubSeq(c, lo + 1, u) = CellsOf(Append(w, t)) /\ Append(w, t) \in Seq(Cell)
    BY <2>3, <2>4, <2>11, <2>12, <2>13, CellsOfAppend, AppendProperties
  <2>15. QED
    BY <2>14
<1>. HIDE DEF Cut
<1>5. Bad = {}
  <2>1. SUFFICES ASSUME Bad # {} PROVE FALSE
    OBVIOUS
  <2>2. Bad \subseteq T /\ T \subseteq Nat
    OBVIOUS
  <2>. HIDE DEF Bad
  <2>3. PICK u \in Bad : \A n \in Bad : u <= n
    BY <2>1, <2>2, Least
  <2>. USE DEF Bad
  <2>4. u \in T /\ ~Cut(u) /\ u # lo
    BY <1>2
  <2>5. \A n \in T : n < u => Cut(n)
    BY <1>1, <2>3
  <2>6. QED
    BY <1>4, <2>4, <2>5
<1>6. Cut(hi)
  BY <1>1, <1>5
<1>7. QED
  BY <1>6 DEF Cut

-----------------------------------------------------------------------------
(* The operand stack as values *)

LEMMA CutType ==
  ASSUME NEW a \in Seq(Cell), NEW n \in Int, n <= Len(a)
  PROVE  /\ SubSeq(a, 1, n) \in Seq(Cell)
         /\ Len(SubSeq(a, 1, n)) = IF 1 <= n THEN n ELSE 0
         /\ \A i \in 1 .. n : SubSeq(a, 1, n)[i] = a[i]
<1>1. \A i \in 1 .. n : a[i] \in Cell
  <2>1. \A i \in 1 .. Len(a) : a[i] \in Cell
    BY ElementOfSeq
  <2>2. Len(a) \in Nat
    BY LenProperties
  <2>3. QED
    BY <2>1, <2>2
<1>2. /\ SubSeq(a, 1, n) \in Seq(Cell)
      /\ Len(SubSeq(a, 1, n)) = IF 1 <= n THEN n - 1 + 1 ELSE 0
      /\ \A i \in 1 .. n - 1 + 1 : SubSeq(a, 1, n)[i] = a[1 + i - 1]
  BY <1>1, SubSeqProperties
<1>3. PICK s : s = SubSeq(a, 1, n)
  OBVIOUS
<1>4. \A i \in 1 .. n : i \in 1 .. n - 1 + 1 /\ 1 + i - 1 = i
  OBVIOUS
<1>5. Len(s) = IF 1 <= n THEN n ELSE 0
  BY <1>2, <1>3
<1>6. \A i \in 1 .. n : s[i] = a[i]
  BY <1>2, <1>3, <1>4
<1>7. QED
  BY <1>2, <1>3, <1>5, <1>6

LEMMA CatCut ==
  ASSUME NEW a \in Seq(Cell), NEW b \in Seq(Cell), NEW n \in Int, n <= Len(a)
  PROVE  SubSeq(a \o b, 1, n) = SubSeq(a, 1, n)
<1>1. PICK c : c = a \o b
  OBVIOUS
<1>2. /\ c \in Seq(Cell) /\ Len(a) \in Nat /\ Len(b) \in Nat /\ Len(c) = Len(a) + Len(b)
      /\ \A i \in 1 .. Len(a) : c[i] = a[i]
  BY <1>1, CatType
<1>3. n <= Len(c)
  BY <1>2
<1>4. PICK s : s = SubSeq(c, 1, n)
  OBVIOUS
<1>5. PICK t : t = SubSeq(a, 1, n)
  OBVIOUS
<1>6. s \in Seq(Cell) /\ (Len(s) = IF 1 <= n THEN n ELSE 0) /\ \A i \in 1 .. n : s[i] = c[i]
  BY <1>2, <1>3, <1>4, CutType
<1>7. t \in Seq(Cell) /\ (Len(t) = IF 1 <= n THEN n ELSE 0) /\ \A i \in 1 .. n : t[i] = a[i]
  BY <1>5, CutType
<1>8. \A i \in 1 .. Len(s) : s[i] = t[i]
  <2>1. \A i \in 1 .. Len(s) : i \in 1 .. n /\ i \in 1 .. Len(a)
    BY <1>2, <1>6
  <2>2. QED
    BY <1>2, <1>6, <1>7, <2>1
<1>9. s = t
  BY <1>6, <1>7, <1>8, SeqEqual
<1>10. QED
  BY <1>1, <1>4, <1>5, <1>9

LEMMA CatLower ==
  ASSUME NEW a \in Seq(Cell), NEW b \in Seq(Cell)
  PROVE  SubSeq(a \o b, 1, Len(a)) = a
<1>1. Len(a) \in Int
  BY LenProperties
<1>2. SubSeq(a \o b, 1, Len(a)) = SubSeq(a, 1, Len(a))
  BY <1>1, CatCut
<1>3. QED
  BY <1>2, SubSeqFull

LEMMA CatUpper ==
  ASSUME NEW a \in Seq(Cell), NEW b \in Seq(Cell)
  PROVE  SubSeq(a \o b, Len(a) + 1, Len(a) + Len(b)) = b
<1>1. PICK c : c = a \o b
  OBVIOUS
<1>2. /\ c \in Seq(Cell) /\ Len(a) \in Nat /\ Len(b) \in Nat /\ Len(c) = Len(a) + Len(b)
      /\ \A i \in 1 .. Len(b) : c[Len(a) + i] = b[i]
  BY <1>1, CatType
<1>3. PICK m : m = Len(a)
  OBVIOUS
<1>4. PICK n : n = Len(b)
  OBVIOUS
<1>5. m \in Nat /\ n \in Nat
  BY <1>2, <1>3, <1>4
<1>6. PICK p \in Int, q \in Int : p = m + 1 /\ q = m + n
  BY <1>5
<1>7. PICK s : s = SubSeq(c, p, q)
  OBVIOUS
<1>8. \A i \in p .. q : c[i] \in Cell
  <2>1. \A i \in 1 .. Len(c) : c[i] \in Cell
    BY <1>2, ElementOfSeq
  <2>2. QED
    BY <1>2, <1>3, <1>4, <1>5, <1>6, <2>1
<1>9. /\ s \in Seq(Cell)
      /\ Len(s) = IF p <= q THEN q - p + 1 ELSE 0
      /\ \A i \in 1 .. q - p + 1 : s[i] = c[p + i - 1]
  BY <1>7, <1>8, SubSeqProperties
<1>10. Len(s) = n
  BY <1>5, <1>6, <1>9
<1>11. \A i \in 1 .. n : s[i] = b[i]
  <2>1. ASSUME NEW i \in 1 .. n PROVE s[i] = b[i]
    <3>1. i \in 1 .. q - p + 1 /\ p + i - 1 = m + i
      BY <1>5, <1>6
    <3>2. s[i] = c[m + i]
      BY <1>9, <3>1
    <3>3. QED
      BY <1>2, <1>3, <1>4, <3>2
  <2>2. QED
    BY <2>1
<1>12. s = b
  <2>1. s \in Seq(Cell) /\ Len(s) = Len(b) /\ \A i \in 1 .. Len(s) : s[i] = b[i]
    BY <1>4, <1>9, <1>10, <1>11
  <2>2. QED
    BY <2>1, SeqEqual
<1>13. QED
  BY <1>1, <1>3, <1>4, <1>6, <1>7, <1>12

\* From the values w of a block, k types can be taken, the last of ts first; in
\* unreachable code, p, what is missing is there.
TakesTop(w, ts, k, p) ==
  /\ Len(w) >= k \/ p
  /\ \A i \in 0 .. Typing!Fewer(Len(w), k) - 1 : w[Len(w) - i] \in {ts[Len(ts) - i], AnyType}
Rest(w, k) == SubSeq(w, 1, Len(w) - Typing!Fewer(Len(w), k))
Fits(w, t, p) == IF w = << >> THEN p ELSE w[Len(w)] \in {t, AnyType}

\* The outcome s is that of a check for c that leaves w above L; where the limit
\* is met, nothing more is said.
Does(s, c, L, w) == \/ s.outcome = "limit"
                    \/ s.outcome = "rejected" /\ ~c
                    \/ c /\ s = Fine(CellsOf(L) \o CellsOf(w))

LEMMA RestType ==
  ASSUME NEW w \in Seq(Cell), NEW k \in Nat
  PROVE  /\ Rest(w, k) \in Seq(Cell) /\ Len(w) \in Nat /\ Len(Rest(w, k)) \in Nat
         /\ Len(Rest(w, k)) = IF Len(w) <= k THEN 0 ELSE Len(w) - k
         /\ \A i \in 1 .. Len(Rest(w, k)) : Rest(w, k)[i] = w[i]
<1>1. Len(w) \in Nat
  BY LenProperties
<1>2. PICK n : n = Len(w) - Typing!Fewer(Len(w), k)
  OBVIOUS
<1>3. n = IF Len(w) <= k THEN 0 ELSE Len(w) - k
  BY <1>1, <1>2 DEF Typing!Fewer
<1>4. n \in Int /\ n <= Len(w) /\ n >= 0
  BY <1>1, <1>3
<1>5. PICK s : s = SubSeq(w, 1, n)
  OBVIOUS
<1>6. s \in Seq(Cell) /\ (Len(s) = IF 1 <= n THEN n ELSE 0) /\ \A i \in 1 .. n : s[i] = w[i]
  BY <1>4, <1>5, CutType
<1>7. Rest(w, k) = s
  BY <1>2, <1>5 DEF Rest
<1>8. Len(s) = n
  BY <1>4, <1>6
<1>9. QED
  BY <1>1, <1>3, <1>4, <1>6, <1>7, <1>8

LEMMA BadPop ==
  ASSUME NEW s, NEW b, NEW t, NEW ts \in Seq(Cell), ~Good(s)
  PROVE  /\ Pop(s, b, t) = s /\ Push(s, t) = s
         /\ PopAll(s, b, ts) = s /\ PushAll(s, ts) = s
<1>1. \A u : Pop(s, b, u) = s /\ Push(s, u) = s
  BY DEF Pop, Push
<1>2. ts \in Seq(ValueTypes \cup {AnyType}) /\ Len(ts) \in Nat
  BY LenProperties DEF Cell
<1>3. PopAll(s, b, ts) = s
  <2>1. PICK f : /\ f[0] = s /\ PopAll(s, b, ts) = f[Len(ts)]
                 /\ \A i \in 1 .. Len(ts) : f[i] = Pop(f[i - 1], b, ts[Len(ts) + 1 - i])
    BY <1>2, PopAllSteps
  <2>. DEFINE S == {i \in 0 .. Len(ts) : f[i] = s}
  <2>2. 0 \in S
    BY <1>2, <2>1
  <2>3. ASSUME NEW i \in 1 .. Len(ts), i - 1 \in S PROVE i \in S
    BY <1>1, <1>2, <2>1, <2>3
  <2>. HIDE DEF S
  <2>4. \A i \in 0 .. Len(ts) : i \in S
    BY <1>2, <2>2, <2>3, UpTo
  <2>5. f[Len(ts)] = s
    BY <1>2, <2>4 DEF S
  <2>6. QED
    BY <2>1, <2>5
<1>4. PushAll(s, ts) = s
  <2>1. PICK f : /\ f[0] = s /\ PushAll(s, ts) = f[Len(ts)]
                 /\ \A i \in 1 .. Len(ts) : f[i] = Push(f[i - 1], ts[i])
    BY <1>2, PushAllSteps
  <2>. DEFINE S == {i \in 0 .. Len(ts) : f[i] = s}
  <2>2. 0 \in S
    BY <1>2, <2>1
  <2>3. ASSUME NEW i \in 1 .. Len(ts), i - 1 \in S PROVE i \in S
    BY <1>1, <1>2, <2>1, <2>3
  <2>. HIDE DEF S
  <2>4. \A i \in 0 .. Len(ts) : i \in S
    BY <1>2, <2>2, <2>3, UpTo
  <2>5. f[Len(ts)] = s
    BY <1>2, <2>4 DEF S
  <2>6. QED
    BY <2>1, <2>5
<1>5. QED
  BY <1>1, <1>3, <1>4

LEMMA FineIs ==
  ASSUME NEW r
  PROVE  Fine(r).cells = r /\ Good(Fine(r)) /\ Fine(r).outcome = "checking"
BY DEF Fine, Good

\* One value popped above the cells a.
LEMMA PopFromNone ==
  ASSUME NEW a \in Seq(Cell), NEW b, b.base = Len(a), NEW t \in Cell
  PROVE  Pop(Fine(a), b, t) = IF b.poly THEN Fine(a) ELSE Fails(Fine(a), "rejected")
<1>1. Len(a) \in Nat /\ Len(a) - b.base = 0
  BY LenProperties
<1>2. Len(Copies(t)) >= 1 /\ Len(Copies(t)) \in Nat
  BY CopiesOf
<1>3. ~OnTop(a, 0, Copies(t))
  BY <1>2 DEF OnTop
<1>4. QED
  BY <1>1, <1>3, FineIs DEF Pop

LEMMA PopFromSome ==
  ASSUME NEW a \in Seq(Cell), NEW b, b.base \in Nat, b.base <= Len(a),
         NEW x \in Cell, NEW t \in Cell
  PROVE  Pop(Fine(a \o Copies(x)), b, t) =
           IF x \in {t, AnyType} THEN Fine(a) ELSE Fails(Fine(a \o Copies(x)), "rejected")
<1>1. PICK k : k = Copies(x)
  OBVIOUS
<1>2. PICK r : r = a \o k
  OBVIOUS
<1>3. /\ k \in Seq(Cell) /\ Len(k) \in Nat /\ Len(k) >= 1 /\ k[Len(k)] = x
      /\ Len(k) = Width(x) /\ Width(x) \in {1, 2, 4}
  BY <1>1, CopiesOf
<1>4. /\ r \in Seq(Cell) /\ Len(r) = Len(a) + Len(k) /\ Len(a) \in Nat
      /\ r[Len(a) + Len(k)] = k[Len(k)]
  <2>1. Len(k) \in 1 .. Len(k)
    BY <1>3
  <2>2. QED
    BY <1>2, <1>3, <2>1, CatType
<1>5. Len(r) - b.base > 0 /\ Last(r) = x /\ Len(r) - b.base >= Len(k)
  BY <1>3, <1>4 DEF Last
<1>6. PopCells(r, Len(k)) = a
  <2>1. Len(r) - Len(k) = Len(a)
    BY <1>3, <1>4
  <2>2. SubSeq(r, 1, Len(a)) = a
    BY <1>2, <1>3, CatLower
  <2>3. QED
    BY <2>1, <2>2 DEF PopCells
<1>7. CASE x = AnyType
  <2>1. Len(k) = 1
    BY <1>3, <1>7 DEF Width
  <2>2. Pop(Fine(r), b, t) = Fine(PopCells(r, 1))
    BY <1>5, <1>7, FineIs DEF Pop
  <2>3. QED
    BY <1>1, <1>2, <1>6, <1>7, <2>1, <2>2
<1>8. CASE x # AnyType /\ x = t
  <2>1. Len(k) = Cells(t)
    BY <1>3, <1>8 DEF Width
  <2>2. OnTop(r, Len(r) - b.base, Copies(t))
    <3>1. SubSeq(r, Len(a) + 1, Len(a) + Len(k)) = k
      BY <1>2, <1>3, CatUpper
    <3>2. Len(r) - Len(k) + 1 = Len(a) + 1
      BY <1>3, <1>4
    <3>3. QED
      BY <1>1, <1>4, <1>5, <1>8, <3>1, <3>2 DEF OnTop
  <2>3. Pop(Fine(r), b, t) = Fine(PopCells(r, Cells(t)))
    BY <1>5, <1>8, <2>2, FineIs DEF Pop
  <2>4. QED
    BY <1>1, <1>2, <1>6, <1>8, <2>1, <2>3
<1>9. CASE x # AnyType /\ x # t
  <2>1. PICK q : q = Copies(t)
    OBVIOUS
  <2>2. q \in Seq(Cell) /\ Len(q) \in Nat /\ Len(q) >= 1 /\ q[Len(q)] = t
    BY <2>1, CopiesOf
  <2>3. ASSUME OnTop(r, Len(r) - b.base, q) PROVE FALSE
    <3>1. PICK n \in Int : n = Len(r) - Len(q)
      BY <1>3, <1>4, <2>2
    <3>2. n >= 0 /\ n + Len(q) = Len(r) /\ Len(q) <= Len(r)
      BY <1>4, <2>2, <2>3, <3>1 DEF OnTop
    <3>3. SubSeq(r, n + 1, Len(r)) = q
      BY <2>3, <3>1 DEF OnTop
    <3>4. \A i \in n + 1 .. Len(r) : r[i] \in Cell
      <4>1. \A i \in 1 .. Len(r) : r[i] \in Cell
        BY <1>4, ElementOfSeq
      <4>2. QED
        BY <3>1, <3>2, <4>1
    <3>5. PICK p \in Int, e \in Int : p = n + 1 /\ e = Len(r)
      BY <1>3, <1>4, <3>1
    <3>6. \A i \in 1 .. e - p + 1 : SubSeq(r, p, e)[i] = r[p + i - 1]
      BY <3>4, <3>5, SubSeqProperties
    <3>7. Len(q) \in 1 .. e - p + 1 /\ p + Len(q) - 1 = Len(a) + Len(k)
      <4>1. PICK g \in Nat, h \in Nat : g = Len(q) /\ h = Len(r) /\ g >= 1
        BY <1>3, <1>4, <2>2
      <4>2. e = h /\ p = h - g + 1 /\ g <= h
        BY <3>1, <3>2, <3>5, <4>1
      <4>3. g \in 1 .. e - p + 1 /\ p + g - 1 = h
        BY <4>1, <4>2
      <4>4. QED
        BY <1>4, <4>1, <4>3
    <3>8. q[Len(q)] = r[Len(a) + Len(k)]
      BY <3>3, <3>5, <3>6, <3>7
    <3>9. QED
      BY <1>3, <1>4, <1>9, <2>2, <3>8
  <2>4. Pop(Fine(r), b, t) = Fails(Fine(r), "rejected")
    BY <1>5, <1>9, <2>1, <2>3, FineIs DEF Pop
  <2>5. QED
    BY <1>1, <1>2, <1>9, <2>4
<1>10. QED
  BY <1>7, <1>8, <1>9

LEMMA PopDoes ==
  ASSUME NEW L \in Seq(Cell), NEW w \in Seq(Cell), NEW b, b.base = Len(CellsOf(L)),
         b.poly \in BOOLEAN, NEW s, NEW c \in BOOLEAN, Does(s, c, L, w), NEW t \in Cell
  PROVE  Does(Pop(s, b, t), c /\ Fits(w, t, b.poly), L, Rest(w, 1))
<1>1. CASE ~Good(s)
  <2>1. << >> \in Seq(Cell)
    OBVIOUS
  <2>2. Pop(s, b, t) = s
    BY <1>1, <2>1, BadPop
  <2>3. s.outcome = "limit" \/ (s.outcome = "rejected" /\ ~c)
    BY <1>1, FineIs DEF Does
  <2>4. QED
    BY <2>2, <2>3 DEF Does
<1>2. CASE Good(s)
  <2>1. c /\ s = Fine(CellsOf(L) \o CellsOf(w))
    BY <1>2 DEF Does, Good
  <2>2. CellsOf(L) \in Seq(Cell) /\ Len(CellsOf(L)) \in Nat
    BY CellsOfType
  <2>3. CASE w = << >>
    <3>1. s = Fine(CellsOf(L))
      BY <2>1, <2>2, <2>3, CellsOfEmpty, CatEmpty
    <3>2. Pop(s, b, t) = IF b.poly THEN s ELSE Fails(s, "rejected")
      BY <2>2, <3>1, PopFromNone
    <3>3. Rest(w, 1) = w
      <4>1. Len(w) = 0 /\ Rest(w, 1) \in Seq(Cell) /\ Len(Rest(w, 1)) = 0
        <5>1. Len(w) = 0
          BY <2>3
        <5>2. /\ Rest(w, 1) \in Seq(Cell)
              /\ Len(Rest(w, 1)) = IF Len(w) <= 1 THEN 0 ELSE Len(w) - 1
          BY RestType
        <5>3. QED
          BY <5>1, <5>2
      <4>2. QED
        BY <2>3, <4>1, EmptySeq
    <3>4. Fits(w, t, b.poly) <=> b.poly
      BY <2>3 DEF Fits
    <3>5. CASE b.poly
      BY <2>1, <3>2, <3>3, <3>4, <3>5 DEF Does
    <3>6. CASE ~b.poly
      <4>1. Pop(s, b, t).outcome = "rejected"
        BY <3>2, <3>6 DEF Fails
      <4>2. QED
        BY <3>4, <3>6, <4>1 DEF Does
    <3>7. QED
      BY <3>5, <3>6
  <2>4. CASE w # << >>
    <3>1. PICK u \in Seq(Cell), x \in Cell : w = Append(u, x)
      BY <2>4, SequenceEmptyOrAppend
    <3>2. Len(u) \in Nat /\ Len(w) = Len(u) + 1 /\ w[Len(w)] = x
      BY <3>1, AppendProperties, LenProperties
    <3>3. Rest(w, 1) = u
      <4>1. u \o <<x>> = w /\ <<x>> \in Seq(Cell)
        BY <3>1, AppendIsConcat
      <4>2. Len(w) - Typing!Fewer(Len(w), 1) = Len(u)
        BY <3>2 DEF Typing!Fewer
      <4>3. QED
        BY <4>1, <4>2, CatLower DEF Rest
    <3>4. PICK a : a = CellsOf(L) \o CellsOf(u)
      OBVIOUS
    <3>5. a \in Seq(Cell) /\ Len(CellsOf(L)) <= Len(a)
      <4>1. CellsOf(u) \in Seq(Cell)
        BY CellsOfType
      <4>2. Len(CellsOf(u)) \in Nat /\ Len(a) = Len(CellsOf(L)) + Len(CellsOf(u))
        BY <2>2, <3>4, <4>1, CatType
      <4>3. QED
        BY <2>2, <3>4, <4>1, <4>2, CatType
    <3>6. s = Fine(a \o Copies(x))
      <4>1. CellsOf(w) = CellsOf(u) \o Copies(x)
        BY <3>1, CellsOfAppend
      <4>2. CellsOf(u) \in Seq(Cell) /\ Copies(x) \in Seq(Cell)
        BY CellsOfType, CopiesOf
      <4>3. CellsOf(L) \o (CellsOf(u) \o Copies(x)) = a \o Copies(x)
        BY <2>2, <3>4, <4>2, CatAssoc
      <4>4. QED
        BY <2>1, <4>1, <4>3
    <3>7. Pop(s, b, t) = IF x \in {t, AnyType} THEN Fine(a) ELSE Fails(s, "rejected")
      BY <2>2, <3>5, <3>6, PopFromSome
    <3>8. Fits(w, t, b.poly) <=> x \in {t, AnyType}
      BY <2>4, <3>2 DEF Fits
    <3>9. CASE x \in {t, AnyType}
      BY <2>1, <3>3, <3>4, <3>7, <3>8, <3>9 DEF Does
    <3>10. CASE x \notin {t, AnyType}
      <4>1. Pop(s, b, t).outcome = "rejected"
        BY <3>7, <3>10 DEF Fails
      <4>2. QED
        BY <3>8, <3>10, <4>1 DEF Does
    <3>11. QED
      BY <3>9, <3>10
  <2>5. QED
    BY <2>3, <2>4
<1>3. QED
  BY <1>1, <1>2

LEMMA RestRest ==
  ASSUME NEW w \in Seq(Cell), NEW j \in Nat, NEW k \in Nat
  PROVE  Rest(Rest(w, j), k) = Rest(w, j + k)
<1>1. PICK u : u = Rest(w, j)
  OBVIOUS
<1>2. /\ u \in Seq(Cell) /\ Len(w) \in Nat /\ Len(u) = IF Len(w) <= j THEN 0 ELSE Len(w) - j
      /\ \A i \in 1 .. Len(u) : u[i] = w[i]
  BY <1>1, RestType
<1>3. PICK x : x = Rest(u, k)
  OBVIOUS
<1>4. /\ x \in Seq(Cell) /\ Len(x) = IF Len(u) <= k THEN 0 ELSE Len(u) - k
      /\ \A i \in 1 .. Len(x) : x[i] = u[i]
  BY <1>2, <1>3, RestType
<1>5. PICK n \in Nat : n = j + k
  OBVIOUS
<1>6. PICK y : y = Rest(w, n)
  OBVIOUS
<1>7. /\ y \in Seq(Cell) /\ Len(y) = IF Len(w) <= n THEN 0 ELSE Len(w) - n
      /\ \A i \in 1 .. Len(y) : y[i] = w[i]
  BY <1>6, RestType
<1>8. Len(x) = Len(y)
  BY <1>2, <1>4, <1>5, <1>7
<1>9. \A i \in 1 .. Len(x) : x[i] = y[i]
  <2>1. \A i \in 1 .. Len(x) : i \in 1 .. Len(u)
    BY <1>2, <1>4
  <2>2. QED
    BY <1>2, <1>4, <1>7, <1>8, <2>1
<1>10. x = y
  BY <1>4, <1>7, <1>8, <1>9, SeqEqual
<1>11. QED
  BY <1>1, <1>3, <1>5, <1>6, <1>10

LEMMA RestNone ==
  ASSUME NEW w \in Seq(Cell)
  PROVE  Rest(w, 0) = w
<1>1. Len(w) \in Nat
  BY LenProperties
<1>2. Len(w) - Typing!Fewer(Len(w), 0) = Len(w)
  BY <1>1 DEF Typing!Fewer
<1>3. QED
  BY <1>2, SubSeqFull DEF Rest

\* One more type can be taken.
LEMMA TakesNext ==
  ASSUME NEW w \in Seq(Cell), NEW ts \in Seq(Cell), NEW p \in BOOLEAN, NEW i \in 1 .. Len(ts)
  PROVE  TakesTop(w, ts, i, p) <=>
           TakesTop(w, ts, i - 1, p) /\ Fits(Rest(w, i - 1), ts[Len(ts) + 1 - i], p)
<1>. DEFINE Met(j) == w[Len(w) - j] \in {ts[Len(ts) - j], AnyType}
<1>1. PICK n \in Nat : n = Len(w)
  BY LenProperties
<1>2. PICK m \in Nat : m = Len(ts)
  BY LenProperties
<1>3. i \in Nat /\ i - 1 \in Nat /\ i >= 1
  BY <1>2
<1>4. PICK u : u = Rest(w, i - 1)
  OBVIOUS
<1>5. /\ u \in Seq(Cell) /\ Len(u) = IF n <= i - 1 THEN 0 ELSE n - (i - 1)
      /\ \A j \in 1 .. Len(u) : u[j] = w[j]
  BY <1>1, <1>3, <1>4, RestType
<1>6. /\ TakesTop(w, ts, i, p) <=> (n >= i \/ p) /\ \A j \in 0 .. Typing!Fewer(n, i) - 1 : Met(j)
      /\ TakesTop(w, ts, i - 1, p) <=>
           (n >= i - 1 \/ p) /\ \A j \in 0 .. Typing!Fewer(n, i - 1) - 1 : Met(j)
  BY <1>1 DEF TakesTop
<1>7. CASE n >= i
  <2>1. Typing!Fewer(n, i) = i /\ Typing!Fewer(n, i - 1) = i - 1
    BY <1>3, <1>7 DEF Typing!Fewer
  <2>2. Len(u) = n - (i - 1) /\ Len(u) \in 1 .. Len(u)
    BY <1>3, <1>5, <1>7
  <2>3. u # << >> /\ u[Len(u)] = w[n - (i - 1)]
    BY <1>5, <2>2
  <2>4. m + 1 - i = m - (i - 1)
    BY <1>3
  <2>5. Fits(u, ts[Len(ts) + 1 - i], p) <=> Met(i - 1)
    BY <1>1, <1>2, <2>3, <2>4 DEF Fits
  <2>. HIDE DEF Met
  <2>6. (\A j \in 0 .. i - 1 : Met(j)) <=> (\A j \in 0 .. i - 1 - 1 : Met(j)) /\ Met(i - 1)
    BY <1>3
  <2>7. QED
    BY <1>3, <1>4, <1>6, <1>7, <2>1, <2>5, <2>6
<1>8. CASE n < i
  <2>1. Typing!Fewer(n, i) = n /\ Typing!Fewer(n, i - 1) = n
    BY <1>3, <1>8 DEF Typing!Fewer
  <2>2. u = << >>
    BY <1>3, <1>5, <1>8, EmptySeq
  <2>3. Fits(u, ts[Len(ts) + 1 - i], p) <=> p
    BY <2>2 DEF Fits
  <2>. HIDE DEF Met
  <2>4. QED
    BY <1>3, <1>4, <1>6, <1>8, <2>1, <2>3
<1>9. QED
  BY <1>3, <1>7, <1>8

LEMMA TakesNone ==
  ASSUME NEW w \in Seq(Cell), NEW ts, NEW p
  PROVE  TakesTop(w, ts, 0, p)
<1>1. Len(w) \in Nat
  BY LenProperties
<1>2. Typing!Fewer(Len(w), 0) = 0
  BY <1>1 DEF Typing!Fewer
<1>3. QED
  BY <1>1, <1>2 DEF TakesTop

LEMMA PopAllDoes ==
  ASSUME NEW L \in Seq(Cell), NEW w \in Seq(Cell), NEW b, b.base = Len(CellsOf(L)),
         b.poly \in BOOLEAN, NEW s, NEW c \in BOOLEAN, Does(s, c, L, w), NEW ts \in Seq(Cell)
  PROVE  Does(PopAll(s, b, ts), c /\ TakesTop(w, ts, Len(ts), b.poly), L, Rest(w, Len(ts)))
<1>1. Len(ts) \in Nat /\ ts \in Seq(ValueTypes \cup {AnyType}) /\ \A i \in 1 .. Len(ts) : ts[i] \in Cell
  BY LenProperties, ElementOfSeq DEF Cell
<1>2. PICK f : /\ f[0] = s /\ PopAll(s, b, ts) = f[Len(ts)]
               /\ \A i \in 1 .. Len(ts) : f[i] = Pop(f[i - 1], b, ts[Len(ts) + 1 - i])
  <2>1. ts \in Seq(ValueTypes \cup {AnyType})
    BY <1>1
  <2>2. QED
    BY <2>1, PopAllSteps
<1>. DEFINE P(i) == Does(f[i], c /\ TakesTop(w, ts, i, b.poly), L, Rest(w, i))
            S == {i \in 0 .. Len(ts) : P(i)}
<1>3. 0 \in S
  <2>1. P(0)
    BY <1>2, RestNone, TakesNone DEF Does
  <2>. HIDE DEF P
  <2>2. QED
    BY <1>1, <2>1
<1>4. ASSUME NEW i \in 1 .. Len(ts), i - 1 \in S PROVE i \in S
  <2>1. PICK d \in BOOLEAN : d <=> c /\ TakesTop(w, ts, i - 1, b.poly)
    OBVIOUS
  <2>2. PICK u : u = Rest(w, i - 1)
    OBVIOUS
  <2>3. PICK t : t = ts[Len(ts) + 1 - i]
    OBVIOUS
  <2>4. i - 1 \in Nat /\ i - 1 + 1 = i /\ u \in Seq(Cell)
    BY <1>1, <2>2, RestType
  <2>5. t \in Cell
    <3>1. Len(ts) + 1 - i \in 1 .. Len(ts)
      BY <1>1
    <3>2. QED
      BY <1>1, <2>3, <3>1
  <2>6. Does(f[i - 1], d, L, u)
    BY <1>4, <2>1, <2>2 DEF Does
  <2>7. Does(Pop(f[i - 1], b, t), d /\ Fits(u, t, b.poly), L, Rest(u, 1))
    BY <2>4, <2>5, <2>6, PopDoes
  <2>8. f[i] = Pop(f[i - 1], b, t)
    BY <1>2, <2>3
  <2>9. Rest(u, 1) = Rest(w, i)
    BY <2>2, <2>4, RestRest
  <2>10. (d /\ Fits(u, t, b.poly)) <=> (c /\ TakesTop(w, ts, i, b.poly))
    BY <2>1, <2>2, <2>3, TakesNext
  <2>11. P(i)
    BY <2>7, <2>8, <2>9, <2>10 DEF Does
  <2>. HIDE DEF P
  <2>12. QED
    BY <1>1, <2>11
<1>. HIDE DEF S
<1>5. \A i \in 0 .. Len(ts) : i \in S
  BY <1>1, <1>3, <1>4, UpTo
<1>6. P(Len(ts))
  BY <1>1, <1>5 DEF S
<1>7. QED
  BY <1>2, <1>6

LEMMA PushDoes ==
  ASSUME NEW L \in Seq(Cell), NEW w \in Seq(Cell), NEW s, NEW c \in BOOLEAN, Does(s, c, L, w),
         NEW t \in Cell
  PROVE  Does(Push(s, t), c, L, Append(w, t))
<1>1. CASE ~Good(s)
  <2>1. << >> \in Seq(Cell)
    OBVIOUS
  <2>2. Push(s, t) = s
    BY <1>1, <2>1, BadPop
  <2>3. s.outcome = "limit" \/ (s.outcome = "rejected" /\ ~c)
    BY <1>1, FineIs DEF Does
  <2>4. QED
    BY <2>2, <2>3 DEF Does
<1>2. CASE Good(s)
  <2>1. c /\ s = Fine(CellsOf(L) \o CellsOf(w))
    BY <1>2 DEF Does, Good
  <2>2. PICK a : a = CellsOf(L)
    OBVIOUS
  <2>3. PICK d : d = CellsOf(w)
    OBVIOUS
  <2>4. PICK k : k = Copies(t)
    OBVIOUS
  <2>5. a \in Seq(Cell) /\ d \in Seq(Cell) /\ k \in Seq(Cell)
    BY <2>2, <2>3, <2>4, CellsOfType, CopiesOf
  <2>6. CellsOf(Append(w, t)) = d \o k
    BY <2>3, <2>4, CellsOfAppend
  <2>7. (a \o d) \o k = a \o (d \o k)
    <3>1. Associates(a, d, k)
      BY <2>5, CatAssociates, Zenon
    <3>2. QED
      BY <3>1 DEF Associates
  <2>8. Push(s, t) = Fails(s, "limit") \/ Push(s, t) = Fine((a \o d) \o k)
    BY <1>2, <2>1, <2>2, <2>3, <2>4, FineIs DEF Push
  <2>9. QED
    BY <2>1, <2>2, <2>6, <2>7, <2>8 DEF Does, Fails
<1>3. QED
  BY <1>1, <1>2

LEMMA PushAllDoes ==
  ASSUME NEW L \in Seq(Cell), NEW w \in Seq(Cell), NEW s, NEW c \in BOOLEAN, Does(s, c, L, w),
         NEW ts \in Seq(Cell)
  PROVE  Does(PushAll(s, ts), c, L, w \o ts)
<1>1. Len(ts) \in Nat /\ \A i \in 1 .. Len(ts) : ts[i] \in Cell
  BY LenProperties, ElementOfSeq
<1>2. PICK f : /\ f[0] = s /\ PushAll(s, ts) = f[Len(ts)]
               /\ \A i \in 1 .. Len(ts) : f[i] = Push(f[i - 1], ts[i])
  <2>1. ts \in Seq(ValueTypes \cup {AnyType})
    BY DEF Cell
  <2>2. QED
    BY <2>1, PushAllSteps
<1>. DEFINE P(i) == Does(f[i], c, L, w \o SubSeq(ts, 1, i))
            S == {i \in 0 .. Len(ts) : P(i)}
<1>3. 0 \in S
  <2>1. SubSeq(ts, 1, 0) = << >>
    BY SubSeqEmpty
  <2>2. w \o SubSeq(ts, 1, 0) = w
    BY <2>1, CatEmpty
  <2>3. P(0)
    BY <1>2, <2>2
  <2>. HIDE DEF P
  <2>4. QED
    BY <1>1, <2>3
<1>4. ASSUME NEW i \in 1 .. Len(ts), i - 1 \in S PROVE i \in S
  <2>1. PICK y : y = SubSeq(ts, 1, i - 1)
    OBVIOUS
  <2>2. y \in Seq(Cell)
    <3>1. i - 1 \in Int /\ i - 1 <= Len(ts)
      BY <1>1
    <3>2. QED
      BY <2>1, <3>1, CutType
  <2>3. ts[i] \in Cell /\ <<ts[i]>> \in Seq(Cell)
    BY <1>1
  <2>4. SubSeq(ts, 1, i) = y \o <<ts[i]>>
    <3>1. 1 \in 1 .. Len(ts) /\ i \in 1 .. Len(ts)
      BY <1>1
    <3>2. QED
      BY <2>1, <3>1, SubSeqRecursiveSecond
  <2>5. w \o y \in Seq(Cell)
    BY <2>2, CatType
  <2>6. w \o SubSeq(ts, 1, i) = Append(w \o y, ts[i])
    <3>1. w \o (y \o <<ts[i]>>) = (w \o y) \o <<ts[i]>>
      BY <2>2, <2>3, CatAssoc
    <3>2. Append(w \o y, ts[i]) = (w \o y) \o <<ts[i]>>
      BY <2>3, <2>5, AppendIsConcat
    <3>3. QED
      BY <2>4, <3>1, <3>2
  <2>7. Does(f[i - 1], c, L, w \o y)
    BY <1>4, <2>1
  <2>8. Does(Push(f[i - 1], ts[i]), c, L, Append(w \o y, ts[i]))
    BY <2>3, <2>5, <2>7, PushDoes
  <2>9. P(i)
    BY <1>2, <2>6, <2>8
  <2>. HIDE DEF P
  <2>10. QED
    BY <1>1, <2>9
<1>. HIDE DEF S
<1>5. \A i \in 0 .. Len(ts) : i \in S
  BY <1>1, <1>3, <1>4, UpTo
<1>6. P(Len(ts))
  BY <1>1, <1>5 DEF S
<1>7. QED
  BY <1>2, <1>6, SubSeqFull

\* Only the lowest value may be of unknown type, in unreachable code.
AnyFirst(w, p) == \A i \in 1 .. Len(w) : w[i] = AnyType => i = 1 /\ p

LEMMA RestAnyFirst ==
  ASSUME NEW w \in Seq(Cell), NEW k \in Nat, NEW p, AnyFirst(w, p)
  PROVE  AnyFirst(Rest(w, k), p)
<1>1. PICK u : u = Rest(w, k)
  OBVIOUS
<1>2. /\ Len(w) \in Nat /\ Len(u) \in Nat
      /\ Len(u) = IF Len(w) <= k THEN 0 ELSE Len(w) - k
      /\ \A i \in 1 .. Len(u) : u[i] = w[i]
  BY <1>1, RestType
<1>3. \A i \in 1 .. Len(u) : i \in 1 .. Len(w)
  BY <1>2
<1>4. QED
  BY <1>1, <1>2, <1>3 DEF AnyFirst

LEMMA EndsTaken ==
  ASSUME NEW u \in Seq(Cell), NEW ts \in Seq(Cell), NEW p
  PROVE  TakesTop(u \o ts, ts, Len(ts), p) /\ Rest(u \o ts, Len(ts)) = u
<1>1. PICK w : w = u \o ts
  OBVIOUS
<1>2. PICK n \in Nat, m \in Nat : n = Len(u) /\ m = Len(ts)
  BY LenProperties
<1>3. Len(w) = n + m /\ \A i \in 1 .. m : w[n + i] = ts[i]
  BY <1>1, <1>2, CatType
<1>4. Typing!Fewer(n + m, m) = m
  BY DEF Typing!Fewer
<1>5. \A i \in 0 .. m - 1 : w[n + m - i] = ts[m - i]
  <2>1. \A i \in 0 .. m - 1 : m - i \in 1 .. m /\ n + (m - i) = n + m - i
    OBVIOUS
  <2>2. QED
    BY <1>3, <2>1
<1>6. TakesTop(w, ts, m, p)
  BY <1>2, <1>3, <1>4, <1>5 DEF TakesTop
<1>7. Rest(w, m) = u
  <2>1. n + m - m = n
    OBVIOUS
  <2>2. QED
    BY <1>1, <1>2, <1>3, <1>4, <2>1, CatLower DEF Rest
<1>8. QED
  BY <1>1, <1>2, <1>6, <1>7

LEMMA TakenEnds ==
  ASSUME NEW w \in Seq(Cell), NEW ts \in Seq(Cell), AnyFirst(w, FALSE),
         TakesTop(w, ts, Len(ts), FALSE)
  PROVE  w = Rest(w, Len(ts)) \o ts
<1>1. PICK n \in Nat, m \in Nat : n = Len(w) /\ m = Len(ts)
  BY LenProperties
<1>2. n >= m /\ \A i \in 0 .. Typing!Fewer(n, m) - 1 : w[n - i] \in {ts[m - i], AnyType}
  BY <1>1 DEF TakesTop
<1>3. Typing!Fewer(n, m) = m
  BY <1>2 DEF Typing!Fewer
<1>4. \A i \in 1 .. n : w[i] # AnyType
  BY <1>1 DEF AnyFirst
<1>5. \A i \in 0 .. m - 1 : w[n - i] = ts[m - i]
  <2>1. ASSUME NEW i \in 0 .. m - 1 PROVE w[n - i] = ts[m - i]
    <3>1. n - i \in 1 .. n
      BY <1>2
    <3>2. QED
      BY <1>2, <1>3, <1>4, <3>1
  <2>2. QED
    BY <2>1
<1>6. PICK u : u = Rest(w, m)
  OBVIOUS
<1>7. u \in Seq(Cell) /\ Len(u) = n - m /\ \A i \in 1 .. Len(u) : u[i] = w[i]
  <2>1. /\ u \in Seq(Cell) /\ (Len(u) = IF n <= m THEN 0 ELSE n - m)
        /\ \A i \in 1 .. Len(u) : u[i] = w[i]
    BY <1>1, <1>6, RestType
  <2>2. QED
    BY <1>2, <2>1
<1>8. PICK x : x = u \o ts
  OBVIOUS
<1>9. /\ x \in Seq(Cell) /\ Len(x) = n
      /\ \A i \in 1 .. n - m : x[i] = u[i]
      /\ \A i \in 1 .. m : x[n - m + i] = ts[i]
  <2>1. /\ x \in Seq(Cell) /\ Len(x) = Len(u) + Len(ts)
        /\ \A i \in 1 .. Len(u) : x[i] = u[i]
        /\ \A i \in 1 .. Len(ts) : x[Len(u) + i] = ts[i]
    BY <1>7, <1>8, CatType
  <2>2. QED
    BY <1>1, <1>7, <2>1
<1>10. \A i \in 1 .. n : x[i] = w[i]
  <2>1. ASSUME NEW i \in 1 .. n PROVE x[i] = w[i]
    <3>1. CASE i <= n - m
      BY <1>7, <1>9, <3>1
    <3>2. CASE i > n - m
      <4>1. PICK j \in 1 .. m : i = n - m + j
        <5>1. i - (n - m) \in 1 .. m /\ i = n - m + (i - (n - m))
          BY <1>2, <3>2
        <5>2. QED
          BY <5>1
      <4>2. m - j \in 0 .. m - 1 /\ n - (m - j) = i /\ m - (m - j) = j
        BY <1>2, <4>1
      <4>3. w[i] = ts[j]
        BY <1>5, <4>2
      <4>4. QED
        BY <1>9, <4>1, <4>3
    <3>3. QED
      BY <1>2, <3>1, <3>2
  <2>2. QED
    BY <2>1
<1>11. x = w
  BY <1>1, <1>9, <1>10, SeqEqual
<1>12. QED
  BY <1>1, <1>6, <1>8, <1>11

\* In reachable code: the cells of ts are on top when the values w end with ts.
LEMMA TopValuesTaken ==
  ASSUME NEW L \in Seq(Cell), NEW w \in Seq(Cell), AnyFirst(w, FALSE), NEW ts \in Seq(Cell)
  PROVE  TopValues(CellsOf(L) \o CellsOf(w), Len(CellsOf(w)), ts)
           <=> TakesTop(w, ts, Len(ts), FALSE)
<1>1. PICK a : a = CellsOf(L)
  OBVIOUS
<1>2. PICK d : d = CellsOf(w)
  OBVIOUS
<1>3. PICK k : k = CellsOf(ts)
  OBVIOUS
<1>4. /\ a \in Seq(Cell) /\ d \in Seq(Cell) /\ k \in Seq(Cell)
      /\ Len(a) \in Nat /\ Len(d) \in Nat /\ Len(k) \in Nat
  BY <1>1, <1>2, <1>3, CellsOfType
<1>5. PICK r : r = a \o d
  OBVIOUS
<1>6. r \in Seq(Cell) /\ Len(r) = Len(a) + Len(d)
  BY <1>4, <1>5, CatType
<1>7. ASSUME TakesTop(w, ts, Len(ts), FALSE)
      PROVE  Len(k) <= Len(d) /\ SubSeq(r, Len(r) - Len(k) + 1, Len(r)) = k
  <2>1. PICK u : u \in Seq(Cell) /\ w = u \o ts
    <3>1. w = Rest(w, Len(ts)) \o ts
      BY <1>7, TakenEnds
    <3>2. Rest(w, Len(ts)) \in Seq(Cell)
      BY RestType, LenProperties
    <3>3. QED
      BY <3>1, <3>2
  <2>2. PICK e : e = CellsOf(u)
    OBVIOUS
  <2>3. e \in Seq(Cell) /\ d = e \o k
    BY <1>2, <1>3, <2>1, <2>2, CellsOfType, CellsOfJoined
  <2>4. Len(d) = Len(e) + Len(k) /\ Len(e) \in Nat
    BY <1>4, <2>3, CatType
  <2>5. PICK x : x = a \o e
    OBVIOUS
  <2>6. x \in Seq(Cell) /\ Len(x) = Len(a) + Len(e)
    BY <1>4, <2>3, <2>5, CatType
  <2>7. r = x \o k
    <3>1. (a \o e) \o k = a \o (e \o k)
      <4>1. a \in Seq(Cell) /\ e \in Seq(Cell) /\ k \in Seq(Cell)
        BY <1>4, <2>3
      <4>2. Associates(a, e, k)
        BY <4>1, CatAssociates, Zenon
      <4>3. QED
        BY <4>2 DEF Associates
    <3>2. QED
      BY <1>5, <2>3, <2>5, <3>1, Zenon
  <2>8. SubSeq(x \o k, Len(x) + 1, Len(x) + Len(k)) = k
    BY <1>4, <2>6, CatUpper
  <2>9. Len(r) - Len(k) + 1 = Len(x) + 1 /\ Len(r) = Len(x) + Len(k) /\ Len(k) <= Len(d)
    BY <1>4, <1>6, <2>4, <2>6
  <2>10. QED
    BY <2>7, <2>8, <2>9
<1>8. ASSUME Len(k) <= Len(d), SubSeq(r, Len(r) - Len(k) + 1, Len(r)) = k
      PROVE  TakesTop(w, ts, Len(ts), FALSE)
  <2>1. PICK n \in Nat : n = Len(d) - Len(k)
    <3>1. PICK i \in Nat, j \in Nat : i = Len(d) /\ j = Len(k)
      BY <1>4
    <3>2. j <= i
      BY <1>8, <3>1
    <3>3. i - j \in Nat
      BY <3>2
    <3>4. QED
      BY <3>1, <3>3
  <2>2. PICK e : e = SubSeq(d, 1, n)
    OBVIOUS
  <2>3. e \in Seq(Cell)
    BY <1>4, <2>1, <2>2, CutType
  <2>4. PICK y : y = SubSeq(d, n + 1, Len(d))
    OBVIOUS
  <2>5. d = e \o y
    <3>1. 1 \in 1 .. Len(d) + 1 /\ n \in 1 - 1 .. Len(d) /\ Len(d) \in n .. Len(d)
      BY <1>4, <2>1
    <3>2. e \o y = SubSeq(d, 1, Len(d))
      BY <1>4, <2>2, <2>4, <3>1, ConcatAdjacentSubSeq
    <3>3. QED
      BY <1>4, <3>2, SubSeqFull
  <2>6. y \in Seq(Cell)
    <3>1. \A i \in n + 1 .. Len(d) : d[i] \in Cell
      <4>1. \A i \in 1 .. Len(d) : d[i] \in Cell
        BY <1>4, ElementOfSeq
      <4>2. QED
        BY <2>1, <4>1
    <3>2. n + 1 \in Int /\ Len(d) \in Int
      BY <1>4
    <3>3. QED
      BY <2>4, <3>1, <3>2, SubSeqProperties
  <2>7. PICK x : x = a \o e
    OBVIOUS
  <2>8. x \in Seq(Cell) /\ Len(x) = Len(a) + Len(e) /\ Len(e) \in Nat
    BY <1>4, <2>3, <2>7, CatType
  <2>9. r = x \o y
    <3>1. (a \o e) \o y = a \o (e \o y)
      <4>1. a \in Seq(Cell) /\ e \in Seq(Cell) /\ y \in Seq(Cell)
        BY <1>4, <2>3, <2>6
      <4>2. Associates(a, e, y)
        BY <4>1, CatAssociates, Zenon
      <4>3. QED
        BY <4>2 DEF Associates
    <3>2. QED
      BY <1>5, <2>5, <2>7, <3>1, Zenon
  <2>10. Len(d) = Len(e) + Len(y) /\ Len(y) \in Nat /\ Len(e) = n
    <3>1. Len(d) = Len(e) + Len(y) /\ Len(y) \in Nat
      BY <2>3, <2>5, <2>6, CatType
    <3>2. Len(e) = IF 1 <= n THEN n ELSE 0
      BY <1>4, <2>1, <2>2, CutType
    <3>3. QED
      BY <2>1, <3>1, <3>2
  <2>11. Len(y) = Len(k)
    BY <1>4, <2>1, <2>10
  <2>12. Len(r) - Len(k) + 1 = Len(x) + 1 /\ Len(r) = Len(x) + Len(y)
    BY <1>4, <1>6, <2>8, <2>10, <2>11
  <2>13. SubSeq(x \o y, Len(x) + 1, Len(x) + Len(y)) = y
    BY <2>6, <2>8, CatUpper
  <2>14. y = k
    BY <1>8, <2>9, <2>12, <2>13
  <2>15. Ends(w, e, ts)
    BY <1>2, <1>3, <2>3, <2>5, <2>14, CellsEndWith
  <2>16. PICK u \in Seq(Cell) : w = u \o ts
    BY <2>15 DEF Ends
  <2>17. QED
    BY <2>16, EndsTaken
<1>9. TopValues(r, Len(d), ts)
        <=> Len(k) <= Len(d) /\ SubSeq(r, Len(r) - Len(k) + 1, Len(r)) = k
  BY <1>3 DEF TopValues, OnTop
<1>10. QED
  BY <1>1, <1>2, <1>5, <1>7, <1>8, <1>9

\* The values w are ts and, in unreachable code, some at the bottom may be
\* missing.
TakesWhole(w, ts, p) == TakesTop(w, ts, Len(ts), p) /\ Rest(w, Len(ts)) = << >>

LEMMA CheckBlockStackDoes ==
  ASSUME NEW L \in Seq(Cell), NEW w \in Seq(Cell), NEW b \in Blocks, b.base = Len(CellsOf(L)),
         NEW s, NEW c \in BOOLEAN, Does(s, c, L, w), AnyFirst(w, b.poly)
  PROVE  Does(CheckBlockStack(s, b), c /\ TakesWhole(w, b.results, b.poly), L, b.results)
<1>1. PICK rs : rs = b.results
  OBVIOUS
<1>2. rs \in Seq(Cell) /\ b.poly \in BOOLEAN /\ Len(rs) \in Nat
  <2>1. rs \in Seq(ValueTypes) /\ b.poly \in BOOLEAN
    BY <1>1 DEF Blocks
  <2>2. rs \in Seq(Cell)
    BY <2>1, SeqMonotonic DEF Cell
  <2>3. QED
    BY <2>1, <2>2, LenProperties
<1>3. CASE ~Good(s)
  <2>1. s.outcome = "limit" \/ (s.outcome = "rejected" /\ ~c)
    BY <1>3, FineIs DEF Does
  <2>2. QED
    BY <1>3, <2>1 DEF Does, CheckBlockStack
<1>4. CASE Good(s)
  <2>1. c /\ s = Fine(CellsOf(L) \o CellsOf(w))
    BY <1>4 DEF Does, Good
  <2>2. PICK a : a = CellsOf(L)
    OBVIOUS
  <2>3. a \in Seq(Cell) /\ Len(a) \in Nat
    BY <2>2, CellsOfType
  <2>4. CASE b.poly
    <3>1. PICK q : q = PopAll(s, b, rs)
      OBVIOUS
    <3>2. PICK u : u = Rest(w, Len(rs))
      OBVIOUS
    <3>3. PICK e \in BOOLEAN : e <=> TakesTop(w, rs, Len(rs), b.poly)
      OBVIOUS
    <3>4. u \in Seq(Cell)
      BY <1>2, <3>2, RestType
    <3>5. Does(q, c /\ e, L, u)
      <4>1. Does(q, c /\ TakesTop(w, rs, Len(rs), b.poly), L, u)
        BY <1>2, <3>1, <3>2, PopAllDoes
      <4>2. QED
        BY <3>3, <4>1 DEF Does
    <3>6. (Good(q) => (Len(q.cells) = b.base <=> u = << >>))
      <4>1. SUFFICES ASSUME Good(q) PROVE Len(q.cells) = b.base <=> u = << >>
        OBVIOUS
      <4>2. q.cells = a \o CellsOf(u)
        BY <2>2, <3>5, <4>1, FineIs DEF Does, Good
      <4>3. CellsOf(u) \in Seq(Cell) /\ Len(CellsOf(u)) \in Nat /\ Len(CellsOf(u)) >= Len(u)
        BY <3>4, CellsOfType
      <4>4. Len(q.cells) = Len(a) + Len(CellsOf(u))
        BY <2>3, <4>2, <4>3, CatType
      <4>5. Len(u) \in Nat /\ (Len(u) = 0 => u = << >>)
        BY <3>4, EmptySeq, LenProperties
      <4>6. u = << >> => Len(CellsOf(u)) = 0
        BY CellsOfEmpty
      <4>7. QED
        BY <2>2, <2>3, <4>3, <4>4, <4>5, <4>6
    <3>7. PICK g \in BOOLEAN : g <=> c /\ TakesWhole(w, rs, b.poly)
      OBVIOUS
    <3>8. g <=> c /\ e /\ u = << >>
      BY <3>2, <3>3, <3>7 DEF TakesWhole
    <3>9. CASE Good(q) /\ Len(q.cells) # b.base
      <4>1. CheckBlockStack(s, b) = Fails(s, "rejected")
        BY <1>1, <1>4, <2>4, <3>1, <3>9 DEF CheckBlockStack
      <4>2. ~g
        BY <3>6, <3>8, <3>9
      <4>3. QED
        BY <1>1, <3>7, <4>1, <4>2 DEF Does, Fails
    <3>10. CASE ~(Good(q) /\ Len(q.cells) # b.base)
      <4>1. CheckBlockStack(s, b) = PushAll(q, rs)
        BY <1>1, <1>4, <2>4, <3>1, <3>10 DEF CheckBlockStack
      <4>2. << >> \in Seq(Cell) /\ << >> \o rs = rs
        BY <1>2, CatEmpty
      <4>3. Does(q, g, L, << >>)
        BY <3>5, <3>6, <3>8, <3>10, FineIs DEF Does
      <4>4. Does(PushAll(q, rs), g, L, << >> \o rs)
        BY <1>2, <4>2, <4>3, PushAllDoes
      <4>5. QED
        BY <1>1, <3>7, <4>1, <4>2, <4>4 DEF Does
    <3>11. QED
      BY <3>9, <3>10
  <2>5. CASE ~b.poly
    <3>1. PICK d : d = CellsOf(w)
      OBVIOUS
    <3>2. d \in Seq(Cell) /\ Len(d) \in Nat
      BY <3>1, CellsOfType
    <3>3. s.cells = a \o d /\ Len(a \o d) = Len(a) + Len(d) /\ b.base = Len(a)
      BY <2>1, <2>2, <2>3, <3>1, <3>2, FineIs, CatType
    <3>4. SubSeq(s.cells, b.base + 1, Len(s.cells)) = d
      BY <2>3, <3>2, <3>3, CatUpper
    <3>5. d = CellsOf(rs) <=> w = rs
      BY <1>2, <3>1, CellsOfInjective
    <3>6. CheckBlockStack(s, b) = IF w = rs THEN s ELSE Fails(s, "rejected")
      BY <1>1, <1>4, <2>5, <3>4, <3>5 DEF CheckBlockStack
    <3>7. TakesWhole(w, rs, b.poly) <=> w = rs
      <4>1. ASSUME w = rs PROVE TakesWhole(w, rs, b.poly)
        <5>1. PICK o : o = << >>
          OBVIOUS
        <5>2. o \in Seq(Cell) /\ w = o \o rs
          BY <1>2, <4>1, <5>1, CatEmpty
        <5>3. QED
          BY <1>2, <5>1, <5>2, EndsTaken DEF TakesWhole
      <4>2. ASSUME TakesWhole(w, rs, b.poly) PROVE w = rs
        <5>1. AnyFirst(w, FALSE) /\ TakesTop(w, rs, Len(rs), FALSE)
          BY <2>5, <4>2 DEF AnyFirst, TakesWhole, TakesTop
        <5>2. w = Rest(w, Len(rs)) \o rs
          BY <1>2, <5>1, TakenEnds
        <5>3. QED
          BY <1>2, <4>2, <5>2, CatEmpty DEF TakesWhole
      <4>3. QED
        BY <4>1, <4>2
    <3>8. QED
      BY <1>1, <2>1, <3>6, <3>7 DEF Does, Fails
  <2>6. QED
    BY <2>4, <2>5
<1>5. QED
  BY <1>3, <1>4

-----------------------------------------------------------------------------
(* Blocks over values *)

\* The function block starts at the bottom; only an if has an else.
Rooted(bs) == /\ bs # << >> => bs[1].base = 0
              /\ \A i \in 1 .. Len(bs) : bs[i].hasElse => bs[i].label = "if"

LEMMA EmptyValues == Values(<< >>) = << >>
<1>1. << >> \in Seq(Cell)
  OBVIOUS
<1>2. CellsOf(<< >>) = << >>
  BY CellsOfEmpty
<1>3. QED
  BY <1>1, <1>2, ValuesOfCells

LEMMA EmptyCtrls ==
  ASSUME NEW r
  PROVE  Ctrls(<< >>, r) = << >>
<1>1. Len(<< >>) = 0 /\ 1 .. 0 = {}
  OBVIOUS
<1>2. Ctrls(<< >>, r) = [i \in 1 .. 0 |-> Ctrl(<< >>[i], r)]
  BY <1>1 DEF Ctrls
<1>3. QED
  BY <1>1, <1>2

LEMMA ValuesOver ==
  ASSUME NEW L \in Seq(Cell), NEW v \in Seq(Cell)
  PROVE  Values(CellsOf(L) \o CellsOf(v)) = L \o v
<1>1. CellsOf(L \o v) = CellsOf(L) \o CellsOf(v)
  BY CellsOfJoined
<1>2. L \o v \in Seq(Cell)
  BY CatType
<1>3. Values(CellsOf(L \o v)) = L \o v
  BY <1>2, ValuesOfCells
<1>4. QED
  BY <1>1, <1>3

\* What a step is to do, as the type system has it, or giving up.
Mapped(c, v, cs) == Typing!Typed(c, v, cs) \/ Typing!GiveUp

LEMMA SettleMaps ==
  ASSUME NEW L \in Seq(Cell), NEW v \in Seq(Cell), NEW s, NEW c \in BOOLEAN, Does(s, c, L, v),
         NEW bs, NEW cs, Settle(s, bs), Good(s) => Ctrls(bs, s.cells) = cs
  PROVE  Mapped(c, L \o v, cs)
<1>1. CASE s.outcome = "limit"
  <2>1. ref' = << >> /\ csp' = << >> /\ verdict' = "limit"
    BY <1>1 DEF Settle, Good
  <2>2. Typing!GiveUp
    BY <2>1, EmptyValues, EmptyCtrls DEF Typing!GiveUp
  <2>3. QED
    BY <2>2 DEF Mapped
<1>2. CASE s.outcome = "rejected" /\ ~c
  <2>1. ref' = << >> /\ csp' = << >> /\ verdict' = "rejected"
    BY <1>2 DEF Settle, Good
  <2>2. Typing!Refuse
    BY <2>1, EmptyValues, EmptyCtrls DEF Typing!Refuse
  <2>3. QED
    BY <1>2, <2>2 DEF Mapped, Typing!Typed
<1>3. CASE c /\ s = Fine(CellsOf(L) \o CellsOf(v))
  <2>1. Good(s) /\ s.cells = CellsOf(L) \o CellsOf(v) /\ s.outcome = "checking"
    BY <1>3, FineIs
  <2>2. ref' = CellsOf(L) \o CellsOf(v) /\ csp' = bs /\ verdict' = "checking"
    BY <2>1 DEF Settle
  <2>3. Values(ref') = L \o v
    BY <2>2, ValuesOver
  <2>4. Ctrls(csp', ref') = cs
    BY <2>1, <2>2
  <2>5. Typing!Go(L \o v, cs)
    BY <2>2, <2>3, <2>4 DEF Typing!Go
  <2>6. QED
    BY <1>3, <2>5 DEF Mapped, Typing!Typed
<1>4. QED
  BY <1>1, <1>2, <1>3 DEF Does

-----------------------------------------------------------------------------
(* Taking one type, and then the ones before it *)

LEMMA LastFirst ==
  ASSUME NEW ts \in Seq(Cell), NEW t \in Cell, NEW m \in Nat, m = Len(ts)
  PROVE  /\ Append(ts, t) \in Seq(Cell) /\ Len(Append(ts, t)) = m + 1
         /\ Append(ts, t)[m + 1] = t /\ \A j \in 1 .. m : Append(ts, t)[j] = ts[j]
BY AppendProperties

LEMMA TakesAppend ==
  ASSUME NEW w \in Seq(Cell), NEW ts \in Seq(Cell), NEW t \in Cell, NEW p \in BOOLEAN
  PROVE  TakesTop(w, Append(ts, t), Len(Append(ts, t)), p)
           <=> Fits(w, t, p) /\ TakesTop(Rest(w, 1), ts, Len(ts), p)
<1>1. PICK n \in Nat : n = Len(w)
  BY LenProperties
<1>2. PICK m \in Nat : m = Len(ts)
  BY LenProperties
<1>3. PICK q : q = Append(ts, t)
  OBVIOUS
<1>4. /\ Len(q) = m + 1 /\ q[m + 1] = t /\ \A j \in 1 .. m : q[j] = ts[j]
  BY <1>2, <1>3, LastFirst
<1>5. PICK u : u = Rest(w, 1)
  OBVIOUS
<1>6. /\ Len(u) = IF n <= 1 THEN 0 ELSE n - 1
      /\ \A j \in 1 .. Len(u) : u[j] = w[j]
  BY <1>1, <1>5, RestType
<1>. DEFINE Met(i) == w[n - i] \in {q[m + 1 - i], AnyType}
            Also(i) == u[Len(u) - i] \in {ts[m - i], AnyType}
<1>7. /\ TakesTop(w, q, m + 1, p)
           <=> (n >= m + 1 \/ p) /\ \A i \in 0 .. Typing!Fewer(n, m + 1) - 1 : Met(i)
      /\ TakesTop(u, ts, m, p)
           <=> (Len(u) >= m \/ p) /\ \A i \in 0 .. Typing!Fewer(Len(u), m) - 1 : Also(i)
  BY <1>1, <1>2, <1>4 DEF TakesTop
<1>8. CASE n = 0
  <2>1. Len(u) = 0 /\ w = << >>
    <3>1. Len(u) = 0
      BY <1>6, <1>8
    <3>2. Len(w) = 0
      BY <1>1, <1>8
    <3>3. w = << >>
      BY <3>2, EmptySeq
    <3>4. QED
      BY <3>1, <3>3
  <2>2. Typing!Fewer(n, m + 1) = 0 /\ Typing!Fewer(Len(u), m) = 0
    BY <1>8, <2>1 DEF Typing!Fewer
  <2>3. Fits(w, t, p) <=> p
    BY <2>1 DEF Fits
  <2>. HIDE DEF Met, Also
  <2>4. TakesTop(w, q, m + 1, p) <=> p
    BY <1>7, <1>8, <2>2
  <2>5. \A i \in 0 .. Typing!Fewer(Len(u), m) - 1 : Also(i)
    <3>1. 0 .. Typing!Fewer(Len(u), m) - 1 = {}
      BY <2>2
    <3>2. QED
      BY <3>1
  <2>6. p => TakesTop(u, ts, m, p)
    BY <1>7, <2>5, Zenon
  <2>7. QED
    BY <1>2, <1>3, <1>4, <1>5, <2>3, <2>4, <2>6
<1>9. CASE n > 0
  <2>1. Len(u) = n - 1 /\ w # << >>
    BY <1>1, <1>6, <1>9
  <2>2. PICK k \in Nat : k = Typing!Fewer(n - 1, m)
    <3>1. n - 1 \in Nat
      BY <1>9
    <3>2. QED
      BY <3>1 DEF Typing!Fewer
  <2>3. Typing!Fewer(n, m + 1) = k + 1 /\ k <= m /\ k <= n - 1
    BY <1>9, <2>2 DEF Typing!Fewer
  <2>4. Fits(w, t, p) <=> Met(0)
    BY <1>1, <1>4, <2>1 DEF Fits
  <2>5. \A i \in 0 .. k - 1 : Also(i) <=> Met(i + 1)
    <3>1. TAKE i \in 0 .. k - 1
    <3>2. /\ n - (i + 1) = Len(u) - i /\ Len(u) - i \in 1 .. Len(u)
          /\ m + 1 - (i + 1) = m - i /\ m - i \in 1 .. m
      BY <2>1, <2>3
    <3>3. u[Len(u) - i] = w[n - (i + 1)] /\ ts[m - i] = q[m + 1 - (i + 1)]
      BY <1>4, <1>6, <3>2
    <3>4. QED
      BY <3>3
  <2>. HIDE DEF Met, Also
  <2>6. (\A i \in 0 .. k + 1 - 1 : Met(i)) <=> Met(0) /\ \A i \in 0 .. k - 1 : Met(i + 1)
    <3>1. ASSUME Met(0), \A i \in 0 .. k - 1 : Met(i + 1), NEW i \in 0 .. k
          PROVE  Met(i)
      <4>1. CASE i = 0
        BY <3>1, <4>1
      <4>2. CASE i # 0
        <5>1. i - 1 \in 0 .. k - 1 /\ i - 1 + 1 = i
          BY <4>2
        <5>2. QED
          BY <3>1, <5>1
      <4>3. QED
        BY <4>1, <4>2
    <3>2. ASSUME \A i \in 0 .. k : Met(i), NEW i \in 0 .. k - 1
          PROVE  Met(i + 1)
      <4>1. i + 1 \in 0 .. k
        OBVIOUS
      <4>2. QED
        BY <3>2, <4>1
    <3>3. k + 1 - 1 = k /\ 0 \in 0 .. k
      OBVIOUS
    <3>4. QED
      BY <3>1, <3>2, <3>3
  <2>7. (\A i \in 0 .. k - 1 : Also(i)) <=> (\A i \in 0 .. k - 1 : Met(i + 1))
    BY <2>5
  <2>8. n >= m + 1 <=> Len(u) >= m
    BY <2>1
  <2>9. TakesTop(w, q, m + 1, p)
          <=> (n >= m + 1 \/ p) /\ \A i \in 0 .. k + 1 - 1 : Met(i)
    BY <1>7, <2>3
  <2>10. TakesTop(u, ts, m, p) <=> (Len(u) >= m \/ p) /\ \A i \in 0 .. k - 1 : Also(i)
    BY <1>7, <2>1, <2>2
  <2>11. TakesTop(w, q, m + 1, p) <=> Fits(w, t, p) /\ TakesTop(u, ts, m, p)
    BY <2>4, <2>6, <2>7, <2>8, <2>9, <2>10, Zenon
  <2>12. QED
    BY <1>2, <1>3, <1>4, <1>5, <2>11
<1>10. QED
  BY <1>8, <1>9

LEMMA TakesOne ==
  ASSUME NEW w \in Seq(Cell), NEW t \in Cell, NEW p \in BOOLEAN
  PROVE  TakesTop(w, <<t>>, 1, p) <=> Fits(w, t, p)
<1>1. PICK e : e \in Seq(Cell) /\ e = << >>
  <2>1. << >> \in Seq(Cell)
    OBVIOUS
  <2>2. QED
    BY <2>1
<1>2. <<t>> = Append(e, t) /\ Len(e) = 0 /\ Len(Append(e, t)) = 1
  BY <1>1
<1>3. Rest(w, 1) \in Seq(Cell)
  BY RestType
<1>4. TakesTop(Rest(w, 1), e, 0, p)
  BY <1>3, TakesNone
<1>5. TakesTop(w, Append(e, t), Len(Append(e, t)), p)
        <=> Fits(w, t, p) /\ TakesTop(Rest(w, 1), e, Len(e), p)
  BY <1>1, TakesAppend
<1>6. QED
  BY <1>2, <1>4, <1>5

LEMMA TakesTwo ==
  ASSUME NEW w \in Seq(Cell), NEW t \in Cell, NEW p \in BOOLEAN
  PROVE  TakesTop(w, <<t, t>>, 2, p) <=> Fits(w, t, p) /\ Fits(Rest(w, 1), t, p)
<1>1. PICK e : e \in Seq(Cell) /\ e = <<t>>
  <2>1. <<t>> \in Seq(Cell)
    OBVIOUS
  <2>2. QED
    BY <2>1
<1>2. <<t, t>> = Append(e, t) /\ Len(e) = 1 /\ Len(Append(e, t)) = 2
  BY <1>1
<1>3. PICK u \in Seq(Cell) : u = Rest(w, 1)
  BY RestType
<1>4. TakesTop(u, e, 1, p) <=> Fits(u, t, p)
  BY <1>1, TakesOne
<1>5. TakesTop(w, Append(e, t), Len(Append(e, t)), p)
        <=> Fits(w, t, p) /\ TakesTop(Rest(w, 1), e, Len(e), p)
  BY <1>1, TakesAppend
<1>6. QED
  BY <1>2, <1>3, <1>4, <1>5

LEMMA TakesSelect ==
  ASSUME NEW w \in Seq(Cell), NEW t \in Cell, NEW i \in Cell, NEW p \in BOOLEAN
  PROVE  TakesTop(w, <<t, t, i>>, 3, p) <=>
           Fits(w, i, p) /\ Fits(Rest(w, 1), t, p) /\ Fits(Rest(w, 2), t, p)
<1>1. PICK e : e \in Seq(Cell) /\ e = <<t, t>>
  <2>1. <<t, t>> \in Seq(Cell)
    OBVIOUS
  <2>2. QED
    BY <2>1
<1>2. <<t, t, i>> = Append(e, i) /\ Len(e) = 2 /\ Len(Append(e, i)) = 3
  BY <1>1
<1>3. PICK u \in Seq(Cell) : u = Rest(w, 1)
  BY RestType
<1>4. TakesTop(u, e, 2, p) <=> Fits(u, t, p) /\ Fits(Rest(u, 1), t, p)
  BY <1>1, TakesTwo
<1>5. TakesTop(w, Append(e, i), Len(Append(e, i)), p)
        <=> Fits(w, i, p) /\ TakesTop(Rest(w, 1), e, Len(e), p)
  BY <1>1, TakesAppend
<1>6. Rest(u, 1) = Rest(w, 2)
  <2>1. Rest(Rest(w, 1), 1) = Rest(w, 1 + 1)
    BY RestRest
  <2>2. QED
    BY <1>3, <2>1
<1>7. QED
  BY <1>2, <1>3, <1>4, <1>5, <1>6

-----------------------------------------------------------------------------
(* The state as the type system has it *)

\* The cells are those of the values w of the innermost block above those of
\* the values L of the blocks around it.
Parts(L, w) == /\ L \in Seq(Cell) /\ w \in Seq(Cell) /\ ref = CellsOf(L) \o CellsOf(w)
               /\ Top.base = Len(CellsOf(L)) /\ AnyFirst(w, Top.poly)

LEMMA WholeBelow ==
  ASSUME Shape(ref, csp), Rooted(csp)
  PROVE  WholeFrom(ref, 0, Top.base)
<1>1. PICK n \in Nat \ {0} : n = Len(csp)
  BY TopKeeps
<1>2. Top = csp[n] /\ \A i \in 1 .. n : csp[i].base \in Nat
  BY <1>1, TopKeeps
<1>3. \A i \in 1 .. n - 1 : /\ csp[i].base <= csp[i + 1].base
                            /\ WholeFrom(ref, csp[i].base, csp[i + 1].base)
  <2>1. TAKE i \in 1 .. n - 1
  <2>2. i \in 1 .. n /\ i # n /\ i + 1 \in i .. n
    BY <1>1
  <2>3. csp[i].base <= csp[i + 1].base
    BY <1>1, <2>2 DEF Shape, Nested
  <2>4. WholeFrom(ref, csp[i].base, csp[i + 1].base)
    BY <1>1, <2>2 DEF Shape, WholeAll
  <2>5. QED
    BY <2>3, <2>4
<1>. DEFINE S == {i \in 0 .. n - 1 : WholeFrom(ref, 0, csp[i + 1].base)}
<1>4. 0 \in S
  <2>1. csp # << >> /\ 0 \in 0 .. n - 1 /\ 0 + 1 = 1
    BY <1>1
  <2>2. csp[1].base = 0
    BY <2>1 DEF Rooted
  <2>3. WholeFrom(ref, 0, 0)
    BY WholeNone
  <2>4. QED
    BY <2>1, <2>2, <2>3
<1>5. \A i \in 1 .. n - 1 : i - 1 \in S => i \in S
  <2>1. TAKE i \in 1 .. n - 1
  <2>2. HAVE i - 1 \in S
  <2>3. i - 1 + 1 = i /\ i \in 0 .. n - 1 /\ i \in 1 .. n /\ i + 1 \in 1 .. n
    BY <1>1
  <2>4. WholeFrom(ref, 0, csp[i].base)
    BY <2>2, <2>3
  <2>5. PICK x \in Nat, y \in Nat : x = csp[i].base /\ y = csp[i + 1].base
    BY <1>2, <2>3
  <2>6. 0 <= x /\ x <= y /\ WholeFrom(ref, 0, x) /\ WholeFrom(ref, x, y)
    BY <1>3, <2>4, <2>5
  <2>7. WholeFrom(ref, 0, y)
    BY <2>6, WholeJoined
  <2>8. QED
    BY <2>3, <2>5, <2>7
<1>6. n - 1 \in Nat /\ n - 1 + 1 = n
  BY <1>1
<1>. HIDE DEF S
<1>7. \A i \in 0 .. n - 1 : i \in S
  BY <1>4, <1>5, <1>6, UpTo
<1>8. n - 1 \in S
  BY <1>6, <1>7
<1>9. QED
  BY <1>2, <1>6, <1>8 DEF S

LEMMA PartsExist ==
  ASSUME Shape(ref, csp), Rooted(csp)
  PROVE  \E L \in Seq(Cell), w \in Seq(Cell) : Parts(L, w)
<1>1. ref \in Seq(Cell)
  BY DEF Shape, Typed
<1>2. PICK m \in Nat : m = Len(ref)
  BY <1>1, LenProperties
<1>3. PICK n \in Nat : n = Top.base
  BY TopKeeps
<1>4. n <= m /\ Keeps(Now, Top, ref)
  BY <1>2, <1>3, TopKeeps
<1>5. /\ \A k \in n + 1 .. m : ref[k] = AnyType => k = n + 1 /\ Top.poly
      /\ WholeFrom(ref, n, m)
  BY <1>2, <1>3, <1>4, FineIs DEF Keeps, Now
<1>6. WholeFrom(ref, 0, n)
  BY <1>3, WholeBelow
<1>7. PICK L \in Seq(Cell) : SubSeq(ref, 0 + 1, n) = CellsOf(L)
  BY <1>1, <1>2, <1>4, <1>6, WholeCells
<1>8. PICK w \in Seq(Cell) : SubSeq(ref, n + 1, m) = CellsOf(w)
  BY <1>1, <1>2, <1>4, <1>5, WholeCells
<1>9. PICK a : a = CellsOf(L)
  OBVIOUS
<1>10. PICK d : d = CellsOf(w)
  OBVIOUS
<1>11. a = SubSeq(ref, 1, n) /\ d = SubSeq(ref, n + 1, m)
  BY <1>7, <1>8, <1>9, <1>10
<1>12. ref = a \o d
  <2>1. 1 \in 1 .. m + 1 /\ n \in 1 - 1 .. m /\ m \in n .. m
    BY <1>4
  <2>2. a \o d = SubSeq(ref, 1, m)
    BY <1>1, <1>2, <1>11, <2>1, ConcatAdjacentSubSeq
  <2>3. QED
    BY <1>1, <1>2, <2>2, SubSeqFull
<1>13. Len(a) = n
  BY <1>1, <1>2, <1>3, <1>4, <1>11, CutType
<1>14. a \in Seq(Cell) /\ d \in Seq(Cell)
  BY <1>9, <1>10, CellsOfType
<1>15. AnyFirst(w, Top.poly)
  <2>1. SUFFICES ASSUME NEW i \in 1 .. Len(w), w[i] = AnyType PROVE i = 1 /\ Top.poly
    BY DEF AnyFirst
  <2>2. PICK k \in i .. Len(d) : d[k] = AnyType
    BY <1>10, <2>1, CellOfValue
  <2>3. /\ Len(d) \in Nat /\ Len(ref) = Len(a) + Len(d)
        /\ \A j \in 1 .. Len(d) : ref[Len(a) + j] = d[j]
    BY <1>12, <1>14, CatType
  <2>4. k \in 1 .. Len(d)
    BY <2>3
  <2>5. ref[n + k] = AnyType
    BY <1>13, <2>2, <2>3, <2>4
  <2>6. n + k \in n + 1 .. m
    BY <1>2, <1>13, <2>3, <2>4
  <2>7. n + k = n + 1 /\ Top.poly
    BY <1>5, <2>5, <2>6
  <2>8. QED
    BY <2>7
<1>16. QED
  <2>1. Parts(L, w)
    BY <1>3, <1>9, <1>10, <1>12, <1>13, <1>15 DEF Parts
  <2>2. QED
    BY <2>1

LEMMA CtrlsAre ==
  ASSUME NEW bs, Len(bs) \in Nat, NEW r
  PROVE  /\ Len(Ctrls(bs, r)) = Len(bs)
         /\ \A i \in 1 .. Len(bs) : Ctrls(bs, r)[i] = Ctrl(bs[i], r)
BY DEF Ctrls

LEMMA CtrlIs ==
  ASSUME NEW b, NEW r
  PROVE  /\ Ctrl(b, r).label = (IF b.hasElse THEN "else" ELSE b.label)
         /\ Ctrl(b, r).params = b.params /\ Ctrl(b, r).results = b.results
         /\ Ctrl(b, r).height = Len(Values(Reset(r, b))) /\ Ctrl(b, r).unreachable = b.poly
BY DEF Ctrl

\* What the innermost block is in the type system.
LEMMA TopTyped ==
  ASSUME Shape(ref, csp), NEW L, NEW w, Parts(L, w)
  PROVE  /\ Values(ref) = L \o w /\ Typing!Top = Ctrl(Top, ref)
         /\ Ctrl(Top, ref).height = Len(L) /\ Len(Ctrls(csp, ref)) = Len(csp)
<1>1. L \in Seq(Cell) /\ w \in Seq(Cell) /\ ref = CellsOf(L) \o CellsOf(w) /\ Top.base = Len(CellsOf(L))
  BY DEF Parts
<1>2. Values(ref) = L \o w
  BY <1>1, ValuesOver
<1>3. PICK n \in Nat \ {0} : n = Len(csp)
  BY TopKeeps
<1>4. Len(Ctrls(csp, ref)) = n /\ Ctrls(csp, ref)[n] = Ctrl(csp[n], ref)
  BY <1>3, CtrlsAre
<1>5. Typing!Top = Ctrl(Top, ref)
  BY <1>3, <1>4 DEF Typing!Top, Top
<1>6. Reset(ref, Top) = CellsOf(L)
  <2>1. PICK a : a = CellsOf(L)
    OBVIOUS
  <2>2. PICK d : d = CellsOf(w)
    OBVIOUS
  <2>3. a \in Seq(Cell) /\ d \in Seq(Cell)
    BY <1>1, <2>1, <2>2, CellsOfType
  <2>4. SubSeq(a \o d, 1, Len(a)) = a
    BY <2>3, CatLower
  <2>5. QED
    BY <1>1, <2>1, <2>2, <2>4 DEF Reset
<1>7. Values(CellsOf(L)) = L
  BY <1>1, ValuesOfCells
<1>8. Ctrl(Top, ref).height = Len(L)
  BY <1>6, <1>7, CtrlIs
<1>9. QED
  BY <1>2, <1>3, <1>4, <1>5, <1>8

LEMMA OperandsTyped ==
  ASSUME Shape(ref, csp), NEW L, NEW w, Parts(L, w)
  PROVE  Typing!Operands = w /\ Typing!Below = L
<1>1. L \in Seq(Cell) /\ w \in Seq(Cell)
  BY DEF Parts
<1>2. Values(ref) = L \o w /\ Typing!Top.height = Len(L)
  BY TopTyped
<1>3. Len(L \o w) = Len(L) + Len(w)
  BY <1>1, CatType
<1>4. SubSeq(L \o w, Len(L) + 1, Len(L) + Len(w)) = w
  BY <1>1, CatUpper
<1>5. SubSeq(L \o w, 1, Len(L)) = L
  BY <1>1, CatLower
<1>6. Typing!Operands = w
  BY <1>2, <1>3, <1>4 DEF Typing!Operands
<1>7. Typing!Below = L
  BY <1>2, <1>5 DEF Typing!Below
<1>8. QED
  BY <1>6, <1>7

LEMMA TakesTyped ==
  ASSUME Shape(ref, csp), NEW L, NEW w, Parts(L, w), NEW s, NEW ts
  PROVE  /\ Typing!Takes(s, ts) <=> TakesTop(s, ts, Len(ts), Top.poly)
         /\ Typing!Left(s, ts) = Rest(s, Len(ts))
         /\ Typing!TakesAll(s, ts) <=> TakesWhole(s, ts, Top.poly)
<1>1. Typing!Top.unreachable = Top.poly
  BY TopTyped, CtrlIs
<1>2. Typing!Takes(s, ts) <=> TakesTop(s, ts, Len(ts), Top.poly)
  BY <1>1 DEF Typing!Takes, TakesTop
<1>3. Typing!Left(s, ts) = Rest(s, Len(ts))
  BY DEF Typing!Left, Rest
<1>4. QED
  BY <1>2, <1>3 DEF Typing!TakesAll, TakesWhole

\* A block seen over other cells of the innermost block is the same one.
LEMMA CtrlOver ==
  ASSUME NEW a \in Seq(Cell), NEW x \in Seq(Cell), NEW b, b.base \in Nat, b.base <= Len(a)
  PROVE  Ctrl(b, a \o x) = Ctrl(b, a)
<1>1. PICK n \in Int : n = b.base
  OBVIOUS
<1>2. SubSeq(a \o x, 1, n) = SubSeq(a, 1, n)
  BY <1>1, CatCut
<1>3. Reset(a \o x, b) = Reset(a, b)
  BY <1>1, <1>2 DEF Reset
<1>4. QED
  BY <1>3 DEF Ctrl

LEMMA CtrlsOver ==
  ASSUME NEW a \in Seq(Cell), NEW x \in Seq(Cell), NEW bs,
         \A i \in 1 .. Len(bs) : bs[i].base \in Nat /\ bs[i].base <= Len(a)
  PROVE  Ctrls(bs, a \o x) = Ctrls(bs, a)
<1>1. \A i \in 1 .. Len(bs) : Ctrl(bs[i], a \o x) = Ctrl(bs[i], a)
  BY CtrlOver
<1>2. QED
  BY <1>1 DEF Ctrls

LEMMA CtrlsAppend ==
  ASSUME NEW bs \in Seq(Blocks), NEW b \in Blocks, NEW r
  PROVE  Ctrls(Append(bs, b), r) = Append(Ctrls(bs, r), Ctrl(b, r))
<1>1. PICK n \in Nat : n = Len(bs)
  BY LenProperties
<1>2. PICK q : q = Append(bs, b)
  OBVIOUS
<1>3. Len(q) = n + 1 /\ q[n + 1] = b /\ \A i \in 1 .. n : q[i] = bs[i]
  BY <1>1, <1>2, AppendProperties
<1>4. PICK c : c = Ctrl(b, r)
  OBVIOUS
<1>5. PICK g : g = Ctrls(bs, r)
  OBVIOUS
<1>. DEFINE S == {Ctrl(bs[i], r) : i \in 1 .. n} \cup {c}
<1>6. g \in Seq(S) /\ Len(g) = n /\ \A i \in 1 .. n : g[i] = Ctrl(bs[i], r)
  BY <1>1, <1>5 DEF Ctrls
<1>7. c \in S
  OBVIOUS
<1>. HIDE DEF S
<1>8. PICK h : h = Append(g, c)
  OBVIOUS
<1>9. h \in Seq(S) /\ Len(h) = n + 1 /\ h[n + 1] = c /\ \A i \in 1 .. n : h[i] = g[i]
  BY <1>6, <1>7, <1>8, AppendProperties
<1>10. PICK k : k = Ctrls(q, r)
  OBVIOUS
<1>11. k = [i \in 1 .. n + 1 |-> Ctrl(q[i], r)]
  BY <1>3, <1>10 DEF Ctrls
<1>12. \A i \in 1 .. n + 1 : k[i] = h[i]
  <2>1. TAKE i \in 1 .. n + 1
  <2>2. CASE i = n + 1
    BY <1>3, <1>4, <1>9, <1>11, <2>2
  <2>3. CASE i # n + 1
    <3>1. i \in 1 .. n
      BY <2>3
    <3>2. QED
      BY <1>3, <1>6, <1>9, <1>11, <3>1
  <2>4. QED
    BY <2>2, <2>3
<1>13. h = [i \in 1 .. n + 1 |-> h[i]]
  BY <1>9
<1>14. k = h
  BY <1>11, <1>12, <1>13
<1>15. QED
  BY <1>2, <1>4, <1>5, <1>8, <1>10, <1>14

LEMMA CtrlsOuter ==
  ASSUME Shape(ref, csp)
  PROVE  Ctrls(Outer, ref) = Typing!Outer
<1>1. csp \in Seq(Blocks) /\ csp # << >>
  BY DEF Shape, Typed
<1>2. PICK n \in Nat \ {0} : n = Len(csp)
  BY TopKeeps
<1>3. Len(Outer) = n - 1 /\ \A i \in 1 .. n - 1 : Outer[i] = csp[i]
  BY <1>1, <1>2, FrontOfSeq DEF Outer
<1>4. PICK k : k = Ctrls(csp, ref)
  OBVIOUS
<1>5. Len(k) = n /\ \A i \in 1 .. n : k[i] = Ctrl(csp[i], ref)
  BY <1>2, <1>4, CtrlsAre
<1>6. SubSeq(k, 1, n - 1) = [i \in 1 .. n - 1 |-> k[i]]
  OBVIOUS
<1>7. Ctrls(Outer, ref) = [i \in 1 .. n - 1 |-> Ctrl(Outer[i], ref)]
  BY <1>3 DEF Ctrls
<1>8. \A i \in 1 .. n - 1 : Ctrl(Outer[i], ref) = k[i]
  <2>1. TAKE i \in 1 .. n - 1
  <2>2. i \in 1 .. n
    BY <1>2
  <2>3. QED
    BY <1>3, <1>5, <2>2
<1>9. QED
  BY <1>4, <1>5, <1>6, <1>7, <1>8 DEF Typing!Outer

LEMMA DoesGood ==
  ASSUME NEW s, NEW c, NEW L, NEW v, Does(s, c, L, v), Good(s)
  PROVE  c /\ s.cells = CellsOf(L) \o CellsOf(v) /\ s = Fine(CellsOf(L) \o CellsOf(v))
<1>1. s.outcome = "checking"
  BY DEF Good
<1>2. c /\ s = Fine(CellsOf(L) \o CellsOf(v))
  BY <1>1 DEF Does
<1>3. QED
  BY <1>2, FineIs

\* The values of the block may be counted among those below.
LEMMA DoesLower ==
  ASSUME NEW L \in Seq(Cell), NEW v \in Seq(Cell), NEW s, NEW c, Does(s, c, L, v)
  PROVE  Does(s, c, L \o v, << >>)
<1>1. PICK a : a = CellsOf(L) \o CellsOf(v)
  OBVIOUS
<1>2. CellsOf(L \o v) = a
  BY <1>1, CellsOfJoined
<1>3. L \o v \in Seq(Cell)
  BY CatType
<1>4. a \in Seq(Cell)
  BY <1>2, <1>3, CellsOfType
<1>5. a \o CellsOf(<< >>) = a
  BY <1>4, CellsOfEmpty, CatEmpty
<1>6. QED
  BY <1>1, <1>2, <1>5 DEF Does

LEMMA ResetDoes ==
  ASSUME NEW L \in Seq(Cell), NEW v \in Seq(Cell), NEW s, NEW c, Does(s, c, L, v),
         NEW b, b.base = Len(CellsOf(L))
  PROVE  Does(IF Good(s) THEN Fine(Reset(s.cells, b)) ELSE s, c, L, << >>)
<1>1. CASE ~Good(s)
  <2>1. s.outcome = "limit" \/ (s.outcome = "rejected" /\ ~c)
    BY <1>1, FineIs DEF Does
  <2>2. QED
    BY <1>1, <2>1 DEF Does
<1>2. CASE Good(s)
  <2>1. PICK a : a = CellsOf(L)
    OBVIOUS
  <2>2. PICK d : d = CellsOf(v)
    OBVIOUS
  <2>3. a \in Seq(Cell) /\ d \in Seq(Cell)
    BY <2>1, <2>2, CellsOfType
  <2>4. c /\ s.cells = a \o d
    BY <1>2, <2>1, <2>2, DoesGood
  <2>5. SubSeq(a \o d, 1, Len(a)) = a
    BY <2>3, CatLower
  <2>6. Reset(s.cells, b) = a
    BY <2>1, <2>4, <2>5 DEF Reset
  <2>7. a \o CellsOf(<< >>) = a
    BY <2>3, CellsOfEmpty, CatEmpty
  <2>8. QED
    BY <1>2, <2>1, <2>4, <2>6, <2>7 DEF Does
<1>3. QED
  BY <1>1, <1>2

LEMMA CtrlsKept ==
  ASSUME Shape(ref, csp), NEW L, NEW w, Parts(L, w), NEW v \in Seq(Cell)
  PROVE  /\ Ctrls(csp, CellsOf(L) \o CellsOf(v)) = Ctrls(csp, ref)
         /\ Ctrls(Outer, CellsOf(L) \o CellsOf(v)) = Typing!Outer
         /\ \A b : b.base = Top.base => Ctrl(b, CellsOf(L) \o CellsOf(v)) = Ctrl(b, ref)
<1>1. PICK a : a = CellsOf(L)
  OBVIOUS
<1>2. PICK d : d = CellsOf(w)
  OBVIOUS
<1>3. PICK e : e = CellsOf(v)
  OBVIOUS
<1>4. L \in Seq(Cell) /\ w \in Seq(Cell) /\ ref = a \o d /\ Top.base = Len(a)
  BY <1>1, <1>2 DEF Parts
<1>5. a \in Seq(Cell) /\ d \in Seq(Cell) /\ e \in Seq(Cell)
  BY <1>1, <1>2, <1>3, <1>4, CellsOfType
<1>6. PICK n \in Nat \ {0} : n = Len(csp)
  BY TopKeeps
<1>7. \A i \in 1 .. n : csp[i].base \in Nat /\ csp[i].base <= Len(a)
  <2>1. TAKE i \in 1 .. n
  <2>2. n \in i .. n
    BY <1>6
  <2>3. csp[i].base <= csp[n].base
    BY <1>6, <2>2 DEF Shape, Nested
  <2>4. QED
    BY <1>4, <1>6, <2>3, TopKeeps
<1>8. csp \in Seq(Blocks) /\ csp # << >>
  BY DEF Shape, Typed
<1>9. Len(Outer) = n - 1 /\ \A i \in 1 .. n - 1 : Outer[i] = csp[i]
  BY <1>6, <1>8, FrontOfSeq DEF Outer
<1>10. \A i \in 1 .. Len(Outer) : Outer[i].base \in Nat /\ Outer[i].base <= Len(a)
  <2>1. TAKE i \in 1 .. Len(Outer)
  <2>2. i \in 1 .. n /\ Outer[i] = csp[i]
    BY <1>9
  <2>3. QED
    BY <1>7, <2>2
<1>11. Ctrls(csp, a \o e) = Ctrls(csp, a) /\ Ctrls(csp, a \o d) = Ctrls(csp, a)
  BY <1>5, <1>6, <1>7, CtrlsOver
<1>12. Ctrls(Outer, a \o e) = Ctrls(Outer, a) /\ Ctrls(Outer, a \o d) = Ctrls(Outer, a)
  BY <1>5, <1>10, CtrlsOver
<1>13. Ctrls(Outer, ref) = Typing!Outer
  BY CtrlsOuter
<1>14. ASSUME NEW b, b.base = Top.base PROVE Ctrl(b, a \o e) = Ctrl(b, ref)
  <2>1. b.base \in Nat /\ b.base <= Len(a)
    <3>1. Len(a) \in Nat
      BY <1>5, LenProperties
    <3>2. QED
      BY <1>4, <1>14, <3>1
  <2>2. Ctrl(b, a \o e) = Ctrl(b, a) /\ Ctrl(b, a \o d) = Ctrl(b, a)
    BY <1>5, <2>1, CtrlOver
  <2>3. QED
    BY <1>4, <2>2
<1>15. QED
  BY <1>1, <1>3, <1>4, <1>11, <1>12, <1>13, <1>14

LEMMA SettleSameMaps ==
  ASSUME Shape(ref, csp), NEW L, NEW w, Parts(L, w), NEW v \in Seq(Cell),
         NEW s, NEW c \in BOOLEAN, Does(s, c, L, v), Settle(s, csp)
  PROVE  Mapped(c, L \o v, Ctrls(csp, ref))
<1>1. L \in Seq(Cell)
  BY DEF Parts
<1>2. PICK r : r = CellsOf(L) \o CellsOf(v)
  OBVIOUS
<1>3. Ctrls(csp, r) = Ctrls(csp, ref)
  BY <1>2, CtrlsKept
<1>4. Good(s) => s.cells = r
  BY <1>2, DoesGood
<1>5. Good(s) => Ctrls(csp, s.cells) = Ctrls(csp, ref)
  BY <1>3, <1>4
<1>6. QED
  BY <1>1, <1>5, SettleMaps

LEMMA SettleOuterMaps ==
  ASSUME Shape(ref, csp), NEW L, NEW w, Parts(L, w), NEW v \in Seq(Cell),
         NEW s, NEW c \in BOOLEAN, Does(s, c, L, v), Settle(s, Outer)
  PROVE  Mapped(c, L \o v, Typing!Outer)
<1>1. L \in Seq(Cell)
  BY DEF Parts
<1>2. PICK r : r = CellsOf(L) \o CellsOf(v)
  OBVIOUS
<1>3. Ctrls(Outer, r) = Typing!Outer
  BY <1>2, CtrlsKept
<1>4. Good(s) => s.cells = r
  BY <1>2, DoesGood
<1>5. Good(s) => Ctrls(Outer, s.cells) = Typing!Outer
  BY <1>3, <1>4
<1>6. QED
  BY <1>1, <1>5, SettleMaps

LEMMA SettleTopMaps ==
  ASSUME Shape(ref, csp), NEW L, NEW w, Parts(L, w), NEW v \in Seq(Cell),
         NEW b \in Blocks, b.base = Top.base,
         NEW s, NEW c \in BOOLEAN, Does(s, c, L, v), Settle(s, SetTop(b))
  PROVE  Mapped(c, L \o v, Append(Typing!Outer, Ctrl(b, ref)))
<1>1. L \in Seq(Cell)
  BY DEF Parts
<1>2. Outer \in Seq(Blocks)
  BY FrontOfSeq DEF Outer, Shape, Typed
<1>3. PICK r : r = CellsOf(L) \o CellsOf(v)
  OBVIOUS
<1>4. Ctrls(SetTop(b), r) = Append(Ctrls(Outer, r), Ctrl(b, r))
  BY <1>2, CtrlsAppend DEF SetTop
<1>5. Ctrls(Outer, r) = Typing!Outer /\ Ctrl(b, r) = Ctrl(b, ref)
  BY <1>3, CtrlsKept
<1>6. Good(s) => s.cells = r
  BY <1>3, DoesGood
<1>7. Good(s) => Ctrls(SetTop(b), s.cells) = Append(Typing!Outer, Ctrl(b, ref))
  BY <1>4, <1>5, <1>6
<1>8. QED
  BY <1>1, <1>7, SettleMaps

\* The same of an opcode nothing follows.
MappedUnreached(c) == Typing!Unreached(c) \/ Typing!GiveUp

LEMMA SettleUnreachableMaps ==
  ASSUME Shape(ref, csp), NEW L, NEW w, Parts(L, w), NEW v \in Seq(Cell),
         NEW s, NEW c \in BOOLEAN, Does(s, c, L, v), SettleUnreachable(s)
  PROVE  MappedUnreached(c)
<1>1. L \in Seq(Cell) /\ Top.base = Len(CellsOf(L)) /\ Top \in Blocks
  BY TopKeeps DEF Parts
<1>2. PICK q : q = IF Good(s) THEN Fine(Reset(s.cells, Top)) ELSE s
  OBVIOUS
<1>3. PICK b : b = [Top EXCEPT !.poly = TRUE]
  OBVIOUS
<1>4. Does(q, c, L, << >>)
  BY <1>1, <1>2, ResetDoes
<1>5. b \in Blocks /\ b.base = Top.base
  BY <1>1, <1>3 DEF Blocks
<1>6. Settle(q, SetTop(b))
  BY <1>2, <1>3 DEF SettleUnreachable
<1>7. PICK v0 : v0 \in Seq(Cell) /\ v0 = << >>
  <2>1. << >> \in Seq(Cell)
    OBVIOUS
  <2>2. QED
    BY <2>1
<1>8. Mapped(c, L \o v0, Append(Typing!Outer, Ctrl(b, ref)))
  BY <1>4, <1>5, <1>6, <1>7, SettleTopMaps
<1>9. L \o v0 = L
  BY <1>1, <1>7, CatEmpty
<1>10. Ctrl(b, ref) = [Typing!Top EXCEPT !.unreachable = TRUE]
  <2>1. Typing!Top = Ctrl(Top, ref)
    BY TopTyped
  <2>2. /\ b.hasElse = Top.hasElse /\ b.label = Top.label /\ b.params = Top.params
        /\ b.results = Top.results /\ b.poly = TRUE /\ Reset(ref, b) = Reset(ref, Top)
    BY <1>1, <1>3, <1>5 DEF Blocks, Reset
  <2>3. PICK h : h = Len(Values(Reset(ref, Top)))
    OBVIOUS
  <2>4. PICK l : l = IF Top.hasElse THEN "else" ELSE Top.label
    OBVIOUS
  <2>5. Ctrl(Top, ref) = [label |-> l, params |-> Top.params, results |-> Top.results,
                          height |-> h, unreachable |-> Top.poly]
    BY <2>3, <2>4 DEF Ctrl
  <2>6. Ctrl(b, ref) = [label |-> l, params |-> Top.params, results |-> Top.results,
                        height |-> h, unreachable |-> TRUE]
    BY <2>2, <2>3, <2>4 DEF Ctrl
  <2>7. PICK t : t = Typing!Top
    OBVIOUS
  <2>8. PICK y : y = TRUE
    OBVIOUS
  <2>9. PICK z : z = Top.poly
    OBVIOUS
  <2>10. t = [label |-> l, params |-> Top.params, results |-> Top.results,
              height |-> h, unreachable |-> z]
    BY <2>1, <2>5, <2>7, <2>9
  <2>11. [t EXCEPT !.unreachable = y]
           = [label |-> l, params |-> Top.params, results |-> Top.results,
              height |-> h, unreachable |-> y]
    BY <2>10
  <2>12. Ctrl(b, ref) = [label |-> l, params |-> Top.params, results |-> Top.results,
                         height |-> h, unreachable |-> y]
    BY <2>6, <2>8
  <2>13. QED
    BY <2>7, <2>8, <2>11, <2>12
<1>11. Typing!Below = L
  BY OperandsTyped
<1>12. QED
  BY <1>8, <1>9, <1>10, <1>11 DEF Mapped, MappedUnreached, Typing!Unreached

-----------------------------------------------------------------------------
(* Branches *)

LEMMA LabelTyped ==
  ASSUME Shape(ref, csp), Rooted(csp), NEW n \in Nat, n <= Len(csp) - 1
  PROVE  Typing!LabelTypes(Typing!Depth(n)) = LabelTypes(Target(n))
<1>1. PICK m \in Nat \ {0} : m = Len(csp)
  BY TopKeeps
<1>2. PICK k \in 1 .. m : k = m - n
  BY <1>1
<1>3. PICK b : b = csp[k]
  OBVIOUS
<1>4. Target(n) = b
  BY <1>1, <1>2, <1>3 DEF Target
<1>5. Len(Ctrls(csp, ref)) = m /\ Ctrls(csp, ref)[k] = Ctrl(b, ref)
  BY <1>1, <1>2, <1>3, CtrlsAre
<1>6. Typing!Depth(n) = Ctrl(b, ref)
  BY <1>2, <1>5 DEF Typing!Depth
<1>7. b.hasElse => b.label = "if"
  BY <1>1, <1>2, <1>3 DEF Rooted
<1>8. Ctrl(b, ref).label = "loop" <=> b.label = "loop"
  <2>1. Ctrl(b, ref).label = IF b.hasElse THEN "else" ELSE b.label
    BY CtrlIs
  <2>2. QED
    BY <1>7, <2>1
<1>9. Ctrl(b, ref).params = b.params /\ Ctrl(b, ref).results = b.results
  BY CtrlIs
<1>10. QED
  BY <1>4, <1>6, <1>8, <1>9 DEF Typing!LabelTypes, LabelTypes

LEMMA NowDoes ==
  ASSUME NEW L, NEW w, Parts(L, w)
  PROVE  Does(Now, TRUE, L, w)
BY DEF Parts, Does, Now

LEMMA RejectedDoes ==
  ASSUME NEW L, NEW w, NEW c, ~c, NEW s, s = Rejected \/ \E q : s = Fails(q, "rejected")
  PROVE  Does(s, c, L, w)
<1>1. s.outcome = "rejected"
  BY DEF Rejected, Fails
<1>2. QED
  BY <1>1 DEF Does

\* From the values w the innermost block but n can be branched to.
Branches(w, n) ==
  /\ n <= Len(csp) - 1
  /\ TakesTop(w, LabelTypes(Target(n)), Len(LabelTypes(Target(n))), Top.poly)

LEMMA LabelCells ==
  ASSUME Shape(ref, csp), NEW n \in Nat, n <= Len(csp) - 1
  PROVE  LabelTypes(Target(n)) \in Seq(Cell) /\ Len(LabelTypes(Target(n))) \in Nat
<1>1. LabelTypes(Target(n)) \in Seq(ValueTypes)
  BY TargetTypes
<1>2. LabelTypes(Target(n)) \in Seq(Cell)
  BY <1>1, SeqMonotonic DEF Cell
<1>3. QED
  BY <1>2, LenProperties

LEMMA CheckBrDoes ==
  ASSUME Shape(ref, csp), NEW L \in Seq(Cell), Top.base = Len(CellsOf(L)),
         NEW w \in Seq(Cell), AnyFirst(w, Top.poly), NEW s, NEW c \in BOOLEAN, Does(s, c, L, w),
         NEW n \in Nat, NEW ts, ts = LabelTypes(Target(n))
  PROVE  /\ Does(CheckBr(s, n, FALSE), c /\ Branches(w, n), L, Rest(w, Len(ts)) \o ts)
         /\ Does(CheckBr(s, n, TRUE), c /\ Branches(w, n), L, w)
<1>1. PICK g \in BOOLEAN : g <=> Branches(w, n)
  OBVIOUS
<1>2. PICK v : v = Rest(w, Len(ts)) \o ts
  OBVIOUS
<1>3. Top \in Blocks /\ Top.poly \in BOOLEAN
  BY TopKeeps DEF Blocks
<1>4. SUFFICES Does(CheckBr(s, n, FALSE), c /\ g, L, v) /\ Does(CheckBr(s, n, TRUE), c /\ g, L, w)
  BY <1>1, <1>2 DEF Does
<1>5. CASE ~Good(s)
  <2>1. s.outcome = "limit" \/ (s.outcome = "rejected" /\ ~c)
    BY <1>5, FineIs DEF Does
  <2>2. CheckBr(s, n, FALSE) = s /\ CheckBr(s, n, TRUE) = s
    BY <1>5 DEF CheckBr
  <2>3. QED
    BY <2>1, <2>2 DEF Does
<1>6. CASE Good(s) /\ Len(csp) - 1 < n
  <2>1. PICK q : q = Fails(s, "rejected")
    OBVIOUS
  <2>2. CheckBr(s, n, FALSE) = q /\ CheckBr(s, n, TRUE) = q
    BY <1>6, <2>1 DEF CheckBr
  <2>3. ~Branches(w, n)
    <3>1. Len(csp) \in Nat
      BY TopKeeps
    <3>2. ~(n <= Len(csp) - 1)
      BY <1>6, <3>1
    <3>3. QED
      BY <3>2 DEF Branches
  <2>4. ~(c /\ g)
    BY <1>1, <2>3
  <2>5. QED
    BY <2>1, <2>2, <2>4, RejectedDoes
<1>7. CASE Good(s) /\ ~(Len(csp) - 1 < n)
  <2>1. n <= Len(csp) - 1
    <3>1. Len(csp) \in Nat
      BY TopKeeps
    <3>2. QED
      BY <1>7, <3>1
  <2>2. ts \in Seq(Cell) /\ Len(ts) \in Nat
    BY <2>1, LabelCells
  <2>3. g <=> TakesTop(w, ts, Len(ts), Top.poly)
    BY <1>1, <2>1 DEF Branches
  <2>4. c /\ s.cells = CellsOf(L) \o CellsOf(w)
    BY <1>7, DoesGood
  <2>5. CASE Top.poly
    <3>1. PICK q : q = Repushed(s, n)
      OBVIOUS
    <3>2. PICK p : p = PopAll(s, Top, ts)
      OBVIOUS
    <3>3. PICK u \in Seq(Cell) : u = Rest(w, Len(ts))
      BY <2>2, RestType
    <3>4. Does(p, c /\ g, L, u)
      <4>1. Does(p, c /\ TakesTop(w, ts, Len(ts), Top.poly), L, Rest(w, Len(ts)))
        BY <1>3, <2>2, <3>2, PopAllDoes
      <4>2. QED
        BY <2>3, <3>3, <4>1 DEF Does
    <3>5. q = PushAll(p, ts)
      BY <3>1, <3>2 DEF Repushed
    <3>6. PICK h \in BOOLEAN : h <=> c /\ g
      OBVIOUS
    <3>7. Does(p, h, L, u)
      BY <3>4, <3>6 DEF Does
    <3>8. Does(q, h, L, u \o ts)
      BY <2>2, <3>5, <3>7, PushAllDoes
    <3>9. Does(CheckBr(s, n, FALSE), h, L, v)
      <4>1. CheckBr(s, n, FALSE) = q
        BY <1>7, <2>5, <3>1 DEF CheckBr
      <4>2. QED
        BY <1>2, <3>3, <3>8, <4>1
    <3>10. Does(CheckBr(s, n, TRUE), h, L, w)
      <4>1. CASE Good(q)
        <5>1. h
          BY <3>8, <4>1, DoesGood
        <5>2. CheckBr(s, n, TRUE) = s
          BY <1>7, <2>5, <3>1, <4>1 DEF CheckBr
        <5>3. QED
          BY <2>4, <5>1, <5>2 DEF Does
      <4>2. CASE ~Good(q)
        <5>1. CheckBr(s, n, TRUE) = q
          BY <1>7, <2>5, <3>1, <4>2 DEF CheckBr
        <5>2. q.outcome = "limit" \/ (q.outcome = "rejected" /\ ~h)
          BY <3>8, <4>2, FineIs DEF Does
        <5>3. QED
          BY <5>1, <5>2 DEF Does
      <4>3. QED
        BY <4>1, <4>2
    <3>11. QED
      BY <3>6, <3>9, <3>10 DEF Does
  <2>6. CASE ~Top.poly
    <3>1. PICK a : a = CellsOf(L)
      OBVIOUS
    <3>2. PICK d : d = CellsOf(w)
      OBVIOUS
    <3>3. a \in Seq(Cell) /\ d \in Seq(Cell)
      BY <3>1, <3>2, CellsOfType
    <3>4. Len(s.cells) - Top.base = Len(d)
      <4>1. Len(a \o d) = Len(a) + Len(d) /\ Len(a) \in Nat /\ Len(d) \in Nat
        BY <3>3, CatType
      <4>2. QED
        BY <2>4, <3>1, <3>2, <4>1
    <3>5. AnyFirst(w, FALSE)
      BY <2>6 DEF AnyFirst
    <3>6. TopValues(s.cells, Len(s.cells) - Top.base, ts) <=> g
      <4>1. TopValues(a \o d, Len(d), ts) <=> TakesTop(w, ts, Len(ts), FALSE)
        BY <2>2, <3>1, <3>2, <3>5, TopValuesTaken
      <4>2. TakesTop(w, ts, Len(ts), FALSE) <=> TakesTop(w, ts, Len(ts), Top.poly)
        BY <2>6 DEF TakesTop
      <4>3. QED
        BY <2>3, <2>4, <3>1, <3>2, <3>4, <4>1, <4>2
    <3>7. CASE g
      <4>1. CheckBr(s, n, FALSE) = s /\ CheckBr(s, n, TRUE) = s
        BY <1>7, <2>6, <3>6, <3>7 DEF CheckBr
      <4>2. TakesTop(w, ts, Len(ts), FALSE)
        BY <2>3, <2>6, <3>7 DEF TakesTop
      <4>3. w = v
        BY <1>2, <2>2, <3>5, <4>2, TakenEnds
      <4>4. Does(s, c /\ g, L, w)
        BY <2>4, <3>7 DEF Does
      <4>5. QED
        BY <4>1, <4>3, <4>4
    <3>8. CASE ~g
      <4>1. PICK q : q = Fails(s, "rejected")
        OBVIOUS
      <4>2. CheckBr(s, n, FALSE) = q /\ CheckBr(s, n, TRUE) = q
        BY <1>7, <2>6, <3>6, <3>8, <4>1 DEF CheckBr
      <4>3. ~(c /\ g)
        BY <3>8
      <4>4. QED
        BY <4>1, <4>2, <4>3, RejectedDoes
    <3>9. QED
      BY <3>7, <3>8
  <2>7. QED
    BY <2>5, <2>6
<1>8. QED
  BY <1>5, <1>6, <1>7

\* Target i of a br_table has as many types as the last, and the values w for them.
Directs(w, ns, i) ==
  /\ Len(LabelTypes(Target(ns[i]))) = Len(LabelTypes(Target(ns[Len(ns)])))
  /\ Branches(w, ns[i])

LEMMA CheckTargetDoes ==
  ASSUME Shape(ref, csp), NEW L \in Seq(Cell), Top.base = Len(CellsOf(L)),
         NEW w \in Seq(Cell), AnyFirst(w, Top.poly), NEW s, NEW c \in BOOLEAN, Does(s, c, L, w),
         NEW ns, NEW i, ns[i] \in Nat
  PROVE  Does(CheckTarget(s, ns, i), c /\ Directs(w, ns, i), L, w)
<1>1. PICK e \in BOOLEAN :
        e <=> Len(LabelTypes(Target(ns[i]))) = Len(LabelTypes(Target(ns[Len(ns)])))
  OBVIOUS
<1>2. PICK g \in BOOLEAN : g <=> Branches(w, ns[i])
  OBVIOUS
<1>3. Directs(w, ns, i) <=> e /\ g
  BY <1>1, <1>2 DEF Directs
<1>4. SUFFICES Does(CheckTarget(s, ns, i), c /\ e /\ g, L, w)
  BY <1>3 DEF Does
<1>5. CASE ~Good(s)
  <2>1. s.outcome = "limit" \/ (s.outcome = "rejected" /\ ~c)
    BY <1>5, FineIs DEF Does
  <2>2. CheckTarget(s, ns, i) = s
    BY <1>5 DEF CheckTarget
  <2>3. QED
    BY <2>1, <2>2 DEF Does
<1>6. CASE Good(s) /\ ~e
  <2>1. CheckTarget(s, ns, i) = Rejected
    BY <1>1, <1>6 DEF CheckTarget
  <2>2. QED
    BY <1>6, <2>1, RejectedDoes
<1>7. CASE Good(s) /\ e
  <2>1. CheckTarget(s, ns, i) = CheckBr(s, ns[i], TRUE)
    BY <1>1, <1>7 DEF CheckTarget
  <2>2. Does(CheckBr(s, ns[i], TRUE), c /\ Branches(w, ns[i]), L, w)
    BY CheckBrDoes
  <2>3. Does(CheckBr(s, ns[i], TRUE), c /\ e /\ g, L, w)
    BY <1>2, <1>7, <2>2 DEF Does
  <2>4. QED
    BY <2>1, <2>3
<1>8. QED
  BY <1>5, <1>6, <1>7

LEMMA CheckTargetsDoes ==
  ASSUME Shape(ref, csp), NEW L \in Seq(Cell), Top.base = Len(CellsOf(L)),
         NEW w \in Seq(Cell), AnyFirst(w, Top.poly), NEW s, NEW c \in BOOLEAN, Does(s, c, L, w),
         NEW k \in Nat, NEW ns \in [1 .. k -> Nat]
  PROVE  Does(CheckTargets(s, ns), c /\ \A i \in 1 .. k : Directs(w, ns, i), L, w)
<1>0. PICK f : Targets(f, s, k, ns) /\ CheckTargets(s, ns) = f[k]
  BY CheckTargetsSteps
<1>1. /\ f[0] = s /\ CheckTargets(s, ns) = f[k]
      /\ \A i \in 1 .. k : f[i] = CheckTarget(f[i - 1], ns, i)
  BY <1>0 DEF Targets
<1>. DEFINE To(i) == c /\ \A j \in 1 .. i : Directs(w, ns, j)
            S == {i \in 0 .. k : Does(f[i], To(i), L, w)}
<1>2. 0 \in S
  <2>1. To(0) <=> c
    OBVIOUS
  <2>2. Does(f[0], To(0), L, w)
    BY <1>1, <2>1 DEF Does
  <2>3. QED
    BY <2>2
<1>3. ASSUME NEW i \in 1 .. k, i - 1 \in S PROVE i \in S
  <2>1. PICK g \in BOOLEAN : g <=> To(i - 1)
    OBVIOUS
  <2>2. Does(f[i - 1], g, L, w)
    BY <1>3, <2>1 DEF Does
  <2>3. ns[i] \in Nat
    OBVIOUS
  <2>4. f[i] = CheckTarget(f[i - 1], ns, i)
    BY <1>1
  <2>5. Does(f[i], g /\ Directs(w, ns, i), L, w)
    BY <2>2, <2>3, <2>4, CheckTargetDoes
  <2>6. To(i) <=> g /\ Directs(w, ns, i)
    <3>1. To(i) <=> To(i - 1) /\ Directs(w, ns, i)
      <4>1. \A j \in 1 .. i : j \in 1 .. i - 1 \/ j = i
        OBVIOUS
      <4>2. i \in 1 .. i /\ \A j \in 1 .. i - 1 : j \in 1 .. i
        OBVIOUS
      <4>3. QED
        BY <4>1, <4>2
    <3>2. QED
      BY <2>1, <3>1
  <2>. HIDE DEF To
  <2>7. Does(f[i], To(i), L, w)
    BY <2>5, <2>6 DEF Does
  <2>8. QED
    BY <2>7
<1>. HIDE DEF S
<1>4. \A i \in 0 .. k : i \in S
  BY <1>2, <1>3, UpTo
<1>5. k \in S
  BY <1>4
<1>. HIDE DEF To
<1>6. Does(CheckTargets(s, ns), To(k), L, w)
  BY <1>1, <1>5 DEF S
<1>7. QED
  BY <1>6 DEF To

-----------------------------------------------------------------------------
(* Every opcode *)

LEMMA StepIs ==
  ASSUME NEW o
  PROVE  /\ o.op = "plain" => (Typing!Step(o) <=> Typing!Plain(o))
         /\ o.op = "unreachable" => (Typing!Step(o) <=> Typing!Unreached(TRUE))
         /\ o.op = "drop" => (Typing!Step(o) <=> Typing!Drop)
         /\ o.op = "select" => (Typing!Step(o) <=> Typing!Select)
         /\ o.op \in {"block", "loop", "if"} => (Typing!Step(o) <=> Typing!Open(o.op, o.type))
         /\ o.op = "else" => (Typing!Step(o) <=> Typing!Else)
         /\ o.op = "end" => (Typing!Step(o) <=> Typing!End(o.more))
         /\ o.op = "br" => (Typing!Step(o) <=> Typing!Branch(o.depth))
         /\ o.op = "br_if" => (Typing!Step(o) <=> Typing!BranchIf(o.depth))
         /\ o.op = "br_table" => (Typing!Step(o) <=> Typing!BranchTable(o.depths))
         /\ o.op = "return" => (Typing!Step(o) <=> Typing!Return)
         /\ o.op = "return_call" => (Typing!Step(o) <=> Typing!TailCall(o.pops, o.results))
         /\ o.op \in {"unsupported", "none"} => (Typing!Step(o) <=> Typing!Refuse)
<1>1. CASE o.op = "plain"
  BY <1>1 DEF Typing!Step
<1>2. CASE o.op = "unreachable"
  BY <1>2 DEF Typing!Step
<1>3. CASE o.op = "drop"
  BY <1>3 DEF Typing!Step
<1>4. CASE o.op = "select"
  BY <1>4 DEF Typing!Step
<1>5. CASE o.op \in {"block", "loop", "if"}
  BY <1>5 DEF Typing!Step
<1>6. CASE o.op = "else"
  BY <1>6 DEF Typing!Step
<1>7. CASE o.op = "end"
  BY <1>7 DEF Typing!Step
<1>8. CASE o.op = "br"
  BY <1>8 DEF Typing!Step
<1>9. CASE o.op = "br_if"
  BY <1>9 DEF Typing!Step
<1>10. CASE o.op = "br_table"
  BY <1>10 DEF Typing!Step
<1>11. CASE o.op = "return"
  BY <1>11 DEF Typing!Step
<1>12. CASE o.op = "return_call"
  BY <1>12 DEF Typing!Step
<1>13. CASE o.op \in {"unsupported", "none"}
  BY <1>13 DEF Typing!Step
<1>14. QED
  BY <1>1, <1>2, <1>3, <1>4, <1>5, <1>6, <1>7, <1>8, <1>9, <1>10, <1>11, <1>12, <1>13

LEMMA SameCells ==
  ASSUME NEW ts \in Seq(ValueTypes)
  PROVE  ts \in Seq(Cell) /\ Len(ts) \in Nat
<1>1. ts \in Seq(Cell)
  BY SeqMonotonic DEF Cell
<1>2. QED
  BY <1>1, LenProperties

LEMMA PartsTyped ==
  ASSUME Shape(ref, csp), NEW L, NEW w, Parts(L, w)
  PROVE  /\ L \in Seq(Cell) /\ w \in Seq(Cell) /\ Top.base = Len(CellsOf(L))
         /\ AnyFirst(w, Top.poly) /\ Top \in Blocks /\ Top.poly \in BOOLEAN
BY TopKeeps DEF Parts, Blocks

LEMMA PlainMaps ==
  ASSUME Shape(ref, csp), NEW L, NEW w, Parts(L, w), NEW sig \in Signatures,
         NEW legal \in BOOLEAN, Plain(sig, legal)
  PROVE  Typing!Step(last') \/ Typing!GiveUp
<1>1. PICK ts \in Seq(Cell) : ts = sig.pops
  BY SignaturesTyped, SameCells
<1>2. PICK rs \in Seq(Cell) : rs = sig.pushes
  BY SignaturesTyped, SameCells
<1>3. PICK g \in BOOLEAN : g <=> legal /\ TakesTop(w, ts, Len(ts), Top.poly)
  OBVIOUS
<1>4. PICK u \in Seq(Cell) : u = Rest(w, Len(ts))
  BY PartsTyped, RestType, LenProperties
<1>5. PICK s : s = IF legal THEN PushAll(PopAll(Now, Top, ts), rs) ELSE Rejected
  OBVIOUS
<1>6. Does(s, g, L, u \o rs)
  <2>1. CASE legal
    <3>1. PICK q : q = PopAll(Now, Top, ts)
      OBVIOUS
    <3>2. Does(Now, TRUE, L, w)
      BY NowDoes
    <3>3. Does(q, TRUE /\ TakesTop(w, ts, Len(ts), Top.poly), L, Rest(w, Len(ts)))
      BY <3>1, <3>2, PartsTyped, PopAllDoes
    <3>4. Does(q, g, L, u)
      BY <1>3, <1>4, <2>1, <3>3 DEF Does
    <3>5. L \in Seq(Cell)
      BY PartsTyped
    <3>6. Does(PushAll(q, rs), g, L, u \o rs)
      BY <3>4, <3>5, PushAllDoes
    <3>7. QED
      BY <1>5, <2>1, <3>1, <3>6
  <2>2. CASE ~legal
    BY <1>3, <1>5, <2>2, RejectedDoes
  <2>3. QED
    BY <2>1, <2>2
<1>7. u \o rs \in Seq(Cell)
  BY CatType
<1>8. Settle(s, csp) /\ last' = [op |-> "plain", sig |-> sig, legal |-> legal]
  BY <1>1, <1>2, <1>5 DEF Plain, Checking
<1>9. Mapped(g, L \o (u \o rs), Ctrls(csp, ref))
  BY <1>6, <1>7, <1>8, SettleSameMaps
<1>10. PICK o : o = last'
  OBVIOUS
<1>11. o.op = "plain" /\ o.legal = legal /\ o.sig.pops = ts /\ o.sig.pushes = rs
  BY <1>1, <1>2, <1>8, <1>10
<1>12. Typing!Takes(Typing!Operands, ts) <=> TakesTop(w, ts, Len(ts), Top.poly)
  BY OperandsTyped, TakesTyped
<1>13. Typing!Below \o Typing!Left(Typing!Operands, ts) \o rs = L \o (u \o rs)
  <2>1. Typing!Left(w, ts) = u
    BY <1>4, TakesTyped
  <2>2. L \in Seq(Cell)
    BY PartsTyped
  <2>3. L \o u \o rs = L \o (u \o rs)
    BY <2>2, CatAssoc
  <2>4. QED
    BY <2>1, <2>3, OperandsTyped
<1>14. ASSUME Typing!Typed(g, L \o (u \o rs), Ctrls(csp, ref)) PROVE Typing!Plain(o)
  BY <1>3, <1>11, <1>12, <1>13, <1>14 DEF Typing!Plain, Typing!Typed
<1>15. QED
  BY <1>9, <1>10, <1>11, <1>14, StepIs DEF Mapped

\* What can be branched to is what the type system lets be branched to.
LEMMA BranchTyped ==
  ASSUME Shape(ref, csp), Rooted(csp), NEW L, NEW w, Parts(L, w), NEW n \in Nat, NEW u
  PROVE  Branches(u, n) <=> /\ n < Len(Ctrls(csp, ref))
                            /\ Typing!Takes(u, Typing!LabelTypes(Typing!Depth(n)))
<1>1. PICK m \in Nat \ {0} : m = Len(csp)
  BY TopKeeps
<1>2. Len(Ctrls(csp, ref)) = m
  BY <1>1, CtrlsAre
<1>3. n <= m - 1 <=> n < m
  BY <1>1
<1>4. CASE n < m
  <2>1. PICK ts : ts = LabelTypes(Target(n))
    OBVIOUS
  <2>2. Typing!LabelTypes(Typing!Depth(n)) = ts
    BY <1>1, <1>3, <1>4, <2>1, LabelTyped
  <2>3. Typing!Takes(u, ts) <=> TakesTop(u, ts, Len(ts), Top.poly)
    BY TakesTyped
  <2>4. QED
    BY <1>1, <1>2, <1>3, <1>4, <2>1, <2>2, <2>3 DEF Branches
<1>5. CASE ~(n < m)
  BY <1>1, <1>2, <1>3, <1>5 DEF Branches
<1>6. QED
  BY <1>4, <1>5

LEMMA UnreachableMaps ==
  ASSUME Shape(ref, csp), NEW L, NEW w, Parts(L, w), Unreachable
  PROVE  Typing!Step(last') \/ Typing!GiveUp
<1>1. SettleUnreachable(Now) /\ last' = [op |-> "unreachable"]
  BY DEF Unreachable, Checking
<1>2. Does(Now, TRUE, L, w) /\ w \in Seq(Cell)
  BY NowDoes DEF Parts
<1>3. MappedUnreached(TRUE)
  BY <1>1, <1>2, SettleUnreachableMaps
<1>4. PICK o : o = last'
  OBVIOUS
<1>5. o.op = "unreachable"
  BY <1>1, <1>4
<1>6. QED
  BY <1>3, <1>4, <1>5, StepIs DEF MappedUnreached

\* An opcode no walk goes on after: what the switch does not know, and the body's end.
LEMMA RefusedMaps ==
  ASSUME Shape(ref, csp), NEW L, NEW w, Parts(L, w), Unsupported \/ BodyEnds
  PROVE  Typing!Step(last') \/ Typing!GiveUp
<1>1. Settle(Rejected, csp) /\ (last' = [op |-> "unsupported"] \/ last' = [op |-> "none"])
  BY DEF Unsupported, BodyEnds, Checking
<1>2. Does(Rejected, FALSE, L, w) /\ w \in Seq(Cell)
  BY RejectedDoes DEF Parts
<1>3. Mapped(FALSE, L \o w, Ctrls(csp, ref))
  BY <1>1, <1>2, SettleSameMaps
<1>4. PICK o : o = last'
  OBVIOUS
<1>5. o.op \in {"unsupported", "none"}
  BY <1>1, <1>4
<1>6. QED
  BY <1>3, <1>4, <1>5, StepIs DEF Mapped, Typing!Typed

LEMMA BrMaps ==
  ASSUME Shape(ref, csp), Rooted(csp), NEW L, NEW w, Parts(L, w), NEW n \in Nat, Br(n)
  PROVE  Typing!Step(last') \/ Typing!GiveUp
<1>1. PICK s : s = CheckBr(Now, n, FALSE)
  OBVIOUS
<1>2. SettleUnreachable(s) /\ last' = [op |-> "br", depth |-> n]
  BY <1>1 DEF Br, Checking
<1>3. PICK g \in BOOLEAN : g <=> Branches(w, n)
  OBVIOUS
<1>5. PICK ts : ts = LabelTypes(Target(n))
  OBVIOUS
<1>6. PICK v : v = Rest(w, Len(ts)) \o ts
  OBVIOUS
<1>7. Does(s, g, L, v)
  <2>1. Does(Now, TRUE, L, w)
    BY NowDoes
  <2>2. Does(s, TRUE /\ Branches(w, n), L, v)
    BY <1>1, <1>5, <1>6, <2>1, PartsTyped, CheckBrDoes
  <2>3. QED
    BY <1>3, <2>2 DEF Does
<1>8. MappedUnreached(g)
  <2>1. PICK x : x \in Seq(Cell) /\ Does(s, g, L, x)
    <3>1. CASE Good(s)
      <4>1. g
        BY <1>7, <3>1, DoesGood
      <4>2. n <= Len(csp) - 1
        BY <1>3, <4>1 DEF Branches
      <4>3. ts \in Seq(Cell) /\ Len(ts) \in Nat
        BY <1>5, <4>2, LabelCells
      <4>4. Rest(w, Len(ts)) \in Seq(Cell)
        BY <4>3, PartsTyped, RestType
      <4>5. v \in Seq(Cell)
        BY <1>6, <4>3, <4>4, CatType
      <4>6. QED
        BY <1>7, <4>5
    <3>2. CASE ~Good(s)
      <4>1. s.outcome = "limit" \/ (s.outcome = "rejected" /\ ~g)
        BY <1>7, <3>2, FineIs DEF Does
      <4>2. Does(s, g, L, w) /\ w \in Seq(Cell)
        BY <4>1, PartsTyped DEF Does
      <4>3. QED
        BY <4>2
    <3>3. QED
      BY <3>1, <3>2
  <2>2. QED
    BY <1>2, <2>1, SettleUnreachableMaps
<1>9. PICK o : o = last'
  OBVIOUS
<1>10. o.op = "br" /\ o.depth = n
  BY <1>2, <1>9
<1>11. g <=> n < Len(Ctrls(csp, ref))
             /\ Typing!Takes(Typing!Operands, Typing!LabelTypes(Typing!Depth(n)))
  <2>1. Typing!Operands = w
    BY OperandsTyped
  <2>2. Branches(w, n) <=> /\ n < Len(Ctrls(csp, ref))
                           /\ Typing!Takes(w, Typing!LabelTypes(Typing!Depth(n)))
    BY BranchTyped
  <2>3. QED
    BY <1>3, <2>1, <2>2
<1>12. MappedUnreached(g) => Typing!Branch(n) \/ Typing!GiveUp
  BY <1>11 DEF MappedUnreached, Typing!Branch, Typing!Unreached, Typing!Typed
<1>13. QED
  BY <1>8, <1>9, <1>10, <1>12, StepIs

LEMMA DoesNot ==
  ASSUME NEW s, NEW g, NEW L, NEW v, NEW u, Does(s, g, L, v), ~g
  PROVE  Does(s, g, L, u)
BY DEF Does

LEMMA IntCell == "i32" \in Cell
BY TypesAssumption DEF Cell

LEMMA PopIntDoes ==
  ASSUME Shape(ref, csp), NEW L, NEW w, Parts(L, w)
  PROVE  /\ Does(Pop(Now, Top, "i32"), Fits(w, "i32", Top.poly), L, Rest(w, 1))
         /\ Rest(w, 1) \in Seq(Cell) /\ AnyFirst(Rest(w, 1), Top.poly)
<1>1. Does(Now, TRUE, L, w)
  BY NowDoes
<1>2. Does(Pop(Now, Top, "i32"), TRUE /\ Fits(w, "i32", Top.poly), L, Rest(w, 1))
  BY <1>1, PartsTyped, IntCell, PopDoes
<1>3. Rest(w, 1) \in Seq(Cell)
  BY PartsTyped, RestType
<1>4. AnyFirst(Rest(w, 1), Top.poly)
  BY PartsTyped, RestAnyFirst
<1>5. QED
  BY <1>2, <1>3, <1>4 DEF Does

LEMMA BrIfMaps ==
  ASSUME Shape(ref, csp), Rooted(csp), NEW L, NEW w, Parts(L, w), NEW n \in Nat, BrIf(n)
  PROVE  Typing!Step(last') \/ Typing!GiveUp
<1>1. PICK q : q = Pop(Now, Top, "i32")
  OBVIOUS
<1>2. PICK s : s = CheckBr(q, n, FALSE)
  OBVIOUS
<1>3. Settle(s, csp) /\ last' = [op |-> "br_if", depth |-> n]
  BY <1>1, <1>2 DEF BrIf, Checking
<1>4. PICK u : u \in Seq(Cell) /\ u = Rest(w, 1)
  BY PopIntDoes
<1>5. PICK e \in BOOLEAN : e <=> Fits(w, "i32", Top.poly)
  OBVIOUS
<1>6. PICK g \in BOOLEAN : g <=> e /\ Branches(u, n)
  OBVIOUS
<1>7. PICK ts : ts = LabelTypes(Target(n))
  OBVIOUS
<1>8. PICK v : v = Rest(u, Len(ts)) \o ts
  OBVIOUS
<1>9. Does(s, g, L, v)
  <2>1. Does(q, e, L, u)
    BY <1>1, <1>4, <1>5, PopIntDoes DEF Does
  <2>2. AnyFirst(u, Top.poly)
    BY <1>4, PopIntDoes
  <2>3. Does(s, e /\ Branches(u, n), L, v)
    BY <1>2, <1>4, <1>7, <1>8, <2>1, <2>2, PartsTyped, CheckBrDoes
  <2>4. QED
    BY <1>6, <2>3 DEF Does
<1>10. PICK o : o = last'
  OBVIOUS
<1>11. o.op = "br_if" /\ o.depth = n
  BY <1>3, <1>10
<1>12. PICK m : m = Len(Ctrls(csp, ref))
  OBVIOUS
<1>13. Branches(u, n) <=> n < m /\ Typing!Takes(u, Typing!LabelTypes(Typing!Depth(n)))
  BY <1>12, BranchTyped
<1>14. n < m <=> n <= Len(csp) - 1
  <2>1. Len(csp) \in Nat /\ m = Len(csp)
    BY <1>12, TopKeeps, CtrlsAre
  <2>2. QED
    BY <2>1
<1>15. ASSUME n < m
       PROVE  /\ ts \in Seq(Cell) /\ Len(ts) \in Nat /\ Typing!LabelTypes(Typing!Depth(n)) = ts
              /\ Typing!Takes(w, Append(ts, "i32")) <=> g
  <2>1. n <= Len(csp) - 1
    BY <1>14, <1>15
  <2>2. ts \in Seq(Cell) /\ Len(ts) \in Nat
    BY <1>7, <2>1, LabelCells
  <2>3. Typing!LabelTypes(Typing!Depth(n)) = ts
    BY <1>7, <2>1, LabelTyped
  <2>4. PICK k : k = Append(ts, "i32")
    OBVIOUS
  <2>5. TakesTop(w, k, Len(k), Top.poly)
          <=> Fits(w, "i32", Top.poly) /\ TakesTop(Rest(w, 1), ts, Len(ts), Top.poly)
    BY <2>2, <2>4, IntCell, PartsTyped, TakesAppend
  <2>6. Typing!Takes(w, k) <=> TakesTop(w, k, Len(k), Top.poly)
    BY TakesTyped
  <2>7. Typing!Takes(u, ts) <=> TakesTop(u, ts, Len(ts), Top.poly)
    BY TakesTyped
  <2>8. QED
    BY <1>4, <1>5, <1>6, <1>13, <1>15, <2>2, <2>3, <2>4, <2>5, <2>6, <2>7
<1>16. Typing!Operands = w /\ Typing!Below = L
  BY OperandsTyped
<1>17. CASE g
  <2>1. n < m
    BY <1>6, <1>13, <1>17
  <2>2. ts \in Seq(Cell) /\ Len(ts) \in Nat
    BY <1>15, <2>1
  <2>3. PICK x : x \in Seq(Cell) /\ x = Rest(u, Len(ts))
    BY <1>4, <2>2, RestType
  <2>4. v = x \o ts /\ v \in Seq(Cell)
    BY <1>8, <2>2, <2>3, CatType
  <2>5. Mapped(g, L \o v, Ctrls(csp, ref))
    BY <1>3, <1>9, <2>4, SettleSameMaps
  <2>6. Typing!Left(w, <<"i32">>) = u
    <3>1. Len(<<"i32">>) = 1
      OBVIOUS
    <3>2. Typing!Left(w, <<"i32">>) = Rest(w, Len(<<"i32">>))
      BY TakesTyped
    <3>3. QED
      BY <1>4, <3>1, <3>2
  <2>7. Typing!Left(u, ts) = x
    BY <2>3, TakesTyped
  <2>8. L \o x \o ts = L \o v
    <3>1. L \in Seq(Cell) /\ x \in Seq(Cell) /\ ts \in Seq(Cell)
      BY <2>2, <2>3, PartsTyped
    <3>2. (L \o x) \o ts = L \o (x \o ts)
      <4>1. Associates(L, x, ts)
        BY <3>1, CatAssociates, Zenon
      <4>2. QED
        BY <4>1 DEF Associates
    <3>3. QED
      BY <2>4, <3>2
  <2>9. ASSUME Typing!Typed(g, L \o v, Ctrls(csp, ref)) PROVE Typing!BranchIf(n)
    <3>1. Typing!Go(L \o v, Ctrls(csp, ref))
      BY <1>17, <2>9 DEF Typing!Typed
    <3>2. Typing!Takes(w, Append(ts, "i32")) /\ Typing!LabelTypes(Typing!Depth(n)) = ts
      BY <1>15, <1>17, <2>1
    <3>3. QED
      BY <1>12, <1>16, <2>1, <2>6, <2>7, <2>8, <3>1, <3>2 DEF Typing!BranchIf, Typing!Typed
  <2>10. QED
    BY <1>10, <1>11, <2>5, <2>9, StepIs DEF Mapped
<1>18. CASE ~g
  <2>1. Does(s, g, L, w) /\ w \in Seq(Cell)
    BY <1>9, <1>18, DoesNot, PartsTyped
  <2>2. Mapped(g, L \o w, Ctrls(csp, ref))
    BY <1>3, <2>1, SettleSameMaps
  <2>3. ASSUME Typing!Typed(g, L \o w, Ctrls(csp, ref)) PROVE Typing!BranchIf(n)
    <3>1. Typing!Refuse
      BY <1>18, <2>3 DEF Typing!Typed
    <3>2. ~(n < m /\ Typing!Takes(w, Append(Typing!LabelTypes(Typing!Depth(n)), "i32")))
      BY <1>15, <1>18
    <3>3. QED
      BY <1>12, <1>16, <3>1, <3>2 DEF Typing!BranchIf, Typing!Typed
  <2>4. QED
    BY <1>10, <1>11, <2>2, <2>3, StepIs DEF Mapped
<1>19. QED
  BY <1>17, <1>18

LEMMA RootTyped ==
  ASSUME Shape(ref, csp)
  PROVE  /\ csp[1].results \in Seq(Cell) /\ Ctrls(csp, ref)[1].results = csp[1].results
<1>1. Len(csp) \in Nat \ {0} /\ 1 \in 1 .. Len(csp)
  BY TopKeeps
<1>2. csp[1] \in Blocks
  BY <1>1, TopKeeps
<1>3. csp[1].results \in Seq(ValueTypes)
  BY <1>2 DEF Blocks
<1>4. csp[1].results \in Seq(Cell)
  BY <1>3, SameCells
<1>5. Ctrls(csp, ref)[1] = Ctrl(csp[1], ref)
  BY <1>1, CtrlsAre
<1>6. QED
  BY <1>4, <1>5, CtrlIs

LEMMA PopNowDoes ==
  ASSUME Shape(ref, csp), NEW L, NEW w, Parts(L, w), NEW ts \in Seq(Cell),
         NEW g \in BOOLEAN, g <=> TakesTop(w, ts, Len(ts), Top.poly)
  PROVE  Does(PopAll(Now, Top, ts), g, L, Rest(w, Len(ts)))
<1>1. Does(Now, TRUE, L, w)
  BY NowDoes
<1>2. Does(PopAll(Now, Top, ts), TRUE /\ TakesTop(w, ts, Len(ts), Top.poly), L, Rest(w, Len(ts)))
  BY <1>1, PartsTyped, PopAllDoes
<1>3. QED
  BY <1>2 DEF Does

LEMMA BrTableMaps ==
  ASSUME Shape(ref, csp), Rooted(csp), NEW L, NEW w, Parts(L, w),
         NEW k \in Nat, NEW ns \in [1 .. k -> Nat], BrTable(ns)
  PROVE  Typing!Step(last') \/ Typing!GiveUp
<1>1. PICK q : q = Pop(Now, Top, "i32")
  OBVIOUS
<1>2. PICK d \in BOOLEAN : d <=> \A i \in 1 .. k : ns[i] <= Len(csp) - 1
  OBVIOUS
<1>3. PICK s : s = IF d THEN CheckTargets(q, ns) ELSE Rejected
  OBVIOUS
<1>4. Len(ns) = k
  OBVIOUS
<1>5. SettleUnreachable(s) /\ last' = [op |-> "br_table", depths |-> ns]
  BY <1>1, <1>2, <1>3, <1>4 DEF BrTable, Checking
<1>6. PICK u : u \in Seq(Cell) /\ u = Rest(w, 1)
  BY PopIntDoes
<1>7. PICK e \in BOOLEAN : e <=> Fits(w, "i32", Top.poly)
  OBVIOUS
<1>8. PICK a \in BOOLEAN : a <=> \A i \in 1 .. k : Directs(u, ns, i)
  OBVIOUS
<1>9. PICK g \in BOOLEAN : g <=> e /\ d /\ a
  OBVIOUS
<1>10. Does(s, g, L, u)
  <2>1. CASE d
    <3>1. Does(q, e, L, u)
      BY <1>1, <1>6, <1>7, PopIntDoes DEF Does
    <3>2. AnyFirst(u, Top.poly)
      BY <1>6, PopIntDoes
    <3>3. Does(CheckTargets(q, ns), e /\ \A i \in 1 .. k : Directs(u, ns, i), L, u)
      BY <1>6, <3>1, <3>2, PartsTyped, CheckTargetsDoes
    <3>4. Does(CheckTargets(q, ns), g, L, u)
      BY <1>8, <1>9, <2>1, <3>3 DEF Does
    <3>5. QED
      BY <1>3, <2>1, <3>4
  <2>2. CASE ~d
    BY <1>3, <1>9, <2>2, RejectedDoes
  <2>3. QED
    BY <2>1, <2>2
<1>11. MappedUnreached(g)
  BY <1>5, <1>6, <1>10, SettleUnreachableMaps
<1>12. PICK o : o = last'
  OBVIOUS
<1>13. o.op = "br_table" /\ o.depths = ns
  BY <1>5, <1>12
<1>14. Typing!Operands = w
  BY OperandsTyped
<1>15. Typing!Takes(w, <<"i32">>) <=> e
  <2>1. PICK k1 : k1 = <<"i32">>
    OBVIOUS
  <2>2. Len(k1) = 1
    BY <2>1
  <2>3. Typing!Takes(w, k1) <=> TakesTop(w, k1, Len(k1), Top.poly)
    BY TakesTyped
  <2>4. TakesTop(w, k1, 1, Top.poly) <=> Fits(w, "i32", Top.poly)
    BY <2>1, IntCell, PartsTyped, TakesOne
  <2>5. QED
    BY <1>7, <2>1, <2>2, <2>3, <2>4
<1>16. Typing!Left(w, <<"i32">>) = u
  <2>1. Len(<<"i32">>) = 1
    OBVIOUS
  <2>2. Typing!Left(w, <<"i32">>) = Rest(w, Len(<<"i32">>))
    BY TakesTyped
  <2>3. QED
    BY <1>6, <2>1, <2>2
<1>17. PICK m \in Nat : m = Len(csp) /\ m = Len(Ctrls(csp, ref))
  BY TopKeeps, CtrlsAre
<1>18. d <=> \A i \in 1 .. k : ns[i] < m
  <2>1. \A i \in 1 .. k : ns[i] <= m - 1 <=> ns[i] < m
    OBVIOUS
  <2>2. QED
    BY <1>2, <1>17, <2>1
<1>19. ASSUME d
       PROVE  a <=> \A i \in 1 .. k :
                      /\ Len(Typing!LabelTypes(Typing!Depth(ns[i])))
                           = Len(Typing!LabelTypes(Typing!Depth(ns[k])))
                      /\ Typing!Takes(u, Typing!LabelTypes(Typing!Depth(ns[i])))
  <2>1. ASSUME NEW i \in 1 .. k
        PROVE  Typing!LabelTypes(Typing!Depth(ns[i])) = LabelTypes(Target(ns[i]))
    <3>1. ns[i] \in Nat /\ ns[i] <= Len(csp) - 1
      BY <1>2, <1>19
    <3>2. QED
      BY <3>1, LabelTyped
  <2>2. ASSUME NEW i \in 1 .. k
        PROVE  Directs(u, ns, i) <=>
                 /\ Len(Typing!LabelTypes(Typing!Depth(ns[i])))
                      = Len(Typing!LabelTypes(Typing!Depth(ns[k])))
                 /\ Typing!Takes(u, Typing!LabelTypes(Typing!Depth(ns[i])))
    <3>1. ns[i] \in Nat /\ ns[i] < m /\ k \in 1 .. k
      BY <1>18, <1>19
    <3>2. Branches(u, ns[i]) <=> /\ ns[i] < Len(Ctrls(csp, ref))
                                 /\ Typing!Takes(u, Typing!LabelTypes(Typing!Depth(ns[i])))
      BY <3>1, BranchTyped
    <3>3. Typing!LabelTypes(Typing!Depth(ns[i])) = LabelTypes(Target(ns[i]))
      BY <2>1
    <3>4. Typing!LabelTypes(Typing!Depth(ns[k])) = LabelTypes(Target(ns[k]))
      BY <2>1, <3>1
    <3>5. QED
      BY <1>4, <1>17, <3>1, <3>2, <3>3, <3>4 DEF Directs
  <2>3. QED
    BY <1>8, <2>2
<1>20. g <=> /\ Typing!Takes(Typing!Operands, <<"i32">>)
             /\ \A i \in 1 .. Len(ns) : ns[i] < Len(Ctrls(csp, ref))
             /\ \A i \in 1 .. Len(ns) :
                  /\ Len(Typing!LabelTypes(Typing!Depth(ns[i])))
                       = Len(Typing!LabelTypes(Typing!Depth(ns[Len(ns)])))
                  /\ Typing!Takes(Typing!Left(Typing!Operands, <<"i32">>),
                                  Typing!LabelTypes(Typing!Depth(ns[i])))
  BY <1>4, <1>9, <1>14, <1>15, <1>16, <1>17, <1>18, <1>19
<1>21. MappedUnreached(g) => Typing!BranchTable(ns) \/ Typing!GiveUp
  BY <1>20 DEF MappedUnreached, Typing!BranchTable, Typing!Unreached, Typing!Typed
<1>22. QED
  BY <1>11, <1>12, <1>13, <1>21, StepIs

LEMMA ReturnMaps ==
  ASSUME Shape(ref, csp), NEW L, NEW w, Parts(L, w), Return
  PROVE  Typing!Step(last') \/ Typing!GiveUp
<1>1. PICK ts : ts \in Seq(Cell) /\ ts = csp[1].results /\ ts = Ctrls(csp, ref)[1].results
  BY RootTyped
<1>2. PICK s : s = PopAll(Now, Top, ts)
  OBVIOUS
<1>3. SettleUnreachable(s) /\ last' = [op |-> "return"]
  BY <1>1, <1>2 DEF Return, Checking
<1>4. PICK g \in BOOLEAN : g <=> TakesTop(w, ts, Len(ts), Top.poly)
  OBVIOUS
<1>5. PICK u : u \in Seq(Cell) /\ u = Rest(w, Len(ts))
  BY <1>1, PartsTyped, RestType, LenProperties
<1>6. Does(s, g, L, u)
  BY <1>1, <1>2, <1>4, <1>5, PopNowDoes
<1>7. MappedUnreached(g)
  BY <1>3, <1>5, <1>6, SettleUnreachableMaps
<1>8. PICK o : o = last'
  OBVIOUS
<1>9. o.op = "return"
  BY <1>3, <1>8
<1>10. g <=> Typing!Takes(Typing!Operands, Ctrls(csp, ref)[1].results)
  BY <1>1, <1>4, OperandsTyped, TakesTyped
<1>11. MappedUnreached(g) => Typing!Return \/ Typing!GiveUp
  BY <1>10 DEF MappedUnreached, Typing!Return, Typing!Unreached, Typing!Typed
<1>12. QED
  BY <1>7, <1>8, <1>9, <1>11, StepIs

LEMMA ReturnCallMaps ==
  ASSUME Shape(ref, csp), NEW L, NEW w, Parts(L, w),
         NEW sig \in CallSigs \cup CallIndirectSigs, ReturnCall(sig)
  PROVE  Typing!Step(last') \/ Typing!GiveUp
<1>1. PICK ts : ts \in Seq(Cell) /\ ts = sig.pops
  BY SignaturesTyped, SameCells
<1>2. PICK s : s = PopAll(Now, Top, ts)
  OBVIOUS
<1>3. PICK e \in BOOLEAN : e <=> sig.pushes = csp[1].results
  OBVIOUS
<1>4. PICK q : q = IF Good(s) /\ ~e THEN Rejected ELSE s
  OBVIOUS
<1>5. /\ SettleUnreachable(q)
      /\ last' = [op |-> "return_call", pops |-> sig.pops, results |-> sig.pushes]
  BY <1>1, <1>2, <1>3, <1>4 DEF ReturnCall, Checking
<1>6. PICK f \in BOOLEAN : f <=> TakesTop(w, ts, Len(ts), Top.poly)
  OBVIOUS
<1>7. PICK g \in BOOLEAN : g <=> f /\ e
  OBVIOUS
<1>8. PICK u : u \in Seq(Cell) /\ u = Rest(w, Len(ts))
  BY <1>1, PartsTyped, RestType, LenProperties
<1>9. Does(s, f, L, u)
  BY <1>1, <1>2, <1>6, <1>8, PopNowDoes
<1>10. Does(q, g, L, u)
  <2>1. CASE Good(s) /\ ~e
    BY <1>4, <1>7, <2>1, RejectedDoes
  <2>2. CASE Good(s) /\ e
    BY <1>4, <1>7, <1>9, <2>2 DEF Does
  <2>3. CASE ~Good(s)
    <3>1. s.outcome = "limit" \/ (s.outcome = "rejected" /\ ~f)
      BY <1>9, <2>3, FineIs DEF Does
    <3>2. QED
      BY <1>4, <1>7, <2>3, <3>1 DEF Does
  <2>4. QED
    BY <2>1, <2>2, <2>3
<1>11. MappedUnreached(g)
  BY <1>5, <1>8, <1>10, SettleUnreachableMaps
<1>12. PICK o : o = last'
  OBVIOUS
<1>13. o.op = "return_call" /\ o.pops = ts /\ o.results = sig.pushes
  BY <1>1, <1>5, <1>12
<1>14. Ctrls(csp, ref)[1].results = csp[1].results
  BY RootTyped
<1>15. g <=> Typing!Takes(Typing!Operands, ts) /\ sig.pushes = Ctrls(csp, ref)[1].results
  BY <1>3, <1>6, <1>7, <1>14, OperandsTyped, TakesTyped
<1>16. MappedUnreached(g) => Typing!TailCall(ts, sig.pushes) \/ Typing!GiveUp
  BY <1>15 DEF MappedUnreached, Typing!TailCall, Typing!Unreached, Typing!Typed
<1>17. QED
  BY <1>11, <1>12, <1>13, <1>16, StepIs

LEMMA RestOfNone ==
  ASSUME NEW w \in Seq(Cell), w = << >>, NEW k \in Nat
  PROVE  Rest(w, k) = << >>
<1>1. Len(w) = 0
  OBVIOUS
<1>2. PICK u : u = Rest(w, k)
  OBVIOUS
<1>3. u \in Seq(Cell) /\ Len(u) = IF Len(w) <= k THEN 0 ELSE Len(w) - k
  BY <1>2, RestType
<1>4. Len(u) = 0
  BY <1>1, <1>3
<1>5. u = << >>
  BY <1>3, <1>4, EmptySeq
<1>6. QED
  BY <1>2, <1>5

\* The cell on top tells the value on top.
LEMMA TopValue ==
  ASSUME NEW L \in Seq(Cell), NEW w \in Seq(Cell), w # << >>,
         NEW r, r = CellsOf(L) \o CellsOf(w)
  PROVE  /\ Last(r) = w[Len(w)] /\ w[Len(w)] \in Cell /\ Len(r) > Len(CellsOf(L))
         /\ PopCells(r, Width(w[Len(w)])) = CellsOf(L) \o CellsOf(Rest(w, 1))
<1>1. PICK u : \E y \in Cell : u \in Seq(Cell) /\ w = Append(u, y)
  BY SequenceEmptyOrAppend
<1>2. PICK x : x \in Cell /\ u \in Seq(Cell) /\ w = Append(u, x)
  BY <1>1
<1>3. Len(u) \in Nat /\ Len(w) = Len(u) + 1 /\ w[Len(w)] = x
  BY <1>2, AppendProperties, LenProperties
<1>4. Rest(w, 1) = u
  <2>1. u \o <<x>> = w /\ <<x>> \in Seq(Cell)
    BY <1>2, AppendIsConcat
  <2>2. Len(w) - Typing!Fewer(Len(w), 1) = Len(u)
    BY <1>3 DEF Typing!Fewer
  <2>3. SubSeq(u \o <<x>>, 1, Len(u)) = u
    BY <1>2, <2>1, CatLower
  <2>4. QED
    BY <2>1, <2>2, <2>3 DEF Rest
<1>5. PICK a : a = CellsOf(L)
  OBVIOUS
<1>6. PICK d : d = CellsOf(u)
  OBVIOUS
<1>7. PICK k : k = Copies(x)
  OBVIOUS
<1>8. a \in Seq(Cell) /\ d \in Seq(Cell)
  BY <1>2, <1>5, <1>6, CellsOfType
<1>9. /\ k \in Seq(Cell) /\ Len(k) \in Nat /\ Len(k) >= 1 /\ k[Len(k)] = x
      /\ Len(k) = Width(x)
  BY <1>2, <1>7, CopiesOf
<1>10. CellsOf(w) = d \o k
  BY <1>2, <1>6, <1>7, CellsOfAppend
<1>11. PICK b : b = a \o d
  OBVIOUS
<1>12. b \in Seq(Cell) /\ Len(b) = Len(a) + Len(d) /\ Len(a) \in Nat /\ Len(d) \in Nat
  BY <1>8, <1>11, CatType
<1>13. r = b \o k
  <2>1. a \in Seq(Cell) /\ d \in Seq(Cell) /\ k \in Seq(Cell)
    BY <1>8, <1>9
  <2>2. (a \o d) \o k = a \o (d \o k)
    <3>1. Associates(a, d, k)
      BY <2>1, CatAssociates, Zenon
    <3>2. QED
      BY <3>1 DEF Associates
  <2>3. QED
    BY <1>5, <1>10, <1>11, <2>2
<1>14. Len(r) = Len(b) + Len(k) /\ r[Len(b) + Len(k)] = k[Len(k)]
  <2>1. Len(k) \in 1 .. Len(k)
    BY <1>9
  <2>2. QED
    BY <1>9, <1>12, <1>13, <2>1, CatType
<1>15. Last(r) = x
  BY <1>9, <1>14 DEF Last
<1>16. Len(r) > Len(a)
  BY <1>9, <1>12, <1>14
<1>17. PopCells(r, Len(k)) = b
  <2>1. Len(r) - Len(k) = Len(b)
    BY <1>9, <1>12, <1>14
  <2>2. SubSeq(b \o k, 1, Len(b)) = b
    BY <1>9, <1>12, CatLower
  <2>3. QED
    BY <1>13, <2>1, <2>2 DEF PopCells
<1>18. QED
  BY <1>2, <1>3, <1>4, <1>5, <1>6, <1>9, <1>11, <1>15, <1>16, <1>17

LEMMA DropMaps ==
  ASSUME Shape(ref, csp), NEW L, NEW w, Parts(L, w), Drop
  PROVE  Typing!Step(last') \/ Typing!GiveUp
<1>1. PICK s : s = IF Available > 0 THEN Fine(PopCells(ref, Width(Last(ref))))
                   ELSE IF Top.poly THEN Now ELSE Rejected
  OBVIOUS
<1>2. Settle(s, csp) /\ last' = [op |-> "drop"]
  BY <1>1 DEF Drop, Checking
<1>3. L \in Seq(Cell) /\ w \in Seq(Cell) /\ Top.base = Len(CellsOf(L)) /\ Top.poly \in BOOLEAN
  BY PartsTyped
<1>4. PICK u : u \in Seq(Cell) /\ u = Rest(w, 1)
  BY <1>3, RestType
<1>5. PICK g \in BOOLEAN : g <=> w # << >> \/ Top.poly
  OBVIOUS
<1>6. Does(s, g, L, u) /\ SubSeq(w, 1, Len(w) - 1) = u
  <2>1. CASE w # << >>
    <3>1. ref = CellsOf(L) \o CellsOf(w)
      BY DEF Parts
    <3>2. /\ Last(ref) = w[Len(w)] /\ Len(ref) > Len(CellsOf(L))
          /\ PopCells(ref, Width(w[Len(w)])) = CellsOf(L) \o CellsOf(Rest(w, 1))
      BY <1>3, <2>1, <3>1, TopValue
    <3>3. Available > 0
      <4>1. Len(ref) \in Nat /\ Len(CellsOf(L)) \in Nat
        BY <1>3, CellsOfType, LenProperties DEF Shape, Typed
      <4>2. QED
        BY <1>3, <3>2, <4>1 DEF Available
    <3>4. s = Fine(CellsOf(L) \o CellsOf(u))
      BY <1>1, <1>4, <3>2, <3>3
    <3>5. Len(w) \in Nat /\ Len(w) # 0
      BY <1>3, <2>1, LenProperties, EmptySeq
    <3>6. Typing!Fewer(Len(w), 1) = 1
      <4>1. PICK n \in Nat : n = Len(w)
        BY <3>5
      <4>2. n # 0
        BY <3>5, <4>1
      <4>3. Typing!Fewer(n, 1) = 1
        BY <4>2 DEF Typing!Fewer
      <4>4. QED
        BY <4>1, <4>3
    <3>7. SubSeq(w, 1, Len(w) - 1) = u
      BY <1>4, <3>6 DEF Rest
    <3>8. QED
      BY <1>5, <2>1, <3>4, <3>7 DEF Does
  <2>2. CASE w = << >>
    <3>1. u = w
      BY <1>3, <1>4, <2>2, RestOfNone
    <3>2. Does(Now, TRUE, L, w)
      BY NowDoes
    <3>3. ~(Available > 0)
      <4>1. PICK a : a = CellsOf(L)
        OBVIOUS
      <4>2. a \in Seq(Cell) /\ Len(a) \in Nat
        BY <1>3, <4>1, CellsOfType
      <4>3. ref = a
        BY <2>2, <4>1, <4>2, CellsOfEmpty, CatEmpty DEF Parts
      <4>4. QED
        BY <1>3, <4>1, <4>2, <4>3 DEF Available
    <3>4. Does(s, g, L, u)
      <4>1. CASE Top.poly
        BY <1>1, <1>5, <3>1, <3>2, <3>3, <4>1 DEF Does
      <4>2. CASE ~Top.poly
        BY <1>1, <1>5, <2>2, <3>3, <4>2, RejectedDoes
      <4>3. QED
        BY <4>1, <4>2
    <3>5. SubSeq(w, 1, Len(w) - 1) = << >>
      <4>1. Len(w) = 0 /\ Len(w) - 1 = -1
        BY <2>2
      <4>2. PICK n \in Int : n = Len(w) - 1
        BY <4>1
      <4>3. n <= Len(w) /\ ~(1 <= n)
        BY <4>1, <4>2
      <4>4. SubSeq(w, 1, n) \in Seq(Cell) /\ Len(SubSeq(w, 1, n)) = 0
        BY <1>3, <4>3, CutType
      <4>5. QED
        BY <4>2, <4>4, EmptySeq
    <3>6. QED
      BY <2>2, <3>1, <3>4, <3>5
  <2>3. QED
    BY <2>1, <2>2
<1>7. Mapped(g, L \o u, Ctrls(csp, ref))
  BY <1>2, <1>4, <1>6, SettleSameMaps
<1>8. PICK o : o = last'
  OBVIOUS
<1>9. o.op = "drop"
  BY <1>2, <1>8
<1>10. Typing!Operands = w /\ Typing!Below = L
  BY OperandsTyped
<1>11. Typing!Top.unreachable = Top.poly
  BY TopTyped, CtrlIs
<1>12. ASSUME Typing!Typed(g, L \o u, Ctrls(csp, ref)) PROVE Typing!Drop
  BY <1>5, <1>6, <1>10, <1>11, <1>12 DEF Typing!Drop, Typing!Typed
<1>13. QED
  BY <1>7, <1>8, <1>9, <1>12, StepIs DEF Mapped

LEMMA LimitMaps ==
  ASSUME NEW s, s.outcome = "limit", NEW bs, Settle(s, bs)
  PROVE  Typing!GiveUp
<1>1. ref' = << >> /\ csp' = << >> /\ verdict' = "limit"
  BY DEF Settle, Good
<1>2. QED
  BY <1>1, EmptyValues, EmptyCtrls DEF Typing!GiveUp

LEMMA SelectTypesAre ==
  ASSUME Shape(ref, csp), NEW L, NEW w, Parts(L, w), NEW x \in Cell
  PROVE  x \in Typing!SelectTypes <=> /\ Fits(w, "i32", Top.poly)
                                      /\ Fits(Rest(w, 1), x, Top.poly)
                                      /\ Fits(Rest(w, 2), x, Top.poly)
<1>1. PICK k : k = <<x, x, "i32">>
  OBVIOUS
<1>2. Len(k) = 3
  BY <1>1
<1>3. Typing!Takes(w, k) <=> TakesTop(w, k, Len(k), Top.poly)
  BY TakesTyped
<1>4. TakesTop(w, k, 3, Top.poly) <=> /\ Fits(w, "i32", Top.poly)
                                      /\ Fits(Rest(w, 1), x, Top.poly)
                                      /\ Fits(Rest(w, 2), x, Top.poly)
  BY <1>1, IntCell, PartsTyped, TakesSelect
<1>5. Typing!Operands = w
  BY OperandsTyped
<1>6. x \in Typing!SelectTypes <=> Typing!Takes(w, k)
  BY <1>1, <1>5 DEF Typing!SelectTypes, Cell
<1>7. QED
  BY <1>2, <1>3, <1>4, <1>6

\* The type of what select leaves.
Chosen(t) == /\ t \in Typing!SelectTypes
             /\ t = AnyType \/ \A x \in Typing!SelectTypes : x = t

LEMMA NothingSelected ==
  ASSUME Shape(ref, csp), NEW L, NEW w, Parts(L, w),
         \A x \in Cell : ~(/\ Fits(w, "i32", Top.poly) /\ Fits(Rest(w, 1), x, Top.poly)
                           /\ Fits(Rest(w, 2), x, Top.poly))
  PROVE  Typing!SelectTypes = {}
<1>1. \A x \in Typing!SelectTypes : x \in Cell
  BY DEF Typing!SelectTypes, Cell
<1>2. \A x \in Cell : x \notin Typing!SelectTypes
  BY SelectTypesAre
<1>3. QED
  BY <1>1, <1>2

\* The outcome of select once the condition is popped from the stack, to s.
SelectFrom(s) == IF ~Good(s) THEN s
                 ELSE IF Len(s.cells) > Top.base
                 THEN PushAll(PopAll(s, Top, <<Last(s.cells), Last(s.cells)>>), <<Last(s.cells)>>)
                 ELSE SelectFromEmpty(s)

\* What is left is of the type chosen, and there is none when select is refused.
Selects(f, L, w) == \/ f.outcome = "limit"
                    \/ \E t \in Cell, g \in BOOLEAN :
                         /\ Does(f, g, L, Append(Rest(w, 3), t))
                         /\ g => Chosen(t)
                         /\ ~g => Typing!SelectTypes = {}

LEMMA SelectsFromSome ==
  ASSUME Shape(ref, csp), NEW L, NEW w, Parts(L, w), NEW s, Good(s),
         Fits(w, "i32", Top.poly), NEW u \in Seq(Cell), u = Rest(w, 1), u # << >>,
         Does(s, TRUE, L, u)
  PROVE  Selects(SelectFrom(s), L, w)
<1>1. L \in Seq(Cell) /\ w \in Seq(Cell) /\ Top.base = Len(CellsOf(L)) /\ Top.poly \in BOOLEAN
  BY PartsTyped
<1>2. s.cells = CellsOf(L) \o CellsOf(u)
  BY DoesGood
<1>3. PICK t \in Cell : t = u[Len(u)] /\ t = Last(s.cells)
  BY <1>1, <1>2, TopValue
<1>4. Len(s.cells) > Top.base
  BY <1>1, <1>2, TopValue
<1>5. PICK k : k \in Seq(Cell) /\ k = <<t, t>>
  <2>1. <<t, t>> \in Seq(Cell)
    OBVIOUS
  <2>2. QED
    BY <2>1
<1>6. PICK q : q = PopAll(s, Top, k)
  OBVIOUS
<1>7. SelectFrom(s) = Push(q, t)
  <2>1. SelectFrom(s) = PushAll(q, <<t>>)
    BY <1>3, <1>4, <1>5, <1>6 DEF SelectFrom
  <2>2. QED
    BY <2>1, PushAllOne
<1>8. PICK z : z \in Seq(Cell) /\ z = Rest(u, 1) /\ z = Rest(w, 2)
  <2>1. Rest(Rest(w, 1), 1) = Rest(w, 1 + 1)
    BY <1>1, RestRest
  <2>2. Rest(u, 1) \in Seq(Cell)
    BY RestType
  <2>3. QED
    BY <2>1, <2>2
<1>9. PICK v : v \in Seq(Cell) /\ v = Rest(u, 2) /\ v = Rest(w, 3)
  <2>1. Rest(Rest(w, 1), 2) = Rest(w, 1 + 2)
    BY <1>1, RestRest
  <2>2. Rest(u, 2) \in Seq(Cell)
    BY RestType
  <2>3. QED
    BY <2>1, <2>2
<1>10. PICK g \in BOOLEAN : g <=> Fits(z, t, Top.poly)
  OBVIOUS
<1>11. Fits(u, t, Top.poly)
  BY <1>3 DEF Fits
<1>12. Does(q, g, L, v)
  <2>1. Len(k) = 2
    BY <1>5
  <2>2. Does(q, TRUE /\ TakesTop(u, k, Len(k), Top.poly), L, Rest(u, Len(k)))
    BY <1>1, <1>5, <1>6, PopAllDoes
  <2>3. TakesTop(u, k, 2, Top.poly) <=> Fits(u, t, Top.poly) /\ Fits(Rest(u, 1), t, Top.poly)
    BY <1>1, <1>5, TakesTwo
  <2>4. TakesTop(u, k, 2, Top.poly) <=> g
    BY <1>8, <1>10, <1>11, <2>3
  <2>5. QED
    BY <1>9, <2>1, <2>2, <2>4 DEF Does
<1>13. Does(SelectFrom(s), g, L, Append(v, t))
  BY <1>1, <1>7, <1>9, <1>12, PushDoes
<1>14. \A x \in Cell : x \in Typing!SelectTypes <=> Fits(u, x, Top.poly) /\ Fits(z, x, Top.poly)
  BY <1>8, SelectTypesAre
<1>15. \A x \in Typing!SelectTypes : x \in Cell
  BY DEF Typing!SelectTypes, Cell
<1>16. CASE t # AnyType
  <2>1. \A x \in Typing!SelectTypes : x = t
    BY <1>3, <1>14, <1>15, <1>16 DEF Fits
  <2>2. t \in Typing!SelectTypes <=> g
    BY <1>10, <1>11, <1>14
  <2>3. g => Chosen(t)
    BY <2>1, <2>2 DEF Chosen
  <2>4. ~g => Typing!SelectTypes = {}
    BY <2>1, <2>2
  <2>5. QED
    BY <1>9, <1>13, <2>3, <2>4 DEF Selects
<1>17. CASE t = AnyType
  <2>1. PICK n \in Nat : n = Len(u)
    BY LenProperties
  <2>2. AnyFirst(u, Top.poly)
    BY PopIntDoes
  <2>3. n \in 1 .. n
    <3>1. n # 0
      BY <2>1, EmptySeq
    <3>2. QED
      BY <3>1
  <2>4. n = 1 /\ Top.poly
    BY <1>3, <1>17, <2>1, <2>2, <2>3 DEF AnyFirst
  <2>5. z = << >>
    <3>1. Len(z) = IF n <= 1 THEN 0 ELSE n - 1
      BY <1>8, <2>1, RestType
    <3>2. QED
      BY <1>8, <2>4, <3>1, EmptySeq
  <2>6. g
    BY <1>10, <2>4, <2>5 DEF Fits
  <2>7. t \in Typing!SelectTypes
    BY <1>10, <1>11, <1>14, <2>6
  <2>8. Chosen(t)
    BY <1>17, <2>7 DEF Chosen
  <2>9. QED
    BY <1>9, <1>13, <2>6, <2>8 DEF Selects
<1>18. QED
  BY <1>16, <1>17

LEMMA SelectsFromNone ==
  ASSUME Shape(ref, csp), NEW L, NEW w, Parts(L, w), NEW s, Good(s),
         Fits(w, "i32", Top.poly), NEW u \in Seq(Cell), u = Rest(w, 1), u = << >>,
         Does(s, TRUE, L, u)
  PROVE  Selects(SelectFrom(s), L, w)
<1>1. L \in Seq(Cell) /\ w \in Seq(Cell) /\ Top.base = Len(CellsOf(L)) /\ Top.poly \in BOOLEAN
  BY PartsTyped
<1>2. Len(s.cells) = Top.base /\ Len(s.cells) \in Nat
  <2>1. PICK a : a = CellsOf(L)
    OBVIOUS
  <2>2. a \in Seq(Cell) /\ Len(a) \in Nat
    BY <1>1, <2>1, CellsOfType
  <2>3. s.cells = a
    <3>1. s.cells = a \o CellsOf(u)
      BY <2>1, DoesGood
    <3>2. QED
      BY <2>2, <3>1, CellsOfEmpty, CatEmpty
  <2>4. QED
    BY <1>1, <2>1, <2>2, <2>3
<1>3. SelectFrom(s) = IF Top.poly THEN Push(s, AnyType) ELSE Rejected
  BY <1>2 DEF SelectFrom, SelectFromEmpty
<1>4. PICK t \in Cell : t = AnyType
  BY DEF Cell
<1>5. Rest(w, 2) = u /\ Rest(w, 3) = u
  <2>1. Rest(Rest(w, 1), 1) = Rest(w, 1 + 1)
    BY <1>1, RestRest
  <2>2. Rest(Rest(w, 1), 2) = Rest(w, 1 + 2)
    BY <1>1, RestRest
  <2>3. Rest(u, 1) = << >>
    BY RestOfNone
  <2>4. Rest(u, 2) = << >>
    BY RestOfNone
  <2>5. QED
    BY <2>1, <2>2, <2>3, <2>4
<1>6. \A x : Fits(u, x, Top.poly) <=> Top.poly
  BY DEF Fits
<1>7. CASE Top.poly
  <2>1. Does(Push(s, t), TRUE, L, Append(u, t))
    BY <1>1, PushDoes
  <2>2. Does(SelectFrom(s), TRUE, L, Append(Rest(w, 3), t))
    BY <1>3, <1>4, <1>5, <1>7, <2>1
  <2>3. t \in Typing!SelectTypes
    BY <1>5, <1>6, <1>7, SelectTypesAre
  <2>4. Chosen(t)
    BY <1>4, <2>3 DEF Chosen
  <2>5. QED
    BY <2>2, <2>4 DEF Selects
<1>8. CASE ~Top.poly
  <2>1. \A x \in Cell : ~Fits(Rest(w, 1), x, Top.poly)
    BY <1>6, <1>8
  <2>2. Typing!SelectTypes = {}
    BY <2>1, NothingSelected
  <2>3. Does(SelectFrom(s), FALSE, L, Append(Rest(w, 3), t))
    BY <1>3, <1>8, RejectedDoes
  <2>4. QED
    BY <2>2, <2>3 DEF Selects
<1>9. QED
  BY <1>7, <1>8

LEMMA SelectMaps ==
  ASSUME Shape(ref, csp), NEW L, NEW w, Parts(L, w), Select
  PROVE  Typing!Step(last') \/ Typing!GiveUp
<1>1. PICK s : s = Pop(Now, Top, "i32")
  OBVIOUS
<1>2. PICK f : f = SelectFrom(s)
  OBVIOUS
<1>3. Settle(f, csp) /\ last' = [op |-> "select"]
  BY <1>1, <1>2 DEF Select, Checking, SelectFrom
<1>4. PICK u : u \in Seq(Cell) /\ u = Rest(w, 1)
  BY PopIntDoes
<1>5. PICK e \in BOOLEAN : e <=> Fits(w, "i32", Top.poly)
  OBVIOUS
<1>6. Does(s, e, L, u)
  BY <1>1, <1>4, <1>5, PopIntDoes DEF Does
<1>7. Selects(f, L, w)
  <2>1. CASE Good(s)
    <3>1. e
      BY <1>6, <2>1, DoesGood
    <3>2. Does(s, TRUE, L, u)
      BY <1>6, <3>1 DEF Does
    <3>3. CASE u # << >>
      BY <1>2, <1>4, <1>5, <2>1, <3>1, <3>2, <3>3, SelectsFromSome
    <3>4. CASE u = << >>
      BY <1>2, <1>4, <1>5, <2>1, <3>1, <3>2, <3>4, SelectsFromNone
    <3>5. QED
      BY <3>3, <3>4
  <2>2. CASE ~Good(s)
    <3>1. f = s
      BY <1>2, <2>2 DEF SelectFrom
    <3>2. s.outcome = "limit" \/ (s.outcome = "rejected" /\ ~e)
      BY <1>6, <2>2, FineIs DEF Does
    <3>3. CASE s.outcome = "limit"
      BY <3>1, <3>3 DEF Selects
    <3>4. CASE s.outcome = "rejected" /\ ~e
      <4>1. Typing!SelectTypes = {}
        BY <1>5, <3>4, NothingSelected
      <4>2. Does(f, FALSE, L, Append(Rest(w, 3), "i32"))
        BY <3>1, <3>4 DEF Does
      <4>3. QED
        BY <4>1, <4>2, IntCell DEF Selects
    <3>5. QED
      BY <3>2, <3>3, <3>4
  <2>3. QED
    BY <2>1, <2>2
<1>8. PICK o : o = last'
  OBVIOUS
<1>9. o.op = "select"
  BY <1>3, <1>8
<1>10. CASE f.outcome = "limit"
  <2>1. Typing!GiveUp
    BY <1>3, <1>10, LimitMaps
  <2>2. QED
    BY <2>1
<1>11. CASE f.outcome # "limit"
  <2>1. PICK t \in Cell, g \in BOOLEAN :
          /\ Does(f, g, L, Append(Rest(w, 3), t))
          /\ g => Chosen(t)
          /\ ~g => Typing!SelectTypes = {}
    BY <1>7, <1>11 DEF Selects
  <2>2. PICK v : v = Append(Rest(w, 3), t)
    OBVIOUS
  <2>3. v \in Seq(Cell)
    <3>1. Rest(w, 3) \in Seq(Cell)
      BY PartsTyped, RestType
    <3>2. QED
      BY <2>2, <3>1, AppendProperties
  <2>4. Mapped(g, L \o v, Ctrls(csp, ref))
    BY <1>3, <2>1, <2>2, <2>3, SettleSameMaps
  <2>5. Typing!Below = L /\ Typing!Left(Typing!Operands, <<"i32", "i32", "i32">>) = Rest(w, 3)
    <3>1. PICK k : k = <<"i32", "i32", "i32">>
      OBVIOUS
    <3>2. Len(k) = 3
      BY <3>1
    <3>3. Typing!Left(w, k) = Rest(w, Len(k))
      BY TakesTyped
    <3>4. Typing!Below = L /\ Typing!Operands = w
      BY OperandsTyped
    <3>5. QED
      BY <3>1, <3>2, <3>3, <3>4
  <2>6. PICK y : y = IF AnyType \in Typing!SelectTypes THEN AnyType
                     ELSE CHOOSE x \in Typing!SelectTypes : TRUE
    OBVIOUS
  <2>7. g => y = t
    BY <2>1, <2>6 DEF Chosen
  <2>8. g <=> Typing!SelectTypes # {}
    BY <2>1 DEF Chosen
  <2>9. ASSUME Typing!Typed(g, L \o v, Ctrls(csp, ref)) PROVE Typing!Select
    <3>1. Typing!Select <=> Typing!Typed(Typing!SelectTypes # {},
                                         L \o Append(Rest(w, 3), y), Ctrls(csp, ref))
      BY <2>5, <2>6 DEF Typing!Select
    <3>2. CASE g
      BY <2>2, <2>7, <2>8, <2>9, <3>1, <3>2 DEF Typing!Typed
    <3>3. CASE ~g
      BY <2>8, <2>9, <3>1, <3>3 DEF Typing!Typed
    <3>4. QED
      BY <3>2, <3>3
  <2>10. QED
    BY <1>8, <1>9, <2>4, <2>9, StepIs DEF Mapped
<1>12. QED
  BY <1>10, <1>11

LEMMA OpenBlockMaps ==
  ASSUME Shape(ref, csp), NEW L, NEW w, Parts(L, w), NEW label \in {"block", "loop", "if"},
         NEW type \in BlockTypes, OpenBlock(label, type)
  PROVE  Typing!Step(last') \/ Typing!GiveUp
<1>1. type.params \in Seq(ValueTypes) /\ type.results \in Seq(ValueTypes)
  BY ValidatorAssumption
<1>2. PICK ps : ps \in Seq(Cell) /\ ps = type.params
  BY <1>1, SameCells
<1>3. PICK q : q = IF label = "if" THEN Pop(Now, Top, "i32") ELSE Now
  OBVIOUS
<1>4. PICK s1 : s1 = PopAll(q, Top, ps)
  OBVIOUS
<1>5. PICK s2 : s2 = IF Good(s1) /\ Len(csp) + 1 > MaxBlocks THEN Fails(s1, "limit") ELSE s1
  OBVIOUS
<1>6. PICK s : s = PushAll(s2, ps)
  OBVIOUS
<1>7. PICK b : b = Block(label, type, Len(s1.cells))
  OBVIOUS
<1>8. Settle(s, Append(csp, b)) /\ last' = [op |-> label, type |-> type]
  BY <1>2, <1>3, <1>4, <1>5, <1>6, <1>7 DEF OpenBlock, Checking
<1>9. PICK ts : ts \in Seq(Cell) /\ ts = IF label = "if" THEN Append(ps, "i32") ELSE ps
  <2>1. Append(ps, "i32") \in Seq(Cell)
    BY <1>2, IntCell, AppendProperties
  <2>2. QED
    BY <1>2, <2>1
<1>10. PICK u : u \in Seq(Cell) /\ u = Rest(w, Len(ts))
  BY <1>9, PartsTyped, RestType, LenProperties
<1>11. PICK g \in BOOLEAN : g <=> TakesTop(w, ts, Len(ts), Top.poly)
  OBVIOUS
<1>12. L \in Seq(Cell) /\ w \in Seq(Cell) /\ Top.base = Len(CellsOf(L)) /\ Top.poly \in BOOLEAN
  BY PartsTyped
<1>13. Does(s1, g, L, u)
  <2>1. CASE label # "if"
    BY <1>2, <1>3, <1>4, <1>9, <1>10, <1>11, <2>1, PopNowDoes
  <2>2. CASE label = "if"
    <3>1. PICK u1 : u1 \in Seq(Cell) /\ u1 = Rest(w, 1)
      BY PopIntDoes
    <3>2. PICK e \in BOOLEAN : e <=> Fits(w, "i32", Top.poly)
      OBVIOUS
    <3>3. Does(q, e, L, u1)
      BY <1>3, <2>2, <3>1, <3>2, PopIntDoes DEF Does
    <3>4. Does(s1, e /\ TakesTop(u1, ps, Len(ps), Top.poly), L, Rest(u1, Len(ps)))
      BY <1>2, <1>4, <1>12, <3>1, <3>3, PopAllDoes
    <3>5. g <=> e /\ TakesTop(u1, ps, Len(ps), Top.poly)
      <4>1. TakesTop(w, Append(ps, "i32"), Len(Append(ps, "i32")), Top.poly)
              <=> Fits(w, "i32", Top.poly) /\ TakesTop(Rest(w, 1), ps, Len(ps), Top.poly)
        BY <1>2, <1>12, IntCell, TakesAppend
      <4>2. QED
        BY <1>9, <1>11, <2>2, <3>1, <3>2, <4>1
    <3>6. Rest(u1, Len(ps)) = u
      <4>1. PICK m \in Nat : m = Len(ps)
        BY <1>2, LenProperties
      <4>2. Len(Append(ps, "i32")) = m + 1
        BY <1>2, <4>1, IntCell, LastFirst
      <4>3. Rest(Rest(w, 1), m) = Rest(w, 1 + m)
        BY <1>12, RestRest
      <4>4. 1 + m = m + 1
        OBVIOUS
      <4>5. QED
        BY <1>9, <1>10, <2>2, <3>1, <4>1, <4>2, <4>3, <4>4
    <3>7. QED
      BY <3>4, <3>5, <3>6 DEF Does
  <2>3. QED
    BY <2>1, <2>2
<1>14. PICK M : M = L \o u
  OBVIOUS
<1>15. M \in Seq(Cell)
  BY <1>10, <1>12, <1>14, CatType
<1>16. Does(s1, g, M, << >>)
  BY <1>10, <1>12, <1>13, <1>14, DoesLower
<1>17. Does(s2, g, M, << >>)
  <2>1. CASE Good(s1) /\ Len(csp) + 1 > MaxBlocks
    BY <1>5, <2>1 DEF Does, Fails
  <2>2. CASE ~(Good(s1) /\ Len(csp) + 1 > MaxBlocks)
    BY <1>5, <1>16, <2>2
  <2>3. QED
    BY <2>1, <2>2
<1>18. Does(s, g, M, ps)
  <2>1. PICK v : v \in Seq(Cell) /\ v = << >>
    <3>1. << >> \in Seq(Cell)
      OBVIOUS
    <3>2. QED
      BY <3>1
  <2>2. Does(s, g, M, v \o ps)
    BY <1>2, <1>6, <1>15, <1>17, <2>1, PushAllDoes
  <2>3. v \o ps = ps
    BY <1>2, <2>1, CatEmpty
  <2>4. QED
    BY <2>2, <2>3
<1>19. PICK cs : cs = Append(Ctrls(csp, ref), [label |-> label, params |-> ps,
                        results |-> type.results, height |-> Len(M), unreachable |-> FALSE])
  OBVIOUS
<1>20. ASSUME Good(s) PROVE Ctrls(Append(csp, b), s.cells) = cs
  <2>1. s.cells = CellsOf(M) \o CellsOf(ps)
    BY <1>18, <1>20, DoesGood
  <2>2. Good(s1)
    <3>1. Good(s2)
      BY <1>2, <1>6, <1>20, BadPop
    <3>2. QED
      BY <1>5, <3>1 DEF Fails, Good
  <2>3. PICK a : a = CellsOf(L)
    OBVIOUS
  <2>4. PICK d : d = CellsOf(u)
    OBVIOUS
  <2>5. PICK k : k = CellsOf(ps)
    OBVIOUS
  <2>6. a \in Seq(Cell) /\ d \in Seq(Cell) /\ k \in Seq(Cell)
    BY <1>2, <1>10, <1>12, <2>3, <2>4, <2>5, CellsOfType
  <2>7. CellsOf(M) = a \o d
    BY <1>10, <1>12, <1>14, <2>3, <2>4, CellsOfJoined
  <2>8. PICK x : x = a \o d
    OBVIOUS
  <2>9. x \in Seq(Cell) /\ Len(x) \in Nat
    BY <2>6, <2>8, CatType, LenProperties
  <2>10. b.base = Len(x)
    <3>1. s1.cells = x
      BY <1>13, <2>2, <2>3, <2>4, <2>8, DoesGood
    <3>2. QED
      BY <1>7, <3>1 DEF Block
  <2>11. csp \in Seq(Blocks)
    BY DEF Shape, Typed
  <2>12. b \in Blocks
    BY <1>1, <1>7, <2>9, <2>10 DEF Block, Blocks
  <2>13. PICK r : r = s.cells
    OBVIOUS
  <2>14. Ctrls(Append(csp, b), r) = Append(Ctrls(csp, r), Ctrl(b, r))
    BY <2>11, <2>12, CtrlsAppend
  <2>15. Ctrls(csp, r) = Ctrls(csp, ref)
    <3>1. PICK y : y \in Seq(Cell) /\ y = u \o ps
      BY <1>2, <1>10, CatType
    <3>2. CellsOf(y) = d \o k
      BY <1>2, <1>10, <2>4, <2>5, <3>1, CellsOfJoined
    <3>3. (a \o d) \o k = a \o (d \o k)
      <4>1. Associates(a, d, k)
        BY <2>6, CatAssociates, Zenon
      <4>2. QED
        BY <4>1 DEF Associates
    <3>4. r = CellsOf(L) \o CellsOf(y)
      BY <2>1, <2>3, <2>5, <2>7, <2>13, <3>2, <3>3
    <3>5. QED
      BY <3>1, <3>4, CtrlsKept
  <2>16. Ctrl(b, r) = [label |-> label, params |-> ps, results |-> type.results,
                       height |-> Len(M), unreachable |-> FALSE]
    <3>1. r = x \o k
      BY <2>1, <2>5, <2>7, <2>8, <2>13
    <3>2. SubSeq(x \o k, 1, Len(x)) = x
      BY <2>6, <2>9, CatLower
    <3>3. Reset(r, b) = CellsOf(M)
      BY <2>7, <2>8, <2>10, <3>1, <3>2 DEF Reset
    <3>4. Values(CellsOf(M)) = M
      BY <1>15, ValuesOfCells
    <3>5. /\ b.hasElse = FALSE /\ b.label = label /\ b.params = ps
          /\ b.results = type.results /\ b.poly = FALSE
      BY <1>2, <1>7 DEF Block
    <3>6. PICK h : h = Len(Values(Reset(r, b)))
      OBVIOUS
    <3>7. h = Len(M)
      BY <3>3, <3>4, <3>6
    <3>8. Ctrl(b, r) = [label |-> label, params |-> ps, results |-> type.results,
                        height |-> h, unreachable |-> FALSE]
      BY <3>5, <3>6 DEF Ctrl
    <3>9. QED
      BY <3>7, <3>8
  <2>17. QED
    BY <1>19, <2>13, <2>14, <2>15, <2>16
<1>21. Mapped(g, M \o ps, cs)
  BY <1>2, <1>8, <1>15, <1>18, <1>20, SettleMaps
<1>22. PICK o : o = last'
  OBVIOUS
<1>23. o.op = label /\ o.type = type /\ o.op \in {"block", "loop", "if"}
  BY <1>8, <1>22
<1>24. Typing!Operands = w /\ Typing!Below = L
  BY OperandsTyped
<1>25. Typing!Takes(w, ts) <=> g
  BY <1>11, TakesTyped
<1>26. Typing!Left(w, ts) = u
  BY <1>10, TakesTyped
<1>27. ASSUME Typing!Typed(g, M \o ps, cs) PROVE Typing!Open(label, type)
  <2>1. Typing!Open(label, type)
          <=> Typing!Typed(Typing!Takes(w, ts), (L \o u) \o ps,
                Append(Ctrls(csp, ref),
                       [label |-> label, params |-> ps, results |-> type.results,
                        height |-> Len(L \o u), unreachable |-> FALSE]))
    BY <1>2, <1>9, <1>24, <1>26 DEF Typing!Open
  <2>2. QED
    BY <1>14, <1>19, <1>25, <1>27, <2>1 DEF Typing!Typed
<1>28. QED
  BY <1>21, <1>22, <1>23, <1>27, StepIs DEF Mapped

\* What an else leaves: the parameters of the block, once its first branch ended.
LEMMA ElseStackDoes ==
  ASSUME NEW L \in Seq(Cell), NEW v \in Seq(Cell), NEW s, NEW c \in BOOLEAN, Does(s, c, L, v),
         Top \in Blocks, Top.base = Len(CellsOf(L))
  PROVE  /\ Does(IF Good(s) THEN ElseStack(s) ELSE s, c, L, Top.params)
         /\ Top.params \in Seq(Cell) /\ Top.results \in Seq(Cell)
<1>1. PICK ps : ps \in Seq(Cell) /\ ps = Top.params
  BY SameCells DEF Blocks
<1>2. Top.results \in Seq(Cell)
  BY SameCells DEF Blocks
<1>3. PICK z : z = IF Good(s) THEN Fine(Reset(s.cells, Top)) ELSE s
  OBVIOUS
<1>4. Does(z, c, L, << >>)
  BY <1>3, ResetDoes
<1>5. (IF Good(s) THEN ElseStack(s) ELSE s) = PushAll(z, ps)
  <2>1. CASE Good(s)
    BY <1>1, <1>3, <2>1 DEF ElseStack
  <2>2. CASE ~Good(s)
    BY <1>1, <1>3, <2>2, BadPop
  <2>3. QED
    BY <2>1, <2>2
<1>6. PICK e : e \in Seq(Cell) /\ e = << >>
  <2>1. << >> \in Seq(Cell)
    OBVIOUS
  <2>2. QED
    BY <2>1
<1>7. Does(PushAll(z, ps), c, L, e \o ps)
  BY <1>1, <1>4, <1>6, PushAllDoes
<1>8. e \o ps = ps
  BY <1>1, <1>6, CatEmpty
<1>9. QED
  BY <1>1, <1>2, <1>5, <1>7, <1>8

LEMMA ElseMaps ==
  ASSUME Shape(ref, csp), NEW L, NEW w, Parts(L, w), Else
  PROVE  Typing!Step(last') \/ Typing!GiveUp
<1>1. PICK d \in BOOLEAN : d <=> Top.label = "if" /\ ~Top.hasElse
  OBVIOUS
<1>2. L \in Seq(Cell) /\ w \in Seq(Cell) /\ Top.base = Len(CellsOf(L)) /\ Top \in Blocks
      /\ AnyFirst(w, Top.poly)
  BY PartsTyped
<1>3. d => Len(csp) >= 2
  <2>1. PICK m \in Nat \ {0} : m = Len(csp)
    BY TopKeeps
  <2>2. Top.label = "function" <=> m = 1
    BY <2>1, TopKeeps
  <2>3. d => m # 1
    BY <1>1, <2>2
  <2>4. QED
    BY <2>1, <2>3
<1>4. PICK s : s = IF d THEN CheckBlockStack(Now, Top) ELSE Rejected
  OBVIOUS
<1>5. PICK f : f = IF Good(s) THEN ElseStack(s) ELSE s
  OBVIOUS
<1>6. Settle(f, SetTop(ElseBlock)) /\ last' = [op |-> "else"]
  <2>1. Len(csp) < 2 \/ Top.label # "if" \/ Top.hasElse <=> ~d
    <3>1. Len(csp) \in Nat
      BY TopKeeps
    <3>2. QED
      BY <1>1, <1>3, <3>1
  <2>2. QED
    BY <1>4, <1>5, <2>1 DEF Else, Checking
<1>7. PICK rs : rs \in Seq(Cell) /\ rs = Top.results
  BY <1>2, SameCells DEF Blocks
<1>8. PICK t \in BOOLEAN : t <=> TakesWhole(w, rs, Top.poly)
  OBVIOUS
<1>9. PICK g \in BOOLEAN : g <=> d /\ t
  OBVIOUS
<1>10. Does(s, g, L, rs)
  <2>1. CASE d
    <3>1. Does(Now, TRUE, L, w)
      BY NowDoes
    <3>2. Does(s, TRUE /\ TakesWhole(w, rs, Top.poly), L, rs)
      BY <1>2, <1>4, <1>7, <2>1, <3>1, CheckBlockStackDoes
    <3>3. QED
      BY <1>8, <1>9, <2>1, <3>2 DEF Does
  <2>2. CASE ~d
    BY <1>4, <1>9, <2>2, RejectedDoes
  <2>3. QED
    BY <2>1, <2>2
<1>11. PICK ps : ps = Top.params
  OBVIOUS
<1>12. Does(f, g, L, ps) /\ ps \in Seq(Cell)
  BY <1>2, <1>5, <1>7, <1>10, <1>11, ElseStackDoes
<1>13. PICK b : b = ElseBlock
  OBVIOUS
<1>14. /\ b \in Blocks /\ b.base = Top.base /\ b.hasElse = TRUE /\ b.params = Top.params
       /\ b.results = Top.results /\ b.poly = FALSE
  BY <1>2, <1>13 DEF ElseBlock, Blocks
<1>15. Mapped(g, L \o ps, Append(Typing!Outer, Ctrl(b, ref)))
  BY <1>6, <1>12, <1>13, <1>14, SettleTopMaps
<1>16. PICK o : o = last'
  OBVIOUS
<1>17. o.op = "else"
  BY <1>6, <1>16
<1>18. PICK T : T = Typing!Top
  OBVIOUS
<1>19. T = Ctrl(Top, ref)
  BY <1>18, TopTyped
<1>20. T.label = "if" <=> d
  <2>1. T.label = IF Top.hasElse THEN "else" ELSE Top.label
    BY <1>19, CtrlIs
  <2>2. QED
    BY <1>1, <2>1
<1>21. T.params = ps /\ T.results = rs
  BY <1>7, <1>11, <1>19, CtrlIs
<1>22. Ctrl(b, ref) = [T EXCEPT !.label = "else", !.unreachable = FALSE]
  <2>1. PICK h : h = Len(Values(Reset(ref, Top)))
    OBVIOUS
  <2>2. Reset(ref, b) = Reset(ref, Top)
    BY <1>14 DEF Reset
  <2>3. PICK l : l = IF Top.hasElse THEN "else" ELSE Top.label
    OBVIOUS
  <2>4. PICK y : y = FALSE
    OBVIOUS
  <2>5. PICK z : z = Top.poly
    OBVIOUS
  <2>6. T = [label |-> l, params |-> ps, results |-> rs, height |-> h, unreachable |-> z]
    BY <1>7, <1>11, <1>19, <2>1, <2>3, <2>5 DEF Ctrl
  <2>7. [T EXCEPT !.label = "else", !.unreachable = y]
          = [label |-> "else", params |-> ps, results |-> rs, height |-> h, unreachable |-> y]
    <3>1. PICK U : U = [T EXCEPT !.label = "else"]
      OBVIOUS
    <3>2. U = [label |-> "else", params |-> ps, results |-> rs, height |-> h, unreachable |-> z]
      BY <2>6, <3>1
    <3>3. [U EXCEPT !.unreachable = y]
            = [label |-> "else", params |-> ps, results |-> rs, height |-> h, unreachable |-> y]
      BY <3>2
    <3>4. [T EXCEPT !.label = "else", !.unreachable = y] = [U EXCEPT !.unreachable = y]
      BY <2>6, <3>1
    <3>5. QED
      BY <3>3, <3>4
  <2>8. Ctrl(b, ref)
          = [label |-> "else", params |-> ps, results |-> rs, height |-> h, unreachable |-> y]
    BY <1>7, <1>11, <1>14, <2>1, <2>2, <2>4 DEF Ctrl
  <2>9. QED
    BY <2>4, <2>7, <2>8
<1>23. Typing!Operands = w /\ Typing!Below = L
  BY OperandsTyped
<1>24. Typing!TakesAll(w, rs) <=> t
  BY <1>8, TakesTyped
<1>25. ASSUME Typing!Typed(g, L \o ps, Append(Typing!Outer, Ctrl(b, ref))) PROVE Typing!Else
  <2>1. Typing!Else <=> Typing!Typed(d /\ t, L \o ps, Append(Typing!Outer, Ctrl(b, ref)))
    <3>1. T.label = "if" /\ Typing!TakesAll(Typing!Operands, T.results) <=> d /\ t
      BY <1>20, <1>21, <1>23, <1>24
    <3>2. QED
      BY <1>18, <1>21, <1>22, <1>23, <3>1 DEF Typing!Else, Typing!Typed
  <2>2. QED
    BY <1>9, <1>25, <2>1 DEF Typing!Typed
<1>26. QED
  BY <1>15, <1>16, <1>17, <1>25, StepIs DEF Mapped

LEMMA RefuseMaps ==
  ASSUME NEW s, s.outcome = "rejected", NEW bs, Settle(s, bs)
  PROVE  Typing!Refuse
<1>1. ref' = << >> /\ csp' = << >> /\ verdict' = "rejected"
  BY DEF Settle, Good
<1>2. QED
  BY <1>1, EmptyValues, EmptyCtrls DEF Typing!Refuse

LEMMA WholeIsSame ==
  ASSUME NEW ps \in Seq(ValueTypes), NEW rs \in Seq(Cell)
  PROVE  AnyFirst(ps, FALSE) /\ (TakesWhole(ps, rs, FALSE) <=> ps = rs)
<1>1. ps \in Seq(Cell)
  BY SameCells
<1>2. AnyFirst(ps, FALSE)
  <2>1. \A i \in 1 .. Len(ps) : ps[i] \in ValueTypes
    OBVIOUS
  <2>2. AnyType \notin ValueTypes
    BY TypesAssumption DEF AnyType
  <2>3. QED
    BY <2>1, <2>2 DEF AnyFirst
<1>3. PICK e : e \in Seq(Cell) /\ e = << >>
  <2>1. << >> \in Seq(Cell)
    OBVIOUS
  <2>2. QED
    BY <2>1
<1>4. e \o rs = rs
  BY <1>3, CatEmpty
<1>5. ASSUME TakesWhole(ps, rs, FALSE) PROVE ps = rs
  <2>1. TakesTop(ps, rs, Len(rs), FALSE) /\ Rest(ps, Len(rs)) = e
    BY <1>3, <1>5 DEF TakesWhole
  <2>2. ps = Rest(ps, Len(rs)) \o rs
    BY <1>1, <1>2, <2>1, TakenEnds
  <2>3. QED
    BY <1>4, <2>1, <2>2
<1>6. ASSUME ps = rs PROVE TakesWhole(ps, rs, FALSE)
  <2>1. TakesTop(e \o rs, rs, Len(rs), FALSE) /\ Rest(e \o rs, Len(rs)) = e
    BY <1>3, EndsTaken
  <2>2. QED
    BY <1>3, <1>4, <1>6, <2>1 DEF TakesWhole
<1>7. QED
  BY <1>2, <1>5, <1>6

\* The end of a block, and of the branch an if has not: its parameters are its results.
LEMMA EndDoes ==
  ASSUME Shape(ref, csp), NEW L, NEW w, Parts(L, w), NEW rs \in Seq(Cell), rs = Top.results,
         NEW i \in BOOLEAN, i <=> Top.label = "if" /\ ~Top.hasElse,
         NEW g \in BOOLEAN, g <=> TakesWhole(w, rs, Top.poly) /\ (i => Top.params = rs)
  PROVE  Does(EndWithElse(CheckBlockStack(Now, Top)), g, L, rs)
<1>1. /\ L \in Seq(Cell) /\ w \in Seq(Cell) /\ Top.base = Len(CellsOf(L)) /\ Top \in Blocks
      /\ AnyFirst(w, Top.poly)
  BY PartsTyped
<1>2. PICK s0 : s0 = CheckBlockStack(Now, Top)
  OBVIOUS
<1>3. PICK s : s = EndWithElse(s0)
  OBVIOUS
<1>4. PICK t \in BOOLEAN : t <=> TakesWhole(w, rs, Top.poly)
  OBVIOUS
<1>5. Does(s0, t, L, rs)
  <2>1. Does(Now, TRUE, L, w)
    BY NowDoes
  <2>2. Does(s0, TRUE /\ TakesWhole(w, rs, Top.poly), L, rs)
    BY <1>1, <1>2, <2>1, CheckBlockStackDoes
  <2>3. QED
    BY <1>4, <2>2 DEF Does
<1>6. CASE ~Good(s0)
  <2>1. s0.outcome = "limit" \/ (s0.outcome = "rejected" /\ ~t)
    BY <1>5, <1>6, FineIs DEF Does
  <2>2. s = s0
    BY <1>3, <1>6 DEF EndWithElse
  <2>3. Does(s, g, L, rs)
    BY <1>4, <2>1, <2>2 DEF Does
  <2>4. QED
    BY <1>2, <1>3, <2>3
<1>7. CASE Good(s0) /\ ~i
  <2>1. s = s0
    BY <1>3, <1>7 DEF EndWithElse
  <2>2. g <=> t
    BY <1>4, <1>7
  <2>3. QED
    BY <1>2, <1>3, <1>5, <2>1, <2>2
<1>8. CASE Good(s0) /\ i
  <2>1. PICK ps : ps \in Seq(ValueTypes) /\ ps = Top.params
    BY <1>1 DEF Blocks
  <2>2. PICK z : z = ElseStack(s0)
    OBVIOUS
  <2>3. Does(IF Good(s0) THEN ElseStack(s0) ELSE s0, t, L, Top.params)
    BY <1>1, <1>5, ElseStackDoes
  <2>4. Does(z, t, L, ps)
    BY <1>8, <2>1, <2>2, <2>3
  <2>5. PICK b : b = ElseBlock
    OBVIOUS
  <2>6. b \in Blocks /\ b.base = Len(CellsOf(L)) /\ b.results = rs /\ b.poly = FALSE
    BY <1>1, <2>5 DEF ElseBlock, Blocks
  <2>7. AnyFirst(ps, FALSE) /\ (TakesWhole(ps, rs, FALSE) <=> ps = rs)
    BY <2>1, WholeIsSame
  <2>8. ps \in Seq(Cell)
    BY <2>1, SameCells
  <2>9. Does(CheckBlockStack(z, b), t /\ TakesWhole(ps, b.results, b.poly), L, b.results)
    BY <1>1, <2>4, <2>6, <2>7, <2>8, CheckBlockStackDoes
  <2>10. g <=> t /\ TakesWhole(ps, b.results, b.poly)
    BY <1>4, <1>8, <2>1, <2>6, <2>7
  <2>11. s = CheckBlockStack(z, b)
    BY <1>3, <1>8, <2>2, <2>5 DEF EndWithElse
  <2>12. Does(s, g, L, rs)
    BY <2>6, <2>9, <2>10, <2>11 DEF Does
  <2>13. QED
    BY <1>2, <1>3, <2>12
<1>9. QED
  BY <1>6, <1>7, <1>8

LEMMA EndMaps ==
  ASSUME Shape(ref, csp), NEW L, NEW w, Parts(L, w), NEW more \in BOOLEAN, End(more)
  PROVE  Typing!Step(last') \/ Typing!GiveUp
<1>1. PICK rs : rs \in Seq(Cell) /\ rs = Top.results
  BY PartsTyped, SameCells DEF Blocks
<1>2. PICK i \in BOOLEAN : i <=> Top.label = "if" /\ ~Top.hasElse
  OBVIOUS
<1>3. PICK t \in BOOLEAN : t <=> TakesWhole(w, rs, Top.poly)
  OBVIOUS
<1>4. PICK g \in BOOLEAN : g <=> t /\ (i => Top.params = rs)
  OBVIOUS
<1>5. PICK s : s = EndWithElse(CheckBlockStack(Now, Top))
  OBVIOUS
<1>6. Does(s, g, L, rs)
  BY <1>1, <1>2, <1>3, <1>4, <1>5, EndDoes
<1>7. PICK e \in BOOLEAN : e <=> Len(csp) = 1
  OBVIOUS
<1>8. PICK f : f = IF Good(s) /\ e THEN Fails(s, IF more THEN "rejected" ELSE "accepted") ELSE s
  OBVIOUS
<1>9. Settle(f, Outer) /\ last' = [op |-> "end", more |-> more]
  BY <1>5, <1>7, <1>8 DEF End, Checking
<1>10. PICK o : o = last'
  OBVIOUS
<1>11. o.op = "end" /\ o.more = more
  BY <1>9, <1>10
<1>12. PICK m : m = Len(Ctrls(csp, ref))
  OBVIOUS
<1>13. m = 1 <=> e
  BY <1>7, <1>12, TopTyped
<1>14. PICK T : T = Typing!Top
  OBVIOUS
<1>15. T = Ctrl(Top, ref)
  BY <1>14, TopTyped
<1>16. T.label = "if" <=> i
  <2>1. T.label = IF Top.hasElse THEN "else" ELSE Top.label
    BY <1>15, CtrlIs
  <2>2. QED
    BY <1>2, <2>1
<1>17. T.params = Top.params /\ T.results = rs
  BY <1>1, <1>15, CtrlIs
<1>18. Typing!Operands = w /\ Typing!Below = L
  BY OperandsTyped
<1>19. Typing!TakesAll(w, rs) <=> t
  BY <1>3, TakesTyped
<1>20. PICK c \in BOOLEAN : c <=> /\ Typing!TakesAll(Typing!Operands, T.results)
                                  /\ T.label = "if" => T.params = T.results
                                  /\ m = 1 => ~more
  OBVIOUS
<1>21. c <=> g /\ (e => ~more)
  BY <1>4, <1>13, <1>16, <1>17, <1>18, <1>19, <1>20
<1>22. c /\ verdict' = (IF m = 1 THEN "accepted" ELSE "checking")
         /\ Values(ref') = (IF m = 1 THEN << >> ELSE L \o rs) /\ Ctrls(csp', ref') = Typing!Outer
       => Typing!End(more)
  BY <1>12, <1>14, <1>17, <1>18, <1>20 DEF Typing!End
<1>23. ~c /\ Typing!Refuse => Typing!End(more)
  BY <1>12, <1>14, <1>20 DEF Typing!End
<1>24. Typing!End(more) => Typing!Step(last')
  BY <1>10, <1>11, StepIs
<1>25. CASE ~e
  <2>1. Settle(s, Outer)
    BY <1>8, <1>9, <1>25
  <2>2. Mapped(g, L \o rs, Typing!Outer)
    BY <1>1, <1>6, <2>1, SettleOuterMaps
  <2>3. c <=> g
    BY <1>21, <1>25
  <2>4. CASE Typing!GiveUp
    BY <2>4
  <2>5. CASE Typing!Typed(g, L \o rs, Typing!Outer) /\ g
    <3>1. Typing!Go(L \o rs, Typing!Outer)
      BY <2>5 DEF Typing!Typed
    <3>2. verdict' = "checking" /\ Values(ref') = L \o rs /\ Ctrls(csp', ref') = Typing!Outer
      BY <3>1 DEF Typing!Go
    <3>3. QED
      BY <1>13, <1>22, <1>24, <1>25, <2>3, <2>5, <3>2
  <2>6. CASE Typing!Typed(g, L \o rs, Typing!Outer) /\ ~g
    <3>1. Typing!Refuse
      BY <2>6 DEF Typing!Typed
    <3>2. QED
      BY <1>23, <1>24, <2>3, <2>6, <3>1
  <2>7. QED
    BY <2>2, <2>4, <2>5, <2>6 DEF Mapped
<1>26. CASE e /\ ~Good(s)
  <2>1. f = s
    BY <1>8, <1>26
  <2>2. s.outcome = "limit" \/ (s.outcome = "rejected" /\ ~g)
    BY <1>6, <1>26, FineIs DEF Does
  <2>3. CASE s.outcome = "limit"
    <3>1. Typing!GiveUp
      BY <1>9, <2>1, <2>3, LimitMaps
    <3>2. QED
      BY <3>1
  <2>4. CASE s.outcome = "rejected" /\ ~g
    <3>1. Typing!Refuse
      BY <1>9, <2>1, <2>4, RefuseMaps
    <3>2. QED
      BY <1>21, <1>23, <1>24, <2>4, <3>1
  <2>5. QED
    BY <2>2, <2>3, <2>4
<1>27. CASE e /\ Good(s)
  <2>1. g
    BY <1>6, <1>27, DoesGood
  <2>2. CASE more
    <3>1. f.outcome = "rejected"
      BY <1>8, <1>27, <2>2 DEF Fails
    <3>2. Typing!Refuse
      BY <1>9, <3>1, RefuseMaps
    <3>3. ~c
      BY <1>21, <1>27, <2>2
    <3>4. QED
      BY <1>23, <1>24, <3>2, <3>3
  <2>3. CASE ~more
    <3>1. f.outcome = "accepted"
      BY <1>8, <1>27, <2>3 DEF Fails
    <3>2. verdict' = "accepted" /\ ref' = << >> /\ csp' = << >>
      BY <1>9, <3>1 DEF Settle, Good
    <3>3. Values(ref') = << >> /\ Ctrls(csp', ref') = << >>
      BY <3>2, EmptyValues, EmptyCtrls
    <3>4. Typing!Outer = << >>
      <4>1. PICK q : q = Outer
        OBVIOUS
      <4>2. q \in Seq(Blocks) /\ Len(q) = Len(csp) - 1
        BY <4>1, FrontOfSeq DEF Outer, Shape, Typed
      <4>3. Len(q) = 0
        BY <1>7, <1>27, <4>2
      <4>4. q = << >>
        BY <4>2, <4>3, EmptySeq
      <4>5. Ctrls(q, ref) = << >>
        BY <4>4, EmptyCtrls
      <4>6. QED
        BY <4>1, <4>5, CtrlsOuter
    <3>5. c /\ m = 1
      BY <1>13, <1>21, <1>27, <2>1, <2>3
    <3>6. QED
      BY <1>22, <1>24, <3>2, <3>3, <3>4, <3>5
  <2>4. QED
    BY <2>2, <2>3
<1>28. QED
  BY <1>25, <1>26, <1>27

-----------------------------------------------------------------------------
(* The function block is the first, its operands are the lowest, and only an *)
(* if has an else.                                                           *)

LEMMA RootedNone == Rooted(<< >>)
BY DEF Rooted

LEMMA RootedSettle ==
  ASSUME NEW s, NEW bs, Settle(s, bs), Good(s) => Rooted(bs)
  PROVE  Rooted(csp')
<1>1. CASE Good(s)
  BY <1>1 DEF Settle
<1>2. CASE ~Good(s)
  BY <1>2, RootedNone DEF Settle
<1>3. QED
  BY <1>1, <1>2

LEMMA RootedAppend ==
  ASSUME NEW bs \in Seq(Blocks), NEW b \in Blocks, Rooted(bs), b.hasElse => b.label = "if",
         bs = << >> => b.base = 0
  PROVE  Rooted(Append(bs, b))
<1>1. PICK n \in Nat : n = Len(bs)
  BY LenProperties
<1>2. PICK q : q = Append(bs, b)
  OBVIOUS
<1>3. Len(q) = n + 1 /\ q[n + 1] = b /\ \A i \in 1 .. n : q[i] = bs[i]
  BY <1>1, <1>2, AppendProperties
<1>4. q[1].base = 0
  <2>1. CASE n = 0
    <3>1. bs = << >>
      BY <1>1, <2>1, EmptySeq
    <3>2. b.base = 0
      BY <3>1
    <3>3. q[1] = b
      BY <1>3, <2>1
    <3>4. QED
      BY <3>2, <3>3
  <2>2. CASE n # 0
    <3>1. bs # << >> /\ 1 \in 1 .. n
      BY <1>1, <2>2
    <3>2. QED
      BY <1>3, <3>1 DEF Rooted
  <2>3. QED
    BY <2>1, <2>2
<1>5. \A i \in 1 .. Len(q) : q[i].hasElse => q[i].label = "if"
  <2>1. TAKE i \in 1 .. Len(q)
  <2>2. CASE i = n + 1
    BY <1>3, <2>2
  <2>3. CASE i # n + 1
    <3>1. i \in 1 .. n
      BY <1>3, <2>3
    <3>2. QED
      BY <1>1, <1>3, <3>1 DEF Rooted
  <2>4. QED
    BY <2>2, <2>3
<1>6. QED
  BY <1>2, <1>4, <1>5 DEF Rooted

LEMMA RootedOuter ==
  ASSUME Shape(ref, csp), Rooted(csp)
  PROVE  Outer \in Seq(Blocks) /\ Rooted(Outer) /\ (Outer = << >> => Top.base = 0)
<1>1. csp \in Seq(Blocks) /\ csp # << >>
  BY DEF Shape, Typed
<1>2. PICK n \in Nat \ {0} : n = Len(csp)
  BY TopKeeps
<1>3. PICK q : q = Outer
  OBVIOUS
<1>4. q \in Seq(Blocks) /\ Len(q) = n - 1 /\ \A i \in 1 .. n - 1 : q[i] = csp[i]
  BY <1>1, <1>2, <1>3, FrontOfSeq DEF Outer
<1>5. csp[1].base = 0
  BY <1>1 DEF Rooted
<1>6. q # << >> => q[1].base = 0
  <2>1. HAVE q # << >>
  <2>2. n - 1 # 0
    BY <1>4, <2>1, EmptySeq
  <2>3. 1 \in 1 .. n - 1
    BY <2>2
  <2>4. QED
    BY <1>4, <1>5, <2>3
<1>7. \A i \in 1 .. Len(q) : q[i].hasElse => q[i].label = "if"
  <2>1. TAKE i \in 1 .. Len(q)
  <2>2. i \in 1 .. n - 1 /\ i \in 1 .. n
    BY <1>4
  <2>3. QED
    BY <1>2, <1>4, <2>2 DEF Rooted
<1>8. q = << >> => Top.base = 0
  <2>1. HAVE q = << >>
  <2>2. n = 1
    BY <1>4, <2>1
  <2>3. QED
    BY <1>2, <1>5, <2>2 DEF Top
<1>9. QED
  BY <1>3, <1>4, <1>6, <1>7, <1>8 DEF Rooted

LEMMA RootedTop ==
  ASSUME Shape(ref, csp), Rooted(csp), NEW b \in Blocks, b.base = Top.base,
         b.hasElse => b.label = "if"
  PROVE  Rooted(SetTop(b))
BY RootedOuter, RootedAppend DEF SetTop

LEMMA RootedUnreachable ==
  ASSUME Shape(ref, csp), Rooted(csp), NEW s, SettleUnreachable(s)
  PROVE  Rooted(csp')
<1>1. PICK b : b = [Top EXCEPT !.poly = TRUE]
  OBVIOUS
<1>2. Top \in Blocks /\ (Top.hasElse => Top.label = "if")
  <2>1. Len(csp) \in 1 .. Len(csp) /\ Top = csp[Len(csp)] /\ Top \in Blocks
    BY TopKeeps
  <2>2. QED
    BY <2>1 DEF Rooted
<1>3. b \in Blocks /\ b.base = Top.base /\ (b.hasElse => b.label = "if")
  BY <1>1, <1>2 DEF Blocks
<1>4. Rooted(SetTop(b))
  BY <1>3, RootedTop
<1>5. Settle(IF Good(s) THEN Fine(Reset(s.cells, Top)) ELSE s, SetTop(b))
  BY <1>1 DEF SettleUnreachable
<1>6. QED
  BY <1>4, <1>5, RootedSettle

LEMMA InitRooted == Init => Rooted(csp)
<1>1. SUFFICES ASSUME Init PROVE Rooted(csp)
  OBVIOUS
<1>2. PICK f \in FuncTypes : csp = <<Block("function", [f EXCEPT !.params = << >>], 0)>>
  BY <1>1 DEF Init
<1>3. PICK b : b = Block("function", [f EXCEPT !.params = << >>], 0)
  OBVIOUS
<1>4. b.base = 0 /\ b.hasElse = FALSE
  BY <1>3 DEF Block
<1>5. csp = <<b>>
  BY <1>2, <1>3
<1>6. QED
  BY <1>4, <1>5 DEF Rooted

LEMMA StepRooted ==
  ASSUME Shape(ref, csp), Rooted(csp), Next
  PROVE  Rooted(csp')
<1>1. ASSUME NEW s, Settle(s, csp) PROVE Rooted(csp')
  BY <1>1, RootedSettle
<1>2. ASSUME NEW s, SettleUnreachable(s) PROVE Rooted(csp')
  BY <1>2, RootedUnreachable
<1>3. CASE \/ \E sig \in Signatures, legal \in BOOLEAN : Plain(sig, legal)
           \/ Unsupported \/ BodyEnds \/ Drop \/ Select \/ \E n \in Depths : BrIf(n)
  BY <1>1, <1>3 DEF Plain, Unsupported, BodyEnds, Drop, Select, BrIf
<1>4. CASE \/ Unreachable \/ Return
           \/ \E n \in Depths : Br(n)
           \/ \E k \in TableSizes : \E ns \in [1 .. k -> Depths] : BrTable(ns)
           \/ \E sig \in CallSigs \cup CallIndirectSigs : ReturnCall(sig)
  BY <1>2, <1>4 DEF Unreachable, Return, Br, BrTable, ReturnCall
<1>5. CASE Else
  <2>1. PICK s : s = IF Len(csp) < 2 \/ Top.label # "if" \/ Top.hasElse THEN Rejected
                     ELSE CheckBlockStack(Now, Top)
    OBVIOUS
  <2>2. PICK f : f = IF Good(s) THEN ElseStack(s) ELSE s
    OBVIOUS
  <2>3. Settle(f, SetTop(ElseBlock))
    BY <1>5, <2>1, <2>2 DEF Else
  <2>4. Good(f) => Rooted(SetTop(ElseBlock))
    <3>1. HAVE Good(f)
    <3>2. Good(s)
      BY <2>2, <3>1
    <3>3. Top.label = "if"
      BY <2>1, <3>2 DEF Rejected, Fails, Good
    <3>4. ElseBlock \in Blocks /\ ElseBlock.base = Top.base /\ ElseBlock.label = "if"
      BY <3>3, TopKeeps DEF ElseBlock, Blocks
    <3>5. QED
      BY <3>4, RootedTop
  <2>5. QED
    BY <2>3, <2>4, RootedSettle
<1>6. CASE \E label \in {"block", "loop", "if"}, type \in BlockTypes : OpenBlock(label, type)
  <2>1. PICK label \in {"block", "loop", "if"}, type \in BlockTypes : OpenBlock(label, type)
    BY <1>6
  <2>2. PICK s, q : Settle(s, Append(csp, Block(label, type, Len(q.cells))))
                    /\ q = PopAll(IF label = "if" THEN Pop(Now, Top, "i32") ELSE Now, Top, type.params)
    BY <2>1 DEF OpenBlock
  <2>3. PICK b : b = Block(label, type, Len(q.cells))
    OBVIOUS
  <2>4. type.params \in Seq(ValueTypes) /\ type.results \in Seq(ValueTypes)
    BY ValidatorAssumption
  <2>5. type.params \in Seq(Cell)
    BY <2>4, SameCells
  <2>6. Keeps(q, Top, ref)
    <3>1. PICK z : z = IF label = "if" THEN Pop(Now, Top, "i32") ELSE Now
      OBVIOUS
    <3>2. Keeps(z, Top, ref) /\ Top \in Blocks
      BY <3>1, PopIntKeeps
    <3>3. QED
      BY <2>2, <2>5, <3>1, <3>2, PopAllKeeps
  <2>7. Len(q.cells) \in Nat
    BY <2>6, LenProperties DEF Keeps, Stacks
  <2>8. b \in Blocks /\ b.hasElse = FALSE
    BY <2>3, <2>4, <2>7 DEF Block, Blocks
  <2>9. csp \in Seq(Blocks) /\ csp # << >>
    BY DEF Shape, Typed
  <2>10. Rooted(Append(csp, b))
    BY <2>8, <2>9, RootedAppend
  <2>11. QED
    BY <2>2, <2>3, <2>10, RootedSettle
<1>7. CASE \E more \in BOOLEAN : End(more)
  <2>1. PICK s : Settle(s, Outer)
    BY <1>7 DEF End
  <2>2. Rooted(Outer)
    BY RootedOuter
  <2>3. QED
    BY <2>1, <2>2, RootedSettle
<1>8. QED
  BY <1>3, <1>4, <1>5, <1>6, <1>7 DEF Next

LEMMA RootedKept == IInv /\ Rooted(csp) /\ [Next]_vars => Rooted(csp)'
<1>1. SUFFICES ASSUME IInv, Rooted(csp), [Next]_vars PROVE Rooted(csp')
  OBVIOUS
<1>2. CASE Next
  <2>1. verdict = "checking"
    BY <1>2 DEF Next, Plain, Unreachable, Unsupported, Else, BodyEnds, Return, Drop, Select,
                OpenBlock, End, Br, BrIf, BrTable, ReturnCall, Checking
  <2>2. Shape(ref, csp)
    BY <1>1, <2>1 DEF IInv
  <2>3. QED
    BY <1>1, <1>2, <2>2, StepRooted
<1>3. CASE UNCHANGED vars
  BY <1>1, <1>3 DEF vars
<1>4. QED
  BY <1>1, <1>2, <1>3

-----------------------------------------------------------------------------
(* The walk does what the type system does *)

LEMMA InitMaps == Init => Typing!Init
<1>1. SUFFICES ASSUME Init PROVE Typing!Init
  OBVIOUS
<1>2. PICK f \in FuncTypes :
        /\ ref = << >> /\ csp = <<Block("function", [f EXCEPT !.params = << >>], 0)>>
        /\ verdict = "checking" /\ last = [op |-> "none"]
  BY <1>1 DEF Init
<1>3. PICK b : b = Block("function", [f EXCEPT !.params = << >>], 0)
  OBVIOUS
<1>4. f \in [params : Seq(ValueTypes), results : Seq(ValueTypes)]
  BY TypesAssumption
<1>5. /\ b.label = "function" /\ b.params = << >> /\ b.results = f.results /\ b.base = 0
      /\ b.hasElse = FALSE /\ b.poly = FALSE
  BY <1>3, <1>4 DEF Block
<1>6. Reset(ref, b) = << >>
  <2>1. SubSeq(<< >>, 1, 0) = << >>
    OBVIOUS
  <2>2. QED
    BY <1>2, <1>5, <2>1 DEF Reset
<1>7. PICK h : h = Len(Values(Reset(ref, b)))
  OBVIOUS
<1>8. h = 0
  BY <1>6, <1>7, EmptyValues
<1>9. PICK c : c = Ctrl(b, ref)
  OBVIOUS
<1>10. c = [label |-> "function", params |-> << >>, results |-> f.results,
            height |-> h, unreachable |-> FALSE]
  BY <1>5, <1>7, <1>9 DEF Ctrl
<1>11. Ctrls(csp, ref) = <<c>>
  <2>1. csp = <<b>> /\ Len(<<b>>) = 1
    BY <1>2, <1>3
  <2>2. PICK k : k = Ctrls(csp, ref)
    OBVIOUS
  <2>3. k = [i \in 1 .. 1 |-> Ctrl(csp[i], ref)]
    BY <2>1, <2>2 DEF Ctrls
  <2>4. \A i \in 1 .. 1 : Ctrl(csp[i], ref) = c
    BY <1>9, <2>1
  <2>5. k = [i \in 1 .. 1 |-> c]
    BY <2>3, <2>4
  <2>6. QED
    BY <2>2, <2>5
<1>12. QED
  BY <1>2, <1>8, <1>10, <1>11, EmptyValues DEF Typing!Init

LEMMA StepMaps == IInv /\ Rooted(csp) /\ Next => Typing!Next
<1>1. SUFFICES ASSUME IInv, Rooted(csp), Next PROVE Typing!Next
  OBVIOUS
<1>2. verdict = "checking"
  BY <1>1 DEF Next, Plain, Unreachable, Unsupported, Else, BodyEnds, Return, Drop, Select,
              OpenBlock, End, Br, BrIf, BrTable, ReturnCall, Checking
<1>3. Shape(ref, csp)
  BY <1>1, <1>2 DEF IInv
<1>4. PICK L \in Seq(Cell), w \in Seq(Cell) : Parts(L, w)
  BY <1>1, <1>3, PartsExist
<1>5. SUFFICES Typing!Step(last') \/ Typing!GiveUp
  BY <1>2 DEF Typing!Next
<1>6. CASE \E sig \in Signatures, legal \in BOOLEAN : Plain(sig, legal)
  BY <1>3, <1>4, <1>6, PlainMaps
<1>7. CASE Unreachable
  BY <1>3, <1>4, <1>7, UnreachableMaps
<1>8. CASE Unsupported \/ BodyEnds
  BY <1>3, <1>4, <1>8, RefusedMaps
<1>9. CASE Else
  BY <1>3, <1>4, <1>9, ElseMaps
<1>10. CASE Return
  BY <1>3, <1>4, <1>10, ReturnMaps
<1>11. CASE Drop
  BY <1>3, <1>4, <1>11, DropMaps
<1>12. CASE Select
  BY <1>3, <1>4, <1>12, SelectMaps
<1>13. CASE \E label \in {"block", "loop", "if"}, type \in BlockTypes : OpenBlock(label, type)
  BY <1>3, <1>4, <1>13, OpenBlockMaps
<1>14. CASE \E more \in BOOLEAN : End(more)
  BY <1>3, <1>4, <1>14, EndMaps
<1>15. CASE \E n \in Depths : Br(n)
  BY <1>1, <1>3, <1>4, <1>15, BrMaps, ValidatorAssumption
<1>16. CASE \E n \in Depths : BrIf(n)
  BY <1>1, <1>3, <1>4, <1>16, BrIfMaps, ValidatorAssumption
<1>17. CASE \E k \in TableSizes : \E ns \in [1 .. k -> Depths] : BrTable(ns)
  <2>1. PICK k \in TableSizes : \E ns \in [1 .. k -> Depths] : BrTable(ns)
    BY <1>17
  <2>2. PICK ns \in [1 .. k -> Depths] : BrTable(ns)
    BY <2>1
  <2>3. k \in Nat /\ ns \in [1 .. k -> Nat]
    BY ValidatorAssumption
  <2>4. QED
    BY <1>1, <1>3, <1>4, <2>2, <2>3, BrTableMaps
<1>18. CASE \E sig \in CallSigs \cup CallIndirectSigs : ReturnCall(sig)
  BY <1>3, <1>4, <1>18, ReturnCallMaps
<1>19. QED
  BY <1>1, <1>6, <1>7, <1>8, <1>9, <1>10, <1>11, <1>12, <1>13, <1>14, <1>15, <1>16, <1>17, <1>18
     DEF Next

\* ImplementsTyping, for all types, limits and bodies: read as values, the cells of
\* frame_ref and the blocks of frame_csp start as the typing rules have it, and every
\* opcode that wasm_loader_prepare_bytecode accepts, or refuses, is accepted with the
\* same operands, or refused, by the typing rules, unless a limit of the loader is met.
THEOREM ValidatorImplementsTyping == Spec => ImplementsTyping
<1>1. IInv /\ Rooted(csp) /\ [Next]_vars => [Typing!Next]_(Typing!vars)
  <2>1. UNCHANGED vars => UNCHANGED Typing!vars
    BY DEF vars, Typing!vars
  <2>2. QED
    BY <2>1, StepMaps
<1>2. Spec => []Rooted(csp)
  BY InitRooted, RootedKept, ShapeInvariant, PTL DEF Spec
<1>3. QED
  BY <1>1, <1>2, InitMaps, ShapeInvariant, PTL DEF Spec, ImplementsTyping, Typing!Spec

=============================================================================
