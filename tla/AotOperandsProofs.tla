------------------------- MODULE AotOperandsProofs -------------------------
(***************************************************************************)
(* The operand stacks of the code generator, for all types, opcodes and    *)
(* bounds: they agree with the type system (OperandsInvariant), so that no *)
(* accepted body makes the compiler give up (FailsNever).                  *)
(***************************************************************************)
EXTENDS AotControl, SequenceTheorems, WellFoundedInduction, TLAPS

-----------------------------------------------------------------------------
(* The inductive invariant *)

BlockId == Nat \cup {None}
OpenBlocks ==
  [label : {"function", "block", "loop", "if"}, params : Seq(ValueTypes),
   results : Seq(ValueTypes), hasElse : BOOLEAN, past : BOOLEAN,
   skipElse : BOOLEAN, reachable : BOOLEAN, entry : BlockId, else : BlockId,
   end : BlockId, values : Seq(Values)]
BasicBlocks ==
  [ends : Nat, preds : Seq(Nat), phis : Nat, incoming : Seq(Nat), late : BOOLEAN]

\* The values s have the types ts.
Agree(s, ts) ==
  /\ s \in Seq(Values) /\ ts \in Seq(ValueTypes) /\ Len(s) = Len(ts)
  /\ \A i \in 1 .. Len(ts) : Compatible(s[i], ts[i])

\* An open block that can be left or entered again when the code asks for it:
\* an end reached exists, and so does an else not yet come to.
Opened(b) ==
  /\ b.reachable => b.end # None
  /\ b.hasElse => b.label = "if"
  /\ b.hasElse /\ ~b.past => b.skipElse \/ b.else # None

StackInv(bs, tss) ==
  /\ bs \in Seq(OpenBlocks) /\ tss \in Seq(Seq(ValueTypes)) /\ Len(bs) = Len(tss)
  /\ \A k \in 1 .. Len(bs) :
       /\ (k = 1) <=> (bs[k].label = "function")
       /\ Agree(bs[k].values, tss[k]) /\ Opened(bs[k])

OInv ==
  /\ StackInv(blocks, types)
  /\ outcome = "compiling" => blocks # << >>
  /\ outcome \in {"compiling", "compiled", "crashed"}
  /\ ir \in Seq(BasicBlocks) /\ at \in Nat /\ trap \in BlockId /\ sandbox \in BOOLEAN

-----------------------------------------------------------------------------
(* Values and their types *)

LEMMA AgreeEmpty == Agree(<< >>, << >>)
  BY EmptySeq DEF Agree

LEMMA AgreePhis ==
  ASSUME NEW ts \in Seq(ValueTypes)
  PROVE  Agree(Phis(ts), ts)
<1>. DEFINE n == Len(ts)
<1>1. n \in Nat /\ DOMAIN ts = 1 .. n /\ \A i \in 1 .. n : ts[i] \in ValueTypes
  BY LenProperties, ElementOfSeq
<1>2. \A i \in 1 .. n : Phi(ts[i]) \in Values /\ Compatible(Phi(ts[i]), ts[i])
  BY <1>1 DEF Phi, Values, ValueTypes, Compatible
<1>3. Phis(ts) \in [1 .. n -> Values]
  BY <1>1, <1>2 DEF Phis
<1>4. Phis(ts) \in Seq(Values) /\ Len(Phis(ts)) = n
  BY <1>1, <1>3
<1>5. QED
  BY <1>1, <1>2, <1>4 DEF Agree, Phis

LEMMA AgreeConcat ==
  ASSUME NEW s, NEW ts, NEW u, NEW us, Agree(s, ts), Agree(u, us)
  PROVE  Agree(s \o u, ts \o us)
<1>1. /\ s \in Seq(Values) /\ u \in Seq(Values)
      /\ ts \in Seq(ValueTypes) /\ us \in Seq(ValueTypes)
      /\ Len(s) = Len(ts) /\ Len(u) = Len(us)
  BY DEF Agree
<1>2. /\ s \o u \in Seq(Values) /\ ts \o us \in Seq(ValueTypes)
      /\ Len(s \o u) = Len(s) + Len(u) /\ Len(ts \o us) = Len(ts) + Len(us)
  BY <1>1, ConcatProperties
<1>3. ASSUME NEW i \in 1 .. Len(ts \o us) PROVE Compatible((s \o u)[i], (ts \o us)[i])
  <2>1. /\ (s \o u)[i] = IF i <= Len(s) THEN s[i] ELSE u[i - Len(s)]
        /\ (ts \o us)[i] = IF i <= Len(ts) THEN ts[i] ELSE us[i - Len(ts)]
    BY <1>1, <1>2, ConcatProperties
  <2>2. Len(s) \in Nat /\ Len(u) \in Nat
    BY <1>1, LenProperties
  <2>3. CASE i <= Len(s)
    BY <1>1, <2>1, <2>2, <2>3 DEF Agree
  <2>4. CASE ~(i <= Len(s))
    <3>1. i - Len(s) \in 1 .. Len(us)
      BY <1>1, <1>2, <2>2, <2>4
    <3>2. QED
      BY <1>1, <2>1, <2>4, <3>1 DEF Agree
  <2>5. QED
    BY <2>3, <2>4
<1>4. QED
  BY <1>1, <1>2, <1>3 DEF Agree

\* What remains below n values, and what is above.
LEMMA AgreeBelow ==
  ASSUME NEW s, NEW ts, Agree(s, ts), NEW n \in Nat, n <= Len(ts)
  PROVE  Agree(SubSeq(s, 1, n), SubSeq(ts, 1, n))
<1>1. /\ s \in Seq(Values) /\ ts \in Seq(ValueTypes) /\ Len(s) = Len(ts)
      /\ Len(s) \in Nat
  BY LenProperties DEF Agree
<1>2. \A i \in 1 .. n : s[i] \in Values /\ ts[i] \in ValueTypes /\ Compatible(s[i], ts[i])
  BY <1>1, ElementOfSeq DEF Agree
<1>3. /\ SubSeq(s, 1, n) \in Seq(Values) /\ SubSeq(ts, 1, n) \in Seq(ValueTypes)
      /\ Len(SubSeq(s, 1, n)) = n /\ Len(SubSeq(ts, 1, n)) = n
      /\ \A i \in 1 .. n : SubSeq(s, 1, n)[i] = s[i] /\ SubSeq(ts, 1, n)[i] = ts[i]
  <2>1. /\ SubSeq(s, 1, n) \in Seq(Values)
        /\ Len(SubSeq(s, 1, n)) = IF 1 <= n THEN n - 1 + 1 ELSE 0
        /\ \A i \in 1 .. n - 1 + 1 : SubSeq(s, 1, n)[i] = s[1 + i - 1]
    BY <1>2, SubSeqProperties
  <2>2. /\ SubSeq(ts, 1, n) \in Seq(ValueTypes)
        /\ Len(SubSeq(ts, 1, n)) = IF 1 <= n THEN n - 1 + 1 ELSE 0
        /\ \A i \in 1 .. n - 1 + 1 : SubSeq(ts, 1, n)[i] = ts[1 + i - 1]
    BY <1>2, SubSeqProperties
  <2>3. QED
    BY <2>1, <2>2
<1>4. QED
  BY <1>2, <1>3 DEF Agree

\* A suffix, place by place.
LEMMA SuffixPlaces ==
  ASSUME NEW S, NEW us \in Seq(S), NEW ts \in Seq(S), Len(us) <= Len(ts), IsSuffix(us, ts)
  PROVE  \A i \in 1 .. Len(us) : us[i] = ts[Len(ts) - Len(us) + i]
<1>. DEFINE m == Len(us)
            n == Len(ts)
            r == Reverse(us)
            q == Reverse(ts)
<1>1. m \in Nat /\ n \in Nat /\ m <= n
  BY LenProperties
<1>2. r = [i \in 1 .. m |-> us[m - i + 1]] /\ q = [i \in 1 .. n |-> ts[n - i + 1]]
  BY DEF Reverse
<1>3. Len(r) = m /\ \A i \in 1 .. m : r[i] = us[m - i + 1] /\ q[i] = ts[n - i + 1]
  BY <1>1, <1>2
<1>4. SubSeq(r, 1, m) = SubSeq(q, 1, m)
  BY <1>3 DEF IsSuffix, IsPrefix
<1>. HIDE DEF r, q
<1>5. \A i \in 1 .. m : SubSeq(r, 1, m)[i] = r[i] /\ SubSeq(q, 1, m)[i] = q[i]
  <2>1. \A i \in 1 .. m : r[i] \in {r[k] : k \in 1 .. m} /\ q[i] \in {q[k] : k \in 1 .. m}
    OBVIOUS
  <2>2. \A i \in 1 .. m - 1 + 1 : SubSeq(r, 1, m)[i] = r[1 + i - 1]
    BY <1>1, <2>1, SubSeqProperties
  <2>3. \A i \in 1 .. m - 1 + 1 : SubSeq(q, 1, m)[i] = q[1 + i - 1]
    BY <1>1, <2>1, SubSeqProperties
  <2>. HIDE DEF m
  <2>4. QED
    BY <1>1, <2>2, <2>3
<1>6. ASSUME NEW i \in 1 .. m PROVE us[i] = ts[n - m + i]
  <2>1. m - i + 1 \in 1 .. m /\ m - (m - i + 1) + 1 = i /\ n - (m - i + 1) + 1 = n - m + i
    BY <1>1
  <2>. HIDE DEF m, n
  <2>2. r[m - i + 1] = us[i] /\ q[m - i + 1] = ts[n - m + i]
    BY <1>3, <2>1
  <2>3. r[m - i + 1] = q[m - i + 1]
    BY <1>4, <1>5, <2>1
  <2>4. QED
    BY <2>2, <2>3
<1>7. QED
  BY <1>6

\* What the type system allows to be popped is there, and what is left agrees.
LEMMA PopsTyped ==
  ASSUME NEW s, NEW ts, Agree(s, ts), NEW us \in Seq(ValueTypes),
         Len(us) <= Len(ts), IsSuffix(us, ts)
  PROVE  /\ Pops(s, us)
         /\ Agree(Rest(s, us), Rest(ts, us)) /\ Agree(Popped(s, us), us)
<1>1. /\ s \in Seq(Values) /\ ts \in Seq(ValueTypes) /\ Len(s) = Len(ts)
      /\ Len(s) \in Nat /\ Len(us) \in Nat
  BY LenProperties DEF Agree
<1>. DEFINE p(i) == Len(s) - Len(us) + i
<1>2. ASSUME NEW i \in 1 .. Len(us)
      PROVE  p(i) \in 1 .. Len(ts) /\ us[i] = ts[p(i)] /\ us[i] \in ValueTypes
    BY <1>1, SuffixPlaces, ElementOfSeq
<1>3. ASSUME NEW i \in 1 .. Len(us)
      PROVE  s[p(i)] \in Values /\ Compatible(s[p(i)], us[i])
  BY <1>1, <1>2, ElementOfSeq DEF Agree
<1>4. Pops(s, us)
  BY <1>1, <1>3 DEF Pops
<1>5. Agree(Rest(s, us), Rest(ts, us))
  <2>1. Len(s) - Len(us) \in Nat /\ Len(s) - Len(us) <= Len(ts)
    BY <1>1
  <2>2. QED
    BY <1>1, <2>1, AgreeBelow DEF Rest
<1>6. Agree(Popped(s, us), us)
  <2>1. ASSUME NEW i \in 1 .. Len(us)
        PROVE  /\ [s[p(i)] EXCEPT !.type = us[i]] \in Values
               /\ Compatible([s[p(i)] EXCEPT !.type = us[i]], us[i])
    <3>1. PICK t \in {"i1", "i32", "i64"}, c \in BOOLEAN : s[p(i)] = [type |-> t, const |-> c]
      BY <1>3 DEF Values
    <3>2. [s[p(i)] EXCEPT !.type = us[i]] = [type |-> us[i], const |-> c]
      BY <3>1
    <3>3. QED
      BY <1>2, <3>2 DEF Values, ValueTypes, Compatible
  <2>2. Popped(s, us) = [i \in 1 .. Len(us) |-> [s[p(i)] EXCEPT !.type = us[i]]]
    BY DEF Popped
  <2>3. Popped(s, us) \in Seq(Values) /\ Len(Popped(s, us)) = Len(us)
    BY <1>1, <2>1, <2>2
  <2>4. \A i \in 1 .. Len(us) : Compatible(Popped(s, us)[i], us[i])
    BY <2>1, <2>2
  <2>5. QED
    BY <2>3, <2>4 DEF Agree
<1>7. QED
  BY <1>4, <1>5, <1>6

LEMMA PlacesSuffix ==
  ASSUME NEW S, NEW us \in Seq(S), NEW ts \in Seq(S), Len(us) <= Len(ts),
         \A i \in 1 .. Len(us) : us[i] = ts[Len(ts) - Len(us) + i]
  PROVE  IsSuffix(us, ts)
<1>. DEFINE m == Len(us)
            n == Len(ts)
            r == Reverse(us)
            q == Reverse(ts)
<1>1. m \in Nat /\ n \in Nat /\ m <= n
  BY LenProperties
<1>2. r = [i \in 1 .. m |-> us[m - i + 1]] /\ q = [i \in 1 .. n |-> ts[n - i + 1]]
  BY DEF Reverse
<1>3. /\ Len(r) = m /\ Len(q) = n
      /\ \A i \in 1 .. m : r[i] = us[m - i + 1] /\ q[i] = ts[n - i + 1]
  BY <1>1, <1>2
<1>4. ASSUME NEW i \in 1 .. m PROVE r[i] \in S /\ q[i] \in S /\ r[i] = q[i]
  <2>1. m - i + 1 \in 1 .. m /\ n - i + 1 \in 1 .. n /\ n - m + (m - i + 1) = n - i + 1
    BY <1>1
  <2>2. us[m - i + 1] = ts[n - m + (m - i + 1)]
    BY <2>1
  <2>3. us[m - i + 1] \in S /\ ts[n - i + 1] \in S
    BY <2>1, ElementOfSeq
  <2>4. QED
    BY <1>3, <2>1, <2>2, <2>3
<1>. HIDE DEF r, q, m, n
<1>5. SubSeq(r, 1, m) = SubSeq(q, 1, m)
  <2>1. /\ SubSeq(r, 1, m) \in Seq(S)
        /\ Len(SubSeq(r, 1, m)) = IF 1 <= m THEN m - 1 + 1 ELSE 0
        /\ \A i \in 1 .. m - 1 + 1 : SubSeq(r, 1, m)[i] = r[1 + i - 1]
    BY <1>1, <1>4, SubSeqProperties
  <2>2. /\ SubSeq(q, 1, m) \in Seq(S)
        /\ Len(SubSeq(q, 1, m)) = IF 1 <= m THEN m - 1 + 1 ELSE 0
        /\ \A i \in 1 .. m - 1 + 1 : SubSeq(q, 1, m)[i] = q[1 + i - 1]
    BY <1>1, <1>4, SubSeqProperties
  <2>3. \A i \in 1 .. m : SubSeq(r, 1, m)[i] = SubSeq(q, 1, m)[i]
    BY <1>1, <1>4, <2>1, <2>2
  <2>4. QED
    BY <1>1, <2>1, <2>2, <2>3, SeqEqual
<1>6. QED
  BY <1>1, <1>3, <1>5 DEF IsSuffix, IsPrefix, r, q

\* A sequence is what lies below a suffix of it and the suffix.
LEMMA RestAndSuffix ==
  ASSUME NEW S, NEW us \in Seq(S), NEW ts \in Seq(S), Len(us) <= Len(ts),
         \A i \in 1 .. Len(us) : us[i] = ts[Len(ts) - Len(us) + i]
  PROVE  Rest(ts, us) \o us = ts
<1>. DEFINE m == Len(us)
            n == Len(ts)
            r == SubSeq(ts, 1, n - m)
<1>1. m \in Nat /\ n \in Nat /\ m <= n /\ n - m \in Nat
  BY LenProperties
<1>2. \A i \in 1 .. n - m : ts[i] \in S
  BY <1>1, ElementOfSeq
<1>. HIDE DEF m, n
<1>3. r \in Seq(S) /\ Len(r) = n - m /\ \A i \in 1 .. n - m : r[i] = ts[i]
  <2>1. /\ SubSeq(ts, 1, n - m) \in Seq(S)
        /\ Len(SubSeq(ts, 1, n - m)) = IF 1 <= n - m THEN n - m - 1 + 1 ELSE 0
        /\ \A i \in 1 .. n - m - 1 + 1 : SubSeq(ts, 1, n - m)[i] = ts[1 + i - 1]
    BY <1>1, <1>2, SubSeqProperties
  <2>2. QED
    BY <1>1, <2>1
<1>. HIDE DEF r
<1>4. /\ r \o us \in Seq(S) /\ Len(r \o us) = Len(r) + Len(us)
      /\ \A i \in 1 .. Len(r) + Len(us) :
           (r \o us)[i] = IF i <= Len(r) THEN r[i] ELSE us[i - Len(r)]
  BY <1>3, ConcatProperties
<1>5. Len(us) = m /\ Len(ts) = n /\ \A i \in 1 .. m : us[i] = ts[n - m + i]
  BY DEF m, n
<1>6. ASSUME NEW i \in 1 .. n PROVE (r \o us)[i] = ts[i]
  <2>1. CASE i <= n - m
    BY <1>1, <1>3, <1>4, <1>5, <2>1
  <2>2. CASE ~(i <= n - m)
    <3>1. i - (n - m) \in 1 .. m /\ n - m + (i - (n - m)) = i
      BY <1>1, <2>2
    <3>2. (r \o us)[i] = us[i - (n - m)]
      BY <1>1, <1>3, <1>4, <1>5, <2>2
    <3>3. us[i - (n - m)] = ts[n - m + (i - (n - m))]
      BY <1>5, <3>1
    <3>4. QED
      BY <3>1, <3>2, <3>3
  <2>3. QED
    BY <2>1, <2>2
<1>7. r \o us = ts
  BY <1>1, <1>3, <1>4, <1>5, <1>6, SeqEqual
<1>8. QED
  BY <1>7 DEF Rest, r, m, n

LEMMA AllPops ==
  ASSUME NEW s, NEW ts, Agree(s, ts)
  PROVE  Pops(s, ts)
<1>1. Len(s) = Len(ts) /\ Len(ts) \in Nat /\ Len(ts) <= Len(s)
  BY LenProperties DEF Agree
<1>2. ASSUME NEW i \in 1 .. Len(ts) PROVE Compatible(s[Len(s) - Len(ts) + i], ts[i])
  <2>1. Len(s) - Len(ts) + i = i
    BY <1>1
  <2>2. QED
    BY <2>1 DEF Agree
<1>3. QED
  BY <1>1, <1>2 DEF Pops

-----------------------------------------------------------------------------
(* Basic blocks stay a sequence of basic blocks *)

LEMMA ReplaceAny ==
  ASSUME NEW S, NEW g \in Seq(S), NEW b, NEW e, b \in 1 .. Len(g) => e \in S
  PROVE  /\ [g EXCEPT ![b] = e] \in Seq(S) /\ Len([g EXCEPT ![b] = e]) = Len(g)
         /\ \A x \in 1 .. Len(g) : [g EXCEPT ![b] = e][x] = IF x = b THEN e ELSE g[x]
<1>1. DOMAIN g = 1 .. Len(g) /\ Len(g) \in Nat /\ g \in [1 .. Len(g) -> S]
  BY LenProperties
<1>2. [g EXCEPT ![b] = e] \in [1 .. Len(g) -> S]
  BY <1>1
<1>3. [g EXCEPT ![b] = e] \in Seq(S)
  BY <1>1, <1>2, SeqDef
<1>4. DOMAIN [g EXCEPT ![b] = e] = 1 .. Len(g)
  BY <1>1
<1>5. Len([g EXCEPT ![b] = e]) = Len(g)
  BY <1>1, <1>3, <1>4, LenProperties
<1>6. QED
  BY <1>1, <1>3, <1>5

LEMMA NewBasicBlock == BasicBlock \in BasicBlocks /\ [BasicBlock EXCEPT !.ends = 1, !.phis = 1] \in BasicBlocks
  BY EmptySeq DEF BasicBlock, BasicBlocks

\* Basic blocks after a terminator, an edge, and an edge with its values.
Ended(b) == [b EXCEPT !.ends = @ + 1]
Joined(b, from) == [b EXCEPT !.preds = Append(@, from)]
Passed(b, n, from) ==
  [b EXCEPT !.phis = IF @ # 0 THEN @ ELSE n, !.incoming = Append(@, from),
            !.preds = Append(@, from)]

LEMMA TerminateBlock ==
  ASSUME NEW g \in Seq(BasicBlocks), NEW b
  PROVE  /\ Terminate(g, b) \in Seq(BasicBlocks) /\ Len(Terminate(g, b)) = Len(g)
         /\ \A x \in 1 .. Len(g) :
              Terminate(g, b)[x] = IF x = b THEN Ended(g[x]) ELSE g[x]
<1>1. ASSUME b \in 1 .. Len(g) PROVE Ended(g[b]) \in BasicBlocks
  <2>1. g[b] \in BasicBlocks
    BY <1>1, ElementOfSeq
  <2>2. g[b].ends + 1 \in Nat
    BY <2>1 DEF BasicBlocks
  <2>3. QED
    BY <2>1, <2>2 DEF BasicBlocks, Ended
<1>2. Terminate(g, b) = [g EXCEPT ![b] = Ended(g[b])]
  BY DEF Terminate, Ended
<1>3. QED
  BY <1>1, <1>2, ReplaceAny

LEMMA EdgeBlock ==
  ASSUME NEW g \in Seq(BasicBlocks), NEW b, NEW from \in Nat
  PROVE  /\ Edge(g, b, from) \in Seq(BasicBlocks) /\ Len(Edge(g, b, from)) = Len(g)
         /\ \A x \in 1 .. Len(g) :
              Edge(g, b, from)[x] = IF x = b THEN Joined(g[x], from) ELSE g[x]
<1>1. ASSUME b \in 1 .. Len(g) PROVE Joined(g[b], from) \in BasicBlocks
  <2>1. g[b] \in BasicBlocks
    BY <1>1, ElementOfSeq
  <2>2. g[b].preds \in Seq(Nat)
    BY <2>1 DEF BasicBlocks
  <2>3. Append(g[b].preds, from) \in Seq(Nat)
    BY <2>2, AppendProperties
  <2>4. QED
    BY <2>1, <2>3 DEF BasicBlocks, Joined
<1>2. Edge(g, b, from) = [g EXCEPT ![b] = Joined(g[b], from)]
  BY DEF Edge, Joined
<1>3. QED
  BY <1>1, <1>2, ReplaceAny

LEMMA PassesBlock ==
  ASSUME NEW g \in Seq(BasicBlocks), NEW b, NEW n \in Nat, NEW from \in Nat
  PROVE  /\ Passes(g, b, n, from) \in Seq(BasicBlocks)
         /\ Len(Passes(g, b, n, from)) = Len(g)
         /\ b \in 1 .. Len(g) => Passes(g, b, n, from)[b] = Passed(g[b], n, from)
         /\ \A x \in 1 .. Len(g) : x # b => Passes(g, b, n, from)[x] = g[x]
<1>. DEFINE e == AddIncoming(WithPhis(g[b], n), from)
            h == [g EXCEPT ![b] = e]
<1>1. ASSUME b \in 1 .. Len(g)
      PROVE  e \in BasicBlocks /\ Joined(e, from) = Passed(g[b], n, from)
  <2>1. g[b] \in BasicBlocks
    BY <1>1, ElementOfSeq
  <2>2. Append(g[b].incoming, from) \in Seq(Nat)
    BY <2>1, AppendProperties DEF BasicBlocks
  <2>3. QED
    BY <2>1, <2>2 DEF BasicBlocks, AddIncoming, WithPhis, Passed, Joined
<1>2. /\ h \in Seq(BasicBlocks) /\ Len(h) = Len(g)
      /\ \A x \in 1 .. Len(g) : h[x] = IF x = b THEN e ELSE g[x]
  BY <1>1, ReplaceAny
<1>3. Passes(g, b, n, from) = Edge(h, b, from)
  BY DEF Passes
<1>. HIDE DEF h, e
<1>4. /\ Edge(h, b, from) \in Seq(BasicBlocks) /\ Len(Edge(h, b, from)) = Len(h)
      /\ \A x \in 1 .. Len(h) :
           Edge(h, b, from)[x] = IF x = b THEN Joined(h[x], from) ELSE h[x]
  BY <1>2, EdgeBlock
<1>5. QED
  BY <1>1, <1>2, <1>3, <1>4

-----------------------------------------------------------------------------
(* Induction, as the library's theorems about predicates cannot be used *)

LEMMA LessIsWellFounded == IsWellFoundedOn({p \in Nat \X Nat : p[1] < p[2]}, Nat)
  BY NatLessThanWellFounded DEF OpToRel

LEMMA Least ==
  ASSUME NEW T \in SUBSET Nat, T # {}
  PROVE  \E m \in T : \A n \in T : m <= n
<1>. DEFINE R == {p \in Nat \X Nat : p[1] < p[2]}
<1>1. IsWellFoundedOn(R, Nat)
  BY LessIsWellFounded
<1>2. ASSUME NEW m \in Nat, NEW n \in Nat, <<n, m>> \notin R PROVE m <= n
  BY <1>2
<1>. HIDE DEF R
<1>3. PICK m \in T : \A n \in T : <<n, m>> \notin R
  BY <1>1, WFMin
<1>4. QED
  BY <1>2, <1>3

LEMMA UpTo ==
  ASSUME NEW n \in Nat, NEW S, 0 \in S, \A i \in 1 .. n : i - 1 \in S => i \in S
  PROVE  \A i \in 0 .. n : i \in S
<1>. DEFINE T == {i \in 0 .. n : i \notin S}
<1>1. SUFFICES ASSUME T # {} PROVE FALSE
  OBVIOUS
<1>2. T \in SUBSET Nat
  OBVIOUS
<1>3. PICK m \in T : \A k \in T : m <= k
  <2>. HIDE DEF T
  <2>1. QED
    BY <1>1, <1>2, Least
<1>4. m \in 1 .. n /\ m - 1 \in 0 .. n /\ m - 1 \notin T
  BY <1>3
<1>5. QED
  BY <1>3, <1>4

\* The innermost block in which code goes on.
LEMMA InnermostResumes ==
  ASSUME NEW bs \in Seq(OpenBlocks), NEW n, n = Innermost(bs)
  PROVE  /\ n \in 0 .. Len(bs)
         /\ n > 0 => Resumes(bs[n])
         /\ \A k \in n + 1 .. Len(bs) : ~Resumes(bs[k])
<1>. DEFINE l == Len(bs)
            S == {0} \cup {k \in 1 .. l : Resumes(bs[k])}
            T == {l - k : k \in S}
<1>1. l \in Nat /\ DOMAIN bs = 1 .. l
  BY LenProperties
<1>2. n = Max(S)
  BY <1>1 DEF Innermost
<1>. HIDE DEF l
<1>3. T \in SUBSET Nat /\ T # {}
  BY <1>1
<1>4. PICK m \in T : \A i \in T : m <= i
  <2>. HIDE DEF T
  <2>1. QED
    BY <1>3, Least
<1>5. PICK x \in S : m = l - x
  BY <1>4
<1>6. \A y \in S : x >= y
  <2>1. SUFFICES ASSUME NEW y \in S PROVE x >= y
    OBVIOUS
  <2>2. l - y \in T
    OBVIOUS
  <2>3. m <= l - y
    BY <1>4, <2>2
  <2>4. QED
    BY <1>1, <1>5, <2>3
<1>7. n \in S /\ \A y \in S : n >= y
  <2>. HIDE DEF S
  <2>1. \E z \in S : \A y \in S : z >= y
    BY <1>6
  <2>2. QED
    BY <1>2, <2>1 DEF Max
<1>8. n \in 0 .. l /\ (n > 0 => Resumes(bs[n]))
  BY <1>1, <1>7
<1>9. ASSUME NEW k \in n + 1 .. l, Resumes(bs[k]) PROVE FALSE
  <2>1. k \in S /\ k > n
    BY <1>1, <1>8, <1>9
  <2>2. QED
    BY <1>1, <1>7, <1>8, <2>1
<1>10. QED
  BY <1>8, <1>9 DEF l

-----------------------------------------------------------------------------
(* Changes of the block stack *)

LEMMA ReplaceOperands ==
  ASSUME NEW bs, NEW tss, StackInv(bs, tss), NEW n \in 1 .. Len(bs),
         NEW v, NEW ts, Agree(v, ts)
  PROVE  /\ StackInv([bs EXCEPT ![n].values = v], [tss EXCEPT ![n] = ts])
         /\ Len([bs EXCEPT ![n].values = v]) = Len(bs)
<1>. DEFINE e == [bs[n] EXCEPT !.values = v]
            cs == [bs EXCEPT ![n] = e]
            uss == [tss EXCEPT ![n] = ts]
<1>1. bs \in Seq(OpenBlocks) /\ tss \in Seq(Seq(ValueTypes)) /\ Len(bs) = Len(tss)
  BY DEF StackInv
<1>2. bs[n] \in OpenBlocks
  BY <1>1, ElementOfSeq
<1>3. v \in Seq(Values) /\ ts \in Seq(ValueTypes)
  BY DEF Agree
<1>4. /\ e \in OpenBlocks /\ e.label = bs[n].label /\ e.values = v
      /\ Opened(bs[n]) => Opened(e)
  BY <1>2, <1>3 DEF OpenBlocks, Opened
<1>5. /\ cs \in Seq(OpenBlocks) /\ Len(cs) = Len(bs)
      /\ \A k \in 1 .. Len(bs) : cs[k] = IF k = n THEN e ELSE bs[k]
  <2>. HIDE DEF e
  <2>1. QED
    BY <1>1, <1>4, ExceptSeq
<1>6. /\ uss \in Seq(Seq(ValueTypes)) /\ Len(uss) = Len(tss)
      /\ \A k \in 1 .. Len(bs) : uss[k] = IF k = n THEN ts ELSE tss[k]
  BY <1>1, <1>3, ExceptSeq
<1>7. cs = [bs EXCEPT ![n].values = v]
  OBVIOUS
<1>. HIDE DEF cs, uss, e
<1>8. StackInv(cs, uss)
  BY <1>1, <1>4, <1>5, <1>6 DEF StackInv
<1>9. QED
  BY <1>5, <1>7, <1>8 DEF uss

LEMMA CutStack ==
  ASSUME NEW bs, NEW tss, StackInv(bs, tss), NEW n \in Nat, n <= Len(bs)
  PROVE  /\ StackInv(SubSeq(bs, 1, n), SubSeq(tss, 1, n))
         /\ Len(SubSeq(bs, 1, n)) = n /\ Len(SubSeq(tss, 1, n)) = n
         /\ \A k \in 1 .. n : SubSeq(bs, 1, n)[k] = bs[k] /\ SubSeq(tss, 1, n)[k] = tss[k]
<1>1. /\ bs \in Seq(OpenBlocks) /\ tss \in Seq(Seq(ValueTypes)) /\ Len(bs) = Len(tss)
      /\ Len(bs) \in Nat
  BY LenProperties DEF StackInv
<1>2. \A k \in 1 .. n : bs[k] \in OpenBlocks /\ tss[k] \in Seq(ValueTypes)
  BY <1>1, ElementOfSeq
<1>3. /\ SubSeq(bs, 1, n) \in Seq(OpenBlocks) /\ Len(SubSeq(bs, 1, n)) = n
      /\ \A k \in 1 .. n : SubSeq(bs, 1, n)[k] = bs[k]
  <2>1. /\ SubSeq(bs, 1, n) \in Seq(OpenBlocks)
        /\ Len(SubSeq(bs, 1, n)) = IF 1 <= n THEN n - 1 + 1 ELSE 0
        /\ \A k \in 1 .. n - 1 + 1 : SubSeq(bs, 1, n)[k] = bs[1 + k - 1]
    BY <1>2, SubSeqProperties
  <2>2. QED
    BY <2>1
<1>4. /\ SubSeq(tss, 1, n) \in Seq(Seq(ValueTypes)) /\ Len(SubSeq(tss, 1, n)) = n
      /\ \A k \in 1 .. n : SubSeq(tss, 1, n)[k] = tss[k]
  <2>1. /\ SubSeq(tss, 1, n) \in Seq(Seq(ValueTypes))
        /\ Len(SubSeq(tss, 1, n)) = IF 1 <= n THEN n - 1 + 1 ELSE 0
        /\ \A k \in 1 .. n - 1 + 1 : SubSeq(tss, 1, n)[k] = tss[1 + k - 1]
    BY <1>2, SubSeqProperties
  <2>2. QED
    BY <2>1
<1>5. QED
  BY <1>1, <1>3, <1>4 DEF StackInv

LEMMA PushOpen ==
  ASSUME NEW bs, NEW tss, StackInv(bs, tss), NEW b \in OpenBlocks, NEW ts,
         (bs = << >>) <=> (b.label = "function"), Opened(b), Agree(b.values, ts)
  PROVE  StackInv(Append(bs, b), Append(tss, ts)) /\ Append(bs, b) # << >>
<1>1. /\ bs \in Seq(OpenBlocks) /\ tss \in Seq(Seq(ValueTypes)) /\ Len(bs) = Len(tss)
      /\ Len(bs) \in Nat /\ ts \in Seq(ValueTypes)
  BY LenProperties DEF StackInv, Agree
<1>2. /\ Append(bs, b) \in Seq(OpenBlocks) /\ Len(Append(bs, b)) = Len(bs) + 1
      /\ \A k \in 1 .. Len(bs) : Append(bs, b)[k] = bs[k]
      /\ Append(bs, b)[Len(bs) + 1] = b
  BY <1>1, AppendProperties
<1>3. /\ Append(tss, ts) \in Seq(Seq(ValueTypes)) /\ Len(Append(tss, ts)) = Len(tss) + 1
      /\ \A k \in 1 .. Len(tss) : Append(tss, ts)[k] = tss[k]
      /\ Append(tss, ts)[Len(tss) + 1] = ts
  BY <1>1, AppendProperties
<1>4. (Len(bs) = 0) <=> (bs = << >>)
  BY <1>1, EmptySeq
<1>5. ASSUME NEW k \in 1 .. Len(bs) + 1
      PROVE  /\ (k = 1) <=> (Append(bs, b)[k].label = "function")
             /\ Agree(Append(bs, b)[k].values, Append(tss, ts)[k]) /\ Opened(Append(bs, b)[k])
  <2>1. CASE k = Len(bs) + 1
    BY <1>1, <1>2, <1>3, <1>4, <2>1
  <2>2. CASE k # Len(bs) + 1
    <3>1. k \in 1 .. Len(bs)
      BY <1>1, <2>2
    <3>2. QED
      BY <1>1, <1>2, <1>3, <3>1 DEF StackInv
  <2>3. QED
    BY <2>1, <2>2
<1>6. Append(bs, b) # << >>
  <2>1. Len(Append(bs, b)) # 0
    BY ONLY <1>1, <1>2
  <2>2. Len(<< >>) = 0
    BY EmptySeq
  <2>3. QED
    BY ONLY <2>1, <2>2
<1>7. StackInv(Append(bs, b), Append(tss, ts))
  BY ONLY <1>1, <1>2, <1>3, <1>5 DEF StackInv
<1>8. QED
  BY <1>6, <1>7

-----------------------------------------------------------------------------
(* Leaving code: handle_next_reachable_block *)

LEMMA EnterElseKeepsStack ==
  ASSUME NEW bs, StackInv(bs, types), NEW g, NEW n \in 1 .. Len(bs),
         bs[n].label = "if", bs[n].else # None, EnterElse(bs, n, g)
  PROVE  StackInv(blocks', types') /\ blocks' # << >> /\ at' \in Nat
<1>. DEFINE b == bs[n]
            c == [b EXCEPT !.past = TRUE, !.values = Phis(b.params)]
            low == SubSeq(bs, 1, n - 1)
            tow == SubSeq(types, 1, n - 1)
<1>1. bs \in Seq(OpenBlocks) /\ b \in OpenBlocks /\ Len(bs) \in Nat
      /\ n - 1 \in Nat /\ n - 1 <= Len(bs)
  BY ElementOfSeq, LenProperties DEF StackInv
<1>2. StackInv(low, tow) /\ Len(low) = n - 1
  <2>. HIDE DEF b
  <2>1. QED
    BY <1>1, CutStack
<1>3. n # 1 /\ Opened(b)
  BY DEF StackInv
<1>4. b.params \in Seq(ValueTypes) /\ Agree(Phis(b.params), b.params)
  BY <1>1, AgreePhis DEF OpenBlocks
<1>5. Phis(b.params) \in Seq(Values)
  BY <1>4 DEF Agree
<1>6. /\ c \in OpenBlocks /\ c.label = "if" /\ c.values = Phis(b.params)
      /\ Opened(c)
  BY <1>1, <1>3, <1>5 DEF OpenBlocks, Opened
<1>7. low # << >>
  BY <1>1, <1>2, <1>3, EmptySeq
<1>8. blocks' = Append(low, c) /\ types' = Append(tow, b.params) /\ at' = b.else
  BY DEF EnterElse
<1>9. b.else \in Nat
  BY <1>1 DEF OpenBlocks, BlockId
<1>. HIDE DEF b, c, low, tow
<1>10. QED
  BY <1>2, <1>4, <1>6, <1>7, <1>8, <1>9, PushOpen DEF b

LEMMA LeaveBlockKeepsStack ==
  ASSUME NEW bs, StackInv(bs, types), NEW g \in Seq(BasicBlocks), NEW n \in 1 .. Len(bs),
         bs[n].reachable, LeaveBlock(bs, n, g)
  PROVE  /\ StackInv(blocks', types') /\ at' \in Nat /\ ir' \in Seq(BasicBlocks)
         /\ outcome' = "compiled" \/ (outcome' = outcome /\ blocks' # << >>)
<1>. DEFINE b == bs[n]
            low == SubSeq(bs, 1, n - 1)
            tow == SubSeq(types, 1, n - 1)
<1>1. bs \in Seq(OpenBlocks) /\ b \in OpenBlocks /\ Len(bs) \in Nat
      /\ n - 1 \in Nat /\ n - 1 <= Len(bs)
  BY ElementOfSeq, LenProperties DEF StackInv
<1>2. Opened(b) /\ ((n = 1) <=> (b.label = "function"))
  BY DEF StackInv
<1>3. at' = b.end /\ at' \in Nat
  BY <1>1, <1>2 DEF LeaveBlock, Opened, OpenBlocks, BlockId
<1>4. CASE b.label = "function"
  <2>1. outcome' = "compiled" /\ blocks' = << >> /\ types' = << >> /\ ir' = Terminate(g, b.end)
    BY <1>4 DEF LeaveBlock, Returns
  <2>2. StackInv(<< >>, << >>)
    BY EmptySeq DEF StackInv
  <2>3. QED
    BY <1>3, <2>1, <2>2, TerminateBlock
<1>5. CASE b.label # "function"
  <2>. DEFINE v == low[n - 1].values \o Phis(b.results)
              ts == tow[n - 1] \o b.results
  <2>1. /\ blocks' = [low EXCEPT ![n - 1].values = v]
        /\ types' = [tow EXCEPT ![n - 1] = ts]
        /\ ir' = g /\ outcome' = outcome
    BY <1>5 DEF LeaveBlock
  <2>2. /\ StackInv(low, tow) /\ Len(low) = n - 1
        /\ n - 1 \in 1 .. Len(low)
    <3>1. n # 1
      BY <1>2, <1>5
    <3>. HIDE DEF b
    <3>2. QED
      BY <1>1, <3>1, CutStack
  <2>3. Agree(low[n - 1].values, tow[n - 1])
    BY <2>2 DEF StackInv
  <2>4. Agree(Phis(b.results), b.results)
    BY <1>1, AgreePhis DEF OpenBlocks
  <2>. HIDE DEF b, low, tow
  <2>5. Agree(v, ts)
    BY <2>3, <2>4, AgreeConcat
  <2>. HIDE DEF v, ts
  <2>6. StackInv(blocks', types') /\ Len(blocks') = n - 1
    <3>1. /\ StackInv([low EXCEPT ![n - 1].values = v], [tow EXCEPT ![n - 1] = ts])
          /\ Len([low EXCEPT ![n - 1].values = v]) = Len(low)
      BY ONLY <2>2, <2>5, ReplaceOperands
    <3>2. QED
      BY <2>1, <2>2, <3>1
  <2>7. blocks' # << >>
    BY <2>2, <2>6, EmptySeq
  <2>8. QED
    BY <1>3, <2>1, <2>6, <2>7
<1>6. QED
  BY <1>4, <1>5

LEMMA NextReachableKeepsStack ==
  ASSUME NEW bs, StackInv(bs, types), NEW g \in Seq(BasicBlocks), at \in Nat,
         NextReachable(bs, g)
  PROVE  /\ StackInv(blocks', types') /\ at' \in Nat /\ ir' \in Seq(BasicBlocks)
         /\ outcome' = "compiled" \/ (outcome' = outcome /\ blocks' # << >>)
<1>. DEFINE n == Innermost(bs)
<1>1. bs \in Seq(OpenBlocks) /\ Len(bs) \in Nat
  BY LenProperties DEF StackInv
<1>2. n = Innermost(bs)
  OBVIOUS
<1>3. IF n = 0 THEN /\ outcome' = "compiled" /\ blocks' = << >> /\ types' = << >>
                    /\ ir' = g /\ UNCHANGED at
      ELSE IF ElsePending(bs[n]) THEN EnterElse(bs, n, g) ELSE LeaveBlock(bs, n, g)
  BY DEF NextReachable
<1>. HIDE DEF n
<1>4. n \in 0 .. Len(bs) /\ (n > 0 => Resumes(bs[n]))
  BY <1>1, <1>2, InnermostResumes
<1>5. CASE n = 0
  <2>1. StackInv(<< >>, << >>)
    BY EmptySeq DEF StackInv
  <2>2. QED
    BY <1>3, <1>5, <2>1
<1>6. CASE n # 0 /\ ElsePending(bs[n])
  <2>1. n \in 1 .. Len(bs) /\ EnterElse(bs, n, g)
    BY <1>1, <1>4, <1>3, <1>6
  <2>2. bs[n].label = "if" /\ bs[n].else # None
    BY <1>6 DEF ElsePending
  <2>3. outcome' = outcome /\ ir' = g
    BY <2>1 DEF EnterElse
  <2>4. QED
    BY <2>1, <2>2, <2>3, EnterElseKeepsStack
<1>7. CASE n # 0 /\ ~ElsePending(bs[n])
  <2>1. n \in 1 .. Len(bs) /\ LeaveBlock(bs, n, g) /\ bs[n].reachable
    BY <1>1, <1>4, <1>3, <1>7 DEF Resumes
  <2>2. QED
    BY <2>1, LeaveBlockKeepsStack
<1>8. QED
  BY <1>5, <1>6, <1>7

-----------------------------------------------------------------------------
(* Exceptions and branches *)

LEMMA RaiseTyped ==
  ASSUME NEW g \in Seq(BasicBlocks), at \in Nat, trap \in BlockId
  PROVE  Raise(g) \in Seq(BasicBlocks) /\ Trap(g) \in Nat
<1>1. Len(g) \in Nat
  BY LenProperties
<1>2. Trap(g) \in Nat
  BY <1>1 DEF Trap, BlockId
<1>3. WithTrap(g) \in Seq(BasicBlocks)
  BY NewBasicBlock, AppendProperties DEF WithTrap
<1>4. Passes(WithTrap(g), Trap(g), 1, at) \in Seq(BasicBlocks)
  BY <1>3, PassesBlock
<1>5. QED
  BY <1>2, <1>4 DEF Raise

\* The block stack and the function while branches are emitted.
Emitted == [blocks : Seq(OpenBlocks), ir : Seq(BasicBlocks)]

LEMMA FlagKeepsStack ==
  ASSUME NEW bs, NEW tss, StackInv(bs, tss), NEW k \in 1 .. Len(bs), NEW e \in Nat
  PROVE  /\ StackInv([bs EXCEPT ![k] = Flagged(bs[k], e)], tss)
         /\ Len([bs EXCEPT ![k] = Flagged(bs[k], e)]) = Len(bs)
<1>. DEFINE c == Flagged(bs[k], e)
            cs == [bs EXCEPT ![k] = c]
<1>1. bs \in Seq(OpenBlocks) /\ bs[k] \in OpenBlocks
  BY ElementOfSeq DEF StackInv
<1>2. e \in BlockId /\ e # None
  BY ControlAssumption DEF BlockId
<1>3. /\ c \in OpenBlocks /\ c.label = bs[k].label /\ c.values = bs[k].values
      /\ Opened(bs[k]) => Opened(c)
  BY <1>1, <1>2 DEF OpenBlocks, Opened, Flagged
<1>. HIDE DEF c
<1>4. /\ cs \in Seq(OpenBlocks) /\ Len(cs) = Len(bs)
      /\ \A j \in 1 .. Len(bs) : cs[j] = IF j = k THEN c ELSE bs[j]
  BY <1>1, <1>3, ExceptSeq
<1>. HIDE DEF cs
<1>5. StackInv(cs, tss)
  BY <1>3, <1>4 DEF StackInv
<1>6. QED
  BY <1>4, <1>5 DEF cs, c

LEMMA ToEndKeepsStack ==
  ASSUME NEW f \in Emitted, StackInv(f.blocks, types), at \in Nat, NEW k \in 1 .. Len(f.blocks)
  PROVE  /\ ToEnd(f, k) \in Emitted /\ StackInv(ToEnd(f, k).blocks, types)
         /\ Len(ToEnd(f, k).blocks) = Len(f.blocks)
<1>. DEFINE b == f.blocks[k]
            e == IF b.end = None THEN Len(f.ir) + 1 ELSE b.end
            g == IF b.end = None THEN Append(f.ir, BasicBlock) ELSE f.ir
<1>1. f.blocks \in Seq(OpenBlocks) /\ f.ir \in Seq(BasicBlocks) /\ Len(f.ir) \in Nat
      /\ b \in OpenBlocks
  BY ElementOfSeq, LenProperties DEF Emitted
<1>2. e \in Nat /\ g \in Seq(BasicBlocks) /\ Len(b.results) \in Nat
  <2>1. g \in Seq(BasicBlocks)
    BY <1>1, NewBasicBlock, AppendProperties
  <2>2. b.results \in Seq(ValueTypes)
    BY <1>1 DEF OpenBlocks
  <2>3. Len(b.results) \in Nat
    BY <2>2, LenProperties
  <2>4. b.end # None => b.end \in Nat
    BY <1>1 DEF OpenBlocks, BlockId
  <2>5. QED
    BY <1>1, <2>1, <2>3, <2>4
<1>3. ToEnd(f, k) = [blocks |-> [f.blocks EXCEPT ![k] = Flagged(b, e)],
                     ir |-> Passes(g, e, Len(b.results), at)]
  BY DEF ToEnd
<1>. HIDE DEF b, e, g
<1>4. Passes(g, e, Len(b.results), at) \in Seq(BasicBlocks)
  BY <1>2, PassesBlock
<1>5. /\ StackInv([f.blocks EXCEPT ![k] = Flagged(b, e)], types)
      /\ Len([f.blocks EXCEPT ![k] = Flagged(b, e)]) = Len(f.blocks)
  BY <1>2, FlagKeepsStack DEF b
<1>6. [f.blocks EXCEPT ![k] = Flagged(b, e)] \in Seq(OpenBlocks)
  BY <1>5 DEF StackInv
<1>7. QED
  BY <1>3, <1>4, <1>5, <1>6 DEF Emitted

LEMMA BranchKeepsStack ==
  ASSUME NEW f \in Emitted, StackInv(f.blocks, types), at \in Nat, NEW k \in 1 .. Len(f.blocks)
  PROVE  /\ BranchTo(f, k) \in Emitted /\ StackInv(BranchTo(f, k).blocks, types)
         /\ Len(BranchTo(f, k).blocks) = Len(f.blocks)
<1>1. CASE f.blocks[k].label = "loop"
  <2>. DEFINE b == f.blocks[k]
              h == Passes(f.ir, b.entry, Len(b.params), at)
  <2>1. f.blocks \in Seq(OpenBlocks) /\ f.ir \in Seq(BasicBlocks) /\ b \in OpenBlocks
    BY ElementOfSeq DEF Emitted
  <2>2. b.params \in Seq(ValueTypes)
    BY <2>1 DEF OpenBlocks
  <2>3. Len(b.params) \in Nat
    BY <2>2, LenProperties
  <2>4. BranchTo(f, k) = [f EXCEPT !.ir = h]
    BY <1>1 DEF BranchTo, ToEntry
  <2>. HIDE DEF b
  <2>5. h \in Seq(BasicBlocks)
    BY <2>1, <2>3, PassesBlock
  <2>. HIDE DEF h
  <2>6. [f EXCEPT !.ir = h] \in Emitted /\ [f EXCEPT !.ir = h].blocks = f.blocks
    BY <2>5 DEF Emitted
  <2>7. QED
    BY <2>4, <2>6
<1>2. CASE f.blocks[k].label # "loop"
  BY <1>2, ToEndKeepsStack DEF BranchTo
<1>3. QED
  BY <1>1, <1>2

\* Branches to all entries of a table are branches one after the other.
LEMMA BranchToAllSteps ==
  ASSUME NEW ds, Len(ds) \in Nat
  PROVE  \E f : /\ f[0] = Here /\ BranchToAll(ds) = f[Len(ds)]
                /\ \A i \in 1 .. Len(ds) : f[i] = BranchTo(f[i - 1], Target(ds[i]))
<1>. DEFINE n == Len(ds)
            Upto(f, m) ==
              f = [i \in 0 .. m |-> IF i = 0 THEN Here ELSE BranchTo(f[i - 1], Target(ds[i]))]
            S == {m \in 0 .. n : \E f : Upto(f, m)}
<1>1. n \in Nat
  OBVIOUS
<1>. HIDE DEF n
<1>2. 0 \in S
  <2>1. Upto([i \in 0 .. 0 |-> Here], 0)
    OBVIOUS
  <2>. HIDE DEF Upto
  <2>2. QED
    BY <2>1, <1>1
<1>3. ASSUME NEW m \in 1 .. n, m - 1 \in S PROVE m \in S
  <2>1. PICK g : Upto(g, m - 1)
    BY <1>3
  <2>. DEFINE h == [i \in 0 .. m |->
                      IF i = m THEN BranchTo(g[m - 1], Target(ds[m])) ELSE g[i]]
  <2>2. ASSUME NEW i \in 0 .. m
        PROVE  h[i] = IF i = 0 THEN Here ELSE BranchTo(h[i - 1], Target(ds[i]))
    <3>1. CASE i = m
      BY <3>1, <1>1
    <3>2. CASE i # m
      <4>1. g[i] = IF i = 0 THEN Here ELSE BranchTo(g[i - 1], Target(ds[i]))
        BY <3>2, <2>1, <1>1
      <4>2. i # 0 => i - 1 \in 0 .. m /\ i - 1 # m
        BY <1>1
      <4>3. QED
        BY <4>1, <4>2, <3>2
    <3>3. QED
      BY <3>1, <3>2
  <2>3. Upto(h, m)
    BY <2>2
  <2>. HIDE DEF Upto, h
  <2>4. QED
    BY <2>3, <1>1
<1>4. PICK g : Upto(g, n)
  <2>. HIDE DEF S
  <2>1. \A i \in 0 .. n : i \in S
    BY <1>1, <1>2, <1>3, UpTo
  <2>2. n \in S
    BY <2>1, <1>1
  <2>. HIDE DEF Upto
  <2>3. QED
    BY <2>2 DEF S
<1>. DEFINE f == CHOOSE f : Upto(f, n)
<1>5. Upto(f, n)
  BY <1>4
<1>6. BranchToAll(ds) = f[Len(ds)]
  BY DEF BranchToAll, n
<1>. HIDE DEF f
<1>7. QED
  BY <1>1, <1>5, <1>6 DEF n

LEMMA BranchesKeepStack ==
  ASSUME OInv, NEW ds, Len(ds) \in Nat, \A i \in 1 .. Len(ds) : ds[i] \in Depths
  PROVE  BranchToAll(ds) \in Emitted /\ StackInv(BranchToAll(ds).blocks, types)
<1>. DEFINE n == Len(ds)
<1>1. PICK f : /\ f[0] = Here /\ BranchToAll(ds) = f[n]
               /\ \A i \in 1 .. n : f[i] = BranchTo(f[i - 1], Target(ds[i]))
  BY BranchToAllSteps
<1>. DEFINE S == {i \in 0 .. n : /\ f[i] \in Emitted /\ StackInv(f[i].blocks, types)
                                 /\ Len(f[i].blocks) = Len(blocks)}
<1>2. 0 \in S
  BY <1>1 DEF Here, Emitted, OInv, StackInv
<1>3. ASSUME NEW i \in 1 .. n, i - 1 \in S PROVE i \in S
  <2>1. Target(ds[i]) \in 1 .. Len(blocks)
    <3>1. Len(blocks) \in Nat
      BY LenProperties DEF OInv, StackInv
    <3>2. QED
      BY <3>1 DEF Target, Depths, Top
  <2>2. f[i] = BranchTo(f[i - 1], Target(ds[i]))
    BY <1>1
  <2>3. QED
    BY <1>3, <2>1, <2>2, BranchKeepsStack DEF OInv
<1>. HIDE DEF S
<1>4. \A i \in 0 .. n : i \in S
  BY <1>2, <1>3, UpTo
<1>5. QED
  BY <1>1, <1>4 DEF S

-----------------------------------------------------------------------------
(* The innermost block *)

LEMMA TopAgrees ==
  ASSUME OInv, Compiling
  PROVE  /\ Top \in 1 .. Len(blocks) /\ Top \in Nat /\ Top = Len(types)
         /\ blocks[Top] \in OpenBlocks /\ Agree(Operands, types[Top])
         /\ types[Top] \in Seq(ValueTypes)
<1>1. blocks \in Seq(OpenBlocks) /\ blocks # << >> /\ Len(blocks) = Len(types)
  BY DEF OInv, Compiling, StackInv
<1>2. Top \in 1 .. Len(blocks) /\ Top \in Nat
  BY <1>1, EmptySeq DEF Top
<1>3. blocks[Top] \in OpenBlocks
  BY <1>1, <1>2, ElementOfSeq
<1>4. Agree(Operands, types[Top])
  BY <1>2 DEF OInv, StackInv, Operands
<1>5. QED
  BY <1>1, <1>2, <1>3, <1>4 DEF Top, Agree

LEMMA TypedPops ==
  ASSUME OInv, Compiling, NEW us \in Seq(ValueTypes), Typed(us)
  PROVE  /\ Pops(Operands, us)
         /\ Agree(Rest(Operands, us), Rest(types[Top], us))
         /\ Agree(Popped(Operands, us), us)
  BY TopAgrees, PopsTyped DEF Typed

LEMMA RewriteTop ==
  ASSUME OInv, Compiling, NEW v, NEW ts, Agree(v, ts)
  PROVE  /\ StackInv([blocks EXCEPT ![Top].values = v], [types EXCEPT ![Top] = ts])
         /\ [blocks EXCEPT ![Top].values = v] # << >>
<1>. DEFINE cs == [blocks EXCEPT ![Top].values = v]
<1>1. StackInv(cs, [types EXCEPT ![Top] = ts]) /\ Len(cs) = Len(blocks)
  BY TopAgrees, ReplaceOperands DEF OInv
<1>2. cs # << >>
  <2>. HIDE DEF cs
  <2>1. QED
    BY <1>1, TopAgrees, EmptySeq
<1>3. QED
  BY <1>1, <1>2

LEMMA PopTop ==
  ASSUME OInv, Compiling, NEW us \in Seq(ValueTypes), Typed(us)
  PROVE  /\ StackInv([blocks EXCEPT ![Top].values = Rest(@, us)], TypesAfter(us, << >>))
         /\ [blocks EXCEPT ![Top].values = Rest(@, us)] # << >>
<1>1. Agree(Rest(Operands, us), Rest(types[Top], us))
  BY TypedPops
<1>2. Rest(types[Top], us) \o << >> = Rest(types[Top], us)
  BY <1>1, ConcatEmptySeq DEF Agree
<1>3. /\ [blocks EXCEPT ![Top].values = Rest(@, us)]
           = [blocks EXCEPT ![Top].values = Rest(Operands, us)]
      /\ TypesAfter(us, << >>) = [types EXCEPT ![Top] = Rest(types[Top], us)]
  BY <1>2 DEF Operands, TypesAfter
<1>4. QED
  BY <1>1, <1>3, RewriteTop

LEMMA EnterKeepsStack ==
  ASSUME OInv, Compiling, NEW b \in OpenBlocks, b.label # "function", Opened(b),
         NEW us \in Seq(ValueTypes), Typed(us), NEW g \in Seq(BasicBlocks),
         NEW x, NEW y, NEW start \in Nat, Enter(b, us, g, x, y, start),
         UNCHANGED <<trap, sandbox>>
  PROVE  OInv'
<1>. DEFINE n == Len(b.params)
            h == IF x = y THEN Passes(g, x, n, at) ELSE Passes(Passes(g, x, n, at), y, n, at)
            low == [blocks EXCEPT ![Top].values = Rest(@, us)]
            tow == TypesAfter(us, << >>)
            c == [b EXCEPT !.values = Phis(b.params)]
<1>1. CASE n > 0 /\ b.entry = None
  <2>1. outcome' = "crashed" /\ UNCHANGED <<blocks, types, ir, at, deleted>>
    BY <1>1 DEF Enter
  <2>2. QED
    BY <2>1 DEF OInv
<1>2. CASE ~(n > 0 /\ b.entry = None)
  <2>1. /\ blocks' = Append(low, c) /\ types' = Append(tow, b.params)
        /\ ir' = Terminate(h, at) /\ at' = start /\ outcome' = outcome
    BY <1>2 DEF Enter
  <2>2. StackInv(low, tow) /\ low # << >>
    BY PopTop
  <2>3. b.params \in Seq(ValueTypes) /\ n \in Nat /\ at \in Nat
    BY LenProperties DEF OpenBlocks, OInv
  <2>4. Agree(Phis(b.params), b.params) /\ Phis(b.params) \in Seq(Values)
    BY <2>3, AgreePhis DEF Agree
  <2>5. c \in OpenBlocks /\ c.values = Phis(b.params) /\ c.label = b.label /\ Opened(c)
    BY <2>4 DEF OpenBlocks, Opened
  <2>6. h \in Seq(BasicBlocks)
    BY <2>3, PassesBlock
  <2>. HIDE DEF low, tow, c, h
  <2>7. StackInv(blocks', types') /\ blocks' # << >>
    BY <2>1, <2>2, <2>4, <2>5, PushOpen
  <2>8. ir' \in Seq(BasicBlocks)
    BY <2>1, <2>6, TerminateBlock
  <2>9. QED
    BY <2>1, <2>7, <2>8 DEF OInv
<1>3. QED
  BY <1>1, <1>2

LEMMA SkipKeepsStack ==
  ASSUME OInv, Compiling, NEW bs, StackInv(bs, types), NEW g \in Seq(BasicBlocks),
         NextReachable(bs, g), trap' \in BlockId, sandbox' \in BOOLEAN
  PROVE  OInv'
<1>1. /\ StackInv(blocks', types') /\ at' \in Nat /\ ir' \in Seq(BasicBlocks)
      /\ outcome' = "compiled" \/ (outcome' = outcome /\ blocks' # << >>)
  BY NextReachableKeepsStack DEF OInv
<1>2. QED
  BY <1>1 DEF OInv, Compiling

LEMMA JumpsKeepStack ==
  ASSUME OInv, Compiling, NEW f \in Emitted, StackInv(f.blocks, types), Jumps(f),
         UNCHANGED <<trap, sandbox>>
  PROVE  OInv'
<1>1. Terminate(f.ir, at) \in Seq(BasicBlocks)
  BY TerminateBlock DEF Emitted
<1>2. QED
  BY <1>1, SkipKeepsStack DEF Jumps, OInv

LEMMA RaiseAlwaysKeepsStack ==
  ASSUME OInv, Compiling, RaiseAlways, UNCHANGED sandbox
  PROVE  OInv'
<1>1. Raise(ir) \in Seq(BasicBlocks) /\ Trap(ir) \in Nat
  BY RaiseTyped DEF OInv
<1>2. Terminate(Raise(ir), at) \in Seq(BasicBlocks)
  BY <1>1, TerminateBlock
<1>3. trap' \in BlockId
  BY <1>1 DEF RaiseAlways, OInv, BlockId
<1>4. QED
  BY <1>2, <1>3, SkipKeepsStack DEF RaiseAlways, OInv

-----------------------------------------------------------------------------
(* Each opcode keeps the invariant *)

LEMMA OperateKeepsStack ==
  ASSUME OInv, NEW op \in Shapes, NEW checked \in {FALSE, sandbox}, Operate(op, checked)
  PROVE  OInv'
<1>. DEFINE us == [i \in DOMAIN op.pushes |->
                     IF op.pushes[i].type = "i1" THEN "i32" ELSE op.pushes[i].type]
            g == Append(Raise(ir), BasicBlock)
            n == Len(g)
            v == Rest(Operands, op.pops) \o op.pushes
            ts == Rest(types[Top], op.pops) \o us
<1>1. Compiling /\ Typed(op.pops) /\ op.pops \in Seq(ValueTypes) /\ op.pushes \in Seq(Values)
  BY ControlAssumption DEF Operate
<1>2. Pops(Operands, op.pops) /\ Agree(Rest(Operands, op.pops), Rest(types[Top], op.pops))
  BY <1>1, TypedPops
<1>3. Agree(op.pushes, us)
  <2>1. Len(op.pushes) \in Nat /\ DOMAIN op.pushes = 1 .. Len(op.pushes)
    BY <1>1, LenProperties
  <2>2. ASSUME NEW i \in 1 .. Len(op.pushes)
        PROVE  us[i] \in ValueTypes /\ Compatible(op.pushes[i], us[i])
    <3>1. op.pushes[i] \in Values
      BY <1>1, ElementOfSeq
    <3>2. us[i] = IF op.pushes[i].type = "i1" THEN "i32" ELSE op.pushes[i].type
      BY <2>1
    <3>3. QED
      BY <3>1, <3>2 DEF Values, ValueTypes, Compatible
  <2>3. us \in [1 .. Len(op.pushes) -> ValueTypes]
    BY <2>1, <2>2
  <2>4. us \in Seq(ValueTypes) /\ Len(us) = Len(op.pushes)
    <3>. HIDE DEF us
    <3>1. QED
      BY <2>1, <2>3
  <2>5. QED
    BY <1>1, <2>2, <2>4 DEF Agree
<1>4. Agree(v, ts)
  <2>. HIDE DEF us
  <2>1. QED
    BY <1>2, <1>3, AgreeConcat
<1>5. /\ blocks' = [blocks EXCEPT ![Top].values = v] /\ types' = [types EXCEPT ![Top] = ts]
      /\ UNCHANGED <<sandbox, outcome>>
      /\ \/ ir' = Terminate(Edge(g, n, at), at) /\ at' = n /\ trap' = Trap(ir)
         \/ UNCHANGED <<ir, at, trap>>
  BY <1>2 DEF Operate, Compiles, Operands, TypesAfter
<1>6. StackInv(blocks', types') /\ blocks' # << >>
  <2>. HIDE DEF v, ts
  <2>1. QED
    BY <1>1, <1>4, <1>5, RewriteTop
<1>7. g \in Seq(BasicBlocks) /\ Trap(ir) \in Nat
  BY RaiseTyped, NewBasicBlock, AppendProperties DEF OInv
<1>8. ir' \in Seq(BasicBlocks) /\ at' \in Nat /\ trap' \in BlockId
  <2>1. n \in Nat
    BY <1>7, LenProperties
  <2>. HIDE DEF g, n
  <2>2. Edge(g, n, at) \in Seq(BasicBlocks)
    BY <1>7, EdgeBlock DEF OInv
  <2>3. Terminate(Edge(g, n, at), at) \in Seq(BasicBlocks)
    BY <2>2, TerminateBlock
  <2>4. QED
    BY <1>5, <1>7, <2>1, <2>3 DEF OInv, BlockId
<1>9. QED
  BY <1>5, <1>6, <1>8 DEF OInv

LEMMA AOTBlockOpens ==
  ASSUME NEW label \in {"function", "block", "loop", "if"}, NEW hasElse \in BOOLEAN,
         NEW type \in [params : Seq(ValueTypes), results : Seq(ValueTypes)]
  PROVE  AOTBlock(label, type, hasElse) \in OpenBlocks
  BY EmptySeq DEF AOTBlock, OpenBlocks, BlockId

LEMMA OpenBlockKeepsStack ==
  ASSUME OInv, NEW label \in {"block", "loop"}, NEW type \in BlockTypes, OpenBlock(label, type)
  PROVE  OInv'
<1>. DEFINE n == Len(ir) + 1
            b == [AOTBlock(label, type, FALSE) EXCEPT !.entry = n]
<1>1. type \in [params : Seq(ValueTypes), results : Seq(ValueTypes)]
  BY ControlAssumption
<1>2. n \in Nat /\ Append(ir, BasicBlock) \in Seq(BasicBlocks)
  BY LenProperties, NewBasicBlock, AppendProperties DEF OInv
<1>3. b \in OpenBlocks /\ b.label = label /\ Opened(b)
  <2>1. AOTBlock(label, type, FALSE) \in OpenBlocks
    BY <1>1, AOTBlockOpens
  <2>2. n \in BlockId
    BY <1>2 DEF BlockId
  <2>3. b.label = label /\ b.reachable = FALSE /\ b.hasElse = FALSE
    BY DEF AOTBlock
  <2>. HIDE DEF n
  <2>4. b \in OpenBlocks
    BY <2>1, <2>2 DEF OpenBlocks
  <2>5. QED
    BY <2>3, <2>4 DEF Opened
<1>4. Compiling /\ Typed(type.params) /\ type.params \in Seq(ValueTypes)
  BY <1>1 DEF OpenBlock
<1>5. Pops(Operands, type.params)
  BY <1>4, TypedPops
<1>6. Enter(b, type.params, Append(ir, BasicBlock), n, n, n) /\ UNCHANGED <<trap, sandbox>>
  BY <1>5 DEF OpenBlock, Compiles
<1>. HIDE DEF b, n
<1>7. QED
  BY <1>2, <1>3, <1>4, <1>6, EnterKeepsStack

\* The basic blocks but for where instructions are put.
SameBasic(e, f) ==
  f.ends = e.ends /\ f.preds = e.preds /\ f.phis = e.phis /\ f.incoming = e.incoming

LEMMA IfBlocks ==
  ASSUME OInv, NEW m \in Nat, NEW late \in BOOLEAN
  PROVE  LET h == [ir \o [i \in 1 .. m |-> BasicBlock] EXCEPT ![at].late = late]
         IN  /\ h \in Seq(BasicBlocks) /\ Len(h) = Len(ir) + m /\ Len(ir) \in Nat
             /\ \A x \in 1 .. Len(ir) : SameBasic(ir[x], h[x])
             /\ \A x \in Len(ir) + 1 .. Len(ir) + m : SameBasic(BasicBlock, h[x])
<1>. DEFINE s == [i \in 1 .. m |-> BasicBlock]
            g == ir \o s
            e == [g[at] EXCEPT !.late = late]
            h == [g EXCEPT ![at] = e]
            l == Len(ir)
<1>1. ir \in Seq(BasicBlocks) /\ s \in Seq(BasicBlocks) /\ Len(s) = m /\ l \in Nat
  BY NewBasicBlock, LenProperties DEF OInv
<1>2. \A i \in 1 .. m : s[i] = BasicBlock
  OBVIOUS
<1>. HIDE DEF s
<1>3. /\ g \in Seq(BasicBlocks) /\ Len(g) = l + m
      /\ \A x \in 1 .. l + m : g[x] = IF x <= l THEN ir[x] ELSE s[x - l]
  BY <1>1, ConcatProperties
<1>4. /\ \A x \in 1 .. l : g[x] = ir[x]
      /\ \A x \in l + 1 .. l + m : g[x] = BasicBlock
  <2>1. \A x \in l + 1 .. l + m : x \in 1 .. l + m /\ ~(x <= l) /\ x - l \in 1 .. m
    BY <1>1
  <2>2. \A x \in 1 .. l : x \in 1 .. l + m /\ x <= l
    BY <1>1
  <2>3. QED
    BY <1>2, <1>3, <2>1, <2>2
<1>5. h = [ir \o [i \in 1 .. m |-> BasicBlock] EXCEPT ![at].late = late]
  BY DEF s
<1>. HIDE DEF g
<1>6. at \in 1 .. Len(g) => e \in BasicBlocks /\ SameBasic(g[at], e)
  <2>1. SUFFICES ASSUME at \in 1 .. Len(g) PROVE e \in BasicBlocks /\ SameBasic(g[at], e)
    OBVIOUS
  <2>2. g[at] \in BasicBlocks
    BY <1>3, <2>1, ElementOfSeq
  <2>3. QED
    BY <2>2 DEF BasicBlocks, SameBasic
<1>. HIDE DEF e
<1>7. /\ h \in Seq(BasicBlocks) /\ Len(h) = Len(g)
      /\ \A x \in 1 .. Len(g) : h[x] = IF x = at THEN e ELSE g[x]
  BY <1>3, <1>6, ReplaceAny
<1>. HIDE DEF h
<1>8. \A x \in 1 .. l + m : SameBasic(g[x], h[x])
  BY <1>3, <1>6, <1>7 DEF SameBasic
<1>9. /\ \A x \in 1 .. l : SameBasic(ir[x], h[x])
      /\ \A x \in l + 1 .. l + m : SameBasic(BasicBlock, h[x])
  <2>1. /\ \A x \in 1 .. l : x \in 1 .. l + m
        /\ \A x \in l + 1 .. l + m : x \in 1 .. l + m
    BY <1>1
  <2>2. QED
    BY <1>4, <1>8, <2>1
<1>10. QED
  BY <1>1, <1>3, <1>5, <1>7, <1>9 DEF l

LEMMA IfUnknownKeepsStack ==
  ASSUME OInv, Compiling, NEW us \in Seq(ValueTypes), Typed(us),
         NEW b \in OpenBlocks, b.label = "if", b.reachable = FALSE, b.else = None,
         IfUnknown(b, us), UNCHANGED <<trap, sandbox>>
  PROVE  OInv'
<1>. DEFINE n == Len(ir) + 1
            els == IF b.hasElse THEN n + 2 ELSE None
            blk == [b EXCEPT !.entry = n, !.end = n + 1, !.reachable = ~b.hasElse,
                             !.else = els]
            m == IF b.hasElse THEN 3 ELSE 2
            late == ~b.hasElse /\ ExtendsLate(b.params)
            h == [ir \o [i \in 1 .. m |-> BasicBlock] EXCEPT ![at].late = late]
            y == IF b.hasElse THEN n + 2 ELSE n + 1
<1>1. n \in Nat /\ b.hasElse \in BOOLEAN
  BY LenProperties DEF OInv, OpenBlocks
<1>2. blk \in OpenBlocks /\ blk.label = "if" /\ Opened(blk)
  <2>1. els \in BlockId /\ n \in BlockId /\ n + 1 \in BlockId /\ n + 1 # None /\ n + 2 # None
    BY <1>1, ControlAssumption DEF BlockId
  <2>. HIDE DEF n
  <2>2. blk \in OpenBlocks /\ blk.label = "if" /\ blk.end # None
    BY <1>1, <2>1 DEF OpenBlocks
  <2>3. blk.hasElse => blk.else # None
    BY <1>1, <2>1
  <2>. HIDE DEF blk
  <2>4. QED
    BY <2>2, <2>3 DEF Opened
<1>3. h \in Seq(BasicBlocks)
  <2>1. late \in BOOLEAN /\ m \in Nat
    BY DEF ExtendsLate
  <2>. HIDE DEF late, m
  <2>2. QED
    BY <2>1, IfBlocks
<1>4. Enter(blk, us, h, n, y, n)
  BY DEF IfUnknown
<1>. HIDE DEF n, blk, h, y
<1>5. QED
  BY <1>1, <1>2, <1>3, <1>4, EnterKeepsStack

LEMMA IfTrueKeepsStack ==
  ASSUME OInv, Compiling, NEW us \in Seq(ValueTypes), Typed(us),
         NEW b \in OpenBlocks, b.label = "if", b.reachable = FALSE,
         IfTrue(b, us), UNCHANGED <<trap, sandbox>>
  PROVE  OInv'
<1>. DEFINE n == Len(ir) + 1
            blk == [b EXCEPT !.entry = n, !.skipElse = TRUE]
<1>1. n \in Nat /\ Append(ir, BasicBlock) \in Seq(BasicBlocks)
  BY LenProperties, NewBasicBlock, AppendProperties DEF OInv
<1>2. blk \in OpenBlocks /\ blk.label = "if" /\ Opened(blk)
  <2>1. n \in BlockId
    BY <1>1 DEF BlockId
  <2>. HIDE DEF n
  <2>2. QED
    BY <2>1 DEF OpenBlocks, Opened
<1>3. Enter(blk, us, Append(ir, BasicBlock), n, n, n)
  BY DEF IfTrue
<1>. HIDE DEF n, blk
<1>4. QED
  BY <1>1, <1>2, <1>3, EnterKeepsStack

LEMMA IfFalseKeepsStack ==
  ASSUME OInv, Compiling, NEW us \in Seq(ValueTypes), Typed(us), Typed(<<"i32">>),
         NEW b \in OpenBlocks, b.label = "if", b.reachable = FALSE,
         IfFalse(b, us), UNCHANGED <<trap, sandbox>>
  PROVE  OInv'
<1>. DEFINE n == Len(ir) + 1
            blk == [b EXCEPT !.else = n, !.past = TRUE]
<1>1. n \in Nat /\ Append(ir, BasicBlock) \in Seq(BasicBlocks)
  BY LenProperties, NewBasicBlock, AppendProperties DEF OInv
<1>2. CASE b.hasElse
  <2>1. blk \in OpenBlocks /\ blk.label = "if" /\ Opened(blk)
    <3>1. n \in BlockId
      BY <1>1 DEF BlockId
    <3>. HIDE DEF n
    <3>2. QED
      BY <3>1 DEF OpenBlocks, Opened
  <2>2. Enter(blk, us, Append(ir, BasicBlock), n, n, n)
    BY <1>2 DEF IfFalse
  <2>. HIDE DEF n, blk
  <2>3. QED
    BY <1>1, <2>1, <2>2, EnterKeepsStack
<1>3. CASE ~b.hasElse
  <2>1. /\ blocks' = [blocks EXCEPT ![Top].values = Rest(@, <<"i32">>)]
        /\ types' = TypesAfter(<<"i32">>, << >>)
        /\ UNCHANGED <<ir, at, deleted, outcome>>
    BY <1>3 DEF IfFalse
  <2>2. <<"i32">> \in Seq(ValueTypes)
    BY DEF ValueTypes
  <2>3. StackInv(blocks', types') /\ blocks' # << >>
    BY <2>1, <2>2, PopTop
  <2>4. QED
    BY <2>1, <2>3 DEF OInv
<1>4. QED
  BY <1>2, <1>3

\* What can be popped together can be popped as far as the last of it.
LEMMA TypedLast ==
  ASSUME OInv, Compiling, NEW us \in Seq(ValueTypes), Typed(Append(us, "i32"))
  PROVE  Typed(<<"i32">>)
<1>. DEFINE ts == types[Top]
            vs == Append(us, "i32")
<1>1. ts \in Seq(ValueTypes) /\ Len(ts) \in Nat /\ Len(us) \in Nat
  BY TopAgrees, LenProperties
<1>2. vs \in Seq(ValueTypes) /\ Len(vs) = Len(us) + 1 /\ vs[Len(us) + 1] = "i32"
  BY AppendProperties DEF ValueTypes
<1>3. Len(vs) <= Len(ts) /\ \A i \in 1 .. Len(vs) : vs[i] = ts[Len(ts) - Len(vs) + i]
  BY <1>1, <1>2, SuffixPlaces DEF Typed
<1>. HIDE DEF ts, vs
<1>4. ts[Len(ts)] = "i32" /\ Len(ts) >= 1
  <2>1. vs[Len(us) + 1] = ts[Len(ts) - Len(vs) + (Len(us) + 1)]
    BY <1>1, <1>2, <1>3
  <2>2. Len(ts) - Len(vs) + (Len(us) + 1) = Len(ts)
    BY <1>1, <1>2
  <2>3. QED
    BY <1>1, <1>2, <1>3, <2>1, <2>2
<1>5. Reverse(<<"i32">>) = <<"i32">>
  BY DEF Reverse
<1>6. Reverse(ts)[1] = ts[Len(ts)] /\ Len(Reverse(ts)) = Len(ts)
  <2>1. Reverse(ts) = [i \in 1 .. Len(ts) |-> ts[(Len(ts) - i) + 1]]
    BY DEF Reverse
  <2>2. (Len(ts) - 1) + 1 = Len(ts)
    BY <1>1
  <2>3. QED
    BY <1>1, <1>4, <2>1, <2>2
<1>7. SubSeq(Reverse(ts), 1, 1) = <<"i32">>
  <2>. DEFINE r == Reverse(ts)
              S == {r[1]}
  <2>1. \A i \in 1 .. 1 : r[i] \in S
    OBVIOUS
  <2>. HIDE DEF r
  <2>2. SubSeq(r, 1, 1) \in Seq(S) /\ Len(SubSeq(r, 1, 1)) = 1
    BY <2>1, SubSeqProperties
  <2>3. SubSeq(r, 1, 1)[1] = r[1]
    BY <2>2, ElementOfSeq
  <2>4. <<r[1]>> \in Seq(S) /\ Len(<<r[1]>>) = 1 /\ <<r[1]>>[1] = r[1]
    OBVIOUS
  <2>5. SubSeq(r, 1, 1) = <<r[1]>>
    <3>. DEFINE q == SubSeq(r, 1, 1)
                z == <<r[1]>>
    <3>1. q \in Seq(S) /\ z \in Seq(S) /\ Len(q) = 1 /\ Len(z) = 1 /\ q[1] = z[1]
      BY <2>2, <2>3, <2>4
    <3>. HIDE DEF q, z, S
    <3>2. q = z
      BY <3>1, SeqEqual
    <3>3. QED
      BY <3>2 DEF q, z
  <2>6. QED
    BY <1>4, <1>6, <2>5 DEF r
<1>8. IsSuffix(<<"i32">>, ts)
  <2>1. <<"i32">> \in Seq(ValueTypes) /\ Len(<<"i32">>) = 1
    BY DEF ValueTypes
  <2>2. SubSeq(<<"i32">>, 1, Len(<<"i32">>)) = <<"i32">>
    BY <2>1, SubSeqFull
  <2>3. IsPrefix(<<"i32">>, Reverse(ts))
    BY <1>4, <1>6, <1>7, <2>1, <2>2 DEF IsPrefix
  <2>4. QED
    BY <1>5, <2>3 DEF IsSuffix
<1>9. QED
  BY <1>4, <1>8 DEF Typed, ts

LEMMA IfKeepsStack ==
  ASSUME OInv, NEW type \in BlockTypes, NEW hasElse \in BOOLEAN, If(type, hasElse)
  PROVE  OInv'
<1>. DEFINE us == Append(type.params, "i32")
            b == AOTBlock("if", type, hasElse)
<1>1. type \in [params : Seq(ValueTypes), results : Seq(ValueTypes)]
  BY ControlAssumption
<1>2. type.params \in Seq(ValueTypes) /\ us \in Seq(ValueTypes)
  BY <1>1, AppendProperties DEF ValueTypes
<1>3. /\ b \in OpenBlocks /\ b.label = "if" /\ b.reachable = FALSE /\ b.else = None
      /\ b.hasElse = hasElse
  BY <1>1, AOTBlockOpens DEF AOTBlock
<1>4. Compiling /\ Typed(us) /\ UNCHANGED sandbox
  BY DEF If
<1>5. Pops(Operands, us) /\ Typed(<<"i32">>)
  BY <1>2, <1>4, TypedPops, TypedLast
<1>6. \/ IfUnknown(b, us) /\ UNCHANGED trap
      \/ IfTrue(b, us) /\ UNCHANGED trap
      \/ IfFalse(b, us) /\ UNCHANGED trap
      \/ RaiseAlways
  BY <1>5 DEF If, Compiles
<1>. HIDE DEF us, b
<1>7. QED
  BY <1>2, <1>3, <1>4, <1>5, <1>6, IfUnknownKeepsStack, IfTrueKeepsStack, IfFalseKeepsStack,
     RaiseAlwaysKeepsStack

LEMMA HereEmitted ==
  ASSUME OInv
  PROVE  Here \in Emitted /\ Here.blocks = blocks /\ Here.ir = ir
  BY DEF Here, Emitted, OInv, StackInv

LEMMA ToEndFlags ==
  ASSUME NEW f \in Emitted, NEW k \in 1 .. Len(f.blocks)
  PROVE  \E e : ToEnd(f, k).blocks[k] = Flagged(f.blocks[k], e)
<1>. DEFINE b == f.blocks[k]
            e == IF b.end = None THEN Len(f.ir) + 1 ELSE b.end
<1>1. ToEnd(f, k).blocks = [f.blocks EXCEPT ![k] = Flagged(b, e)]
  BY DEF ToEnd
<1>2. DOMAIN f.blocks = 1 .. Len(f.blocks)
  <2>1. f.blocks \in Seq(OpenBlocks)
    BY DEF Emitted
  <2>2. QED
    BY <2>1, LenProperties
<1>. HIDE DEF e
<1>3. QED
  BY <1>1, <1>2

\* An if whose code is past its else.
LEMMA PastKeepsStack ==
  ASSUME NEW bs, NEW tss, StackInv(bs, tss), NEW k \in 1 .. Len(bs)
  PROVE  LET cs == [bs EXCEPT ![k].past = TRUE]
         IN  /\ StackInv(cs, tss) /\ cs \in Seq(OpenBlocks) /\ Len(cs) = Len(bs)
             /\ \A j \in 1 .. Len(bs) : j # k => cs[j] = bs[j]
             /\ cs[k] = [bs[k] EXCEPT !.past = TRUE]
<1>. DEFINE c == [bs[k] EXCEPT !.past = TRUE]
            cs == [bs EXCEPT ![k] = c]
<1>1. bs \in Seq(OpenBlocks) /\ bs[k] \in OpenBlocks /\ Opened(bs[k])
  BY ElementOfSeq DEF StackInv
<1>2. c \in OpenBlocks /\ c.label = bs[k].label /\ c.values = bs[k].values /\ Opened(c)
  BY <1>1 DEF OpenBlocks, Opened
<1>3. cs = [bs EXCEPT ![k].past = TRUE]
  OBVIOUS
<1>4. c = [bs[k] EXCEPT !.past = TRUE]
  OBVIOUS
<1>. HIDE DEF c
<1>5. /\ cs \in Seq(OpenBlocks) /\ Len(cs) = Len(bs)
      /\ \A j \in 1 .. Len(bs) : cs[j] = IF j = k THEN c ELSE bs[j]
  BY <1>1, <1>2, ExceptSeq
<1>. HIDE DEF cs
<1>6. StackInv(cs, tss)
  BY <1>2, <1>5 DEF StackInv
<1>7. QED
  BY <1>3, <1>4, <1>5, <1>6

LEMMA ElseKeepsStack ==
  ASSUME OInv, Else
  PROVE  OInv'
<1>. DEFINE b == blocks[Top]
            f == ToEnd(Here, Top)
<1>1. Compiling /\ b.hasElse /\ ~b.past /\ types[Top] = b.results
      /\ UNCHANGED <<trap, sandbox>>
  BY DEF Else
<1>2. /\ Top \in 1 .. Len(blocks) /\ Top = Len(types) /\ b \in OpenBlocks
      /\ Agree(Operands, types[Top])
  BY <1>1, TopAgrees
<1>3. (b.skipElse \/ b.else # None) /\ b.label = "if"
  BY <1>1, <1>2 DEF OInv, StackInv, Opened
<1>4. Pops(Operands, b.results)
  BY <1>1, <1>2, AllPops
<1>5. /\ f \in Emitted /\ StackInv(f.blocks, types) /\ Len(f.blocks) = Len(blocks)
      /\ Here.blocks = blocks
  BY <1>2, HereEmitted, ToEndKeepsStack DEF OInv
<1>6. IF b.skipElse
      THEN Jumps([f EXCEPT !.blocks[Top].past = TRUE])
      ELSE EnterElse(f.blocks, Top, Terminate(f.ir, at)) /\ UNCHANGED deleted
  BY <1>3, <1>4 DEF Else, Compiles
<1>7. \E e : f.blocks[Top] = Flagged(b, e)
  BY <1>2, HereEmitted, ToEndFlags
<1>. HIDE DEF f
<1>8. CASE b.skipElse
  <2>. DEFINE bs == [f.blocks EXCEPT ![Top].past = TRUE]
              h == [f EXCEPT !.blocks = bs]
  <2>1. StackInv(bs, types) /\ bs \in Seq(OpenBlocks)
    BY <1>2, <1>5, PastKeepsStack
  <2>2. h = [f EXCEPT !.blocks[Top].past = TRUE]
    OBVIOUS
  <2>. HIDE DEF bs
  <2>3. h \in Emitted /\ h.blocks = bs
    BY <1>5, <2>1 DEF Emitted
  <2>. HIDE DEF h
  <2>4. Jumps(h)
    BY <1>6, <1>8, <2>2
  <2>5. QED
    BY <1>1, <2>1, <2>3, <2>4, JumpsKeepStack
<1>9. CASE ~b.skipElse
  <2>. DEFINE g == Terminate(f.ir, at)
  <2>1. EnterElse(f.blocks, Top, g)
    BY <1>6, <1>9
  <2>2. f.blocks[Top].label = "if" /\ f.blocks[Top].else # None
    BY <1>2, <1>3, <1>7, <1>9 DEF Flagged, OpenBlocks
  <2>3. StackInv(blocks', types') /\ blocks' # << >> /\ at' \in Nat
    <3>. HIDE DEF g
    <3>1. QED
      BY <1>2, <1>5, <2>1, <2>2, EnterElseKeepsStack
  <2>4. g \in Seq(BasicBlocks) /\ ir' = g /\ outcome' = outcome
    BY <1>5, <2>1, TerminateBlock DEF Emitted, EnterElse
  <2>5. QED
    BY <1>1, <2>3, <2>4 DEF OInv
<1>10. QED
  BY <1>8, <1>9

LEMMA EndKeepsStack ==
  ASSUME OInv, End
  PROVE  OInv'
<1>. DEFINE b == blocks[Top]
<1>1. Compiling /\ types[Top] = b.results /\ UNCHANGED <<trap, sandbox>>
  BY DEF End
<1>2. Top \in 1 .. Len(blocks) /\ Agree(Operands, types[Top])
  BY <1>1, TopAgrees
<1>3. Pops(Operands, b.results)
  BY <1>1, <1>2, AllPops
<1>4. Jumps(ToEnd(Here, Top))
  BY <1>3 DEF End, Compiles
<1>5. ToEnd(Here, Top) \in Emitted /\ StackInv(ToEnd(Here, Top).blocks, types)
  BY <1>2, HereEmitted, ToEndKeepsStack DEF OInv
<1>6. QED
  BY <1>1, <1>4, <1>5, JumpsKeepStack

LEMMA TargetTyped ==
  ASSUME OInv, Compiling, NEW d \in Depths
  PROVE  /\ Target(d) \in 1 .. Len(blocks)
         /\ Taken(d) \in Seq(ValueTypes) /\ Append(Taken(d), "i32") \in Seq(ValueTypes)
<1>1. Target(d) \in 1 .. Len(blocks)
  BY TopAgrees DEF Target, Depths, Top
<1>2. blocks[Target(d)] \in OpenBlocks
  BY <1>1, ElementOfSeq DEF OInv, StackInv
<1>3. Taken(d) \in Seq(ValueTypes)
  BY <1>2 DEF Taken, LabelTypes, OpenBlocks
<1>4. QED
  BY <1>1, <1>3, AppendProperties DEF ValueTypes

LEMMA BranchHere ==
  ASSUME OInv, Compiling, NEW d \in Depths
  PROVE  /\ BranchTo(Here, Target(d)) \in Emitted
         /\ StackInv(BranchTo(Here, Target(d)).blocks, types)
  BY TargetTyped, HereEmitted, BranchKeepsStack DEF OInv

LEMMA BrKeepsStack ==
  ASSUME OInv, NEW d \in Depths, Br(d)
  PROVE  OInv'
<1>1. Compiling /\ Typed(Taken(d)) /\ UNCHANGED <<trap, sandbox>>
  BY DEF Br
<1>2. Pops(Operands, Taken(d))
  BY <1>1, TargetTyped, TypedPops
<1>3. Jumps(BranchTo(Here, Target(d)))
  BY <1>2 DEF Br, Compiles
<1>4. QED
  BY <1>1, <1>3, BranchHere, JumpsKeepStack

LEMMA ReturnKeepsStack ==
  ASSUME OInv, Return
  PROVE  OInv'
<1>1. Compiling /\ Typed(blocks[1].results) /\ UNCHANGED <<trap, sandbox>>
  BY DEF Return
<1>2. blocks[1].results \in Seq(ValueTypes)
  <2>1. 1 \in 1 .. Len(blocks)
    BY <1>1, TopAgrees
  <2>2. blocks[1] \in OpenBlocks
    BY <2>1, ElementOfSeq DEF OInv, StackInv
  <2>3. QED
    BY <2>2 DEF OpenBlocks
<1>3. NextReachable(blocks, Terminate(ir, at))
  BY <1>1, <1>2, TypedPops DEF Return, Compiles
<1>4. Terminate(ir, at) \in Seq(BasicBlocks)
  BY TerminateBlock DEF OInv
<1>5. QED
  BY <1>1, <1>3, <1>4, SkipKeepsStack DEF OInv

LEMMA UnreachableKeepsStack ==
  ASSUME OInv, Unreachable
  PROVE  OInv'
  BY RaiseAlwaysKeepsStack DEF Unreachable

\* The operands of a br_if and of an entry of a br_table, condition included.
LEMMA TakenAgree ==
  ASSUME OInv, Compiling, NEW d \in Depths, Typed(Append(Taken(d), "i32"))
  PROVE  LET s == Rest(Operands, <<"i32">>)
             ts == Rest(types[Top], <<"i32">>)
         IN  /\ Pops(Operands, Append(Taken(d), "i32"))
             /\ Typed(<<"i32">>) /\ Agree(s, ts)
             /\ Agree(Rest(s, Taken(d)) \o Popped(s, Taken(d)), ts)
<1>. DEFINE us == Taken(d)
            vs == Append(us, "i32")
            s == Rest(Operands, <<"i32">>)
            ts == Rest(types[Top], <<"i32">>)
            n == Len(types[Top])
<1>1. us \in Seq(ValueTypes) /\ vs \in Seq(ValueTypes) /\ <<"i32">> \in Seq(ValueTypes)
  BY TargetTyped DEF ValueTypes
<1>2. Pops(Operands, vs) /\ Typed(<<"i32">>)
  BY <1>1, TypedPops, TypedLast
<1>3. Agree(s, ts) /\ Agree(Operands, types[Top])
  BY <1>1, <1>2, TypedPops, TopAgrees
<1>4. types[Top] \in Seq(ValueTypes) /\ n \in Nat /\ Len(us) \in Nat /\ ts \in Seq(ValueTypes)
  BY <1>1, <1>3, LenProperties DEF Agree
<1>5. /\ Len(vs) = Len(us) + 1 /\ \A i \in 1 .. Len(us) : vs[i] = us[i]
  BY <1>1, AppendProperties DEF ValueTypes
<1>6. Len(vs) <= n /\ \A i \in 1 .. Len(vs) : vs[i] = types[Top][n - Len(vs) + i]
  BY <1>1, <1>4, SuffixPlaces DEF Typed
<1>7. /\ Len(ts) = n - 1
      /\ \A i \in 1 .. n - 1 : ts[i] = types[Top][i]
  <2>1. \A i \in 1 .. n - 1 : types[Top][i] \in ValueTypes
    BY <1>4, ElementOfSeq
  <2>2. ts = SubSeq(types[Top], 1, n - 1)
    BY DEF Rest
  <2>3. n >= 1
    BY <1>4, <1>5, <1>6
  <2>. HIDE DEF n
  <2>4. /\ Len(SubSeq(types[Top], 1, n - 1)) = IF 1 <= n - 1 THEN n - 1 - 1 + 1 ELSE 0
        /\ \A i \in 1 .. n - 1 - 1 + 1 :
             SubSeq(types[Top], 1, n - 1)[i] = types[Top][1 + i - 1]
    BY <2>1, <1>4, SubSeqProperties
  <2>5. QED
    BY <1>4, <2>2, <2>3, <2>4
<1>. HIDE DEF us, vs, ts, n
<1>8. Len(us) <= Len(ts) /\ Len(ts) = Len(s) /\ Len(ts) \in Nat
  BY <1>3, <1>4, <1>5, <1>6, <1>7 DEF Agree
<1>9. \A i \in 1 .. Len(us) : us[i] = ts[Len(ts) - Len(us) + i]
  <2>1. SUFFICES ASSUME NEW i \in 1 .. Len(us) PROVE us[i] = ts[Len(ts) - Len(us) + i]
    OBVIOUS
  <2>2. us[i] = types[Top][n - Len(vs) + i]
    BY <1>4, <1>5, <1>6
  <2>3. /\ n - Len(vs) + i = Len(ts) - Len(us) + i
        /\ n - Len(vs) + i \in 1 .. n - 1
    BY <1>4, <1>5, <1>6, <1>7
  <2>4. QED
    BY <1>7, <2>2, <2>3
<1>. HIDE DEF s
<1>10. Agree(Rest(s, us), Rest(ts, us)) /\ Agree(Popped(s, us), us)
  <2>1. IsSuffix(us, ts)
    BY <1>1, <1>4, <1>8, <1>9, PlacesSuffix
  <2>2. QED
    BY <1>1, <1>3, <1>8, <2>1, PopsTyped
<1>11. Rest(ts, us) \o us = ts
  BY <1>1, <1>4, <1>8, <1>9, RestAndSuffix
<1>12. Agree(Rest(s, us) \o Popped(s, us), ts)
  BY <1>10, <1>11, AgreeConcat
<1>13. QED
  BY <1>2, <1>3, <1>12 DEF s, us, vs, ts

LEMMA BrIfUnknownKeepsStack ==
  ASSUME OInv, Compiling, NEW d \in Depths, Typed(Append(Taken(d), "i32")),
         BrIfUnknown(d), UNCHANGED sandbox
  PROVE  OInv'
<1>. DEFINE s == Rest(Operands, <<"i32">>)
            v == Rest(s, Taken(d)) \o Popped(s, Taken(d))
            n == Len(ir) + 1
            h == [Here EXCEPT !.ir = Append(@, BasicBlock)]
            f == BranchTo(h, Target(d))
            ts == Rest(types[Top], <<"i32">>)
<1>1. /\ blocks' = [f.blocks EXCEPT ![Top].values = v]
      /\ ir' = Terminate(Edge(f.ir, n, at), at) /\ at' = n
      /\ types' = TypesAfter(<<"i32">>, << >>) /\ UNCHANGED <<deleted, trap, outcome>>
  BY DEF BrIfUnknown
<1>2. Agree(s, ts) /\ Agree(v, ts)
  BY TakenAgree
<1>3. n \in Nat /\ at \in Nat
  BY LenProperties DEF OInv
<1>4. h \in Emitted /\ h.blocks = blocks
  <2>1. Append(ir, BasicBlock) \in Seq(BasicBlocks)
    BY NewBasicBlock, AppendProperties DEF OInv
  <2>2. h = [blocks |-> blocks, ir |-> Append(ir, BasicBlock)]
    BY DEF Here
  <2>3. blocks \in Seq(OpenBlocks)
    BY DEF OInv, StackInv
  <2>4. QED
    BY <2>1, <2>2, <2>3 DEF Emitted
<1>. HIDE DEF h
<1>5. f \in Emitted /\ StackInv(f.blocks, types) /\ Len(f.blocks) = Len(blocks)
  BY <1>4, TargetTyped, BranchKeepsStack DEF OInv
<1>. HIDE DEF f, v
<1>6. types' = [types EXCEPT ![Top] = ts]
  <2>1. Rest(types[Top], <<"i32">>) \o << >> = Rest(types[Top], <<"i32">>)
    BY <1>2, ConcatEmptySeq DEF Agree
  <2>2. QED
    BY <1>1, <2>1 DEF TypesAfter
<1>. HIDE DEF ts
<1>7. StackInv(blocks', types') /\ Len(blocks') = Len(blocks)
  BY <1>1, <1>2, <1>5, <1>6, TopAgrees, ReplaceOperands
<1>8. blocks' # << >>
  BY <1>7, TopAgrees, EmptySeq
<1>9. ir' \in Seq(BasicBlocks)
  <2>1. f.ir \in Seq(BasicBlocks)
    BY <1>5 DEF Emitted
  <2>. HIDE DEF n
  <2>2. Edge(f.ir, n, at) \in Seq(BasicBlocks)
    BY <1>3, <2>1, EdgeBlock
  <2>3. QED
    BY <1>1, <2>2, TerminateBlock
<1>10. QED
  BY <1>1, <1>3, <1>7, <1>8, <1>9 DEF OInv

LEMMA BrIfKeepsStack ==
  ASSUME OInv, NEW d \in Depths, BrIf(d)
  PROVE  OInv'
<1>1. Compiling /\ Typed(Append(Taken(d), "i32")) /\ UNCHANGED sandbox
  BY DEF BrIf
<1>2. Pops(Operands, Append(Taken(d), "i32")) /\ Typed(<<"i32">>)
  BY <1>1, TakenAgree
<1>3. \/ BrIfUnknown(d)
      \/ Jumps(BranchTo(Here, Target(d))) /\ UNCHANGED trap
      \/ /\ blocks' = [blocks EXCEPT ![Top].values = Rest(@, <<"i32">>)]
         /\ types' = TypesAfter(<<"i32">>, << >>)
         /\ UNCHANGED <<ir, at, deleted, trap, outcome>>
      \/ RaiseAlways
  BY <1>2 DEF BrIf, Compiles
<1>4. CASE BrIfUnknown(d)
  BY <1>1, <1>4, BrIfUnknownKeepsStack
<1>5. CASE Jumps(BranchTo(Here, Target(d))) /\ UNCHANGED trap
  BY <1>1, <1>5, BranchHere, JumpsKeepStack
<1>6. CASE /\ blocks' = [blocks EXCEPT ![Top].values = Rest(@, <<"i32">>)]
           /\ types' = TypesAfter(<<"i32">>, << >>)
           /\ UNCHANGED <<ir, at, deleted, trap, outcome>>
  <2>1. <<"i32">> \in Seq(ValueTypes)
    BY DEF ValueTypes
  <2>2. StackInv(blocks', types') /\ blocks' # << >>
    BY <1>1, <1>2, <1>6, <2>1, PopTop
  <2>3. QED
    BY <1>1, <1>6, <2>2 DEF OInv
<1>7. CASE RaiseAlways
  BY <1>1, <1>7, RaiseAlwaysKeepsStack
<1>8. QED
  BY <1>3, <1>4, <1>5, <1>6, <1>7

LEMMA BrTableKeepsStack ==
  ASSUME OInv, NEW n \in TableSizes, NEW ds \in [1 .. n -> Depths], BrTable(ds)
  PROVE  OInv'
<1>1. Compiling /\ UNCHANGED sandbox
      /\ \A i \in DOMAIN ds : Typed(Append(Taken(ds[i]), "i32"))
  BY DEF BrTable
<1>2. n \in Nat /\ Len(ds) = n /\ DOMAIN ds = 1 .. n /\ \A i \in 1 .. n : ds[i] \in Depths
  BY ControlAssumption
<1>3. \A i \in DOMAIN ds : Pops(Operands, Append(Taken(ds[i]), "i32"))
  BY <1>1, <1>2, TakenAgree
<1>4. \/ Jumps(BranchToAll(ds)) /\ UNCHANGED trap
      \/ (\E i \in DOMAIN ds : Jumps(BranchTo(Here, Target(ds[i])))) /\ UNCHANGED trap
      \/ RaiseAlways
  BY <1>3 DEF BrTable, Compiles
<1>5. CASE Jumps(BranchToAll(ds)) /\ UNCHANGED trap
  <2>1. BranchToAll(ds) \in Emitted /\ StackInv(BranchToAll(ds).blocks, types)
    BY <1>2, BranchesKeepStack
  <2>2. QED
    BY <1>1, <1>5, <2>1, JumpsKeepStack
<1>6. CASE (\E i \in DOMAIN ds : Jumps(BranchTo(Here, Target(ds[i])))) /\ UNCHANGED trap
  <2>1. PICK i \in DOMAIN ds : Jumps(BranchTo(Here, Target(ds[i])))
    BY <1>6
  <2>2. QED
    BY <1>1, <1>2, <1>6, <2>1, BranchHere, JumpsKeepStack
<1>7. CASE RaiseAlways
  BY <1>1, <1>7, RaiseAlwaysKeepsStack
<1>8. QED
  BY <1>4, <1>5, <1>6, <1>7

-----------------------------------------------------------------------------
(* The theorems *)

LEMMA InitOInv == Init => OInv
<1>. SUFFICES ASSUME Init PROVE OInv
  OBVIOUS
<1>1. PICK f \in FuncTypes :
        /\ blocks = <<[AOTBlock("function", [f EXCEPT !.params = << >>], FALSE)
                         EXCEPT !.entry = 1]>>
        /\ types = << << >> >> /\ ir = <<BasicBlock>> /\ at = 1 /\ trap = None
        /\ sandbox \in BOOLEAN /\ outcome = "compiling"
  BY DEF Init
<1>. DEFINE t == [f EXCEPT !.params = << >>]
            b == [AOTBlock("function", t, FALSE) EXCEPT !.entry = 1]
<1>2. t \in [params : Seq(ValueTypes), results : Seq(ValueTypes)]
  <2>1. f \in [params : Seq(ValueTypes), results : Seq(ValueTypes)]
    BY ControlAssumption
  <2>2. << >> \in Seq(ValueTypes)
    BY EmptySeq
  <2>3. QED
    BY <2>1, <2>2
<1>3. AOTBlock("function", t, FALSE) \in OpenBlocks
  BY <1>2, AOTBlockOpens
<1>4. /\ b \in OpenBlocks /\ b.label = "function" /\ b.values = << >> /\ Opened(b)
  BY <1>3 DEF OpenBlocks, AOTBlock, BlockId, Opened
<1>. HIDE DEF b
<1>5. StackInv(Append(<< >>, b), Append(<< >>, << >>)) /\ Append(<< >>, b) # << >>
  <2>1. StackInv(<< >>, << >>)
    BY EmptySeq DEF StackInv
  <2>2. QED
    BY <1>4, <2>1, AgreeEmpty, PushOpen
<1>6. StackInv(blocks, types) /\ blocks # << >>
  <2>1. blocks = Append(<< >>, b) /\ types = Append(<< >>, << >>)
    BY <1>1 DEF b
  <2>2. QED
    BY <1>5, <2>1
<1>7. ir \in Seq(BasicBlocks)
  BY <1>1, NewBasicBlock
<1>8. QED
  BY <1>1, <1>6, <1>7 DEF OInv, BlockId

LEMMA NextOInv == OInv /\ [Next]_vars => OInv'
<1>. SUFFICES ASSUME OInv, [Next]_vars PROVE OInv'
  OBVIOUS
<1>1. CASE \E op \in Shapes, checked \in {FALSE, sandbox} : Operate(op, checked)
  BY <1>1, OperateKeepsStack
<1>2. CASE Unreachable
  BY <1>2, UnreachableKeepsStack
<1>3. CASE \E t \in BlockTypes, l \in {"block", "loop"} : OpenBlock(l, t)
  BY <1>3, OpenBlockKeepsStack
<1>4. CASE \E t \in BlockTypes, e \in BOOLEAN : If(t, e)
  BY <1>4, IfKeepsStack
<1>5. CASE Else
  BY <1>5, ElseKeepsStack
<1>6. CASE End
  BY <1>6, EndKeepsStack
<1>7. CASE \E d \in Depths : Br(d)
  BY <1>7, BrKeepsStack
<1>8. CASE \E d \in Depths : BrIf(d)
  BY <1>8, BrIfKeepsStack
<1>9. CASE \E n \in TableSizes : \E ds \in [1 .. n -> Depths] : BrTable(ds)
  BY <1>9, BrTableKeepsStack
<1>10. CASE Return
  BY <1>10, ReturnKeepsStack
<1>11. CASE UNCHANGED vars
  BY <1>11 DEF vars, OInv
<1>12. QED
  BY <1>1, <1>2, <1>3, <1>4, <1>5, <1>6, <1>7, <1>8, <1>9, <1>10, <1>11 DEF Next

LEMMA OInvHolds == Spec => []OInv
<1>1. QED
  BY InitOInv, NextOInv, PTL DEF Spec

\* The compiler gives up on no body the loader accepted: what an opcode pops is
\* in the innermost block and has the type asked for.
THEOREM FailsNever == Spec => []NeverFails
<1>1. OInv => NeverFails
  BY DEF OInv, NeverFails
<1>2. QED
  BY <1>1, OInvHolds, PTL

\* Skipped code, both branches of an if and taken branches leave every open
\* block with the operands the type system gives it.
THEOREM OperandsInvariant == Spec => []OperandsAgree
<1>1. OInv => OperandsAgree
  <2>. SUFFICES ASSUME OInv PROVE OperandsAgree
    OBVIOUS
  <2>1. blocks \in Seq(OpenBlocks) /\ Len(types) = Len(blocks)
    BY DEF OInv, StackInv
  <2>2. ASSUME NEW k \in 1 .. Len(blocks)
        PROVE  Len(blocks[k].values) = Len(types[k]) /\ Pops(blocks[k].values, types[k])
    <3>1. Agree(blocks[k].values, types[k])
      BY DEF OInv, StackInv
    <3>2. QED
      BY <3>1, AllPops DEF Agree
  <2>3. QED
    BY <2>1, <2>2, LenProperties DEF OperandsAgree
<1>2. QED
  BY <1>1, OInvHolds, PTL
=============================================================================
