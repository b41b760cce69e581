--------------------------- MODULE AotGraphProofs ---------------------------
(***************************************************************************)
(* The basic blocks the code generator builds, for all types, opcodes and  *)
(* bounds: each ends once (EndsInvariant), can be reached unless it is     *)
(* removed (ReachedInvariant), and has a value for every phi and edge      *)
(* (PhisInvariant); is_reachable tells the truth about the blocks still    *)
(* open (ReachableInvariant).                                              *)
(***************************************************************************)
EXTENDS AotOperandsProofs

-----------------------------------------------------------------------------
(* The inductive invariant.  bs is the block stack, g the function, del the *)
(* basic blocks removed, tr the block of exceptions, homes the block the    *)
(* builder appends to, if there is one, and new those created for an opcode *)
(* that is still being compiled.                                            *)

Matched(x) == x.incoming = x.preds
EndOf(bs, x) == \E k \in 1 .. Len(bs) : bs[k].end = x
ElseOf(bs, x) == \E k \in 1 .. Len(bs) : ElsePending(bs[k]) /\ bs[k].else = x

\* An open block: where it goes on is still open, and an edge leads to its end
\* exactly when is_reachable says so.  Only an if has its end from the start.
OpenOK(b, g, del, taken) ==
  /\ {b.entry, b.else, b.end} \subseteq {None} \cup 1 .. Len(g)
  /\ b.end # None => /\ g[b.end].ends = 0 /\ b.end \notin taken \cup del
                     /\ Matched(g[b.end])
  /\ ElsePending(b) => /\ g[b.else].ends = 0 /\ b.else \notin taken
                       /\ g[b.else].preds # << >>
  /\ b.label = "loop" => /\ b.entry # None /\ Matched(g[b.entry])
                         /\ g[b.entry].preds # << >>
  /\ b.reachable <=> (b.end # None /\ g[b.end].preds # << >>)
  /\ b.label # "if" /\ b.end # None => b.reachable
  /\ b.skipElse => b.else = None

\* No two open blocks go on in the same place.
Apart(bs) ==
  \A j \in 1 .. Len(bs), k \in 1 .. Len(bs) :
    /\ bs[j].end # None /\ bs[j].end = bs[k].end => j = k
    /\ ElsePending(bs[j]) /\ ElsePending(bs[k]) /\ bs[j].else = bs[k].else => j = k
    /\ ElsePending(bs[j]) => bs[j].else # bs[k].end

BlockOK(bs, g, del, homes, new, x) ==
  /\ g[x].ends <= 1
  /\ g[x].ends = 0 => x \in homes \cup new \cup del \/ EndOf(bs, x) \/ ElseOf(bs, x)
  /\ g[x].phis = 0 \/ Matched(g[x])
  /\ x \in del => g[x].preds = << >>
  /\ g[x].preds = << >> => x = 1 \/ x \in new \cup del \/ EndOf(bs, x)

Body(bs, g, del, tr, homes, new) ==
  /\ \A k \in 1 .. Len(bs) : OpenOK(bs[k], g, del, homes \cup new)
  /\ Apart(bs)
  /\ \A x \in 1 .. Len(g) : BlockOK(bs, g, del, homes, new, x)
  /\ del \subseteq 1 .. Len(g) /\ new \subseteq 1 .. Len(g) /\ new \cap del = {}
  /\ tr # None => tr \in 1 .. Len(g) /\ Matched(g[tr]) /\ g[tr].preds # << >>

\* While the body is compiled: the builder appends to a, which can be reached.
Graph(bs, g, a, del, tr, new) ==
  /\ a \in 1 .. Len(g) /\ g[a].ends = 0 /\ a \notin new
  /\ a = 1 \/ g[a].preds # << >>
  /\ Body(bs, g, del, tr, {a}, new)

GInv ==
  /\ at \in 1 .. Len(ir)
  /\ outcome # "compiled" => Graph(blocks, ir, at, deleted, trap, {})
  /\ outcome = "compiled" => blocks = << >> /\ Body(<< >>, ir, deleted, trap, {}, {})

-----------------------------------------------------------------------------
(* Blocks created for an opcode *)

LEMMA AddNew ==
  ASSUME NEW bs \in Seq(OpenBlocks), NEW g \in Seq(BasicBlocks), NEW a, NEW del, NEW tr, NEW new,
         Graph(bs, g, a, del, tr, new), NEW e \in BasicBlocks,
         e.ends <= 1, e.preds = << >>, e.incoming = << >>
  PROVE  Graph(bs, Append(g, e), a, del, tr, new \cup {Len(g) + 1})
<1>. DEFINE h == Append(g, e)
            l == Len(g)
            new1 == new \cup {l + 1}
<1>1. /\ l \in Nat /\ Len(h) = l + 1 /\ h[l + 1] = e
      /\ \A x \in 1 .. l : h[x] = g[x]
  BY AppendProperties, LenProperties
<1>. HIDE DEF h, l
<1>2. ASSUME NEW k \in 1 .. Len(bs) PROVE OpenOK(bs[k], h, del, {a} \cup new1)
  <2>1. OpenOK(bs[k], g, del, {a} \cup new)
    BY DEF Graph, Body
  <2>2. None \notin 1 .. l + 1
    BY <1>1, ControlAssumption
  <2>3. /\ bs[k].end # None => bs[k].end \in 1 .. l
        /\ bs[k].else # None => bs[k].else \in 1 .. l
        /\ bs[k].entry # None => bs[k].entry \in 1 .. l
    BY <2>1 DEF OpenOK, l
  <2>4. ElsePending(bs[k]) => bs[k].else # None
    BY DEF ElsePending
  <2>5. QED
    BY <1>1, <2>1, <2>2, <2>3, <2>4 DEF OpenOK
<1>3. ASSUME NEW x \in 1 .. l + 1 PROVE BlockOK(bs, h, del, {a}, new1, x)
  <2>1. CASE x = l + 1
    <3>1. x \notin del
      BY <1>1, <2>1 DEF Graph, Body, l
    <3>2. Matched(h[x])
      BY <1>1, <2>1 DEF Matched
    <3>3. QED
      BY <1>1, <2>1, <3>1, <3>2 DEF BlockOK
  <2>2. CASE x # l + 1
    <3>1. x \in 1 .. l /\ h[x] = g[x]
      BY <1>1, <2>2
    <3>2. BlockOK(bs, g, del, {a}, new, x)
      BY <3>1 DEF Graph, Body, l
    <3>3. QED
      BY <3>1, <3>2 DEF BlockOK
  <2>3. QED
    BY <2>1, <2>2
<1>4. /\ Apart(bs) /\ del \subseteq 1 .. l /\ new \subseteq 1 .. l /\ new \cap del = {}
      /\ tr # None => tr \in 1 .. l /\ Matched(g[tr]) /\ g[tr].preds # << >>
      /\ a \in 1 .. l /\ g[a].ends = 0 /\ a \notin new /\ (a = 1 \/ g[a].preds # << >>)
  BY DEF Graph, Body, l
<1>5. /\ del \subseteq 1 .. Len(h) /\ new1 \subseteq 1 .. Len(h) /\ new1 \cap del = {}
      /\ tr # None => tr \in 1 .. Len(h) /\ Matched(h[tr]) /\ h[tr].preds # << >>
      /\ a \in 1 .. Len(h) /\ h[a].ends = 0 /\ a \notin new1 /\ (a = 1 \/ h[a].preds # << >>)
  BY <1>1, <1>4
<1>6. Body(bs, h, del, tr, {a}, new1)
  BY <1>1, <1>2, <1>3, <1>4, <1>5 DEF Body
<1>7. QED
  BY <1>5, <1>6 DEF Graph, h, l

\* Body in which the edges and phis of one basic block change.
LEMMA PassedBlock ==
  ASSUME NEW b \in BasicBlocks, NEW n \in Nat, NEW from \in Nat
  PROVE  /\ Passed(b, n, from).ends = b.ends /\ Passed(b, n, from).preds # << >>
         /\ Matched(b) => Matched(Passed(b, n, from))
<1>1. Append(b.preds, from) # << >>
  <2>1. b.preds \in Seq(Nat)
    BY DEF BasicBlocks
  <2>2. /\ Append(b.preds, from) \in Seq(Nat)
        /\ Len(Append(b.preds, from)) = Len(b.preds) + 1 /\ Len(b.preds) \in Nat
    BY <2>1, AppendProperties, LenProperties
  <2>3. QED
    BY <2>2, EmptySeq
<1>2. /\ Passed(b, n, from).ends = b.ends
      /\ Passed(b, n, from).preds = Append(b.preds, from)
      /\ Passed(b, n, from).incoming = Append(b.incoming, from)
  BY DEF BasicBlocks, Passed
<1>3. QED
  BY <1>1, <1>2 DEF Matched


\* h is g with one more edge to y, passed with its values.
Reached(g, h, y) ==
  /\ h \in Seq(BasicBlocks) /\ Len(h) = Len(g)
  /\ h[y].ends = g[y].ends /\ h[y].preds # << >> /\ Matched(h[y])
  /\ \A x \in 1 .. Len(g) : x # y => h[x] = g[x]

LEMMA PassReaches ==
  ASSUME NEW g \in Seq(BasicBlocks), NEW y \in 1 .. Len(g), Matched(g[y]),
         NEW n \in Nat, NEW from \in Nat
  PROVE  Reached(g, Passes(g, y, n, from), y)
<1>1. /\ Passes(g, y, n, from) \in Seq(BasicBlocks)
      /\ Len(Passes(g, y, n, from)) = Len(g)
      /\ Passes(g, y, n, from)[y] = Passed(g[y], n, from)
      /\ \A x \in 1 .. Len(g) : x # y => Passes(g, y, n, from)[x] = g[x]
  BY PassesBlock
<1>2. g[y] \in BasicBlocks
  BY ElementOfSeq
<1>3. /\ Passed(g[y], n, from).ends = g[y].ends /\ Passed(g[y], n, from).preds # << >>
      /\ Matched(Passed(g[y], n, from))
  BY <1>2, PassedBlock
<1>4. QED
  BY <1>1, <1>3 DEF Reached

\* An edge with its values to a block that has its values so far, and is either
\* new or reached already.
LEMMA ReachKeepsGraph ==
  ASSUME NEW bs \in Seq(OpenBlocks), NEW g \in Seq(BasicBlocks), NEW a, NEW del, NEW tr, NEW new,
         Graph(bs, g, a, del, tr, new), NEW y \in 1 .. Len(g),
         y \in new \/ g[y].preds # << >>, NEW h, Reached(g, h, y)
  PROVE  Graph(bs, h, a, del, tr, new)
<1>. DEFINE l == Len(g)
<1>1. /\ h \in Seq(BasicBlocks) /\ Len(h) = l
      /\ Matched(h[y]) /\ h[y].preds # << >> /\ h[y].ends = g[y].ends
  BY DEF Reached
<1>2. \A x \in 1 .. l : /\ h[x].ends = g[x].ends
                        /\ Matched(g[x]) => Matched(h[x])
                        /\ h[x].preds = << >> => g[x].preds = << >>
                        /\ x # y => h[x] = g[x]
  BY DEF Reached
<1>3. y \notin del
  <2>1. BlockOK(bs, g, del, {a}, new, y)
    BY DEF Graph, Body
  <2>2. QED
    BY <2>1 DEF Graph, Body, BlockOK
<1>4. ASSUME NEW k \in 1 .. Len(bs) PROVE OpenOK(bs[k], h, del, {a} \cup new)
  <2>1. OpenOK(bs[k], g, del, {a} \cup new)
    BY DEF Graph, Body
  <2>2. /\ bs[k].end # None => bs[k].end \in 1 .. l /\ bs[k].end \notin new
        /\ bs[k].else # None => bs[k].else \in 1 .. l
        /\ bs[k].entry # None => bs[k].entry \in 1 .. l
    BY <2>1 DEF OpenOK
  <2>3. ElsePending(bs[k]) => bs[k].else # None
    BY DEF ElsePending
  <2>4. bs[k].end = y => g[y].preds # << >>
    BY <2>2, ControlAssumption
  <2>5. bs[k].end # None => (h[bs[k].end].preds = << >> <=> g[bs[k].end].preds = << >>)
    BY <1>1, <1>2, <2>2, <2>4
  <2>6. QED
    BY <1>1, <1>2, <2>1, <2>2, <2>3, <2>5 DEF OpenOK
<1>5. ASSUME NEW x \in 1 .. l PROVE BlockOK(bs, h, del, {a}, new, x)
  <2>1. BlockOK(bs, g, del, {a}, new, x)
    BY DEF Graph, Body
  <2>2. CASE x = y
    BY <1>1, <1>2, <1>3, <2>1, <2>2 DEF BlockOK
  <2>3. CASE x # y
    BY <1>2, <2>1, <2>3 DEF BlockOK
  <2>4. QED
    BY <2>2, <2>3
<1>6. /\ Apart(bs) /\ del \subseteq 1 .. l /\ new \subseteq 1 .. l /\ new \cap del = {}
      /\ tr # None => tr \in 1 .. l /\ Matched(g[tr]) /\ g[tr].preds # << >>
      /\ a \in 1 .. l /\ g[a].ends = 0 /\ a \notin new /\ (a = 1 \/ g[a].preds # << >>)
  BY DEF Graph, Body
<1>7. Body(bs, h, del, tr, {a}, new)
  BY <1>1, <1>2, <1>4, <1>5, <1>6 DEF Body
<1>8. QED
  BY <1>1, <1>2, <1>6, <1>7 DEF Graph

\* A branch to the end of block k, created for it or there before.
LEMMA FlagKeepsGraph ==
  ASSUME NEW bs \in Seq(OpenBlocks), NEW g \in Seq(BasicBlocks), NEW a, NEW del, NEW tr, NEW new,
         Graph(bs, g, a, del, tr, new), NEW k \in 1 .. Len(bs), NEW y \in 1 .. Len(g),
         (bs[k].end = None /\ y \in new /\ g[y].ends = 0) \/ y = bs[k].end,
         NEW h, Reached(g, h, y)
  PROVE  Graph([bs EXCEPT ![k] = Flagged(bs[k], y)], h, a, del, tr, new \ {y})
<1>. DEFINE l == Len(g)
            c == Flagged(bs[k], y)
            cs == [bs EXCEPT ![k] = c]
<1>1. /\ h \in Seq(BasicBlocks) /\ Len(h) = l
      /\ Matched(h[y]) /\ h[y].preds # << >> /\ h[y].ends = g[y].ends
      /\ \A x \in 1 .. l : x # y => h[x] = g[x]
  BY DEF Reached
<1>2. bs[k] \in OpenBlocks /\ y \in Nat /\ y # None /\ y \in BlockId
  BY ElementOfSeq, LenProperties, ControlAssumption DEF BlockId
<1>3. /\ c \in OpenBlocks /\ c.end = y /\ c.reachable = TRUE /\ c.label = bs[k].label
      /\ c.entry = bs[k].entry /\ c.else = bs[k].else /\ c.skipElse = bs[k].skipElse
      /\ ElsePending(c) <=> ElsePending(bs[k])
  BY <1>2 DEF Flagged, OpenBlocks, ElsePending
<1>4. /\ Len(cs) = Len(bs) /\ cs[k] = c
      /\ \A j \in 1 .. Len(bs) : j # k => cs[j] = bs[j]
  <2>. HIDE DEF c
  <2>1. QED
    BY <1>3, ExceptSeq
<1>. HIDE DEF c, cs
<1>5. /\ \A j \in 1 .. Len(bs) : OpenOK(bs[j], g, del, {a} \cup new)
      /\ Apart(bs) /\ \A x \in 1 .. l : BlockOK(bs, g, del, {a}, new, x)
      /\ del \subseteq 1 .. l /\ new \subseteq 1 .. l /\ new \cap del = {}
      /\ tr # None => tr \in 1 .. l /\ Matched(g[tr]) /\ g[tr].preds # << >>
      /\ a \in 1 .. l /\ g[a].ends = 0 /\ a \notin new /\ (a = 1 \/ g[a].preds # << >>)
  BY DEF Graph, Body
<1>6. y \notin del /\ y # a /\ g[y].ends = 0
  BY <1>2, <1>5 DEF OpenOK
<1>7. /\ \A j \in 1 .. Len(bs) : j # k => bs[j].end # y
      /\ \A j \in 1 .. Len(bs) : ElsePending(bs[j]) => bs[j].else # y
  <2>1. CASE bs[k].end = None /\ y \in new
    BY <1>2, <1>5, <2>1 DEF OpenOK
  <2>2. CASE y = bs[k].end
    BY <1>2, <1>5, <2>2 DEF Apart
  <2>3. QED
    BY <2>1, <2>2
<1>8. ASSUME NEW j \in 1 .. Len(cs) PROVE OpenOK(cs[j], h, del, {a} \cup (new \ {y}))
  <2>1. OpenOK(bs[j], g, del, {a} \cup new) /\ j \in 1 .. Len(bs)
    BY <1>4, <1>5
  <2>2. \A x \in 1 .. l : /\ h[x].ends = g[x].ends
                          /\ Matched(g[x]) => Matched(h[x])
                          /\ h[x].preds = << >> => g[x].preds = << >>
    BY <1>1
  <2>3. /\ bs[j].end # None => bs[j].end \in 1 .. l
        /\ bs[j].else # None => bs[j].else \in 1 .. l
        /\ bs[j].entry # None => bs[j].entry \in 1 .. l
        /\ ElsePending(bs[j]) => bs[j].else # None
    BY <2>1 DEF OpenOK, ElsePending
  <2>4. CASE j = k
    BY <1>1, <1>2, <1>3, <1>4, <1>6, <2>1, <2>2, <2>3, <2>4 DEF OpenOK
  <2>5. CASE j # k
    <3>1. cs[j] = bs[j] /\ (bs[j].end # None => h[bs[j].end] = g[bs[j].end])
      BY <1>1, <1>4, <1>7, <2>1, <2>3, <2>5
    <3>2. /\ bs[j].end # None => Matched(h[bs[j].end]) /\ h[bs[j].end].ends = 0
          /\ ElsePending(bs[j]) => h[bs[j].else].ends = 0 /\ h[bs[j].else].preds # << >>
          /\ bs[j].label = "loop" => Matched(h[bs[j].entry]) /\ h[bs[j].entry].preds # << >>
      BY <2>1, <2>2, <2>3 DEF OpenOK
    <3>. HIDE DEF Matched
    <3>3. OpenOK(bs[j], h, del, {a} \cup (new \ {y}))
      BY <1>1, <2>1, <3>1, <3>2 DEF OpenOK
    <3>4. QED
      BY <3>1, <3>3
  <2>6. QED
    BY <2>4, <2>5
<1>9. Apart(cs)
  BY <1>2, <1>3, <1>4, <1>5, <1>7 DEF Apart
<1>10. ASSUME NEW x \in 1 .. l PROVE BlockOK(cs, h, del, {a}, new \ {y}, x)
  <2>1. BlockOK(bs, g, del, {a}, new, x)
    BY <1>5
  <2>2. CASE x = y
    <3>1. EndOf(cs, x)
      BY <1>3, <1>4, <2>2 DEF EndOf
    <3>2. QED
      BY <1>1, <1>6, <2>1, <2>2, <3>1 DEF BlockOK
  <2>3. CASE x # y
    <3>1. x # None
      BY ControlAssumption, LenProperties
    <3>2. EndOf(bs, x) => EndOf(cs, x)
      BY <1>4, <2>3, <3>1 DEF EndOf
    <3>3. ElseOf(bs, x) => ElseOf(cs, x)
      BY <1>3, <1>4 DEF ElseOf
    <3>4. h[x] = g[x]
      BY <1>1, <2>3
    <3>5. QED
      BY <2>1, <2>3, <3>2, <3>3, <3>4 DEF BlockOK
  <2>4. QED
    BY <2>2, <2>3
<1>11. /\ new \ {y} \subseteq 1 .. l /\ (new \ {y}) \cap del = {}
       /\ tr # None => tr \in 1 .. l /\ Matched(h[tr]) /\ h[tr].preds # << >>
       /\ h[a].ends = 0 /\ a \notin new \ {y} /\ (a = 1 \/ h[a].preds # << >>)
  BY <1>1, <1>5, <1>6
<1>12. Body(cs, h, del, tr, {a}, new \ {y})
  BY <1>1, <1>4, <1>5, <1>8, <1>9, <1>10, <1>11 DEF Body
<1>13. Graph(cs, h, a, del, tr, new \ {y})
  BY <1>1, <1>5, <1>11, <1>12 DEF Graph
<1>14. QED
  BY <1>13 DEF cs, c

\* The open blocks but for their operands.
SameBlock(b, c) ==
  /\ c.label = b.label /\ c.entry = b.entry /\ c.else = b.else /\ c.end = b.end
  /\ c.reachable = b.reachable /\ c.skipElse = b.skipElse
  /\ ElsePending(c) <=> ElsePending(b)

\* What the operands are, and where instructions are put, does not matter.
LEMMA SameGraph ==
  ASSUME NEW bs, NEW cs, NEW g, NEW h, NEW a, NEW del, NEW tr, NEW new,
         Graph(bs, g, a, del, tr, new), Len(cs) = Len(bs), Len(h) = Len(g),
         \A k \in 1 .. Len(bs) : SameBlock(bs[k], cs[k]),
         \A x \in 1 .. Len(g) : SameBasic(g[x], h[x])
  PROVE  Graph(cs, h, a, del, tr, new)
<1>. DEFINE l == Len(g)
<1>1. /\ \A j \in 1 .. Len(bs) : OpenOK(bs[j], g, del, {a} \cup new)
      /\ Apart(bs) /\ \A x \in 1 .. l : BlockOK(bs, g, del, {a}, new, x)
      /\ del \subseteq 1 .. l /\ new \subseteq 1 .. l /\ new \cap del = {}
      /\ tr # None => tr \in 1 .. l /\ Matched(g[tr]) /\ g[tr].preds # << >>
      /\ a \in 1 .. l /\ g[a].ends = 0 /\ a \notin new /\ (a = 1 \/ g[a].preds # << >>)
  BY DEF Graph, Body
<1>2. \A x \in 1 .. l : /\ h[x].ends = g[x].ends /\ h[x].preds = g[x].preds
                        /\ h[x].phis = g[x].phis /\ (Matched(h[x]) <=> Matched(g[x]))
  BY DEF SameBasic, Matched
<1>3. ASSUME NEW k \in 1 .. Len(cs) PROVE OpenOK(cs[k], h, del, {a} \cup new)
  <2>1. OpenOK(bs[k], g, del, {a} \cup new) /\ SameBlock(bs[k], cs[k])
    BY <1>1
  <2>2. /\ bs[k].end # None => bs[k].end \in 1 .. l
        /\ bs[k].else # None => bs[k].else \in 1 .. l
        /\ bs[k].entry # None => bs[k].entry \in 1 .. l
        /\ ElsePending(bs[k]) => bs[k].else # None
    BY <2>1 DEF OpenOK, ElsePending
  <2>3. QED
    BY <1>2, <2>1, <2>2 DEF OpenOK, SameBlock
<1>4. Apart(cs)
  BY <1>1 DEF Apart, SameBlock
<1>5. ASSUME NEW x \in 1 .. l PROVE BlockOK(cs, h, del, {a}, new, x)
  <2>1. EndOf(bs, x) => EndOf(cs, x)
    BY DEF EndOf, SameBlock
  <2>2. ElseOf(bs, x) => ElseOf(cs, x)
    BY DEF ElseOf, SameBlock
  <2>3. QED
    BY <1>1, <1>2, <2>1, <2>2 DEF BlockOK
<1>6. /\ tr # None => tr \in 1 .. l /\ Matched(h[tr]) /\ h[tr].preds # << >>
      /\ h[a].ends = 0 /\ (a = 1 \/ h[a].preds # << >>)
  BY <1>1, <1>2
<1>7. Body(cs, h, del, tr, {a}, new)
  BY <1>1, <1>3, <1>4, <1>5, <1>6 DEF Body
<1>8. QED
  BY <1>1, <1>6, <1>7 DEF Graph

\* The block of exceptions is kept.
LEMMA TakeTrap ==
  ASSUME NEW bs, NEW g, NEW a, NEW del, NEW tr, NEW new, Graph(bs, g, a, del, tr, new),
         NEW y \in new, g[y].ends = 1, Matched(g[y]), g[y].preds # << >>
  PROVE  Graph(bs, g, a, del, y, new \ {y})
<1>. DEFINE l == Len(g)
<1>1. /\ \A j \in 1 .. Len(bs) : OpenOK(bs[j], g, del, {a} \cup new)
      /\ Apart(bs) /\ \A x \in 1 .. l : BlockOK(bs, g, del, {a}, new, x)
      /\ del \subseteq 1 .. l /\ new \subseteq 1 .. l /\ new \cap del = {}
      /\ a \in 1 .. l /\ g[a].ends = 0 /\ a \notin new /\ (a = 1 \/ g[a].preds # << >>)
  BY DEF Graph, Body
<1>2. \A j \in 1 .. Len(bs) : OpenOK(bs[j], g, del, {a} \cup (new \ {y}))
  BY <1>1 DEF OpenOK
<1>3. \A x \in 1 .. l : BlockOK(bs, g, del, {a}, new \ {y}, x)
  BY <1>1 DEF BlockOK
<1>4. Body(bs, g, del, y, {a}, new \ {y})
  BY <1>1, <1>2, <1>3 DEF Body
<1>5. QED
  BY <1>1, <1>4 DEF Graph

\* An edge without values leads to a new block, which has no phis.
LEMMA EdgeNew ==
  ASSUME NEW bs, NEW g \in Seq(BasicBlocks), NEW a, NEW del, NEW tr, NEW new,
         Graph(bs, g, a, del, tr, new), NEW y \in new, g[y].phis = 0, NEW from \in Nat,
         g[y].preds = << >>
  PROVE  /\ Graph(bs, Edge(g, y, from), a, del, tr, new)
         /\ Edge(g, y, from) \in Seq(BasicBlocks) /\ Len(Edge(g, y, from)) = Len(g)
         /\ Edge(g, y, from)[y].preds # << >> /\ Edge(g, y, from)[y].ends = g[y].ends
<1>. DEFINE l == Len(g)
<1>1. /\ \A j \in 1 .. Len(bs) : OpenOK(bs[j], g, del, {a} \cup new)
      /\ Apart(bs) /\ \A x \in 1 .. l : BlockOK(bs, g, del, {a}, new, x)
      /\ del \subseteq 1 .. l /\ new \subseteq 1 .. l /\ new \cap del = {}
      /\ tr # None => tr \in 1 .. l /\ Matched(g[tr]) /\ g[tr].preds # << >>
      /\ a \in 1 .. l /\ g[a].ends = 0 /\ a \notin new /\ (a = 1 \/ g[a].preds # << >>)
  BY DEF Graph, Body
<1>2. y \in 1 .. l /\ g[y] \in BasicBlocks
  BY <1>1, ElementOfSeq
<1>3. PICK h : h = Edge(g, y, from)
  OBVIOUS
<1>4. /\ h \in Seq(BasicBlocks) /\ Len(h) = l
      /\ h[y] = Joined(g[y], from)
      /\ \A x \in 1 .. l : x # y => h[x] = g[x]
  <2>1. /\ Edge(g, y, from) \in Seq(BasicBlocks) /\ Len(Edge(g, y, from)) = Len(g)
        /\ \A x \in 1 .. Len(g) :
             Edge(g, y, from)[x] = IF x = y THEN Joined(g[x], from) ELSE g[x]
    BY <1>2, EdgeBlock, SMTT(20)
  <2>2. QED
    BY <1>2, <1>3, <2>1
<1>5. h[y].ends = g[y].ends /\ h[y].phis = 0 /\ h[y].preds # << >>
  <2>1. h[y].preds = Append(g[y].preds, from) /\ h[y].ends = g[y].ends /\ h[y].phis = g[y].phis
    BY <1>2, <1>4 DEF BasicBlocks, Joined
  <2>2. g[y].preds \in Seq(Nat)
    BY <1>2 DEF BasicBlocks
  <2>3. /\ Append(g[y].preds, from) \in Seq(Nat)
        /\ Len(Append(g[y].preds, from)) = Len(g[y].preds) + 1 /\ Len(g[y].preds) \in Nat
    BY <2>2, AppendProperties, LenProperties
  <2>4. QED
    BY <2>1, <2>3, EmptySeq
<1>6. ASSUME NEW j \in 1 .. Len(bs) PROVE OpenOK(bs[j], h, del, {a} \cup new)
  <2>1. OpenOK(bs[j], g, del, {a} \cup new)
    BY <1>1
  <2>2. /\ bs[j].end # None => h[bs[j].end] = g[bs[j].end]
        /\ ElsePending(bs[j]) => h[bs[j].else] = g[bs[j].else]
        /\ bs[j].label = "loop" => h[bs[j].entry] = g[bs[j].entry]
    BY <1>4, <2>1 DEF OpenOK, ElsePending
  <2>3. QED
    BY <1>4, <2>1, <2>2 DEF OpenOK
<1>7. \A x \in 1 .. l : BlockOK(bs, h, del, {a}, new, x)
  BY <1>1, <1>4, <1>5 DEF BlockOK
<1>8. tr # None => tr \in 1 .. l /\ Matched(h[tr]) /\ h[tr].preds # << >>
  BY <1>1, <1>4
<1>9. h[a] = g[a]
  BY <1>1, <1>4
<1>10. Body(bs, h, del, tr, {a}, new)
  BY <1>1, <1>4, <1>6, <1>7, <1>8 DEF Body
<1>11. Graph(bs, h, a, del, tr, new)
  BY <1>1, <1>4, <1>9, <1>10 DEF Graph
<1>12. QED
  BY <1>3, <1>4, <1>5, <1>11

-----------------------------------------------------------------------------
(* The end of a basic block, and the next one *)

\* The blocks new are the same in g and h.
Untouched(new, g, h) == \A x \in new : h[x] = g[x]

LEMMA EndKeepsBody ==
  ASSUME NEW bs, NEW g \in Seq(BasicBlocks), NEW a, NEW del, NEW tr, NEW new,
         Graph(bs, g, a, del, tr, new)
  PROVE  /\ Body(bs, Terminate(g, a), del, tr, {}, new)
         /\ Terminate(g, a) \in Seq(BasicBlocks) /\ Len(Terminate(g, a)) = Len(g)
         /\ Untouched(new, g, Terminate(g, a))
<1>. DEFINE l == Len(g)
<1>0. PICK h : h = Terminate(g, a)
  OBVIOUS
<1>1. /\ \A j \in 1 .. Len(bs) : OpenOK(bs[j], g, del, {a} \cup new)
      /\ Apart(bs) /\ \A x \in 1 .. l : BlockOK(bs, g, del, {a}, new, x)
      /\ del \subseteq 1 .. l /\ new \subseteq 1 .. l /\ new \cap del = {}
      /\ tr # None => tr \in 1 .. l /\ Matched(g[tr]) /\ g[tr].preds # << >>
      /\ a \in 1 .. l /\ g[a].ends = 0 /\ a \notin new
  BY DEF Graph, Body
<1>2. /\ h \in Seq(BasicBlocks) /\ Len(h) = l
      /\ \A x \in 1 .. l : h[x] = IF x = a THEN Ended(g[x]) ELSE g[x]
  BY <1>0, TerminateBlock, SMTT(20)
<1>3. g[a] \in BasicBlocks
  BY <1>1, ElementOfSeq
<1>4. h[a].ends = 1 /\ h[a].preds = g[a].preds /\ h[a].phis = g[a].phis
      /\ h[a].incoming = g[a].incoming
  <2>1. h[a] = Ended(g[a]) /\ g[a].ends = 0
    BY <1>1, <1>2
  <2>2. /\ Ended(g[a]).ends = g[a].ends + 1 /\ Ended(g[a]).preds = g[a].preds
        /\ Ended(g[a]).phis = g[a].phis /\ Ended(g[a]).incoming = g[a].incoming
    BY <1>3 DEF Ended, BasicBlocks
  <2>3. QED
    BY <2>1, <2>2
<1>5. \A x \in 1 .. l : /\ x # a => h[x] = g[x]
                        /\ h[x].preds = g[x].preds /\ h[x].phis = g[x].phis
                        /\ Matched(h[x]) <=> Matched(g[x])
  BY <1>2, <1>4 DEF Matched
<1>6. ASSUME NEW j \in 1 .. Len(bs) PROVE OpenOK(bs[j], h, del, {} \cup new)
  <2>1. OpenOK(bs[j], g, del, {a} \cup new)
    BY <1>1
  <2>2. /\ bs[j].end # None => bs[j].end \in 1 .. l /\ bs[j].end # a
        /\ bs[j].else # None => bs[j].else \in 1 .. l
        /\ bs[j].entry # None => bs[j].entry \in 1 .. l
        /\ ElsePending(bs[j]) => bs[j].else # None /\ bs[j].else # a
    BY <2>1 DEF OpenOK, ElsePending
  <2>3. QED
    BY <1>2, <1>5, <2>1, <2>2 DEF OpenOK
<1>7. ASSUME NEW x \in 1 .. l PROVE BlockOK(bs, h, del, {}, new, x)
  <2>1. BlockOK(bs, g, del, {a}, new, x)
    BY <1>1
  <2>2. QED
    BY <1>4, <1>5, <2>1 DEF BlockOK
<1>8. tr # None => tr \in 1 .. l /\ Matched(h[tr]) /\ h[tr].preds # << >>
  BY <1>1, <1>5
<1>9. Body(bs, h, del, tr, {}, new)
  BY <1>1, <1>2, <1>6, <1>7, <1>8 DEF Body
<1>10. Untouched(new, g, h)
  BY <1>1, <1>5 DEF Untouched
<1>11. QED
  BY <1>0, <1>2, <1>9, <1>10

\* The code goes on in a new block that something leads to.
LEMMA StartKeepsGraph ==
  ASSUME NEW bs, NEW g, NEW del, NEW tr, NEW new, Body(bs, g, del, tr, {}, new),
         NEW n \in new, g[n].ends = 0, g[n].preds # << >>
  PROVE  Graph(bs, g, n, del, tr, new \ {n})
<1>1. /\ \A j \in 1 .. Len(bs) : OpenOK(bs[j], g, del, {} \cup new)
      /\ Apart(bs) /\ \A x \in 1 .. Len(g) : BlockOK(bs, g, del, {}, new, x)
      /\ del \subseteq 1 .. Len(g) /\ new \subseteq 1 .. Len(g) /\ new \cap del = {}
      /\ tr # None => tr \in 1 .. Len(g) /\ Matched(g[tr]) /\ g[tr].preds # << >>
  BY DEF Body
<1>2. \A j \in 1 .. Len(bs) : OpenOK(bs[j], g, del, {n} \cup (new \ {n}))
  BY <1>1 DEF OpenOK
<1>3. \A x \in 1 .. Len(g) : BlockOK(bs, g, del, {n}, new \ {n}, x)
  BY <1>1 DEF BlockOK
<1>4. Body(bs, g, del, tr, {n}, new \ {n})
  BY <1>1, <1>2, <1>3 DEF Body
<1>5. QED
  BY <1>1, <1>4 DEF Graph

\* The blocks in which code does not go on are left behind.
LEMMA CutBody ==
  ASSUME NEW bs, NEW g, NEW del, NEW tr, Body(bs, g, del, tr, {}, {}), Len(bs) \in Nat,
         NEW n \in 0 .. Len(bs), \A k \in n + 1 .. Len(bs) : ~Resumes(bs[k]),
         NEW cs, Len(cs) = n, \A k \in 1 .. n : cs[k] = bs[k]
  PROVE  Body(cs, g, del \cup LeftBehind(bs, n), tr, {}, {})
<1>. DEFINE l == Len(g)
            gone == LeftBehind(bs, n)
            all == del \cup gone
<1>1. /\ \A j \in 1 .. Len(bs) : OpenOK(bs[j], g, del, {})
      /\ Apart(bs) /\ \A x \in 1 .. l : BlockOK(bs, g, del, {}, {}, x)
      /\ del \subseteq 1 .. l
      /\ tr # None => tr \in 1 .. l /\ Matched(g[tr]) /\ g[tr].preds # << >>
  BY DEF Body
<1>2. \A k \in n + 1 .. Len(bs) : k \in 1 .. Len(bs) /\ k > n /\ ~ElsePending(bs[k])
                                  /\ ~bs[k].reachable
  BY DEF Resumes
<1>3. \A x : x \in gone <=> \E k \in n + 1 .. Len(bs) :
                              bs[k].label = "if" /\ bs[k].end = x /\ x # None
  BY DEF LeftBehind
<1>. HIDE DEF gone
<1>4. ASSUME NEW k \in n + 1 .. Len(bs), bs[k].end # None
      PROVE  bs[k].end \in gone /\ bs[k].end \in 1 .. l /\ g[bs[k].end].preds = << >>
  <2>1. OpenOK(bs[k], g, del, {}) /\ ~bs[k].reachable
    BY <1>1, <1>2
  <2>2. QED
    BY <1>3, <1>4, <2>1 DEF OpenOK
<1>5. ASSUME NEW x \in gone PROVE x \in 1 .. l /\ g[x].preds = << >>
  BY <1>3, <1>4
<1>6. ASSUME NEW k \in 1 .. n PROVE OpenOK(cs[k], g, all, {})
  <2>1. OpenOK(bs[k], g, del, {}) /\ cs[k] = bs[k] /\ k \in 1 .. Len(bs)
    BY <1>1
  <2>2. bs[k].end # None => bs[k].end \notin gone
    BY <1>1, <1>2, <1>3, <2>1 DEF Apart
  <2>3. QED
    BY <2>1, <2>2 DEF OpenOK
<1>7. Apart(cs)
  BY <1>1 DEF Apart
<1>8. ASSUME NEW x \in 1 .. l PROVE BlockOK(cs, g, all, {}, {}, x)
  <2>1. BlockOK(bs, g, del, {}, {}, x)
    BY <1>1
  <2>2. x # None
    BY ControlAssumption, LenProperties
  <2>3. EndOf(bs, x) => EndOf(cs, x) \/ x \in gone
    <3>1. SUFFICES ASSUME NEW k \in 1 .. Len(bs), bs[k].end = x
                   PROVE  EndOf(cs, x) \/ x \in gone
      BY DEF EndOf
    <3>2. CASE k <= n
      BY <3>1, <3>2 DEF EndOf
    <3>3. CASE ~(k <= n)
      BY <1>4, <2>2, <3>1, <3>3
    <3>4. QED
      BY <3>2, <3>3
  <2>4. ElseOf(bs, x) => ElseOf(cs, x)
    <3>1. SUFFICES ASSUME NEW k \in 1 .. Len(bs), ElsePending(bs[k]), bs[k].else = x
                   PROVE  ElseOf(cs, x)
      BY DEF ElseOf
    <3>2. k <= n
      BY <1>2, <3>1
    <3>3. QED
      BY <3>1, <3>2 DEF ElseOf
  <2>5. QED
    BY <1>5, <2>1, <2>3, <2>4 DEF BlockOK
<1>9. all \subseteq 1 .. l
  BY <1>1, <1>5
<1>10. QED
  BY <1>1, <1>6, <1>7, <1>8, <1>9 DEF Body, gone

\* The code goes on in the else of the innermost block.
LEMMA ElseKeepsGraph ==
  ASSUME NEW bs, NEW g, NEW del, NEW tr, Body(bs, g, del, tr, {}, {}),
         NEW k \in 1 .. Len(bs), ElsePending(bs[k]),
         NEW cs, Len(cs) = Len(bs), \A j \in 1 .. Len(bs) : j # k => cs[j] = bs[j],
         NEW c, cs[k] = c, c.label = bs[k].label, c.entry = bs[k].entry, c.else = bs[k].else,
         c.end = bs[k].end, c.reachable = bs[k].reachable, c.skipElse = bs[k].skipElse,
         ~ElsePending(c)
  PROVE  Graph(cs, g, bs[k].else, del, tr, {})
<1>. DEFINE l == Len(g)
            a == bs[k].else
<1>1. /\ \A j \in 1 .. Len(bs) : OpenOK(bs[j], g, del, {})
      /\ Apart(bs) /\ \A x \in 1 .. l : BlockOK(bs, g, del, {}, {}, x)
      /\ del \subseteq 1 .. l
      /\ tr # None => tr \in 1 .. l /\ Matched(g[tr]) /\ g[tr].preds # << >>
  BY DEF Body
<1>2. a \in 1 .. l /\ g[a].ends = 0 /\ g[a].preds # << >>
  BY <1>1 DEF OpenOK, ElsePending
<1>3. a # None
  BY DEF ElsePending
<1>4. /\ \A j \in 1 .. Len(bs) : bs[j].end # a
      /\ \A j \in 1 .. Len(bs) : j # k /\ ElsePending(bs[j]) => bs[j].else # a
  BY <1>1 DEF Apart
<1>. HIDE DEF a
<1>5. ASSUME NEW j \in 1 .. Len(cs) PROVE OpenOK(cs[j], g, del, {a} \cup {})
  <2>1. OpenOK(bs[j], g, del, {}) /\ j \in 1 .. Len(bs)
    BY <1>1
  <2>2. CASE j = k
    BY <1>4, <2>1, <2>2 DEF OpenOK
  <2>3. CASE j # k
    BY <1>4, <2>1, <2>3 DEF OpenOK
  <2>4. QED
    BY <2>2, <2>3
<1>6. Apart(cs)
  BY <1>1 DEF Apart
<1>7. ASSUME NEW x \in 1 .. l PROVE BlockOK(cs, g, del, {a}, {}, x)
  <2>1. BlockOK(bs, g, del, {}, {}, x)
    BY <1>1
  <2>2. EndOf(bs, x) => EndOf(cs, x)
    BY DEF EndOf
  <2>3. ElseOf(bs, x) => ElseOf(cs, x) \/ x = a
    BY DEF ElseOf, a
  <2>4. QED
    BY <2>1, <2>2, <2>3 DEF BlockOK
<1>8. Body(cs, g, del, tr, {a}, {})
  BY <1>1, <1>5, <1>6, <1>7 DEF Body
<1>9. QED
  BY <1>2, <1>8 DEF Graph, a

\* The innermost block is left for its end.
LEMMA LeaveKeepsGraph ==
  ASSUME NEW bs, NEW g, NEW del, NEW tr, Body(bs, g, del, tr, {}, {}),
         NEW k \in Nat, k = Len(bs), k > 0, bs[k].reachable, ~ElsePending(bs[k]),
         NEW cs, Len(cs) = k - 1, \A j \in 1 .. k - 1 : SameBlock(bs[j], cs[j])
  PROVE  Graph(cs, g, bs[k].end, del, tr, {})
<1>. DEFINE l == Len(g)
            a == bs[k].end
<1>1. /\ \A j \in 1 .. k : OpenOK(bs[j], g, del, {})
      /\ Apart(bs) /\ \A x \in 1 .. l : BlockOK(bs, g, del, {}, {}, x)
      /\ del \subseteq 1 .. l
      /\ tr # None => tr \in 1 .. l /\ Matched(g[tr]) /\ g[tr].preds # << >>
      /\ k \in 1 .. k
  BY DEF Body
<1>2. a \in 1 .. l /\ g[a].ends = 0 /\ g[a].preds # << >> /\ a # None
  BY <1>1 DEF OpenOK
<1>3. \A j \in 1 .. k - 1 : /\ j \in 1 .. k /\ bs[j].end # a
                            /\ ElsePending(bs[j]) => bs[j].else # a
  BY <1>1, <1>2 DEF Apart
<1>. HIDE DEF a
<1>4. ASSUME NEW j \in 1 .. Len(cs) PROVE OpenOK(cs[j], g, del, {a} \cup {})
  <2>1. OpenOK(bs[j], g, del, {}) /\ j \in 1 .. k - 1 /\ SameBlock(bs[j], cs[j])
    BY <1>1, <1>3
  <2>2. QED
    BY <1>3, <2>1 DEF OpenOK, SameBlock
<1>5. Apart(cs)
  BY <1>1, <1>3 DEF Apart, SameBlock
<1>6. ASSUME NEW x \in 1 .. l PROVE BlockOK(cs, g, del, {a}, {}, x)
  <2>1. BlockOK(bs, g, del, {}, {}, x)
    BY <1>1
  <2>2. EndOf(bs, x) => EndOf(cs, x) \/ x = a
    <3>1. SUFFICES ASSUME NEW j \in 1 .. k, bs[j].end = x PROVE EndOf(cs, x) \/ x = a
      BY DEF EndOf
    <3>2. CASE j = k
      BY <3>1, <3>2 DEF a
    <3>3. CASE j # k
      <4>1. j \in 1 .. Len(cs) /\ SameBlock(bs[j], cs[j])
        BY <3>3
      <4>2. QED
        BY <3>1, <4>1 DEF EndOf, SameBlock
    <3>4. QED
      BY <3>2, <3>3
  <2>3. ElseOf(bs, x) => ElseOf(cs, x)
    <3>1. SUFFICES ASSUME NEW j \in 1 .. k, ElsePending(bs[j]), bs[j].else = x PROVE ElseOf(cs, x)
      BY DEF ElseOf
    <3>2. j # k
      BY <3>1
    <3>3. j \in 1 .. Len(cs) /\ SameBlock(bs[j], cs[j])
      BY <3>2
    <3>4. QED
      BY <3>1, <3>3 DEF ElseOf, SameBlock
  <2>4. QED
    BY <1>2, <2>1, <2>2, <2>3 DEF BlockOK
<1>7. Body(cs, g, del, tr, {a}, {})
  BY <1>1, <1>4, <1>5, <1>6 DEF Body
<1>8. QED
  BY <1>2, <1>7 DEF Graph, a

\* Other operands in one of the open blocks.
LEMMA OperandsSame ==
  ASSUME NEW bs \in Seq(OpenBlocks), NEW n \in 1 .. Len(bs), NEW v \in Seq(Values)
  PROVE  /\ Len([bs EXCEPT ![n].values = v]) = Len(bs)
         /\ \A k \in 1 .. Len(bs) : SameBlock(bs[k], [bs EXCEPT ![n].values = v][k])
<1>. DEFINE e == [bs[n] EXCEPT !.values = v]
            cs == [bs EXCEPT ![n] = e]
<1>1. bs[n] \in OpenBlocks
  BY ElementOfSeq
<1>2. e \in OpenBlocks /\ SameBlock(bs[n], e)
  BY <1>1 DEF OpenBlocks, SameBlock, ElsePending
<1>3. \A k \in 1 .. Len(bs) : SameBlock(bs[k], bs[k])
  BY DEF SameBlock
<1>4. cs = [bs EXCEPT ![n].values = v]
  OBVIOUS
<1>. HIDE DEF e
<1>5. Len(cs) = Len(bs) /\ \A k \in 1 .. Len(bs) : cs[k] = IF k = n THEN e ELSE bs[k]
  BY <1>2, ExceptSeq
<1>. HIDE DEF cs
<1>6. QED
  BY <1>2, <1>3, <1>4, <1>5

\* handle_next_reachable_block, the builder's block having ended.
LEMMA SkipKeepsGraph ==
  ASSUME Compiling, NEW bs, StackInv(bs, types), NEW g \in Seq(BasicBlocks),
         Graph(bs, g, at, deleted, trap', {}), NextReachable(bs, Terminate(g, at))
  PROVE  GInv'
<1>. DEFINE n == Innermost(bs)
            h == Terminate(g, at)
            del == deleted \cup LeftBehind(bs, n)
            cs == SubSeq(bs, 1, n)
            low == SubSeq(bs, 1, n - 1)
<1>1. bs \in Seq(OpenBlocks) /\ Len(bs) \in Nat /\ outcome # "compiled"
  BY LenProperties DEF StackInv, Compiling
<1>2. /\ n \in 0 .. Len(bs)
      /\ n > 0 => Resumes(bs[n])
      /\ \A k \in n + 1 .. Len(bs) : ~Resumes(bs[k])
  BY <1>1, InnermostResumes
<1>3. /\ deleted' = del
      /\ IF n = 0 THEN /\ outcome' = "compiled" /\ blocks' = << >> /\ types' = << >>
                       /\ ir' = h /\ UNCHANGED at
         ELSE IF ElsePending(bs[n]) THEN EnterElse(bs, n, h) ELSE LeaveBlock(bs, n, h)
  BY DEF NextReachable
<1>4. at \in 1 .. Len(g)
  BY DEF Graph
<1>. HIDE DEF n, del
<1>5. Body(bs, h, deleted, trap', {}, {}) /\ h \in Seq(BasicBlocks) /\ Len(h) = Len(g)
  BY EndKeepsBody
<1>. HIDE DEF h
<1>6. /\ Len(cs) = n /\ \A k \in 1 .. n : cs[k] = bs[k]
      /\ cs \in Seq(OpenBlocks)
  BY <1>1, <1>2, CutStack DEF StackInv
<1>. HIDE DEF cs
<1>7. Body(cs, h, deleted', trap', {}, {})
  BY <1>1, <1>2, <1>3, <1>5, <1>6, CutBody DEF del
<1>8. CASE n = 0
  <2>1. cs = << >>
    BY <1>6, <1>8, EmptySeq
  <2>2. QED
    BY <1>3, <1>4, <1>5, <1>7, <1>8, <2>1 DEF GInv
<1>9. ASSUME n # 0
      PROVE  /\ n \in 1 .. Len(bs) /\ n - 1 \in Nat /\ bs[n] \in OpenBlocks /\ n \in Nat
             /\ low \in Seq(OpenBlocks) /\ Len(low) = n - 1
             /\ \A k \in 1 .. n - 1 : low[k] = bs[k]
             /\ (n = 1) <=> (bs[n].label = "function")
  <2>1. n \in 1 .. Len(bs) /\ n - 1 \in Nat /\ n - 1 <= Len(bs) /\ n \in Nat
    BY <1>1, <1>2, <1>9
  <2>2. /\ StackInv(low, SubSeq(types, 1, n - 1)) /\ Len(low) = n - 1
        /\ \A k \in 1 .. n - 1 : low[k] = bs[k]
    BY <2>1, CutStack
  <2>3. bs[n] \in OpenBlocks
    BY <1>1, <2>1, ElementOfSeq
  <2>. HIDE DEF low
  <2>4. QED
    BY <2>1, <2>2, <2>3 DEF StackInv
<1>. HIDE DEF low
<1>10. CASE n # 0 /\ ElsePending(bs[n])
  <2>. DEFINE b == bs[n]
              c == [b EXCEPT !.past = TRUE, !.values = Phis(b.params)]
  <2>1. blocks' = Append(low, c) /\ ir' = h /\ at' = b.else /\ outcome' = outcome
    BY <1>3, <1>10 DEF EnterElse, low
  <2>2. b \in OpenBlocks /\ n \in 1 .. n
    BY <1>9, <1>10
  <2>3. /\ c.label = b.label /\ c.entry = b.entry /\ c.else = b.else /\ c.end = b.end
        /\ c.reachable = b.reachable /\ c.skipElse = b.skipElse /\ ~ElsePending(c)
    BY <2>2 DEF OpenBlocks, ElsePending
  <2>4. c \in OpenBlocks
    <3>1. Phis(b.params) \in Seq(Values)
      BY <2>2, AgreePhis DEF OpenBlocks, Agree
    <3>2. QED
      BY <2>2, <3>1 DEF OpenBlocks
  <2>5. b = cs[n] /\ ElsePending(cs[n])
    BY <1>6, <1>10, <2>2
  <2>. HIDE DEF c, b
  <2>6. /\ Len(blocks') = n /\ blocks'[n] = c
        /\ \A k \in 1 .. n : k # n => blocks'[k] = cs[k]
    <3>1. /\ Len(Append(low, c)) = n - 1 + 1 /\ Append(low, c)[n - 1 + 1] = c
          /\ \A k \in 1 .. n - 1 : Append(low, c)[k] = low[k]
      BY <1>9, <1>10, <2>4, AppendProperties
    <3>2. n \in Nat /\ n - 1 + 1 = n /\ \A k \in 1 .. n : k # n => k \in 1 .. n - 1
      BY <1>9, <1>10
    <3>3. \A k \in 1 .. n - 1 : low[k] = bs[k]
      BY <1>9, <1>10
    <3>4. QED
      BY <1>6, <2>1, <3>1, <3>2, <3>3
  <2>7. Graph(blocks', h, cs[n].else, deleted', trap', {})
    BY <1>6, <1>7, <2>2, <2>3, <2>5, <2>6, ElseKeepsGraph
  <2>8. at' \in 1 .. Len(ir')
    BY <2>1, <2>5, <2>7 DEF Graph
  <2>9. QED
    BY <1>1, <2>1, <2>5, <2>7, <2>8 DEF GInv
<1>11. CASE n # 0 /\ ~ElsePending(bs[n])
  <2>. DEFINE b == bs[n]
  <2>1. LeaveBlock(bs, n, h) /\ b.reachable /\ n > 0 /\ ~ElsePending(b)
    BY <1>2, <1>3, <1>9, <1>11 DEF Resumes
  <2>2. b = cs[n] /\ n \in 1 .. n
    BY <1>6, <1>9, <1>11
  <2>. HIDE DEF b
  <2>3. ASSUME NEW ds, Len(ds) = n - 1, \A k \in 1 .. n - 1 : SameBlock(low[k], ds[k])
        PROVE  Graph(ds, h, b.end, deleted', trap', {})
    <3>1. \A k \in 1 .. n - 1 : SameBlock(cs[k], ds[k])
      BY <1>6, <1>9, <1>11, <2>3
    <3>2. QED
      BY <1>6, <1>7, <1>9, <1>11, <2>1, <2>2, <2>3, <3>1, LeaveKeepsGraph
  <2>4. CASE b.label = "function"
    <3>1. n = 1
      BY <1>9, <1>11, <2>4 DEF b
    <3>2. Graph(<< >>, h, b.end, deleted', trap', {})
      BY <2>3, <3>1, EmptySeq
    <3>3. /\ outcome' = "compiled" /\ blocks' = << >> /\ ir' = Terminate(h, b.end)
          /\ at' = b.end
      BY <2>1, <2>4 DEF LeaveBlock, Returns, b
    <3>4. Body(<< >>, ir', deleted', trap', {}, {}) /\ Len(ir') = Len(h)
      <4>1. PICK es : es = << >>
        OBVIOUS
      <4>2. Graph(es, h, b.end, deleted', trap', {})
        BY <3>2, <4>1
      <4>3. /\ Body(es, Terminate(h, b.end), deleted', trap', {}, {})
            /\ Len(Terminate(h, b.end)) = Len(h)
        BY <1>5, <4>2, EndKeepsBody
      <4>4. QED
        BY <3>3, <4>1, <4>3
    <3>5. at' \in 1 .. Len(ir')
      BY <3>2, <3>3, <3>4 DEF Graph
    <3>6. QED
      BY <3>3, <3>4, <3>5 DEF GInv
  <2>5. CASE b.label # "function"
    <3>. DEFINE v == low[n - 1].values \o Phis(b.results)
    <3>1. /\ blocks' = [low EXCEPT ![n - 1].values = v] /\ ir' = h /\ outcome' = outcome
          /\ at' = b.end
      BY <2>1, <2>5 DEF LeaveBlock, low, b
    <3>2. n - 1 \in 1 .. Len(low)
      BY <1>9, <1>11, <2>5 DEF b
    <3>3. v \in Seq(Values)
      <4>1. low[n - 1] \in OpenBlocks /\ b \in OpenBlocks
        BY <1>9, <1>11, <3>2, ElementOfSeq DEF b
      <4>2. Phis(b.results) \in Seq(Values) /\ low[n - 1].values \in Seq(Values)
        BY <4>1, AgreePhis DEF OpenBlocks, Agree
      <4>3. QED
        BY <4>2, ConcatProperties
    <3>. HIDE DEF v
    <3>4. Len(blocks') = n - 1 /\ \A k \in 1 .. n - 1 : SameBlock(low[k], blocks'[k])
      BY <1>9, <1>11, <3>1, <3>2, <3>3, OperandsSame
    <3>5. Graph(blocks', h, b.end, deleted', trap', {})
      BY <2>3, <3>4
    <3>6. at' \in 1 .. Len(ir')
      BY <3>1, <3>5 DEF Graph
    <3>7. QED
      BY <1>1, <3>1, <3>5, <3>6 DEF GInv
  <2>6. QED
    BY <2>4, <2>5
<1>12. QED
  BY <1>8, <1>10, <1>11

\* A block is opened: start is where its code begins, new its basic blocks.
LEMMA PushKeepsGraph ==
  ASSUME NEW bs \in Seq(OpenBlocks), NEW g, NEW del, NEW tr, NEW new,
         Body(bs, g, del, tr, {}, new), NEW b \in OpenBlocks,
         NEW start \in new, g[start].ends = 0, g[start].preds # << >>,
         OpenOK(b, g, del, {start}), b.end \in {None} \cup new,
         ElsePending(b) => b.else \in new /\ b.else # b.end,
         \A x \in new : x = start \/ x = b.end \/ (ElsePending(b) /\ x = b.else)
  PROVE  Graph(Append(bs, b), g, start, del, tr, {})
<1>. DEFINE l == Len(g)
            n == Len(bs)
            cs == Append(bs, b)
<1>1. /\ \A j \in 1 .. n : OpenOK(bs[j], g, del, {} \cup new)
      /\ Apart(bs) /\ \A x \in 1 .. l : BlockOK(bs, g, del, {}, new, x)
      /\ del \subseteq 1 .. l /\ new \subseteq 1 .. l /\ new \cap del = {}
      /\ tr # None => tr \in 1 .. l /\ Matched(g[tr]) /\ g[tr].preds # << >>
  BY DEF Body
<1>2. /\ n \in Nat /\ Len(cs) = n + 1 /\ cs[n + 1] = b
      /\ \A j \in 1 .. n : cs[j] = bs[j]
  BY AppendProperties, LenProperties
<1>. HIDE DEF n, cs
<1>3. ASSUME NEW j \in 1 .. n + 1, j # n + 1 PROVE j \in 1 .. n /\ cs[j] = bs[j]
  BY <1>2, <1>3
<1>4. ASSUME NEW j \in 1 .. n + 1 PROVE OpenOK(cs[j], g, del, {start} \cup {})
  <2>1. CASE j = n + 1
    BY <1>2, <2>1 DEF OpenOK
  <2>2. CASE j # n + 1
    <3>1. OpenOK(bs[j], g, del, {} \cup new) /\ cs[j] = bs[j]
      BY <1>1, <1>3, <2>2
    <3>2. QED
      BY <3>1 DEF OpenOK
  <2>3. QED
    BY <2>1, <2>2
<1>5. \A j \in 1 .. n : /\ bs[j].end # None => bs[j].end \notin new
                        /\ ElsePending(bs[j]) => bs[j].else \notin new
  BY <1>1 DEF OpenOK
<1>6. b.end # None => b.end \in new
  OBVIOUS
<1>7. Apart(cs)
  <2>1. SUFFICES ASSUME NEW j \in 1 .. n + 1, NEW k \in 1 .. n + 1
        PROVE  /\ cs[j].end # None /\ cs[j].end = cs[k].end => j = k
               /\ ElsePending(cs[j]) /\ ElsePending(cs[k]) /\ cs[j].else = cs[k].else => j = k
               /\ ElsePending(cs[j]) => cs[j].else # cs[k].end
    BY <1>2 DEF Apart
  <2>2. CASE j = n + 1 /\ k = n + 1
    BY <1>2, <2>2
  <2>3. CASE j = n + 1 /\ k # n + 1
    <3>1. k \in 1 .. n /\ cs[k] = bs[k] /\ cs[j] = b
      BY <1>2, <1>3, <2>3
    <3>2. ElsePending(b) => b.else # None
      BY DEF ElsePending
    <3>3. QED
      BY <1>5, <1>6, <3>1, <3>2
  <2>4. CASE j # n + 1 /\ k = n + 1
    <3>1. j \in 1 .. n /\ cs[j] = bs[j] /\ cs[k] = b
      BY <1>2, <1>3, <2>4
    <3>2. ElsePending(bs[j]) => bs[j].else # None
      BY DEF ElsePending
    <3>3. QED
      BY <1>5, <1>6, <3>1, <3>2
  <2>5. CASE j # n + 1 /\ k # n + 1
    BY <1>1, <1>3, <2>5 DEF Apart, n
  <2>6. QED
    BY <2>2, <2>3, <2>4, <2>5
<1>8. ASSUME NEW x \in 1 .. l PROVE BlockOK(cs, g, del, {start}, {}, x)
  <2>1. BlockOK(bs, g, del, {}, new, x)
    BY <1>1
  <2>2. EndOf(bs, x) \/ b.end = x => EndOf(cs, x)
    BY <1>2 DEF EndOf, n
  <2>3. ElseOf(bs, x) \/ (ElsePending(b) /\ b.else = x) => ElseOf(cs, x)
    BY <1>2 DEF ElseOf, n
  <2>4. x \in new => x = start \/ EndOf(cs, x) \/ ElseOf(cs, x)
    BY <2>2, <2>3
  <2>5. x \in new /\ g[x].preds = << >> => EndOf(cs, x)
    BY <2>2 DEF OpenOK
  <2>6. QED
    BY <2>1, <2>2, <2>3, <2>4, <2>5 DEF BlockOK
<1>9. Body(cs, g, del, tr, {start}, {})
  BY <1>1, <1>2, <1>4, <1>7, <1>8 DEF Body
<1>10. QED
  BY <1>1, <1>9 DEF Graph, cs

-----------------------------------------------------------------------------
(* Exceptions and branches *)

LEMMA FreshBlock ==
  /\ BasicBlock \in BasicBlocks
  /\ BasicBlock.ends = 0 /\ BasicBlock.phis = 0
  /\ BasicBlock.preds = << >> /\ BasicBlock.incoming = << >>
  BY NewBasicBlock DEF BasicBlock

LEMMA Appended ==
  ASSUME NEW g \in Seq(BasicBlocks), NEW e \in BasicBlocks
  PROVE  /\ Append(g, e) \in Seq(BasicBlocks) /\ Len(Append(g, e)) = Len(g) + 1
         /\ Len(g) \in Nat /\ Len(g) + 1 \in 1 .. Len(g) + 1
         /\ Append(g, e)[Len(g) + 1] = e
         /\ \A x \in 1 .. Len(g) : Append(g, e)[x] = g[x]
  BY AppendProperties, LenProperties

\* A branch to got_exception, which is created for the first of them.
LEMMA RaiseKeepsGraph ==
  ASSUME NEW bs \in Seq(OpenBlocks), NEW g \in Seq(BasicBlocks), NEW del, at \in Nat,
         sandbox, Graph(bs, g, at, del, trap, {})
  PROVE  Graph(bs, Raise(g), at, del, Trap(g), {}) /\ Raise(g) \in Seq(BasicBlocks)
<1>1. Raise(g) = Passes(WithTrap(g), Trap(g), 1, at)
  BY DEF Raise
<1>2. CASE trap # None
  <2>1. Trap(g) = trap /\ WithTrap(g) = g
    BY <1>2 DEF Trap, WithTrap
  <2>2. trap \in 1 .. Len(g) /\ Matched(g[trap]) /\ g[trap].preds # << >>
    BY <1>2 DEF Graph, Body
  <2>3. Reached(g, Passes(g, trap, 1, at), trap)
    BY <2>2, PassReaches
  <2>4. Graph(bs, Passes(g, trap, 1, at), at, del, trap, {})
    BY <2>2, <2>3, ReachKeepsGraph
  <2>5. QED
    BY <1>1, <2>1, <2>3, <2>4 DEF Reached
<1>3. CASE trap = None
  <2>. DEFINE e == [BasicBlock EXCEPT !.ends = 1, !.phis = 1]
              n == Len(g) + 1
              h == Append(g, e)
              i == Passes(h, n, 1, at)
  <2>1. Trap(g) = n /\ WithTrap(g) = h
    BY <1>3 DEF Trap, WithTrap
  <2>2. e \in BasicBlocks /\ e.ends = 1 /\ e.preds = << >> /\ e.incoming = << >>
    BY NewBasicBlock DEF BasicBlock
  <2>. HIDE DEF e
  <2>3. h \in Seq(BasicBlocks) /\ Len(h) = n /\ h[n] = e /\ n \in 1 .. n
    BY <2>2, Appended
  <2>4. Graph(bs, h, at, del, trap, {} \cup {n})
    BY <2>2, AddNew
  <2>5. Matched(h[n])
    BY <2>2, <2>3 DEF Matched
  <2>. HIDE DEF h, n
  <2>6. Reached(h, i, n)
    BY <2>3, <2>5, PassReaches
  <2>. HIDE DEF i
  <2>7. Graph(bs, i, at, del, trap, {} \cup {n})
    BY <2>3, <2>4, <2>6, ReachKeepsGraph
  <2>8. n \in {} \cup {n} /\ i[n].ends = 1 /\ Matched(i[n]) /\ i[n].preds # << >>
    BY <2>2, <2>3, <2>6 DEF Reached
  <2>9. Graph(bs, i, at, del, n, ({} \cup {n}) \ {n})
    BY <2>7, <2>8, TakeTrap
  <2>10. ({} \cup {n}) \ {n} = {}
    OBVIOUS
  <2>11. QED
    BY <1>1, <2>1, <2>6, <2>9, <2>10 DEF Reached, i
<1>4. QED
  BY <1>2, <1>3

\* A branch leaves the new blocks alone, and creates at most one more.
Branched(f, e, del, tr, new) ==
  /\ e \in Emitted /\ Len(e.blocks) = Len(f.blocks)
  /\ Graph(e.blocks, e.ir, at, del, tr, new)
  /\ \A x \in new : f.ir[x].preds = << >> => e.ir[x] = f.ir[x]

LEMMA ToEndKeepsGraph ==
  ASSUME NEW f \in Emitted, at \in Nat, NEW k \in 1 .. Len(f.blocks), NEW del, NEW tr, NEW new,
         Graph(f.blocks, f.ir, at, del, tr, new)
  PROVE  Branched(f, ToEnd(f, k), del, tr, new)
<1>. DEFINE bs == f.blocks
            b == bs[k]
            e == IF b.end = None THEN Len(f.ir) + 1 ELSE b.end
            g == IF b.end = None THEN Append(f.ir, BasicBlock) ELSE f.ir
            n == Len(b.results)
            h == Passes(g, e, n, at)
            cs == [bs EXCEPT ![k] = Flagged(b, e)]
            l == Len(f.ir)
<1>1. bs \in Seq(OpenBlocks) /\ f.ir \in Seq(BasicBlocks) /\ b \in OpenBlocks
      /\ l \in Nat
  BY ElementOfSeq, LenProperties DEF Emitted
<1>2. n \in Nat
  BY <1>1, LenProperties DEF OpenBlocks
<1>3. ToEnd(f, k) = [blocks |-> cs, ir |-> h]
  BY DEF ToEnd
<1>4. OpenOK(b, f.ir, del, {at} \cup new) /\ new \subseteq 1 .. l
  BY DEF Graph, Body
<1>5. \E more : /\ Graph(bs, g, at, del, tr, more) /\ g \in Seq(BasicBlocks)
                /\ e \in 1 .. Len(g) /\ Matched(g[e])
                /\ (b.end = None /\ e \in more /\ g[e].ends = 0) \/ e = b.end
                /\ more \ {e} = new /\ \A x \in new : x # e /\ g[x] = f.ir[x]
                /\ \A x \in new : x \in 1 .. Len(g)
  <2>1. CASE b.end = None
    <3>1. Graph(bs, Append(f.ir, BasicBlock), at, del, tr, new \cup {l + 1})
      BY <1>1, FreshBlock, AddNew
    <3>2. /\ g \in Seq(BasicBlocks) /\ Len(g) = l + 1 /\ g[l + 1] = BasicBlock
          /\ \A x \in 1 .. l : g[x] = f.ir[x]
          /\ e = l + 1 /\ g = Append(f.ir, BasicBlock)
      BY <1>1, <2>1, FreshBlock, Appended
    <3>3. Matched(g[e]) /\ g[e].ends = 0
      BY <3>2, FreshBlock DEF Matched
    <3>4. (new \cup {l + 1}) \ {e} = new /\ l + 1 \in 1 .. l + 1
      BY <1>1, <1>4, <3>2
    <3>. HIDE DEF e, g
    <3>5. QED
      BY <1>1, <1>4, <2>1, <3>1, <3>2, <3>3, <3>4, SMTT(30)
  <2>2. CASE b.end # None
    <3>1. e = b.end /\ g = f.ir
      BY <2>2
    <3>2. e \in 1 .. l /\ Matched(g[e]) /\ e \notin new
      BY <1>4, <2>2, <3>1 DEF OpenOK
    <3>. HIDE DEF e, g
    <3>3. QED
      BY <1>1, <1>4, <3>1, <3>2
  <2>3. QED
    BY <2>1, <2>2
<1>. HIDE DEF e, g
<1>6. PICK more : /\ Graph(bs, g, at, del, tr, more) /\ g \in Seq(BasicBlocks)
                  /\ e \in 1 .. Len(g) /\ Matched(g[e])
                  /\ (b.end = None /\ e \in more /\ g[e].ends = 0) \/ e = b.end
                  /\ more \ {e} = new /\ \A x \in new : x # e /\ g[x] = f.ir[x]
                  /\ \A x \in new : x \in 1 .. Len(g)
  BY <1>5
<1>. HIDE DEF n
<1>7. Reached(g, h, e)
  BY <1>2, <1>6, PassReaches
<1>. HIDE DEF h
<1>8. Graph(cs, h, at, del, tr, more \ {e})
  BY <1>1, <1>6, <1>7, FlagKeepsGraph
<1>9. \A x \in new : h[x] = f.ir[x]
  BY <1>6, <1>7 DEF Reached
<1>10. cs \in Seq(OpenBlocks) /\ Len(cs) = Len(bs) /\ h \in Seq(BasicBlocks)
  <2>1. e \in Nat
    BY <1>6, LenProperties
  <2>2. Flagged(b, e) \in OpenBlocks
    BY <1>1, <2>1 DEF Flagged, OpenBlocks, BlockId
  <2>3. QED
    BY <1>1, <1>7, <2>2, ExceptSeq DEF Reached
<1>. HIDE DEF cs
<1>11. ToEnd(f, k).blocks = cs /\ ToEnd(f, k).ir = h /\ ToEnd(f, k) \in Emitted
  BY <1>3, <1>10 DEF Emitted
<1>12. Graph(cs, h, at, del, tr, new)
  BY <1>6, <1>8
<1>13. QED
  BY <1>9, <1>10, <1>11, <1>12 DEF Branched

LEMMA BranchKeepsGraph ==
  ASSUME NEW f \in Emitted, at \in Nat, NEW k \in 1 .. Len(f.blocks), NEW del, NEW tr, NEW new,
         Graph(f.blocks, f.ir, at, del, tr, new)
  PROVE  Branched(f, BranchTo(f, k), del, tr, new)
<1>1. CASE f.blocks[k].label = "loop"
  <2>. DEFINE b == f.blocks[k]
              n == Len(b.params)
              h == Passes(f.ir, b.entry, n, at)
  <2>1. f.blocks \in Seq(OpenBlocks) /\ f.ir \in Seq(BasicBlocks) /\ b \in OpenBlocks
    BY ElementOfSeq DEF Emitted
  <2>2. n \in Nat
    BY <2>1, LenProperties DEF OpenBlocks
  <2>3. BranchTo(f, k) = [f EXCEPT !.ir = h]
    BY <1>1 DEF BranchTo, ToEntry
  <2>4. b.entry \in 1 .. Len(f.ir) /\ Matched(f.ir[b.entry]) /\ f.ir[b.entry].preds # << >>
    <3>1. OpenOK(b, f.ir, del, {at} \cup new)
      BY DEF Graph, Body
    <3>2. QED
      BY <1>1, <3>1 DEF OpenOK
  <2>. HIDE DEF n
  <2>5. Reached(f.ir, h, b.entry)
    BY <2>1, <2>2, <2>4, PassReaches
  <2>. HIDE DEF h, b
  <2>6. Graph(f.blocks, h, at, del, tr, new)
    BY <2>1, <2>4, <2>5, ReachKeepsGraph
  <2>7. \A x \in new : f.ir[x].preds = << >> => h[x] = f.ir[x]
    <3>1. new \subseteq 1 .. Len(f.ir)
      BY DEF Graph, Body
    <3>2. QED
      BY <2>4, <2>5, <3>1 DEF Reached
  <2>8. [f EXCEPT !.ir = h] \in Emitted /\ [f EXCEPT !.ir = h].blocks = f.blocks
        /\ [f EXCEPT !.ir = h].ir = h
    BY <2>5 DEF Emitted, Reached
  <2>9. QED
    BY <2>3, <2>6, <2>7, <2>8 DEF Branched
<1>2. CASE f.blocks[k].label # "loop"
  BY <1>2, ToEndKeepsGraph DEF BranchTo
<1>3. QED
  BY <1>1, <1>2

LEMMA BranchesKeepGraph ==
  ASSUME OInv, Graph(blocks, ir, at, deleted, trap, {}), NEW ds, Len(ds) \in Nat,
         \A i \in 1 .. Len(ds) : ds[i] \in Depths
  PROVE  LET f == BranchToAll(ds) IN Graph(f.blocks, f.ir, at, deleted, trap, {})
<1>. DEFINE n == Len(ds)
<1>1. PICK f : /\ f[0] = Here /\ BranchToAll(ds) = f[n]
               /\ \A i \in 1 .. n : f[i] = BranchTo(f[i - 1], Target(ds[i]))
  BY BranchToAllSteps
<1>. DEFINE S == {i \in 0 .. n : /\ f[i] \in Emitted /\ Len(f[i].blocks) = Len(blocks)
                                 /\ Graph(f[i].blocks, f[i].ir, at, deleted, trap, {})}
<1>2. 0 \in S
  BY <1>1, HereEmitted
<1>3. ASSUME NEW i \in 1 .. n, i - 1 \in S PROVE i \in S
  <2>1. Target(ds[i]) \in 1 .. Len(blocks)
    <3>1. Len(blocks) \in Nat
      BY LenProperties DEF OInv, StackInv
    <3>2. QED
      BY <3>1 DEF Target, Depths, Top
  <2>2. f[i] = BranchTo(f[i - 1], Target(ds[i]))
    BY <1>1
  <2>3. Branched(f[i - 1], f[i], deleted, trap, {})
    BY <1>3, <2>1, <2>2, BranchKeepsGraph DEF OInv
  <2>4. QED
    BY <1>3, <2>3 DEF Branched
<1>. HIDE DEF S
<1>4. \A i \in 0 .. n : i \in S
  BY <1>2, <1>3, UpTo
<1>5. n \in S
  BY <1>4
<1>6. QED
  BY <1>1, <1>5 DEF S

-----------------------------------------------------------------------------
(* Opcodes that open a block *)

LEMMA Open ==
  ASSUME OInv, GInv, Compiling
  PROVE  /\ Graph(blocks, ir, at, deleted, trap, {}) /\ at \in 1 .. Len(ir)
         /\ at \in Nat /\ Len(ir) \in Nat /\ Len(ir) + 1 \in Nat
         /\ blocks \in Seq(OpenBlocks) /\ ir \in Seq(BasicBlocks)
  BY LenProperties DEF OInv, GInv, Compiling, StackInv

\* A block that nothing has been added to yet.
Fresh(b) == b.ends = 0 /\ b.preds = << >> /\ b.phis = 0 /\ b.incoming = << >>

\* The block b opened with the basic blocks new: edges lead to x and y, the code
\* goes on at start.
Opens(b, new, x, y, start) ==
  /\ x \in new /\ y \in new /\ start \in {x, y}
  /\ {b.entry, b.else, b.end} \subseteq {None} \cup new /\ b.end # start
  /\ ElsePending(b) => b.else \in {x, y} /\ b.else # b.end /\ b.else # start
  /\ b.label = "loop" => b.entry \in {x, y}
  /\ b.reachable <=> b.end \in {x, y}
  /\ b.label # "if" /\ b.end # None => b.reachable
  /\ b.skipElse => b.else = None
  /\ \A z \in new : z = start \/ z = b.end \/ (ElsePending(b) /\ z = b.else)

\* The new blocks once edges with their values lead to x and y.
Entered(h, new, x, y) ==
  \A z \in new : h[z].ends = 0 /\ Matched(h[z]) /\ ((h[z].preds # << >>) <=> z \in {x, y})

LEMMA NewIds ==
  ASSUME NEW bs, NEW g \in Seq(BasicBlocks), NEW a, NEW del, NEW tr, NEW new,
         Graph(bs, g, a, del, tr, new)
  PROVE  new \subseteq 1 .. Len(g) /\ None \notin new /\ new \cap del = {}
<1>1. new \subseteq 1 .. Len(g) /\ new \cap del = {}
  BY DEF Graph, Body
<1>2. Len(g) \in Nat
  BY LenProperties
<1>3. None \notin 1 .. Len(g)
  BY <1>2, ControlAssumption
<1>4. QED
  BY <1>1, <1>3

LEMMA PassBoth ==
  ASSUME NEW bs \in Seq(OpenBlocks), NEW g \in Seq(BasicBlocks), NEW a \in Nat, NEW del, NEW tr,
         NEW new, Graph(bs, g, a, del, tr, new), \A z \in new : Fresh(g[z]),
         NEW x \in new, NEW y \in new, NEW n \in Nat,
         NEW h, h = IF x = y THEN Passes(g, x, n, a) ELSE Passes(Passes(g, x, n, a), y, n, a)
  PROVE  Graph(bs, h, a, del, tr, new) /\ h \in Seq(BasicBlocks) /\ Entered(h, new, x, y)
<1>1. new \subseteq 1 .. Len(g)
  BY NewIds
<1>2. \A z \in new : g[z].ends = 0 /\ g[z].preds = << >> /\ Matched(g[z])
  BY DEF Fresh, Matched
<1>3. PICK h1 : h1 = Passes(g, x, n, a)
  OBVIOUS
<1>4. Reached(g, h1, x)
  BY <1>1, <1>2, <1>3, PassReaches
<1>5. Graph(bs, h1, a, del, tr, new)
  BY <1>1, <1>4, ReachKeepsGraph
<1>6. \A z \in new : /\ h1[z].ends = 0 /\ Matched(h1[z])
                     /\ (h1[z].preds # << >>) <=> z = x
  BY <1>1, <1>2, <1>4 DEF Reached
<1>7. h1 \in Seq(BasicBlocks) /\ Len(h1) = Len(g)
  BY <1>4 DEF Reached
<1>8. CASE x = y
  <2>1. h = h1
    BY <1>3, <1>8
  <2>2. QED
    BY <1>5, <1>6, <1>7, <1>8, <2>1 DEF Entered
<1>9. CASE x # y
  <2>1. h = Passes(h1, y, n, a)
    BY <1>3, <1>9
  <2>2. y \in 1 .. Len(h1) /\ Matched(h1[y])
    BY <1>1, <1>6, <1>7
  <2>3. Reached(h1, h, y)
    BY <1>7, <2>1, <2>2, PassReaches
  <2>4. Graph(bs, h, a, del, tr, new)
    BY <1>5, <1>7, <2>2, <2>3, ReachKeepsGraph
  <2>5. Entered(h, new, x, y)
    BY <1>1, <1>6, <1>7, <2>3 DEF Reached, Entered
  <2>6. QED
    BY <2>3, <2>4, <2>5 DEF Reached
<1>10. QED
  BY <1>8, <1>9

LEMMA OpenedOK ==
  ASSUME NEW b, NEW t, NEW del, NEW new, NEW x, NEW y, NEW start,
         Opens(b, new, x, y, start), Entered(t, new, x, y),
         new \subseteq 1 .. Len(t), None \notin new, new \cap del = {}
  PROVE  OpenOK(b, t, del, {start})
<1>1. ElsePending(b) => b.else # None
  BY DEF ElsePending
<1>2. {b.entry, b.else, b.end} \subseteq {None} \cup 1 .. Len(t)
  BY DEF Opens
<1>3. b.end # None => t[b.end].ends = 0 /\ b.end \notin {start} \cup del /\ Matched(t[b.end])
  BY DEF Opens, Entered
<1>4. ElsePending(b) => t[b.else].ends = 0 /\ b.else \notin {start} /\ t[b.else].preds # << >>
  BY <1>1 DEF Opens, Entered
<1>5. b.label = "loop" => b.entry # None /\ Matched(t[b.entry]) /\ t[b.entry].preds # << >>
  BY DEF Opens, Entered
<1>6. b.reachable <=> (b.end # None /\ t[b.end].preds # << >>)
  BY DEF Opens, Entered
<1>7. QED
  BY <1>2, <1>3, <1>4, <1>5, <1>6 DEF OpenOK, Opens

\* Ending the builder's block and pushing b.
LEMMA PushOpened ==
  ASSUME NEW bs \in Seq(OpenBlocks), NEW h \in Seq(BasicBlocks), NEW a, NEW del, NEW tr, NEW new,
         Graph(bs, h, a, del, tr, new), NEW b \in OpenBlocks, NEW x, NEW y, NEW start,
         Opens(b, new, x, y, start), Entered(h, new, x, y)
  PROVE  /\ Graph(Append(bs, b), Terminate(h, a), start, del, tr, {})
         /\ start \in 1 .. Len(Terminate(h, a))
<1>1. PICK t : t = Terminate(h, a)
  OBVIOUS
<1>2. /\ Body(bs, t, del, tr, {}, new) /\ Len(t) = Len(h)
      /\ \A z \in new : t[z] = h[z]
  <2>1. /\ Body(bs, Terminate(h, a), del, tr, {}, new) /\ Len(Terminate(h, a)) = Len(h)
        /\ Untouched(new, h, Terminate(h, a))
    BY EndKeepsBody
  <2>2. QED
    BY <1>1, <2>1 DEF Untouched
<1>3. new \subseteq 1 .. Len(h) /\ None \notin new /\ new \cap del = {}
  BY NewIds
<1>4. Entered(t, new, x, y)
  BY <1>2 DEF Entered
<1>5. OpenOK(b, t, del, {start})
  BY <1>2, <1>3, <1>4, OpenedOK
<1>6. start \in new /\ t[start].ends = 0 /\ t[start].preds # << >>
  BY <1>4 DEF Opens, Entered
<1>7. /\ b.end \in {None} \cup new
      /\ ElsePending(b) => b.else \in new /\ b.else # b.end
      /\ \A z \in new : z = start \/ z = b.end \/ (ElsePending(b) /\ z = b.else)
  BY DEF Opens
<1>8. Graph(Append(bs, b), t, start, del, tr, {})
  BY <1>2, <1>5, <1>6, <1>7, PushKeepsGraph
<1>9. QED
  BY <1>1, <1>2, <1>3, <1>6, <1>8

LEMMA SameIr == ASSUME NEW g PROVE \A z \in 1 .. Len(g) : SameBasic(g[z], g[z])
  BY DEF SameBasic

\* Other operands in an open block.
LEMMA OperandsKeepGraph ==
  ASSUME NEW bs \in Seq(OpenBlocks), NEW k \in 1 .. Len(bs), NEW g, NEW a, NEW del, NEW tr,
         NEW new, Graph(bs, g, a, del, tr, new), NEW v \in Seq(Values)
  PROVE  Graph([bs EXCEPT ![k].values = v], g, a, del, tr, new)
<1>1. PICK cs : cs = [bs EXCEPT ![k].values = v]
  OBVIOUS
<1>2. Len(cs) = Len(bs) /\ \A j \in 1 .. Len(bs) : SameBlock(bs[j], cs[j])
  BY <1>1, OperandsSame
<1>3. Graph(cs, g, a, del, tr, new)
  BY <1>2, SameIr, SameGraph
<1>4. QED
  BY <1>1, <1>3

LEMMA TopKeepsGraph ==
  ASSUME OInv, Compiling, NEW g, NEW a, NEW del, NEW tr, NEW new,
         Graph(blocks, g, a, del, tr, new), NEW v \in Seq(Values)
  PROVE  Graph([blocks EXCEPT ![Top].values = v], g, a, del, tr, new)
<1>1. blocks \in Seq(OpenBlocks) /\ Top \in 1 .. Len(blocks)
  BY TopAgrees DEF OInv, StackInv
<1>2. QED
  BY <1>1, OperandsKeepGraph

\* push_aot_block_to_stack_and_pass_params
LEMMA EnterKeepsGraph ==
  ASSUME OInv, GInv, Compiling, NEW us \in Seq(ValueTypes), Typed(us),
         NEW b \in OpenBlocks, NEW g \in Seq(BasicBlocks), NEW new,
         Graph(blocks, g, at, deleted, trap, new), \A z \in new : Fresh(g[z]),
         NEW x, NEW y, NEW start, Opens(b, new, x, y, start),
         Enter(b, us, g, x, y, start), UNCHANGED trap
  PROVE  GInv'
<1>. DEFINE n == Len(b.params)
            low == [blocks EXCEPT ![Top].values = Rest(@, us)]
            c == [b EXCEPT !.values = Phis(b.params)]
<1>0. PICK h : h = IF x = y THEN Passes(g, x, n, at)
                            ELSE Passes(Passes(g, x, n, at), y, n, at)
  OBVIOUS
<1>1. CASE n > 0 /\ b.entry = None
  <2>1. outcome' = "crashed" /\ UNCHANGED <<blocks, types, ir, at, deleted>>
    BY <1>1 DEF Enter
  <2>2. QED
    BY <2>1, Open DEF GInv
<1>2. CASE ~(n > 0 /\ b.entry = None)
  <2>1. blocks' = Append(low, c) /\ ir' = Terminate(h, at) /\ at' = start
        /\ UNCHANGED <<deleted, outcome>>
    BY <1>0, <1>2 DEF Enter
  <2>2. b.params \in Seq(ValueTypes) /\ n \in Nat /\ at \in Nat
        /\ blocks \in Seq(OpenBlocks)
    BY LenProperties, Open DEF OpenBlocks
  <2>3. x \in new /\ y \in new
    BY DEF Opens
  <2>. HIDE DEF n
  <2>4. Graph(blocks, h, at, deleted, trap, new) /\ h \in Seq(BasicBlocks)
        /\ Entered(h, new, x, y)
    BY <1>0, <2>2, <2>3, PassBoth
  <2>5. Graph(low, h, at, deleted, trap, new) /\ low \in Seq(OpenBlocks)
    <3>1. Rest(Operands, us) \in Seq(Values)
      BY TypedPops DEF Agree
    <3>2. low = [blocks EXCEPT ![Top].values = Rest(Operands, us)]
      BY DEF Operands
    <3>3. low \in Seq(OpenBlocks)
      BY PopTop DEF StackInv
    <3>. HIDE DEF low
    <3>4. QED
      BY <2>4, <3>1, <3>2, <3>3, TopKeepsGraph
  <2>. HIDE DEF low
  <2>6. c \in OpenBlocks /\ Opens(c, new, x, y, start)
    <3>1. Phis(b.params) \in Seq(Values)
      BY <2>2, AgreePhis DEF Agree
    <3>2. /\ c \in OpenBlocks /\ c.end = b.end /\ c.else = b.else /\ c.entry = b.entry
          /\ c.label = b.label /\ c.reachable = b.reachable /\ c.skipElse = b.skipElse
          /\ ElsePending(c) <=> ElsePending(b)
      BY <3>1 DEF OpenBlocks, ElsePending
    <3>. HIDE DEF c
    <3>3. QED
      BY <3>2 DEF Opens
  <2>. HIDE DEF c
  <2>7. /\ Graph(Append(low, c), Terminate(h, at), start, deleted, trap, {})
        /\ start \in 1 .. Len(Terminate(h, at))
    BY <2>4, <2>5, <2>6, PushOpened
  <2>8. QED
    BY <2>1, <2>7 DEF GInv, Compiling
<1>3. QED
  BY <1>1, <1>2

LEMMA OneNew ==
  ASSUME OInv, GInv, Compiling
  PROVE  LET n == Len(ir) + 1
             g == Append(ir, BasicBlock)
         IN  /\ g \in Seq(BasicBlocks) /\ Graph(blocks, g, at, deleted, trap, {n})
             /\ g[n] = BasicBlock /\ Len(g) = n
             /\ \A z \in {n} : Fresh(g[z])
             /\ n \in Nat /\ n # None /\ n \in BlockId
<1>. DEFINE n == Len(ir) + 1
            g == Append(ir, BasicBlock)
<1>1. g \in Seq(BasicBlocks) /\ g[n] = BasicBlock /\ Len(g) = n
  BY Open, FreshBlock, Appended
<1>2. Graph(blocks, g, at, deleted, trap, {} \cup {n})
  BY Open, FreshBlock, AddNew
<1>3. n \in Nat /\ n # None
  BY Open, ControlAssumption
<1>4. {} \cup {n} = {n}
  OBVIOUS
<1>. HIDE DEF g, n
<1>5. \A z \in {n} : Fresh(g[z])
  BY <1>1, FreshBlock DEF Fresh
<1>6. Graph(blocks, g, at, deleted, trap, {n})
  BY <1>2, <1>4
<1>7. QED
  BY <1>1, <1>3, <1>5, <1>6 DEF g, n, BlockId

LEMMA OpenBlockKeepsGraph ==
  ASSUME OInv, GInv, NEW label \in {"block", "loop"}, NEW type \in BlockTypes,
         OpenBlock(label, type)
  PROVE  GInv'
<1>. DEFINE n == Len(ir) + 1
            g == Append(ir, BasicBlock)
            b == [AOTBlock(label, type, FALSE) EXCEPT !.entry = n]
<1>1. type \in [params : Seq(ValueTypes), results : Seq(ValueTypes)]
  BY ControlAssumption
<1>2. Compiling /\ Typed(type.params) /\ type.params \in Seq(ValueTypes)
  BY <1>1 DEF OpenBlock
<1>3. Pops(Operands, type.params)
  BY <1>2, TypedPops
<1>4. Enter(b, type.params, g, n, n, n) /\ UNCHANGED trap
  BY <1>3 DEF OpenBlock, Compiles
<1>5. /\ g \in Seq(BasicBlocks) /\ Graph(blocks, g, at, deleted, trap, {n})
      /\ \A z \in {n} : Fresh(g[z])
      /\ n \in Nat /\ n # None /\ n \in BlockId
  BY <1>2, OneNew
<1>6. /\ b \in OpenBlocks /\ b.label = label /\ b.entry = n /\ b.end = None /\ b.else = None
      /\ b.reachable = FALSE /\ b.skipElse = FALSE
  <2>1. AOTBlock(label, type, FALSE) \in OpenBlocks
    BY <1>1, AOTBlockOpens
  <2>. HIDE DEF n
  <2>2. QED
    BY <1>5, <2>1 DEF OpenBlocks, AOTBlock
<1>7. ~ElsePending(b) /\ b.label # "if"
  BY <1>6 DEF ElsePending
<1>. HIDE DEF b, n, g
<1>8. Opens(b, {n}, n, n, n)
  BY <1>5, <1>6, <1>7 DEF Opens
<1>9. QED
  BY <1>2, <1>4, <1>5, <1>6, <1>8, EnterKeepsGraph

LEMMA IfTrueKeepsGraph ==
  ASSUME OInv, GInv, Compiling, NEW us \in Seq(ValueTypes), Typed(us),
         NEW b \in OpenBlocks, b.label = "if", b.reachable = FALSE, b.end = None,
         b.else = None, IfTrue(b, us), UNCHANGED trap
  PROVE  GInv'
<1>. DEFINE n == Len(ir) + 1
            g == Append(ir, BasicBlock)
            c == [b EXCEPT !.entry = n, !.skipElse = TRUE]
<1>1. Enter(c, us, g, n, n, n)
  BY DEF IfTrue
<1>2. /\ g \in Seq(BasicBlocks) /\ Graph(blocks, g, at, deleted, trap, {n})
      /\ \A z \in {n} : Fresh(g[z])
      /\ n \in Nat /\ n # None /\ n \in BlockId
  BY OneNew
<1>. HIDE DEF n, g
<1>3. /\ c \in OpenBlocks /\ c.label = "if" /\ c.entry = n /\ c.end = None /\ c.else = None
      /\ c.reachable = FALSE
  BY <1>2 DEF OpenBlocks
<1>4. ~ElsePending(c)
  BY <1>3 DEF ElsePending
<1>. HIDE DEF c
<1>5. Opens(c, {n}, n, n, n)
  BY <1>2, <1>3, <1>4 DEF Opens
<1>6. QED
  BY <1>1, <1>2, <1>3, <1>5, EnterKeepsGraph

LEMMA IfFalseKeepsGraph ==
  ASSUME OInv, GInv, Compiling, NEW us \in Seq(ValueTypes), Typed(us), Typed(<<"i32">>),
         NEW b \in OpenBlocks, b.label = "if", b.reachable = FALSE, b.end = None,
         b.entry = None, b.skipElse = FALSE, IfFalse(b, us), UNCHANGED trap
  PROVE  GInv'
<1>. DEFINE n == Len(ir) + 1
            g == Append(ir, BasicBlock)
            c == [b EXCEPT !.else = n, !.past = TRUE]
<1>1. CASE b.hasElse
  <2>1. Enter(c, us, g, n, n, n)
    BY <1>1 DEF IfFalse
  <2>2. /\ g \in Seq(BasicBlocks) /\ Graph(blocks, g, at, deleted, trap, {n})
        /\ \A z \in {n} : Fresh(g[z])
        /\ n \in Nat /\ n # None /\ n \in BlockId
    BY OneNew
  <2>. HIDE DEF n, g
  <2>3. /\ c \in OpenBlocks /\ c.label = "if" /\ c.entry = None /\ c.end = None /\ c.else = n
        /\ c.reachable = FALSE /\ c.skipElse = FALSE /\ ~ElsePending(c)
    BY <2>2 DEF OpenBlocks, ElsePending
  <2>. HIDE DEF c
  <2>4. Opens(c, {n}, n, n, n)
    BY <2>2, <2>3 DEF Opens
  <2>5. QED
    BY <2>1, <2>2, <2>3, <2>4, EnterKeepsGraph
<1>2. CASE ~b.hasElse
  <2>. DEFINE v == Rest(Operands, <<"i32">>)
  <2>1. /\ blocks' = [blocks EXCEPT ![Top].values = v]
        /\ UNCHANGED <<ir, at, deleted, outcome>>
    BY <1>2 DEF IfFalse, Operands
  <2>2. v \in Seq(Values)
    <3>1. <<"i32">> \in Seq(ValueTypes)
      BY DEF ValueTypes
    <3>2. QED
      BY <3>1, TypedPops DEF Agree
  <2>. HIDE DEF v
  <2>3. /\ Len(blocks') = Len(blocks)
        /\ \A k \in 1 .. Len(blocks) : SameBlock(blocks[k], blocks'[k])
    BY <2>1, <2>2, Open, TopAgrees, OperandsSame
  <2>4. \A z \in 1 .. Len(ir) : SameBasic(ir[z], ir[z])
    BY DEF SameBasic
  <2>5. Graph(blocks', ir, at, deleted, trap, {})
    BY <2>3, <2>4, Open, SameGraph
  <2>6. QED
    BY <2>1, <2>5, Open DEF GInv, Compiling
<1>3. QED
  BY <1>1, <1>2

\* h is g with one more basic block.
Extended(g, h) ==
  /\ h \in Seq(BasicBlocks) /\ Len(h) = Len(g) + 1 /\ h[Len(g) + 1] = BasicBlock
  /\ \A x \in 1 .. Len(g) : h[x] = g[x]

LEMMA AddBasicBlock ==
  ASSUME NEW bs \in Seq(OpenBlocks), NEW g \in Seq(BasicBlocks), NEW a, NEW del, NEW tr,
         NEW new, Graph(bs, g, a, del, tr, new), NEW h, h = Append(g, BasicBlock)
  PROVE  Extended(g, h) /\ Graph(bs, h, a, del, tr, new \cup {Len(g) + 1})
<1>1. Extended(g, h)
  BY FreshBlock, Appended DEF Extended
<1>2. BasicBlock \in BasicBlocks /\ BasicBlock.ends <= 1
      /\ BasicBlock.preds = << >> /\ BasicBlock.incoming = << >>
  BY FreshBlock
<1>3. Graph(bs, Append(g, BasicBlock), a, del, tr, new \cup {Len(g) + 1})
  BY <1>2, AddNew
<1>4. QED
  BY <1>1, <1>3

\* The basic blocks of an if: with its else there are three.
IfNew(n, m) == {n, n + 1} \cup (IF m = 3 THEN {n + 2} ELSE {})

LEMMA TwoNew ==
  ASSUME OInv, GInv, Compiling
  PROVE  \E g : /\ g \in Seq(BasicBlocks) /\ Len(g) = Len(ir) + 2
                /\ Graph(blocks, g, at, deleted, trap, IfNew(Len(ir) + 1, 2))
                /\ \A x \in 1 .. Len(ir) : g[x] = ir[x]
                /\ \A x \in Len(ir) + 1 .. Len(ir) + 2 : g[x] = BasicBlock
<1>. DEFINE l == Len(ir)
<1>1. /\ blocks \in Seq(OpenBlocks) /\ ir \in Seq(BasicBlocks) /\ l \in Nat
      /\ Graph(blocks, ir, at, deleted, trap, {})
  BY Open
<1>2. PICK g : g = Append(ir, BasicBlock)
  OBVIOUS
<1>3. Extended(ir, g) /\ Graph(blocks, g, at, deleted, trap, {} \cup {l + 1})
  BY <1>1, <1>2, AddBasicBlock
<1>4. PICK h : h = Append(g, BasicBlock)
  OBVIOUS
<1>5. g \in Seq(BasicBlocks) /\ Len(g) = l + 1
  BY <1>3 DEF Extended
<1>6. Extended(g, h) /\ Graph(blocks, h, at, deleted, trap, ({} \cup {l + 1}) \cup {Len(g) + 1})
  BY <1>1, <1>3, <1>4, <1>5, AddBasicBlock
<1>7. ({} \cup {l + 1}) \cup {Len(g) + 1} = IfNew(l + 1, 2)
  BY <1>1, <1>5 DEF IfNew
<1>8. Graph(blocks, h, at, deleted, trap, IfNew(l + 1, 2))
  BY <1>6, <1>7
<1>9. h \in Seq(BasicBlocks) /\ Len(h) = l + 2
  BY <1>1, <1>5, <1>6 DEF Extended
<1>10. \A x \in 1 .. l : h[x] = ir[x]
  BY <1>1, <1>3, <1>5, <1>6 DEF Extended
<1>11. \A x \in l + 1 .. l + 2 : h[x] = BasicBlock
  <2>1. h[l + 1] = BasicBlock /\ h[l + 2] = BasicBlock
    BY <1>1, <1>3, <1>5, <1>6 DEF Extended
  <2>2. \A x \in l + 1 .. l + 2 : x = l + 1 \/ x = l + 2
    BY <1>1
  <2>3. QED
    BY <2>1, <2>2
<1>12. QED
  BY <1>8, <1>9, <1>10, <1>11

LEMMA ThreeNew ==
  ASSUME OInv, GInv, Compiling
  PROVE  \E g : /\ g \in Seq(BasicBlocks) /\ Len(g) = Len(ir) + 3
                /\ Graph(blocks, g, at, deleted, trap, IfNew(Len(ir) + 1, 3))
                /\ \A x \in 1 .. Len(ir) : g[x] = ir[x]
                /\ \A x \in Len(ir) + 1 .. Len(ir) + 3 : g[x] = BasicBlock
<1>. DEFINE l == Len(ir)
<1>1. blocks \in Seq(OpenBlocks) /\ l \in Nat
  BY Open
<1>2. PICK g : /\ g \in Seq(BasicBlocks) /\ Len(g) = l + 2
               /\ Graph(blocks, g, at, deleted, trap, IfNew(l + 1, 2))
               /\ \A x \in 1 .. l : g[x] = ir[x]
               /\ \A x \in l + 1 .. l + 2 : g[x] = BasicBlock
  BY TwoNew
<1>3. PICK h : h = Append(g, BasicBlock)
  OBVIOUS
<1>4. Extended(g, h) /\ Graph(blocks, h, at, deleted, trap, IfNew(l + 1, 2) \cup {Len(g) + 1})
  BY <1>1, <1>2, <1>3, AddBasicBlock
<1>5. IfNew(l + 1, 2) \cup {Len(g) + 1} = IfNew(l + 1, 3)
  BY <1>1, <1>2 DEF IfNew
<1>6. Graph(blocks, h, at, deleted, trap, IfNew(l + 1, 3))
  BY <1>4, <1>5
<1>7. h \in Seq(BasicBlocks) /\ Len(h) = l + 3
  BY <1>1, <1>2, <1>4 DEF Extended
<1>8. \A x \in 1 .. l : h[x] = ir[x]
  BY <1>1, <1>2, <1>4 DEF Extended
<1>9. ASSUME NEW x \in l + 1 .. l + 3 PROVE h[x] = BasicBlock
  <2>1. CASE x = l + 3
    BY <1>1, <1>2, <1>4, <2>1 DEF Extended
  <2>2. CASE x # l + 3
    <3>1. x \in l + 1 .. l + 2 /\ x \in 1 .. Len(g)
      BY <1>1, <1>2, <2>2
    <3>2. QED
      BY <1>2, <1>4, <3>1 DEF Extended
  <2>3. QED
    BY <2>1, <2>2
<1>10. QED
  BY <1>6, <1>7, <1>8, <1>9

\* A condition that is not constant: two or three basic blocks at once.
LEMMA ManyNew ==
  ASSUME OInv, GInv, Compiling, NEW m \in 2 .. 3, NEW late \in BOOLEAN,
         NEW h, h = [ir \o [i \in 1 .. m |-> BasicBlock] EXCEPT ![at].late = late]
  PROVE  /\ h \in Seq(BasicBlocks) /\ Graph(blocks, h, at, deleted, trap, IfNew(Len(ir) + 1, m))
         /\ \A z \in IfNew(Len(ir) + 1, m) : Fresh(h[z])
<1>. DEFINE l == Len(ir)
<1>1. l \in Nat /\ m \in Nat
  BY Open
<1>2. PICK g : /\ Len(g) = l + m
               /\ Graph(blocks, g, at, deleted, trap, IfNew(l + 1, m))
               /\ \A x \in 1 .. l : g[x] = ir[x]
               /\ \A x \in l + 1 .. l + m : g[x] = BasicBlock
  <2>1. CASE m = 2
    BY <2>1, TwoNew
  <2>2. CASE m = 3
    BY <2>2, ThreeNew
  <2>3. QED
    BY <2>1, <2>2
<1>3. /\ h \in Seq(BasicBlocks) /\ Len(h) = l + m
      /\ \A x \in 1 .. l : SameBasic(ir[x], h[x])
      /\ \A x \in l + 1 .. l + m : SameBasic(BasicBlock, h[x])
  BY <1>1, IfBlocks
<1>4. \A x \in 1 .. Len(g) : SameBasic(g[x], h[x])
  <2>1. \A x \in 1 .. l + m : x \in 1 .. l \/ x \in l + 1 .. l + m
    BY <1>1
  <2>. HIDE DEF l
  <2>2. QED
    BY <1>2, <1>3, <2>1
<1>5. \A k \in 1 .. Len(blocks) : SameBlock(blocks[k], blocks[k])
  BY DEF SameBlock
<1>6. Graph(blocks, h, at, deleted, trap, IfNew(l + 1, m))
  BY <1>2, <1>3, <1>4, <1>5, SameGraph
<1>7. ASSUME NEW z \in IfNew(l + 1, m) PROVE Fresh(h[z])
  <2>1. z \in l + 1 .. l + m
    BY <1>1 DEF IfNew
  <2>2. SameBasic(BasicBlock, h[z])
    BY <1>3, <2>1
  <2>3. QED
    BY <2>2, FreshBlock DEF SameBasic, Fresh
<1>8. QED
  BY <1>3, <1>6, <1>7

LEMMA IfUnknownKeepsGraph ==
  ASSUME OInv, GInv, Compiling, NEW us \in Seq(ValueTypes), Typed(us),
         NEW b \in OpenBlocks, b.label = "if", b.skipElse = FALSE, b.past = FALSE,
         IfUnknown(b, us), UNCHANGED trap
  PROVE  GInv'
<1>. DEFINE n == Len(ir) + 1
            els == IF b.hasElse THEN n + 2 ELSE None
            c == [b EXCEPT !.entry = n, !.end = n + 1, !.reachable = ~b.hasElse,
                           !.else = els]
            m == IF b.hasElse THEN 3 ELSE 2
            late == ~b.hasElse /\ ExtendsLate(b.params)
            h == [ir \o [i \in 1 .. m |-> BasicBlock] EXCEPT ![at].late = late]
            y == IF b.hasElse THEN n + 2 ELSE n + 1
            new == IfNew(n, m)
<1>1. Enter(c, us, h, n, y, n)
  BY DEF IfUnknown
<1>2. n \in Nat /\ n # None /\ n + 1 # None /\ n + 2 # None /\ b.hasElse \in BOOLEAN
      /\ n # n + 1 /\ n + 1 # n + 2 /\ n # n + 2
  BY Open, ControlAssumption DEF OpenBlocks
<1>3. late \in BOOLEAN /\ m \in 2 .. 3
  BY DEF ExtendsLate
<1>4. /\ h \in Seq(BasicBlocks) /\ Graph(blocks, h, at, deleted, trap, new)
      /\ \A z \in new : Fresh(h[z])
  <2>1. PICK i : i = h
    OBVIOUS
  <2>. HIDE DEF late, m
  <2>2. QED
    BY <1>3, <2>1, ManyNew
<1>. HIDE DEF h, late
<1>5. /\ c \in OpenBlocks /\ c.label = "if" /\ c.entry = n /\ c.end = n + 1 /\ c.else = els
      /\ c.reachable = ~b.hasElse /\ c.skipElse = FALSE /\ c.past = FALSE
  <2>1. els \in BlockId /\ n \in BlockId /\ n + 1 \in BlockId
    BY <1>2 DEF BlockId
  <2>. HIDE DEF n, els
  <2>2. QED
    BY <1>2, <2>1 DEF OpenBlocks
<1>. HIDE DEF c
<1>6. Opens(c, new, n, y, n)
  <2>1. CASE b.hasElse
    <3>1. y = n + 2 /\ els = n + 2 /\ new = {n, n + 1} \cup {n + 2}
      BY <2>1 DEF IfNew
    <3>. HIDE DEF y, els, new, n
    <3>2. QED
      BY <1>2, <1>5, <2>1, <3>1 DEF Opens, ElsePending
  <2>2. CASE ~b.hasElse
    <3>1. y = n + 1 /\ els = None /\ new = {n, n + 1}
      BY <2>2 DEF IfNew
    <3>. HIDE DEF y, els, new, n
    <3>2. QED
      BY <1>2, <1>5, <2>2, <3>1 DEF Opens, ElsePending
  <2>3. QED
    BY <2>1, <2>2
<1>. HIDE DEF n, y, new, els
<1>7. QED
  BY <1>1, <1>4, <1>5, <1>6, EnterKeepsGraph


\* The edge to a new block, the end of the builder's and the start of the new one.
LEMMA GoOnKeepsGraph ==
  ASSUME NEW bs, NEW g \in Seq(BasicBlocks), NEW a \in Nat, NEW del, NEW tr, NEW n,
         Graph(bs, g, a, del, tr, {n}), g[n].ends = 0, g[n].phis = 0, g[n].preds = << >>
  PROVE  LET h == Terminate(Edge(g, n, a), a)
         IN  Graph(bs, h, n, del, tr, {}) /\ n \in 1 .. Len(h)
<1>1. PICK i : i = Edge(g, n, a)
  OBVIOUS
<1>2. /\ Graph(bs, i, a, del, tr, {n}) /\ i \in Seq(BasicBlocks)
      /\ i[n].preds # << >> /\ i[n].ends = 0
  <2>1. PICK new : new = {n}
    OBVIOUS
  <2>2. n \in new /\ Graph(bs, g, a, del, tr, new)
    BY <2>1
  <2>3. /\ Graph(bs, Edge(g, n, a), a, del, tr, new) /\ Edge(g, n, a) \in Seq(BasicBlocks)
        /\ Edge(g, n, a)[n].preds # << >> /\ Edge(g, n, a)[n].ends = g[n].ends
    BY ONLY <2>2, EdgeNew, g \in Seq(BasicBlocks), a \in Nat, g[n].phis = 0, g[n].preds = << >>
  <2>4. QED
    BY <1>1, <2>1, <2>3
<1>3. PICK h : h = Terminate(i, a)
  OBVIOUS
<1>4. Body(bs, h, del, tr, {}, {n}) /\ Untouched({n}, i, h)
  BY <1>2, <1>3, EndKeepsBody
<1>5. h[n].ends = 0 /\ h[n].preds # << >>
  BY <1>2, <1>4 DEF Untouched
<1>6. Graph(bs, h, n, del, tr, {n} \ {n})
  BY <1>4, <1>5, StartKeepsGraph
<1>7. {n} \ {n} = {}
  OBVIOUS
<1>8. Graph(bs, h, n, del, tr, {}) /\ n \in 1 .. Len(h)
  BY <1>6, <1>7 DEF Graph
<1>9. QED
  BY <1>1, <1>3, <1>8

\* The then branch has ended, and the code goes on in the else.
LEMMA EnterElseKeepsGraph ==
  ASSUME Compiling, NEW bs, StackInv(bs, types), NEW h, NEW n \in 1 .. Len(bs), n = Len(bs),
         Body(bs, h, deleted', trap', {}, {}), ElsePending(bs[n]), EnterElse(bs, n, h)
  PROVE  GInv'
<1>. DEFINE b == bs[n]
            low == SubSeq(bs, 1, n - 1)
            c == [b EXCEPT !.past = TRUE, !.values = Phis(b.params)]
<1>1. blocks' = Append(low, c) /\ ir' = h /\ at' = b.else /\ outcome' = outcome
  BY DEF EnterElse
<1>2. bs \in Seq(OpenBlocks) /\ b \in OpenBlocks /\ n \in Nat /\ n - 1 \in Nat
  BY ElementOfSeq DEF StackInv
<1>3. n - 1 + 1 = n /\ n - 1 <= Len(bs) /\ \A k \in 1 .. n : k # n => k \in 1 .. n - 1
  BY <1>2
<1>4. /\ low \in Seq(OpenBlocks) /\ Len(low) = n - 1
      /\ \A k \in 1 .. n - 1 : low[k] = bs[k]
  <2>1. /\ StackInv(low, SubSeq(types, 1, n - 1)) /\ Len(low) = n - 1
        /\ \A k \in 1 .. n - 1 : low[k] = bs[k]
    BY ONLY <1>2, <1>3, CutStack, StackInv(bs, types)
  <2>. HIDE DEF low
  <2>2. QED
    BY <2>1 DEF StackInv
<1>. HIDE DEF low
<1>5. Phis(b.params) \in Seq(Values)
  BY <1>2, AgreePhis DEF OpenBlocks, Agree
<1>6. /\ c.label = b.label /\ c.entry = b.entry /\ c.else = b.else /\ c.end = b.end
      /\ c.reachable = b.reachable /\ c.skipElse = b.skipElse /\ ~ElsePending(c)
      /\ c \in OpenBlocks
  BY <1>2, <1>5 DEF OpenBlocks, ElsePending
<1>. HIDE DEF c
<1>7. /\ Len(blocks') = Len(bs) /\ blocks'[n] = c
      /\ \A k \in 1 .. Len(bs) : k # n => blocks'[k] = bs[k]
  <2>1. /\ Len(Append(low, c)) = n - 1 + 1 /\ Append(low, c)[n - 1 + 1] = c
        /\ \A k \in 1 .. n - 1 : Append(low, c)[k] = low[k]
    BY <1>4, <1>6, AppendProperties
  <2>2. QED
    BY <1>1, <1>3, <1>4, <2>1
<1>8. Graph(blocks', h, bs[n].else, deleted', trap', {})
  BY <1>6, <1>7, ElseKeepsGraph
<1>9. at' \in 1 .. Len(ir')
  BY <1>1, <1>8 DEF Graph
<1>10. QED
  BY <1>1, <1>8, <1>9 DEF GInv, Compiling

-----------------------------------------------------------------------------
(* Each opcode keeps the invariant *)

LEMMA JumpsKeepGraph ==
  ASSUME Compiling, NEW f \in Emitted, StackInv(f.blocks, types),
         Graph(f.blocks, f.ir, at, deleted, trap, {}), Jumps(f), UNCHANGED trap
  PROVE  GInv'
<1>1. f.ir \in Seq(BasicBlocks) /\ NextReachable(f.blocks, Terminate(f.ir, at))
  BY DEF Emitted, Jumps
<1>2. Graph(f.blocks, f.ir, at, deleted, trap', {})
  OBVIOUS
<1>3. QED
  BY <1>1, <1>2, SkipKeepsGraph

LEMMA RaiseAlwaysKeepsGraph ==
  ASSUME OInv, GInv, Compiling, RaiseAlways
  PROVE  GInv'
<1>1. /\ trap' = IF sandbox THEN Trap(ir) ELSE trap
      /\ NextReachable(blocks, Terminate(Raise(ir), at))
  BY DEF RaiseAlways
<1>2. StackInv(blocks, types)
  BY DEF OInv
<1>3. Graph(blocks, Raise(ir), at, deleted, trap', {}) /\ Raise(ir) \in Seq(BasicBlocks)
  <2>1. CASE sandbox
    BY <1>1, <2>1, Open, RaiseKeepsGraph
  <2>2. CASE ~sandbox
    <3>1. Raise(ir) = ir /\ trap' = trap
      BY <1>1, <2>2 DEF Raise
    <3>2. QED
      BY <3>1, Open
  <2>3. QED
    BY <2>1, <2>2
<1>4. QED
  BY <1>1, <1>2, <1>3, SkipKeepsGraph

LEMMA UnreachableKeepsGraph ==
  ASSUME OInv, GInv, Unreachable
  PROVE  GInv'
  BY RaiseAlwaysKeepsGraph DEF Unreachable

LEMMA ReturnKeepsGraph ==
  ASSUME OInv, GInv, Return
  PROVE  GInv'
<1>1. Compiling /\ Typed(blocks[1].results) /\ UNCHANGED <<trap, sandbox>>
  BY DEF Return
<1>2. blocks[1].results \in Seq(ValueTypes)
  <2>1. 1 \in 1 .. Len(blocks)
    BY <1>1, TopAgrees
  <2>2. blocks[1] \in OpenBlocks
    BY <2>1, ElementOfSeq DEF OInv, StackInv
  <2>3. QED
    BY <2>2 DEF OpenBlocks
<1>3. NextReachable(blocks, Terminate(ir, at))
  BY <1>1, <1>2, TypedPops DEF Return, Compiles
<1>4. Graph(blocks, ir, at, deleted, trap', {}) /\ ir \in Seq(BasicBlocks)
  BY <1>1, Open
<1>5. QED
  BY <1>1, <1>3, <1>4, SkipKeepsGraph DEF OInv

\* Other operands on top, while the code goes on in the block a.
LEMMA RewriteKeepsGraph ==
  ASSUME OInv, Compiling, NEW v \in Seq(Values), blocks' = [blocks EXCEPT ![Top].values = v],
         Graph(blocks, ir', at', deleted, trap', {}), UNCHANGED <<deleted, outcome>>
  PROVE  GInv'
<1>1. Graph(blocks', ir', at', deleted', trap', {})
  BY TopKeepsGraph
<1>2. at' \in 1 .. Len(ir')
  BY <1>1 DEF Graph
<1>3. QED
  BY <1>1, <1>2 DEF GInv, Compiling

LEMMA OperateKeepsGraph ==
  ASSUME OInv, GInv, NEW op \in Shapes, NEW checked \in {FALSE, sandbox}, Operate(op, checked)
  PROVE  GInv'
<1>. DEFINE v == Rest(Operands, op.pops) \o op.pushes
<1>1. Compiling /\ Typed(op.pops) /\ op.pops \in Seq(ValueTypes) /\ op.pushes \in Seq(Values)
  BY ControlAssumption DEF Operate
<1>2. Pops(Operands, op.pops) /\ Rest(Operands, op.pops) \in Seq(Values)
  BY <1>1, TypedPops DEF Agree
<1>3. v \in Seq(Values)
  BY <1>1, <1>2, ConcatProperties
<1>4. PICK g : g = Append(Raise(ir), BasicBlock)
  OBVIOUS
<1>5. PICK n : n = Len(g)
  OBVIOUS
<1>6. /\ blocks' = [blocks EXCEPT ![Top].values = v]
      /\ UNCHANGED <<deleted, sandbox, outcome>>
      /\ IF checked THEN ir' = Terminate(Edge(g, n, at), at) /\ at' = n /\ trap' = Trap(ir)
                    ELSE UNCHANGED <<ir, at, trap>>
  BY <1>2, <1>4, <1>5 DEF Operate, Compiles, Operands
<1>. HIDE DEF v
<1>7. CASE ~checked
  BY <1>1, <1>3, <1>6, <1>7, Open, RewriteKeepsGraph
<1>8. CASE checked
  <2>1. sandbox
    BY <1>8
  <2>2. /\ Graph(blocks, Raise(ir), at, deleted, Trap(ir), {})
        /\ Raise(ir) \in Seq(BasicBlocks) /\ blocks \in Seq(OpenBlocks) /\ at \in Nat
    BY <1>1, <2>1, Open, RaiseKeepsGraph
  <2>3. /\ Extended(Raise(ir), g)
        /\ Graph(blocks, g, at, deleted, Trap(ir), {} \cup {Len(Raise(ir)) + 1})
    BY <1>4, <2>2, AddBasicBlock
  <2>4. g \in Seq(BasicBlocks) /\ n = Len(Raise(ir)) + 1 /\ g[n] = BasicBlock
    BY <1>5, <2>3 DEF Extended
  <2>5. {} \cup {Len(Raise(ir)) + 1} = {n}
    BY <2>4
  <2>6. g[n].ends = 0 /\ g[n].phis = 0 /\ g[n].preds = << >>
    BY <2>4, FreshBlock
  <2>7. Graph(blocks, g, at, deleted, Trap(ir), {n})
    BY <2>3, <2>5
  <2>8. Graph(blocks, Terminate(Edge(g, n, at), at), n, deleted, Trap(ir), {})
    BY <2>2, <2>4, <2>6, <2>7, GoOnKeepsGraph
  <2>9. QED
    BY <1>1, <1>3, <1>6, <1>8, <2>8, RewriteKeepsGraph
<1>9. QED
  BY <1>7, <1>8

LEMMA IfKeepsGraph ==
  ASSUME OInv, GInv, NEW type \in BlockTypes, NEW hasElse \in BOOLEAN, If(type, hasElse)
  PROVE  GInv'
<1>. DEFINE us == Append(type.params, "i32")
            b == AOTBlock("if", type, hasElse)
<1>1. type \in [params : Seq(ValueTypes), results : Seq(ValueTypes)]
  BY ControlAssumption
<1>2. type.params \in Seq(ValueTypes) /\ us \in Seq(ValueTypes)
  BY <1>1, AppendProperties DEF ValueTypes
<1>3. /\ b \in OpenBlocks /\ b.label = "if" /\ b.reachable = FALSE
      /\ b.else = None /\ b.end = None /\ b.entry = None
      /\ b.skipElse = FALSE /\ b.past = FALSE
  BY <1>1, AOTBlockOpens DEF AOTBlock
<1>4. Compiling /\ Typed(us)
  BY DEF If
<1>5. Pops(Operands, us) /\ Typed(<<"i32">>)
  BY <1>2, <1>4, TypedPops, TypedLast
<1>6. \/ IfUnknown(b, us) /\ UNCHANGED trap
      \/ IfTrue(b, us) /\ UNCHANGED trap
      \/ IfFalse(b, us) /\ UNCHANGED trap
      \/ RaiseAlways
  BY <1>5 DEF If, Compiles
<1>. HIDE DEF us, b
<1>7. CASE IfUnknown(b, us) /\ UNCHANGED trap
  BY <1>2, <1>3, <1>4, <1>7, IfUnknownKeepsGraph
<1>8. CASE IfTrue(b, us) /\ UNCHANGED trap
  BY <1>2, <1>3, <1>4, <1>8, IfTrueKeepsGraph
<1>9. CASE IfFalse(b, us) /\ UNCHANGED trap
  BY <1>2, <1>3, <1>4, <1>5, <1>9, IfFalseKeepsGraph
<1>10. CASE RaiseAlways
  BY <1>4, <1>10, RaiseAlwaysKeepsGraph
<1>11. QED
  BY <1>6, <1>7, <1>8, <1>9, <1>10

\* A branch from here.
LEMMA BranchFrom ==
  ASSUME OInv, GInv, Compiling, NEW d \in Depths
  PROVE  LET f == BranchTo(Here, Target(d))
         IN  /\ f \in Emitted /\ StackInv(f.blocks, types)
             /\ Graph(f.blocks, f.ir, at, deleted, trap, {})
<1>1. /\ Here \in Emitted /\ Here.blocks = blocks /\ Here.ir = ir
      /\ Target(d) \in 1 .. Len(blocks)
  BY HereEmitted, TargetTyped
<1>2. Graph(Here.blocks, Here.ir, at, deleted, trap, {}) /\ at \in Nat
  BY <1>1, Open
<1>3. Branched(Here, BranchTo(Here, Target(d)), deleted, trap, {})
  BY <1>1, <1>2, BranchKeepsGraph
<1>4. QED
  BY <1>3, BranchHere DEF Branched

LEMMA EndFrom ==
  ASSUME OInv, GInv, Compiling
  PROVE  LET f == ToEnd(Here, Top)
         IN  /\ f \in Emitted /\ StackInv(f.blocks, types) /\ Len(f.blocks) = Len(blocks)
             /\ Graph(f.blocks, f.ir, at, deleted, trap, {})
<1>1. /\ Here \in Emitted /\ Here.blocks = blocks /\ Here.ir = ir
      /\ Top \in 1 .. Len(blocks)
  BY HereEmitted, TopAgrees
<1>2. Graph(Here.blocks, Here.ir, at, deleted, trap, {}) /\ at \in Nat
  BY <1>1, Open
<1>3. Branched(Here, ToEnd(Here, Top), deleted, trap, {})
  BY <1>1, <1>2, ToEndKeepsGraph
<1>4. StackInv(ToEnd(Here, Top).blocks, types) /\ Len(ToEnd(Here, Top).blocks) = Len(blocks)
  BY <1>1, <1>2, ToEndKeepsStack DEF OInv
<1>5. QED
  BY <1>3, <1>4 DEF Branched

LEMMA EndKeepsGraph ==
  ASSUME OInv, GInv, End
  PROVE  GInv'
<1>1. Compiling /\ types[Top] = blocks[Top].results /\ UNCHANGED <<trap, sandbox>>
  BY DEF End
<1>2. Pops(Operands, blocks[Top].results)
  BY <1>1, TopAgrees, AllPops
<1>3. Jumps(ToEnd(Here, Top))
  BY <1>2 DEF End, Compiles
<1>4. QED
  BY <1>1, <1>3, EndFrom, JumpsKeepGraph

LEMMA BrKeepsGraph ==
  ASSUME OInv, GInv, NEW d \in Depths, Br(d)
  PROVE  GInv'
<1>1. Compiling /\ Typed(Taken(d)) /\ UNCHANGED <<trap, sandbox>>
  BY DEF Br
<1>2. Pops(Operands, Taken(d))
  BY <1>1, TargetTyped, TypedPops
<1>3. Jumps(BranchTo(Here, Target(d)))
  BY <1>2 DEF Br, Compiles
<1>4. QED
  BY <1>1, <1>3, BranchFrom, JumpsKeepGraph

LEMMA BrTableKeepsGraph ==
  ASSUME OInv, GInv, NEW n \in TableSizes, NEW ds \in [1 .. n -> Depths], BrTable(ds)
  PROVE  GInv'
<1>1. Compiling /\ UNCHANGED sandbox
      /\ \A i \in DOMAIN ds : Typed(Append(Taken(ds[i]), "i32"))
  BY DEF BrTable
<1>2. n \in Nat /\ Len(ds) = n /\ DOMAIN ds = 1 .. n /\ \A i \in 1 .. n : ds[i] \in Depths
  BY ControlAssumption
<1>3. \A i \in DOMAIN ds : Pops(Operands, Append(Taken(ds[i]), "i32"))
  BY <1>1, <1>2, TakenAgree
<1>4. \/ Jumps(BranchToAll(ds)) /\ UNCHANGED trap
      \/ (\E i \in DOMAIN ds : Jumps(BranchTo(Here, Target(ds[i])))) /\ UNCHANGED trap
      \/ RaiseAlways
  BY <1>3 DEF BrTable, Compiles
<1>5. CASE Jumps(BranchToAll(ds)) /\ UNCHANGED trap
  <2>1. BranchToAll(ds) \in Emitted /\ StackInv(BranchToAll(ds).blocks, types)
    BY <1>2, BranchesKeepStack
  <2>2. Graph(blocks, ir, at, deleted, trap, {})
    BY <1>1, Open
  <2>3. Graph(BranchToAll(ds).blocks, BranchToAll(ds).ir, at, deleted, trap, {})
    BY <1>2, <2>2, BranchesKeepGraph
  <2>4. QED
    BY <1>1, <1>5, <2>1, <2>3, JumpsKeepGraph
<1>6. CASE (\E i \in DOMAIN ds : Jumps(BranchTo(Here, Target(ds[i])))) /\ UNCHANGED trap
  <2>1. PICK i \in DOMAIN ds : Jumps(BranchTo(Here, Target(ds[i])))
    BY <1>6
  <2>2. QED
    BY <1>1, <1>2, <1>6, <2>1, BranchFrom, JumpsKeepGraph
<1>7. CASE RaiseAlways
  BY <1>1, <1>7, RaiseAlwaysKeepsGraph
<1>8. QED
  BY <1>4, <1>5, <1>6, <1>7

\* The block after a conditional branch: new when the edge to it is made.
LEMMA BrIfUnknownKeepsGraph ==
  ASSUME OInv, GInv, Compiling, NEW d \in Depths, Typed(Append(Taken(d), "i32")),
         BrIfUnknown(d)
  PROVE  GInv'
<1>. DEFINE s == Rest(Operands, <<"i32">>)
            v == Rest(s, Taken(d)) \o Popped(s, Taken(d))
            h == [Here EXCEPT !.ir = Append(@, BasicBlock)]
            f == BranchTo(h, Target(d))
<1>1. PICK n : n = Len(ir) + 1
  OBVIOUS
<1>2. /\ blocks' = [f.blocks EXCEPT ![Top].values = v]
      /\ ir' = Terminate(Edge(f.ir, n, at), at) /\ at' = n
      /\ UNCHANGED <<deleted, trap, outcome>>
  BY <1>1 DEF BrIfUnknown
<1>3. v \in Seq(Values)
  BY TakenAgree DEF Agree
<1>4. /\ n \in Nat /\ at \in Nat /\ Append(ir, BasicBlock) \in Seq(BasicBlocks)
      /\ Append(ir, BasicBlock)[n] = BasicBlock
      /\ Graph(blocks, Append(ir, BasicBlock), at, deleted, trap, {n})
  BY <1>1, Open, OneNew
<1>5. h \in Emitted /\ h.blocks = blocks /\ h.ir = Append(ir, BasicBlock)
  <2>1. h = [blocks |-> blocks, ir |-> Append(ir, BasicBlock)]
    BY DEF Here
  <2>2. blocks \in Seq(OpenBlocks)
    BY DEF OInv, StackInv
  <2>. HIDE DEF h
  <2>3. QED
    BY <1>4, <2>1, <2>2 DEF Emitted
<1>. HIDE DEF h
<1>6. Branched(h, f, deleted, trap, {n})
  <2>1. Target(d) \in 1 .. Len(h.blocks) /\ Graph(h.blocks, h.ir, at, deleted, trap, {n})
    BY <1>4, <1>5, TargetTyped
  <2>2. QED
    BY <1>4, <1>5, <2>1, BranchKeepsGraph
<1>. HIDE DEF f, v
<1>7. /\ f \in Emitted /\ f.blocks \in Seq(OpenBlocks) /\ f.ir \in Seq(BasicBlocks)
      /\ Len(f.blocks) = Len(blocks) /\ Graph(f.blocks, f.ir, at, deleted, trap, {n})
  BY <1>5, <1>6 DEF Branched, Emitted
<1>8. f.ir[n].ends = 0 /\ f.ir[n].phis = 0 /\ f.ir[n].preds = << >>
  <2>1. h.ir[n] = BasicBlock /\ h.ir[n].preds = << >>
    BY <1>4, <1>5, FreshBlock
  <2>2. f.ir[n] = BasicBlock
    BY <1>6, <2>1 DEF Branched
  <2>3. QED
    BY <2>2, FreshBlock
<1>9. Graph(f.blocks, ir', n, deleted, trap, {}) /\ n \in 1 .. Len(ir')
  BY <1>2, <1>4, <1>7, <1>8, GoOnKeepsGraph
<1>10. Graph(blocks', ir', at', deleted', trap', {})
  <2>1. Top \in 1 .. Len(f.blocks)
    BY <1>7, TopAgrees
  <2>2. QED
    BY <1>2, <1>3, <1>7, <1>9, <2>1, OperandsKeepGraph
<1>11. QED
  BY <1>2, <1>9, <1>10 DEF GInv, Compiling

LEMMA BrIfKeepsGraph ==
  ASSUME OInv, GInv, NEW d \in Depths, BrIf(d)
  PROVE  GInv'
<1>1. Compiling /\ Typed(Append(Taken(d), "i32"))
  BY DEF BrIf
<1>2. Pops(Operands, Append(Taken(d), "i32")) /\ Typed(<<"i32">>)
  BY <1>1, TakenAgree
<1>3. \/ BrIfUnknown(d)
      \/ Jumps(BranchTo(Here, Target(d))) /\ UNCHANGED trap
      \/ /\ blocks' = [blocks EXCEPT ![Top].values = Rest(@, <<"i32">>)]
         /\ UNCHANGED <<ir, at, deleted, trap, outcome>>
      \/ RaiseAlways
  BY <1>2 DEF BrIf, Compiles
<1>4. CASE BrIfUnknown(d)
  BY <1>1, <1>4, BrIfUnknownKeepsGraph
<1>5. CASE Jumps(BranchTo(Here, Target(d))) /\ UNCHANGED trap
  BY <1>1, <1>5, BranchFrom, JumpsKeepGraph
<1>6. CASE /\ blocks' = [blocks EXCEPT ![Top].values = Rest(@, <<"i32">>)]
           /\ UNCHANGED <<ir, at, deleted, trap, outcome>>
  <2>. DEFINE v == Rest(Operands, <<"i32">>)
  <2>1. <<"i32">> \in Seq(ValueTypes)
    BY DEF ValueTypes
  <2>2. v \in Seq(Values)
    BY <1>1, <1>2, <2>1, TypedPops DEF Agree
  <2>3. blocks' = [blocks EXCEPT ![Top].values = v]
    BY <1>6 DEF Operands
  <2>. HIDE DEF v
  <2>4. Graph(blocks, ir', at', deleted, trap', {})
    BY <1>1, <1>6, Open
  <2>5. QED
    BY <1>1, <1>6, <2>2, <2>3, <2>4, RewriteKeepsGraph
<1>7. CASE RaiseAlways
  BY <1>1, <1>7, RaiseAlwaysKeepsGraph
<1>8. QED
  BY <1>3, <1>4, <1>5, <1>6, <1>7

LEMMA ElseOpcodeKeepsGraph ==
  ASSUME OInv, GInv, Else
  PROVE  GInv'
<1>. DEFINE b == blocks[Top]
<1>0. PICK f : f = ToEnd(Here, Top)
  OBVIOUS
<1>1. Compiling /\ b.hasElse /\ ~b.past /\ types[Top] = b.results /\ UNCHANGED trap
  BY DEF Else
<1>2. /\ Top \in 1 .. Len(blocks) /\ Top = Len(blocks) /\ b \in OpenBlocks
      /\ Agree(Operands, types[Top])
  BY <1>1, TopAgrees DEF Top
<1>3. (b.skipElse \/ b.else # None) /\ b.label = "if"
  BY <1>1, <1>2 DEF OInv, StackInv, Opened
<1>4. Pops(Operands, b.results)
  BY <1>1, <1>2, AllPops
<1>5. IF b.skipElse
      THEN Jumps([f EXCEPT !.blocks[Top].past = TRUE])
      ELSE EnterElse(f.blocks, Top, Terminate(f.ir, at)) /\ UNCHANGED deleted
  BY <1>0, <1>3, <1>4 DEF Else, Compiles
<1>6. /\ f \in Emitted /\ StackInv(f.blocks, types) /\ Len(f.blocks) = Len(blocks)
      /\ Graph(f.blocks, f.ir, at, deleted, trap, {})
  BY <1>0, <1>1, EndFrom
<1>7. /\ f.blocks \in Seq(OpenBlocks) /\ f.ir \in Seq(BasicBlocks)
      /\ f.blocks[Top] \in OpenBlocks
  BY <1>2, <1>6, ElementOfSeq DEF Emitted
<1>8. /\ f.blocks[Top].label = "if" /\ f.blocks[Top].else = b.else /\ ~f.blocks[Top].past
      /\ f.blocks[Top].skipElse = b.skipElse
  <2>1. PICK e : f.blocks[Top] = Flagged(b, e)
    BY <1>0, <1>2, HereEmitted, ToEndFlags
  <2>2. QED
    BY <1>1, <1>2, <1>3, <2>1 DEF Flagged, OpenBlocks
<1>9. CASE b.skipElse
  <2>. DEFINE bs == [f.blocks EXCEPT ![Top].past = TRUE]
              h == [f EXCEPT !.blocks = bs]
  <2>1. /\ StackInv(bs, types) /\ bs \in Seq(OpenBlocks) /\ Len(bs) = Len(f.blocks)
        /\ \A j \in 1 .. Len(f.blocks) : j # Top => bs[j] = f.blocks[j]
        /\ bs[Top] = [f.blocks[Top] EXCEPT !.past = TRUE]
    BY <1>2, <1>6, PastKeepsStack
  <2>2. h = [f EXCEPT !.blocks[Top].past = TRUE]
    OBVIOUS
  <2>. HIDE DEF bs
  <2>3. h \in Emitted /\ h.blocks = bs /\ h.ir = f.ir
    BY <1>6, <2>1 DEF Emitted
  <2>4. Jumps(h)
    BY <1>5, <1>9, <2>2
  <2>. HIDE DEF h
  <2>5. f.blocks[Top].else = None
    <3>1. OpenOK(f.blocks[Top], f.ir, deleted, {at} \cup {})
      BY <1>2, <1>6 DEF Graph, Body
    <3>2. QED
      BY <1>8, <1>9, <3>1 DEF OpenOK
  <2>6. SameBlock(f.blocks[Top], bs[Top])
    <3>1. /\ bs[Top].label = f.blocks[Top].label /\ bs[Top].entry = f.blocks[Top].entry
          /\ bs[Top].else = f.blocks[Top].else /\ bs[Top].end = f.blocks[Top].end
          /\ bs[Top].reachable = f.blocks[Top].reachable
          /\ bs[Top].skipElse = f.blocks[Top].skipElse
      BY <1>7, <2>1 DEF OpenBlocks
    <3>2. QED
      BY <2>5, <3>1 DEF SameBlock, ElsePending
  <2>7. \A k \in 1 .. Len(f.blocks) : SameBlock(f.blocks[k], bs[k])
    BY <2>1, <2>6 DEF SameBlock
  <2>8. Graph(bs, f.ir, at, deleted, trap, {})
    BY <1>6, <2>1, <2>7, SameIr, SameGraph
  <2>9. QED
    BY <1>1, <2>1, <2>3, <2>4, <2>8, JumpsKeepGraph
<1>10. CASE ~b.skipElse
  <2>1. ElsePending(f.blocks[Top])
    BY <1>3, <1>8, <1>10 DEF ElsePending
  <2>2. EnterElse(f.blocks, Top, Terminate(f.ir, at)) /\ deleted' = deleted
    BY <1>5, <1>10
  <2>3. Body(f.blocks, Terminate(f.ir, at), deleted', trap', {}, {})
    BY <1>1, <1>6, <1>7, <2>2, EndKeepsBody
  <2>4. StackInv(f.blocks, types) /\ Top \in 1 .. Len(f.blocks) /\ Top = Len(f.blocks)
    BY <1>2, <1>6
  <2>5. QED
    BY <1>1, <2>1, <2>2, <2>3, <2>4, EnterElseKeepsGraph
<1>11. QED
  BY <1>9, <1>10

-----------------------------------------------------------------------------
(* The theorems *)

LEMMA InitGInv == Init => GInv
<1>. SUFFICES ASSUME Init PROVE GInv
  OBVIOUS
<1>1. PICK t : /\ blocks = <<[AOTBlock("function", t, FALSE) EXCEPT !.entry = 1]>>
               /\ ir = <<BasicBlock>> /\ at = 1 /\ deleted = {} /\ trap = None
               /\ outcome = "compiling"
  BY DEF Init
<1>2. PICK b : b = [AOTBlock("function", t, FALSE) EXCEPT !.entry = 1]
  OBVIOUS
<1>3. blocks = <<b>> /\ Len(blocks) = 1 /\ Len(ir) = 1 /\ ir[1] = BasicBlock
  BY <1>1, <1>2
<1>4. /\ b.label = "function" /\ b.entry = 1 /\ b.else = None /\ b.end = None
      /\ b.reachable = FALSE /\ b.skipElse = FALSE
  BY <1>2 DEF AOTBlock
<1>5. \A k \in 1 .. 1 : k = 1
  OBVIOUS
<1>6. OpenOK(b, ir, {}, {1}) /\ ~ElsePending(b)
  BY <1>3, <1>4 DEF OpenOK, ElsePending
<1>7. Apart(blocks)
  BY <1>3, <1>5, <1>6 DEF Apart
<1>8. BlockOK(blocks, ir, {}, {1}, {}, 1)
  BY <1>3, FreshBlock DEF BlockOK
<1>9. Body(blocks, ir, {}, None, {1}, {})
  <2>1. \A k \in 1 .. Len(blocks) : OpenOK(blocks[k], ir, {}, {1} \cup {})
    BY <1>3, <1>5, <1>6
  <2>2. \A x \in 1 .. Len(ir) : BlockOK(blocks, ir, {}, {1}, {}, x)
    BY <1>3, <1>5, <1>8
  <2>3. QED
    BY <1>7, <2>1, <2>2 DEF Body
<1>10. Graph(blocks, ir, 1, {}, None, {})
  BY <1>3, <1>9, FreshBlock DEF Graph
<1>11. QED
  BY <1>1, <1>3, <1>10 DEF GInv

LEMMA NextGInv == OInv /\ GInv /\ [Next]_vars => GInv'
<1>. SUFFICES ASSUME OInv, GInv, [Next]_vars PROVE GInv'
  OBVIOUS
<1>1. CASE \E op \in Shapes, checked \in {FALSE, sandbox} : Operate(op, checked)
  BY <1>1, OperateKeepsGraph
<1>2. CASE Unreachable
  BY <1>2, UnreachableKeepsGraph
<1>3. CASE \E t \in BlockTypes, l \in {"block", "loop"} : OpenBlock(l, t)
  BY <1>3, OpenBlockKeepsGraph
<1>4. CASE \E t \in BlockTypes, e \in BOOLEAN : If(t, e)
  BY <1>4, IfKeepsGraph
<1>5. CASE Else
  BY <1>5, ElseOpcodeKeepsGraph
<1>6. CASE End
  BY <1>6, EndKeepsGraph
<1>7. CASE \E d \in Depths : Br(d)
  BY <1>7, BrKeepsGraph
<1>8. CASE \E d \in Depths : BrIf(d)
  BY <1>8, BrIfKeepsGraph
<1>9. CASE \E n \in TableSizes : \E ds \in [1 .. n -> Depths] : BrTable(ds)
  BY <1>9, BrTableKeepsGraph
<1>10. CASE Return
  BY <1>10, ReturnKeepsGraph
<1>11. CASE UNCHANGED vars
  BY <1>11 DEF vars, GInv
<1>12. QED
  BY <1>1, <1>2, <1>3, <1>4, <1>5, <1>6, <1>7, <1>8, <1>9, <1>10, <1>11 DEF Next

LEMMA GInvHolds == Spec => [](OInv /\ GInv)
<1>1. Init => OInv /\ GInv
  BY InitOInv, InitGInv
<1>2. OInv /\ GInv /\ [Next]_vars => OInv' /\ GInv'
  BY NextOInv, NextGInv
<1>3. QED
  BY <1>1, <1>2, PTL DEF Spec

\* What the invariant says of every basic block, body compiled or not.
LEMMA BlocksOK ==
  ASSUME OInv, GInv
  PROVE  LET homes == IF outcome = "compiled" THEN {} ELSE {at}
         IN  /\ Body(blocks, ir, deleted, trap, homes, {})
             /\ DOMAIN ir = 1 .. Len(ir) /\ DOMAIN blocks = 1 .. Len(blocks)
             /\ \A x \in DOMAIN ir : BlockOK(blocks, ir, deleted, homes, {}, x)
<1>1. DOMAIN ir = 1 .. Len(ir) /\ DOMAIN blocks = 1 .. Len(blocks)
  BY LenProperties DEF OInv, StackInv
<1>2. Body(blocks, ir, deleted, trap, IF outcome = "compiled" THEN {} ELSE {at}, {})
  BY DEF GInv, Graph
<1>3. QED
  BY <1>1, <1>2 DEF Body

\* A phi has a value for each edge to its block, from the block it comes from,
\* however the block came to be the target of a branch, an exception or a fall
\* through.
THEOREM PhisInvariant == Spec => []PhisMatchEdges
<1>1. OInv /\ GInv => PhisMatchEdges
  <2>. SUFFICES ASSUME OInv, GInv, NEW x \in DOMAIN ir \ deleted, ir[x].phis > 0
                PROVE  ir[x].incoming = ir[x].preds
    BY DEF PhisMatchEdges
  <2>1. ir[x].phis = 0 \/ Matched(ir[x])
    BY BlocksOK DEF BlockOK
  <2>2. QED
    BY <2>1 DEF Matched
<1>2. QED
  BY <1>1, GInvHolds, PTL

LEMMA Typing == OInv /\ GInv => TypeOK
<1>. SUFFICES ASSUME OInv, GInv PROVE TypeOK
  OBVIOUS
<1>1. /\ DOMAIN ir = 1 .. Len(ir) /\ DOMAIN blocks = 1 .. Len(blocks)
      /\ Ids = {None} \cup 1 .. Len(ir)
  BY BlocksOK DEF Ids
<1>2. ASSUME NEW k \in DOMAIN blocks
      PROVE  /\ blocks[k].label \in {"function", "block", "loop", "if"}
             /\ blocks[k].values \in Seq(Values)
             /\ blocks[k].entry \in Ids /\ blocks[k].else \in Ids /\ blocks[k].end \in Ids
             /\ (k = 1) <=> (blocks[k].label = "function")
  <2>1. {blocks[k].entry, blocks[k].else, blocks[k].end} \subseteq {None} \cup 1 .. Len(ir)
    BY BlocksOK DEF Body, OpenOK
  <2>2. blocks[k] \in OpenBlocks /\ ((k = 1) <=> (blocks[k].label = "function"))
    BY <1>1, ElementOfSeq DEF OInv, StackInv
  <2>3. QED
    BY <1>1, <2>1, <2>2 DEF OpenBlocks
<1>3. at \in DOMAIN ir /\ deleted \subseteq DOMAIN ir /\ trap \in Ids
  BY <1>1, BlocksOK DEF GInv, Body
<1>4. QED
  BY <1>2, <1>3 DEF TypeOK, OInv, StackInv

\* No basic block ends twice, and none is left without an end but those that
\* the compiler still adds code to or has removed.
THEOREM EndsInvariant == Spec => []EndsOnce
<1>1. OInv /\ GInv => EndsOnce
  <2>. SUFFICES ASSUME OInv, GInv, NEW x \in DOMAIN ir
                PROVE  ir[x].ends <= 1 /\ (ir[x].ends = 0 => x \in deleted \cup Pending)
    BY Typing DEF EndsOnce
  <2>1. BlockOK(blocks, ir, deleted, IF outcome = "compiled" THEN {} ELSE {at}, {}, x)
    BY BlocksOK
  <2>2. EndOf(blocks, x) \/ ElseOf(blocks, x) => x \in Pending
    BY BlocksOK DEF EndOf, ElseOf, Pending
  <2>3. QED
    BY <2>1, <2>2 DEF BlockOK, Pending
<1>2. QED
  BY <1>1, GInvHolds, PTL

\* Only code that can be reached is emitted, and what is removed can not be.
THEOREM ReachedInvariant == Spec => []ReachedOnly
<1>1. OInv /\ GInv => ReachedOnly
  <2>. SUFFICES ASSUME OInv, GInv, NEW x \in DOMAIN ir \ {1}
                PROVE  /\ x \in deleted => ir[x].preds = << >>
                       /\ x \notin deleted \cup Pending => ir[x].preds # << >>
    BY DEF ReachedOnly
  <2>1. BlockOK(blocks, ir, deleted, IF outcome = "compiled" THEN {} ELSE {at}, {}, x)
    BY BlocksOK
  <2>2. EndOf(blocks, x) => x \in Pending
    BY BlocksOK DEF EndOf, Pending
  <2>3. QED
    BY <2>1, <2>2 DEF BlockOK
<1>2. QED
  BY <1>1, GInvHolds, PTL

\* is_reachable of an open block tells whether anything jumps to its end.
THEOREM ReachableInvariant == Spec => []ReachableExact
<1>1. OInv /\ GInv => ReachableExact
  <2>. SUFFICES ASSUME OInv, GInv, NEW k \in DOMAIN blocks
                PROVE  blocks[k].reachable <=>
                         blocks[k].end # None /\ ir[blocks[k].end].preds # << >>
    BY DEF ReachableExact
  <2>1. QED
    BY BlocksOK DEF Body, OpenOK
<1>2. QED
  BY <1>1, GInvHolds, PTL
=============================================================================
