--------------------------- MODULE EmsHeapProofs ---------------------------
(***************************************************************************)
(* The layout of the EMS heap is right for every heap size and every set   *)
(* of requests: the invariants of EmsHeap are proved as one inductive      *)
(* invariant, since each of them needs the others; then what gc_realloc_vo *)
(* leaves of it (EmsRealloc).                                              *)
(***************************************************************************)
EXTENDS EmsRealloc, FiniteSetTheorems, TLAPS

Layout == TypeOK /\ WalkTilesHeap /\ PinuseExact /\ TagsReliable
          /\ NoAdjacentFree /\ KfcExact

-----------------------------------------------------------------------------
(* Requests and chunks *)

\* A request that does not overflow needs a positive number of units, at
\* least the smallest chunk.
LEMMA AllocUnitsType ==
  ASSUME NEW b \in Requests
  PROVE  AllocUnits(b) \in Nat /\ AllocUnits(b) >= GC_SMALLEST_SIZE
<1>1. b \in Nat /\ WordMod \in Nat \ {0}
  BY HeapAssumption DEF WordMod
<1>2. TotUnits(b) \in Int
  <2> DEFINE x == (((HMU_SIZE + b) % WordMod) + 7) % WordMod
  <2>1. (HMU_SIZE + b) % WordMod \in Nat
    BY <1>1 DEF HMU_SIZE
  <2>2. x \in Nat
    <3> HIDE DEF x
    <3>1. \A y \in Nat : (y + 7) % WordMod \in Nat
      BY <1>1
    <3> QED BY <2>1, <3>1 DEF x
  <2>3. \A y \in Nat : y \div 8 \in Int
    OBVIOUS
  <2> QED
    <3> HIDE DEF x
    <3> QED BY <2>2, <2>3 DEF TotUnits, x
<1> QED
  BY <1>2 DEF AllocUnits, Max2, GC_SMALLEST_SIZE

\* An address inside a chunk is not the address of another one.
LEMMA InsideChunk ==
  ASSUME TypeOK, WalkTilesHeap, NEW c \in Chunks, NEW a \in Int, c < a, a < End(c)
  PROVE  a \notin Chunks
BY DEF TypeOK, WalkTilesHeap, Chunks, End, Units

\* What typing and tiling say of chunks, without the definitions.
LEMMA ChunkFacts ==
  ASSUME TypeOK, WalkTilesHeap
  PROVE  /\ \A x \in Chunks : /\ x \in Int /\ 0 <= x /\ x < End(x) /\ End(x) <= HeapUnits
                              /\ End(x) \in Int /\ size[x] \in Int /\ size[x] = End(x) - x
                              /\ size[x] >= GC_SMALLEST_SIZE
         /\ \A x, y \in Chunks : x < y => End(x) <= y
<1>1. \A x, y \in Chunks : x < y => End(x) <= y
  BY DEF WalkTilesHeap
<1>2. \A x \in Chunks : /\ x \in Int /\ 0 <= x /\ x < End(x) /\ End(x) <= HeapUnits
                        /\ End(x) \in Int /\ size[x] \in Int /\ size[x] = End(x) - x
                        /\ size[x] >= GC_SMALLEST_SIZE
  BY HeapAssumption DEF TypeOK, End, Units, GC_SMALLEST_SIZE
<1> QED
  BY <1>1, <1>2

\* The counters are 32-bit words, whatever is added to them.
LEMMA AccountType ==
  ASSUME NEW f \in Int, Account(f), totalFree \in Nat, highmark \in Nat
  PROVE  totalFree' \in Nat /\ highmark' \in Nat
<1>1. WordUnits \in Nat \ {0} /\ HeapUnits \in Nat
  BY HeapAssumption
<1>2. \A i \in Int : i % WordUnits \in Nat
  BY <1>1
<1>3. totalFree' \in Nat
  BY <1>2 DEF Account
<1> QED
  BY <1>1, <1>2, <1>3 DEF Account, Max2

LEMMA ReleaseType ==
  ASSUME NEW c, Release(c), size[c] \in Int, totalFree \in Nat
  PROVE  totalFree' \in Nat
<1>1. \A i \in Int : i % WordUnits \in Nat
  BY HeapAssumption
<1> QED
  BY <1>1 DEF Release

\* Writing a boundary tag and handing words to the application change only
\* words of the chunk concerned.
LEMMA TagAdded ==
  ASSUME NEW t \in [1 .. HeapUnits -> Nat], NEW h \in Int, NEW n \in Nat,
         n >= GC_SMALLEST_SIZE, h + n \in 1 .. HeapUnits
  PROVE  /\ TagAfterAdd(t, h, n) \in [1 .. HeapUnits -> Nat]
         /\ TagAfterAdd(t, h, n)[h + n] = n
         /\ \A b \in 1 .. HeapUnits : b <= h \/ b > h + n => TagAfterAdd(t, h, n)[b] = t[b]
BY HeapAssumption DEF TagAfterAdd, Garbage, GC_SMALLEST_SIZE

LEMMA TagUsed ==
  ASSUME NEW t \in [1 .. HeapUnits -> Nat], NEW h \in Int, NEW n \in Int
  PROVE  /\ TagAfterUse(t, h, n) \in [1 .. HeapUnits -> Nat]
         /\ \A b \in 1 .. HeapUnits : b <= h \/ b > h + n => TagAfterUse(t, h, n)[b] = t[b]
BY HeapAssumption DEF TagAfterUse, Garbage

\* Every chunk but the first begins where another ends.
LEMMA ChunkBelow ==
  ASSUME TypeOK, WalkTilesHeap, NEW d \in Chunks, d # 0
  PROVE  \E c \in Chunks : End(c) = d
<1>1. d \in Int /\ d > 0 /\ d - 1 \in Units
  BY HeapAssumption DEF TypeOK, Units
<1>2. PICK c \in Chunks : c <= d - 1 /\ d - 1 < End(c)
  BY <1>1 DEF WalkTilesHeap
<1> QED
  BY <1>1, <1>2, ChunkFacts

-----------------------------------------------------------------------------
(* The actions *)

LEMMA SplitKeepsLayout ==
  ASSUME Layout, NEW n \in Nat, n >= GC_SMALLEST_SIZE, NEW c \in BestFits(n), Split(c, n)
  PROVE  Layout'
<1> USE HeapAssumption
<1>1. /\ c \in Chunks /\ c \notin vo /\ c \in kfc
      /\ c \in Units /\ size[c] \in Nat /\ size[c] >= n + 2 /\ n >= 2
      /\ End(c) <= HeapUnits
  BY DEF Layout, TypeOK, KfcExact, BestFits, Fits, FreeChunks, Split, GC_SMALLEST_SIZE
<1> DEFINE r == c + n
<1>2. r \in Units /\ r \notin Chunks /\ c < r /\ r < End(c) /\ r \in Int
  BY <1>1, InsideChunk DEF Layout, Units, End
<1>3. /\ Chunks' = Chunks \cup {r}
      /\ size'[c] = n /\ size'[r] = size[c] - n
      /\ \A x \in Chunks : x # c => size'[x] = size[x]
  BY <1>1, <1>2 DEF Split, Chunks, Rest
<1>4. /\ End(c)' = r /\ End(r)' = End(c)
      /\ \A x \in Chunks : x # c => End(x)' = End(x)
  BY <1>1, <1>2, <1>3 DEF End, Units
<1>5. vo' = vo \cup {c} /\ kfc' = (kfc \ {c}) \cup {r} /\ pinuse' = pinuse \cup {r}
  BY DEF Split
<1>6. /\ tag' \in [1 .. HeapUnits -> Nat]
      /\ tag'[End(c)] = size[c] - n
      /\ \A b \in 1 .. HeapUnits : b <= c \/ b > End(c) => tag'[b] = tag[b]
  <2> DEFINE m == size[c] - n
             t == TagAfterAdd(tag, r, m)
  <2>1. /\ c \in Int /\ r \in Int /\ c < r /\ m \in Nat /\ m >= GC_SMALLEST_SIZE
        /\ End(c) = r + m /\ r + m \in 1 .. HeapUnits /\ c + n = r
    BY <1>1, <1>2 DEF End, Units, GC_SMALLEST_SIZE
  <2>2. tag \in [1 .. HeapUnits -> Nat]
    BY DEF Layout, TypeOK
  <2>3. tag' = TagAfterUse(t, c, n)
    BY DEF Split, Rest
  <2> HIDE DEF m, r
  <2>. r \in Int /\ m \in Nat /\ m >= GC_SMALLEST_SIZE /\ r + m \in 1 .. HeapUnits
    BY <2>1
  <2>4. /\ t \in [1 .. HeapUnits -> Nat]
        /\ t[r + m] = m
        /\ \A b \in 1 .. HeapUnits : b <= r \/ b > r + m => t[b] = tag[b]
    BY <2>2, TagAdded
  <2> HIDE DEF t
  <2>5. /\ tag' \in [1 .. HeapUnits -> Nat]
        /\ \A b \in 1 .. HeapUnits : b <= c \/ b > c + n => tag'[b] = t[b]
    BY <2>1, <2>3, <2>4, TagUsed
  <2>6. size[c] - n = m
    BY DEF m
  <2> QED
    BY <2>1, <2>4, <2>5, <2>6 DEF GC_SMALLEST_SIZE
<1> HIDE DEF r
<1>7. TypeOK'
  <2>1. Chunks' \subseteq Units
    BY <1>2, <1>3 DEF Layout, TypeOK
  <2>2. ASSUME NEW x \in Chunks'
        PROVE  size'[x] \in Nat /\ size'[x] >= GC_SMALLEST_SIZE /\ End(x)' <= HeapUnits
    <3>1. CASE x = c
      BY <1>1, <1>2, <1>3, <1>4, <3>1 DEF Units
    <3>2. CASE x = r
      BY <1>1, <1>2, <1>3, <1>4, <3>2 DEF GC_SMALLEST_SIZE
    <3>3. CASE x \in Chunks /\ x # c
      BY <1>3, <1>4, <3>3 DEF Layout, TypeOK
    <3> QED
      BY <1>3, <3>1, <3>2, <3>3
  <2>3. vo' \subseteq Chunks' /\ pinuse' \subseteq Chunks' /\ kfc' \subseteq Chunks'
    BY <1>1, <1>3, <1>5 DEF Layout, TypeOK
  <2>4. totalFree' \in Nat /\ highmark' \in Nat
    BY <1>1, AccountType DEF Split, Layout, TypeOK
  <2> QED
    BY <1>6, <2>1, <2>2, <2>3, <2>4 DEF TypeOK
<1>8. WalkTilesHeap'
  <2>1. 0 \in Chunks'
    BY <1>3 DEF Layout, WalkTilesHeap
  <2>2. ASSUME NEW x \in Chunks' PROVE End(x)' \in Chunks' \cup {HeapUnits}
    BY <1>1, <1>3, <1>4 DEF Layout, WalkTilesHeap
  <2>3. ASSUME NEW x \in Chunks', NEW y \in Chunks', x < y PROVE End(x)' <= y
    <3>1. CASE x = r
      BY <1>1, <1>2, <1>3, <1>4, <2>3, <3>1, ChunkFacts DEF Layout
    <3>2. CASE y = r
      BY <1>1, <1>2, <1>3, <1>4, <2>3, <3>2, ChunkFacts DEF Layout
    <3>3. CASE x \in Chunks /\ y \in Chunks
      BY <1>1, <1>2, <1>3, <1>4, <2>3, <3>3, ChunkFacts DEF Layout
    <3> QED
      BY <1>3, <3>1, <3>2, <3>3
  <2>4. ASSUME NEW u \in Units PROVE \E x \in Chunks' : x <= u /\ u < End(x)'
    <3>1. PICK x \in Chunks : x <= u /\ u < End(x)
      BY DEF Layout, WalkTilesHeap
    <3>2. CASE x # c
      BY <1>3, <1>4, <3>1, <3>2
    <3>3. CASE x = c /\ u < r
      BY <1>3, <1>4, <3>1, <3>3
    <3>4. CASE x = c /\ r <= u
      BY <1>3, <1>4, <3>1, <3>4
    <3> QED
      BY <1>2, <3>2, <3>3, <3>4 DEF Units
  <2> QED
    BY <2>1, <2>2, <2>3, <2>4 DEF WalkTilesHeap
<1>9. PinuseExact'
  <2>1. 0 \in pinuse'
    BY <1>5 DEF Layout, PinuseExact
  <2>2. ASSUME NEW x \in Chunks', NEW y \in Chunks', End(x)' = y
        PROVE  y \in pinuse' <=> x \in vo'
    <3>1. CASE x = c
      BY <1>1, <1>2, <1>3, <1>4, <1>5, <2>2, <3>1
    <3>2. CASE x = r
      <4>1. y \in Chunks /\ End(c) = y /\ y # r
        BY <1>1, <1>2, <1>3, <1>4, <2>2, <3>2
      <4>2. y \notin pinuse
        BY <1>1, <4>1 DEF Layout, PinuseExact
      <4>3. x \notin vo'
        BY <1>2, <1>5, <3>2 DEF Layout, TypeOK
      <4> QED
        BY <1>5, <4>1, <4>2, <4>3
    <3>3. CASE x \in Chunks /\ x # c
      BY <1>1, <1>2, <1>3, <1>4, <1>5, <2>2, <3>3, ChunkFacts DEF Layout, PinuseExact
    <3> QED
      BY <1>3, <3>1, <3>2, <3>3
  <2> QED
    BY <2>1, <2>2 DEF PinuseExact
<1>10. TagsReliable'
  <2> SUFFICES ASSUME NEW x \in Chunks', NEW y \in Chunks', End(x)' = y, y \notin pinuse'
               PROVE  tag'[y] = size'[x]
    BY DEF TagsReliable
  <2>1. CASE x = c
    BY <1>4, <1>5, <2>1
  <2>2. CASE x = r
    BY <1>3, <1>4, <1>6, <2>2
  <2>3. CASE x \in Chunks /\ x # c
    <3>1. y \in Chunks /\ End(x) = y /\ y \notin pinuse
      BY <1>3, <1>4, <1>5, <2>3
    <3>2. y <= c \/ y > End(c)
      BY <1>1, <2>3, <3>1, ChunkFacts DEF Layout
    <3>3. y \in 1 .. HeapUnits
      BY <2>3, <3>1, ChunkFacts DEF Layout
    <3> QED
      BY <1>3, <1>6, <2>3, <3>1, <3>2, <3>3 DEF Layout, TagsReliable
  <2> QED
    BY <1>3, <2>1, <2>2, <2>3
<1>11. NoAdjacentFree'
  <2> SUFFICES ASSUME NEW x \in Chunks', x \notin vo', NEW y \in Chunks', y \notin vo', End(x)' = y
               PROVE  FALSE
    BY DEF NoAdjacentFree, FreeChunks
  <2>1. CASE x = r
    BY <1>1, <1>2, <1>3, <1>4, <1>5, <2>1, ChunkFacts DEF Layout, NoAdjacentFree, FreeChunks
  <2>2. CASE x \in Chunks /\ x # c
    BY <1>1, <1>2, <1>3, <1>4, <1>5, <2>2, ChunkFacts DEF Layout, NoAdjacentFree, FreeChunks
  <2> QED
    BY <1>3, <1>5, <2>1, <2>2
<1>12. KfcExact'
  BY <1>1, <1>2, <1>3, <1>5 DEF KfcExact, FreeChunks, Layout, TypeOK
<1> QED
  BY <1>7, <1>8, <1>9, <1>10, <1>11, <1>12 DEF Layout

LEMMA TakeWholeKeepsLayout ==
  ASSUME Layout, NEW n \in Nat, n >= GC_SMALLEST_SIZE, NEW c \in BestFits(n), TakeWhole(c, n)
  PROVE  Layout'
<1> USE HeapAssumption
<1>1. /\ c \in Chunks /\ c \notin vo /\ c \in kfc
      /\ c \in Int /\ size[c] \in Int /\ End(c) = c + size[c]
  BY ChunkFacts DEF Layout, TypeOK, KfcExact, BestFits, Fits, FreeChunks, End
<1>2. Chunks' = Chunks /\ size' = size /\ \A x : End(x)' = End(x)
  BY DEF TakeWhole, Chunks, End
<1>3. /\ vo' = vo \cup {c} /\ kfc' = kfc \ {c}
      /\ pinuse' = pinuse \cup ({End(c)} \cap Units)
  BY DEF TakeWhole, MarkAbove
<1>4. /\ tag' \in [1 .. HeapUnits -> Nat]
      /\ \A b \in 1 .. HeapUnits : b <= c \/ b > End(c) => tag'[b] = tag[b]
  <2>1. tag \in [1 .. HeapUnits -> Nat]
    BY DEF Layout, TypeOK
  <2>2. tag' = TagAfterUse(tag, c, size[c])
    BY DEF TakeWhole
  <2>. c \in Int /\ size[c] \in Int
    BY <1>1
  <2>3. /\ tag' \in [1 .. HeapUnits -> Nat]
        /\ \A b \in 1 .. HeapUnits : b <= c \/ b > c + size[c] => tag'[b] = tag[b]
    BY <2>1, <2>2, TagUsed
  <2> QED
    BY <1>1, <2>3
<1>5. End(c) \in Units => End(c) \in Chunks
  BY <1>1 DEF Layout, WalkTilesHeap, Units
<1>6. \A y \in Chunks : y \in Units
  BY DEF Layout, TypeOK
<1>7. TypeOK'
  <2>1. totalFree' \in Nat /\ highmark' \in Nat
    BY <1>1, AccountType DEF TakeWhole, Takes, Layout, TypeOK
  <2> QED
    BY <1>1, <1>2, <1>3, <1>4, <1>5, <2>1 DEF Layout, TypeOK
<1>8. WalkTilesHeap'
  BY <1>2 DEF Layout, WalkTilesHeap
<1>9. PinuseExact'
  <2>1. 0 \in pinuse'
    BY <1>3 DEF Layout, PinuseExact
  <2>2. ASSUME NEW x \in Chunks, NEW y \in Chunks, End(x) = y
        PROVE  y \in pinuse' <=> x \in vo'
    <3>1. CASE x = c
      BY <1>3, <1>6, <2>2, <3>1
    <3>2. CASE x # c
      <4>1. y # End(c)
        BY <1>1, <2>2, <3>2, ChunkFacts DEF Layout
      <4> QED
        BY <1>3, <2>2, <3>2, <4>1 DEF Layout, PinuseExact
    <3> QED
      BY <3>1, <3>2
  <2> QED
    BY <1>2, <2>1, <2>2 DEF PinuseExact
<1>10. TagsReliable'
  <2> SUFFICES ASSUME NEW x \in Chunks, NEW y \in Chunks, End(x) = y, y \notin pinuse'
               PROVE  tag'[y] = size[x]
    BY <1>2 DEF TagsReliable
  <2>1. y # End(c) /\ y \notin pinuse
    BY <1>3, <1>6
  <2>2. y <= c \/ y > End(c)
    BY <1>1, <2>1, ChunkFacts DEF Layout
  <2>3. y \in 1 .. HeapUnits
    BY ChunkFacts DEF Layout
  <2> QED
    BY <1>4, <2>1, <2>2, <2>3 DEF Layout, TagsReliable
<1>11. NoAdjacentFree'
  BY <1>2, <1>3 DEF Layout, NoAdjacentFree, FreeChunks
<1>12. KfcExact'
  BY <1>2, <1>3 DEF Layout, KfcExact, FreeChunks
<1> QED
  BY <1>7, <1>8, <1>9, <1>10, <1>11, <1>12 DEF Layout

\* gc_free_vo finds the chunk below exactly when it is free, and never takes
\* a word of the application for a boundary tag.
LEMMA BelowIsFreeNeighbour ==
  ASSUME Layout, NEW c \in vo, NEW h \in Below(c)
  PROVE  \/ h = c /\ \A x \in Chunks : End(x) = c => x \in vo
         \/ h \in FreeChunks /\ End(h) = c
<1>1. c \in Chunks
  BY DEF Layout, TypeOK
<1>2. CASE c \in pinuse
  BY <1>1, <1>2 DEF Below, Layout, PinuseExact
<1>3. CASE c \notin pinuse
  <2>1. PICK d \in Chunks : End(d) = c
    BY <1>1, <1>3, ChunkBelow DEF Layout, PinuseExact
  <2>2. d \in FreeChunks
    BY <1>1, <1>3, <2>1 DEF Layout, PinuseExact, FreeChunks
  <2>3. tag[c] = size[d]
    BY <1>1, <1>3, <2>1 DEF Layout, TagsReliable
  <2>4. d = c - tag[c] /\ tag[c] # Garbage
    BY <2>1, <2>3, ChunkFacts DEF Layout, Garbage, GC_SMALLEST_SIZE
  <2>5. h = d
    BY <1>3, <2>2, <2>4 DEF Below
  <2> QED
    BY <2>1, <2>2, <2>5
<1> QED
  BY <1>2, <1>3

LEMMA FreeKeepsLayout ==
  ASSUME Layout, NEW c \in vo, Free(c)
  PROVE  Layout'
<1> USE HeapAssumption
<1>1. PICK h \in Below(c) :
        Coalesce(c, h, IF h = c THEN End(c) ELSE h + size[h] + size[c])
  BY DEF Free, Release
<1>2. /\ c \in Chunks /\ h \in Chunks /\ h <= c
      /\ h # c => h \in FreeChunks /\ End(h) = c
      /\ \A x \in Chunks : End(x) = h => x \in vo
  <2>1. c \in Chunks
    BY DEF Layout, TypeOK
  <2>2. CASE h = c /\ \A x \in Chunks : End(x) = c => x \in vo
    BY <2>1, <2>2, ChunkFacts DEF Layout
  <2>3. CASE h \in FreeChunks /\ End(h) = c
    BY <2>1, <2>3, ChunkFacts DEF Layout, NoAdjacentFree, FreeChunks
  <2> QED
    BY <2>2, <2>3, BelowIsFreeNeighbour
<1> DEFINE e == End(c)
           above == Above(e)
           E == IF above = {} THEN e ELSE End(e)
           gone == (above \cup {c}) \ {h}
<1>3. (IF h = c THEN End(c) ELSE h + size[h] + size[c]) = e
  BY <1>2, ChunkFacts DEF Layout, End
<1>4. /\ size' = [x \in Chunks \ gone |-> IF x = h THEN E - h ELSE size[x]]
      /\ vo' = vo \ {c}
      /\ kfc' = (kfc \ above) \cup {h}
      /\ tag' = TagAfterAdd(tag, h, E - h)
      /\ pinuse' = (pinuse \ gone) \ {h + (E - h)}
  <2> HIDE <1>3
  <2>1. Coalesce(c, h, e)
    BY <1>1, <1>3
  <2> QED
    BY <2>1 DEF Coalesce, Unlink, MarkFreed
<1>5. /\ above \subseteq FreeChunks /\ above \subseteq {e}
      /\ e \notin above => e \notin FreeChunks
      /\ h \notin above /\ c \notin above
  BY <1>2, ChunkFacts DEF Layout, Above, FreeChunks
<1>6. /\ E \in Int /\ h \in Int /\ c \in Int /\ h <= c /\ c < e /\ e <= E /\ E <= HeapUnits
      /\ e \in Int /\ E - h >= GC_SMALLEST_SIZE
      /\ E \in Chunks \cup {HeapUnits} /\ E \notin FreeChunks
      /\ h < E /\ h >= 0
  <2>1. h \in Int /\ c \in Int /\ e \in Int /\ h <= c /\ h >= 0
        /\ e - c >= GC_SMALLEST_SIZE /\ e <= HeapUnits
    BY <1>2, ChunkFacts DEF Layout
  <2>2. CASE above = {}
    <3>1. E = e /\ e \notin FreeChunks
      BY <1>5, <2>2
    <3>2. e \in Chunks \cup {HeapUnits}
      BY <1>2 DEF Layout, WalkTilesHeap
    <3> QED
      BY <2>1, <3>1, <3>2 DEF GC_SMALLEST_SIZE
  <2>3. CASE above # {}
    <3>1. above = {e} /\ e \in FreeChunks /\ e \in Chunks /\ E = End(e)
      BY <1>5, <2>3 DEF FreeChunks
    <3> HIDE DEF E, e, above
    <3>2. E \in Int /\ E > e /\ E <= HeapUnits /\ E \in Chunks \cup {HeapUnits}
      BY <3>1, ChunkFacts DEF Layout, WalkTilesHeap
    <3>3. E \notin FreeChunks
      BY <3>1 DEF Layout, NoAdjacentFree
    <3> QED
      BY <2>1, <3>2, <3>3 DEF GC_SMALLEST_SIZE
  <2> QED
    BY <2>2, <2>3
<1>7. ASSUME NEW x \in Chunks, x \notin gone, x # h
      PROVE  x >= E \/ End(x) <= h
  <2>1. x # c
    BY <1>2, <1>7
  <2>2. End(x) <= h \/ x > h
    BY <1>2, <1>7, ChunkFacts DEF Layout
  <2>3. CASE x > h
    <3>1. x >= e
      BY <1>2, <2>1, <2>3, ChunkFacts DEF Layout
    <3>2. CASE above = {}
      BY <3>1, <3>2
    <3>3. CASE above # {}
      BY <1>5, <1>7, <3>1, <3>3, ChunkFacts DEF Layout, FreeChunks
    <3> QED
      BY <3>2, <3>3
  <2> QED
    BY <2>2, <2>3
<1>8. /\ \A x \in gone : x \in Chunks /\ h < x /\ x < E
      /\ h \in Chunks \ gone
  BY <1>2, <1>5, <1>6, ChunkFacts DEF Layout, FreeChunks
<1> HIDE DEF e, above, E, gone
<1>9. /\ Chunks' = Chunks \ gone
      /\ size'[h] = E - h /\ End(h)' = E
      /\ \A x \in Chunks \ gone : x # h => size'[x] = size[x] /\ End(x)' = End(x)
  BY <1>4, <1>6, <1>8 DEF Chunks, End
<1>10. /\ h \notin vo' /\ (c \in gone \/ c = h)
       /\ \A x \in Chunks \ gone : x # h => (x \in vo' <=> x \in vo)
       /\ pinuse' = (pinuse \ gone) \ {E}
  BY <1>2, <1>4, <1>6 DEF FreeChunks, gone
<1>11. /\ tag' \in [1 .. HeapUnits -> Nat] /\ tag'[E] = E - h
       /\ \A b \in 1 .. HeapUnits : b <= h \/ b > E => tag'[b] = tag[b]
  <2> DEFINE m == E - h
  <2>1. m \in Nat /\ m >= GC_SMALLEST_SIZE /\ h + m = E /\ E \in 1 .. HeapUnits
    BY <1>6
  <2>2. tag \in [1 .. HeapUnits -> Nat] /\ h \in Int
    BY <1>6 DEF Layout, TypeOK
  <2>3. tag' = TagAfterAdd(tag, h, m)
    BY <1>4
  <2> HIDE DEF m
  <2>4. /\ tag' \in [1 .. HeapUnits -> Nat] /\ tag'[h + m] = m
        /\ \A b \in 1 .. HeapUnits : b <= h \/ b > h + m => tag'[b] = tag[b]
    BY <2>1, <2>2, <2>3, TagAdded
  <2> QED
    BY <2>1, <2>4 DEF m
<1>12. TypeOK'
  <2>1. /\ Chunks' \subseteq Units /\ vo' \subseteq Chunks' /\ pinuse' \subseteq Chunks'
        /\ kfc' \subseteq Chunks'
    <3>1. Chunks' \subseteq Units /\ vo \subseteq Chunks /\ pinuse \subseteq Chunks
      BY <1>9 DEF Layout, TypeOK
    <3>2. vo' \subseteq Chunks'
      BY <1>2, <1>4, <1>5, <1>9, <3>1 DEF FreeChunks, gone
    <3>3. pinuse' \subseteq Chunks'
      BY <1>9, <1>10, <3>1
    <3>4. kfc' \subseteq Chunks'
      BY <1>2, <1>4, <1>8, <1>9 DEF Layout, KfcExact, FreeChunks, gone
    <3> QED
      BY <3>1, <3>2, <3>3, <3>4
  <2>2. ASSUME NEW x \in Chunks'
        PROVE  size'[x] \in Nat /\ size'[x] >= GC_SMALLEST_SIZE /\ End(x)' <= HeapUnits
    BY <1>6, <1>9 DEF Layout, TypeOK
  <2>3. totalFree' \in Nat /\ highmark' \in Nat
    BY <1>2, ReleaseType, ChunkFacts DEF Free, Layout, TypeOK
  <2> QED
    BY <1>11, <2>1, <2>2, <2>3 DEF TypeOK
<1>13. WalkTilesHeap'
  <2>1. 0 \in Chunks'
    BY <1>6, <1>8, <1>9 DEF Layout, WalkTilesHeap
  <2>2. ASSUME NEW x \in Chunks' PROVE End(x)' \in Chunks' \cup {HeapUnits}
    <3>1. CASE x = h
      BY <1>6, <1>8, <1>9, <3>1
    <3>2. CASE x # h
      <4>1. x \in Chunks /\ x \notin gone /\ End(x)' = End(x)
        BY <1>9, <3>2
      <4>2. End(x) \notin gone
        BY <1>6, <1>7, <1>8, <3>2, <4>1, ChunkFacts DEF Layout
      <4> QED
        BY <1>9, <4>1, <4>2 DEF Layout, WalkTilesHeap
    <3> QED
      BY <3>1, <3>2
  <2>3. ASSUME NEW x \in Chunks', NEW y \in Chunks', x < y PROVE End(x)' <= y
    <3>1. CASE x = h
      <4>1. y \in Chunks /\ y \notin gone /\ y # h /\ y > h
        BY <1>6, <1>9, <2>3, <3>1, ChunkFacts DEF Layout
      <4>2. y >= E
        BY <1>6, <1>7, <4>1, ChunkFacts DEF Layout
      <4> QED
        BY <1>9, <3>1, <4>2
    <3>2. CASE x # h
      BY <1>9, <2>3, <3>2 DEF Layout, WalkTilesHeap
    <3> QED
      BY <3>1, <3>2
  <2>4. ASSUME NEW u \in Units PROVE \E x \in Chunks' : x <= u /\ u < End(x)'
    <3>1. PICK x \in Chunks : x <= u /\ u < End(x)
      BY DEF Layout, WalkTilesHeap
    <3>2. CASE x \notin gone /\ x # h
      BY <1>9, <3>1, <3>2
    <3>3. CASE x \in gone \/ x = h
      <4>1. h <= x /\ x < E /\ End(x) <= E
        BY <1>6, <1>8, <3>3, ChunkFacts DEF Layout
      <4>2. h <= u /\ u < E
        BY <1>6, <3>1, <4>1, ChunkFacts DEF Layout, Units
      <4> QED
        BY <1>8, <1>9, <4>2
    <3> QED
      BY <3>2, <3>3
  <2> QED
    BY <2>1, <2>2, <2>3, <2>4 DEF WalkTilesHeap
\* A chunk that is not part of the merged one keeps its neighbour above,
\* which is no part of it either, unless it is the merged chunk itself.
<1>14. ASSUME NEW x \in Chunks', NEW y \in Chunks', End(x)' = y, x # h
       PROVE  /\ x \in Chunks /\ y \in Chunks /\ End(x) = y
              /\ y # E /\ (y <= h \/ y > E) /\ y \in 1 .. HeapUnits
              /\ (y \in pinuse' <=> y \in pinuse)
  <2>1. x \in Chunks /\ y \in Chunks /\ End(x) = y /\ x \notin gone /\ y \notin gone
    BY <1>9, <1>14
  <2>2. y # E /\ (y <= h \/ y > E) /\ y \in 1 .. HeapUnits
    BY <1>6, <1>7, <1>14, <2>1, ChunkFacts DEF Layout
  <2> QED
    BY <1>10, <2>1, <2>2
<1>15. PinuseExact'
  <2>1. 0 \in pinuse'
    BY <1>6, <1>8, <1>10 DEF Layout, PinuseExact
  <2>2. ASSUME NEW x \in Chunks', NEW y \in Chunks', End(x)' = y
        PROVE  y \in pinuse' <=> x \in vo'
    <3>1. CASE x = h
      BY <1>9, <1>10, <2>2, <3>1
    <3>2. CASE x # h
      <4>1. y \in pinuse <=> x \in vo
        BY <1>14, <2>2, <3>2 DEF Layout, PinuseExact
      <4> QED
        BY <1>9, <1>10, <1>14, <2>2, <3>2, <4>1
    <3> QED
      BY <3>1, <3>2
  <2> QED
    BY <2>1, <2>2 DEF PinuseExact
<1>16. TagsReliable'
  <2> SUFFICES ASSUME NEW x \in Chunks', NEW y \in Chunks', End(x)' = y, y \notin pinuse'
               PROVE  tag'[y] = size'[x]
    BY DEF TagsReliable
  <2>1. CASE x = h
    BY <1>9, <1>11, <2>1
  <2>2. CASE x # h
    <3>1. tag[y] = size[x]
      BY <1>14, <2>2 DEF Layout, TagsReliable
    <3> QED
      BY <1>9, <1>11, <1>14, <2>2, <3>1
  <2> QED
    BY <2>1, <2>2
<1>17. NoAdjacentFree'
  <2> SUFFICES ASSUME NEW x \in Chunks', x \notin vo', NEW y \in Chunks', y \notin vo', End(x)' = y
               PROVE  FALSE
    BY DEF NoAdjacentFree, FreeChunks
  <2>1. CASE x = h
    BY <1>6, <1>9, <1>10, <2>1 DEF FreeChunks
  <2>2. CASE x # h /\ y = h
    BY <1>2, <1>9, <1>10, <1>14, <2>2
  <2>3. CASE x # h /\ y # h
    BY <1>9, <1>10, <1>14, <2>3 DEF Layout, NoAdjacentFree, FreeChunks
  <2> QED
    BY <2>1, <2>2, <2>3
<1>18. KfcExact'
  BY <1>2, <1>4, <1>5, <1>8, <1>9, <1>10 DEF KfcExact, FreeChunks, Layout, TypeOK, gone
<1> QED
  BY <1>12, <1>13, <1>15, <1>16, <1>17, <1>18 DEF Layout

-----------------------------------------------------------------------------
(* The theorem *)

LEMMA InitLayout == Init => Layout
<1> SUFFICES ASSUME Init PROVE Layout
  OBVIOUS
<1>1. Chunks = {0} /\ size[0] = HeapUnits /\ End(0) = HeapUnits
  BY HeapAssumption DEF Init, Chunks, End
<1> QED
  BY <1>1, HeapAssumption
  DEF Init, Layout, TypeOK, WalkTilesHeap, PinuseExact, TagsReliable, NoAdjacentFree,
      KfcExact, FreeChunks, Units, GC_SMALLEST_SIZE, Garbage

LEMMA StepLayout == Layout /\ [Next]_vars => Layout'
<1> SUFFICES ASSUME Layout, [Next]_vars PROVE Layout'
  OBVIOUS
<1>1. ASSUME NEW b \in Requests, Malloc(b) PROVE Layout'
  BY <1>1, AllocUnitsType, SplitKeepsLayout, TakeWholeKeepsLayout DEF Malloc
<1>2. ASSUME UNCHANGED <<size, vo, pinuse, tag, kfc, totalFree, highmark>> PROVE Layout'
  BY <1>2 DEF Layout, TypeOK, WalkTilesHeap, PinuseExact, TagsReliable, NoAdjacentFree,
              KfcExact, FreeChunks, Chunks, End
<1>3. ASSUME NEW b \in Requests, MallocFails(b) PROVE Layout'
  BY <1>2, <1>3 DEF MallocFails
<1>4. ASSUME NEW c \in vo, Free(c) PROVE Layout'
  BY <1>4, FreeKeepsLayout
<1>5. CASE UNCHANGED vars
  BY <1>2, <1>5 DEF vars
<1> QED
  BY <1>1, <1>3, <1>4, <1>5 DEF Next

\* The heap stays well formed under any sequence of malloc and free: typed,
\* tiled, with exact previous-in-use bits and boundary tags, without adjacent
\* free chunks, and with exactly the free chunks in the free structure.
THEOREM LayoutInvariant ==
  Spec => []/\ TypeOK
            /\ WalkTilesHeap
            /\ PinuseExact
            /\ TagsReliable
            /\ NoAdjacentFree
            /\ KfcExact
<1>1. Spec => []Layout
  BY InitLayout, StepLayout, PTL DEF Spec
<1> QED
  BY <1>1, PTL DEF Layout

-----------------------------------------------------------------------------
(* The heap implements the abstract pool *)

\* The rounded total holds header and payload and wastes less than a unit,
\* unless the 32-bit arithmetic wrapped; and then the request exceeds the heap.
LEMMA TotUnitsCover ==
  ASSUME NEW b \in Requests
  PROVE  /\ TotUnits(b) \in Nat
         /\ ~Overflows(b) => 8 * TotUnits(b) >= HMU_SIZE + b /\ 8 * TotUnits(b) < HMU_SIZE + b + 8
         /\ Overflows(b) => HMU_SIZE + b > 8 * HeapUnits
<1>1. /\ b \in Nat /\ b < WordMod /\ WordMod \in Nat /\ WordMod >= 24
      /\ WordMod >= 8 * HeapUnits + 8 /\ HeapUnits \in Nat
  BY HeapAssumption DEF WordMod, GC_SMALLEST_SIZE
<1> DEFINE x == (4 + b) % WordMod
           y == (x + 7) % WordMod
<1>2. \A i \in Nat : i < WordMod => i % WordMod = i
  BY <1>1
<1>3. \A i \in Nat : WordMod <= i /\ i < 2 * WordMod => i % WordMod = i - WordMod
  <2> TAKE i \in Nat
  <2> HAVE WordMod <= i /\ i < 2 * WordMod
  <2> DEFINE j == i - WordMod
  <2>1. j \in Nat /\ j < WordMod /\ i = j + WordMod
    BY <1>1
  <2> HIDE DEF j
  <2>2. (j + WordMod) % WordMod = j
    BY <1>1, <2>1
  <2> QED
    BY <1>1, <2>1, <2>2
<1>4. TotUnits(b) = y \div 8
  BY DEF TotUnits, HMU_SIZE
<1>5. \A i \in Nat : i \div 8 \in Nat /\ 8 * (i \div 8) <= i /\ i < 8 * (i \div 8) + 8
  OBVIOUS
<1>6. CASE 4 + b + 7 < WordMod
  <2>1. x = 4 + b /\ y = b + 11
    BY <1>1, <1>2, <1>6
  <2> HIDE DEF x, y
  <2> QED
    BY <1>1, <1>4, <1>5, <2>1 DEF Overflows, HMU_SIZE
<1>7. CASE 4 + b + 7 >= WordMod
  <2>1. y \in Nat /\ y <= 10
    <3>1. CASE 4 + b < WordMod
      <4>1. x = 4 + b
        BY <1>1, <1>2, <3>1
      <4> HIDE DEF x
      <4>2. y = 11 + b - WordMod
        BY <1>1, <1>3, <1>7, <3>1, <4>1
      <4> HIDE DEF y
      <4> QED
        BY <1>1, <1>7, <3>1, <4>2
    <3>2. CASE 4 + b >= WordMod
      <4>1. x = 4 + b - WordMod
        BY <1>1, <1>3, <3>2
      <4> HIDE DEF x
      <4>2. x \in Nat /\ x <= 3
        BY <1>1, <3>2, <4>1
      <4>3. y = x + 7
        BY <1>1, <1>2, <4>2
      <4> HIDE DEF y
      <4> QED
        BY <4>2, <4>3
    <3> QED
      BY <1>1, <3>1, <3>2
  <2> HIDE DEF x, y
  <2>2. 8 * TotUnits(b) <= 10 /\ TotUnits(b) \in Nat
    BY <1>4, <1>5, <2>1
  <2> QED
    BY <1>1, <1>7, <2>2 DEF Overflows, HMU_SIZE
<1> QED
  BY <1>1, <1>6, <1>7

\* A unit is free for the pool exactly when it lies in a free chunk.
LEMMA FreeUnitInFreeChunk ==
  ASSUME Layout, NEW u \in Units, ~Pool!InUse(u)
  PROVE  \E x \in FreeChunks : x <= u /\ u < End(x)
<1>1. PICK x \in Chunks : x <= u /\ u < End(x)
  BY DEF Layout, WalkTilesHeap
<1>2. ASSUME x \in vo PROVE FALSE
  <2>1. u \in Pool!Block(x, size[x])
    BY <1>1, ChunkFacts, HeapAssumption DEF Pool!Block, End, Units, Layout
  <2> QED
    BY <1>2, <2>1 DEF Pool!InUse
<1> QED
  BY <1>1, <1>2 DEF FreeChunks

\* Inside a free chunk no unit is in use.
LEMMA FreeChunkIsFreeRun ==
  ASSUME Layout, NEW c \in FreeChunks, NEW n \in Nat, n <= size[c]
  PROVE  Pool!FreeRun(c, n)
<1>1. /\ c \in Chunks /\ c \in Int /\ c >= 0 /\ End(c) = c + size[c] /\ End(c) <= HeapUnits
      /\ size[c] \in Int /\ HeapUnits \in Int
  BY ChunkFacts, HeapAssumption DEF FreeChunks, Layout, End
<1>2. Pool!Block(c, n) \subseteq Pool!Units
  BY <1>1 DEF Pool!Block, Pool!Units
<1>3. ASSUME NEW u \in Pool!Block(c, n), NEW a \in vo, u \in Pool!Block(a, size[a])
      PROVE  FALSE
  <2>1. a \in Chunks /\ a # c
    BY DEF Layout, TypeOK, FreeChunks
  <2>2. u \in Int /\ c <= u /\ u < End(c) /\ a <= u /\ u < a + size[a]
    BY <1>1, <1>3, <2>1, ChunkFacts DEF Pool!Block, Layout
  <2>3. End(a) = a + size[a]
    BY DEF End
  <2> QED
    BY <1>1, <2>1, <2>2, <2>3, ChunkFacts DEF Layout
<1> QED
  BY <1>2, <1>3 DEF Pool!FreeRun, Pool!InUse

\* Free neighbours are merged, so a free run never spans two chunks.
LEMMA FreeRunInOneChunk ==
  ASSUME Layout, NEW a \in Units, NEW n \in Nat \ {0}, Pool!FreeRun(a, n)
  PROVE  \E x \in FreeChunks : size[x] >= n
<1>1. /\ a \in Int /\ a >= 0 /\ HeapUnits \in Int
      /\ \A u \in Int : a <= u /\ u < a + n => u \in Units /\ ~Pool!InUse(u)
  BY HeapAssumption DEF Units, Pool!FreeRun, Pool!Block, Pool!Units
<1>2. PICK x \in FreeChunks : x <= a /\ a < End(x)
  BY <1>1, FreeUnitInFreeChunk
<1>3. x \in Chunks /\ End(x) = x + size[x] /\ x \in Int /\ size[x] \in Int /\ End(x) \in Int
  BY ChunkFacts DEF FreeChunks, Layout, End
<1>4. ASSUME size[x] < n PROVE FALSE
  <2>1. End(x) \in Units /\ ~Pool!InUse(End(x))
    BY <1>1, <1>2, <1>3, <1>4
  <2>2. PICK y \in FreeChunks : y <= End(x) /\ End(x) < End(y)
    BY <2>1, FreeUnitInFreeChunk
  <2>3. End(x) \in Chunks
    BY <1>3, <2>1, HeapAssumption DEF Layout, WalkTilesHeap, Units
  <2>4. y = End(x)
    BY <1>3, <2>2, <2>3, ChunkFacts DEF Layout, FreeChunks
  <2> QED
    BY <1>2, <2>4 DEF Layout, NoAdjacentFree
<1> QED
  BY <1>2, <1>3, <1>4

\* malloc takes m units, enough for the request, from the front of a free chunk.
LEMMA MallocTakes ==
  ASSUME Layout, NEW b \in Requests, Malloc(b)
  PROVE  \E c \in FreeChunks, m \in Nat :
           /\ c \in Units /\ AllocUnits(b) <= m /\ m <= size[c] /\ size[c] <= HeapUnits
           /\ [x \in vo' |-> size'[x]] = [x \in vo \cup {c} |-> IF x = c THEN m ELSE size[x]]
           /\ last' = [bytes |-> b, at |-> c]
           /\ Account(-m)
<1> DEFINE n == AllocUnits(b)
<1>1. n \in Nat /\ n >= GC_SMALLEST_SIZE
  BY AllocUnitsType
<1> HIDE DEF n
<1>2. PICK c \in BestFits(n) : /\ Split(c, n) \/ TakeWhole(c, n)
                               /\ last' = [bytes |-> b, at |-> c]
  BY DEF Malloc, n
<1>3. c \in FreeChunks /\ c \in Units /\ size[c] >= n /\ size[c] <= HeapUnits /\ size[c] \in Nat
  <2>1. c \in FreeChunks /\ c \in Chunks /\ size[c] >= n
    BY DEF BestFits, Fits, Layout, KfcExact, FreeChunks
  <2>2. c \in Units /\ size[c] \in Nat
    BY <2>1 DEF Layout, TypeOK
  <2>3. size[c] <= HeapUnits
    BY <2>1, ChunkFacts, HeapAssumption DEF Layout
  <2> QED
    BY <2>1, <2>2, <2>3
<1>4. PICK m \in Nat : /\ n <= m /\ m <= size[c] /\ Account(-m)
                       /\ [x \in vo' |-> size'[x]] =
                          [x \in vo \cup {c} |-> IF x = c THEN m ELSE size[x]]
  <2>1. CASE Split(c, n)
    <3>1. vo' = vo \cup {c} /\ size'[c] = n /\ \A x \in vo : size'[x] = size[x]
      <4>1. c \in Chunks /\ c \notin vo /\ vo \subseteq Chunks /\ c \in Int
        BY <1>3 DEF FreeChunks, Layout, TypeOK, Units
      <4>2. c + n \notin Chunks
        BY <1>1, <1>3, <2>1, <4>1, InsideChunk DEF Split, Layout, End, GC_SMALLEST_SIZE
      <4> QED
        BY <2>1, <4>1, <4>2 DEF Split
    <3>2. Account(-n)
      BY <2>1 DEF Split
    <3> QED
      BY <1>1, <1>3, <3>1, <3>2
  <2>2. CASE TakeWhole(c, n)
    BY <1>3, <2>2 DEF TakeWhole, Takes
  <2> QED
    BY <1>2, <2>1, <2>2
<1> QED
  BY <1>2, <1>3, <1>4 DEF n

LEMMA MallocGrants ==
  ASSUME Layout, NEW b \in Requests, Malloc(b)
  PROVE  Pool!Grant(b)
<1>1. PICK c \in FreeChunks, m \in Nat :
           /\ c \in Units /\ AllocUnits(b) <= m /\ m <= size[c] /\ size[c] <= HeapUnits
           /\ [x \in vo' |-> size'[x]] = [x \in vo \cup {c} |-> IF x = c THEN m ELSE size[x]]
           /\ last' = [bytes |-> b, at |-> c]
  BY MallocTakes
<1>2. m >= GC_SMALLEST_SIZE /\ 8 * m >= HMU_SIZE + b
  BY <1>1, TotUnitsCover, AllocUnitsType, HeapAssumption
  DEF Malloc, AllocUnits, Max2, GC_SMALLEST_SIZE, HMU_SIZE, WordMod
<1>3. Pool!FreeRun(c, m)
  BY <1>1, FreeChunkIsFreeRun
<1>4. Pool!Covers(m, b)
  BY <1>2 DEF Pool!Covers
<1>5. c \in Pool!Units /\ m \in 1 .. HeapUnits
  <2>1. size[c] \in Int
    BY ChunkFacts DEF Layout, FreeChunks
  <2> QED
    BY <1>1, <1>2, <2>1, HeapAssumption DEF Units, Pool!Units, GC_SMALLEST_SIZE
<1> QED
  BY <1>1, <1>3, <1>4, <1>5 DEF Pool!Grant

LEMMA FailureRefuses ==
  ASSUME Layout, NEW b \in Requests, MallocFails(b)
  PROVE  Pool!Refuse(b)
<1>1. b \in Nat /\ HeapUnits \in Nat
  BY HeapAssumption DEF WordMod
<1>2. ASSUME NEW a \in Pool!Units, NEW n \in 1 .. HeapUnits, Pool!Covers(n, b), Pool!FreeRun(a, n)
      PROVE  FALSE
  <2>1. n \in Nat \ {0} /\ n >= GC_SMALLEST_SIZE /\ 8 * n >= HMU_SIZE + b
    BY <1>2 DEF Pool!Covers
  <2>2. ~Overflows(b)
    BY <1>1, <1>2, <2>1, TotUnitsCover DEF HMU_SIZE
  <2>3. n >= AllocUnits(b)
    BY <1>1, <2>1, <2>2, TotUnitsCover DEF AllocUnits, Max2, HMU_SIZE, GC_SMALLEST_SIZE
  <2>4. PICK x \in FreeChunks : size[x] >= n
    BY <1>2, <2>1, FreeRunInOneChunk DEF Units, Pool!Units
  <2>5. x \in Fits(AllocUnits(b))
    BY <2>1, <2>3, <2>4, AllocUnitsType, ChunkFacts DEF Fits, Layout, KfcExact, FreeChunks
  <2> QED
    BY <2>2, <2>5 DEF MallocFails
<1>3. last' = [bytes |-> b, at |-> Null] /\ [c \in vo |-> size[c]]' = [c \in vo |-> size[c]]
  BY DEF MallocFails
<1> QED
  BY <1>2, <1>3 DEF Pool!Refuse

LEMMA FreeReleases ==
  ASSUME Layout, NEW c \in vo, Free(c)
  PROVE  Pool!Release(c)
<1>1. PICK h \in Below(c) :
        Coalesce(c, h, IF h = c THEN End(c) ELSE h + size[h] + size[c])
  BY DEF Free, Release
<1>2. h = c \/ h \in FreeChunks
  BY BelowIsFreeNeighbour
<1>3. vo' = vo \ {c} /\ last' = last
  BY <1>1 DEF Coalesce, Free
<1>4. ASSUME NEW x \in vo, x # c PROVE size'[x] = size[x]
  BY <1>1, <1>2, <1>4 DEF Coalesce, Above, FreeChunks, Layout, TypeOK
<1>5. [x \in vo' |-> size'[x]] = [x \in vo \ {c} |-> [y \in vo |-> size[y]][x]]
  BY <1>3, <1>4
<1> QED
  BY <1>3, <1>5 DEF Pool!Release

\* malloc and free implement the abstract pool for every heap size and every
\* set of requests: live blocks never overlap and cover their requests, and
\* NULL means that no free run was long enough.
THEOREM HeapImplementsPool == Spec => ImplementsPool
<1>1. Init => Pool!Init
  BY DEF Init, Pool!Init
<1>2. Layout /\ [Next]_vars => [Pool!Next]_<<[c \in vo |-> size[c]], last>>
  <2> SUFFICES ASSUME Layout, [Next]_vars
               PROVE  [Pool!Next]_<<[c \in vo |-> size[c]], last>>
    OBVIOUS
  <2>1. ASSUME NEW b \in Requests, Malloc(b) \/ MallocFails(b)
        PROVE  Pool!Grant(b) \/ Pool!Refuse(b)
    BY <2>1, MallocGrants, FailureRefuses
  <2>2. ASSUME NEW c \in vo, Free(c) PROVE Pool!Release(c)
    BY <2>2, FreeReleases
  <2>3. CASE UNCHANGED vars
    BY <2>3 DEF vars
  <2> QED
    BY <2>1, <2>2, <2>3 DEF Next, Pool!Next
<1> QED
  BY <1>1, <1>2, LayoutInvariant, PTL DEF Layout, Spec, ImplementsPool, Pool!Spec

-----------------------------------------------------------------------------
(* The statistics *)

\* The free chunks hold exactly the units no live block covers.
Unused == {u \in Units : \A a \in vo : u \notin a .. a + size[a] - 1}
LEMMA FreeUnitsUnused == Layout => FreeUnits = Unused
<1> SUFFICES ASSUME Layout PROVE FreeUnits = Unused
  OBVIOUS
<1>1. ASSUME NEW c \in FreeChunks, NEW u \in c .. End(c) - 1
      PROVE  u \in Units /\ \A a \in vo : u \notin a .. a + size[a] - 1
  <2>1. c \in Chunks /\ c \notin vo /\ c \in Int /\ End(c) \in Int /\ 0 <= c /\ End(c) <= HeapUnits
    BY ChunkFacts DEF FreeChunks, Layout
  <2>2. u \in Int /\ c <= u /\ u < End(c) /\ u \in Units
    BY <2>1, HeapAssumption DEF Units
  <2>3. ASSUME NEW a \in vo, u \in a .. a + size[a] - 1 PROVE FALSE
    <3>1. a \in Chunks /\ a # c /\ a \in Int /\ End(a) \in Int /\ size[a] = End(a) - a
      BY <2>1, ChunkFacts DEF Layout, TypeOK
    <3>2. a <= u /\ u < End(a)
      BY <2>2, <2>3, <3>1
    <3> QED
      BY <2>1, <2>2, <3>1, <3>2, ChunkFacts DEF Layout
  <2> QED
    BY <2>2, <2>3
<1>2. ASSUME NEW u \in Units, \A a \in vo : u \notin a .. a + size[a] - 1
      PROVE  \E c \in FreeChunks : u \in c .. End(c) - 1
  <2>1. ~Pool!InUse(u)
    BY <1>2 DEF Pool!InUse, Pool!Block
  <2>2. PICK c \in FreeChunks : c <= u /\ u < End(c)
    BY <2>1, FreeUnitInFreeChunk
  <2> QED
    BY <2>2, ChunkFacts, HeapAssumption DEF Layout, FreeChunks, Units
<1> QED
  BY <1>1, <1>2 DEF FreeUnits, Unused

\* There are at most HeapUnits of them.
LEMMA FreeUnitsFinite ==
  ASSUME NEW S \in SUBSET Units
  PROVE  IsFiniteSet(S) /\ Cardinality(S) \in Nat /\ Cardinality(S) <= HeapUnits
<1>1. IsFiniteSet(Units) /\ Cardinality(Units) = HeapUnits
  BY FS_Interval, HeapAssumption DEF Units, GC_SMALLEST_SIZE
<1> QED
  BY <1>1, FS_Subset, FS_CardinalityType

\* Nothing wraps while the counters stay within the heap.
LEMMA SmallMod ==
  ASSUME NEW i \in Nat, i <= HeapUnits
  PROVE  i % WordUnits = i
BY HeapAssumption

LEMMA MallocAccounts ==
  ASSUME Layout, AccountingExact, Layout', NEW b \in Requests, Malloc(b)
  PROVE  AccountingExact'
<1>1. PICK c \in FreeChunks, m \in Nat :
           /\ c \in Units /\ AllocUnits(b) <= m /\ m <= size[c] /\ size[c] <= HeapUnits
           /\ [x \in vo' |-> size'[x]] = [x \in vo \cup {c} |-> IF x = c THEN m ELSE size[x]]
           /\ Account(-m)
  BY MallocTakes
<1> DEFINE block == c .. c + m - 1
<1>2. vo' = vo \cup {c} /\ size'[c] = m /\ (\A x \in vo : x # c => size'[x] = size[x])
  <2>1. \A x \in vo' : size'[x] = [y \in vo' |-> size'[y]][x]
    OBVIOUS
  <2>2. vo' = DOMAIN [y \in vo' |-> size'[y]]
    OBVIOUS
  <2> QED
    BY <1>1, <2>1, <2>2
<1>3. (FreeUnits = Unused)'
  BY FreeUnitsUnused, PTL
<1>4. FreeUnits = Unused
  BY FreeUnitsUnused
<1>5. c \notin vo /\ block \subseteq FreeUnits
  <2>1. c \in Int /\ End(c) \in Int /\ size[c] = End(c) - c
    BY ChunkFacts DEF Layout, FreeChunks
  <2>2. block \subseteq c .. End(c) - 1
    BY <1>1, <2>1
  <2> QED
    BY <2>2 DEF FreeUnits, FreeChunks
<1>6. FreeUnits' = FreeUnits \ block
  <2>1. Unused' = Unused \ block
    BY <1>2, <1>5 DEF Unused
  <2> QED
    BY <1>3, <1>4, <2>1
<1>7. Cardinality(block) = m
  BY <1>1, FS_Interval DEF Units
<1> HIDE DEF block
<1>8. Cardinality(FreeUnits') = Cardinality(FreeUnits) - m
  <2>1. FreeUnits \cap block = block
    BY <1>5
  <2>2. IsFiniteSet(FreeUnits)
    BY <1>4, FreeUnitsFinite DEF Unused
  <2> QED
    BY <1>6, <1>7, <2>1, <2>2, FS_Difference
<1>9. /\ Cardinality(FreeUnits') \in Nat
      /\ Cardinality(FreeUnits) \in Nat /\ Cardinality(FreeUnits) <= HeapUnits
  <2>1. FreeUnits \in SUBSET Units /\ FreeUnits' \in SUBSET Units
    BY <1>3, <1>4 DEF Unused
  <2> QED
    BY <2>1, FreeUnitsFinite
<1>10. totalFree' = totalFree - m
  BY <1>1, <1>8, <1>9, SmallMod, HeapAssumption DEF AccountingExact, Account
<1>11. highmark' >= HeapUnits - totalFree'
  <2> DEFINE used == HeapUnits - totalFree'
  <2>1. used \in Nat /\ used <= HeapUnits
    BY <1>8, <1>9, <1>10, HeapAssumption DEF AccountingExact
  <2>2. used % WordUnits = used /\ highmark' = Max2(highmark, used % WordUnits)
    BY <1>1, <2>1, SmallMod DEF Account
  <2> HIDE DEF used
  <2>3. highmark \in Nat
    BY DEF Layout, TypeOK
  <2> QED
    BY <2>1, <2>2, <2>3 DEF Max2, used
<1> QED
  BY <1>8, <1>10, <1>11 DEF AccountingExact

LEMMA FreeAccounts ==
  ASSUME Layout, AccountingExact, Layout', NEW c \in vo, Free(c)
  PROVE  AccountingExact'
<1> DEFINE block == c .. c + size[c] - 1
<1>1. /\ vo' = vo \ {c} /\ \A x \in vo' : size'[x] = size[x]
      /\ totalFree' = (totalFree + size[c]) % WordUnits /\ highmark' = highmark
  <2>1. PICK h \in Below(c) :
          /\ Coalesce(c, h, IF h = c THEN End(c) ELSE h + size[h] + size[c])
          /\ totalFree' = (totalFree + size[c]) % WordUnits
    BY DEF Free, Release
  <2>2. vo' = vo \ {c}
    BY <2>1 DEF Coalesce
  <2>3. \A x \in vo' : size'[x] = [y \in vo' |-> size'[y]][x]
    OBVIOUS
  <2>4. ASSUME NEW x \in vo, x # c PROVE size'[x] = size[x]
    BY <2>1, <2>4, BelowIsFreeNeighbour DEF Coalesce, Above, FreeChunks, Layout, TypeOK
  <2> QED
    BY <2>1, <2>2, <2>4 DEF Free
<1>2. (FreeUnits = Unused)'
  BY FreeUnitsUnused, PTL
<1>3. FreeUnits = Unused
  BY FreeUnitsUnused
<1>4. /\ c \in Int /\ size[c] \in Nat /\ size[c] > 0 /\ block \subseteq Units
      /\ \A a \in vo : a # c => \A u \in a .. a + size[a] - 1 : u \notin block
  <2>1. c \in Chunks /\ c \in Int /\ End(c) \in Int /\ 0 <= c /\ End(c) <= HeapUnits
        /\ size[c] = End(c) - c /\ c < End(c)
    BY ChunkFacts DEF Layout, TypeOK
  <2>2. ASSUME NEW a \in vo, a # c, NEW u \in a .. a + size[a] - 1, u \in block PROVE FALSE
    <3>1. a \in Chunks /\ a \in Int /\ End(a) \in Int /\ size[a] = End(a) - a
      BY ChunkFacts DEF Layout, TypeOK
    <3>2. u \in Int /\ a <= u /\ u < End(a) /\ c <= u /\ u < End(c)
      BY <2>1, <2>2, <3>1
    <3> QED
      BY <2>1, <2>2, <3>1, <3>2, ChunkFacts DEF Layout
  <2>3. block \subseteq Units
    BY <2>1, HeapAssumption DEF Units
  <2> QED
    BY <2>1, <2>2, <2>3
<1>5. FreeUnits' = FreeUnits \cup block
  <2>1. Unused' = {u \in Units : \A a \in vo \ {c} : u \notin a .. a + size[a] - 1}
    BY <1>1 DEF Unused
  <2> HIDE DEF block
  <2>2. \A u \in Units : u \notin c .. c + size[c] - 1 <=> u \notin block
    BY DEF block
  <2>3. Unused' = Unused \cup block
    BY <1>4, <2>1, <2>2 DEF Unused
  <2> QED
    BY <1>2, <1>3, <2>3
<1>6. FreeUnits \cap block = {}
  BY <1>3 DEF Unused
<1>7. IsFiniteSet(block) /\ Cardinality(block) = size[c]
  <2> DEFINE z == c + size[c] - 1
  <2>1. z \in Int /\ c <= z /\ z - c + 1 = size[c] /\ block = c .. z
    BY <1>4
  <2> HIDE DEF z, block
  <2> QED
    BY <1>4, <2>1, FS_Interval
<1> HIDE DEF block
<1>8. Cardinality(FreeUnits') = Cardinality(FreeUnits) + size[c]
  <2>1. IsFiniteSet(FreeUnits) /\ Cardinality(FreeUnits) \in Nat
    BY <1>3, FreeUnitsFinite DEF Unused
  <2> QED
    <3>1. Cardinality(FreeUnits \cap block) = 0
      BY <1>6, FS_EmptySet
    <3>2. Cardinality(FreeUnits \cup block) =
            Cardinality(FreeUnits) + Cardinality(block) - Cardinality(FreeUnits \cap block)
      BY <1>7, <2>1, FS_Union
    <3> QED
      BY <1>4, <1>5, <1>7, <2>1, <3>1, <3>2
<1>9. Cardinality(FreeUnits') \in Nat /\ Cardinality(FreeUnits') <= HeapUnits
  BY <1>2, FreeUnitsFinite DEF Unused
<1>10. totalFree \in Nat /\ highmark \in Nat
  BY DEF Layout, TypeOK
<1>11. totalFree' = totalFree + size[c]
  BY <1>1, <1>8, <1>9, SmallMod DEF AccountingExact
<1> QED
  BY <1>1, <1>4, <1>8, <1>10, <1>11, HeapAssumption DEF AccountingExact

LEMMA InitAccounts == Init => AccountingExact
<1> SUFFICES ASSUME Init PROVE AccountingExact
  OBVIOUS
<1>1. FreeUnits = Units
  BY InitLayout, FreeUnitsUnused DEF Unused, Init
<1>2. Cardinality(Units) = HeapUnits
  BY FS_Interval, HeapAssumption DEF Units, GC_SMALLEST_SIZE
<1> QED
  BY <1>1, <1>2, HeapAssumption DEF Init, AccountingExact

\* total_free_size is always the number of units the free chunks hold, and
\* highmark_size never falls behind the use of the heap.
THEOREM AccountingInvariant == Spec => []AccountingExact
<1>1. Layout /\ Layout' /\ AccountingExact /\ [Next]_vars => AccountingExact'
  <2> SUFFICES ASSUME Layout, Layout', AccountingExact, [Next]_vars PROVE AccountingExact'
    OBVIOUS
  <2>1. ASSUME UNCHANGED <<size, vo, totalFree, highmark>> PROVE AccountingExact'
    BY <2>1 DEF AccountingExact, FreeUnits, FreeChunks, Chunks, End
  <2>2. ASSUME NEW b \in Requests, MallocFails(b) PROVE AccountingExact'
    BY <2>1, <2>2 DEF MallocFails
  <2>3. CASE UNCHANGED vars
    BY <2>1, <2>3 DEF vars
  <2> QED
    BY <2>2, <2>3, MallocAccounts, FreeAccounts DEF Next
<1> QED
  BY <1>1, InitAccounts, LayoutInvariant, PTL DEF Layout, Spec

-----------------------------------------------------------------------------
(* Realloc.  The layout of malloc and free is too strong here: growing a   *)
(* block leaves the pinuse bit of the chunk behind it clear, and may leave *)
(* a free chunk of one unit, which has no boundary tag.  What remains true *)
(* is Kept below: a set bit is right, and a word that looks like a         *)
(* boundary tag is one.                                                    *)

\* The chunks in s tile the heap.
Tiling(s) ==
  /\ DOMAIN s \subseteq Units
  /\ 0 \in DOMAIN s
  /\ \A x \in DOMAIN s : s[x] \in Nat \ {0} /\ x + s[x] \in DOMAIN s \cup {HeapUnits}
  /\ \A u \in Units : \E x \in DOMAIN s : x <= u /\ u < x + s[x]
  /\ \A x, y \in DOMAIN s : x < y => x + s[x] <= y

\* What two chunks that touch know of each other: a set bit is right, a word
\* that is no garbage is the tag of a free chunk, and one of them is used.
Neighbours(s, v, p, t) ==
  \A x, y \in DOMAIN s : x + s[x] = y =>
    /\ y \in p => x \in v
    /\ t[y] = Garbage \/ (x \notin v /\ t[y] = s[x])
    /\ x \in v \/ y \in v

Kept ==
  /\ Tiling(size)
  /\ vo \subseteq Chunks
  /\ kfc = FreeChunks
  /\ 0 \in pinuse
  /\ tag \in [1 .. HeapUnits -> Nat]
  /\ Neighbours(size, vo, pinuse, tag)

\* A chunk cut in two, and a chunk that takes over the one above it.
Cut(s, c, n) ==
  [x \in DOMAIN s \cup {c + n} |-> IF x = c THEN n ELSE IF x = c + n THEN s[c] - n ELSE s[x]]
Merge(s, c, d) ==
  [x \in DOMAIN s \ {d} |-> IF x = c THEN s[c] + s[d] ELSE s[x]]

-----------------------------------------------------------------------------
(* Tilings *)

LEMMA TilingFacts ==
  ASSUME NEW s, Tiling(s)
  PROVE  /\ \A x \in DOMAIN s : /\ x \in Int /\ 0 <= x /\ x < HeapUnits
                                /\ s[x] \in Int /\ 1 <= s[x] /\ x + s[x] <= HeapUnits
                                /\ x + s[x] \in DOMAIN s \cup {HeapUnits}
         /\ \A x, y \in DOMAIN s : x < y => x + s[x] <= y
         /\ HeapUnits \in Int /\ HeapUnits > 0
<1>1. HeapUnits \in Int /\ HeapUnits > 0
  BY HeapAssumption DEF GC_SMALLEST_SIZE
<1>2. \A x \in DOMAIN s : x \in Int /\ 0 <= x /\ x < HeapUnits
  BY <1>1 DEF Tiling, Units
<1>3. \A x \in DOMAIN s : s[x] \in Int /\ 1 <= s[x] /\ x + s[x] \in DOMAIN s \cup {HeapUnits}
  BY DEF Tiling
<1>4. \A x \in DOMAIN s : x + s[x] <= HeapUnits
  BY <1>1, <1>2, <1>3
<1> QED
  BY <1>1, <1>2, <1>3, <1>4 DEF Tiling

\* A tiling is told by its chunks and their sizes.
LEMMA SameTiling ==
  ASSUME NEW s, NEW t, Tiling(s), DOMAIN t = DOMAIN s, \A x \in DOMAIN s : t[x] = s[x]
  PROVE  Tiling(t)
BY DEF Tiling

LEMMA CutTiles ==
  ASSUME NEW s, Tiling(s), NEW c \in DOMAIN s, NEW n \in Int, 0 < n, n < s[c]
  PROVE  Tiling(Cut(s, c, n)) /\ c + n \notin DOMAIN s
<1> DEFINE r == c + n
           t == Cut(s, c, n)
<1>1. /\ \A x \in DOMAIN s : /\ x \in Int /\ 0 <= x /\ x < HeapUnits
                             /\ s[x] \in Int /\ 1 <= s[x] /\ x + s[x] <= HeapUnits
                             /\ x + s[x] \in DOMAIN s \cup {HeapUnits}
      /\ \A x, y \in DOMAIN s : x < y => x + s[x] <= y
      /\ HeapUnits \in Int /\ HeapUnits > 0
  BY TilingFacts
<1>2. r \notin DOMAIN s /\ r \in Int /\ c < r /\ r < c + s[c]
  BY <1>1
<1>3. /\ DOMAIN t = DOMAIN s \cup {r}
      /\ t[c] = n /\ t[r] = s[c] - n
      /\ \A x \in DOMAIN s : x # c => t[x] = s[x]
  BY <1>2 DEF Cut
<1> HIDE DEF r, t
<1>4. c + n = r /\ r + t[r] = c + s[c] /\ c + t[c] = r
  BY <1>1, <1>2, <1>3 DEF r
<1>5. DOMAIN t \subseteq Units /\ 0 \in DOMAIN t
  BY <1>1, <1>2, <1>3 DEF Tiling, Units
<1>6. ASSUME NEW x \in DOMAIN t
      PROVE  t[x] \in Nat \ {0} /\ x + t[x] \in DOMAIN t \cup {HeapUnits}
  <2>1. CASE x = c
    BY <1>1, <1>2, <1>3, <1>4, <2>1
  <2>2. CASE x = r
    BY <1>1, <1>2, <1>3, <1>4, <2>2
  <2>3. CASE x \in DOMAIN s /\ x # c
    BY <1>1, <1>3, <2>3
  <2> QED
    BY <1>3, <2>1, <2>2, <2>3
<1>7. ASSUME NEW u \in Units PROVE \E x \in DOMAIN t : x <= u /\ u < x + t[x]
  <2>1. PICK x \in DOMAIN s : x <= u /\ u < x + s[x]
    BY DEF Tiling
  <2>2. CASE x # c
    BY <1>3, <2>1, <2>2
  <2>3. CASE x = c /\ u < r
    BY <1>3, <1>4, <2>1, <2>3
  <2>4. CASE x = c /\ r <= u
    BY <1>3, <1>4, <2>1, <2>4
  <2>5. u \in Int
    BY <1>1 DEF Units
  <2> QED
    BY <1>2, <2>2, <2>3, <2>4, <2>5
<1>8. ASSUME NEW x \in DOMAIN t, NEW y \in DOMAIN t, x < y PROVE x + t[x] <= y
  <2>1. CASE x = r
    BY <1>1, <1>2, <1>3, <1>4, <1>8, <2>1
  <2>2. CASE y = r
    BY <1>1, <1>2, <1>3, <1>4, <1>8, <2>2
  <2>3. CASE x \in DOMAIN s /\ y \in DOMAIN s
    BY <1>1, <1>2, <1>3, <1>4, <1>8, <2>3
  <2> QED
    BY <1>3, <2>1, <2>2, <2>3
<1> QED
  BY <1>2, <1>5, <1>6, <1>7, <1>8 DEF Tiling, r, t

LEMMA MergeTiles ==
  ASSUME NEW s, Tiling(s), NEW c \in DOMAIN s, NEW d \in DOMAIN s, c + s[c] = d
  PROVE  Tiling(Merge(s, c, d)) /\ d # c
<1> DEFINE t == Merge(s, c, d)
<1>1. /\ \A x \in DOMAIN s : /\ x \in Int /\ 0 <= x /\ x < HeapUnits
                             /\ s[x] \in Int /\ 1 <= s[x] /\ x + s[x] <= HeapUnits
                             /\ x + s[x] \in DOMAIN s \cup {HeapUnits}
      /\ \A x, y \in DOMAIN s : x < y => x + s[x] <= y
      /\ HeapUnits \in Int /\ HeapUnits > 0
  BY TilingFacts
<1>2. c < d /\ d # c
  BY <1>1
<1>3. /\ DOMAIN t = DOMAIN s \ {d}
      /\ t[c] = s[c] + s[d] /\ c + t[c] = d + s[d]
      /\ \A x \in DOMAIN t : x # c => t[x] = s[x]
  <2>1. t[c] = s[c] + s[d]
    BY <1>2 DEF Merge
  <2>2. c + t[c] = d + s[d]
    <3> HIDE DEF t
    <3> QED BY <1>1, <2>1
  <2> QED
    BY <2>1, <2>2 DEF Merge
<1> HIDE DEF t
<1>4. DOMAIN t \subseteq Units /\ 0 \in DOMAIN t
  BY <1>1, <1>2, <1>3 DEF Tiling
<1>5. ASSUME NEW x \in DOMAIN t
      PROVE  t[x] \in Nat \ {0} /\ x + t[x] \in DOMAIN t \cup {HeapUnits}
  <2>1. CASE x = c
    BY <1>1, <1>2, <1>3, <2>1
  <2>2. CASE x # c
    <3>1. x + s[x] # d
      BY <1>1, <1>2, <1>3, <2>2
    <3> QED
      BY <1>1, <1>3, <2>2, <3>1
  <2> QED
    BY <2>1, <2>2
<1>6. ASSUME NEW u \in Units PROVE \E x \in DOMAIN t : x <= u /\ u < x + t[x]
  <2>1. PICK x \in DOMAIN s : x <= u /\ u < x + s[x]
    BY DEF Tiling
  <2>2. u \in Int
    BY <1>1 DEF Units
  <2>3. CASE x = c \/ x = d
    <3>1. c \in DOMAIN t /\ c <= u /\ u < c + t[c]
      BY <1>1, <1>2, <1>3, <2>1, <2>2, <2>3
    <3> QED
      BY <3>1
  <2>4. CASE x # c /\ x # d
    BY <1>3, <2>1, <2>4
  <2> QED
    BY <2>3, <2>4
<1>7. ASSUME NEW x \in DOMAIN t, NEW y \in DOMAIN t, x < y PROVE x + t[x] <= y
  <2>1. CASE x = c
    <3>1. y > d
      BY <1>1, <1>2, <1>3, <1>7, <2>1
    <3> QED
      BY <1>1, <1>3, <2>1, <3>1
  <2>2. CASE x # c
    BY <1>1, <1>3, <1>7, <2>2
  <2> QED
    BY <2>1, <2>2
<1> QED
  BY <1>2, <1>4, <1>5, <1>6, <1>7 DEF Tiling, t

-----------------------------------------------------------------------------
(* The words below the headers *)

LEMMA TagFreed ==
  ASSUME NEW t \in [1 .. HeapUnits -> Nat], NEW h \in Int, NEW n \in Nat
  PROVE  /\ TagAfterAdd(t, h, n) \in [1 .. HeapUnits -> Nat]
         /\ \A b \in 1 .. HeapUnits :
              /\ b <= h \/ b > h + n => TagAfterAdd(t, h, n)[b] = t[b]
              /\ h < b /\ b <= h + n =>
                   \/ TagAfterAdd(t, h, n)[b] = Garbage
                   \/ (b = h + n /\ TagAfterAdd(t, h, n)[b] = n)
BY HeapAssumption DEF TagAfterAdd, Garbage, GC_SMALLEST_SIZE

LEMMA TagHandedOut ==
  ASSUME NEW t \in [1 .. HeapUnits -> Nat], NEW h \in Int, NEW n \in Int
  PROVE  /\ TagAfterUse(t, h, n) \in [1 .. HeapUnits -> Nat]
         /\ \A b \in 1 .. HeapUnits :
              /\ b <= h \/ b > h + n => TagAfterUse(t, h, n)[b] = t[b]
              /\ h < b /\ b <= h + n => TagAfterUse(t, h, n)[b] = Garbage
BY HeapAssumption DEF TagAfterUse, Garbage

-----------------------------------------------------------------------------
(* malloc *)

LEMMA SplitKeeps ==
  ASSUME Kept, NEW n \in Nat \ {0}, NEW c \in FreeChunks, Split(c, n)
  PROVE  Kept' /\ size'[c] = n /\ \A x \in vo : size'[x] = size[x]
<1> DEFINE r == c + n
           m == size[c] - n
<1> USE HeapAssumption
<1>1. /\ \A x \in Chunks : /\ x \in Int /\ 0 <= x /\ x < HeapUnits
                           /\ size[x] \in Int /\ 1 <= size[x] /\ x + size[x] <= HeapUnits
                           /\ x + size[x] \in Chunks \cup {HeapUnits}
      /\ \A x, y \in Chunks : x < y => x + size[x] <= y
      /\ HeapUnits \in Int /\ HeapUnits > 0
  BY TilingFacts DEF Kept, Chunks
<1>2. c \in Chunks /\ c \notin vo /\ n < size[c]
  BY <1>1 DEF FreeChunks, Split, GC_SMALLEST_SIZE
<1>3. /\ size' = Cut(size, c, n) /\ vo' = vo \cup {c} /\ kfc' = (kfc \ {c}) \cup {r}
      /\ pinuse' = pinuse \cup {r} /\ tag' = TagAfterUse(TagAfterAdd(tag, r, m), c, n)
  BY DEF Split, Cut, Rest, Chunks
<1>4. Tiling(size') /\ r \notin Chunks
  BY <1>2, <1>3, CutTiles DEF Kept, Chunks
<1>5. /\ Chunks' = Chunks \cup {r} /\ size'[c] = n /\ size'[r] = m
      /\ \A x \in Chunks : x # c => size'[x] = size[x]
  BY <1>2, <1>3, <1>4 DEF Cut, Chunks
<1>6. r \in Int /\ m \in Nat /\ c < r /\ r + m = c + size[c] /\ c + n = r /\ m > 0
  BY <1>1, <1>2
<1> HIDE DEF r, m
<1>7. /\ tag' \in [1 .. HeapUnits -> Nat]
      /\ \A b \in 1 .. HeapUnits :
           /\ b <= c \/ b > r + m => tag'[b] = tag[b]
           /\ b = r => tag'[b] = Garbage
           /\ b = r + m => tag'[b] = Garbage \/ tag'[b] = m
  <2> DEFINE t == TagAfterAdd(tag, r, m)
  <2>. tag \in [1 .. HeapUnits -> Nat]
    BY DEF Kept
  <2>0. c \in Int /\ n \in Int
    BY <1>1, <1>2
  <2>. r \in Int /\ m \in Nat
    BY <1>6
  <2>1. /\ t \in [1 .. HeapUnits -> Nat]
        /\ \A b \in 1 .. HeapUnits :
              /\ b <= r \/ b > r + m => t[b] = tag[b]
              /\ r < b /\ b <= r + m => t[b] = Garbage \/ (b = r + m /\ t[b] = m)
    BY TagFreed
  <2>2. tag' = TagAfterUse(t, c, n)
    BY <1>3
  <2> HIDE DEF t
  <2>3. /\ tag' \in [1 .. HeapUnits -> Nat]
        /\ \A b \in 1 .. HeapUnits :
              /\ b <= c \/ b > c + n => tag'[b] = t[b]
              /\ c < b /\ b <= c + n => tag'[b] = Garbage
    BY <2>0, <2>1, <2>2, TagHandedOut
  <2>4. c \in Int /\ r \in Int /\ m \in Int /\ c < r /\ r <= r + m /\ c + n = r /\ r + m > r
    BY <1>1, <1>2, <1>6
  <2>5. \A b \in 1 .. HeapUnits :
          /\ b <= c \/ b > r + m => t[b] = tag[b] /\ tag'[b] = t[b]
          /\ b = r => tag'[b] = Garbage
          /\ b = r + m => tag'[b] = t[b] /\ (t[b] = Garbage \/ t[b] = m)
    <3> TAKE b \in 1 .. HeapUnits
    <3>1. b \in Int
      OBVIOUS
    <3>2. b <= c \/ b > r + m => b <= r \/ b > r + m
      BY <2>4, <3>1
    <3>3. b <= c \/ b > r + m => b <= c \/ b > c + n
      BY <2>4, <3>1
    <3> QED
      BY <2>1, <2>3, <2>4, <3>2, <3>3
  <2> QED
    BY <2>3, <2>5
<1>8. vo' \subseteq Chunks' /\ kfc' = FreeChunks' /\ 0 \in pinuse'
  BY <1>2, <1>3, <1>4, <1>5 DEF Kept, FreeChunks
<1>9. Neighbours(size', vo', pinuse', tag')
  <2> SUFFICES ASSUME NEW x \in Chunks', NEW y \in Chunks', x + size'[x] = y
               PROVE  /\ y \in pinuse' => x \in vo'
                      /\ tag'[y] = Garbage \/ (x \notin vo' /\ tag'[y] = size'[x])
                      /\ x \in vo' \/ y \in vo'
    BY DEF Neighbours, Chunks
  <2>0. y \in 1 .. HeapUnits
    BY <1>1, <1>5, <1>6, <1>2
  <2>1. CASE x = c
    BY <1>3, <1>5, <1>6, <1>7, <2>0, <2>1
  <2>2. CASE x = r
    <3>1. y = c + size[c] /\ y \in Chunks /\ y # r /\ y # c
      BY <1>1, <1>2, <1>4, <1>5, <1>6, <2>2
    <3>2. y \notin pinuse /\ y \in vo
      BY <1>2, <3>1 DEF Kept, Neighbours, Chunks
    <3> QED
      BY <1>2, <1>3, <1>4, <1>5, <1>6, <1>7, <2>0, <2>2, <3>1, <3>2 DEF Kept
  <2>3. CASE x \in Chunks /\ x # c
    <3>1. y \in Chunks /\ x + size[x] = y /\ y # r
      BY <1>1, <1>2, <1>4, <1>5, <1>6, <2>3
    <3>2. y <= c \/ y > r + m
      BY <1>1, <1>2, <1>6, <2>3, <3>1
    <3>3. tag'[y] = tag[y]
      BY <1>7, <2>0, <3>2
    <3> QED
      BY <1>3, <1>5, <2>3, <3>1, <3>3 DEF Kept, Neighbours, Chunks
  <2> QED
    BY <1>5, <2>1, <2>2, <2>3
<1> QED
  BY <1>2, <1>4, <1>5, <1>7, <1>8, <1>9 DEF Kept, Chunks

LEMMA TakeWholeKeeps ==
  ASSUME Kept, NEW n \in Nat, NEW c \in FreeChunks, TakeWhole(c, n)
  PROVE  Kept' /\ size' = size
<1> USE HeapAssumption
<1>1. /\ \A x \in Chunks : /\ x \in Int /\ 0 <= x /\ x < HeapUnits
                           /\ size[x] \in Int /\ 1 <= size[x] /\ x + size[x] <= HeapUnits
                           /\ x + size[x] \in Chunks \cup {HeapUnits}
      /\ \A x, y \in Chunks : x < y => x + size[x] <= y
      /\ HeapUnits \in Int /\ HeapUnits > 0
  BY TilingFacts DEF Kept, Chunks
<1>2. c \in Chunks /\ c \notin vo
  BY DEF FreeChunks
<1>3. /\ size' = size /\ vo' = vo \cup {c} /\ kfc' = kfc \ {c}
      /\ pinuse' \subseteq pinuse \cup {c + size[c]} /\ pinuse \subseteq pinuse'
      /\ tag' = TagAfterUse(tag, c, size[c])
  BY DEF TakeWhole, MarkAbove, End
<1>4. /\ tag' \in [1 .. HeapUnits -> Nat]
      /\ \A b \in 1 .. HeapUnits :
           /\ b <= c \/ b > c + size[c] => tag'[b] = tag[b]
           /\ c < b /\ b <= c + size[c] => tag'[b] = Garbage
  <2>1. tag \in [1 .. HeapUnits -> Nat] /\ c \in Int /\ size[c] \in Int
    BY <1>1, <1>2 DEF Kept
  <2> QED
    BY <1>3, <2>1, TagHandedOut
<1>5. Neighbours(size', vo', pinuse', tag')
  <2> SUFFICES ASSUME NEW x \in Chunks, NEW y \in Chunks, x + size[x] = y
               PROVE  /\ y \in pinuse' => x \in vo'
                      /\ tag'[y] = Garbage \/ (x \notin vo' /\ tag'[y] = size[x])
                      /\ x \in vo' \/ y \in vo'
    BY <1>3 DEF Neighbours, Chunks
  <2>1. y \in 1 .. HeapUnits
    BY <1>1
  <2>2. CASE x = c
    BY <1>1, <1>2, <1>3, <1>4, <2>1, <2>2
  <2>3. CASE x # c
    <3>1. y # c + size[c] /\ (y <= c \/ y > c + size[c])
      BY <1>1, <1>2, <2>3
    <3>2. tag'[y] = tag[y]
      BY <1>4, <2>1, <3>1
    <3> QED
      BY <1>3, <2>3, <3>1, <3>2 DEF Kept, Neighbours, Chunks
  <2> QED
    BY <2>2, <2>3
<1>6. vo' \subseteq Chunks' /\ kfc' = FreeChunks' /\ 0 \in pinuse' /\ Chunks' = Chunks
  BY <1>2, <1>3 DEF Kept, FreeChunks, Chunks
<1> QED
  BY <1>3, <1>4, <1>5, <1>6 DEF Kept

-----------------------------------------------------------------------------
(* free *)

\* Where gc_free_vo looks below, it finds the free chunk that ends there, or
\* the chunk there is in use.
LEMMA BelowIsRight ==
  ASSUME Kept, NEW c \in vo, ReadsTag(c), NEW h \in Below(c)
  PROVE  \/ h = c /\ \A x \in Chunks : x + size[x] = c => x \in vo
         \/ h \in FreeChunks /\ h + size[h] = c
<1>1. /\ \A x \in Chunks : /\ x \in Int /\ 0 <= x /\ x < HeapUnits
                           /\ size[x] \in Int /\ 1 <= size[x] /\ x + size[x] <= HeapUnits
      /\ \A x, y \in Chunks : x < y => x + size[x] <= y
      /\ HeapUnits \in Int /\ HeapUnits > 0
  BY TilingFacts DEF Kept, Chunks
<1>2. c \in Chunks
  BY DEF Kept
<1>3. CASE c \in pinuse
  BY <1>2, <1>3 DEF Below, Kept, Neighbours, Chunks
<1>4. CASE c \notin pinuse
  <2>1. c # 0 /\ tag[c] # Garbage
    BY <1>4 DEF Kept, ReadsTag
  <2>2. c - 1 \in Units
    BY <1>1, <1>2, <2>1 DEF Units
  <2>3. PICK d \in Chunks : d <= c - 1 /\ c - 1 < d + size[d]
    BY <2>2 DEF Kept, Tiling, Chunks
  <2>4. d + size[d] = c
    BY <1>1, <1>2, <2>3
  <2>5. d \notin vo /\ tag[c] = size[d]
    BY <1>2, <2>1, <2>4 DEF Kept, Neighbours, Chunks
  <2>6. d = c - tag[c] /\ d \in FreeChunks
    BY <1>1, <1>2, <2>4, <2>5 DEF FreeChunks
  <2>7. h = d
    BY <1>4, <2>1, <2>6 DEF Below
  <2> QED
    BY <2>4, <2>6, <2>7
<1> QED
  BY <1>3, <1>4

LEMMA FreeKeeps ==
  ASSUME Kept, NEW c \in vo, ReadsTag(c), Free(c)
  PROVE  Kept' /\ vo' = vo \ {c} /\ \A x \in vo' : size'[x] = size[x]
<1> USE HeapAssumption
<1>1. /\ \A x \in Chunks : /\ x \in Int /\ 0 <= x /\ x < HeapUnits
                           /\ size[x] \in Int /\ 1 <= size[x] /\ x + size[x] <= HeapUnits
                           /\ x + size[x] \in Chunks \cup {HeapUnits}
      /\ \A x, y \in Chunks : x < y => x + size[x] <= y
      /\ HeapUnits \in Int /\ HeapUnits > 0
  BY TilingFacts DEF Kept, Chunks
<1>2. PICK h \in Below(c) :
        Coalesce(c, h, IF h = c THEN End(c) ELSE h + size[h] + size[c])
  BY DEF Free, Release
<1>3. /\ c \in Chunks /\ h \in Chunks /\ h <= c
      /\ h # c => h \in FreeChunks /\ h + size[h] = c
      /\ \A x \in Chunks : x + size[x] = h => x \in vo
  <2>1. c \in Chunks
    BY DEF Kept
  <2>2. CASE h = c /\ \A x \in Chunks : x + size[x] = c => x \in vo
    BY <1>1, <2>1, <2>2
  <2>3. CASE h \in FreeChunks /\ h + size[h] = c
    BY <1>1, <2>1, <2>3 DEF Kept, Neighbours, Chunks, FreeChunks
  <2> QED
    BY <2>2, <2>3, BelowIsRight
<1> DEFINE e == c + size[c]
           above == Above(e)
           E == IF above = {} THEN e ELSE e + size[e]
           gone == (above \cup {c}) \ {h}
<1>4. (IF h = c THEN End(c) ELSE h + size[h] + size[c]) = e
  BY <1>1, <1>3 DEF End
<1>5. /\ size' = [x \in Chunks \ gone |-> IF x = h THEN E - h ELSE size[x]]
      /\ vo' = vo \ {c}
      /\ kfc' = (kfc \ above) \cup {h}
      /\ tag' = TagAfterAdd(tag, h, E - h)
      /\ pinuse' = (pinuse \ gone) \ {h + (E - h)}
  <2> HIDE <1>4
  <2>1. Coalesce(c, h, e)
    BY <1>2, <1>4
  <2> QED
    BY <2>1 DEF Coalesce, Unlink, MarkFreed, End
<1>6. /\ above \subseteq FreeChunks /\ above \subseteq {e}
      /\ e \notin above => e \notin FreeChunks
      /\ h \notin above /\ c \notin above
  BY <1>1, <1>3 DEF Above, FreeChunks
<1>7. /\ e \in Int /\ E \in Int /\ h \in Int /\ c \in Int
      /\ 0 <= h /\ h <= c /\ c < e /\ e <= E /\ E <= HeapUnits
      /\ E \in Chunks => E \in vo
  <2>1. CASE above = {}
    BY <1>1, <1>3, <1>6, <2>1 DEF FreeChunks
  <2>2. CASE above # {}
    <3>1. e \in FreeChunks /\ e \in Chunks /\ e \notin vo /\ E = e + size[e]
      BY <1>6, <2>2 DEF FreeChunks
    <3>2. E \in Chunks => E \in vo
      BY <3>1 DEF Kept, Neighbours, Chunks
    <3> QED
      BY <1>1, <1>3, <3>1, <3>2
  <2> QED
    BY <2>1, <2>2
<1>8. ASSUME NEW x \in Chunks, x \notin gone, x # h
      PROVE  /\ x + size[x] <= h \/ x >= E
             /\ x # c
             /\ x # e \/ above = {}
  <2>1. x # c
    BY <1>3, <1>8
  <2>2. x < h => x + size[x] <= h
    BY <1>1, <1>3, <1>8
  <2>3. x > h => x > c
    BY <1>1, <1>3, <1>8, <2>1
  <2>4. x > c => x >= e
    BY <1>1, <1>3, <1>8
  <2>5. x >= e => x >= E
    BY <1>1, <1>3, <1>6, <1>8
  <2> QED
    BY <1>1, <1>3, <1>6, <1>8, <2>1, <2>2, <2>3, <2>4, <2>5
<1>9. /\ Chunks' = Chunks \ gone /\ h \in Chunks' /\ size'[h] = E - h
      /\ \A x \in Chunks' : x # h => size'[x] = size[x]
  BY <1>3, <1>5 DEF Chunks
<1>10. Tiling(size')
  <2> DEFINE s1 == IF above = {} THEN size ELSE Merge(size, c, e)
  <2>1. /\ Tiling(s1) /\ DOMAIN s1 = Chunks \ above
        /\ s1[c] = E - c /\ \A x \in DOMAIN s1 : x # c => s1[x] = size[x]
    <3>1. CASE above = {}
      <4>1. s1 = size /\ E = e /\ Tiling(size)
        BY <3>1 DEF Kept
      <4>2. size[c] = e - c
        BY <1>1, <1>3
      <4> QED
        BY <3>1, <4>1, <4>2 DEF Chunks
    <3>2. CASE above # {}
      <4>1. above = {e} /\ e \in Chunks /\ e # c /\ s1 = Merge(size, c, e) /\ E = e + size[e]
        BY <1>1, <1>3, <1>6, <3>2 DEF FreeChunks
      <4>2. Tiling(Merge(size, c, e))
        BY <1>3, <4>1, MergeTiles DEF Kept, Chunks
      <4>3. size[c] + size[e] = E - c
        BY <1>1, <1>3, <4>1
      <4> QED
        BY <1>3, <4>1, <4>2, <4>3 DEF Merge, Chunks
    <3> QED
      BY <3>1, <3>2
  <2> HIDE DEF s1
  <2>2. CASE h = c
    <3>1. /\ DOMAIN size' = DOMAIN s1
          /\ \A x \in DOMAIN s1 : size'[x] = s1[x]
      BY <1>5, <1>6, <2>1, <2>2
    <3> QED
      BY <2>1, <3>1, SameTiling
  <2>3. CASE h # c
    <3>1. h \in DOMAIN s1 /\ c \in DOMAIN s1 /\ h + s1[h] = c
      BY <1>3, <1>6, <2>1, <2>3
    <3>2. Tiling(Merge(s1, h, c))
      BY <2>1, <3>1, MergeTiles
    <3>3. s1[h] + s1[c] = E - h
      BY <1>1, <1>3, <1>7, <2>1, <2>3, <3>1
    <3>4. DOMAIN s1 \ {c} = Chunks \ gone
      BY <1>6, <2>1, <2>3
    <3>5. size' = Merge(s1, h, c)
      BY <1>5, <2>1, <3>3, <3>4 DEF Merge
    <3> QED
      BY <3>2, <3>5
  <2> QED
    BY <2>2, <2>3
<1> HIDE DEF e, E, above, gone
<1>11. /\ tag' \in [1 .. HeapUnits -> Nat]
       /\ \A b \in 1 .. HeapUnits :
            /\ b <= h \/ b > E => tag'[b] = tag[b]
            /\ b = E => tag'[b] = Garbage \/ tag'[b] = E - h
  <2> DEFINE n == E - h
  <2>1. n \in Nat /\ h + n = E /\ h < E
    BY <1>7
  <2>2. tag \in [1 .. HeapUnits -> Nat] /\ h \in Int /\ E \in Int
    BY <1>7 DEF Kept
  <2>3. tag' = TagAfterAdd(tag, h, n)
    BY <1>5
  <2> HIDE DEF n
  <2>4. /\ tag' \in [1 .. HeapUnits -> Nat]
        /\ \A b \in 1 .. HeapUnits :
             /\ b <= h \/ b > h + n => tag'[b] = tag[b]
             /\ h < b /\ b <= h + n => tag'[b] = Garbage \/ (b = h + n /\ tag'[b] = n)
    BY <2>1, <2>2, <2>3, TagFreed
  <2>5. n = E - h
    BY DEF n
  <2> QED
    BY <2>1, <2>2, <2>4, <2>5
<1>12. vo' \subseteq Chunks' /\ kfc' = FreeChunks' /\ 0 \in pinuse'
  <2>1. vo' \subseteq Chunks'
    BY <1>5, <1>6, <1>9 DEF Kept, FreeChunks, gone
  <2>2. kfc' = FreeChunks'
    BY <1>3, <1>5, <1>6, <1>9 DEF Kept, FreeChunks, gone
  <2>3. 0 \in pinuse'
    <3>1. 0 \notin gone
      <4>1. c = 0 => h = 0
        BY <1>7
      <4>2. 0 \notin above
        BY <1>6, <1>7
      <4> QED
        BY <4>1, <4>2 DEF gone
    <3>2. h + (E - h) # 0
      BY <1>7
    <3> QED
      BY <1>5, <3>1, <3>2 DEF Kept
  <2> QED
    BY <2>1, <2>2, <2>3
<1>13. Neighbours(size', vo', pinuse', tag')
  <2> SUFFICES ASSUME NEW x \in Chunks', NEW y \in Chunks', x + size'[x] = y
               PROVE  /\ y \in pinuse' => x \in vo'
                      /\ tag'[y] = Garbage \/ (x \notin vo' /\ tag'[y] = size'[x])
                      /\ x \in vo' \/ y \in vo'
    BY DEF Neighbours, Chunks
  <2>0. y \in Chunks /\ x \in Chunks /\ y \in Int /\ x \in Int /\ x < y
    <3>1. y \in Chunks /\ x \in Chunks /\ y \in Int /\ x \in Int
      BY <1>1, <1>9
    <3>2. CASE x = h
      BY <1>7, <1>9, <3>1, <3>2
    <3>3. CASE x # h
      BY <1>1, <1>9, <3>1, <3>3
    <3> QED
      BY <3>1, <3>2, <3>3
  <2>1. y \in 1 .. HeapUnits
    BY <1>1, <2>0
  <2>2. CASE x = h
    <3>1. y = E /\ h + (E - h) = E
      BY <1>7, <1>9, <2>2
    <3>2. y \in vo /\ y # c
      BY <1>7, <2>0, <3>1
    <3>3. h \notin vo'
      BY <1>3, <1>5 DEF FreeChunks
    <3> QED
      BY <1>5, <1>9, <1>11, <2>1, <2>2, <3>1, <3>2, <3>3
  <2>3. CASE x # h
    <3>1. x + size[x] = y /\ x # c /\ x \notin gone
      BY <1>3, <1>9, <2>3 DEF gone
    <3>2. x \in vo' <=> x \in vo
      BY <1>5, <3>1
    <3>3. y <= h \/ y > E
      BY <1>1, <1>7, <1>8, <2>0, <2>3, <3>1
    <3>4. tag'[y] = tag[y]
      BY <1>11, <2>1, <3>3
    <3>5. CASE y = h
      <4>1. x \in vo
        BY <1>3, <2>0, <3>1, <3>5
      <4> QED
        BY <1>5, <2>0, <3>1, <3>2, <3>4, <4>1 DEF Kept, Neighbours, Chunks
    <3>6. CASE y # h
      <4>1. y # c
        BY <1>9, <3>6 DEF gone
      <4> QED
        BY <1>5, <1>9, <2>0, <2>3, <3>1, <3>2, <3>4, <4>1 DEF Kept, Neighbours, Chunks
    <3> QED
      BY <3>5, <3>6
  <2> QED
    BY <2>2, <2>3
<1>14. ASSUME NEW x \in vo' PROVE size'[x] = size[x]
  <2>1. x \in Chunks' /\ x # h
    BY <1>3, <1>5, <1>12 DEF FreeChunks
  <2> QED
    BY <1>9, <2>1
<1> QED
  BY <1>5, <1>10, <1>11, <1>12, <1>13, <1>14 DEF Kept

-----------------------------------------------------------------------------
(* Growing in place *)

LEMMA RoomFacts ==
  ASSUME Kept, NEW c \in vo, NEW b \in Requests, ~Keeps(c, b), NEW d \in Room(c, b)
  PROVE  /\ c \in Chunks /\ d \in Chunks /\ d \notin vo /\ d \in kfc /\ c + size[c] = d
         /\ c \in Int /\ d \in Int /\ size[c] \in Int /\ size[d] \in Int
         /\ 0 <= c /\ c < d /\ 1 <= size[c] /\ 1 <= size[d] /\ d + size[d] <= HeapUnits
         /\ TotUnits(b) \in Nat /\ size[c] < TotUnits(b) /\ TotUnits(b) <= size[c] + size[d]
         /\ d + size[d] \in Chunks => d + size[d] \in vo
<1>1. /\ \A x \in Chunks : /\ x \in Int /\ 0 <= x /\ x < HeapUnits
                           /\ size[x] \in Int /\ 1 <= size[x] /\ x + size[x] <= HeapUnits
      /\ HeapUnits \in Int
  BY TilingFacts DEF Kept, Chunks
<1>2. c \in Chunks /\ d \in FreeChunks /\ d = c + size[c] /\ TotUnits(b) <= size[c] + size[d]
  BY DEF Kept, Room, Above, End
<1>3. d \in Chunks /\ d \notin vo /\ d \in kfc
  BY <1>2 DEF Kept, FreeChunks
<1>4. TotUnits(b) \in Nat
  BY TotUnitsCover
<1>5. size[c] < TotUnits(b)
  BY <1>1, <1>2, <1>4 DEF Keeps
<1>6. d + size[d] \in Chunks => d + size[d] \in vo
  BY <1>3 DEF Kept, Neighbours, Chunks
<1> QED
  BY <1>1, <1>2, <1>3, <1>4, <1>5, <1>6

\* The neighbours of chunks outside a region from c to E stay what they were.
LEMMA OutsideKeeps ==
  ASSUME Kept, NEW c \in Chunks, NEW E \in Int, NEW x \in Chunks, NEW y \in Chunks,
         x + size[x] = y, x # c, y <= c \/ y > E,
         c < E, E <= HeapUnits,
         vo' = vo, y \in pinuse' => y \in pinuse,
         \A b \in 1 .. HeapUnits : b <= c \/ b > E => tag'[b] = tag[b]
  PROVE  /\ y \in pinuse' => x \in vo'
         /\ tag'[y] = Garbage \/ (x \notin vo' /\ tag'[y] = size[x])
         /\ x \in vo' \/ y \in vo'
<1>1. y \in 1 .. HeapUnits
  BY TilingFacts DEF Kept, Chunks
<1>2. tag'[y] = tag[y]
  BY <1>1
<1> QED
  BY <1>2 DEF Kept, Neighbours, Chunks

LEMMA GrowAllKeeps ==
  ASSUME Kept, NEW c \in vo, NEW b \in Requests, GrowAll(c, b)
  PROVE  /\ Kept' /\ vo' = vo /\ size'[c] = TotUnits(b)
<1> USE HeapAssumption
<1> DEFINE n == TotUnits(b)
<1>1. ~Keeps(c, b)
  BY DEF GrowAll
<1>2. PICK d \in Room(c, b) :
        /\ size[c] + size[d] = n
        /\ size' = [x \in Chunks \ {d} |-> IF x = c THEN n ELSE size[x]]
        /\ kfc' = kfc \ {d}
        /\ pinuse' = pinuse \ {d}
        /\ tag' = TagAfterUse(tag, c, n)
  BY DEF GrowAll, UnlinkGrown
<1>3. vo' = vo
  BY DEF GrowAll
<1> HIDE DEF n
<1>4. /\ c \in Chunks /\ d \in Chunks /\ d \notin vo /\ d \in kfc /\ c + size[c] = d
      /\ c \in Int /\ d \in Int /\ size[c] \in Int /\ size[d] \in Int
      /\ 0 <= c /\ c < d /\ 1 <= size[c] /\ 1 <= size[d] /\ d + size[d] <= HeapUnits
      /\ n \in Nat /\ size[c] < n /\ n <= size[c] + size[d]
      /\ d + size[d] \in Chunks => d + size[d] \in vo
  BY <1>1, RoomFacts DEF n
<1> DEFINE E == d + size[d]
<1>5. /\ \A x \in Chunks : /\ x \in Int /\ 0 <= x /\ x < HeapUnits
                           /\ size[x] \in Int /\ 1 <= size[x] /\ x + size[x] <= HeapUnits
      /\ \A x, y \in Chunks : x < y => x + size[x] <= y
      /\ HeapUnits \in Int /\ HeapUnits > 0
  BY TilingFacts DEF Kept, Chunks
<1>6. size' = Merge(size, c, d)
  BY <1>2 DEF Merge, Chunks
<1>7. Tiling(size')
  BY <1>4, <1>6, MergeTiles DEF Kept, Chunks
<1>8. /\ Chunks' = Chunks \ {d} /\ size'[c] = n /\ c + n = E /\ E \in Int /\ c < E /\ d < E
      /\ \A x \in Chunks' : x # c => size'[x] = size[x]
  BY <1>2, <1>4 DEF Chunks
<1> HIDE DEF E
<1>9. /\ tag' \in [1 .. HeapUnits -> Nat]
      /\ \A a \in 1 .. HeapUnits :
           /\ a <= c \/ a > E => tag'[a] = tag[a]
           /\ a = E => tag'[a] = Garbage
  <2>1. tag \in [1 .. HeapUnits -> Nat] /\ c \in Int /\ n \in Int
    BY <1>4 DEF Kept
  <2>2. /\ tag' \in [1 .. HeapUnits -> Nat]
        /\ \A a \in 1 .. HeapUnits :
             /\ a <= c \/ a > c + n => tag'[a] = tag[a]
             /\ c < a /\ a <= c + n => tag'[a] = Garbage
    BY <1>2, <2>1, TagHandedOut
  <2> QED
    BY <1>8, <2>1, <2>2
<1>10. vo' \subseteq Chunks' /\ kfc' = FreeChunks' /\ 0 \in pinuse'
  BY <1>2, <1>3, <1>4, <1>8 DEF Kept, FreeChunks
<1>11. Neighbours(size', vo', pinuse', tag')
  <2> SUFFICES ASSUME NEW x \in Chunks', NEW y \in Chunks', x + size'[x] = y
               PROVE  /\ y \in pinuse' => x \in vo'
                      /\ tag'[y] = Garbage \/ (x \notin vo' /\ tag'[y] = size'[x])
                      /\ x \in vo' \/ y \in vo'
    BY DEF Neighbours, Chunks
  <2>1. CASE x = c
    BY <1>3, <1>4, <1>5, <1>8, <1>9, <2>1 DEF E
  <2>2. CASE x # c
    <3>1. x \in Chunks /\ y \in Chunks /\ x # d /\ y # d /\ x + size[x] = y /\ size'[x] = size[x]
      BY <1>8, <2>2
    <3>2. y <= c \/ y > E
      <4>1. x < c => y <= c
        BY <1>4, <1>5, <3>1
      <4>2. x > c => x > d
        BY <1>4, <1>5, <3>1
      <4>3. x > d => y > E
        BY <1>4, <1>5, <3>1 DEF E
      <4> QED
        BY <1>4, <1>5, <2>2, <3>1, <4>1, <4>2, <4>3
    <3>3. y \in pinuse' => y \in pinuse
      BY <1>2
    <3>4. /\ c < E /\ E <= HeapUnits /\ E \in Int
          /\ \A a \in 1 .. HeapUnits : a <= c \/ a > E => tag'[a] = tag[a]
      BY <1>4, <1>8, <1>9 DEF E
    <3>5. /\ y \in pinuse' => x \in vo'
          /\ tag'[y] = Garbage \/ (x \notin vo' /\ tag'[y] = size[x])
          /\ x \in vo' \/ y \in vo'
      BY <1>3, <1>4, <2>2, <3>1, <3>2, <3>3, <3>4, OutsideKeeps
    <3> QED
      BY <3>1, <3>5
  <2> QED
    BY <2>1, <2>2
<1> QED
  BY <1>3, <1>7, <1>8, <1>9, <1>10, <1>11 DEF Kept, n

LEMMA GrowPartKeeps ==
  ASSUME Kept, NEW c \in vo, NEW b \in Requests, GrowPart(c, b)
  PROVE  /\ Kept' /\ vo' = vo /\ size'[c] = TotUnits(b)
<1> USE HeapAssumption
<1> DEFINE n == TotUnits(b)
           r == c + n
<1>1. ~Keeps(c, b)
  BY DEF GrowPart
<1>2. PICK d \in Room(c, b) :
        LET left == Left(size[c], d, n)
        IN  /\ left > 0
            /\ size' = [x \in (Chunks \ {d}) \cup {r} |->
                          IF x = c THEN n ELSE IF x = r THEN left ELSE size[x]]
            /\ kfc' = UnlinkGrown(d) \cup {r}
            /\ pinuse' = (pinuse \ {d}) \cup {r}
            /\ tag' = TagAfterUse(TagAfterAdd(tag, r, left), c, n)
  BY DEF GrowPart
<1>3. vo' = vo
  BY DEF GrowPart
<1> DEFINE m == Left(size[c], d, n)
           E == d + size[d]
<1> HIDE DEF n
<1>4. /\ c \in Chunks /\ d \in Chunks /\ d \notin vo /\ d \in kfc /\ c + size[c] = d
      /\ c \in Int /\ d \in Int /\ size[c] \in Int /\ size[d] \in Int
      /\ 0 <= c /\ c < d /\ 1 <= size[c] /\ 1 <= size[d] /\ d + size[d] <= HeapUnits
      /\ n \in Nat /\ size[c] < n /\ n <= size[c] + size[d]
      /\ d + size[d] \in Chunks => d + size[d] \in vo
  BY <1>1, RoomFacts DEF n
<1>5. /\ \A x \in Chunks : /\ x \in Int /\ 0 <= x /\ x < HeapUnits
                           /\ size[x] \in Int /\ 1 <= size[x] /\ x + size[x] <= HeapUnits
      /\ \A x, y \in Chunks : x < y => x + size[x] <= y
      /\ HeapUnits \in Int /\ HeapUnits > 0
  BY TilingFacts DEF Kept, Chunks
<1>6. /\ m \in Int /\ m > 0 /\ r \in Int /\ E \in Int
      /\ c < d /\ d < r /\ r < E /\ r + m = E /\ E <= HeapUnits
      /\ size[c] + size[d] - n = m /\ n < size[c] + size[d] /\ c + n = r
  BY <1>2, <1>4 DEF Left
<1>7. r \notin Chunks
  BY <1>4, <1>5, <1>6
<1>8. /\ size' = [x \in (Chunks \ {d}) \cup {r} |->
                    IF x = c THEN n ELSE IF x = r THEN m ELSE size[x]]
      /\ kfc' = (kfc \ {d}) \cup {r}
      /\ pinuse' = (pinuse \ {d}) \cup {r}
      /\ tag' = TagAfterUse(TagAfterAdd(tag, r, m), c, n)
  BY <1>2 DEF UnlinkGrown
<1>9. Tiling(size')
  <2> DEFINE s == Merge(size, c, d)
  <2>1. /\ Tiling(s) /\ c \in DOMAIN s /\ s[c] = size[c] + size[d]
        /\ DOMAIN s = Chunks \ {d} /\ \A x \in DOMAIN s : x # c => s[x] = size[x]
    <3>1. Tiling(s) /\ d # c
      BY <1>4, MergeTiles DEF Kept, Chunks
    <3> QED
      BY <1>4, <3>1 DEF Merge, Chunks
  <2> HIDE DEF s, r, m, E
  <2>2. Tiling(Cut(s, c, n))
    BY <1>4, <1>6, <2>1, CutTiles
  <2>3. /\ DOMAIN Cut(s, c, n) = (Chunks \ {d}) \cup {r}
        /\ \A x \in DOMAIN Cut(s, c, n) : size'[x] = Cut(s, c, n)[x]
    <3>1. DOMAIN Cut(s, c, n) = (Chunks \ {d}) \cup {r}
      BY <1>6, <2>1 DEF Cut
    <3>2. ASSUME NEW x \in (Chunks \ {d}) \cup {r} PROVE size'[x] = Cut(s, c, n)[x]
      <4>1. Cut(s, c, n)[x] = IF x = c THEN n ELSE IF x = r THEN s[c] - n ELSE s[x]
        BY <1>6, <2>1 DEF Cut
      <4>2. size'[x] = IF x = c THEN n ELSE IF x = r THEN m ELSE size[x]
        BY <1>8
      <4>3. s[c] - n = m
        BY <1>4, <1>6, <2>1
      <4> QED
        BY <2>1, <4>1, <4>2, <4>3
    <3> QED
      BY <3>1, <3>2
  <2>4. DOMAIN size' = DOMAIN Cut(s, c, n)
    BY <1>8, <2>3
  <2> QED
    BY <2>2, <2>3, <2>4, SameTiling
<1>10. /\ Chunks' = (Chunks \ {d}) \cup {r} /\ size'[c] = n /\ size'[r] = m /\ c # r
       /\ \A x \in Chunks' : x # c /\ x # r => x \in Chunks /\ x # d /\ size'[x] = size[x]
  BY <1>4, <1>6, <1>8 DEF Chunks
<1> HIDE DEF r, m, E
<1>11. /\ tag' \in [1 .. HeapUnits -> Nat]
       /\ \A a \in 1 .. HeapUnits :
            /\ a <= c \/ a > E => tag'[a] = tag[a]
            /\ a = r => tag'[a] = Garbage
            /\ a = E => tag'[a] = Garbage \/ tag'[a] = m
  <2> DEFINE t == TagAfterAdd(tag, r, m)
  <2>0. tag \in [1 .. HeapUnits -> Nat]
    BY DEF Kept
  <2>1. tag \in [1 .. HeapUnits -> Nat] /\ c \in Int /\ n \in Int /\ m \in Nat /\ r \in Int
    BY <1>4, <1>6, <2>0
  <2>2. /\ t \in [1 .. HeapUnits -> Nat]
        /\ \A a \in 1 .. HeapUnits :
              /\ a <= r \/ a > r + m => t[a] = tag[a]
              /\ r < a /\ a <= r + m => t[a] = Garbage \/ (a = r + m /\ t[a] = m)
    BY <2>1, TagFreed
  <2>3. tag' = TagAfterUse(t, c, n)
    BY <1>8
  <2> HIDE DEF t
  <2>4. /\ tag' \in [1 .. HeapUnits -> Nat]
        /\ \A a \in 1 .. HeapUnits :
              /\ a <= c \/ a > c + n => tag'[a] = t[a]
              /\ c < a /\ a <= c + n => tag'[a] = Garbage
    BY <2>1, <2>2, <2>3, TagHandedOut
  <2>5. c < r /\ r < E
    BY <1>4, <1>6
  <2>6. ASSUME NEW a \in 1 .. HeapUnits
        PROVE  /\ a <= c \/ a > E => tag'[a] = tag[a]
               /\ a = r => tag'[a] = Garbage
               /\ a = E => tag'[a] = Garbage \/ tag'[a] = m
    <3>1. a \in Int
      OBVIOUS
    <3>2. a <= c => tag'[a] = t[a] /\ t[a] = tag[a]
      BY <1>6, <2>1, <2>2, <2>4, <2>5, <3>1
    <3>3. a > E => tag'[a] = t[a] /\ t[a] = tag[a]
      BY <1>6, <2>1, <2>2, <2>4, <2>5, <3>1
    <3>4. a = r => tag'[a] = Garbage
      BY <1>6, <2>1, <2>4, <2>5, <3>1
    <3>5. a = E => tag'[a] = t[a] /\ (t[a] = Garbage \/ t[a] = m)
      BY <1>6, <2>1, <2>2, <2>4, <2>5, <3>1
    <3> QED
      BY <3>2, <3>3, <3>4, <3>5
  <2> QED
    BY <2>4, <2>6
<1>12. vo' \subseteq Chunks' /\ kfc' = FreeChunks' /\ 0 \in pinuse'
  <2>1. vo \subseteq Chunks /\ kfc = Chunks \ vo /\ 0 \in pinuse
    BY DEF Kept, FreeChunks
  <2>2. d # 0
    BY <1>4
  <2>3. r \notin vo
    BY <1>7, <2>1
  <2> QED
    BY <1>3, <1>4, <1>7, <1>8, <1>10, <2>1, <2>2, <2>3 DEF FreeChunks
<1>13. Neighbours(size', vo', pinuse', tag')
  <2> SUFFICES ASSUME NEW x \in Chunks', NEW y \in Chunks', x + size'[x] = y
               PROVE  /\ y \in pinuse' => x \in vo'
                      /\ tag'[y] = Garbage \/ (x \notin vo' /\ tag'[y] = size'[x])
                      /\ x \in vo' \/ y \in vo'
    BY DEF Neighbours, Chunks
  <2>1. CASE x = c
    <3>1. y = r /\ r \in 1 .. HeapUnits
      BY <1>4, <1>5, <1>6, <1>10, <2>1
    <3> QED
      BY <1>3, <1>11, <2>1, <3>1
  <2>2. CASE x = r
    <3>1. y = E /\ E \in 1 .. HeapUnits /\ E # r /\ E # c /\ E # d
      BY <1>4, <1>5, <1>6, <1>10, <2>2
    <3>2. E \in Chunks /\ E \in vo
      BY <1>4, <1>10, <3>1 DEF E
    <3>3. E \notin pinuse
      BY <1>4, <3>2 DEF E, Kept, Neighbours, Chunks
    <3>4. r \notin vo'
      BY <1>3, <1>7 DEF Kept
    <3> QED
      BY <1>3, <1>8, <1>10, <1>11, <2>2, <3>1, <3>2, <3>3, <3>4
  <2>3. CASE x # c /\ x # r
    <3>1. x \in Chunks /\ x # d /\ x + size[x] = y /\ size'[x] = size[x]
      BY <1>10, <2>3
    <3>2. y <= c \/ y > E
      <4>1. x < c => y <= c
        BY <1>4, <1>5, <3>1
      <4>2. x > c => x > d
        BY <1>4, <1>5, <3>1
      <4>3. x > d => y > E
        BY <1>4, <1>5, <3>1 DEF E
      <4> QED
        BY <1>4, <1>5, <2>3, <3>1, <4>1, <4>2, <4>3
    <3>3. y # r /\ y \in Chunks
      BY <1>4, <1>5, <1>6, <1>10, <3>1, <3>2
    <3>4. y \in pinuse' => y \in pinuse
      BY <1>8, <3>3
    <3>5. /\ c < E /\ E <= HeapUnits /\ E \in Int
          /\ \A a \in 1 .. HeapUnits : a <= c \/ a > E => tag'[a] = tag[a]
      BY <1>4, <1>6, <1>11
    <3>6. /\ y \in pinuse' => x \in vo'
          /\ tag'[y] = Garbage \/ (x \notin vo' /\ tag'[y] = size[x])
          /\ x \in vo' \/ y \in vo'
      BY <1>3, <1>4, <2>3, <3>1, <3>2, <3>3, <3>4, <3>5, OutsideKeeps
    <3> QED
      BY <3>1, <3>6
  <2> QED
    BY <1>10, <2>1, <2>2, <2>3
<1> QED
  BY <1>3, <1>9, <1>10, <1>11, <1>12, <1>13 DEF Kept, n

-----------------------------------------------------------------------------
(* The whole allocator *)

Covered == Kept /\ AnswerCoversRequest /\ (moving = Null \/ moving \in vo)

LEMMA InitCovered == RInit => Covered
<1> SUFFICES ASSUME RInit PROVE Covered
  OBVIOUS
<1> USE HeapAssumption DEF RInit, Init, GC_SMALLEST_SIZE
<1>1. Tiling(size)
  BY DEF Tiling, Units
<1>2. Neighbours(size, vo, pinuse, tag)
  BY DEF Neighbours
<1>3. tag \in [1 .. HeapUnits -> Nat]
  BY DEF Garbage
<1> QED
  BY <1>1, <1>2, <1>3 DEF Covered, Kept, Chunks, FreeChunks, AnswerCoversRequest

\* A block of enough units covers the request.
LEMMA UnitsCover ==
  ASSUME NEW b \in Requests, ~Overflows(b), NEW n \in Int, TotUnits(b) <= n
  PROVE  8 * n >= HMU_SIZE + b
<1>1. b \in Nat /\ TotUnits(b) \in Nat /\ 8 * TotUnits(b) >= HMU_SIZE + b
  BY HeapAssumption, TotUnitsCover DEF WordMod
<1> QED
  BY <1>1 DEF HMU_SIZE

LEMMA MallocCovers ==
  ASSUME Kept, NEW b \in Requests, Malloc(b)
  PROVE  Kept' /\ vo \subseteq vo' /\ AnswerCoversRequest'
<1> DEFINE n == AllocUnits(b)
<1>1. PICK c \in BestFits(n) :
        (Split(c, n) \/ TakeWhole(c, n)) /\ last' = [bytes |-> b, at |-> c]
  BY DEF Malloc
<1>2. c \in FreeChunks /\ size[c] >= n
  BY DEF BestFits, Fits, Kept
<1>3. n \in Nat \ {0} /\ TotUnits(b) <= n
  BY AllocUnitsType, TotUnitsCover DEF GC_SMALLEST_SIZE, AllocUnits, Max2
<1>4. size[c] \in Int
  BY <1>2, TilingFacts DEF Kept, Chunks, FreeChunks
<1>5. ~Overflows(b)
  BY DEF Malloc
<1> HIDE DEF n
<1>6. CASE Split(c, n)
  <2>1. Kept' /\ size'[c] = n
    BY <1>2, <1>3, <1>6, SplitKeeps
  <2>2. 8 * size'[c] >= HMU_SIZE + b
    BY <1>3, <1>5, <2>1, UnitsCover
  <2> QED
    BY <1>1, <1>6, <2>1, <2>2 DEF AnswerCoversRequest, Split
<1>7. CASE TakeWhole(c, n)
  <2>1. Kept' /\ size' = size
    BY <1>2, <1>3, <1>7, TakeWholeKeeps
  <2>2. TotUnits(b) <= size[c]
    BY <1>2, <1>3, <1>4, TotUnitsCover
  <2>3. 8 * size'[c] >= HMU_SIZE + b
    BY <1>4, <1>5, <2>1, <2>2, UnitsCover
  <2> QED
    BY <1>1, <1>7, <2>1, <2>3 DEF AnswerCoversRequest, TakeWhole
<1> QED
  BY <1>1, <1>6, <1>7

\* NULL is the address of no block.
LEMMA NullIsNoBlock == Kept => Null \notin vo
BY HeapAssumption DEF Kept, Tiling, Chunks, Units

LEMMA FreeCovers ==
  ASSUME Kept, AnswerCoversRequest, NEW c \in vo, ReadsTag(c), Free(c)
  PROVE  Kept' /\ AnswerCoversRequest' /\ vo' = vo \ {c}
<1>1. Kept' /\ vo' = vo \ {c} /\ \A x \in vo' : size'[x] = size[x]
  BY FreeKeeps
<1>2. last' = last
  BY DEF Free
<1> QED
  BY <1>1, <1>2 DEF AnswerCoversRequest

LEMMA StepCovered ==
  Covered /\ [RNext /\ \A c \in vo \ vo' : ReadsTag(c)]_rvars => Covered'
<1> SUFFICES ASSUME Covered, [RNext /\ \A c \in vo \ vo' : ReadsTag(c)]_rvars
             PROVE  Covered'
  OBVIOUS
<1>1. Kept /\ AnswerCoversRequest /\ (moving = Null \/ moving \in vo) /\ Null \notin vo
  BY NullIsNoBlock DEF Covered
<1>2. ASSUME UNCHANGED <<size, vo, pinuse, tag, kfc>> PROVE Kept'
  BY <1>1, <1>2 DEF Kept, Chunks, FreeChunks
<1>3. CASE UNCHANGED rvars
  BY <1>1, <1>2, <1>3 DEF rvars, Covered, AnswerCoversRequest
<1>4. CASE RNext /\ \A c \in vo \ vo' : ReadsTag(c)
  <2>1. ASSUME NEW c \in vo, Free(c) PROVE ReadsTag(c)
    <3>1. vo' = vo \ {c}
      BY <2>1 DEF Free, Release, Coalesce
    <3> QED
      BY <1>4, <3>1
  <2>2. CASE FreeMoved
    <3>1. moving \in vo /\ Free(moving) /\ moving' = Null
      BY <1>1, <2>2 DEF FreeMoved
    <3>2. Kept' /\ AnswerCoversRequest'
      BY <1>1, <2>1, <3>1, FreeCovers
    <3> QED
      BY <3>1, <3>2 DEF Covered
  <2>3. ASSUME NEW b \in Requests, Malloc(b), moving' = moving, moving = Null PROVE Covered'
    BY <1>1, <2>3, MallocCovers DEF Covered
  <2>4. ASSUME NEW b \in Requests, MallocFails(b), moving' = moving PROVE Covered'
    <3>1. Kept' /\ vo' = vo /\ last'.at = Null
      BY <1>2, <2>4 DEF MallocFails
    <3> QED
      BY <1>1, <2>4, <3>1 DEF Covered, AnswerCoversRequest
  <2>5. ASSUME NEW c \in vo, Free(c), moving' = moving, moving = Null PROVE Covered'
    BY <1>1, <2>1, <2>5, FreeCovers DEF Covered
  <2>6. ASSUME NEW c \in vo, NEW b \in Requests, Realloc(c, b), moving = Null PROVE Covered'
    <3>1. CASE ReallocOverflows(c, b)
      <4>1. Kept' /\ vo' = vo /\ last'.at = Null /\ moving' = moving
        BY <1>2, <3>1 DEF ReallocOverflows, Answer, Unchanged
      <4> QED
        BY <1>1, <4>1 DEF Covered, AnswerCoversRequest
    <3>2. CASE ReallocKeeps(c, b)
      <4>1. /\ Kept' /\ vo' = vo /\ last' = [bytes |-> b, at |-> c] /\ moving' = moving /\ size' = size
        BY <1>2, <3>2 DEF ReallocKeeps, Answer, Unchanged
      <4>2. size[c] \in Int
        BY <1>1, TilingFacts DEF Kept, Chunks
      <4>3. 8 * size[c] >= HMU_SIZE + b
        BY <3>2, <4>2, UnitsCover DEF ReallocKeeps, Keeps
      <4> QED
        BY <1>1, <4>1, <4>3 DEF Covered, AnswerCoversRequest
    <3>3. ASSUME Kept', vo' = vo, size'[c] = TotUnits(b), ~Overflows(b), Answer(b, c), moving' = moving
          PROVE  Covered'
      <4>1. 8 * size'[c] >= HMU_SIZE + b
        BY <3>3, TotUnitsCover
      <4> QED
        BY <1>1, <3>3, <4>1 DEF Covered, AnswerCoversRequest, Answer
    <3>4. CASE GrowAll(c, b)
      <4>1. ~Overflows(b) /\ Answer(b, c) /\ moving' = moving
        BY <3>4 DEF GrowAll
      <4> QED
        BY <1>1, <3>3, <3>4, <4>1, GrowAllKeeps
    <3>5. CASE GrowPart(c, b)
      <4>1. ~Overflows(b) /\ Answer(b, c) /\ moving' = moving
        BY <3>5 DEF GrowPart
      <4> QED
        BY <1>1, <3>3, <3>5, <4>1, GrowPartKeeps
    <3>6. CASE MoveBlock(c, b)
      BY <1>1, <3>6, MallocCovers DEF MoveBlock, Covered
    <3>7. CASE ReallocFails(c, b)
      BY <2>4, <3>7 DEF ReallocFails
    <3> QED
      BY <2>6, <3>1, <3>2, <3>4, <3>5, <3>6, <3>7 DEF Realloc
  <2> QED
    BY <1>4, <2>2, <2>3, <2>4, <2>5, <2>6 DEF RNext, Next
<1> QED
  BY <1>3, <1>4

\* realloc, in place or by moving, keeps the heap whole, and malloc and free
\* after it too, as long as free reads no word that is not a boundary tag.
THEOREM GrowthInvariant == RSpecDefined => []GrowthKeepsHeap
<1>1. Kept => GrowthKeepsHeap
  BY DEF Kept, Tiling, Neighbours, GrowthKeepsHeap, WalkTilesHeap, KfcExact, NoAdjacentFree,
         PinuseNeverStale, Chunks, FreeChunks, End
<1>2. Covered => Kept
  BY DEF Covered
<1> QED
  BY <1>1, <1>2, InitCovered, StepCovered, PTL DEF RSpecDefined

\* Every block that malloc or realloc answers with is as large as was asked,
\* header included, and stays so until it is freed.
THEOREM AnswersCover == RSpecDefined => []AnswerCoversRequest
<1>1. Covered => AnswerCoversRequest
  BY DEF Covered
<1> QED
  BY <1>1, InitCovered, StepCovered, PTL DEF RSpecDefined
=============================================================================
