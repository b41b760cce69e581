------------------------------- MODULE EmsHeap -------------------------------
(***************************************************************************)
(* The EMS allocator (core/shared/mem-alloc/ems): the host managed heap of *)
(* the linear memory, from which libc-builtin's malloc and the argv of     *)
(* main() are taken.  The pool is tiled by chunks; each begins with a      *)
(* header word (type, previous-in-use bit, size) and a free chunk ends     *)
(* with a boundary tag holding its size, which gc_free_vo reads to find    *)
(* the free chunk below the block it frees.  Addresses and sizes are in    *)
(* units of eight bytes.  The allocator's lock calls are commented out:    *)
(* one thread, one call at a time, so a call is one step.                  *)
(*                                                                         *)
(* The free structure (lists per size and a search tree) appears here as   *)
(* the set kfc and its best-fit answer; EmsKfc models its nodes and links. *)
(***************************************************************************)
EXTENDS Integers, FiniteSets

CONSTANTS HeapUnits,  \* heap->current_size
          WordUnits,  \* 2^32 bytes in units: gc_size_t arithmetic wraps there
          Requests,   \* byte counts passed by the callers
          Null        \* NULL

HMU_SIZE == 4           \* bytes of a header
GC_SMALLEST_SIZE == 2   \* units: GC_ALIGN_8(HMU_SIZE + 8)
WordMod == 8 * WordUnits
Units == 0 .. HeapUnits - 1

ASSUME HeapAssumption ==
  /\ HeapUnits \in Nat /\ HeapUnits >= GC_SMALLEST_SIZE
  /\ WordUnits \in Nat /\ WordUnits > HeapUnits
  /\ Requests \subseteq 0 .. WordMod - 1
  /\ Null \notin Int

VARIABLES
  size,       \* chunk address |-> hmu_get_size; its domain is the chain of
              \* chunks a walk from base_addr reaches
  vo,         \* chunks with type HMU_VO; the others are HMU_FC
  pinuse,     \* chunks with the "previous chunk is in use" bit
  tag,        \* boundary |-> what the word just below it holds: the size
              \* written by hmu_set_free_size, or Garbage
  kfc,        \* chunks linked in kfc_normal_list or kfc_tree_root
  totalFree,  \* heap->total_free_size
  highmark,   \* heap->highmark_size
  last        \* the last request and the address answered

vars == <<size, vo, pinuse, tag, kfc, totalFree, highmark, last>>

Garbage == 0   \* a word that belongs to the application or was overwritten

Chunks == DOMAIN size
FreeChunks == Chunks \ vo
End(c) == c + size[c]
Max2(a, b) == IF a >= b THEN a ELSE b

\* gc_init_internal: the pool is one free chunk, its pinuse bit set because
\* nothing lies below it; it is linked in the tree whatever its size and its
\* boundary tag is not written.
Init == /\ size = [c \in {0} |-> HeapUnits]
        /\ vo = {} /\ pinuse = {0} /\ kfc = {0}
        /\ tag = [b \in 1 .. HeapUnits |-> Garbage]
        /\ totalFree = HeapUnits /\ highmark = 0
        /\ last = [bytes |-> 0, at |-> Null]

-----------------------------------------------------------------------------
\* Sizes: header plus payload, truncated to 32 bits, rounded up to units.

TotUnits(b) == ((((HMU_SIZE + b) % WordMod) + 7) % WordMod) \div 8
OverflowUnchecked(b) == FALSE
Overflows(b) == 8 * TotUnits(b) < b
AllocUnclamped(b) == TotUnits(b)
AllocUnits(b) == Max2(TotUnits(b), GC_SMALLEST_SIZE)

\* alloc_hmu's choice.  The size lists are tried in increasing order and then
\* the tree, whose search keeps the last node that is large enough while it
\* descends to smaller ones: together, a smallest sufficient chunk.
Fits(n) == {c \in kfc : size[c] >= n}
BestFits(n) == {c \in Fits(n) : \A d \in Fits(n) : size[c] <= size[d]}

\* gci_add_fc: the boundary tag is the last word of the chunk.  In a chunk of
\* one unit the link to the next list node overwrites it.  Words inside the
\* chunk mean nothing any more.
TagAfterAdd(t, h, n) ==
  [b \in DOMAIN t |-> IF b = h + n /\ n >= GC_SMALLEST_SIZE THEN n
                      ELSE IF h < b /\ b <= h + n THEN Garbage ELSE t[b]]

\* A block belongs to the application, which may write any word of it.
TagAfterUse(t, h, n) ==
  [b \in DOMAIN t |-> IF h < b /\ b <= h + n THEN Garbage ELSE t[b]]

Account(freed) ==
  /\ totalFree' = (totalFree + freed) % WordUnits
  /\ highmark' = Max2(highmark, (HeapUnits - totalFree') % WordUnits)

\* The chunk left behind when n units are cut from c, and the bit set in the
\* header above a chunk that is handed out whole.
RestTooSmall(c, n) == size[c] - n - 1
Rest(c, n) == size[c] - n
MarkForgotten(c) == pinuse
MarkAbove(c) == pinuse \cup ({End(c)} \cap Units)

\* What a chunk handed out whole takes from the free bytes: its own size, not
\* the size asked for.
TakesRequest(c, n) == n
Takes(c, n) == size[c]

-----------------------------------------------------------------------------
\* gc_alloc_vo on a chunk c with room for another one behind n units.
Split(c, n) ==
  /\ size[c] >= n + GC_SMALLEST_SIZE
  /\ size' = [x \in Chunks \cup {c + n} |->
                IF x = c THEN n ELSE IF x = c + n THEN Rest(c, n) ELSE size[x]]
  /\ vo' = vo \cup {c}
  /\ kfc' = (kfc \ {c}) \cup {c + n}
  /\ pinuse' = pinuse \cup {c + n}
  /\ tag' = TagAfterUse(TagAfterAdd(tag, c + n, Rest(c, n)), c, n)
  /\ Account(-n)

\* gc_alloc_vo on a chunk handed out whole.
TakeWhole(c, n) ==
  /\ size[c] < n + GC_SMALLEST_SIZE
  /\ vo' = vo \cup {c}
  /\ kfc' = kfc \ {c}
  /\ pinuse' = MarkAbove(c)
  /\ tag' = TagAfterUse(tag, c, size[c])
  /\ Account(-Takes(c, n))
  /\ UNCHANGED size

Malloc(b) ==
  /\ ~Overflows(b)
  /\ \E c \in BestFits(AllocUnits(b)) :
       /\ Split(c, AllocUnits(b)) \/ TakeWhole(c, AllocUnits(b))
       /\ last' = [bytes |-> b, at |-> c]

MallocFails(b) ==
  /\ Overflows(b) \/ Fits(AllocUnits(b)) = {}
  /\ last' = [bytes |-> b, at |-> Null]
  /\ UNCHANGED <<size, vo, pinuse, tag, kfc, totalFree, highmark>>

-----------------------------------------------------------------------------
\* gc_free_vo.  The chunk below is looked at only when the pinuse bit is
\* clear, at the distance the word below the header says.  A word that is not
\* a tag may lead to any header; only one of type HMU_FC changes anything.
Below(c) ==
  IF c \in pinuse THEN {c}
  ELSE IF tag[c] = Garbage THEN FreeChunks \cup {c}
  ELSE {IF c - tag[c] \in FreeChunks THEN c - tag[c] ELSE c}

\* The chunk above, when it is in the heap and free.
AboveIgnored(e) == {}
Above(e) == {e} \cap FreeChunks

\* unlink_hmu of the chunk above, if there is one to merge.
UnlinkSkipped(above) == kfc
Unlink(above) == kfc \ above

\* The chunk above the merged one is told that its neighbour is free.
MarkFreedForgotten(marked, e) == marked
MarkFreed(marked, e) == marked \ {e}

\* Chunk c is freed, its merged chunk begins at h and ended at e so far.
Coalesce(c, h, e) ==
  LET above == Above(e)
      top   == IF above = {} THEN e ELSE End(e)
      n     == top - h
      gone  == (above \cup {c}) \ {h}
  IN  /\ size' = [x \in Chunks \ gone |-> IF x = h THEN n ELSE size[x]]
      /\ vo' = vo \ {c}
      /\ kfc' = Unlink(above) \cup {h}
      /\ tag' = TagAfterAdd(tag, h, n)
      /\ pinuse' = MarkFreed(pinuse \ gone, h + n)

Release(c) ==
  \E h \in Below(c) :
    /\ Coalesce(c, h, IF h = c THEN End(c) ELSE h + size[h] + size[c])
    /\ totalFree' = (totalFree + size[c]) % WordUnits

Free(c) == Release(c) /\ UNCHANGED <<highmark, last>>

Next == \/ \E b \in Requests : Malloc(b) \/ MallocFails(b)
        \/ \E c \in vo : Free(c)

Spec == Init /\ [][Next]_vars

-----------------------------------------------------------------------------
(* Properties *)

\* Types.  A chunk lies inside the pool.
TypeOK ==
  /\ Chunks \subseteq Units
  /\ \A c \in Chunks : size[c] \in Nat /\ size[c] >= GC_SMALLEST_SIZE /\ End(c) <= HeapUnits
  /\ vo \subseteq Chunks /\ pinuse \subseteq Chunks /\ kfc \subseteq Chunks
  /\ tag \in [1 .. HeapUnits -> Nat]
  /\ totalFree \in Nat /\ highmark \in Nat

\* A walk by sizes from base_addr meets every chunk and ends exactly at the
\* end of the pool (gci_dump and gci_verify_heap assert cur == end).
WalkTilesHeap ==
  /\ 0 \in Chunks
  /\ \A c \in Chunks : End(c) \in Chunks \cup {HeapUnits}
  /\ \A u \in Units : \E c \in Chunks : c <= u /\ u < End(c)
  /\ \A c, d \in Chunks : c < d => End(c) <= d

\* "P in use bit means the previous chunk is in use" (ems_gc_internal.h): the
\* bit agrees with the type of the chunk below, for every chunk but the first.
PinuseExact ==
  /\ 0 \in pinuse
  /\ \A c, d \in Chunks : End(c) = d => (d \in pinuse <=> c \in vo)

\* Whenever gc_free_vo would read the word below a header, that word is the
\* boundary tag of the chunk below.
TagsReliable ==
  \A c, d \in Chunks : End(c) = d /\ d \notin pinuse => tag[d] = size[c]

\* Free neighbours are always merged, so free space never splinters.
NoAdjacentFree ==
  \A c, d \in FreeChunks : End(c) # d

\* The lists and the tree hold the free chunks, all of them and no other: a
\* chunk is neither handed out twice nor lost.
KfcExact == kfc = FreeChunks

\* total_free_size is what the free chunks really hold, and highmark_size has
\* seen the largest use of the heap so far.
FreeUnits == UNION {c .. End(c) - 1 : c \in FreeChunks}
AccountingExact ==
  /\ totalFree = Cardinality(FreeUnits)
  /\ highmark >= HeapUnits - totalFree

\* The allocator implements the abstract pool: blocks never share a unit,
\* they cover the request, and NULL is answered only when no run of free
\* units could hold the request.
Pool == INSTANCE HeapSpec WITH HeaderBytes <- HMU_SIZE, MinUnits <- GC_SMALLEST_SIZE,
                               live <- [c \in vo |-> size[c]]
ImplementsPool == Pool!Spec
=============================================================================
