----------------------------- MODULE EmsRealloc -----------------------------
(***************************************************************************)
(* gc_realloc_vo beside gc_alloc_vo and gc_free_vo.  A block that cannot   *)
(* grow where it lies is copied to a new one and the old one is freed with *)
(* gc_free_vo: the two halves of that call are two steps here, and between *)
(* them (moving # Null) nothing else happens, as in the single-threaded    *)
(* program.                                                                *)
(***************************************************************************)
EXTENDS EmsHeap

VARIABLE moving   \* the block gc_realloc_vo is about to free, or Null

rvars == <<size, vo, pinuse, tag, kfc, totalFree, highmark, last, moving>>

RInit == Init /\ moving = Null

Answer(b, a) == last' = [bytes |-> b, at |-> a]
Unchanged == UNCHANGED <<size, vo, pinuse, tag, kfc, totalFree, highmark, moving>>

\* The free chunk right above block c, when both together hold b bytes.
Room(c, b) == {d \in Above(End(c)) : TotUnits(b) <= size[c] + size[d]}

\* The block is large enough as it is.
KeepsPayload(c, b) == b <= 8 * size[c]
Keeps(c, b) == TotUnits(b) <= size[c]

\* What is left of the chunk above after a block of s units grew to n.
LeftWithHeader(s, d, n) == s + size[d] - n - 1
Left(s, d, n) == s + size[d] - n

\* unlink_hmu of the chunk that is taken over.
UnlinkGrownSkipped(d) == kfc
UnlinkGrown(d) == kfc \ {d}

ReallocOverflows(c, b) == Overflows(b) /\ Answer(b, Null) /\ Unchanged

ReallocKeeps(c, b) ==
  /\ ~Overflows(b) /\ Keeps(c, b)
  /\ Answer(b, c) /\ Unchanged

\* The chunk above is taken exactly: its header disappears.  Neither the
\* pinuse bit of the chunk after it nor total_free_size is touched.
GrowAll(c, b) ==
  /\ ~Overflows(b) /\ ~Keeps(c, b)
  /\ \E d \in Room(c, b) :
       /\ size[c] + size[d] = TotUnits(b)
       /\ size' = [x \in Chunks \ {d} |-> IF x = c THEN TotUnits(b) ELSE size[x]]
       /\ kfc' = UnlinkGrown(d)
       /\ pinuse' = pinuse \ {d}
       /\ tag' = TagAfterUse(tag, c, TotUnits(b))
  /\ Answer(b, c)
  /\ UNCHANGED <<vo, totalFree, highmark, moving>>

\* Part of the chunk above is taken; what is left becomes a free chunk
\* whatever its size, even below GC_SMALLEST_SIZE.
GrowPart(c, b) ==
  /\ ~Overflows(b) /\ ~Keeps(c, b)
  /\ \E d \in Room(c, b) :
       LET n    == TotUnits(b)
           rest == c + n
           left == Left(size[c], d, n)
       IN  /\ left > 0
           /\ size' = [x \in (Chunks \ {d}) \cup {rest} |->
                         IF x = c THEN n ELSE IF x = rest THEN left ELSE size[x]]
           /\ kfc' = UnlinkGrown(d) \cup {rest}
           /\ pinuse' = (pinuse \ {d}) \cup {rest}
           /\ tag' = TagAfterUse(TagAfterAdd(tag, rest, left), c, n)
  /\ Answer(b, c)
  /\ UNCHANGED <<vo, totalFree, highmark, moving>>

\* alloc_hmu_ex, the copy, and then gc_free_vo of the old block.
MoveBlock(c, b) ==
  /\ ~Overflows(b) /\ ~Keeps(c, b) /\ Room(c, b) = {}
  /\ Malloc(b)
  /\ moving' = c

ReallocFails(c, b) ==
  /\ ~Overflows(b) /\ ~Keeps(c, b) /\ Room(c, b) = {}
  /\ MallocFails(b) /\ UNCHANGED moving

FreeMoved == moving # Null /\ Free(moving) /\ moving' = Null

Realloc(c, b) ==
  \/ ReallocOverflows(c, b) \/ ReallocKeeps(c, b)
  \/ GrowAll(c, b) \/ GrowPart(c, b)
  \/ MoveBlock(c, b) \/ ReallocFails(c, b)

RNext == \/ FreeMoved
         \/ /\ moving = Null
            /\ \/ Next /\ UNCHANGED moving
               \/ \E c \in vo, b \in Requests : Realloc(c, b)

RSpec == RInit /\ [][RNext]_rvars

\* The behaviours up to the first free that takes a word for a boundary tag
\* which is none: what follows such a read is not defined by the code.
ReadsTag(c) == c \in pinuse \/ tag[c] # Garbage
RSpecDefined == RInit /\ [][RNext /\ \A c \in vo \ vo' : ReadsTag(c)]_rvars

-----------------------------------------------------------------------------
(* Properties *)

\* A set pinuse bit is always right, so merging never misses a chunk it could
\* see: growing in place errs only by leaving the bit clear.
PinuseNeverStale ==
  \A c, d \in Chunks : End(c) = d /\ d \in pinuse => c \in vo

\* Growing in place, moving and freeing keep the chunks a tiling of the heap,
\* free chunks apart, all of them and nothing else linked, and no pinuse bit
\* set that should be clear.
GrowthKeepsHeap ==
  WalkTilesHeap /\ KfcExact /\ NoAdjacentFree /\ PinuseNeverStale

\* Whatever way a request was answered, the block answered with covers it.
AnswerCoversRequest ==
  last.at \in vo => 8 * size[last.at] >= HMU_SIZE + last.bytes
=============================================================================
