------------------------------ MODULE HeapSpec ------------------------------
(***************************************************************************)
(* What an allocator over a fixed pool promises its callers, whatever      *)
(* structure it keeps inside: a block handed out covers the bytes asked    *)
(* for, shares no unit with another live block, stays where it is until it *)
(* is freed, and a request is refused only when no run of free units is    *)
(* long enough for it.  The unit is the alignment of the allocator, eight  *)
(* bytes; a block carries a header of HeaderBytes.                         *)
(***************************************************************************)
EXTENDS Integers

CONSTANTS HeapUnits,    \* units in the pool
          Requests,     \* byte counts a caller may ask for
          HeaderBytes,  \* bytes of a block the allocator keeps for itself
          MinUnits,     \* the smallest block it hands out
          Null          \* the answer to a refused request

VARIABLES live,  \* address of a live block |-> units it covers
          last   \* the last request and its answer

Units == 0 .. HeapUnits - 1
Block(a, n) == a .. a + n - 1

InUse(u) == \E a \in DOMAIN live : u \in Block(a, live[a])
FreeRun(a, n) == Block(a, n) \subseteq Units /\ \A u \in Block(a, n) : ~InUse(u)

\* The fewest units whose bytes hold the header and b bytes.
Covers(n, b) == n >= MinUnits /\ 8 * n >= HeaderBytes + b

Init == /\ live = [a \in {} |-> 0]
        /\ last = [bytes |-> 0, at |-> Null]

Grant(b) ==
  \E a \in Units, n \in 1 .. HeapUnits :
    /\ Covers(n, b)
    /\ FreeRun(a, n)
    /\ live' = [x \in DOMAIN live \cup {a} |-> IF x = a THEN n ELSE live[x]]
    /\ last' = [bytes |-> b, at |-> a]

Refuse(b) ==
  /\ \A a \in Units, n \in 1 .. HeapUnits : Covers(n, b) => ~FreeRun(a, n)
  /\ last' = [bytes |-> b, at |-> Null]
  /\ UNCHANGED live

Release(a) ==
  /\ live' = [x \in DOMAIN live \ {a} |-> live[x]]
  /\ UNCHANGED last

Next == \/ \E b \in Requests : Grant(b) \/ Refuse(b)
        \/ \E a \in DOMAIN live : Release(a)

Spec == Init /\ [][Next]_<<live, last>>
=============================================================================
