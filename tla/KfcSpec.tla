------------------------------ MODULE KfcSpec ------------------------------
(***************************************************************************)
(* What the allocator expects of its store of free chunks: a chunk that is *)
(* added stays, with its size, until it is taken or unlinked; a request is *)
(* answered with a smallest chunk that is large enough, and with nothing   *)
(* only when no chunk is.                                                  *)
(***************************************************************************)
EXTENDS Integers

CONSTANTS Chunks, Sizes, Null

VARIABLES free,   \* chunk in the store |-> its size
          taken   \* the last request and the chunk that answered it

\* The pool begins as one free chunk.
Init == /\ \E c \in Chunks, n \in Sizes : free = [x \in {c} |-> n]
        /\ taken = [units |-> 0, at |-> Null]

Without(c) == [x \in DOMAIN free \ {c} |-> free[x]]

Add(c, n) ==
  /\ c \notin DOMAIN free
  /\ free' = [x \in DOMAIN free \cup {c} |-> IF x = c THEN n ELSE free[x]]
  /\ UNCHANGED taken

Take(n) ==
  \E c \in DOMAIN free :
    /\ free[c] >= n
    /\ \A d \in DOMAIN free : free[d] >= n => free[c] <= free[d]
    /\ free' = Without(c)
    /\ taken' = [units |-> n, at |-> c]

Refuse(n) ==
  /\ \A c \in DOMAIN free : free[c] < n
  /\ taken' = [units |-> n, at |-> Null]
  /\ UNCHANGED free

Unlink(c) == c \in DOMAIN free /\ free' = Without(c) /\ UNCHANGED taken

Next == \/ \E c \in Chunks, n \in Sizes : Add(c, n)
        \/ \E n \in Sizes : Take(n) \/ Refuse(n)
        \/ \E c \in Chunks : Unlink(c)

Spec == Init /\ [][Next]_<<free, taken>>
=============================================================================
