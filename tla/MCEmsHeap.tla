----------------------------- MODULE MCEmsHeap -----------------------------
(* A pool of ten units and requests on each side of the interesting sizes: *)
(* nothing (below the smallest chunk), two to four units, and counts so    *)
(* near to 2^w that the rounded total wraps.                               *)
EXTENDS EmsHeap

MCHeapUnits == 10
MCWordUnits == 16
MCRequests == {0, 12, 13, 28, 122, 127}
=============================================================================
