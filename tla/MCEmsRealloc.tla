---------------------------- MODULE MCEmsRealloc ----------------------------
EXTENDS EmsRealloc
MCHeapUnits == 10
MCWordUnits == 16
MCRequests == {12, 13, 28, 36}

\* total_free_size and highmark_size drift without limit under growth in
\* place, and no step depends on them: states that differ in nothing else
\* are the same state.
LayoutView == <<size, vo, pinuse, tag, kfc, last, moving>>
=============================================================================
