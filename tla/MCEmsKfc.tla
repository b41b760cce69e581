------------------------------ MODULE MCEmsKfc ------------------------------
(* Five chunks; size 3 is kept in a list (sizes below six are) and 6, 7    *)
(* and 8 in the tree, so that nodes with two children, equal sizes and a   *)
(* predecessor that is a left child all occur.                             *)
EXTENDS EmsKfc, TLC
CONSTANTS c1, c2, c3, c4, c5
MCChunks == {c1, c2, c3, c4, c5}
MCSizes == {3, 6, 7, 8}
MCNormalCnt == 7
Symmetry == Permutations(MCChunks)
=============================================================================
