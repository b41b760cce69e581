--------------------------- MODULE MCWasmInstance ---------------------------
(* Pages of 4 bytes, an address space of four pages, and five programs:    *)
(* memories that grow from nothing, from one page to the whole space on a  *)
(* 64-bit target and up to the space on a 32-bit one, a fixed memory with  *)
(* the host managed heap, and one that the loader shrinks; none, one or    *)
(* two functions run at instantiation.                                     *)
EXTENDS WasmInstance

P(pages, max, grows, heapBase, heapSize, posts, pointer) ==
  [pages |-> pages, max |-> max, grows |-> grows, heapBase |-> heapBase,
   heapSize |-> heapSize, posts |-> posts, pointer |-> pointer]

MCPrograms ==
  { P(0, 2, TRUE, 0, 0, 0, 64), P(1, 4, TRUE, 0, 0, 2, 64),
    P(2, 4, TRUE, 6, 0, 1, 32), P(2, 3, FALSE, 6, 4, 1, 64),
    P(1, 1, FALSE, 0, 0, 0, 32) }
MCTraps == {"EXCE_UNREACHABLE"}
MCBlocks == {"b1", "b2"}
=============================================================================
