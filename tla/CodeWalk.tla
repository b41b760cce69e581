------------------------------ MODULE CodeWalk ------------------------------
(***************************************************************************)
(* The bytes of a function body between the loader and the compiler.  The  *)
(* loader rewrites some of them while it checks the body: the opcode of a  *)
(* block with a type index, and the depths of a br_table, one byte each,   *)
(* or kept beside the body when one does not fit in a byte.  The compiler  *)
(* walks the rewritten bytes, and for each block it opens looks ahead for  *)
(* the block's else and end.                                               *)
(*                                                                         *)
(* A byte carries LebBits bits of a number and the mark that more follow.  *)
(* Opcodes are some numbers below 2^(LebBits + 1), so that a depth or a    *)
(* constant may look like any of them.  Opcodes that read the same kind of *)
(* immediate are one; drop_64 and select_64 are drop and select.  The      *)
(* compiler also reads here what it would skip as out of reach.            *)
(***************************************************************************)
EXTENDS Integers, Sequences, SequencesExt, FiniteSetsExt

CONSTANT LebBits   \* 7

More == 2^LebBits              \* the mark that more bytes follow
ByteSize == 2^(LebBits + 1)    \* depths below this fit in a byte

\* EXT_OP_BLOCK and the two after it lie as far apart as WASM_OP_BLOCK's.
Opcode == [unreachable |-> 0, nop |-> 1, block |-> 2, loop |-> 3, if |-> 4, else |-> 5,
           ext_block |-> 6, ext_loop |-> 7, ext_if |-> 8, br_table_cache |-> 9,
           end |-> 11, br |-> 12, br_table |-> 14, return |-> 15, call |-> 16,
           call_indirect |-> 17, memory_init |-> 18, memory_copy |-> 19, lane |-> 20,
           vector |-> 21, memory_fill |-> 22, drop |-> 26, local |-> 30, const |-> 31]
OpcodeOf(byte) == CHOOSE o \in DOMAIN Opcode : Opcode[o] = byte
BlockOps == {"block", "loop", "if"}
Opens == BlockOps \cup {"ext_block", "ext_loop", "ext_if"}
Extended(o) == CHOOSE e \in Opens \ BlockOps :
                 Opcode[e] = Opcode["ext_block"] + (Opcode[o] - Opcode["block"])
LabelOf(o) == CHOOSE b \in BlockOps : o = b \/ o = Extended(b)

\* Read as a signed number, one of these bytes alone is negative: 0x40, 0x7f.
TypeBytes == {More - 1, More \div 2}

-----------------------------------------------------------------------------
(* Reading *)

\* skip_leb, and the number read; p is where it begins.
SkipLeb(m, p) == 1 + Min({q \in p .. Len(m) : m[q] < More})
Leb(m, p) ==
  FoldLeft(LAMBDA n, q : n + (m[q] % More) * 2^(LebBits * (q - p)), 0,
           [k \in 1 .. SkipLeb(m, p) - p |-> p + k - 1])
SkipNops(m, p) == Min({q \in p .. Len(m) + 1 : q > Len(m) \/ m[q] # Opcode["nop"]})

\* The immediates of opcodes that open no block and choose no label.
SkipImmediates(m, o, p) ==
  CASE o \in {"br", "call", "local", "const"} -> SkipLeb(m, p)
    [] o \in {"call_indirect", "memory_init"} -> SkipLeb(m, p) + 1
    [] o = "memory_copy" -> p + 2
    [] o = "memory_fill" -> p + 1
    [] o = "lane" -> SkipLeb(m, SkipLeb(m, p)) + 1
    [] o = "vector" -> p + 16
    [] o \in {"unreachable", "nop", "else", "end", "return", "drop"} -> p

-----------------------------------------------------------------------------
(* wasm_loader_prepare_bytecode *)

\* One depth of a br_table: read at p, and written at to, which never is
\* behind p, or into the cache once there is one.
TableDepth(w) ==
  LET depth == Leb(w.code, w.p)
      begin == w.begin
      cached == w.cached \/ depth >= ByteSize
  IN  [w EXCEPT !.p = SkipLeb(w.code, w.p),
                !.cached = cached,
                !.depths = Append(IF cached /\ ~w.cached
                                  THEN [j \in 1 .. w.to - begin |-> w.code[begin + j - 1]] ELSE @,
                                  depth),
                !.code = IF cached THEN @ ELSE [@ EXCEPT ![w.to] = depth],
                !.to = IF cached THEN @ ELSE @ + 1]
TableDepths(m, p, count) ==
  FoldLeft(LAMBDA w, i : TableDepth(w),
           [code |-> m, p |-> p, begin |-> p, to |-> p, cached |-> FALSE, depths |-> << >>],
           [i \in 1 .. count + 1 |-> i])
\* The bytes not written to become nops, all of them when there is a cache.
UnwrittenOnly(w) == w.to .. w.p - 1
Unwritten(w) == (IF w.cached THEN w.begin ELSE w.to) .. w.p - 1
WithNops(w) == [q \in DOMAIN w.code |-> IF q \in Unwritten(w) THEN Opcode["nop"] ELSE w.code[q]]

\* cache: the depths of a br_table by the place of its opcode.
RECURSIVE PrepareBytecode(_, _, _)
PrepareBytecode(m, p, cache) ==
  IF p > Len(m) THEN [code |-> m, cache |-> cache]
  ELSE LET o == OpcodeOf(m[p])
           w == TableDepths(m, SkipLeb(m, p + 1), Leb(m, p + 1))
       IN CASE o \in BlockOps /\ m[p + 1] \in TypeBytes -> PrepareBytecode(m, p + 2, cache)
            [] o \in BlockOps /\ m[p + 1] \notin TypeBytes ->
                 PrepareBytecode([m EXCEPT ![p] = Opcode[Extended(o)]], SkipLeb(m, p + 1), cache)
            [] o = "br_table" /\ w.cached ->
                 PrepareBytecode([WithNops(w) EXCEPT ![p] = Opcode["br_table_cache"]], w.p,
                                 Append(cache, [at |-> p, depths |-> w.depths]))
            [] o = "br_table" /\ ~w.cached -> PrepareBytecode(WithNops(w), w.p, cache)
            [] OTHER -> PrepareBytecode(m, SkipImmediates(m, o, p + 1), cache)

-----------------------------------------------------------------------------
(* wasm_loader_find_block_addr: the else and the end of the block whose code *)
(* starts at start.  The cache it takes is empty at each of its calls.       *)

SkipOpcode(m, p) ==
  LET o == OpcodeOf(m[p]) IN
  CASE o \in BlockOps -> p + 2
    [] o \in Opens \ BlockOps -> SkipLeb(m, p + 1)
    [] o = "br_table" -> SkipNops(m, SkipLeb(m, p + 1) + Leb(m, p + 1) + 1)
    [] o = "br_table_cache" -> SkipNops(m, SkipLeb(m, p + 1))
    [] OTHER -> SkipImmediates(m, o, p + 1)

\* An else belongs to the block when no other is open.
ElseOfAny(label, depth) == label = "if"
ElseOf(label, depth) == label = "if" /\ depth = 1
RECURSIVE FindFrom(_, _, _, _, _)
FindFrom(m, p, label, depth, else) ==
  IF p > Len(m) THEN [else |-> else, end |-> 0]
  ELSE LET o == OpcodeOf(m[p])
           next == SkipOpcode(m, p)
       IN CASE o \in Opens -> FindFrom(m, next, label, depth + 1, else)
            [] o = "else" -> FindFrom(m, next, label, depth, IF ElseOf(label, depth) THEN p ELSE else)
            [] o = "end" -> IF depth = 1 THEN [else |-> else, end |-> p]
                            ELSE FindFrom(m, next, label, depth - 1, else)
            [] OTHER -> FindFrom(m, next, label, depth, else)
FindBlockAddr(m, start, label) == FindFrom(m, start, label, 1, 0)

-----------------------------------------------------------------------------
(* aot_compile_func: the opcode at p, what it says, and where the next is.  *)

ReadAt(r, p) ==
  LET m == r.code
      o == OpcodeOf(m[p])
      q == SkipLeb(m, p + 1)
      count == Leb(m, p + 1)
      node == CHOOSE n \in ToSet(r.cache) : n.at = p
      start == IF o \in BlockOps THEN p + 2 ELSE q
      found == FindBlockAddr(m, start, LabelOf(o))
  IN CASE o \in Opens -> [op |-> LabelOf(o), says |-> <<found.else, found.end>>, next |-> start]
       [] o = "br_table" -> [op |-> o, says |-> SubSeq(m, q, q + count), next |-> q + count + 1]
       [] o = "br_table_cache" -> [op |-> "br_table", says |-> node.depths, next |-> q]
       [] o \in {"br", "call", "local", "const", "call_indirect"} ->
            [op |-> o, says |-> <<count>>, next |-> SkipImmediates(m, o, p + 1)]
       [] OTHER -> [op |-> o, says |-> << >>, next |-> SkipImmediates(m, o, p + 1)]
\* The places the compiler comes to, one opcode after the other.
RECURSIVE CompileFrom(_, _)
CompileFrom(r, p) ==
  IF p > Len(r.code) THEN << >>
  ELSE LET i == ReadAt(r, p)
       IN  (IF i.op = "nop" THEN << >> ELSE <<[at |-> p, op |-> i.op, says |-> i.says]>>)
             \o CompileFrom(r, i.next)
Compiled(m) == CompileFrom(PrepareBytecode(m, 1, << >>), 1)

-----------------------------------------------------------------------------
(* What a body says.  An instruction is its opcode, what it says, its       *)
(* immediates as bytes, and the depth of nesting it stands at, that of its  *)
(* block for a block's own opcodes.                                         *)

Instruction(o, says, bytes, nesting) ==
  [op |-> o, says |-> says, bytes |-> bytes, nesting |-> nesting]

BytesOf(body) == FlattenSeq([k \in DOMAIN body |-> <<Opcode[body[k].op]>> \o body[k].bytes])
Place(body, k) == 1 + FoldLeft(LAMBDA n, i : n + 1 + Len(body[i].bytes), 0, [i \in 1 .. k - 1 |-> i])
\* The first else or end of the block of instruction k that comes after it.
After(body, k, o) ==
  LET S == {j \in k + 1 .. Len(body) : body[j].op = o /\ body[j].nesting = body[k].nesting}
      E == {j \in k + 1 .. Len(body) : body[j].op = "end" /\ body[j].nesting = body[k].nesting}
  IN  IF S = {} \/ Min(S) > Min(E) THEN 0 ELSE Place(body, Min(S))
Meant(body) ==
  SelectSeq([k \in DOMAIN body |->
               [at |-> Place(body, k), op |-> body[k].op,
                says |-> IF body[k].op \notin BlockOps THEN body[k].says
                         ELSE <<IF body[k].op = "if" THEN After(body, k, "else") ELSE 0,
                                After(body, k, "end")>>]],
            LAMBDA i : i.op # "nop")
=============================================================================
