--------------------------- MODULE WasmValidator ---------------------------
(***************************************************************************)
(* wasm_loader_prepare_bytecode: the walk over a function body that checks *)
(* every opcode against a stack of operand cells and a stack of open       *)
(* blocks before the body is compiled.  An i32 or f32 is one cell, an i64  *)
(* or f64 two, a v128 four; the cell "any", which only select in           *)
(* unreachable code pushes, stands for a value of any type.  One action is *)
(* one opcode with its immediates; the body is any sequence of them.       *)
(* What an opcode without control flow pops and pushes is a signature.     *)
(***************************************************************************)
EXTENDS WasmTypes, SequencesExt

CONSTANTS MaxCells,    \* UINT16_MAX, the limit of the operand stack
          MaxBlocks,   \* UINT16_MAX, the limit of the block stack
          BlockTypes,  \* the types blocks are declared with
          Depths,      \* branch depths in immediates
          TableSizes   \* numbers of targets of a br_table, default included

AnyType == "any"   \* VALUE_TYPE_ANY

ASSUME ValidatorAssumption ==
  /\ MaxCells \in Nat /\ MaxBlocks \in Nat \ {0}
  /\ BlockTypes \subseteq [params : Seq(ValueTypes), results : Seq(ValueTypes)]
  /\ Depths \subseteq Nat /\ TableSizes \subseteq Nat \ {0}

VARIABLES ref,      \* frame_ref: the operand cells, the top last
          csp,      \* frame_csp: the open blocks, the innermost last
          verdict,  \* "checking", or how the walk ended
          last      \* the opcode checked last

vars == <<ref, csp, verdict, last>>

\* BranchBlock; hasElse is else_addr # NULL, base is stack_cell_num.
Block(label, type, base) ==
  [label |-> label, params |-> type.params, results |-> type.results,
   base |-> base, hasElse |-> FALSE, poly |-> FALSE]

\* Nothing follows the end of the function block, so its parameters, which are
\* locals, are never passed to it as operands.
Init == \E f \in FuncTypes :
          /\ ref = << >>
          /\ csp = <<Block("function", [f EXCEPT !.params = << >>], 0)>>
          /\ verdict = "checking"
          /\ last = [op |-> "none"]

-----------------------------------------------------------------------------
(* The operand stack.  A helper takes the cells and the outcome so far, and *)
(* does nothing once the outcome is an error: the code jumps to fail.       *)

Fine(r) == [cells |-> r, outcome |-> "checking"]
Fails(s, why) == [cells |-> s.cells, outcome |-> why]
Good(s) == s.outcome = "checking"

Copies(t) == [i \in 1 .. IF t = AnyType THEN 1 ELSE Cells(t) |-> t]
CellsOf(ts) == FlattenSeq([i \in 1 .. Len(ts) |-> Copies(ts[i])])

\* check_stack_top_values: with n cells of the block left, are the types ts on
\* top?  The code compares one type after the other, the last one first.
OnTop(r, n, top) == Len(top) <= n /\ SubSeq(r, Len(r) - Len(top) + 1, Len(r)) = top
TopValues(r, n, ts) == OnTop(r, n, CellsOf(ts))

\* wasm_loader_push_frame_ref
PushUnlimited(s, t) == IF Good(s) THEN Fine(s.cells \o Copies(t)) ELSE s
Push(s, t) ==
  IF ~Good(s) THEN s
  ELSE IF Len(s.cells) + Len(Copies(t)) > MaxCells THEN Fails(s, "limit")
  ELSE Fine(s.cells \o Copies(t))

\* wasm_loader_pop_frame_ref with check_stack_pop, in block b.
PopCells(r, n) == SubSeq(r, 1, Len(r) - n)
PopBaseUnseen(s, b, t) ==
  IF ~Good(s) \/ (s.cells = << >> /\ b.poly) THEN s
  ELSE IF s.cells # << >> /\ Last(s.cells) = AnyType THEN Fine(PopCells(s.cells, 1))
  ELSE IF OnTop(s.cells, Len(s.cells), Copies(t)) THEN Fine(PopCells(s.cells, Cells(t)))
  ELSE Fails(s, "rejected")
Pop(s, b, t) ==
  LET available == Len(s.cells) - b.base
  IN  IF ~Good(s) \/ (available <= 0 /\ b.poly) THEN s
      ELSE IF available > 0 /\ Last(s.cells) = AnyType THEN Fine(PopCells(s.cells, 1))
      ELSE IF OnTop(s.cells, available, Copies(t)) THEN Fine(PopCells(s.cells, Cells(t)))
      ELSE Fails(s, "rejected")

\* Values are popped from the last type to the first and pushed in order.
PopAll(s, b, ts) ==
  LET from[i \in 0 .. Len(ts)] ==
        IF i = Len(ts) THEN s ELSE Pop(from[i + 1], b, ts[i + 1])
  IN  from[0]
PushAll(s, ts) ==
  LET upto[i \in 0 .. Len(ts)] == IF i = 0 THEN s ELSE Push(upto[i - 1], ts[i])
  IN  upto[Len(ts)]

-----------------------------------------------------------------------------
(* Blocks and branches *)

Top == csp[Len(csp)]
Outer == Front(csp)
Target(n) == csp[Len(csp) - n]
SetTop(b) == Append(Outer, b)

\* RESET_STACK
Reset(r, b) == SubSeq(r, 1, b.base)

LabelTypes(b) == IF b.label = "loop" THEN b.params ELSE b.results

\* check_block_stack
CheckBlockStack(s, b) ==
  IF ~Good(s) THEN s
  ELSE IF b.poly
  THEN LET popped == PopAll(s, b, b.results)
       IN  IF Good(popped) /\ Len(popped.cells) # b.base THEN Fails(s, "rejected")
           ELSE PushAll(popped, b.results)
  ELSE IF SubSeq(s.cells, b.base + 1, Len(s.cells)) = CellsOf(b.results) THEN s
  ELSE Fails(s, "rejected")

\* wasm_loader_check_br.  In unreachable code the operands are replaced by the
\* target's types; br_table then puts back what was there before.
Repushed(s, n) == PushAll(PopAll(s, Top, LabelTypes(Target(n))), LabelTypes(Target(n)))
CheckBrKeepsPushed(s, n, isTable) ==
  IF ~Good(s) THEN s
  ELSE IF Len(csp) - 1 < n THEN Fails(s, "rejected")
  ELSE IF Top.poly THEN Repushed(s, n)
  ELSE IF TopValues(s.cells, Len(s.cells) - Top.base, LabelTypes(Target(n))) THEN s
  ELSE Fails(s, "rejected")
CheckBr(s, n, isTable) ==
  IF ~Good(s) THEN s
  ELSE IF Len(csp) - 1 < n THEN Fails(s, "rejected")
  ELSE IF Top.poly
  THEN IF isTable /\ Good(Repushed(s, n)) THEN s ELSE Repushed(s, n)
  ELSE IF TopValues(s.cells, Len(s.cells) - Top.base, LabelTypes(Target(n))) THEN s
  ELSE Fails(s, "rejected")

\* An opcode ends: the walk goes on, or the context is freed.
Settle(s, blocks) ==
  /\ verdict' = s.outcome
  /\ IF Good(s) THEN ref' = s.cells /\ csp' = blocks
                ELSE ref' = << >> /\ csp' = << >>

Now == Fine(ref)
Rejected == Fails(Now, "rejected")

\* RESET_STACK and SET_CUR_BLOCK_STACK_POLYMORPHIC_STATE(true), after the
\* checks that led to s.
SettleUnreachable(s) ==
  Settle(IF Good(s) THEN Fine(Reset(s.cells, Top)) ELSE s,
         SetTop([Top EXCEPT !.poly = TRUE]))

-----------------------------------------------------------------------------
(* Opcodes *)

Checking(op) == verdict = "checking" /\ last' = op

\* legal: indices exist, memory is declared, the alignment, lane and reserved
\* bytes are in range.
Plain(sig, legal) ==
  /\ Checking([op |-> "plain", sig |-> sig, legal |-> legal])
  /\ Settle(IF legal THEN PushAll(PopAll(Now, Top, sig.pops), sig.pushes) ELSE Rejected, csp)

Unreachable ==
  /\ Checking([op |-> "unreachable"])
  /\ SettleUnreachable(Now)

\* An opcode the switch does not know, and every atomic one: the test of the
\* prefix looks at the prefix byte instead of the opcode behind it.
Unsupported ==
  /\ Checking([op |-> "unsupported"])
  /\ Settle(Rejected, csp)

OpenBlock(label, type) ==
  LET s1 == PopAll(IF label = "if" THEN Pop(Now, Top, "i32") ELSE Now, Top, type.params)
      s2 == IF Good(s1) /\ Len(csp) + 1 > MaxBlocks THEN Fails(s1, "limit") ELSE s1
  IN  /\ Checking([op |-> label, type |-> type])
      /\ Settle(PushAll(s2, type.params), Append(csp, Block(label, type, Len(s1.cells))))

\* The else opcode, or the one that end supplies for an if without else.
ElseStack(s) == PushAll(Fine(Reset(s.cells, Top)), Top.params)
ElseBlock == [Top EXCEPT !.hasElse = TRUE, !.poly = FALSE]

Else ==
  LET s == IF Len(csp) < 2 \/ Top.label # "if" \/ Top.hasElse THEN Rejected
           ELSE CheckBlockStack(Now, Top)
  IN  /\ Checking([op |-> "else"])
      /\ Settle(IF Good(s) THEN ElseStack(s) ELSE s, SetTop(ElseBlock))

\* more: bytes of the body follow
EndWithElse(s) ==
  IF Good(s) /\ Top.label = "if" /\ ~Top.hasElse
  THEN CheckBlockStack(ElseStack(s), ElseBlock) ELSE s
End(more) ==
  LET s == EndWithElse(CheckBlockStack(Now, Top))
      ends == Len(csp) = 1
  IN  /\ Checking([op |-> "end", more |-> more])
      /\ Settle(IF Good(s) /\ ends THEN Fails(s, IF more THEN "rejected" ELSE "accepted") ELSE s, Outer)

\* The body ends and blocks are open.
BodyEnds ==
  /\ Checking([op |-> "none"])
  /\ Settle(Rejected, csp)

Br(n) ==
  /\ Checking([op |-> "br", depth |-> n])
  /\ SettleUnreachable(CheckBr(Now, n, FALSE))

BrIf(n) ==
  /\ Checking([op |-> "br_if", depth |-> n])
  /\ Settle(CheckBr(Pop(Now, Top, "i32"), n, FALSE), csp)

\* The depths of all targets are checked, then each target in turn: its arity
\* against the last one's, and its types.
CheckTarget(s, ns, i) ==
  LET Arity(n) == Len(LabelTypes(Target(n)))
  IN  IF ~Good(s) THEN s
      ELSE IF Arity(ns[i]) # Arity(ns[Len(ns)]) THEN Rejected
      ELSE CheckBr(s, ns[i], TRUE)
CheckTargets(s, ns) ==
  LET upto[i \in 0 .. Len(ns)] == IF i = 0 THEN s ELSE CheckTarget(upto[i - 1], ns, i)
  IN  upto[Len(ns)]
BrTable(ns) ==
  /\ Checking([op |-> "br_table", depths |-> ns])
  /\ SettleUnreachable(IF \A i \in 1 .. Len(ns) : ns[i] <= Len(csp) - 1
                       THEN CheckTargets(Pop(Now, Top, "i32"), ns) ELSE Rejected)

Return ==
  /\ Checking([op |-> "return"])
  /\ SettleUnreachable(PopAll(Now, Top, csp[1].results))

\* return_call, return_call_indirect
ReturnCall(sig) ==
  LET s == PopAll(Now, Top, sig.pops)
  IN  /\ Checking([op |-> "return_call", pops |-> sig.pops, results |-> sig.pushes])
      /\ SettleUnreachable(IF Good(s) /\ sig.pushes # csp[1].results
                           THEN Rejected ELSE s)

Available == Len(ref) - Top.base

\* drop looks at the top cell for the width.
WidthOne(cell) == 1
Width(cell) == IF cell = AnyType THEN 1 ELSE Cells(cell)
Drop ==
  /\ Checking([op |-> "drop"])
  /\ Settle(IF Available > 0 THEN Fine(PopCells(ref, Width(Last(ref))))
            ELSE IF Top.poly THEN Now ELSE Rejected, csp)

SelectsNothing(s) == Push(s, AnyType)
SelectFromEmpty(s) == IF Top.poly THEN Push(s, AnyType) ELSE Rejected
Select ==
  LET s == Pop(Now, Top, "i32")
      t == Last(s.cells)
  IN  /\ Checking([op |-> "select"])
      /\ Settle(IF ~Good(s) THEN s
                ELSE IF Len(s.cells) > Top.base
                THEN PushAll(PopAll(s, Top, <<t, t>>), <<t>>)
                ELSE SelectFromEmpty(s), csp)

Next == \/ \E sig \in Signatures, legal \in BOOLEAN : Plain(sig, legal)
        \/ Unreachable \/ Unsupported \/ Else \/ BodyEnds \/ Return \/ Drop \/ Select
        \/ \E label \in {"block", "loop", "if"}, type \in BlockTypes : OpenBlock(label, type)
        \/ \E more \in BOOLEAN : End(more)
        \/ \E n \in Depths : Br(n) \/ BrIf(n)
        \/ \E k \in TableSizes : \E ns \in [1 .. k -> Depths] : BrTable(ns)
        \/ \E sig \in CallSigs \cup CallIndirectSigs : ReturnCall(sig)

Spec == Init /\ [][Next]_vars

-----------------------------------------------------------------------------
(* Properties *)

\* Types; the bases of the blocks rise with the nesting and lie in the stack,
\* and the innermost ones are not above the cells: what a block resets to is
\* always there.
TypeOK ==
  /\ ref \in Seq(ValueTypes \cup {AnyType}) /\ Len(ref) <= MaxCells
  /\ \A i \in 1 .. Len(csp) :
       /\ csp[i].label \in {"function", "block", "loop", "if"}
       /\ csp[i].base <= Len(ref)
       /\ i > 1 => csp[i - 1].base <= csp[i].base
       /\ csp[i].label = "function" <=> i = 1
  /\ Len(csp) <= MaxBlocks
  /\ verdict \in {"checking", "accepted", "rejected", "limit"}
  /\ verdict = "checking" <=> csp # << >>

\* The values of a run of cells, read from the top, where a cell tells the width
\* of its value; none is wider than four.
Values(r) ==
  LET upto[i \in -3 .. Len(r)] ==
        IF i <= 0 THEN << >> ELSE Append(upto[i - Width(r[i])], r[i])
  IN  upto[Len(r)]

\* T holds the end of the value below the one that ends at u, whose cells are
\* all of one type.
Below(c, u) == u - Len(Copies(c[u]))
OneValue(c, T, u) == Below(c, u) \in T /\ \A k \in Below(c, u) + 1 .. u : c[k] = c[u]
\* The cells of c above lo and up to hi are whole values.
WholeFrom(c, lo, hi) ==
  \E T \in SUBSET (lo .. hi) : /\ lo \in T /\ hi \in T
                               /\ \A u \in T \ {lo} : OneValue(c, T, u)

\* The cells of every block are whole values: no pop of one, two or four cells
\* ever takes a part of a value and leaves the rest to be taken for another.
\* drop and br_table, which move the stack pointer themselves, rely on it.
OperandsWhole ==
  \A i \in 1 .. Len(csp) :
    WholeFrom(ref, csp[i].base, IF i = Len(csp) THEN Len(ref) ELSE csp[i + 1].base)

\* "any" is only ever the lowest operand of a block, and of one whose code is
\* unreachable.  The checks that do not treat it specially (branches and ends
\* in reachable code) rely on it.
AnyOnlyAtBase ==
  \A k \in 1 .. Len(ref) :
    ref[k] = AnyType =>
      \E i \in 1 .. Len(csp) : /\ csp[i].base = k - 1 /\ csp[i].poly
                               /\ \A j \in i + 1 .. Len(csp) : csp[j].base >= k

\* No opcode reads or changes a cell below the innermost block, in reachable
\* code or not, and the block's end leaves them to the enclosing block.
LowerOperandsKept ==
  [][csp' # << >> => /\ Len(ref') >= Top.base
                     /\ Reset(ref', Top) = Reset(ref, Top)]_vars

\* The open blocks bs over the cells r, as the type system has them.
Ctrl(b, r) == [label |-> IF b.hasElse THEN "else" ELSE b.label,
               params |-> b.params, results |-> b.results,
               height |-> Len(Values(Reset(r, b))), unreachable |-> b.poly]
Ctrls(bs, r) == [i \in 1 .. Len(bs) |-> Ctrl(bs[i], r)]

\* The walk accepts and refuses what the type system does, with the same
\* operands after every opcode, up to the limits.
Typing == INSTANCE WasmTyping
  WITH Unknown <- AnyType, vals <- Values(ref), ctrls <- Ctrls(csp, ref)
ImplementsTyping == Typing!Spec
=============================================================================
