----------------------------- MODULE AotControl -----------------------------
(***************************************************************************)
(* The emission of control flow for one function body (aot_emit_control.c):*)
(* the compiler walks over opcodes the loader accepted, keeps a stack of   *)
(* open blocks with the LLVM values on their operand stacks, and builds    *)
(* LLVM basic blocks joined by branches and phis.  Code that cannot be     *)
(* reached is skipped, up to the next else or end that can.                *)
(*                                                                         *)
(* The body is chosen while it is compiled: an opcode is enabled when the  *)
(* type system allows it at this place (variable types), which is what the *)
(* loader checks.  A value is its type and whether LLVM folded it to a     *)
(* constant; i1 is the result of a comparison.  Basic blocks are numbers,  *)
(* in the order of their creation.                                         *)
(***************************************************************************)
EXTENDS Naturals, Sequences, SequencesExt, FiniteSetsExt

CONSTANTS FuncTypes,   \* the types functions are declared with
          BlockTypes,  \* the types blocks are declared with
          Shapes,      \* what opcodes without control flow pop and push
          TableSizes,  \* numbers of targets of a br_table, default included
          MaxOpen,     \* bound: open blocks
          MaxOperands, \* bound: operands of all open blocks
          None

ValueTypes == {"i32", "i64"}
Values == [type : {"i1", "i32", "i64"}, const : BOOLEAN]

ASSUME ControlAssumption ==
  /\ FuncTypes \cup BlockTypes \subseteq [params : Seq(ValueTypes), results : Seq(ValueTypes)]
  /\ Shapes \subseteq [pops : Seq(ValueTypes), pushes : Seq(Values)]
  /\ TableSizes \subseteq Nat \ {0}
  /\ MaxOpen \in Nat \ {0} /\ MaxOperands \in Nat
  /\ None \notin Nat

VARIABLES blocks,   \* block_stack: the open AOTBlocks, the innermost last
          types,    \* the operand types of each open block in the type system
          ir,       \* the basic blocks of the LLVM function
          at,       \* the basic block the builder appends to
          deleted,  \* the basic blocks removed again
          trap,     \* got_exception_block
          sandbox,  \* ~no_sandbox_mode
          outcome   \* "compiling", "compiled", "failed" or "crashed"

vars == <<blocks, types, ir, at, deleted, trap, sandbox, outcome>>

-----------------------------------------------------------------------------
(* Basic blocks: ends counts terminators, preds has one entry per edge,     *)
(* incoming one per value that the phis have, by the block it comes from,   *)
(* and late says that an instruction follows the terminator.                *)

BasicBlock == [ends |-> 0, preds |-> << >>, phis |-> 0, incoming |-> << >>,
               late |-> FALSE]

Terminate(g, b) == [g EXCEPT ![b].ends = @ + 1]
Edge(g, b, from) == [g EXCEPT ![b].preds = Append(@, from)]

\* CREATE_RESULT_VALUE_PHIS and the creation of parameter phis: n of them, once.
WithPhis(b, n) == IF b.phis # 0 THEN b ELSE [b EXCEPT !.phis = n]
\* ADD_TO_RESULT_PHIS and ADD_TO_PARAM_PHIS, for each phi.
AddIncoming(b, from) == [b EXCEPT !.incoming = Append(@, from)]
Passes(g, b, n, from) ==
  Edge([g EXCEPT ![b] = AddIncoming(WithPhis(@, n), from)], b, from)

-----------------------------------------------------------------------------
(* Open blocks *)

\* AOTBlock; past is *p_frame_ip > wasm_code_else, in an if with an else.
AOTBlock(label, type, hasElse) ==
  [label |-> label, params |-> type.params, results |-> type.results,
   hasElse |-> hasElse, past |-> FALSE, skipElse |-> FALSE, reachable |-> FALSE,
   entry |-> None, else |-> None, end |-> None, values |-> << >>]

Top == Len(blocks)
Operands == blocks[Top].values
LabelTypes(b) == IF b.label = "loop" THEN b.params ELSE b.results
Phi(t) == [type |-> t, const |-> FALSE]
Phis(ts) == [i \in DOMAIN ts |-> Phi(ts[i])]

\* The function's own parameters are locals, never operands.
Init == \E f \in FuncTypes :
          /\ blocks = <<[AOTBlock("function", [f EXCEPT !.params = << >>], FALSE)
                           EXCEPT !.entry = 1]>>
          /\ types = << << >> >>
          /\ ir = <<BasicBlock>>
          /\ at = 1 /\ deleted = {} /\ trap = None
          /\ sandbox \in BOOLEAN
          /\ outcome = "compiling"

\* POP: can values of these types be popped from the innermost block?
Compatible(v, t) == v.type = t \/ (v.type = "i1" /\ t = "i32")
Pops(s, ts) ==
  /\ Len(ts) <= Len(s)
  /\ \A i \in 1 .. Len(ts) : Compatible(s[Len(s) - Len(ts) + i], ts[i])
Rest(s, ts) == SubSeq(s, 1, Len(s) - Len(ts))
\* The values popped, an i1 extended to the i32 it was popped as.
PoppedLost(s, ts) == << >>
Popped(s, ts) ==
  [i \in 1 .. Len(ts) |-> [s[Len(s) - Len(ts) + i] EXCEPT !.type = ts[i]]]

Compiling == outcome = "compiling"
Fail == outcome' = "failed" /\ UNCHANGED <<blocks, types, ir, at, deleted, trap, sandbox>>
Compiles(ok, Effect) == IF ok THEN Effect ELSE Fail

\* What the type system says of the operands of the innermost block.
Typed(ts) == Len(ts) <= Len(types[Top]) /\ IsSuffix(ts, types[Top])
\* Bound: the operands there are, and at least the results of an open block.
RoomFor(ts, us) ==
  Len(FlattenSeq(types)) - Len(ts) + Len(us) <= MaxOperands
TypesAfter(ts, us) == [types EXCEPT ![Top] = Rest(@, ts) \o us]

-----------------------------------------------------------------------------
(* handle_next_reachable_block, called with the stack bs and the function g *)

ElsePending(b) == b.label = "if" /\ b.else # None /\ ~b.past
Resumes(b) == b.reachable \/ ElsePending(b)
\* The innermost block in which code goes on, 0 if there is none.
Innermost(bs) == Max({0} \cup {k \in DOMAIN bs : Resumes(bs[k])})

\* The if blocks left behind take their end blocks with them.
LeftBehindKept(bs, n) == {}
LeftBehind(bs, n) ==
  {bs[k].end : k \in {k \in n + 1 .. Len(bs) : bs[k].label = "if"}} \ {None}

EnterElseKeeps(bs, n, g) ==
  LET b == bs[n] IN
  /\ blocks' = Append(SubSeq(bs, 1, n - 1),
                      [b EXCEPT !.past = TRUE, !.values = @ \o Phis(b.params)])
  /\ types' = Append(SubSeq(types, 1, n - 1), b.params)
  /\ ir' = g /\ at' = b.else /\ UNCHANGED outcome

EnterElse(bs, n, g) ==
  LET b == bs[n] IN
  /\ blocks' = Append(SubSeq(bs, 1, n - 1),
                      [b EXCEPT !.past = TRUE, !.values = Phis(b.params)])
  /\ types' = Append(SubSeq(types, 1, n - 1), b.params)
  /\ ir' = g /\ at' = b.else /\ UNCHANGED outcome

ReturnsMissing(g, b) == g
Returns(g, b) == Terminate(g, b)
LeaveBlock(bs, n, g) ==
  LET b == bs[n]
      out == SubSeq(bs, 1, n - 1)
  IN  /\ at' = b.end
      /\ IF b.label = "function"
         THEN /\ outcome' = "compiled" /\ blocks' = << >> /\ types' = << >>
              /\ ir' = Returns(g, b.end)
         ELSE /\ blocks' = [out EXCEPT ![n - 1].values = @ \o Phis(b.results)]
              /\ types' = [SubSeq(types, 1, n - 1) EXCEPT ![n - 1] = @ \o b.results]
              /\ ir' = g /\ UNCHANGED outcome

NextReachable(bs, g) ==
  LET n == Innermost(bs)
  IN  /\ deleted' = deleted \cup LeftBehind(bs, n)
      /\ IF n = 0 THEN /\ outcome' = "compiled" /\ blocks' = << >> /\ types' = << >>
                       /\ ir' = g /\ UNCHANGED at
         ELSE IF ElsePending(bs[n]) THEN EnterElse(bs, n, g) ELSE LeaveBlock(bs, n, g)

-----------------------------------------------------------------------------
(* Exceptions: a branch to got_exception, or a return without the sandbox.  *)

Trap(g) == IF trap = None THEN Len(g) + 1 ELSE trap
WithTrap(g) ==
  IF trap # None THEN g
  ELSE Append(g, [BasicBlock EXCEPT !.ends = 1, !.phis = 1])
Raise(g) == IF sandbox THEN Passes(WithTrap(g), Trap(g), 1, at) ELSE g
RaiseAlwaysBlock ==
  /\ trap' = Trap(ir)
  /\ NextReachable(blocks, Terminate(Raise(ir), at))
RaiseAlways ==
  /\ trap' = IF sandbox THEN Trap(ir) ELSE trap
  /\ NextReachable(blocks, Terminate(Raise(ir), at))

-----------------------------------------------------------------------------
(* Opcodes without control flow *)

\* What check_memory_overflow and the like add: the rest goes on in a new block.
Operate(op, checked) ==
  /\ Compiling /\ Typed(op.pops) /\ RoomFor(op.pops, op.pushes)
  /\ Compiles(Pops(Operands, op.pops),
       LET g == Append(Raise(ir), BasicBlock)
           n == Len(g)
       IN
       /\ blocks' = [blocks EXCEPT ![Top].values = Rest(@, op.pops) \o op.pushes]
       /\ types' = TypesAfter(op.pops, [i \in DOMAIN op.pushes |->
             IF op.pushes[i].type = "i1" THEN "i32" ELSE op.pushes[i].type])
       /\ IF checked THEN /\ ir' = Terminate(Edge(g, n, at), at)
                          /\ at' = n /\ trap' = Trap(ir)
                     ELSE UNCHANGED <<ir, at, trap>>
       /\ UNCHANGED <<deleted, sandbox, outcome>>)

Unreachable == Compiling /\ RaiseAlways /\ UNCHANGED sandbox

-----------------------------------------------------------------------------
(* block, loop and if *)

\* The kinds of condition LLVM can hand back for a value.
Conditions(v) == IF v.const THEN {"zero", "one", "undef"} ELSE {"unknown"}

\* push_aot_block_to_stack_and_pass_params: the operands ts are popped, the
\* parameters among them go to the block x and, when it is another one, to y,
\* and b becomes the innermost block.
\* The parameter phis are created in the entry block, be there one or not.
Enter(b, ts, g, x, y, start) ==
  LET n == Len(b.params)
      h == IF x = y THEN Passes(g, x, n, at) ELSE Passes(Passes(g, x, n, at), y, n, at)
  IN  IF n > 0 /\ b.entry = None
      THEN outcome' = "crashed" /\ UNCHANGED <<blocks, types, ir, at, deleted>>
      ELSE /\ blocks' = Append([blocks EXCEPT ![Top].values = Rest(@, ts)],
                               [b EXCEPT !.values = Phis(b.params)])
           /\ types' = Append(TypesAfter(ts, << >>), b.params)
           /\ ir' = Terminate(h, at) /\ at' = start /\ UNCHANGED <<deleted, outcome>>

OpenBlock(label, type) ==
  LET n == Len(ir) + 1
      b == [AOTBlock(label, type, FALSE) EXCEPT !.entry = n]
  IN  /\ Compiling /\ Top < MaxOpen /\ Typed(type.params) /\ RoomFor(type.params, type.results)
      /\ Compiles(Pops(Operands, type.params),
                  Enter(b, type.params, Append(ir, BasicBlock), n, n, n))
      /\ UNCHANGED <<trap, sandbox>>

\* A condition that is not a constant.  Without an else the parameters go to
\* the end block as results; creating its phis after the first value popped
\* moves the builder behind the branch, where the other i1 values are extended.
ExtendsLate(ts) ==
  \E i \in 1 .. Len(ts) - 1 :
    LET v == Operands[Len(Operands) - 1 - Len(ts) + i]
    IN  v.type = "i1" /\ ~v.const
IfUnknown(b, ts) ==
  LET n == Len(ir) + 1
      blk == [b EXCEPT !.entry = n, !.end = n + 1, !.reachable = ~b.hasElse,
                       !.else = IF b.hasElse THEN n + 2 ELSE None]
      g == ir \o [i \in 1 .. IF b.hasElse THEN 3 ELSE 2 |-> BasicBlock]
  IN  Enter(blk, ts,
            [g EXCEPT ![at].late = ~b.hasElse /\ ExtendsLate(b.params)],
            n, IF b.hasElse THEN n + 2 ELSE n + 1, n)

IfTrue(b, ts) ==
  LET n == Len(ir) + 1
  IN  Enter([b EXCEPT !.entry = n, !.skipElse = TRUE], ts,
            Append(ir, BasicBlock), n, n, n)

\* Only the else branch is compiled; without one the whole block is skipped.
IfFalse(b, ts) ==
  LET n == Len(ir) + 1
  IN  IF b.hasElse
      THEN Enter([b EXCEPT !.else = n, !.past = TRUE], ts,
                 Append(ir, BasicBlock), n, n, n)
      ELSE /\ blocks' = [blocks EXCEPT ![Top].values = Rest(@, <<"i32">>)]
           /\ types' = TypesAfter(<<"i32">>, << >>)
           /\ UNCHANGED <<ir, at, deleted, outcome>>

If(type, hasElse) ==
  LET ts == Append(type.params, "i32")
      b  == AOTBlock("if", type, hasElse)
  IN  /\ Compiling /\ Top < MaxOpen /\ Typed(ts) /\ RoomFor(ts, type.results)
      /\ hasElse \/ type.params = type.results
      /\ Compiles(Pops(Operands, ts),
           \E c \in Conditions(Last(Operands)) :
             \/ c = "unknown" /\ IfUnknown(b, ts) /\ UNCHANGED trap
             \/ c = "one"  /\ IfTrue(b, ts)  /\ UNCHANGED trap
             \/ c = "zero" /\ IfFalse(b, ts) /\ UNCHANGED trap
             \/ c = "undef" /\ RaiseAlways)
      /\ UNCHANGED sandbox

-----------------------------------------------------------------------------
(* Branches.  f is the block stack and the function being changed.          *)

Here == [blocks |-> blocks, ir |-> ir]

\* get_target_block counts blocks from the innermost one.
Target(d) == Top - d
Depths == 0 .. Top - 1
Taken(d) == LabelTypes(blocks[Target(d)])

FlaggedInIf(b, e) == [b EXCEPT !.end = e, !.reachable = @ \/ b.hasElse]
Flagged(b, e) == [b EXCEPT !.end = e, !.reachable = TRUE]

\* The end block of block k is created when the first branch to it is.
ToEnd(f, k) ==
  LET b   == f.blocks[k]
      new == b.end = None
      e   == IF new THEN Len(f.ir) + 1 ELSE b.end
  IN  [blocks |-> [f.blocks EXCEPT ![k] = Flagged(b, e)],
       ir |-> Passes(IF new THEN Append(f.ir, BasicBlock) ELSE f.ir,
                     e, Len(b.results), at)]
ToEntryUnpassed(f, k) == [f EXCEPT !.ir = Edge(@, f.blocks[k].entry, at)]
ToEntry(f, k) ==
  [f EXCEPT !.ir = Passes(@, f.blocks[k].entry, Len(f.blocks[k].params), at)]
BranchTo(f, k) ==
  IF f.blocks[k].label = "loop" THEN ToEntry(f, k) ELSE ToEnd(f, k)

\* Branches to the blocks at these depths, one after the other.
BranchToAll(ds) ==
  LET f[i \in 0 .. Len(ds)] == IF i = 0 THEN Here ELSE BranchTo(f[i - 1], Target(ds[i]))
  IN  f[Len(ds)]

Jumps(f) == NextReachable(f.blocks, Terminate(f.ir, at))

Else ==
  LET b == blocks[Top]
      f == ToEnd(Here, Top)
  IN  /\ Compiling /\ b.hasElse /\ ~b.past /\ types[Top] = b.results
      /\ Compiles((b.skipElse \/ b.else # None) /\ Pops(Operands, b.results),
           IF b.skipElse
           THEN Jumps([f EXCEPT !.blocks[Top].past = TRUE])
           ELSE EnterElse(f.blocks, Top, Terminate(f.ir, at)) /\ UNCHANGED deleted)
      /\ UNCHANGED <<trap, sandbox>>

End ==
  LET b == blocks[Top]
  IN  /\ Compiling
      /\ b.hasElse => b.past
      /\ types[Top] = b.results
      /\ Compiles(Pops(Operands, b.results), Jumps(ToEnd(Here, Top)))
      /\ UNCHANGED <<trap, sandbox>>

Br(d) ==
  /\ Compiling /\ Typed(Taken(d))
  /\ Compiles(Pops(Operands, Taken(d)), Jumps(BranchTo(Here, Target(d))))
  /\ UNCHANGED <<trap, sandbox>>

\* The values passed on stay on the stack for the code after the br_if.
BrIfUnknown(d) ==
  LET s == Rest(Operands, <<"i32">>)
      n == Len(ir) + 1
      f == BranchTo([Here EXCEPT !.ir = Append(@, BasicBlock)], Target(d))
  IN  /\ blocks' = [f.blocks EXCEPT ![Top].values =
                      Rest(s, Taken(d)) \o Popped(s, Taken(d))]
      /\ ir' = Terminate(Edge(f.ir, n, at), at) /\ at' = n
      /\ types' = TypesAfter(<<"i32">>, << >>) /\ UNCHANGED <<deleted, trap, outcome>>

BrIf(d) ==
  /\ Compiling /\ Typed(Append(Taken(d), "i32"))
  /\ Compiles(Pops(Operands, Append(Taken(d), "i32")),
       \E c \in Conditions(Last(Operands)) :
         \/ c = "unknown" /\ BrIfUnknown(d)
         \/ c = "one" /\ Jumps(BranchTo(Here, Target(d))) /\ UNCHANGED trap
         \/ /\ c = "zero"
            /\ blocks' = [blocks EXCEPT ![Top].values = Rest(@, <<"i32">>)]
            /\ types' = TypesAfter(<<"i32">>, << >>)
            /\ UNCHANGED <<ir, at, deleted, trap, outcome>>
         \/ c = "undef" /\ RaiseAlways)
  /\ UNCHANGED sandbox

\* One edge for each entry of the table, the default included; a constant
\* index leaves one of them.
BrTable(ds) ==
  LET v == Last(Operands) IN
  /\ Compiling
  /\ \A i \in DOMAIN ds : Typed(Append(Taken(ds[i]), "i32"))
  /\ Compiles(\A i \in DOMAIN ds : Pops(Operands, Append(Taken(ds[i]), "i32")),
       \/ /\ ~v.const
          /\ Jumps(BranchToAll(ds))
          /\ UNCHANGED trap
       \/ /\ v.const
          /\ \E i \in DOMAIN ds : Jumps(BranchTo(Here, Target(ds[i])))
          /\ UNCHANGED trap
       \/ v.const /\ RaiseAlways)
  /\ UNCHANGED sandbox

Return ==
  /\ Compiling /\ Typed(blocks[1].results)
  /\ Compiles(Pops(Operands, blocks[1].results),
              NextReachable(blocks, Terminate(ir, at)))
  /\ UNCHANGED <<trap, sandbox>>

Next == \/ \E op \in Shapes, checked \in {FALSE, sandbox} : Operate(op, checked)
        \/ Unreachable
        \/ \E t \in BlockTypes, l \in {"block", "loop"} : OpenBlock(l, t)
        \/ \E t \in BlockTypes, e \in BOOLEAN : If(t, e)
        \/ Else
        \/ End
        \/ \E d \in Depths : Br(d)
        \/ \E d \in Depths : BrIf(d)
        \/ \E n \in TableSizes : \E ds \in [1 .. n -> Depths] : BrTable(ds)
        \/ Return

Spec == Init /\ [][Next]_vars

-----------------------------------------------------------------------------
(* Properties *)

Ids == {None} \cup DOMAIN ir
\* Types: every open block and basic block is well formed.
TypeOK ==
  /\ \A k \in DOMAIN blocks :
       LET b == blocks[k] IN
       /\ b.label \in {"function", "block", "loop", "if"}
       /\ b.values \in Seq(Values)
       /\ b.entry \in Ids /\ b.else \in Ids /\ b.end \in Ids
       /\ (k = 1) <=> (b.label = "function")
  /\ types \in Seq(Seq(ValueTypes))
  /\ at \in DOMAIN ir /\ deleted \subseteq DOMAIN ir /\ trap \in Ids
  /\ sandbox \in BOOLEAN
  /\ outcome \in {"compiling", "compiled", "failed", "crashed"}

\* A body the loader accepted never makes the compiler give up: every value
\* popped is there, in the innermost block, and has the type asked for.
NeverFails == outcome # "failed"

\* Across skipped code and both branches of an if, the operands of every open
\* block are those of the type system, i1 standing for i32.
OperandsAgree ==
  /\ Len(types) = Len(blocks)
  /\ \A k \in DOMAIN blocks :
       /\ Len(blocks[k].values) = Len(types[k])
       /\ Pops(blocks[k].values, types[k])

\* Every phi has one incoming value for each edge that reaches its block, from
\* the block the edge comes from.
PhisMatchEdges ==
  \A b \in DOMAIN ir \ deleted : ir[b].phis > 0 => ir[b].incoming = ir[b].preds

\* Blocks that code can still be added to.
Pending ==
  (IF outcome = "compiled" THEN {} ELSE {at})
    \cup UNION {{blocks[k].else, blocks[k].end} : k \in DOMAIN blocks}

\* A basic block ends once, and only a block that code will still be added to
\* has not ended.
EndsOnce ==
  /\ TypeOK
  /\ \A b \in DOMAIN ir :
       /\ ir[b].ends <= 1
       /\ ir[b].ends = 0 => b \in deleted \cup Pending

\* Only code that can be reached is emitted, and the block removed as
\* unreachable is one no branch names.
ReachedOnly ==
  \A b \in DOMAIN ir \ {1} :
    /\ b \in deleted => ir[b].preds = << >>
    /\ b \notin deleted \cup Pending => ir[b].preds # << >>

\* is_reachable of an open block says that an edge leads to its end block: the
\* code after the block is compiled exactly when something jumps there.
ReachableExact ==
  \A k \in DOMAIN blocks :
    blocks[k].reachable <=>
      blocks[k].end # None /\ ir[blocks[k].end].preds # << >>

\* The comments in push_aot_block_to_stack_and_pass_params allow for an if
\* whose entry block was not created: compiling it does not crash.
EntryMayBeMissing == outcome # "crashed"

\* A popped i1 is never extended after the branch of its block.
NothingAfterBranch == \A b \in DOMAIN ir : ~ir[b].late
=============================================================================
