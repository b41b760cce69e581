---------------------------- MODULE MCAotControl ----------------------------
(* Functions with up to two blocks open inside them and two operands each.  *)
EXTENDS AotControl

T(ps, rs) == [params |-> ps, results |-> rs]
MCFuncTypes == {T(<< >>, <<"i64">>)}
MCBlockTypes == {T(<< >>, << >>), T(<<"i32">>, <<"i32">>), T(<< >>, <<"i64">>)}
MCPairTypes == {T(<<"i32", "i32">>, <<"i32", "i32">>)}
MCPushed == {[type |-> "i1", const |-> FALSE], [type |-> "i32", const |-> FALSE],
             [type |-> "i32", const |-> TRUE], [type |-> "i64", const |-> FALSE]}
MCShapes ==
  {[pops |-> ts, pushes |-> << >>] : ts \in {<<"i32">>, <<"i64">>}}
    \cup {[pops |-> << >>, pushes |-> <<v>>] : v \in MCPushed}
MCTableSizes == {2}
MCMaxOpen == 3
MCMaxOperands == 2
MCPairOperands == 3

\* The basic blocks behind the compiler matter no more once they are sound, and
\* how many edges reach a block does not matter when each phi has them all.
Sound == PhisMatchEdges /\ EndsOnce /\ ReachedOnly
Reached(b) == b # None /\ ir[b].preds # << >>
OpenView(b) ==
  [b EXCEPT !.entry = @ = None, !.else = @ = None, !.end = <<@ = None, Reached(@)>>]
StackView ==
  <<[k \in DOMAIN blocks |-> OpenView(blocks[k])], types, sandbox,
    outcome, Sound, NothingAfterBranch>>
=============================================================================
