-------------------------- MODULE MCWasmValidator --------------------------
(* One type of each width.  Four cells hold two i64, or an i64 between two  *)
(* i32, or a v128; three blocks are a block in a block of the function, and *)
(* both limits are reached.  The block types have no types, an i64 passed   *)
(* through, and a parameter that grows into three cells of results.         *)
EXTENDS WasmValidator
MCValueTypes == {"i32", "i64", "v128"}
Type(ps, rs) == [params |-> ps, results |-> rs]
MCFuncTypes == {Type(<<"i64">>, <<"i32">>)}
MCBlockTypes == {Type(<< >>, << >>), Type(<<"i64">>, <<"i64">>),
                 Type(<<"i32">>, <<"i64", "i32">>)}
MCDepths == 0 .. 2
MCTableSizes == {2}
MCMaxCells == 4
MCMaxBlocks == 3
\* The opcode checked last does not bear on what follows.
StackView == <<ref, csp, verdict>>
=============================================================================
