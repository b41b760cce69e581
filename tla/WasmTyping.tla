----------------------------- MODULE WasmTyping -----------------------------
(***************************************************************************)
(* What validating a function body promises: after every opcode the open   *)
(* blocks and the types of the operands are those of the WebAssembly type  *)
(* system, an opcode is refused exactly when it has no typing, and a body  *)
(* is accepted when its last block ends.  Operands are whole values here;  *)
(* Unknown is an operand of unreachable code about which nothing is known. *)
(***************************************************************************)
EXTENDS WasmTypes

CONSTANT Unknown

VARIABLES vals,     \* the types of the operands, the top last
          ctrls,    \* the open blocks, the innermost last
          verdict,  \* "checking", "accepted", "rejected" or "limit"
          last      \* the opcode looked at last

vars == <<vals, ctrls, verdict, last>>

Init == \E f \in FuncTypes :
          /\ vals = << >>
          /\ ctrls = <<[label |-> "function", params |-> << >>, results |-> f.results,
                        height |-> 0, unreachable |-> FALSE]>>
          /\ verdict = "checking"
          /\ last = [op |-> "none"]

Top == ctrls[Len(ctrls)]
Depth(n) == ctrls[Len(ctrls) - n]
LabelTypes(b) == IF b.label = "loop" THEN b.params ELSE b.results

\* The operands the innermost block may use, and whether ts can be taken from
\* their top: missing ones are found in unreachable code only.
Operands == SubSeq(vals, Top.height + 1, Len(vals))
Fewer(m, n) == IF m <= n THEN m ELSE n
Takes(s, ts) ==
  /\ Len(s) >= Len(ts) \/ Top.unreachable
  /\ \A i \in 0 .. Fewer(Len(s), Len(ts)) - 1 :
       s[Len(s) - i] \in {ts[Len(ts) - i], Unknown}
Left(s, ts) == SubSeq(s, 1, Len(s) - Fewer(Len(s), Len(ts)))
TakesAll(s, ts) == Takes(s, ts) /\ Left(s, ts) = << >>

Below == SubSeq(vals, 1, Top.height)
Outer == SubSeq(ctrls, 1, Len(ctrls) - 1)

Go(s, cs) == verdict' = "checking" /\ vals' = s /\ ctrls' = cs
Refuse == verdict' = "rejected" /\ vals' = << >> /\ ctrls' = << >>
Typed(cond, s, cs) == IF cond THEN Go(s, cs) ELSE Refuse

\* Nothing after this opcode is reached.
Unreached(cond) == Typed(cond, Below, Append(Outer, [Top EXCEPT !.unreachable = TRUE]))

Plain(op) == Typed(op.legal /\ Takes(Operands, op.sig.pops),
                   Below \o Left(Operands, op.sig.pops) \o op.sig.pushes, ctrls)

Drop == Typed(Operands # << >> \/ Top.unreachable,
              Below \o SubSeq(Operands, 1, Len(Operands) - 1), ctrls)

\* Both alternatives have one type; it is Unknown when nothing is known of either.
SelectTypes == {t \in ValueTypes \cup {Unknown} : Takes(Operands, <<t, t, "i32">>)}
Select ==
  LET t == IF Unknown \in SelectTypes THEN Unknown ELSE CHOOSE u \in SelectTypes : TRUE
  IN  Typed(SelectTypes # {},
            Below \o Append(Left(Operands, <<"i32", "i32", "i32">>), t), ctrls)

Open(label, type) ==
  LET ts == IF label = "if" THEN Append(type.params, "i32") ELSE type.params
      s  == Below \o Left(Operands, ts)
  IN  Typed(Takes(Operands, ts), s \o type.params,
            Append(ctrls, [label |-> label, params |-> type.params,
                           results |-> type.results, height |-> Len(s),
                           unreachable |-> FALSE]))

Else == Typed(Top.label = "if" /\ TakesAll(Operands, Top.results),
              Below \o Top.params,
              Append(Outer, [Top EXCEPT !.label = "else", !.unreachable = FALSE]))

\* An if without else gives back its parameters.
End(more) ==
  IF /\ TakesAll(Operands, Top.results)
     /\ Top.label = "if" => Top.params = Top.results
     /\ Len(ctrls) = 1 => ~more
  THEN /\ verdict' = IF Len(ctrls) = 1 THEN "accepted" ELSE "checking"
       /\ vals' = IF Len(ctrls) = 1 THEN << >> ELSE Below \o Top.results
       /\ ctrls' = Outer
  ELSE Refuse

Branch(n) == Unreached(n < Len(ctrls) /\ Takes(Operands, LabelTypes(Depth(n))))

BranchIf(n) ==
  LET s == Left(Operands, <<"i32">>)
      ts == LabelTypes(Depth(n))
  IN  Typed(n < Len(ctrls) /\ Takes(Operands, Append(ts, "i32")),
            Below \o Left(s, ts) \o ts, ctrls)

BranchTable(ns) ==
  Unreached(/\ Takes(Operands, <<"i32">>)
            /\ \A i \in 1 .. Len(ns) : ns[i] < Len(ctrls)
            /\ \A i \in 1 .. Len(ns) :
                 /\ Len(LabelTypes(Depth(ns[i]))) = Len(LabelTypes(Depth(ns[Len(ns)])))
                 /\ Takes(Left(Operands, <<"i32">>), LabelTypes(Depth(ns[i]))))

Return == Unreached(Takes(Operands, ctrls[1].results))

\* A call that takes the place of the return.
TailCall(pops, results) == Unreached(Takes(Operands, pops) /\ results = ctrls[1].results)

Step(op) ==
  CASE op.op = "plain"  -> Plain(op)
    [] op.op = "unreachable" -> Unreached(TRUE)
    [] op.op = "drop"   -> Drop
    [] op.op = "select" -> Select
    [] op.op \in {"block", "loop", "if"} -> Open(op.op, op.type)
    [] op.op = "else"   -> Else
    [] op.op = "end"    -> End(op.more)
    [] op.op = "br"     -> Branch(op.depth)
    [] op.op = "br_if"  -> BranchIf(op.depth)
    [] op.op = "br_table" -> BranchTable(op.depths)
    [] op.op = "return" -> Return
    [] op.op = "return_call" -> TailCall(op.pops, op.results)
    [] OTHER            -> Refuse

\* An implementation may give up on a body that is too large for it.
GiveUp == verdict' = "limit" /\ vals' = << >> /\ ctrls' = << >>

Next == verdict = "checking" /\ (Step(last') \/ GiveUp)

Spec == Init /\ [][Next]_vars
=============================================================================
