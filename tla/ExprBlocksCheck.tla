-------------------------- MODULE ExprBlocksCheck --------------------------
(***************************************************************************)
(* ExprBlocks beside C99 6.5.13 to 6.5.15: which operands are evaluated,   *)
(* and what the value is.  The expression is known by the nodes in the     *)
(* order of the visits, which is the expression in prefix form.            *)
(***************************************************************************)
EXTENDS ExprBlocks, TLC

VARIABLE nodes

allvars == <<vars, nodes>>

Node(kind) == nodes' = Append(nodes, kind)

CheckInit == Init /\ nodes = << >>

CheckNext ==
  \/ VisitCall /\ Node("call")
  \/ \E op \in BinaryOps : EnterBinary(op) /\ Node(op)
  \/ \E op \in Logical : EnterLogical(op) /\ Node(op)
  \/ \E kind \in Ternary : EnterTernary(kind) /\ Node(kind)
  \/ /\ BinaryLhs \/ BinaryRhs \/ LogicalLhs \/ LogicalRhs
        \/ TernaryCond \/ TernaryLhs \/ TernaryRhs \/ Finish \/ Stopped
     /\ UNCHANGED nodes

CheckSpec == CheckInit /\ [][CheckNext]_allvars

-----------------------------------------------------------------------------
(* What every call returns is given.  A value is a number, and that of an  *)
(* operator "+" tells its operands apart.                                  *)
Valuations == [1..calls -> {0, 1}]
Combine(op, l, r) == IF op = "<" THEN IF l < r THEN 1 ELSE 0 ELSE 1 + l + 3 * r

Outcome(value, trace) == [value |-> value, trace |-> trace]
Stuck == Outcome(-1, << >>)

(* The node after the expression that begins at node p, and the number of  *)
(* the call at node p.                                                     *)
RECURSIVE After(_)
After(p) ==
  CASE nodes[p] = "call" -> p + 1
    [] nodes[p] \in Ternary -> After(After(After(p + 1)))
    [] OTHER -> After(After(p + 1))

CallAt(p) == Len(SelectSeq(SubSeq(nodes, 1, p), LAMBDA kind : kind = "call"))

Then(first, second) == [second EXCEPT !.trace = first.trace \o @]

(* C: value and calls, in order, of the expression at node p.              *)
RECURSIVE Meaning(_, _)
Meaning(returns, p) ==
  LET kind == nodes[p]
      l == Meaning(returns, p + 1)
      second == After(p + 1)
      r == Then(l, Meaning(returns, second))
  IN  CASE kind = "call" -> Outcome(returns[CallAt(p)], <<CallAt(p)>>)
        [] kind \in BinaryOps -> [r EXCEPT !.value = Combine(kind, l.value, @)]
        [] kind = "&&" -> IF l.value = 0 THEN l ELSE [r EXCEPT !.value = IF @ = 0 THEN 0 ELSE 1]
        [] kind = "||" -> IF l.value # 0 THEN [l EXCEPT !.value = 1]
                          ELSE [r EXCEPT !.value = IF @ = 0 THEN 0 ELSE 1]
        [] kind \in Ternary ->
             IF l.value # 0 THEN r ELSE Then(l, Meaning(returns, After(second)))

(* What the blocks do from instruction k of block b on, when control came  *)
(* from block from, and the instructions in the domain of known have been  *)
(* executed.  A use of another one, and the end of a block, are wrong.     *)
RECURSIVE Run(_, _, _, _, _, _)
Run(returns, b, k, from, known, trace) ==
  IF b \notin inserted \/ k \notin DOMAIN code[b] THEN Stuck
  ELSE LET i == code[b][k]
           Continue(v, t) == Run(returns, b, k + 1, from, (<<b, k>> :> v) @@ known, t)
           Goto(t) == Run(returns, t, 1, b, known, trace)
           IsKnown(v) == v \in DOMAIN known
           Entry == SelectSeq(i.in, LAMBDA e : e.b = from)
       IN  CASE i.op = "call" -> Continue(returns[i.id], Append(trace, i.id))
             [] i.op \in BinaryOps ->
                  IF IsKnown(i.l) /\ IsKnown(i.r)
                  THEN Continue(Combine(i.op, known[i.l], known[i.r]), trace)
                  ELSE Stuck
             [] i.op = "icmp" ->
                  IF IsKnown(i.v) THEN Continue(IF known[i.v] = 0 THEN 0 ELSE 1, trace) ELSE Stuck
             [] i.op = "zext" -> IF IsKnown(i.v) THEN Continue(known[i.v], trace) ELSE Stuck
             [] i.op = "phi" ->
                  IF Entry # << >> /\ IsKnown(Entry[1].v) THEN Continue(known[Entry[1].v], trace)
                  ELSE Stuck
             [] i.op = "br" -> Goto(i.t)
             [] i.op = "condbr" ->
                  IF ~IsKnown(i.v) THEN Stuck ELSE Goto(IF known[i.v] # 0 THEN i.t ELSE i.f)
             [] i.op = "ret" ->
                  IF isVoid THEN Outcome(0, trace)
                  ELSE IF IsKnown(i.v) THEN Outcome(known[i.v], trace) ELSE Stuck

(***************************************************************************)
(* The blocks evaluate the operands that C evaluates, in its order, and    *)
(* have its value, whatever the calls return; every value is computed on   *)
(* the way to its use, and control leaves the expression at one place.     *)
(* (visitLogicalOp, TernaryOp.)                                            *)
(***************************************************************************)
EvaluatesAsC ==
  pc = "done" => \A returns \in Valuations :
    LET meaning == Meaning(returns, 1)
    IN  Run(returns, 1, 1, 0, << >>, << >>) =
          IF isVoid THEN [meaning EXCEPT !.value = 0] ELSE meaning
=============================================================================
