----------------------------- MODULE FlowGraph -----------------------------
(***************************************************************************)
(* The flow graph that the basic blocks of a function describe, and that   *)
(* it is the one of the source when the function ends.                     *)
(***************************************************************************)
EXTENDS FlowCheck

-----------------------------------------------------------------------------
(* The flow graph of the emitted blocks.  Only the instructions up to the  *)
(* first terminator of a block are executed.                               *)

Executed(b) ==
  {k \in 1..Len(code[b]) : \A j \in 1..(k - 1) : ~IsTerminator(code[b][j])}

(* What control that enters block b evaluates first, if it ever does: it   *)
(* may run through blocks that hold nothing but a branch.                  *)
RECURSIVE FirstNodes(_, _)
FirstNodes(b, seen) ==
  IF code[b] = << >> \/ b \in seen THEN {}
  ELSE LET i == code[b][1]
       IN  CASE i.op = "br"   -> FirstNodes(i.t, seen \cup {b})
             [] i.op = "ret"  -> {S!Exit}
             [] OTHER         -> {S!Node(i.id, i.part)}

Arrive(node, label, blocks) ==
  UNION {S!Lead({S!End(node, label)}, m) :
           m \in UNION {FirstNodes(b, {}) : b \in blocks}}

(* The edges from the k-th instruction of b, an evaluation.                *)
EdgesFrom(b, k) ==
  LET node == S!Node(code[b][k].id, code[b][k].part)
      i    == code[b][k + 1]
  IN  CASE i.op = "eval" ->
             S!Lead({S!End(node, "next")}, S!Node(i.id, i.part))
        [] i.op = "br" -> Arrive(node, "next", {i.t})
        [] i.op = "condbr" -> Arrive(node, "true", {i.t})
                                \cup Arrive(node, "false", {i.f})
        [] i.op = "switch" -> Arrive(node, "case", cases[i.id])
                                \cup Arrive(node, "default", {dflt[i.id]})
        [] i.op = "ret" -> S!Lead({S!End(node, "next")}, S!Exit)

EmittedFlow ==
  Arrive(S!Entry, "next", {1})
    \cup UNION {EdgesFrom(b, k) : <<b, k>> \in
                  {<<c, j>> \in inserted \X (1..(2 * MaxStmts)) :
                     /\ j \in Executed(c)
                     /\ j < Len(code[c])
                     /\ ~IsTerminator(code[c][j])}}

(* The part of a flow graph that can be executed.                          *)
RECURSIVE Reached(_, _)
Reached(edges, nodes) ==
  LET more == nodes \cup {e[2] : e \in {d \in edges : d[1][1] \in nodes}}
  IN  IF more = nodes THEN nodes ELSE Reached(edges, more)

Live(edges) ==
  LET nodes == Reached(edges, {S!Entry})
  IN  {e \in edges : e[1][1] \in nodes}

(* The source graph without the nodes that evaluate nothing: a loop head   *)
(* leads to one node at most.                                              *)
RECURSIVE BehindHeads(_, _)
BehindHeads(node, seen) ==
  IF node[2] # "head" THEN {node}
  ELSE IF node \in seen THEN {}
  ELSE UNION {BehindHeads(e[2], seen \cup {node}) :
                e \in {d \in flow : d[1][1] = node}}

SourceGraph ==
  UNION {S!Lead({e[1]}, m) :
           <<e, m>> \in UNION {{e} \X BehindHeads(e[2], {}) :
                          e \in {d \in flow : d[1][1][2] # "head"}}}

-----------------------------------------------------------------------------
(* Properties                                                              *)

(* The lowering of a function means what its source means: every           *)
(* evaluation that can be executed, each way control can leave it, and     *)
(* what is evaluated next are the same in the emitted blocks as in C99     *)
(* 6.8, for every nesting of loops, branches, switches, labels and jumps.  *)
FlowPreserved == phase = "global" => Live(EmittedFlow) = Live(SourceGraph)

=============================================================================
