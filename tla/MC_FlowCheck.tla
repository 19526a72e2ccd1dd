---------------------------- MODULE MC_FlowCheck ----------------------------
(* The functions of FlowCheck that TLC explores: those of three statements *)
(* of all kinds, and those of five that are about switches, with labels in *)
(* every position: after jumps, in branches and in nested switches.        *)
EXTENDS FlowGraph

VARIABLE isLong (* the functions of this behavior are of the second sort   *)

AllKinds == {"expr", "break", "continue", "return", "compound", "while", "do",
             "for", "if", "ifelse", "switch", "case"}

MCInit == CheckInit /\ isLong \in BOOLEAN
MCSpec == MCInit /\ [][CheckNext /\ UNCHANGED isLong]_<<checkVars, isLong>>

Returned == \E b \in DOMAIN code : \E k \in DOMAIN code[b] : code[b][k].op = "ret"

InScope ==
  IF isLong
  THEN /\ Depth({"while", "do", "for", "if"}, Len(frames)) = 0
       /\ phase = "body" => ~Returned
  ELSE n <= 3
=============================================================================
