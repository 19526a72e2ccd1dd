-------------------------- MODULE MC_ControlFlow ---------------------------
(* The functions of ControlFlow that show a block item behind a            *)
(* terminator: a return and an expression or a declaration, with labels,   *)
(* in every position.                                                      *)
EXTENDS ControlFlow

SwitchKinds == {"expr", "return", "compound", "switch", "case"}
=============================================================================
