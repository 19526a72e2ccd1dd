----------------------------- MODULE FlowCheck -----------------------------
(***************************************************************************)
(* ControlFlow and SourceFlow over the same program: each step is one step *)
(* of the visitor together with what the statement means in C.             *)
(***************************************************************************)
EXTENDS ControlFlow

VARIABLES open, pend, flow

S == INSTANCE SourceFlow

source == <<open, pend, flow>>

checkVars == <<vars, source>>

CheckInit == Init /\ open = << >> /\ pend = {} /\ flow = {}

CheckNext ==
  \/ EnterFnDef /\ S!EnterFn
  \/ ExitFnDef /\ S!ExitFn
  \/ \E full \in BOOLEAN : ExprStmt(full) /\ S!Expression(full)
  \/ Break /\ S!BreakOut
  \/ Continue /\ S!ContinueLoop
  \/ Return /\ S!ReturnFromFn
  \/ EnterCompoundStmt /\ UNCHANGED source
  \/ ExitCompoundStmt /\ UNCHANGED source
  \/ EnterWhile /\ S!BeginWhile
  \/ ExitWhile /\ S!EndWhile
  \/ EnterDoWhile /\ S!BeginDo
  \/ ExitDoWhile /\ S!EndDo
  \/ \E init, test, step \in BOOLEAN :
       EnterFor(init, test, step) /\ S!BeginFor(init, test, step)
  \/ ExitFor /\ S!EndFor
  \/ \E hasElse \in BOOLEAN : EnterIf(hasElse) /\ S!BeginIf
  \/ ExitIf /\ S!EndIf
  \/ ThenToElse /\ S!BeginElse
  \/ ExitElse /\ S!EndIf
  \/ EnterSwitch /\ S!BeginSwitch
  \/ ExitSwitch /\ S!EndSwitch
  \/ \E isDefault \in BOOLEAN : EnterCase(isDefault) /\ S!Label(isDefault)
  \/ ExitCase /\ UNCHANGED source

CheckSpec == CheckInit /\ [][CheckNext]_checkVars

-----------------------------------------------------------------------------
(* Properties                                                              *)

(* BlockItemList leaves out only statements that C never executes:         *)
(* whenever it would drop the next item, no end of the source leads there  *)
(* and the item cannot be a label that a switch around it jumps to.        *)
DroppedItemsAreDead ==
  phase = "body" /\ Top.kind = "list" /\ ~ItemVisited
    => pend = {} /\ ~S!Within({"switch"})

=============================================================================
