----------------------------- MODULE SourceFlow ----------------------------
(***************************************************************************)
(* What C99 says about the order in which the statements of a function are *)
(* executed (6.8), as a flow graph that grows while the function is read.  *)
(* There are no blocks and no terminators here: pend is the set of ends    *)
(* from which control arrives at the point that has been read up to.       *)
(*                                                                         *)
(* It is the abstract specification of ControlFlow: module FlowCheck runs  *)
(* the two over the same statements, and FlowGraph compares the graphs.    *)
(***************************************************************************)
EXTENDS Integers, Sequences

VARIABLES
  n,     (* statements read so far in this function; shared with the reader *)
  open,  (* the enclosing statements, outermost first                       *)
  pend,  (* the ends that lead to the current point                         *)
  flow   (* the flow graph: pairs of an end and the node it leads to        *)

(* A node is an evaluation: a statement and a role in it.  Nodes with the  *)
(* role "head" evaluate nothing; they are where a loop without a test      *)
(* before its body starts again.                                           *)
Node(id, part) == <<id, part>>
Entry == Node(0, "entry")
Exit  == Node(0, "exit")

(* An end is a node and the way control leaves it.                         *)
End(node, label) == <<node, label>>

Lead(ends, node) == {<<e, node>> : e \in ends}

Enclosed(kind) ==
  [kind |-> kind, id |-> n + 1, back |-> Entry, brk |-> {}, cont |-> {},
   held |-> {}, flag |-> FALSE]

Inner == open[Len(open)]

Innermost(kinds) ==
  CHOOSE i \in 1..Len(open) :
    /\ open[i].kind \in kinds
    /\ \A j \in (i + 1)..Len(open) : open[j].kind \notin kinds

Within(kinds) == \E i \in 1..Len(open) : open[i].kind \in kinds

Begin(frame) == open' = Append(open, frame)
Finish(kind) == /\ open # << >>
                /\ Inner.kind = kind
                /\ open' = SubSeq(open, 1, Len(open) - 1)

-----------------------------------------------------------------------------
EnterFn ==
  /\ open' = << >>
  /\ pend' = {End(Entry, "next")}
  /\ flow' = {}

(* Falling off the end of the body returns.                                *)
ExitFn ==
  /\ open = << >>
  /\ flow' = flow \cup Lead(pend, Exit)
  /\ pend' = {}
  /\ UNCHANGED open

Expression(full) ==
  LET node == Node(n + 1, "expr")
  IN  /\ IF full THEN /\ flow' = flow \cup Lead(pend, node)
                      /\ pend' = {End(node, "next")}
                 ELSE UNCHANGED <<flow, pend>>
      /\ UNCHANGED open

BreakOut ==
  /\ Within({"while", "do", "for", "switch"})
  /\ open' = [open EXCEPT ![Innermost({"while", "do", "for", "switch"})].brk
                            = @ \cup pend]
  /\ pend' = {}
  /\ UNCHANGED flow

ContinueLoop ==
  /\ Within({"while", "do", "for"})
  /\ open' = [open EXCEPT ![Innermost({"while", "do", "for"})].cont
                            = @ \cup pend]
  /\ pend' = {}
  /\ UNCHANGED flow

ReturnFromFn ==
  /\ flow' = flow \cup Lead(pend, Exit)
  /\ pend' = {}
  /\ UNCHANGED open

-----------------------------------------------------------------------------
(* 6.8.5.1: the test comes before each execution of the body.              *)
BeginWhile ==
  LET test == Node(n + 1, "test")
  IN  /\ Begin([Enclosed("while") EXCEPT !.back = test])
      /\ flow' = flow \cup Lead(pend, test)
      /\ pend' = {End(test, "true")}

EndWhile ==
  /\ Finish("while")
  /\ flow' = flow \cup Lead(pend \cup Inner.cont, Inner.back)
  /\ pend' = Inner.brk \cup {End(Inner.back, "false")}

(* 6.8.5.2: the test comes after each execution of the body.               *)
BeginDo ==
  LET head == Node(n + 1, "head")
  IN  /\ Begin([Enclosed("do") EXCEPT !.back = head])
      /\ flow' = flow \cup Lead(pend, head)
      /\ pend' = {End(head, "next")}

EndDo ==
  LET test == Node(Inner.id, "test")
  IN  /\ Finish("do")
      /\ flow' = flow \cup Lead(pend \cup Inner.cont, test)
                      \cup Lead({End(test, "true")}, Inner.back)
      /\ pend' = Inner.brk \cup {End(test, "false")}

(* 6.8.5.3: an omitted test is replaced by a nonzero constant.             *)
BeginFor(init, test, step) ==
  LET first == Node(n + 1, "init")
      back  == Node(n + 1, IF test THEN "test" ELSE "head")
      ready == IF init THEN {End(first, "next")} ELSE pend
  IN  /\ Begin([Enclosed("for") EXCEPT !.back = back, !.flag = step])
      /\ flow' = flow \cup (IF init THEN Lead(pend, first) ELSE {})
                      \cup Lead(ready, back)
      /\ pend' = {End(back, IF test THEN "true" ELSE "next")}

EndFor ==
  LET step  == Node(Inner.id, "step")
      ends  == pend \cup Inner.cont
      again == IF Inner.flag THEN {End(step, "next")} ELSE ends
  IN  /\ Finish("for")
      /\ flow' = flow \cup (IF Inner.flag THEN Lead(ends, step) ELSE {})
                      \cup Lead(again, Inner.back)
      /\ pend' = Inner.brk \cup (IF Inner.back[2] = "test"
                                   THEN {End(Inner.back, "false")} ELSE {})

-----------------------------------------------------------------------------
(* 6.8.4.1                                                                 *)
BeginIf ==
  LET test == Node(n + 1, "test")
  IN  /\ Begin([Enclosed("if") EXCEPT !.held = {End(test, "false")}])
      /\ flow' = flow \cup Lead(pend, test)
      /\ pend' = {End(test, "true")}

BeginElse ==
  /\ open # << >>
  /\ Inner.kind = "if"
  /\ open' = [open EXCEPT ![Len(open)].held = pend]
  /\ pend' = Inner.held
  /\ UNCHANGED flow

EndIf ==
  /\ Finish("if")
  /\ pend' = pend \cup Inner.held
  /\ UNCHANGED flow

(* 6.8.4.2: control jumps to the label that matches, else to default, else *)
(* past the switch; nothing arrives at the start of its body.              *)
BeginSwitch ==
  LET test == Node(n + 1, "test")
  IN  /\ Begin(Enclosed("switch"))
      /\ flow' = flow \cup Lead(pend, test)
      /\ pend' = {}

EndSwitch ==
  /\ Finish("switch")
  /\ pend' = pend \cup Inner.brk
               \cup (IF Inner.flag THEN {}
                     ELSE {End(Node(Inner.id, "test"), "default")})
  /\ UNCHANGED flow

(* There is at most one default label in a switch.                         *)
Label(isDefault) ==
  /\ Within({"switch"})
  /\ LET i == Innermost({"switch"})
     IN  /\ isDefault => ~open[i].flag
         /\ open' = [open EXCEPT ![i].flag = @ \/ isDefault]
         /\ pend' = pend \cup {End(Node(open[i].id, "test"),
                                   IF isDefault THEN "default" ELSE "case")}
  /\ UNCHANGED flow

=============================================================================
