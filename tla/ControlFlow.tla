---------------------------- MODULE ControlFlow ----------------------------
(***************************************************************************)
(* How CodeGenModule lowers the statements of one C function to LLVM basic *)
(* blocks.  The visitor walks the syntax tree; every action below is one   *)
(* visit method, split where the method descends into a child statement,   *)
(* so that the call stack of the visitor is the variable frames.  Which    *)
(* statement comes next is chosen freely: a behaviour is one source        *)
(* program together with its lowering.                                     *)
(*                                                                         *)
(* An expression is abstracted to one "eval" instruction, named by the     *)
(* statement it belongs to and its role there.                             *)
(*                                                                         *)
(* A definition X_Wrong is a mistake one could make in X: no action uses   *)
(* it, and each is there to show which property rules it out.              *)
(***************************************************************************)
EXTENDS Integers, Sequences, FiniteSets

CONSTANTS
  Kinds,      (* the kinds of statement the source programs are made of     *)
  MaxStmts,   (* statements chosen freely in one function: bounds the model *)
  MaxDepth,   (* open statements nested in one another: bounds the model    *)
  MaxBlocks   (* basic blocks created in one function: bounds the model     *)

ASSUME BoundsAreNat ==
  MaxStmts \in Nat /\ MaxDepth \in Nat /\ MaxBlocks \in Nat \ {0}

VARIABLES
  phase,         (* "global" between functions, "body" inside a function    *)
  frames,        (* statements being visited, outermost first               *)
  n,             (* statements visited so far in this function              *)
  made,          (* blocks 1..made have been created                        *)
  inserted,      (* the blocks that are in the function's block list        *)
  code,          (* the instructions of every block                         *)
  cur,           (* builder_->GetInsertBlock()                              *)
  breakStack,    (* breakStack_                                             *)
  continueStack, (* continueStack_                                          *)
  currentSwitch, (* currentSwitch_, as the statement that created it        *)
  cases,         (* the blocks addCase attached to each switch              *)
  dflt           (* the default destination of each switch                  *)

vars == <<phase, frames, n, made, inserted, code, cur, breakStack,
          continueStack, currentSwitch, cases, dflt>>

Block    == 1..MaxBlocks
NoBlock  == 0
NoSwitch == 0
SwitchId == 1..MaxStmts

-----------------------------------------------------------------------------
(* Instructions.  Only what decides the flow of control is kept.           *)

Instr(op, id, part, t, f) ==
  [op |-> op, id |-> id, part |-> part, t |-> t, f |-> f]

Eval(id, part)   == Instr("eval", id, part, NoBlock, NoBlock)
Br(b)            == Instr("br", 0, "", b, NoBlock)
CondBr(id, t, f) == Instr("condbr", id, "test", t, f)
SwitchInst(id)   == Instr("switch", id, "test", NoBlock, NoBlock)
Ret              == Instr("ret", 0, "", NoBlock, NoBlock)

Instrs == [op   : {"eval", "br", "condbr", "switch", "ret"},
           id   : Nat,
           part : {"", "expr", "init", "test", "step"},
           t    : Block \cup {NoBlock},
           f    : Block \cup {NoBlock}]

IsTerminator(i) == i.op # "eval"

(* BasicBlock::getTerminator() # nullptr: the LAST instruction decides.    *)
EndsInTerminator(s) == s # << >> /\ IsTerminator(s[Len(s)])

Terminated(b) == EndsInTerminator(code[b])

Emit(c, b, i) == [c EXCEPT ![b] = Append(@, i)]

EmitIf(cond, c, b, i) == IF cond THEN Emit(c, b, i) ELSE c

FallThrough_Wrong(b) == Emit(code, cur, Br(b))

(* if (!builder_->GetInsertBlock()->getTerminator()) CreateBr(b)           *)
FallThrough(b) == EmitIf(~Terminated(cur), code, cur, Br(b))

-----------------------------------------------------------------------------
(* The call stack of the visitor.                                          *)

FrameKinds == {"list", "while", "do", "for", "if", "then", "else", "switch",
               "case"}

Frame(kind) == [kind |-> kind,    \* the statement, or the half of it, visited
                id   |-> n + 1,   \* its number
                done |-> FALSE,   \* its child statement has been visited
                head |-> NoBlock, \* where its back edge or its label leads
                next |-> NoBlock, \* the block it fills in after the child
                exit |-> NoBlock, \* the block that follows it
                flag |-> FALSE,   \* insertMergeBB / has a step / is default
                old  |-> NoSwitch] \* the currentSwitch_ a ScopeGuard saved

Frames == [kind : FrameKinds, id : Nat, done : BOOLEAN,
           head : Block \cup {NoBlock}, next : Block \cup {NoBlock},
           exit : Block \cup {NoBlock}, flag : BOOLEAN,
           old  : SwitchId \cup {NoSwitch}]

Top == frames[Len(frames)]

Pop(s) == SubSeq(s, 1, Len(s) - 1)

(* Starting a child marks the frame that asked for it; a block item list   *)
(* asks for any number of them.                                            *)
Asked == [frames EXCEPT ![Len(frames)].done = TRUE]

ItemVisited_Wrong == ~Terminated(cur)

(* The test of BlockItemList: no item after a terminator, unless some      *)
(* switch is open.                                                         *)
ItemVisited == ~Terminated(cur) \/ currentSwitch # NoSwitch

CanVisit ==
  /\ phase = "body"
  /\ \/ Top.kind = "list" /\ ItemVisited /\ n < MaxStmts
     \/ Top.kind # "list" /\ ~Top.done

(* A statement with children needs room for its blocks and its frame.      *)
CanOpen(kind, blocks) ==
  /\ CanVisit
  /\ kind \in Kinds
  /\ n < MaxStmts
  /\ Len(frames) < MaxDepth
  /\ made + blocks <= MaxBlocks

CanClose(kind) == phase = "body" /\ Top.kind = kind /\ Top.done

Open(frame) == frames' = Append(Asked, frame) /\ n' = n + 1

Close == frames' = Pop(frames) /\ UNCHANGED n

Leaf == CanVisit /\ frames' = Asked /\ n' = n + 1

-----------------------------------------------------------------------------
(* FnDef                                                                   *)

EnterFnDef ==
  /\ phase = "global"
  /\ phase' = "body"
  /\ frames' = <<[Frame("list") EXCEPT !.id = 0]>>
  /\ n' = 0
  /\ made' = 1
  /\ inserted' = {1}
  /\ code' = [b \in Block |-> << >>]
  /\ cur' = 1
  /\ cases' = [s \in SwitchId |-> {}]
  /\ dflt' = [s \in SwitchId |-> NoBlock]
  /\ UNCHANGED <<breakStack, continueStack, currentSwitch>>

ExitFnDef ==
  /\ phase = "body"
  /\ Len(frames) = 1
  /\ phase' = "global"
  /\ frames' = << >>
  /\ code' = EmitIf(~Terminated(cur), code, cur, Ret)
  /\ UNCHANGED <<n, made, inserted, cur, breakStack, continueStack,
                 currentSwitch, cases, dflt>>

-----------------------------------------------------------------------------
(* Statements without a child statement                                    *)

unchangedByLeaf == <<phase, made, inserted, cur, breakStack, continueStack,
                     currentSwitch, cases, dflt>>

(* An expression statement, a local declaration, or (~full) `;' and `{}'.  *)
ExprStmt(full) ==
  /\ Leaf
  /\ full => "expr" \in Kinds
  /\ code' = EmitIf(full, code, cur, Eval(n + 1, "expr"))
  /\ UNCHANGED unchangedByLeaf

(* The source has an enclosing loop or switch (C99 6.8.6.3), so the stack  *)
(* is not empty: ContextMirrorsFrames.                                     *)
Break ==
  /\ "break" \in Kinds
  /\ Leaf
  /\ breakStack # << >>
  /\ code' = Emit(code, cur, Br(breakStack[Len(breakStack)]))
  /\ UNCHANGED unchangedByLeaf

Continue ==
  /\ "continue" \in Kinds
  /\ Leaf
  /\ continueStack # << >>
  /\ code' = Emit(code, cur, Br(continueStack[Len(continueStack)]))
  /\ UNCHANGED unchangedByLeaf

Return ==
  /\ "return" \in Kinds
  /\ Leaf
  /\ code' = Emit(code, cur, Ret)
  /\ UNCHANGED unchangedByLeaf

-----------------------------------------------------------------------------
(* CompoundStmt and its BlockItemList                                      *)

unchangedByList == <<phase, made, inserted, code, cur, breakStack,
                     continueStack, currentSwitch, cases, dflt>>

(* The braces themselves are not counted as a statement.                   *)
EnterCompoundStmt ==
  /\ CanVisit
  /\ "compound" \in Kinds
  /\ Len(frames) < MaxDepth
  /\ frames' = Append(Asked, [Frame("list") EXCEPT !.id = 0])
  /\ UNCHANGED n
  /\ UNCHANGED unchangedByList

ExitCompoundStmt ==
  /\ phase = "body"
  /\ Len(frames) > 1
  /\ Top.kind = "list"
  /\ Close
  /\ UNCHANGED unchangedByList

-----------------------------------------------------------------------------
(* Loops                                                                   *)

unchangedByLoop == <<phase, currentSwitch, cases, dflt>>

(* The two ScopeGuards of a loop.                                          *)
PushLoop(breakTo, continueTo) ==
  /\ breakStack' = Append(breakStack, breakTo)
  /\ continueStack' = Append(continueStack, continueTo)

PopLoop ==
  /\ breakStack' = Pop(breakStack)
  /\ continueStack' = Pop(continueStack)

EnterWhile ==
  LET loop  == made + 1
      after == made + 2
      cond  == made + 3
      toCond == Emit(code, cur, Br(cond))
      tested == Emit(toCond, cond, Eval(n + 1, "test"))
  IN  /\ CanOpen("while", 3)
      /\ Open([Frame("while") EXCEPT !.next = cond, !.exit = after])
      /\ made' = made + 3
      /\ inserted' = inserted \cup {cond, loop}
      /\ code' = Emit(tested, cond, CondBr(n + 1, loop, after))
      /\ cur' = loop
      /\ PushLoop(after, cond)
      /\ UNCHANGED unchangedByLoop

ExitWhile ==
  /\ CanClose("while")
  /\ Close
  /\ code' = FallThrough(Top.next)
  /\ inserted' = inserted \cup {Top.exit}
  /\ cur' = Top.exit
  /\ PopLoop
  /\ UNCHANGED <<made, unchangedByLoop>>

EnterDoWhile ==
  LET loop  == made + 1
      after == made + 2
      cond  == made + 3
  IN  /\ CanOpen("do", 3)
      /\ Open([Frame("do") EXCEPT !.head = loop, !.next = cond, !.exit = after])
      /\ made' = made + 3
      /\ inserted' = inserted \cup {loop}
      /\ code' = Emit(code, cur, Br(loop))
      /\ cur' = loop
      /\ PushLoop(after, cond)
      /\ UNCHANGED unchangedByLoop

ExitDoWhile ==
  LET toCond == FallThrough(Top.next)
      tested == Emit(toCond, Top.next, Eval(Top.id, "test"))
  IN  /\ CanClose("do")
      /\ Close
      /\ code' = Emit(tested, Top.next, CondBr(Top.id, Top.head, Top.exit))
      /\ inserted' = inserted \cup {Top.next, Top.exit}
      /\ cur' = Top.exit
      /\ PopLoop
      /\ UNCHANGED <<made, unchangedByLoop>>

(* continue skips the step                                                 *)
EnterFor_Wrong(init, test, step) ==
  LET loop   == made + 1
      stepBB == made + 2
      after  == made + 3
      cond   == made + 4
      started == EmitIf(init, code, cur, Eval(n + 1, "init"))
      toCond == Emit(started, cur, Br(cond))
      tested == EmitIf(test, toCond, cond, Eval(n + 1, "test"))
  IN  /\ CanOpen("for", 4)
      /\ Open([Frame("for") EXCEPT !.head = cond, !.next = stepBB,
                                   !.exit = after, !.flag = step])
      /\ made' = made + 4
      /\ inserted' = inserted \cup {cond, loop}
      /\ code' = Emit(tested, cond, IF test THEN CondBr(n + 1, loop, after)
                                            ELSE Br(loop))
      /\ cur' = loop
      /\ PushLoop(after, cond)
      /\ UNCHANGED unchangedByLoop

(* for (init; test; step): each of the three may be missing.               *)
EnterFor(init, test, step) ==
  LET loop   == made + 1
      stepBB == made + 2
      after  == made + 3
      cond   == made + 4
      started == EmitIf(init, code, cur, Eval(n + 1, "init"))
      toCond == Emit(started, cur, Br(cond))
      tested == EmitIf(test, toCond, cond, Eval(n + 1, "test"))
  IN  /\ CanOpen("for", 4)
      /\ Open([Frame("for") EXCEPT !.head = cond, !.next = stepBB,
                                   !.exit = after, !.flag = step])
      /\ made' = made + 4
      /\ inserted' = inserted \cup {cond, loop}
      /\ code' = Emit(tested, cond, IF test THEN CondBr(n + 1, loop, after)
                                            ELSE Br(loop))
      /\ cur' = loop
      /\ PushLoop(after, stepBB)
      /\ UNCHANGED unchangedByLoop

ExitFor ==
  LET toStep  == FallThrough(Top.next)
      stepped == EmitIf(Top.flag, toStep, Top.next, Eval(Top.id, "step"))
  IN  /\ CanClose("for")
      /\ Close
      /\ code' = Emit(stepped, Top.next, Br(Top.head))
      /\ inserted' = inserted \cup {Top.next, Top.exit}
      /\ cur' = Top.exit
      /\ PopLoop
      /\ UNCHANGED <<made, unchangedByLoop>>

-----------------------------------------------------------------------------
(* IfElse.  The merge block is inserted only if something can reach it.    *)

unchangedByIf == <<phase, breakStack, continueStack, currentSwitch, cases,
                   dflt>>

EnterIf(hasElse) ==
  LET then   == made + 1
      merge  == made + 2
      else   == made + 3
      tested == Emit(code, cur, Eval(n + 1, "test"))
  IN  /\ CanOpen(IF hasElse THEN "ifelse" ELSE "if", 3)
      /\ Open([Frame(IF hasElse THEN "then" ELSE "if")
                 EXCEPT !.next = else, !.exit = merge])
      /\ made' = made + 3
      /\ inserted' = inserted \cup {then}
      /\ code' = Emit(tested, cur,
                      CondBr(n + 1, then, IF hasElse THEN else ELSE merge))
      /\ cur' = then
      /\ UNCHANGED unchangedByIf

ExitIf ==
  /\ CanClose("if")
  /\ Close
  /\ code' = FallThrough(Top.exit)
  /\ inserted' = inserted \cup {Top.exit}
  /\ cur' = Top.exit
  /\ UNCHANGED <<made, unchangedByIf>>

ThenToElse ==
  /\ CanClose("then")
  /\ frames' = [frames EXCEPT ![Len(frames)] =
                  [@ EXCEPT !.kind = "else", !.done = FALSE,
                            !.flag = ~Terminated(cur)]]
  /\ code' = FallThrough(Top.exit)
  /\ inserted' = inserted \cup {Top.next}
  /\ cur' = Top.next
  /\ UNCHANGED <<n, made, unchangedByIf>>

(* only the else branch decides whether anything reaches the merge block   *)
ExitElse_Wrong ==
  /\ CanClose("else")
  /\ Close
  /\ code' = FallThrough(Top.exit)
  /\ inserted' = IF ~Terminated(cur) THEN inserted \cup {Top.exit} ELSE inserted
  /\ cur' = IF ~Terminated(cur) THEN Top.exit ELSE cur
  /\ UNCHANGED <<made, unchangedByIf>>

ExitElse ==
  LET insertMergeBB == Top.flag \/ ~Terminated(cur)
  IN  /\ CanClose("else")
      /\ Close
      /\ code' = FallThrough(Top.exit)
      /\ inserted' = IF insertMergeBB THEN inserted \cup {Top.exit}
                                      ELSE inserted
      /\ cur' = IF insertMergeBB THEN Top.exit ELSE cur
      /\ UNCHANGED <<made, unchangedByIf>>

-----------------------------------------------------------------------------
(* Switch and its labels                                                   *)

EnterSwitch ==
  LET merge == made + 1
      tested == Emit(code, cur, Eval(n + 1, "test"))
  IN  /\ CanOpen("switch", 1)
      /\ Open([Frame("switch") EXCEPT !.exit = merge, !.old = currentSwitch])
      /\ made' = made + 1
      /\ code' = Emit(tested, cur, SwitchInst(n + 1))
      /\ dflt' = [dflt EXCEPT ![n + 1] = merge]
      /\ currentSwitch' = n + 1
      /\ breakStack' = Append(breakStack, merge)
      /\ UNCHANGED <<phase, inserted, cur, continueStack, cases>>

(* no ScopeGuard for currentSwitch_                                        *)
ExitSwitch_Wrong ==
  /\ CanClose("switch")
  /\ Close
  /\ code' = FallThrough(Top.exit)
  /\ inserted' = inserted \cup {Top.exit}
  /\ cur' = Top.exit
  /\ currentSwitch' = NoSwitch
  /\ breakStack' = Pop(breakStack)
  /\ UNCHANGED <<phase, made, continueStack, cases, dflt>>

ExitSwitch ==
  /\ CanClose("switch")
  /\ Close
  /\ code' = FallThrough(Top.exit)
  /\ inserted' = inserted \cup {Top.exit}
  /\ cur' = Top.exit
  /\ currentSwitch' = Top.old
  /\ breakStack' = Pop(breakStack)
  /\ UNCHANGED <<phase, made, continueStack, cases, dflt>>

(* A label is inside a switch (C99 6.8.1).                                 *)
EnterCase(isDefault) ==
  LET caseBB == made + 1
  IN  /\ CanOpen("case", 1)
      /\ currentSwitch # NoSwitch
      /\ Open([Frame("case") EXCEPT !.head = caseBB, !.flag = isDefault])
      /\ made' = made + 1
      /\ inserted' = inserted \cup {caseBB}
      /\ code' = FallThrough(caseBB)
      /\ cur' = caseBB
      /\ UNCHANGED <<phase, breakStack, continueStack, currentSwitch, cases,
                     dflt>>

(* The label joins the switch only after its statement has been visited.   *)
ExitCase ==
  /\ CanClose("case")
  /\ Close
  /\ IF Top.flag
       THEN /\ dflt' = [dflt EXCEPT ![currentSwitch] = Top.head]
            /\ UNCHANGED cases
       ELSE /\ cases' = [cases EXCEPT ![currentSwitch] = @ \cup {Top.head}]
            /\ UNCHANGED dflt
  /\ UNCHANGED <<phase, made, inserted, code, cur, breakStack, continueStack,
                 currentSwitch>>

-----------------------------------------------------------------------------
Init ==
  /\ phase = "global"
  /\ frames = << >>
  /\ n = 0
  /\ made = 0
  /\ inserted = {}
  /\ code = [b \in Block |-> << >>]
  /\ cur = NoBlock
  /\ breakStack = << >>
  /\ continueStack = << >>
  /\ currentSwitch = NoSwitch
  /\ cases = [s \in SwitchId |-> {}]
  /\ dflt = [s \in SwitchId |-> NoBlock]

Next ==
  \/ EnterFnDef \/ ExitFnDef
  \/ \E full \in BOOLEAN : ExprStmt(full)
  \/ Break \/ Continue \/ Return
  \/ EnterCompoundStmt \/ ExitCompoundStmt
  \/ EnterWhile \/ ExitWhile
  \/ EnterDoWhile \/ ExitDoWhile
  \/ \E init, test, step \in BOOLEAN : EnterFor(init, test, step)
  \/ ExitFor
  \/ \E hasElse \in BOOLEAN : EnterIf(hasElse)
  \/ ExitIf \/ ThenToElse \/ ExitElse
  \/ EnterSwitch \/ ExitSwitch
  \/ \E isDefault \in BOOLEAN : EnterCase(isDefault)
  \/ ExitCase

Spec == Init /\ [][Next]_vars

-----------------------------------------------------------------------------
(* Properties                                                              *)

(* Every variable has its type; a created block is one of 1..made.         *)
TypeOK ==
  /\ phase \in {"global", "body"}
  /\ frames \in Seq(Frames)
  /\ n \in Nat
  /\ made \in 0..MaxBlocks
  /\ inserted \subseteq 1..made
  /\ code \in [Block -> Seq(Instrs)]
  /\ cur \in Block \cup {NoBlock}
  /\ breakStack \in Seq(Block)
  /\ continueStack \in Seq(Block)
  /\ currentSwitch \in SwitchId \cup {NoSwitch}
  /\ cases \in [SwitchId -> SUBSET Block]
  /\ dflt \in [SwitchId -> Block \cup {NoBlock}]

(* The blocks a block may branch to.                                       *)
Targets(i) ==
  IF i.op = "switch" /\ i.id \in SwitchId
    THEN (cases[i.id] \cup {dflt[i.id]}) \ {NoBlock}
    ELSE {i.t, i.f} \ {NoBlock}

BranchTargets ==
  UNION {UNION {Targets(code[b][k]) : k \in 1..Len(code[b])} : b \in inserted}

(* What llvm::verifyFunction asks of the finished function, and no visit   *)
(* method can see alone: every block in the function ends in a terminator  *)
(* (also the block in which a dead branch was left behind), and no branch  *)
(* leads to a block that was created but never inserted (the merge block   *)
(* of an if whose two branches both leave, the exit block of a loop, the   *)
(* block of a label added to its switch late).                             *)
FunctionIsClosed ==
  phase = "global" =>
    /\ \A b \in inserted : Terminated(b)
    /\ BranchTargets \subseteq inserted

Loops     == {"while", "do", "for"}
Breakable == Loops \cup {"switch"}

(* how many of the i outermost statements are of these kinds               *)
Depth(kinds, i) == Cardinality({j \in 1..i : frames[j].kind \in kinds})

(* The three pieces of context that the ScopeGuards maintain agree with    *)
(* the statements that are really open: break leads behind the innermost   *)
(* loop or switch, continue into the innermost loop even from a switch in  *)
(* it, and a label joins the innermost switch even from a loop in it; all  *)
(* three are back to nothing when the function ends.                       *)
ContextMirrorsFrames ==
  /\ Len(breakStack) = Depth(Breakable, Len(frames))
  /\ Len(continueStack) = Depth(Loops, Len(frames))
  /\ \A i \in 1..Len(frames) :
       /\ frames[i].kind \in Breakable =>
            breakStack[Depth(Breakable, i)] = frames[i].exit
       /\ frames[i].kind \in Loops =>
            continueStack[Depth(Loops, i)] = frames[i].next
  /\ IF Depth({"switch"}, Len(frames)) = 0
       THEN currentSwitch = NoSwitch
       ELSE \E i \in 1..Len(frames) :
              /\ frames[i].kind = "switch" /\ frames[i].id = currentSwitch
              /\ \A j \in i + 1..Len(frames) : frames[j].kind # "switch"

(* Nothing follows the first terminator of a block.                        *)
WellFormed(s) == \A k \in 1..Len(s) : IsTerminator(s[k]) => k = Len(s)

(* BlockItemList, CodeGenModule.cpp:1873-1877: no item of a block is       *)
(* inserted after a terminator, as in `{ return 0; int x; }'.  A block     *)
(* with a switch instruction is left out: there it is not a block item but *)
(* the body of the switch itself that is put behind the terminator.        *)
HoldsSwitch(s) == \E k \in 1..Len(s) : s[k].op = "switch"

NoCodeAfterTerminator == \A b \in Block : ~HoldsSwitch(code[b]) => WellFormed(code[b])

(* The part of it the code does keep: while no switch is open, no step     *)
(* adds an instruction after a terminator, whatever the nesting of loops,  *)
(* branches and jumps.                                                     *)
NoCodeAfterTerminatorOutsideSwitch ==
  [][\A b \in Block :
       /\ currentSwitch = NoSwitch
       /\ WellFormed(code[b])
       => WellFormed(code'[b])]_vars

=============================================================================
