----------------------------- MODULE ExprBlocks -----------------------------
(***************************************************************************)
(* The basic blocks inside an expression: the visits of &&, || and ?: in   *)
(* CodeGenModule, among calls and operators that evaluate both operands.   *)
(* An operand may itself be of any of these kinds, and leave the builder   *)
(* in a block other than the one it was given.  ControlFlow takes an       *)
(* expression for a single instruction; this is what there is of it.       *)
(*                                                                         *)
(* frames are the visits that are under way, with what they keep in local  *)
(* variables.  A value is known by the place of its instruction.           *)
(*                                                                         *)
(* A definition X_Wrong is a mistake one could make in X: no action uses   *)
(* it, and it is there to show which property rules it out.                *)
(***************************************************************************)
EXTENDS Integers, Sequences

CONSTANTS
  BinaryOps, (* binary operators: "+" for all with an int, "<" with an i1   *)
  MaxCalls   (* the calls in an expression: bounds the model                *)

ASSUME BinaryOpsAreKnown == BinaryOps \subseteq {"+", "<"}
ASSUME MaxCallsIsNat == MaxCalls \in Nat \ {0}

VARIABLES
  code,         (* the instructions of each block that was created          *)
  inserted,     (* the blocks that are in the function                      *)
  cur,          (* the insertion point                                      *)
  frames,       (* the active visits, innermost last                        *)
  currentValue, (* currentValue_                                            *)
  calls,        (* the calls so far                                         *)
  leaves,       (* the calls that the expression has, as far as it is known *)
  isVoid,       (* the expression has no value                              *)
  pc            (* "visit" an operand, "return" from one, or "done"         *)

vars == <<code, inserted, cur, frames, currentValue, calls, leaves, isVoid, pc>>

NoValue == <<0, 0>>
NoBlock == 0

Init ==
  /\ code = << << >> >> /\ inserted = {1} /\ cur = 1
  /\ frames = << >>
  /\ currentValue = NoValue
  /\ calls = 0 /\ leaves = 1
  /\ isVoid \in BOOLEAN
  /\ pc = "visit"

(* the instructions                                                        *)
Call(n)         == [op |-> "call", id |-> n]
Operator(o, l, r) == [op |-> o, l |-> l, r |-> r]
CmpNE0(v)       == [op |-> "icmp", v |-> v]
ZExt(v)         == [op |-> "zext", v |-> v]
CondBr(v, t, f) == [op |-> "condbr", v |-> v, t |-> t, f |-> f]
Br(t)           == [op |-> "br", t |-> t]
Phi(type, l, lhsBB, r, rhsBB) ==
  [op |-> "phi", type |-> type, in |-> <<[v |-> l, b |-> lhsBB], [v |-> r, b |-> rhsBB]>>]
Ret(v)          == [op |-> "ret", v |-> v]

(* The code after s is put at the insertion point, with n blocks more.     *)
Emit(s, n) ==
  code' = [b \in 1..(Len(code) + n) |->
             IF b = cur THEN code[b] \o s ELSE IF b \in DOMAIN code THEN code[b] ELSE << >>]

(* the value of the k-th instruction that is put there                     *)
New(k) == <<cur, Len(code[cur]) + k>>

(* the type of a value is i1, and not that of an int                       *)
IsBoolean(v) ==
  LET i == code[v[1]][v[2]]
  IN  i.op \in {"icmp", "<"} \/ (i.op = "phi" /\ i.type = "i1")

(* What a conversion emits and what it returns, as the k-th instruction.   *)
isNotZero(v) ==
  IF IsBoolean(v) THEN [s |-> << >>, v |-> v] ELSE [s |-> <<CmpNE0(v)>>, v |-> New(1)]
runCast(v, k) ==
  IF IsBoolean(v) THEN [s |-> <<ZExt(v)>>, v |-> New(k)] ELSE [s |-> << >>, v |-> v]

Top == frames[Len(frames)]
Below == SubSeq(frames, 1, Len(frames) - 1)

Frame(kind, lhsBB, rhsBB, afterBB) ==
  [kind |-> kind, operand |-> 1, lhs |-> NoValue,
   lhsBB |-> lhsBB, rhsBB |-> rhsBB, afterBB |-> afterBB]

Logical == {"&&", "||"}
Ternary == {"?:", "void ?:"}
Arity(kind) == IF kind \in Ternary THEN 3 ELSE 2

(* an expression of type void is expected                                  *)
WantsVoid == IF frames = << >> THEN isVoid ELSE Top.kind = "void ?:" /\ Top.operand > 1

-----------------------------------------------------------------------------
(* FnCall, without arguments: any expression that is not taken apart.      *)
VisitCall ==
  /\ pc = "visit"
  /\ calls' = calls + 1
  /\ Emit(<<Call(calls + 1)>>, 0)
  /\ currentValue' = IF WantsVoid THEN NoValue ELSE New(1)
  /\ pc' = "return"
  /\ UNCHANGED <<inserted, cur, frames, leaves, isVoid>>

(* The first operand takes the place of a call, the others are added.      *)
Enter(frame) ==
  /\ pc = "visit"
  /\ leaves' = leaves + Arity(frame.kind) - 1
  /\ leaves' <= MaxCalls
  /\ frames' = Append(frames, frame)
  /\ UNCHANGED <<currentValue, calls, isVoid, pc>>

(* The visit goes on with its next operand.                                *)
NextOperand(frame) ==
  /\ frames' = Append(Below, [frame EXCEPT !.operand = @ + 1])
  /\ pc' = "visit"
  /\ UNCHANGED <<currentValue, calls, leaves, isVoid>>

Leave(v) ==
  /\ frames' = Below
  /\ currentValue' = v
  /\ UNCHANGED <<calls, leaves, isVoid, pc>>

Returns(kinds, operand) ==
  pc = "return" /\ frames # << >> /\ Top.kind \in kinds /\ Top.operand = operand

(* BinaryOp: lhs, rhs, their conversions, and then an instruction.         *)
EnterBinary(op) ==
  /\ ~WantsVoid
  /\ Enter(Frame(op, NoBlock, NoBlock, NoBlock))
  /\ UNCHANGED <<code, inserted, cur>>

BinaryLhs ==
  /\ Returns(BinaryOps, 1)
  /\ NextOperand([Top EXCEPT !.lhs = currentValue])
  /\ UNCHANGED <<code, inserted, cur>>

BinaryRhs ==
  LET lhs == runCast(Top.lhs, 1)
      rhs == runCast(currentValue, Len(lhs.s) + 1)
      s == lhs.s \o rhs.s \o <<Operator(Top.kind, lhs.v, rhs.v)>>
  IN  /\ Returns(BinaryOps, 2)
      /\ Emit(s, 0)
      /\ Leave(New(Len(s)))
      /\ UNCHANGED <<inserted, cur>>

-----------------------------------------------------------------------------
(* visitLogicalOp: "rhs" and "after" are created, and inserted later.      *)
EnterLogical(op) ==
  /\ ~WantsVoid
  /\ Enter(Frame(op, cur, Len(code) + 1, Len(code) + 2))
  /\ Emit(<< >>, 2)
  /\ UNCHANGED <<inserted, cur>>

(* || branches like &&                                                     *)
LogicalBranch_Wrong(op, v, rhsBB, afterBB) == CondBr(v, rhsBB, afterBB)

LogicalBranch(op, v, rhsBB, afterBB) ==
  IF op = "&&" THEN CondBr(v, rhsBB, afterBB) ELSE CondBr(v, afterBB, rhsBB)

(* The left operand may have ended in another block: that one branches.    *)
LogicalLhs ==
  LET lhs == isNotZero(currentValue)
  IN  /\ Returns(Logical, 1)
      /\ Emit(lhs.s \o <<LogicalBranch(Top.kind, lhs.v, Top.rhsBB, Top.afterBB)>>, 0)
      /\ inserted' = inserted \cup {Top.rhsBB}
      /\ cur' = Top.rhsBB
      /\ NextOperand([Top EXCEPT !.lhs = lhs.v, !.lhsBB = cur])

(* A phi is put at the beginning of the block after.                       *)
Merge(s, afterBB, phi) ==
  /\ code' = [code EXCEPT ![cur] = @ \o s, ![afterBB] = phi]
  /\ inserted' = inserted \cup {afterBB}
  /\ cur' = afterBB

LogicalRhs ==
  LET rhs == isNotZero(currentValue)
  IN  /\ Returns(Logical, 2)
      /\ Merge(rhs.s \o <<Br(Top.afterBB)>>, Top.afterBB,
               <<Phi("i1", Top.lhs, Top.lhsBB, rhs.v, cur)>>)
      /\ Leave(<<Top.afterBB, 1>>)

-----------------------------------------------------------------------------
(* TernaryOp: "lhs" is in the function before the condition is visited.    *)
EnterTernary(kind) ==
  /\ WantsVoid <=> kind = "void ?:"
  /\ Enter(Frame(kind, Len(code) + 1, Len(code) + 2, Len(code) + 3))
  /\ Emit(<< >>, 3)
  /\ inserted' = inserted \cup {Len(code) + 1}
  /\ UNCHANGED cur

TernaryCond ==
  LET cond == isNotZero(currentValue)
  IN  /\ Returns(Ternary, 1)
      /\ Emit(cond.s \o <<CondBr(cond.v, Top.lhsBB, Top.rhsBB)>>, 0)
      /\ cur' = Top.lhsBB
      /\ NextOperand(Top)
      /\ UNCHANGED inserted

(* The second and the third operand are converted where they end; without  *)
(* a value there is nothing to convert, and no phi.                        *)
Branch == IF Top.kind = "void ?:" THEN [s |-> << >>, v |-> NoValue] ELSE runCast(currentValue, 1)

(* the block that the operand was begun in, not the one it ended in        *)
TernaryLhs_Wrong ==
  /\ Returns(Ternary, 2)
  /\ Emit(Branch.s \o <<Br(Top.afterBB)>>, 0)
  /\ inserted' = inserted \cup {Top.rhsBB}
  /\ cur' = Top.rhsBB
  /\ NextOperand([Top EXCEPT !.lhs = Branch.v])

TernaryLhs ==
  /\ Returns(Ternary, 2)
  /\ Emit(Branch.s \o <<Br(Top.afterBB)>>, 0)
  /\ inserted' = inserted \cup {Top.rhsBB}
  /\ cur' = Top.rhsBB
  /\ NextOperand([Top EXCEPT !.lhs = Branch.v, !.lhsBB = cur])

TernaryRhs ==
  /\ Returns(Ternary, 3)
  /\ IF Top.kind = "void ?:"
     THEN Merge(<<Br(Top.afterBB)>>, Top.afterBB, << >>) /\ Leave(NoValue)
     ELSE /\ Merge(Branch.s \o <<Br(Top.afterBB)>>, Top.afterBB,
                   <<Phi("int", Top.lhs, Top.lhsBB, Branch.v, cur)>>)
          /\ Leave(<<Top.afterBB, 1>>)

(* What the expression was visited for: a Return of its value as an int,   *)
(* or, if it has none, of nothing.                                         *)
Finish ==
  LET value == IF isVoid THEN [s |-> << >>, v |-> NoValue] ELSE runCast(currentValue, 1)
  IN  /\ pc = "return" /\ frames = << >>
      /\ Emit(value.s \o <<Ret(value.v)>>, 0)
      /\ pc' = "done"
      /\ UNCHANGED <<inserted, cur, frames, currentValue, calls, leaves, isVoid>>

Stopped == pc = "done" /\ UNCHANGED vars

Next ==
  \/ VisitCall
  \/ \E op \in BinaryOps : EnterBinary(op)
  \/ BinaryLhs \/ BinaryRhs
  \/ \E op \in Logical : EnterLogical(op)
  \/ LogicalLhs \/ LogicalRhs
  \/ \E kind \in Ternary : EnterTernary(kind)
  \/ TernaryCond \/ TernaryLhs \/ TernaryRhs
  \/ Finish
  \/ Stopped

Spec == Init /\ [][Next]_vars

-----------------------------------------------------------------------------
(* The types, and what each visit still needs.                             *)
Blocks == DOMAIN code

IsTerminator(i) == i.op \in {"br", "condbr", "ret"}

TypeOK ==
  /\ Len(code) >= 1 /\ inserted \subseteq Blocks /\ cur \in inserted
  /\ isVoid \in BOOLEAN /\ calls <= leaves /\ leaves \in 1..MaxCalls
  /\ pc \in {"visit", "return", "done"}
  /\ \A i \in DOMAIN frames : frames[i].operand \in 1..Arity(frames[i].kind)

(* The blocks that branch to b.                                            *)
Predecessors(b) ==
  {a \in Blocks : \E k \in DOMAIN code[a] :
     LET i == code[a][k]
     IN  (i.op = "br" /\ i.t = b) \/ (i.op = "condbr" /\ b \in {i.t, i.f})}

(***************************************************************************)
(* Every phi names the blocks that branch to it, each once, although the   *)
(* operands may have ended in blocks other than "lhs" and "rhs"; LLVM      *)
(* rejects any other phi.  (visitLogicalOp and TernaryOp, which take the   *)
(* insertion point again after each operand.)                              *)
(***************************************************************************)
PhisNamePredecessors ==
  \A b \in Blocks : \A k \in DOMAIN code[b] : code[b][k].op = "phi" =>
    LET in == code[b][k].in
    IN  /\ k = 1 /\ in[1].b # in[2].b
        /\ {in[1].b, in[2].b} = Predecessors(b)
=============================================================================
