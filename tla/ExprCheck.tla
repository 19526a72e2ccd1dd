----------------------------- MODULE ExprCheck ------------------------------
(***************************************************************************)
(* Expressions and CArithmetic over the same program, whose behaviour C99  *)
(* defines: each step emits and executes what an expression is lowered to, *)
(* and evaluates the expression in C.                                      *)
(***************************************************************************)
EXTENDS Expressions

VARIABLES
  cx,      (* the value of x in C                                           *)
  cstack,  (* the operands, with their types and values in C                *)
  departed (* an expression was met that is known to be lowered wrongly     *)

C == INSTANCE CArithmetic WITH
       SignedTypes <- {CHAR, SHORT, INT, LONG, LONG_LONG},
       Rank <- [t \in IntTypes |->
                  CASE t = BOOL -> 0
                    [] t \in {CHAR, UNSIGNED_CHAR} -> 1
                    [] t \in {SHORT, UNSIGNED_SHORT} -> 2
                    [] t \in {INT, UNSIGNED_INT} -> 3
                    [] t \in {LONG, UNSIGNED_LONG} -> 4
                    [] t \in {LONG_LONG, UNSIGNED_LONG_LONG} -> 5],
       UnsignedOf <- [t \in IntTypes |-> IF t \in {CHAR, SHORT, INT, LONG,
                                                   LONG_LONG} THEN t + 1 ELSE t],
       CBool <- BOOL, CInt <- INT

cTop   == cstack[Len(cstack)]
cBelow == cstack[Len(cstack) - 1]

CNode(t, v) == [t |-> t, v |-> v]

CPush(t, v)       == cstack' = Append(cstack, CNode(t, v))
CReplace(k, t, v) ==
  cstack' = Append(SubSeq(cstack, 1, Len(cstack) - k), CNode(t, v))
CPop == cstack' = SubSeq(cstack, 1, Len(cstack) - 1)

Agree(node, cnode) ==
  /\ node.ir.w = TypeSize[node.t]
  /\ C!Promote(node.t) = C!Promote(cnode.t)
  /\ Read(node.ir, node.t) = cnode.v

-----------------------------------------------------------------------------
(* The expressions that are lowered wrongly.                               *)

(* A conversion to _Bool keeps the lowest bit (6.3.1.2 asks for v # 0).    *)
ToBoolDeparts(t, v) == t = BOOL /\ v # 0 /\ v % 2 = 0

(* unsigned long and long long have unsigned long long in common (6.3.1.8) *)
CommonDeparts(t1, t2) ==
  {C!Promote(t1), C!Promote(t2)} = {UNSIGNED_LONG, LONG_LONG}

(* The right operand of a shift does not change the type of the left one   *)
(* (6.5.7p3).                                                              *)
ShiftDeparts(t1, t2) ==
  runUsualArithmeticConversions(t1, t2) # C!Promote(t1)

BinaryDeparts(op, t1, t2) ==
  IF op \in Shifts THEN ShiftDeparts(t1, t2) ELSE CommonDeparts(t1, t2)

(* A compound assignment computes in the type of x, not in the common type *)
(* (6.5.16.2p3).  That is a different number only if the conversion of the *)
(* right operand loses something that matters before the result is cut to  *)
(* the type of x.                                                          *)
CompoundDeparts(op, t, v) ==
  \/ xt = BOOL
  \/ op \in {"/", "%"} /\ C!Common(xt, t) # C!Promote(xt)
  \/ op \in {"/", "%"} /\ (C!Convert(v, xt) # v \/ (cx = C!MinOf(xt) /\ v = -1))
  \/ op \in Shifts /\ v >= TypeSize[xt]

-----------------------------------------------------------------------------
CheckInit == Init /\ cx = 0 /\ cstack = << >> /\ departed = FALSE

Departs(p) == departed' = p

Pure(p) == Departs(p) /\ UNCHANGED cx

COperand ==
  \E t \in OperandTypes : \E v \in C!MinOf(t)..C!MaxOf(t) :
    Operand(t, v) /\ CPush(t, v) /\ Pure(FALSE)

CLoad == LoadX /\ CPush(xt, cx) /\ Pure(FALSE)

CCast ==
  \E t \in OperandTypes :
    /\ CastTo(t)
    /\ CReplace(1, t, C!Convert(cTop.v, t))
    /\ Pure(ToBoolDeparts(t, cTop.v))

CUnary ==
  \E op \in {"+", "-", "~"} :
    LET t == C!Promote(cTop.t)
        v == CASE op = "+" -> cTop.v [] op = "-" -> -cTop.v
               [] op = "~" -> -1 - cTop.v
    IN  /\ UnaryOp(op)
        /\ C!Signed(t) => C!Fits(v, t)
        /\ CReplace(1, t, C!Convert(v, t))
        /\ Pure(FALSE)

CLogicalNot == LogicalNot /\ CReplace(1, INT, C!Truth(cTop.v = 0)) /\ Pure(FALSE)

CBinary ==
  \E op \in BinaryOps :
    /\ Len(cstack) >= 2
    /\ C!Defined(op, cBelow.t, cBelow.v, cTop.t, cTop.v)
    /\ BinaryOp(op)
    /\ CReplace(2, C!ResultType(op, cBelow.t, cTop.t),
                   C!Value(op, cBelow.t, cBelow.v, cTop.t, cTop.v))
    /\ Pure(BinaryDeparts(op, cBelow.t, cTop.t))

CLogical ==
  \E op \in {"&&", "||"} :
    /\ LogicalOp(op)
    /\ CReplace(2, INT, C!Truth(IF op = "&&" THEN cBelow.v # 0 /\ cTop.v # 0
                                             ELSE cBelow.v # 0 \/ cTop.v # 0))
    /\ Pure(FALSE)

CTernary ==
  \E cond \in BOOLEAN :
    LET t == C!Common(cBelow.t, cTop.t)
    IN  /\ TernaryOp(cond)
        /\ CReplace(2, t, C!Convert(IF cond THEN cBelow.v ELSE cTop.v, t))
        /\ Pure(CommonDeparts(cBelow.t, cTop.t))

CAssign ==
  LET v == C!Convert(cTop.v, xt)
  IN  /\ Assignment
      /\ CReplace(1, xt, v)
      /\ cx' = v
      /\ Departs(ToBoolDeparts(xt, cTop.v))

CCompound ==
  \E op \in BinaryOps \ Relations, used \in BOOLEAN :
    /\ Len(cstack) >= 1
    /\ C!Defined(op, xt, cx, cTop.t, cTop.v)
    /\ CompoundAssignment(op, used)
    /\ cx' = C!Convert(C!Value(op, xt, cx, cTop.t, cTop.v), xt)
    /\ IF used THEN CReplace(1, xt, cx') ELSE CPop
    /\ Departs(used \/ CompoundDeparts(op, cTop.t, cTop.v))

CPostIncrement ==
  \E step \in {1, -1} :
    /\ C!Defined("+", xt, cx, INT, step)
    /\ PostIncrement(step)
    /\ CPush(xt, cx)
    /\ cx' = C!Convert(cx + step, xt)
    /\ Departs(TypeSize[xt] # TypeSize[INT])

CPreIncrement ==
  \E step \in {1, -1} :
    /\ C!Defined("+", xt, cx, INT, step)
    /\ PreIncrement(step)
    /\ cx' = C!Convert(cx + step, xt)
    /\ CPush(xt, cx')
    /\ Departs(TRUE)

CExprStmt == ExprStmt /\ CPop /\ Pure(FALSE)

CNextProgram == NextProgram /\ cx' = 0 /\ cstack' = << >> /\ Departs(FALSE)

CheckNext ==
  \/ /\ ~departed
     /\ \/ COperand \/ CLoad \/ CCast \/ CUnary \/ CLogicalNot \/ CBinary
        \/ CLogical \/ CTernary \/ CAssign \/ CCompound \/ CPostIncrement
        \/ CPreIncrement \/ CExprStmt
  \/ CNextProgram

CheckSpec == CheckInit /\ [][CheckNext]_<<vars, cx, cstack, departed>>

-----------------------------------------------------------------------------
(* Properties                                                              *)

TypeOK ==
  /\ xt \in ObjectTypes
  /\ x \in 0..(2^TypeSize[xt] - 1)
  /\ Len(stack) <= MaxStack
  /\ Len(stack) = Len(cstack)
  /\ \A k \in 1..Len(stack) :
       /\ stack[k].t \in IntTypes
       /\ stack[k].ir.bits \in 0..(2^(stack[k].ir.w) - 1)
       /\ C!Fits(cstack[k].v, cstack[k].t)
  /\ wellFormed \in BOOLEAN
  /\ departed \in BOOLEAN

(* The emitted code computes what C99 says, through any chain of loads,    *)
(* casts, operators and assignments of integers of all types: every value  *)
(* and the object have the number they have in C, the LLVM type of a value *)
(* is that of the type the TypeChecker gave its node, and that type is the *)
(* one C gives it, up to promotion.  The expressions that are lowered      *)
(* wrongly are those listed above, and only where the condition given      *)
(* there holds.                                                            *)
ExpressionsFollowCButForDepartures ==
  ~departed =>
    /\ wellFormed
    /\ \A k \in 1..Len(stack) : Agree(stack[k], cstack[k])
    /\ Read([w |-> TypeSize[xt], bits |-> x], xt) = cx

=============================================================================
