---------------------------- MODULE Expressions -----------------------------
(***************************************************************************)
(* What CodeGenModule emits for integer expressions, and what the emitted  *)
(* instructions compute.  An expression is read in the order in which the  *)
(* visitor finishes its nodes: operands are pushed on a stack and every    *)
(* operator replaces those it takes.  An entry of the stack is the LLVM    *)
(* value in currentValue_ together with the type nodeMap_ has for its      *)
(* node.  There is one object, x; any other operand is a value of any      *)
(* type, loaded or constant.                                               *)
(*                                                                         *)
(* A definition X_Wrong is a mistake one could make in X.                  *)
(***************************************************************************)
EXTENDS Conversions, Sequences

CONSTANTS
  OperandTypes, (* the types of operands and of casts                       *)
  ObjectTypes,  (* the types x may have                                     *)
  Features,     (* the kinds of expressions the programs are made of        *)
  MaxStack      (* operands pending at once: bounds the model               *)

ASSUME TypesAreIntTypes ==
  OperandTypes \subseteq IntTypes /\ ObjectTypes \subseteq IntTypes
ASSUME MaxStackIsNat == MaxStack \in Nat

VARIABLES
  xt,        (* the declared type of x                                      *)
  x,         (* the bits of x in memory                                     *)
  stack,     (* the operands that have been visited                         *)
  wellFormed (* every instruction got operands of the type it needs         *)

vars == <<xt, x, stack, wellFormed>>

Top    == stack[Len(stack)]
Below  == stack[Len(stack) - 1]
Rest(k) == SubSeq(stack, 1, Len(stack) - k)

Node(t, val) == [t |-> t, ir |-> val]

CanPush(feature) == feature \in Features /\ Len(stack) < MaxStack

Has(feature, k) == feature \in Features /\ Len(stack) >= k

Replace(k, node) == stack' = Append(Rest(k), node)

unchangedByValue == <<xt, x, wellFormed>>

-----------------------------------------------------------------------------
(* LLVM's integer instructions on operands of one width.  A division by    *)
(* zero or one that overflows, and a shift by the width or more, may give  *)
(* anything.                                                               *)

AnyOf(w) == {[w |-> w, bits |-> i] : i \in 0..(2^w - 1)}

Truth(p) == IrInt(1, IF p THEN 1 ELSE 0)

Abs(v) == IF v < 0 THEN -v ELSE v

Div(a, b) == LET q == Abs(a) \div Abs(b)
             IN  IF (a < 0) = (b < 0) THEN q ELSE -q

BitOf(val, k) == (val.bits \div 2^k) % 2

RECURSIVE BitOp(_, _, _, _)
BitOp(op, a, b, k) ==
  LET p == BitOf(a, k) = 1
      q == BitOf(b, k) = 1
      r == CASE op = "&" -> p /\ q [] op = "|" -> p \/ q [] op = "^" -> p # q
      i == IF r THEN 2^k ELSE 0
  IN  IF k = 0 THEN i ELSE i + BitOp(op, a, b, k - 1)

Relations == {"==", "!=", "<", ">", "<=", ">="}
Shifts    == {"<<", ">>"}
BinaryOps == {"+", "-", "*", "/", "%", "&", "|", "^"} \cup Shifts \cup Relations

(* signed: the instruction is the signed one of a pair (sdiv, ashr, slt).  *)
Results(op, a, b, signed) ==
  LET i == IF signed THEN Signed(a) ELSE Unsigned(a)
      j == IF signed THEN Signed(b) ELSE Unsigned(b)
      n == Unsigned(b)
  IN  CASE op = "+"  -> {IrInt(a.w, i + j)}
        [] op = "-"  -> {IrInt(a.w, i - j)}
        [] op = "*"  -> {IrInt(a.w, i * j)}
        [] op \in {"/", "%"} ->
             IF j = 0 \/ (signed /\ 2 * Div(i, j) >= 2^(a.w)) THEN AnyOf(a.w)
             ELSE {IrInt(a.w, IF op = "/" THEN Div(i, j) ELSE i - j * Div(i, j))}
        [] op \in {"&", "|", "^"} -> {IrInt(a.w, BitOp(op, a, b, a.w - 1))}
        [] op = "<<" -> IF n >= a.w THEN AnyOf(a.w) ELSE {IrInt(a.w, i * 2^n)}
        [] op = ">>" -> IF n >= a.w THEN AnyOf(a.w) ELSE {IrInt(a.w, i \div 2^n)}
        [] op = "==" -> {Truth(i = j)}
        [] op = "!=" -> {Truth(i # j)}
        [] op = "<"  -> {Truth(i < j)}
        [] op = ">"  -> {Truth(i > j)}
        [] op = "<=" -> {Truth(i <= j)}
        [] op = ">=" -> {Truth(i >= j)}

-----------------------------------------------------------------------------
(* Expressions without an effect                                           *)

(* Constant, or Identifier and CreateLoad                                  *)
Operand(t, v) ==
  /\ CanPush("operand")
  /\ stack' = Append(stack, Node(t, IrInt(TypeSize[t], v)))
  /\ UNCHANGED unchangedByValue

LoadX ==
  /\ CanPush("object")
  /\ stack' = Append(stack, Node(xt, [w |-> TypeSize[xt], bits |-> x]))
  /\ UNCHANGED unchangedByValue

CastTo(t) ==
  /\ Has("cast", 1)
  /\ Replace(1, Node(t, runCast(Top.ir, Top.t, t)))
  /\ UNCHANGED unchangedByValue

UnaryOp(op) ==
  LET t   == runIntegerPromotions(Top.t)
      val == runCast(Top.ir, Top.t, t)
  IN  /\ Has("unary", 1)
      /\ Replace(1, Node(t, CASE op = "+" -> val
                              [] op = "-" -> IrInt(val.w, -val.bits)
                              [] op = "~" -> IrInt(val.w, -1 - val.bits)))
      /\ UNCHANGED unchangedByValue

LogicalNot ==
  /\ Has("unary", 1)
  /\ Replace(1, Node(BOOL, Truth(Top.ir.bits = 0)))
  /\ UNCHANGED unchangedByValue

KindOf(op) == IF op \in Shifts THEN "shift" ELSE "binary"

BinaryOp(op) ==
  LET t   == runUsualArithmeticConversions(Below.t, Top.t)
      lhs == Convert(Below.ir, Below.t, Top.t)
      rhs == Convert(Top.ir, Top.t, Below.t)
  IN  /\ Has(KindOf(op), 2)
      /\ \E val \in Results(op, lhs, rhs, isSigned(t)) :
           Replace(2, Node(IF op \in Relations THEN BOOL ELSE t, val))
      /\ UNCHANGED unchangedByValue

(* && and ||: a phi of the two tests.                                      *)
LogicalOp(op) ==
  LET l == isNotZero(Below.ir).bits = 1
      r == isNotZero(Top.ir).bits = 1
  IN  /\ Has("logical", 2)
      /\ Replace(2, Node(BOOL, Truth(IF op = "&&" THEN l /\ r ELSE l \/ r)))
      /\ UNCHANGED unchangedByValue

(* c ? a : b of two integers, with a test that is true or false            *)
TernaryOp(cond) ==
  LET t   == runUsualArithmeticConversions(Below.t, Top.t)
      lhs == Convert(Below.ir, Below.t, Top.t)
      rhs == Convert(Top.ir, Top.t, Below.t)
  IN  /\ Has("ternary", 2)
      /\ Replace(2, Node(t, IF cond THEN lhs ELSE rhs))
      /\ UNCHANGED unchangedByValue

-----------------------------------------------------------------------------
(* Expressions with an effect on x                                         *)

(* the value of the assignment is that of its right operand                *)
Assignment_Wrong ==
  LET val == runCast(Top.ir, Top.t, xt)
  IN  /\ Has("assign", 1)
      /\ x' = val.bits
      /\ Replace(1, Node(xt, Top.ir))
      /\ UNCHANGED <<xt, wellFormed>>

(* x = top, by visitAsStore                                                *)
Assignment ==
  LET val == runCast(Top.ir, Top.t, xt)
  IN  /\ Has("assign", 1)
      /\ x' = val.bits
      /\ Replace(1, Node(xt, val))
      /\ UNCHANGED <<xt, wellFormed>>

(* x op= top: the right operand is converted to the type of x.  The        *)
(* result is stored but not left in currentValue_, where the right operand *)
(* still is as it was before its conversion.  Unused, the expression is a  *)
(* statement.                                                              *)
CompoundAssignment(op, used) ==
  LET lhs == [w |-> TypeSize[xt], bits |-> x]
      rhs == runCast(Top.ir, Top.t, xt)
  IN  /\ Has(IF used THEN "compound value" ELSE "compound", 1)
      /\ \E val \in Results(op, lhs, rhs, isSigned(xt)) : x' = val.bits
      /\ IF used THEN Replace(1, Node(xt, Top.ir)) ELSE stack' = Rest(1)
      /\ UNCHANGED <<xt, wellFormed>>

(* The sum for x++, ++x, x-- and --x: the other operand of the add or sub  *)
(* is an i32, whatever the type of x.                                      *)
Sums(val, step) ==
  IF val.w = TypeSize[INT] THEN {IrInt(val.w, val.bits + step)} ELSE AnyOf(val.w)

(* x++ and x--: the value is the old one, the sum goes to x.               *)
PostIncrement(step) ==
  LET val == [w |-> TypeSize[xt], bits |-> x]
  IN  /\ CanPush("postfix")
      /\ stack' = Append(stack, Node(runIntegerPromotions(xt), val))
      /\ \E sum \in Sums(val, step) : x' = sum.bits
      /\ wellFormed' = (val.w = TypeSize[INT])
      /\ UNCHANGED xt

(* ++x and --x: the value is the sum; nothing is stored.                   *)
PreIncrement(step) ==
  LET val == [w |-> TypeSize[xt], bits |-> x]
  IN  /\ CanPush("prefix")
      /\ \E sum \in Sums(val, step) :
           stack' = Append(stack, Node(runIntegerPromotions(xt), sum))
      /\ wellFormed' = (val.w = TypeSize[INT])
      /\ UNCHANGED <<xt, x>>

(* ExprStmt: the value is not used.                                        *)
ExprStmt == /\ stack # << >>
            /\ stack' = Rest(1)
            /\ UNCHANGED unchangedByValue

-----------------------------------------------------------------------------
(* `static T x;' is zero (InitDecl).                                       *)
Init ==
  /\ xt \in ObjectTypes
  /\ x = 0
  /\ stack = << >>
  /\ wellFormed = TRUE

NextProgram ==
  /\ xt' \in ObjectTypes
  /\ x' = 0
  /\ stack' = << >>
  /\ wellFormed' = TRUE

=============================================================================
