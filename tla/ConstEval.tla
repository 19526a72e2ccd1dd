----------------------------- MODULE ConstEval -----------------------------
(***************************************************************************)
(* Expr::eval(), by which the compiler computes the constants that it      *)
(* needs itself: initializers of static objects, enumeration constants,    *)
(* lengths of arrays and labels of a switch.  Whatever the types of its    *)
(* operands, it computes in int64_t or uint64_t.  Floating constants are   *)
(* left out.                                                               *)
(*                                                                         *)
(* A definition X_Wrong is a mistake one could make in X: no action uses   *)
(* it, and it is there to show which property rules it out.                *)
(***************************************************************************)
EXTENDS Integers

CONSTANTS
  IntSize,  (* bits of an int                                               *)
  EvalSize  (* bits of a long, of int64_t and of uint64_t                   *)

ASSUME SizesAreNat == IntSize \in Nat \ {0} /\ EvalSize \in Nat /\ EvalSize > IntSize

int64  == "long"
uint64 == "ulong"

(* the arithmetic of the two types, and that of C                          *)
IntTypes   == {"bool", "int", "uint", int64, uint64}
TypeSize   == [t \in IntTypes |-> CASE t = "bool" -> 1
                                    [] t \in {"int", "uint"} -> IntSize
                                    [] OTHER -> EvalSize]
Rank       == [t \in IntTypes |-> CASE t = "bool" -> 0
                                    [] t \in {"int", "uint"} -> 1
                                    [] OTHER -> 2]
UnsignedOf == [t \in {"int", int64} |-> IF t = "int" THEN "uint" ELSE uint64]

C == INSTANCE CArithmetic WITH SignedTypes <- {"int", int64}, CBool <- "bool", CInt <- "int"

(* Literals in decimal, with a suffix u, in hexadecimal, and of characters.*)
Const(n)         == [kind |-> "const", value |-> n]
UnsignedConst(n) == [kind |-> "uconst", value |-> n]
HexConst(n)      == [kind |-> "hex", value |-> n]
CharConst(n)     == [kind |-> "char", value |-> n]
UnaryOp(op, e)     == [kind |-> "unary", op |-> op, expr |-> e]
BinaryOp(l, r, op) == [kind |-> "binary", op |-> op, lhs |-> l, rhs |-> r]

Kinds   == {"const", "uconst", "hex", "char", "unary", "binary"}
Logical == {"&&", "||"}

IsConstantExpression(e) == e.kind \in Kinds

(* EvalType: one of the two types with a value, nothing, or the behaviour  *)
(* of eval() itself is undefined.                                          *)
Value(t, v) == [type |-> t, value |-> C!Convert(v, t)]
NoValue     == [type |-> "none"]
Undefined64 == [type |-> "undefined"]

IsValue(v) == v.type \in {int64, uint64}

getUInt(v) == C!Convert(v.value, uint64)
getInt(v)  == C!Convert(v.value, int64)

HasNoResult(op, a, b) ==
  \/ op \in {"/", "%"} /\ b = 0
  \/ op = "<<" /\ a < 0
  \/ op \in C!Shifts /\ b \notin 0..(EvalSize - 1)

(* && and || are taken for & and |                                         *)
Binary_Wrong(op, t, a, b) ==
  IF HasNoResult(op, a, b) THEN Undefined64
  ELSE Value(t, CASE op = "&&" -> C!Exact("&", t, a, b)
                  [] op = "||" -> C!Exact("|", t, a, b)
                  [] OTHER     -> C!Exact(op, t, a, b))

(* op on two operands of type t: a truth value is a uint64_t               *)
Binary(op, t, a, b) ==
  IF op \in Logical
  THEN Value(uint64, C!Truth(IF op = "&&" THEN a # 0 /\ b # 0 ELSE (a # 0 \/ b # 0)))
  ELSE IF HasNoResult(op, a, b) THEN Undefined64
  ELSE IF op \in C!Relations THEN Value(uint64, C!Exact(op, t, a, b))
  ELSE IF t = int64 /\ ~C!Fits(C!Exact(op, t, a, b), t) THEN Undefined64
  ELSE Value(t, C!Exact(op, t, a, b))

Unary(op, v) ==
  CASE op = "+" -> v
    [] op = "-" -> IF v.type = int64 /\ ~C!Fits(-v.value, int64) THEN Undefined64
                   ELSE Value(v.type, -v.value)
    [] op = "~" -> Value(v.type, -1 - v.value)
    [] op = "!" -> Value(uint64, C!Truth(v.value = 0))

(* Both operands are evaluated, also those of && and ||.  The suffix of a  *)
(* literal is ignored, and one in hexadecimal is read up to its x.         *)
RECURSIVE eval(_)
eval(e) ==
  CASE e.kind \in {"const", "uconst"} -> Value(int64, e.value)
    [] e.kind = "hex"   -> Value(int64, 0)
    [] e.kind = "char"  -> Value(uint64, e.value)
    [] e.kind = "unary" -> LET v == eval(e.expr) IN IF IsValue(v) THEN Unary(e.op, v) ELSE v
    [] e.kind = "binary" ->
         LET l == eval(e.lhs)
             r == eval(e.rhs)
         IN  IF ~IsValue(l) THEN l
             ELSE IF ~IsValue(r) THEN r
             ELSE IF uint64 \in {l.type, r.type} THEN Binary(e.op, uint64, getUInt(l), getUInt(r))
             ELSE Binary(e.op, int64, getInt(l), getInt(r))
    [] OTHER -> NoValue

-----------------------------------------------------------------------------
(* The same in C: type and value, and whether C defines it.  An operand    *)
(* that && or || does not evaluate may be anything.                        *)
CExpr(t, v, defined) == [type |-> t, value |-> v, defined |-> defined]

CUnary(op, x) ==
  LET t == IF op = "!" THEN "int" ELSE C!Promote(x.type)
      v == CASE op = "+" -> x.value [] op = "-" -> -x.value
             [] op = "~" -> -1 - x.value [] op = "!" -> C!Truth(x.value = 0)
  IN  CExpr(t, C!Convert(v, t), x.defined /\ (C!Signed(t) => C!Fits(v, t)))

CLogical(op, l, r) ==
  IF (l.value # 0) = (op = "||") THEN CExpr("int", C!Truth(op = "||"), l.defined)
  ELSE CExpr("int", C!Truth(r.value # 0), l.defined /\ r.defined)

CBinary(op, l, r) ==
  LET defined == l.defined /\ r.defined /\ C!Defined(op, l.type, l.value, r.type, r.value)
  IN  CExpr(C!ResultType(op, l.type, r.type),
            IF defined THEN C!Value(op, l.type, l.value, r.type, r.value) ELSE 0, defined)

RECURSIVE InC(_)
InC(e) ==
  CASE e.kind \in {"const", "hex", "char"} -> CExpr("int", e.value, C!Fits(e.value, "int"))
    [] e.kind = "uconst" -> CExpr("uint", e.value, C!Fits(e.value, "uint"))
    [] e.kind = "unary"  -> CUnary(e.op, InC(e.expr))
    [] e.kind = "binary" -> IF e.op \in Logical THEN CLogical(e.op, InC(e.lhs), InC(e.rhs))
                            ELSE CBinary(e.op, InC(e.lhs), InC(e.rhs))

(* Where eval() is known to leave C: a hexadecimal literal; an unsigned    *)
(* int, which it does not wrap; a negative number beside a truth value or  *)
(* a character in an operator that tells signs apart; and an operand that  *)
(* C does not evaluate and that has no value.                              *)
RECURSIVE IsUnsigned(_)
IsUnsigned(e) ==
  \/ e.kind = "char"
  \/ e.kind = "unary" /\ (e.op = "!" \/ IsUnsigned(e.expr))
  \/ /\ e.kind = "binary"
     /\ \/ e.op \in C!Relations \cup Logical
        \/ IsUnsigned(e.lhs)
        \/ IsUnsigned(e.rhs)

TellsSigns == {"/", "%", ">>", "<", ">", "<=", ">="}

RECURSIVE EvalDeparts(_)
EvalDeparts(e) ==
  \/ e.kind = "hex" /\ e.value # 0
  \/ e.kind = "uconst"
  \/ e.kind = "unary" /\ EvalDeparts(e.expr)
  \/ /\ e.kind = "binary"
     /\ \/ EvalDeparts(e.lhs)
        \/ EvalDeparts(e.rhs)
        \/ /\ e.op \in TellsSigns
           /\ (IsUnsigned(e.lhs) \/ IsUnsigned(e.rhs))
           /\ (InC(e.lhs).value < 0 \/ InC(e.rhs).value < 0)
        \/ e.op \in Logical /\ ~(InC(e.lhs).defined /\ InC(e.rhs).defined)
=============================================================================
