---------------------------- MODULE CArithmetic -----------------------------
(***************************************************************************)
(* Integer arithmetic as C99 defines it, on the numbers themselves: the    *)
(* conversions (6.3.1), the operators (6.5) and when their behaviour is    *)
(* defined.  Where C99 leaves the choice to the implementation, it is the  *)
(* one every compiler for these targets makes: two's complement, char is   *)
(* signed, conversion to a signed type wraps, >> of a negative number      *)
(* keeps the sign.  This is the reference that Expressions is checked      *)
(* against.                                                                *)
(***************************************************************************)
EXTENDS Integers

CONSTANTS
  IntTypes,    (* the integer types                                         *)
  TypeSize,    (* their sizes in bits                                       *)
  SignedTypes, (* those that are signed                                     *)
  Rank,        (* their integer conversion rank (6.3.1.1p1)                 *)
  UnsignedOf,  (* the unsigned type that corresponds to a signed one        *)
  CBool, CInt    (* _Bool and int                                             *)

Signed(t) == t \in SignedTypes

MinOf(t) == IF Signed(t) THEN -(2^(TypeSize[t] - 1)) ELSE 0
MaxOf(t) == IF Signed(t) THEN 2^(TypeSize[t] - 1) - 1 ELSE 2^TypeSize[t] - 1

Fits(v, t) == MinOf(t) <= v /\ v <= MaxOf(t)

(* 6.3.1.2 and 6.3.1.3                                                     *)
Convert(v, t) ==
  LET r == v % 2^TypeSize[t]
  IN  IF t = CBool THEN IF v = 0 THEN 0 ELSE 1
      ELSE IF r > MaxOf(t) THEN r - 2^TypeSize[t] ELSE r

(* 6.3.1.1p2                                                               *)
Promote(t) ==
  IF Rank[t] > Rank[CInt] \/ t = CInt THEN t
  ELSE IF MaxOf(t) <= MaxOf(CInt) THEN CInt
  ELSE UnsignedOf[CInt]

(* 6.3.1.8p1, the five cases for integer types: of a signed and an         *)
(* unsigned promoted type, and of two promoted types                       *)
Mixed(s, u) ==
  CASE Rank[u] >= Rank[s] -> u
    [] Rank[u] < Rank[s]  -> IF MaxOf(u) <= MaxOf(s) THEN s ELSE UnsignedOf[s]

CommonOf(a, b) ==
  CASE a = b -> a
    [] a # b /\ Signed(a) = Signed(b) -> IF Rank[a] > Rank[b] THEN a ELSE b
    [] Signed(a) # Signed(b) -> IF Signed(a) THEN Mixed(a, b) ELSE Mixed(b, a)

Common(t1, t2) == CommonOf(Promote(t1), Promote(t2))

-----------------------------------------------------------------------------
Abs(v) == IF v < 0 THEN -v ELSE v

(* 6.5.5p6: division truncates toward zero.                                *)
Quotient(a, b) ==
  LET q == Abs(a) \div Abs(b) IN IF (a < 0) = (b < 0) THEN q ELSE -q

Remainder(a, b) == a - b * Quotient(a, b)

(* The bits of a number in two's complement, from the lowest.              *)
Bit(v, k) == (v \div 2^k) % 2

RECURSIVE Bitwise(_, _, _, _)
Bitwise(op, a, b, k) ==
  LET x == Bit(a, k)
      y == Bit(b, k)
      z == CASE op = "&" -> x * y
             [] op = "|" -> x + y - x * y
             [] op = "^" -> (x + y) % 2
  IN  IF k = 0 THEN z ELSE z * 2^k + Bitwise(op, a, b, k - 1)

Truth(p) == IF p THEN 1 ELSE 0

Relations == {"==", "!=", "<", ">", "<=", ">="}
Shifts    == {"<<", ">>"}

ResultType(op, t1, t2) ==
  CASE op \in Relations -> CInt
    [] op \in Shifts    -> Promote(t1)
    [] OTHER            -> Common(t1, t2)

(* The mathematical result of op on converted operands of type t.          *)
Exact(op, t, a, b) ==
  CASE op = "+"  -> a + b
    [] op = "-"  -> a - b
    [] op = "*"  -> a * b
    [] op = "/"  -> Quotient(a, b)
    [] op = "%"  -> Remainder(a, b)
    [] op = "<<" -> a * 2^b
    [] op = ">>" -> a \div 2^b
    [] op = "==" -> Truth(a = b)
    [] op = "!=" -> Truth(a # b)
    [] op = "<"  -> Truth(a < b)
    [] op = ">"  -> Truth(a > b)
    [] op = "<=" -> Truth(a <= b)
    [] op = ">=" -> Truth(a >= b)
    [] OTHER     -> Convert(Bitwise(op, a, b, TypeSize[t] - 1), t)

(* The operands of op after its conversions: t is the type they share, or  *)
(* the promoted type of the left operand of a shift.                       *)
OperandType(op, t1, t2) == IF op \in Shifts THEN Promote(t1) ELSE Common(t1, t2)

Left(op, t1, v1, t2)  == Convert(v1, OperandType(op, t1, t2))
Right(op, t1, t2, v2) == IF op \in Shifts THEN v2
                         ELSE Convert(v2, OperandType(op, t1, t2))

IsDefined(op, t, a, b) ==
  /\ op \in {"/", "%"} => b # 0 /\ Fits(Quotient(a, b), t)
  /\ op \in Shifts => 0 <= b /\ b < TypeSize[t]
  /\ op = "<<" => a >= 0
  /\ Signed(t) => Fits(Exact(op, t, a, b), t)

Defined(op, t1, v1, t2, v2) ==
  IsDefined(op, OperandType(op, t1, t2), Left(op, t1, v1, t2), Right(op, t1, t2, v2))

Wrapped(op, t, r) == IF op \in Relations \/ Signed(t) THEN r ELSE r % 2^TypeSize[t]

Value(op, t1, v1, t2, v2) ==
  LET t == OperandType(op, t1, t2)
  IN  Wrapped(op, t, Exact(op, t, Left(op, t1, v1, t2), Right(op, t1, t2, v2)))

=============================================================================
