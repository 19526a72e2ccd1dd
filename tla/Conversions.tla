---------------------------- MODULE Conversions -----------------------------
(***************************************************************************)
(* The arithmetic types of the compiler and the conversions between them:  *)
(* the static functions of TypeChecker, which choose the types, and the    *)
(* functions of CodeGenModule that emit the LLVM casts.  An LLVM integer   *)
(* is its width and its bits, read as a natural number.                    *)
(*                                                                         *)
(* A definition X_Wrong (or runCast_Reinterpret) is a mistake one could     *)
(* make in X (in runCast).                                                 *)
(***************************************************************************)
EXTENDS Integers

(* enum class Types, in the order that the code compares                   *)
BOOL               == 1
CHAR               == 2
UNSIGNED_CHAR      == 3
SHORT              == 4
UNSIGNED_SHORT     == 5
INT                == 6
UNSIGNED_INT       == 7
LONG               == 8
UNSIGNED_LONG      == 9
LONG_LONG          == 10
UNSIGNED_LONG_LONG == 11
FLOAT              == 12
DOUBLE             == 13
LONG_DOUBLE        == 14

IntTypes   == BOOL..UNSIGNED_LONG_LONG
FloatTypes == FLOAT..LONG_DOUBLE
Types      == IntTypes \cup FloatTypes

CONSTANTS CharSize, ShortSize, IntSize, LongSize   (* in bits             *)

(* What holds of 8, 16, 32 and 64, the sizes on both targets.              *)
ASSUME SizesAreOrdered ==
  /\ {CharSize, ShortSize, IntSize, LongSize} \subseteq Nat
  /\ 1 < CharSize
  /\ CharSize <= ShortSize
  /\ ShortSize < IntSize
  /\ IntSize < LongSize

(* ABI::getTypeSize                                                        *)
TypeSize ==
  [t \in IntTypes |->
     CASE t = BOOL -> 1
       [] t \in {CHAR, UNSIGNED_CHAR} -> CharSize
       [] t \in {SHORT, UNSIGNED_SHORT} -> ShortSize
       [] t \in {INT, UNSIGNED_INT} -> IntSize
       [] t \in {LONG, UNSIGNED_LONG, LONG_LONG, UNSIGNED_LONG_LONG} -> LongSize]

-----------------------------------------------------------------------------
(* BasicType and TypeChecker                                               *)

isSigned(t) == t \notin {BOOL, UNSIGNED_CHAR, UNSIGNED_SHORT, UNSIGNED_INT,
                         UNSIGNED_LONG, UNSIGNED_LONG_LONG}

runIntegerPromotions(t) ==
  IF t <= INT THEN INT ELSE IF t <= UNSIGNED_INT THEN UNSIGNED_INT ELSE t

(* The larger of the promoted types, in the order of the enumeration.      *)
runUsualArithmeticConversions(lhs, rhs) ==
  LET l == runIntegerPromotions(lhs)
      r == runIntegerPromotions(rhs)
  IN  IF LONG_DOUBLE \in {lhs, rhs} THEN LONG_DOUBLE
      ELSE IF DOUBLE \in {lhs, rhs} THEN DOUBLE
      ELSE IF FLOAT \in {lhs, rhs} THEN FLOAT
      ELSE IF l > r THEN l ELSE r

-----------------------------------------------------------------------------
(* LLVM integers                                                           *)

IrInt(w, i) == [w |-> w, bits |-> i % 2^w]

Unsigned(val) == val.bits

Signed(val) ==
  IF 2 * val.bits >= 2^(val.w) THEN val.bits - 2^(val.w) ELSE val.bits

(* The number that val stands for as an object of type t.                  *)
Read(val, t) == IF isSigned(t) THEN Signed(val) ELSE Unsigned(val)

(* IRBuilder::CreateIntCast                                                *)
IntCast(val, w, signed) ==
  IrInt(w, IF signed THEN Signed(val) ELSE Unsigned(val))

(* the sign of the target type decides how the value is extended           *)
runCast_Wrong(val, initialType, expectedType) ==
  LET w == TypeSize[expectedType]
  IN  IF val.w = w THEN val
      ELSE IntCast(val, w, val.w # 1 /\ isSigned(expectedType))

(* CodeGenModule::runCast between integers; an i1 is never sign-extended.  *)
runCast(val, initialType, expectedType) ==
  LET w == TypeSize[expectedType]
  IN  IF val.w = w THEN val
      ELSE IntCast(val, w, val.w # 1 /\ isSigned(initialType))

(* CodeGenModule::runUsualArithmeticConversions                            *)
Convert(val, lhs, rhs) ==
  runCast(val, lhs, runUsualArithmeticConversions(lhs, rhs))

(* CodeGenModule::isNotZero                                                *)
isNotZero(val) == IrInt(1, IF val.bits # 0 THEN 1 ELSE 0)

=============================================================================
