---------------------------- MODULE MC_ExprCheck ----------------------------
(* The instances of ExprCheck that TLC explores.                           *)
EXTENDS ExprCheck

AllTypes == IntTypes
ObjTypes == {BOOL, CHAR, UNSIGNED_CHAR, INT, UNSIGNED_INT, LONG}
MixedTypes == {BOOL, CHAR, INT, UNSIGNED_INT, LONG}
IntOnly == {INT}

PureFeatures   == {"operand", "cast", "unary", "binary", "shift", "logical",
                   "ternary"}
ObjectFeatures == {"operand", "object", "cast", "assign", "compound",
                   "compound value", "postfix", "prefix"}
=============================================================================
