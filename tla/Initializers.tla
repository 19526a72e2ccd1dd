---------------------------- MODULE Initializers ----------------------------
(***************************************************************************)
(* What CodeGenModule makes of an initializer: visitAsConstant computes a  *)
(* constant of LLVM, or throws; visitAsStore emits stores into memory.     *)
(* An initializer is an expression or a list in braces.  A type is a       *)
(* scalar or an aggregate, and a value is the sequence of its scalars.     *)
(*                                                                         *)
(* A definition X_Wrong is a mistake one could make in X: no action uses   *)
(* it, and it is there to show which property rules it out.                *)
(***************************************************************************)
EXTENDS ConstEval, Sequences, FiniteSets, SequencesExt

Scalar(kind) == [kind |-> kind]
INT  == Scalar("int")
LONG == Scalar("long")
BOOL == Scalar("bool")
CHAR == Scalar("char")
PTR  == Scalar("ptr")
ENUM == Scalar("enum")
ArrayOf(t, n)     == [kind |-> "array", of |-> t, size |-> n]
StructOf(members) == [kind |-> "struct", members |-> members]

isBasic(t) == t.kind \in {"int", "long", "bool", "char"}
isAggregate(t) == t.kind \in {"array", "struct"}
isString(t) == t.kind = "array" /\ t.of = CHAR

Members(t) == IF t.kind = "array" THEN [i \in 1..t.size |-> t.of] ELSE t.members

(* Expressions: the constant expressions of ConstEval, a string literal,   *)
(* the address of an object, an enumeration constant, a value known only   *)
(* at run time, and an object of the type that is initialized.             *)
Str(n)      == [kind |-> "str", length |-> n]
Address     == [kind |-> "addr"]
EnumConst   == [kind |-> "name"]
RunTime     == [kind |-> "var"]
Copy        == [kind |-> "copy"]
List(items) == [kind |-> "list", items |-> items]
NoInit      == [kind |-> "none"]

(* scalars that are not small numbers                                      *)
ToObject  == 100    \* a pointer to an object
ToLetters  == 101    \* a pointer to the characters of a literal
Computed  == 102    \* what the program computes at run time
Undefined == 103    \* whatever the memory holds
Letter    == 104    \* a character of a literal

RECURSIVE Size(_)
Size(t) == IF isAggregate(t)
           THEN FoldLeft(LAMBDA n, m : n + Size(m), 0, Members(t))
           ELSE 1

getNullValue(t) == [i \in 1..Size(t) |-> 0]
Anything(t) == [i \in 1..Size(t) |-> Undefined]

(* where the scalars of member i begin, less one                           *)
Before(t, i) == FoldLeft(LAMBDA n, m : n + Size(m), 0, SubSeq(Members(t), 1, i - 1))
Member(t, i, value) == [j \in 1..Size(Members(t)[i]) |-> value[Before(t, i) + j]]

Done(value) == [outcome |-> "done", value |-> value]
Thrown == [outcome |-> "thrown"]
Broken == [outcome |-> "undefined"]     \* undefined behaviour of the compiler

(* Done in order: the first that goes wrong ends it.                       *)
InOrder(results) ==
  LET wrong == {i \in DOMAIN results : results[i].outcome # "done"}
  IN  IF wrong = {} THEN Done(FlattenSeq([i \in DOMAIN results |-> results[i].value]))
      ELSE results[CHOOSE i \in wrong : \A j \in wrong : i <= j]

(* the characters of a literal in an array of n of them                    *)
Letters(length, n) == [i \in 1..n |-> IF i <= length THEN Letter ELSE 0]

-----------------------------------------------------------------------------
(* TypeChecker: the type of an initializer, and BaseType::operator==, <    *)

RECURSIVE TypeOf(_, _)
TypeOf(init, t) ==
  CASE IsConstantExpression(init) \/ init.kind \in {"name", "var"} -> INT
    [] init.kind = "str"  -> ArrayOf(CHAR, init.length + 1)
    [] init.kind = "addr" -> PTR
    [] init.kind = "copy" -> t
    [] init.kind = "list" -> ArrayOf(TypeOf(init.items[Len(init.items)], t), Len(init.items))

(* an ArrayType is a PtrType, whatever it is an array of                   *)
Compatible(actual, expected) ==
  CASE isBasic(actual) -> isBasic(expected) \/ expected.kind \in {"ptr", "array"}
    [] actual.kind = "ptr"    -> expected.kind \in {"ptr", "array"}
    [] actual.kind = "array"  -> expected.kind \in {"ptr", "array", "struct"}
    [] actual.kind = "enum"   -> isBasic(expected)
    [] actual.kind = "struct" -> FALSE

checkType(init, t) == TypeOf(init, t) = t \/ Compatible(TypeOf(init, t), t)

-----------------------------------------------------------------------------
(* the rest of an aggregate is zero                                        *)
Fill(t, values) == [i \in 1..Size(t) |-> IF i <= Len(values) THEN values[i] ELSE 0]

(* ConstantInt::get cuts the value to the width of the type.               *)
Cut(t, v) == IF t.kind \in {"int", "long"} THEN C!Convert(v, t.kind) ELSE v

(* a null pointer constant is not told from other integers                 *)
Evaluated_Wrong(t, init) ==
  LET v == eval(init) IN
  CASE t.kind = "array" /\ init.kind = "str" -> Done(Letters(init.length, t.size))
    [] t.kind = "ptr"   /\ init.kind = "str" -> Done(<<ToLetters>>)
    [] v = Undefined64 -> Broken
    [] isBasic(t) /\ IsValue(v) -> Done(<<Cut(t, getInt(v))>>)
    [] OTHER -> Thrown

(* Init where no store is under way: what eval() can say of an expression. *)
Evaluated(t, init) ==
  LET v == eval(init) IN
  CASE t.kind = "array" /\ init.kind = "str" -> Done(Letters(init.length, t.size))
    [] t.kind = "ptr"   /\ init.kind = "str" -> Done(<<ToLetters>>)
    [] v = Undefined64 -> Broken
    [] t.kind = "ptr" /\ IsValue(v) /\ getUInt(v) = 0 -> Done(<<0>>)
    [] isBasic(t) /\ IsValue(v) -> Done(<<Cut(t, getInt(v))>>)
    [] OTHER -> Thrown

RECURSIVE visitAsConstant(_, _)

(* Item i of a list: a struct has no member past its last one, an array is *)
(* made too long; and a scalar has no members at all.                      *)
visitRecursiveConst(t, items) ==
  LET expected(i) == IF t.kind = "array" THEN t.of ELSE t.members[i]
      result == InOrder([i \in DOMAIN items |->
                  IF t.kind = "array" \/ i <= Len(t.members)
                  THEN visitAsConstant(expected(i), items[i]) ELSE Broken])
  IN  IF ~isAggregate(t) THEN Broken
      ELSE IF result.outcome # "done" THEN result
      ELSE IF Len(items) > Len(Members(t)) THEN Broken
      ELSE Done(Fill(t, result.value))

visitAsConstant(t, init) ==
  IF init.kind = "list" THEN visitRecursiveConst(t, init.items) ELSE Evaluated(t, init)

-----------------------------------------------------------------------------
(* visitAsCastedRValue: runCast turns a pointer to characters into some    *)
(* integer, and cuts an integer for a _Bool short.                         *)
Casted(t, init) ==
  CASE init.kind = "const" -> init.value
    [] init.kind = "name"  -> 1
    [] init.kind = "var"   -> Computed
    [] init.kind = "addr"  -> IF t = PTR THEN ToObject ELSE Undefined
    [] init.kind = "str"   -> IF t = PTR THEN ToLetters ELSE Undefined
    [] OTHER -> Undefined

(* An aggregate from an expression.  The whole array is copied from a      *)
(* pointer, however short the literal is; an array is not stored at all    *)
(* from a scalar, a struct is copied from a temporary of the scalar's size.*)
Copied(t, init, before) ==
  CASE init.kind = "copy" -> [i \in 1..Size(t) |-> Computed]
    [] init.kind = "str" /\ isString(t) ->
         [i \in 1..Size(t) |-> CASE i <= init.length -> Letter
                                 [] i = init.length + 1 -> 0
                                 [] OTHER -> Undefined]
    [] init.kind \in {"str", "addr"} -> Anything(t)
    [] t.kind = "array" -> before
    [] OTHER -> [i \in 1..Size(t) |-> IF i = 1 THEN Casted(INT, init) ELSE Undefined]

RECURSIVE visitAsStore(_, _, _)

(* Item i of a list is stored at member i; past the last member there is   *)
(* no type to look up (struct) or no memory to store to (array), and the   *)
(* list of a scalar has no element to point at.                            *)
visitRecursiveStore(t, items, before) ==
  LET past(i) == IF t.kind = "array" /\ t.of.kind = "array"
                    /\ items[i].kind \in {"const", "name", "var"}
                 THEN Done(<< >>) ELSE Broken
      stored(i) == IF i > Len(Members(t)) THEN past(i)
                   ELSE IF i <= Len(items)
                   THEN visitAsStore(Members(t)[i], items[i], Member(t, i, before))
                   ELSE Done(Member(t, i, before))
      last == IF Len(items) > Len(Members(t)) THEN Len(items) ELSE Len(Members(t))
  IN  IF isAggregate(t) THEN InOrder([i \in 1..last |-> stored(i)]) ELSE Broken

visitAsStore(t, init, before) ==
  IF init.kind = "list" THEN visitRecursiveStore(t, init.items, before)
  ELSE IF isAggregate(t) THEN Done(Copied(t, init, before))
  ELSE Done(<<Casted(t, init)>>)

-----------------------------------------------------------------------------
(* An automatic object: an aggregate is tried as a constant and, if that   *)
(* throws, cleared and stored item by item; a scalar is stored.            *)
AutoValue(t, init) ==
  IF init = NoInit THEN Done(Anything(t))
  ELSE IF isAggregate(t)
  THEN IF visitAsConstant(t, init).outcome = "thrown"
       THEN visitAsStore(t, init, getNullValue(t))
       ELSE visitAsConstant(t, init)
  ELSE visitAsStore(t, init, Anything(t))

CopiedFromGlobal(t, init) ==
  init # NoInit /\ isAggregate(t) /\ visitAsConstant(t, init).outcome = "done"

(* The initializer of an object with static storage duration; << >> stands *)
(* for none.                                                               *)
StaticValue(t, init, hasExtern) ==
  IF init # NoInit THEN visitAsConstant(t, init)
  ELSE IF ~hasExtern THEN Done(getNullValue(t))
  ELSE Done(<< >>)
=============================================================================
