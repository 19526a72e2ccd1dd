--------------------------- MODULE InitialValues ---------------------------
(***************************************************************************)
(* The value that C gives an object by its initializer (C99 6.7.8), and    *)
(* the initializers that the compiler is known to get wrong.               *)
(***************************************************************************)
EXTENDS Initializers

TakesAll(t, init) ==
  ~isAggregate(t) \/ init.kind \in {"list", "copy"} \/ (init.kind = "str" /\ isString(t))

Converted(t, init) ==
  CASE IsConstantExpression(init) ->
         IF t = BOOL THEN C!Truth(InC(init).value # 0) ELSE Cut(t, InC(init).value)
    [] init.kind = "name"  -> 1
    [] init.kind = "addr"  -> ToObject
    [] init.kind = "str"   -> ToLetters
    [] OTHER               -> Computed

(* a scalar of the type may be initialized with the expression             *)
Assignable(t, init) ==
  IF IsConstantExpression(init)
  THEN InC(init).defined /\ (t = PTR => InC(init).value = 0)
  ELSE init.kind \in IF t = PTR THEN {"addr", "str"} ELSE {"name", "var"}

(* The items from p on initialize the members of t in order; an aggregate  *)
(* without braces of its own takes as many items as it has members.        *)
RECURSIVE InitialValue(_, _), Spread(_, _, _)
Spread(t, items, p) ==
  LET step(done, m) ==
        IF done.next > Len(items)
        THEN [done EXCEPT !.value = @ \o getNullValue(m)]
        ELSE IF TakesAll(m, items[done.next])
        THEN LET one == InitialValue(m, items[done.next])
             IN  [value |-> done.value \o one.value, next |-> done.next + 1,
                  legal |-> done.legal /\ one.legal]
        ELSE LET some == Spread(m, items, done.next)
             IN  [some EXCEPT !.value = done.value \o @, !.legal = @ /\ done.legal]
  IN  FoldLeft(step, [value |-> << >>, next |-> p, legal |-> TRUE], Members(t))

InitialValue(t, init) ==
  IF init.kind = "list"
  THEN IF ~isAggregate(t) \/ (isString(t) /\ init.items[1].kind = "str")
       THEN LET one == InitialValue(t, init.items[1])
            IN  [one EXCEPT !.legal = @ /\ Len(init.items) = 1 /\ init.items[1].kind # "list"]
       ELSE LET all == Spread(t, init.items, 1)
            IN  [value |-> all.value, legal |-> all.legal /\ all.next > Len(init.items)]
  ELSE IF init.kind = "str" /\ isString(t)
  THEN [value |-> Letters(init.length, t.size), legal |-> init.length <= t.size]
  ELSE IF init.kind = "copy"
  THEN [value |-> [i \in 1..Size(t) |-> Computed], legal |-> t.kind = "struct"]
  ELSE IF isAggregate(t) THEN [value |-> << >>, legal |-> FALSE]
  ELSE [value |-> <<Converted(t, init)>>, legal |-> Assignable(t, init)]

IsLegal(shape) == InitialValue(shape[1], shape[2]).legal

RECURSIVE Expressions(_)
Expressions(init) ==
  IF init.kind = "list" THEN UNION {Expressions(init.items[i]) : i \in DOMAIN init.items}
  ELSE {init}

IsConstant(init) == \A e \in Expressions(init) : e.kind \notin {"var", "copy"}

-----------------------------------------------------------------------------
(* The declarations the compiler is known to get wrong                     *)

(* Brace elision, or braces around one scalar or one literal.              *)
RECURSIVE UnlikeItsType(_, _)
UnlikeItsType(t, init) ==
  IF init.kind = "list"
  THEN \/ ~isAggregate(t)
       \/ isString(t) /\ init.items[1].kind = "str"
       \/ \E i \in DOMAIN init.items :
            i > Len(Members(t)) \/ UnlikeItsType(Members(t)[i], init.items[i])
  ELSE ~TakesAll(t, init)

(* the scalars and strings of t with their initializers                    *)
RECURSIVE Leaves(_, _)
Leaves(t, init) ==
  IF init.kind = "list"
  THEN UNION {Leaves(Members(t)[i], init.items[i]) : i \in DOMAIN init.items}
  ELSE {<<t, init>>}

(* What eval() cannot say: addresses, enumeration constants, and anything  *)
(* of an enumeration type.                                                 *)
NotEvaluated(leaf) == leaf[2].kind \in {"addr", "name", "var", "copy"} \/ leaf[1] = ENUM

ShortString(leaf) ==
  isString(leaf[1]) /\ leaf[2].kind = "str" /\ leaf[2].length + 1 < leaf[1].size

Departs(shape, isStatic) ==
  LET t == shape[1]
      init == shape[2]
      leaves == Leaves(t, init)
  IN  /\ init # NoInit
      /\ \/ t = ENUM
         \/ UnlikeItsType(t, init)
         \/ \E leaf \in leaves : leaf[1] = BOOL /\ leaf[2].kind = "const" /\ leaf[2].value > 1
         \/ \E leaf \in leaves : IsConstantExpression(leaf[2]) /\ EvalDeparts(leaf[2])
         \/ isStatic /\ \E leaf \in leaves : NotEvaluated(leaf)
         \/ /\ \E leaf \in leaves : NotEvaluated(leaf)
            /\ \E leaf \in leaves : ShortString(leaf)

(* An object without an initializer begins with null if it is static.      *)
BeginsWith(shape, isStatic) ==
  IF shape[2] # NoInit THEN InitialValue(shape[1], shape[2]).value
  ELSE IF isStatic THEN getNullValue(shape[1]) ELSE Anything(shape[1])

HasOperators(init) == IsConstantExpression(init) /\ init.kind # "const"

=============================================================================
