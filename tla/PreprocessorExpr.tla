-------------------------- MODULE PreprocessorExpr --------------------------
(***************************************************************************)
(* Macros, their expansion and the evaluation of the conditions of #if and *)
(* #elif, as the preprocessor does them on tokens.  Variadic macros, # and *)
(* ##, and the two built-in names are left out.                            *)
(***************************************************************************)
EXTENDS Integers, SequencesExt

(***************************************************************************)
(* A token has a type and a raw view.  The view is a sequence of names,    *)
(* because the code replaces the text of a parameter by the text of a      *)
(* whole argument and keeps the type of the token.                         *)
(***************************************************************************)
Numbers == [n \in {"0", "1", "2"} |-> CASE n = "0" -> 0 [] n = "1" -> 1 [] OTHER -> 2]
Punctuators == {"(", ")", ",", " ", "!", "&&", "||", "==", "!=", "<", ">", "<=", ">=", "+", "-", "*", "/", "END"}

Token(n) == [type |-> IF n \in Punctuators THEN n
                      ELSE IF n \in DOMAIN Numbers THEN "NUMBER" ELSE "IDENTIFIER",
             view |-> <<n>>]
Blob(n) == [type |-> "BLOB", view |-> <<n>>]
Reject(n) == [type |-> "REJECT_MACRO", view |-> <<n>>]
Tokens(ns) == [i \in DOMAIN ns |-> Token(ns[i])]
Views(ts) == FlattenSeq([i \in DOMAIN ts |-> ts[i].view])

(***************************************************************************)
(* A macro has a name, the names of its parameters (none for one that is   *)
(* like an object) and the tokens of its value.                            *)
(***************************************************************************)
Defined(symTable, view) == \E m \in symTable : view = <<m.mName>>
Macro(symTable, view) == CHOOSE m \in symTable : view = <<m.mName>>

(***************************************************************************)
(* What a #define line stores.  A macro's own name is stored as a blob, so *)
(* that it is not expanded again, except where it comes first.             *)
(***************************************************************************)
ExtractValue(name, ns) ==
    IF ns = <<>> THEN Tokens(<<"1">>)
    ELSE [i \in DOMAIN ns |-> IF i > 1 /\ ns[i] = name THEN Blob(name) ELSE Token(ns[i])]

-----------------------------------------------------------------------------
(***************************************************************************)
(* The arguments of a call, read from what follows "(" or ",".  An         *)
(* argument ends at a comma or bracket that none of its brackets contains; *)
(* one that is empty ends the list.  The tokens hold a whole call.         *)
(***************************************************************************)
Nesting(ts, n) == Cardinality({i \in 1..n : ts[i].type = "("}) - Cardinality({i \in 1..n : ts[i].type = ")"})
IsArgEnd(ts, n) == n > 1 /\ ts[n].type \in {",", ")"} /\ Nesting(ts, n - 1) = 0

RECURSIVE ReadArgs(_, _)
ReadArgs(args, ts) ==
    IF Head(ts).type \in {",", ")"} THEN [args |-> args, rest |-> Tail(ts)]
    ELSE LET n == CHOOSE n \in DOMAIN ts : IsArgEnd(ts, n) /\ \A k \in 1..(n - 1) : ~IsArgEnd(ts, k)
             read == Append(args, SubSeq(ts, 1, n - 1))
             rest == SubSeq(ts, n + 1, Len(ts))
         IN IF ts[n].type = ")" THEN [args |-> read, rest |-> rest] ELSE ReadArgs(read, rest)

(***************************************************************************)
(* One parameter after the other is replaced in the list, also where an    *)
(* earlier replacement put its name.                                       *)
(***************************************************************************)
Substitute(mValue, mArgsNames, args) ==
    LET ReplaceOne(list, i) ==
            [k \in DOMAIN list |->
               IF list[k].type = "IDENTIFIER" /\ list[k].view = <<mArgsNames[i]>>
               THEN [list[k] EXCEPT !.view = Views(args[i])] ELSE list[k]]
    IN FoldLeft(ReplaceOne, mValue, [i \in 1..Len(args) |-> i])

(***************************************************************************)
(* _expandMacroDefinition: the tokens that replace the name of macro m,    *)
(* what is left of the tokens ts behind it (none is the end of the line),  *)
(* and what it pushes on mContextStack.  A function-like macro whose name  *)
(* is not followed by a bracket is pushed, too, and nothing rejects it.    *)
(***************************************************************************)
ExpandMacroDefinition(m, spaced) ==
    LET ts == SelectSeq(spaced, LAMBDA t : t.type # " ")
        call == ReadArgs(<<>>, Tail(ts))
    IN IF m.mArgsNames = <<>> THEN [out |-> m.mValue, rest |-> spaced, pushed |-> <<>>]
       ELSE IF ts = <<>> \/ Head(ts).type # "("
       THEN [out |-> <<Blob(m.mName)>>, rest |-> ts, pushed |-> <<m.mName>>]
       ELSE [out |-> Append(Substitute(m.mValue, m.mArgsNames, call.args), Reject(m.mName)),
             rest |-> call.rest, pushed |-> <<m.mName>>]

-----------------------------------------------------------------------------
(***************************************************************************)
(* _evaluateExpression is a recursive descent whose closures erase tokens  *)
(* from the front of one vector: a level goes on with what the one below   *)
(* has left.  The result r has the value, the tokens left, what was pushed *)
(* on mContextStack, and whether the evaluation returns at all.            *)
(***************************************************************************)
DropSpaces(ts) == LET n == SelectInSeq(ts, LAMBDA t : t.type # " ") IN SubSeq(ts, n, Len(ts))

Operators == <<{"||"}, {"&&"}, {"==", "!="}, {"<", ">", "<=", ">="}, {"+", "-"}, {"*", "/"}>>

\* A quotient is truncated; one by zero is 0.
Quotient(a, b) ==
    LET Size(n) == IF n < 0 THEN -n ELSE n
    IN IF b = 0 THEN 0 ELSE (Size(a) \div Size(b)) * (IF (a < 0) = (b < 0) THEN 1 ELSE -1)

Apply(op, a, b) ==
    LET Truth(p) == IF p THEN 1 ELSE 0
    IN CASE op = "||" -> Truth(a # 0 \/ b # 0)  [] op = "&&" -> Truth(a # 0 /\ b # 0)
         [] op = "==" -> Truth(a = b)           [] op = "!=" -> Truth(a # b)
         [] op = "<" -> Truth(a < b)            [] op = ">" -> Truth(a > b)
         [] op = "<=" -> Truth(a <= b)          [] op = ">=" -> Truth(a >= b)
         [] op = "+" -> a + b                   [] op = "-" -> a - b
         [] op = "*" -> a * b                   [] op = "/" -> Quotient(a, b)

Flip(v) == IF v % 2 = 0 THEN v + 1 ELSE v - 1
Result(v, ts) == [v |-> v, ts |-> ts, pushed |-> <<>>, returns |-> TRUE]

RECURSIVE EvalLevel(_, _, _, _), EvalRest(_, _, _, _)

EvaluateExpression(ts, symTable, seen) == EvalLevel(1, Append(ts, Token("END")), symTable, seen)

(***************************************************************************)
(* seen holds the macros whose value is being evaluated: one that comes up *)
(* again recurs without end, whatever mContextStack holds, unless it needs *)
(* a call and has none.  After `defined (X)' the bracket is left, and      *)
(* after a bracketed expression all of it but its first bracket is.        *)
(***************************************************************************)
EvalPrimary(spaced, symTable, seen) ==
    LET ts == DropSpaces(spaced)
        t == Head(ts)
        Skip(s) == DropSpaces(Tail(s))
        m == Macro(symTable, t.view)
        x == ExpandMacroDefinition(m, Tail(ts))
        value == EvaluateExpression(x.out, symTable, seen \cup {m.mName})
    IN CASE t.view = <<"defined">> ->
              Result(IF Defined(symTable, Head(Skip(Skip(ts))).view) THEN 1 ELSE 0, Skip(Skip(Skip(ts))))
         [] t.type = "NUMBER" -> Result(Numbers[t.view[1]], Tail(ts))
         [] t.type = "IDENTIFIER" /\ t.view # <<"defined">> ->
              IF ~Defined(symTable, t.view)
              THEN Result(IF t.view[1] \in DOMAIN Numbers THEN Numbers[t.view[1]] ELSE 0, Tail(ts))
              ELSE IF m.mName \in seen /\ x.out # <<Blob(m.mName)>> THEN [Result(0, ts) EXCEPT !.returns = FALSE]
              ELSE [value EXCEPT !.ts = Tail(ts), !.pushed = x.pushed \o @]
         [] t.type = "(" -> [EvaluateExpression(Tail(ts), symTable, seen) EXCEPT !.ts = Tail(ts)]
         [] OTHER -> Result(0, ts)

\* A not is looked at again and again, too.
EvalUnary_Wrong(spaced, symTable, seen) ==
    LET ts == DropSpaces(spaced)
    IN IF Head(ts).type \in {"-", "!"} THEN [Result(0, ts) EXCEPT !.returns = FALSE]
       ELSE EvalPrimary(ts, symTable, seen)

(***************************************************************************)
(* A minus in front of an operand is looked at again and again.            *)
(***************************************************************************)
EvalUnary(spaced, symTable, seen) ==
    LET ts == DropSpaces(spaced)
        n == SelectInSeq(ts, LAMBDA t : t.type # "!")
        operand == SubSeq(ts, n, Len(ts))
        r == EvalPrimary(operand, symTable, seen)
    IN IF Head(operand).type = "-" THEN [Result(0, operand) EXCEPT !.returns = FALSE]
       ELSE [r EXCEPT !.v = IF n % 2 = 0 THEN Flip(@) ELSE @]

EvalLevel(l, ts, symTable, seen) ==
    IF l > Len(Operators) THEN EvalUnary(ts, symTable, seen)
    ELSE LET r == EvalLevel(l + 1, ts, symTable, seen)
         IN EvalRest(l, IF l = 2 /\ r.returns THEN [r EXCEPT !.ts = DropSpaces(@)] ELSE r, symTable, seen)

(***************************************************************************)
(* && and || are those of C++: a right operand that does not matter is not *)
(* evaluated, and its tokens stay.                                         *)
(***************************************************************************)
EvalRest(l, r, symTable, seen) ==
    LET op == Head(r.ts).type
        ts == Tail(r.ts)
        right == EvalLevel(l + 1, ts, symTable, seen)
        decided == (op = "&&" /\ r.v = 0) \/ (op = "||" /\ r.v # 0)
    IN IF ~r.returns \/ op \notin Operators[l] THEN r
       ELSE EvalRest(l, IF decided THEN [r EXCEPT !.v = Apply(op, @, 0), !.ts = ts]
                        ELSE [right EXCEPT !.v = Apply(op, r.v, @), !.pushed = r.pushed \o @],
                     symTable, seen)
=============================================================================
