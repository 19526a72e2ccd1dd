------------------------ MODULE MC_PreprocessorCheck ------------------------
(***************************************************************************)
(* Two object-like macros, which may lead to themselves or the other, and  *)
(* a function-like one that mentions itself.  A source begins with a       *)
(* condition of any shape, or is made of few kinds of lines.               *)
(***************************************************************************)
EXTENDS PreprocessorCheck

Object(n, v) == [name |-> n, params |-> <<>>, value |-> <<v>>]
Call(v) == [name |-> "F", params |-> <<"p">>, value |-> v]
MCDefinitions ==
    {Object("A", "A"), Object("A", "B"), Object("A", "1"), Object("B", "A"), Object("B", "2"),
     Call(<<"F", "p", "F">>)}
MCMacroNames == {"A"}
MCTexts == {<<"A">>, <<"F", "(", "A", ")">>, <<"F">>, <<"F", "(", "1", "+", "A", ")">>}

Name(n) == [op |-> "name", n |-> n]
IsDefined(n) == [op |-> "defined", n |-> n]
Not(a) == [op |-> "!", a |-> a]
Binary(op, a, b) == [op |-> op, a |-> a, b |-> b]
BinaryOps == UNION {Operators[l] : l \in DOMAIN Operators}

FewConditions == {Name("A"), Not(IsDefined("A")), Name("0")}
Leaves == {Name("0"), Name("1"), Name("B"), IsDefined("B")}
Unary == Leaves \cup {Not(a) : a \in Leaves} \cup {[op |-> "-1"]}
Simple == {Binary(op, a, b) : op \in BinaryOps, a \in Leaves, b \in Unary}
Inner == {Binary(op, a, b) : op \in {"||", "&&", "==", "+"}, a \in Leaves, b \in {Name("0"), Name("B")}}
AllConditions ==
    Unary \cup Simple \cup {Not(a) : a \in Inner}
    \cup {Binary(op, a, b) : op \in {"||", "&&", "=="}, a \in Inner, b \in Leaves}
    \cup {Binary(op, a, b) : op \in {"||", "&&", "=="}, a \in Leaves, b \in Inner}

(***************************************************************************)
(* A condition of any shape comes after at most one #define and one #if,   *)
(* and its line is the last of the source.                                 *)
(***************************************************************************)
RichPrefixes ==
    LET defineB == [k |-> "define", d |-> Object("B", "2")]
        ifA == [k |-> "if", e |-> Name("A")]
    IN {<<>>, <<defineB>>, <<ifA>>, <<defineB, ifA>>}
MCConditions(lines) == IF lines \in RichPrefixes THEN AllConditions ELSE FewConditions

IsRich(line) == line.k \in {"if", "elif"} /\ line.e \notin FewConditions
Bounded ==
    /\ \A i \in 1..(Len(source) - 1) : ~IsRich(source[i])
    /\ CountOf({"define"}, 1, Len(source)) <= 2
=============================================================================
