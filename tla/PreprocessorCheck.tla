-------------------------- MODULE PreprocessorCheck --------------------------
(***************************************************************************)
(* What C99 6.10.1, 6.10.2 and 6.10.3 make of the lines that were given to *)
(* the preprocessor, stated on the whole source and not on a state, and    *)
(* the properties that compare the two.                                    *)
(***************************************************************************)
EXTENDS Preprocessor

Opens(i) == source[i].k \in {"if", "ifdef", "ifndef"}
Depth(i, j) == Cardinality({k \in i..j : Opens(k)}) - Cardinality({k \in i..j : source[k].k = "endif"})

\* The conditional section that line j opens contains the place before line i.
Encloses(j, i) == Opens(j) /\ \A k \in j..(i - 1) : Depth(j, k) > 0

\* The lines of that section that begin a group, before line i.
Heads(j, i) == {j} \cup {k \in (j + 1)..(i - 1) : source[k].k \in {"elif", "else"} /\ Depth(j, k) = 1}

(***************************************************************************)
(* The value of a condition where the macros M are defined; M holds what   *)
(* #define lines say.  A name that is no macro is 0; one that is like an   *)
(* object stands for its first token, all the values here have.            *)
(***************************************************************************)
Find(M, n) == CHOOSE d \in M : d.name = n
IsMacro(M, n) == \E d \in M : d.name = n
IsFunctionLike(M, n) == IsMacro(M, n) /\ Find(M, n).params # <<>>

RECURSIVE CNumber(_, _)
CNumber(M, n) ==
    IF n \in DOMAIN Numbers THEN Numbers[n]
    ELSE IF ~IsMacro(M, n) THEN 0 ELSE CNumber(M \ {Find(M, n)}, Find(M, n).value[1])

RECURSIVE CValue(_, _)
CValue(M, e) ==
    CASE e.op = "name" -> CNumber(M, e.n)
      [] e.op = "call" -> 1
      [] e.op = "-1" -> -1
      [] e.op = "defined" -> IF IsMacro(M, e.n) THEN 1 ELSE 0
      [] e.op = "!" -> IF CValue(M, e.a) = 0 THEN 1 ELSE 0
      [] OTHER -> Apply(e.op, CValue(M, e.a), CValue(M, e.b))

Truth(M, line) ==
    CASE line.k \in {"if", "elif"} -> CValue(M, line.e) # 0
      [] line.k = "ifdef" -> IsMacro(M, line.n)
      [] line.k = "ifndef" -> ~IsMacro(M, line.n)
      [] OTHER -> TRUE

(***************************************************************************)
(* Line i is in a group that is processed if in each section around it the *)
(* group is the first one whose condition is true.  macros[k] are those    *)
(* defined before line k.                                                  *)
(***************************************************************************)
IsActive(macros, i) ==
    \A j \in 1..(i - 1) : Encloses(j, i) =>
        LET group == Max(Heads(j, i))
        IN /\ Truth(macros[group], source[group])
           /\ \A k \in Heads(j, i) \ {group} : ~Truth(macros[k], source[k])

MacrosBefore ==
    LET After(macros, i) ==
            LET line == source[i]
                M == macros[i]
            IN IF ~IsActive(macros, i) THEN M
               ELSE CASE line.k = "define" -> M \cup {line.d}
                      [] line.k = "undef" -> {d \in M : d.name # line.n}
                      [] OTHER -> M
    IN FoldLeft(LAMBDA macros, i : Append(macros, After(macros, i)), <<{}>>, [i \in DOMAIN source |-> i])

Active(i) == IsActive(MacrosBefore, i)

-----------------------------------------------------------------------------
(***************************************************************************)
(* Macro replacement after 6.10.3: arguments are expanded before they      *)
(* replace the parameters, all at once, and the result is expanded with    *)
(* what follows, except for the macros each name came from (hides).        *)
(***************************************************************************)
Plain(ns) == [i \in DOMAIN ns |-> [n |-> ns[i], hides |-> {}]]
Hide(ts, hides) == [i \in DOMAIN ts |-> [ts[i] EXCEPT !.hides = @ \cup hides]]
Count(ts, i, n) == Cardinality({k \in 1..i : ts[k].n = n})
NestingAt(ts, i) == Count(ts, i, "(") - Count(ts, i, ")")

CArguments(ts) ==
    LET close == Min({i \in DOMAIN ts : NestingAt(ts, i) = 0})
        commas == {i \in 2..(close - 1) : ts[i].n = "," /\ NestingAt(ts, i) = 1}
        ends == SetToSortSeq({1, close} \cup commas, LAMBDA a, b : a < b)
    IN [args |-> [k \in 1..(Len(ends) - 1) |-> SubSeq(ts, ends[k] + 1, ends[k + 1] - 1)],
        rest |-> SubSeq(ts, close + 1, Len(ts))]

RECURSIVE CExpand(_, _)
CExpand(M, ts) ==
    IF ts = <<>> THEN <<>>
    ELSE LET t == Head(ts)
             rest == Tail(ts)
             d == Find(M, t.n)
             hides == t.hides \cup {t.n}
             call == CArguments(rest)
             Replace(n) == LET p == SelectInSeq(d.params, LAMBDA q : q = n)
                           IN IF p = 0 THEN Plain(<<n>>) ELSE CExpand(M, call.args[p])
         IN IF ~IsMacro(M, t.n) \/ t.n \in t.hides THEN <<t>> \o CExpand(M, rest)
            ELSE IF d.params = <<>> THEN CExpand(M, Hide(Plain(d.value), hides) \o rest)
            ELSE IF rest = <<>> \/ Head(rest).n # "(" THEN <<t>> \o CExpand(M, rest)
            ELSE CExpand(M, Hide(FlattenSeq([i \in DOMAIN d.value |-> Replace(d.value[i])]), hides) \o call.rest)

CText(M, ns) == LET ts == CExpand(M, Plain(ns)) IN [i \in DOMAIN ts |-> ts[i].n]

COutput ==
    LET macros == MacrosBefore
    IN FlattenSeq([i \in DOMAIN source |->
           IF source[i].k = "text" /\ IsActive(macros, i) THEN CText(macros[i], source[i].ns) ELSE <<>>])

-----------------------------------------------------------------------------
(***************************************************************************)
(* The sources that violate no constraint: an #endif, #elif or #else has   *)
(* its #if in the same file and no #else before it, a file ends in none of *)
(* the sections it opened, and no macro is defined twice.                  *)
(***************************************************************************)
CountOf(kinds, i, j) == Cardinality({k \in i..j : source[k].k \in kinds})

InOneFile(j, i) == CountOf({"include"}, j, i) = CountOf({"end"}, j, i)

IsValid ==
    LET macros == MacrosBefore
    IN \A i \in DOMAIN source :
         /\ source[i].k \in {"elif", "else", "endif"} =>
              \E j \in 1..(i - 1) :
                 /\ Encloses(j, i)
                 /\ Depth(j, i - 1) = 1
                 /\ InOneFile(j, i)
                 /\ source[i].k # "endif" => \A k \in Heads(j, i) : source[k].k # "else"
         /\ source[i].k = "end" => \A j \in 1..(i - 1) : Encloses(j, i) => InOneFile(j, i)
         /\ source[i].k = "define" /\ IsActive(macros, i) => ~IsMacro(macros[i], source[i].d.name)

(***************************************************************************)
(* The departures from C.  Some texts: a mention of a function-like macro  *)
(* without a call, in a skipped group, too; an argument that is not one    *)
(* token, or is the name of a parameter.                                   *)
(***************************************************************************)
TextDeparts(M, ns) ==
    \E i \in DOMAIN ns : IsFunctionLike(M, ns[i]) /\
        \/ i = Len(ns) \/ ns[i + 1] # "("
        \/ \E a \in ToSet(CArguments(Plain(SubSeq(ns, i + 1, Len(ns)))).args) :
              Len(a) # 1 \/ a[1].n \in ToSet(Find(M, ns[i]).params)

(***************************************************************************)
(* Some conditions: brackets within one; something after `defined (n)'; !  *)
(* of a number other than 0 and 1; || after an && that is decided by its   *)
(* left operand; in #elif a && after a &&, a || after a && and any other   *)
(* operator; a call of a macro, which blocks it; a minus sign.  C has no   *)
(* value for a division by zero.                                           *)
(***************************************************************************)
RECURSIVE Subtrees(_)
Subtrees(e) == {e} \cup (IF "a" \in DOMAIN e THEN Subtrees(e.a) ELSE {})
                   \cup (IF "b" \in DOMAIN e THEN Subtrees(e.b) ELSE {})

ConditionDeparts(M, line) ==
    LET ns == Render(line.e)
    IN \/ \E i \in DOMAIN ns : ns[i] = "(" /\ (i = 1 \/ ns[i - 1] # "defined")
       \/ \E i \in DOMAIN ns : ns[i] = "defined" /\ i + 3 # Len(ns)
       \/ \E e \in Subtrees(line.e) :
            \/ e.op \in {"call", "-1"}
            \/ e.op = "!" /\ CValue(M, e.a) \notin {0, 1}
            \/ e.op = "||" /\ e.a.op = "&&" /\ (line.k = "elif" \/ CValue(M, e.a.a) = 0)
            \/ line.k = "elif" /\ (LevelOf(e) \in 3..6 \/ (e.op = "&&" /\ e.a.op = "&&"))
            \/ e.op = "/" /\ CValue(M, e.b) = 0

(***************************************************************************)
(* And files that are included: they neither see the macros of the file    *)
(* that includes them nor define macros for it.                            *)
(***************************************************************************)
IsInHeader(i) == CountOf({"include"}, 1, i - 1) > CountOf({"end"}, 1, i - 1)

HeaderDeparts(line) ==
    \/ line.k \in {"define", "undef", "ifdef", "ifndef"}
    \/ line.k \in {"if", "elif"} /\ \E e \in Subtrees(line.e) : e.op \in {"name", "defined"} /\ e.n \notin DOMAIN Numbers

Departs ==
    LET macros == MacrosBefore
    IN \E i \in DOMAIN source :
         \/ source[i].k = "text" /\ TextDeparts(macros[i], source[i].ns)
         \/ source[i].k \in {"if", "elif"} /\ ConditionDeparts(macros[i], source[i])
         \/ IsInHeader(i) /\ HeaderDeparts(source[i])

-----------------------------------------------------------------------------
(***************************************************************************)
(* Type correctness of the preprocessor.                                   *)
(***************************************************************************)
TypeOK ==
    /\ Len(source) <= MaxLines + MaxIncludes * MaxLines
    /\ \A m \in symTable : DOMAIN m = {"mName", "mArgsNames", "mValue"}
    /\ \A m, n \in symTable : m.mName = n.mName => m = n
    /\ ToSet(contextStack) \subseteq {d.name : d \in Definitions}
    /\ \A i \in DOMAIN conditionalBlocks :
          conditionalBlocks[i] \in [skip : BOOLEAN, elseFound : BOOLEAN, entered : BOOLEAN, parentActive : BOOLEAN]
    /\ Len(callers) <= MaxIncludes
    /\ pc \in {"running", "evaluating", "done"}

IsAtLine == tokens = <<>> /\ pc = "running"
IsAtLineOfMain == IsAtLine /\ callers = <<>>
Symbols(M) == {[mName |-> d.name, mArgsNames |-> d.params, mValue |-> ExtractValue(d.name, d.value)] : d \in M}

(***************************************************************************)
(* C99 6.10.1: text is processed if and only if it is in the first group   *)
(* of each section whose condition is true, however #if, #ifdef, #elif,    *)
(* #else and #endif nest (Process and _process...Conditional).             *)
(***************************************************************************)
GroupsFollowCButForDepartures == IsAtLine /\ IsValid /\ ~Departs => (ShouldTokenBeSkipped <=> ~Active(Len(source) + 1))

(***************************************************************************)
(* C99 6.10.3: the macros that are defined after each line are those of    *)
(* the #define and #undef lines of processed groups.                       *)
(***************************************************************************)
MacrosFollowCButForDepartures == IsAtLineOfMain /\ IsValid /\ ~Departs => symTable = Symbols(Last(MacrosBefore))

(***************************************************************************)
(* C99 6.10.3.1 to 6.10.3.4: the output is the text of the processed       *)
(* groups with its macros replaced.                                        *)
(***************************************************************************)
OutputFollowsCButForDepartures == IsAtLineOfMain /\ IsValid /\ ~Departs => processed = COutput

(***************************************************************************)
(* A step in a skipped group defines nothing and puts nothing out, and     *)
(* only a directive that ends the group changes that it is skipped.        *)
(***************************************************************************)
SkippedGroupsAreInert ==
    [][ShouldTokenBeSkipped /\ callers' = callers =>
          /\ symTable' = symTable
          /\ processed' = processed
          /\ ~ShouldTokenBeSkipped' => Last(source').k \in {"elif", "else", "endif"}]_vars

(***************************************************************************)
(* Process returns (it has no bound of its own), unless a condition has a  *)
(* minus sign in front of an operand, where _evaluateExpression stays, or  *)
(* macros lead back to themselves: nothing is pushed on mContextStack for  *)
(* those that are like objects, and a condition does not look at it.       *)
(***************************************************************************)
HasMinus == \E i \in DOMAIN source :
    source[i].k \in {"if", "elif"} /\ \E e \in Subtrees(source[i].e) : e.op = "-1"

\* Some macros each mention one of them, other than by a name that was made a blob.
HasCycle ==
    \E S \in SUBSET {m \in symTable : m.mArgsNames = <<>> \/ pc = "evaluating"} :
        S # {} /\ \A m \in S : \E n \in S : Token(n.mName) \in ToSet(m.mValue)

ProcessReturnsButForMinusAndCycles == <>(pc = "done" \/ HasMinus) \/ <>[]HasCycle
=============================================================================
