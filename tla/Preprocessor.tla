---------------------------- MODULE Preprocessor ----------------------------
(***************************************************************************)
(* The loop of tcpp::Preprocessor::Process.  The source is given line by   *)
(* line: a directive is handled in one step, with all the tokens that its  *)
(* handler reads; a line of text is put into the lexer and processed one   *)
(* token per step.  The driver's callback processes an included file with  *)
(* a preprocessor of its own: the one that waits is in callers.            *)
(*                                                                         *)
(* The lines keep within what the handlers read of one line: calls of      *)
(* macros are closed on it, and the parameters of a definition and the     *)
(* names of #ifdef and #undef are there.  #elif and #else without #if read *)
(* the top of an empty stack, which is undefined; they are not given.      *)
(***************************************************************************)
EXTENDS PreprocessorExpr

CONSTANTS
    Definitions,     \* what #define lines define: [name, params, value], in names
    MacroNames,      \* the names that #undef, #ifdef and #ifndef lines mention
    Conditions(_),   \* the conditions, as trees (see Render), that may come after the given lines
    Texts,           \* the lines of text, in names
    MaxLines,        \* how many lines a source has, the lines it includes among them
    MaxIncludes      \* how deep files include files

VARIABLES
    source,             \* the lines so far
    symTable,           \* mSymTable
    contextStack,       \* mContextStack: macros that are not expanded
    conditionalBlocks,  \* mConditionalBlocksStack
    tokens,             \* what the lexer has still to give of the line
    processed,          \* processedStr
    callers,            \* the preprocessors that wait for an included file
    pc                  \* "running", "evaluating" (for ever) or "done"

vars == <<source, symTable, contextStack, conditionalBlocks, tokens, processed, callers, pc>>

Init ==
    /\ source = <<>>
    /\ symTable = {}
    /\ contextStack = <<>>
    /\ conditionalBlocks = <<>>
    /\ tokens = <<>>
    /\ processed = <<>>
    /\ callers = <<>>
    /\ pc = "running"

-----------------------------------------------------------------------------
(***************************************************************************)
(* A condition is a tree whose leaves are numbers, names, `defined (n)'    *)
(* and calls of a macro.  Its text has brackets where C needs them and     *)
(* spaces around binary operators.                                         *)
(***************************************************************************)
LevelOf(e) == IF e.op \in {"name", "defined", "call", "!", "-1"} THEN 7
              ELSE CHOOSE l \in DOMAIN Operators : e.op \in Operators[l]

RECURSIVE Render(_)
Render(e) ==
    LET Operand(a, least) == IF LevelOf(a) >= least THEN Render(a) ELSE <<"(">> \o Render(a) \o <<")">>
    IN CASE e.op = "name" -> <<e.n>>
         [] e.op = "-1" -> <<"-", "1">>
         [] e.op = "defined" -> <<"defined", "(", e.n, ")">>
         [] e.op = "call" -> <<e.n, "(", "1", ")">>
         [] e.op = "!" -> <<"!">> \o Operand(e.a, 7)
         [] OTHER -> Operand(e.a, LevelOf(e)) \o <<" ", e.op, " ">> \o Operand(e.b, LevelOf(e) + 1)

-----------------------------------------------------------------------------
IsParentBlockActive ==
    \/ conditionalBlocks = <<>>
    \/ Last(conditionalBlocks).parentActive /\ ~Last(conditionalBlocks).skip

ShouldTokenBeSkipped ==
    /\ conditionalBlocks # <<>>
    /\ Last(conditionalBlocks).skip \/ ~Last(conditionalBlocks).parentActive

\* A block within a skipped one does not inherit that it is skipped.
IfStackEntry_Wrong(skip) ==
    [skip |-> skip, elseFound |-> FALSE, entered |-> ~skip, parentActive |-> TRUE]

IfStackEntry(skip) ==
    [skip |-> skip, elseFound |-> FALSE, entered |-> ~skip, parentActive |-> IsParentBlockActive]

Read(line) ==
    /\ pc = "running"
    /\ tokens = <<>>
    /\ Len(source) < MaxLines
    /\ source' = Append(source, line)

(***************************************************************************)
(* A second definition of a name is reported, to a callback that does      *)
(* nothing, and dropped.                                                   *)
(***************************************************************************)
Define(d) ==
    /\ Read([k |-> "define", d |-> d])
    /\ symTable' = IF ShouldTokenBeSkipped \/ Defined(symTable, <<d.name>>) THEN symTable
                   ELSE symTable \cup {[mName |-> d.name, mArgsNames |-> d.params,
                                        mValue |-> ExtractValue(d.name, d.value)]}
    /\ UNCHANGED <<contextStack, conditionalBlocks, tokens, processed, callers, pc>>

\* Skipped definitions are not dropped.
Undef_Wrong(n) ==
    /\ Read([k |-> "undef", n |-> n])
    /\ symTable' = {m \in symTable : m.mName # n}
    /\ UNCHANGED <<contextStack, conditionalBlocks, tokens, processed, callers, pc>>

Undef(n) ==
    /\ Read([k |-> "undef", n |-> n])
    /\ symTable' = IF ShouldTokenBeSkipped THEN symTable ELSE {m \in symTable : m.mName # n}
    /\ UNCHANGED <<contextStack, conditionalBlocks, tokens, processed, callers, pc>>

(***************************************************************************)
(* #if drops the spaces of its condition, #elif keeps them.  A condition   *)
(* is evaluated in a skipped block, too, and may expand macros.            *)
(***************************************************************************)
If(e) ==
    LET r == EvaluateExpression(SelectSeq(Tokens(Render(e)), LAMBDA t : t.type # " "), symTable, {})
    IN /\ Read([k |-> "if", e |-> e])
       /\ IF r.returns
          THEN /\ conditionalBlocks' = Append(conditionalBlocks, IfStackEntry(r.v = 0))
               /\ contextStack' = contextStack \o r.pushed
               /\ UNCHANGED pc
          ELSE pc' = "evaluating" /\ UNCHANGED <<conditionalBlocks, contextStack>>
       /\ UNCHANGED <<symTable, tokens, processed, callers>>

Ifdef(n) ==
    /\ Read([k |-> "ifdef", n |-> n])
    /\ conditionalBlocks' = Append(conditionalBlocks, IfStackEntry(~Defined(symTable, <<n>>)))
    /\ UNCHANGED <<symTable, contextStack, tokens, processed, callers, pc>>

Ifndef(n) ==
    /\ Read([k |-> "ifndef", n |-> n])
    /\ conditionalBlocks' = Append(conditionalBlocks, IfStackEntry(Defined(symTable, <<n>>)))
    /\ UNCHANGED <<symTable, contextStack, tokens, processed, callers, pc>>

Top == Last(conditionalBlocks)
ReplaceTop(entry) == Append(Front(conditionalBlocks), entry)

(***************************************************************************)
(* The condition of #elif is evaluated only if no block was entered.       *)
(* After #else it is not even read, and is text.                           *)
(***************************************************************************)
Elif(e) ==
    LET r == IF Top.entered THEN Result(0, <<>>) ELSE EvaluateExpression(Tokens(Render(e)), symTable, {})
    IN /\ conditionalBlocks # <<>>
       /\ Read([k |-> "elif", e |-> e])
       /\ tokens' = IF Top.elseFound THEN Tokens(<<" ">> \o Render(e)) ELSE <<>>
       /\ IF Top.elseFound
          THEN UNCHANGED <<conditionalBlocks, contextStack, pc>>
          ELSE IF r.returns
          THEN /\ conditionalBlocks' = ReplaceTop([Top EXCEPT !.skip = Top.entered \/ r.v = 0,
                                                              !.entered = @ \/ r.v # 0])
               /\ contextStack' = contextStack \o r.pushed
               /\ UNCHANGED pc
          ELSE pc' = "evaluating" /\ UNCHANGED <<conditionalBlocks, contextStack>>
       /\ UNCHANGED <<symTable, processed, callers>>

\* An else that does not ask whether a block before it was entered.
Else_Wrong ==
    /\ conditionalBlocks # <<>>
    /\ Read([k |-> "else"])
    /\ conditionalBlocks' = IF Top.elseFound THEN conditionalBlocks
                            ELSE ReplaceTop([Top EXCEPT !.skip = ~Top.skip, !.elseFound = TRUE])
    /\ UNCHANGED <<symTable, contextStack, tokens, processed, callers, pc>>

Else ==
    /\ conditionalBlocks # <<>>
    /\ Read([k |-> "else"])
    /\ conditionalBlocks' = IF Top.elseFound THEN conditionalBlocks
                            ELSE ReplaceTop([Top EXCEPT !.skip = Top.entered \/ ~Top.skip,
                                                        !.elseFound = TRUE])
    /\ UNCHANGED <<symTable, contextStack, tokens, processed, callers, pc>>

Endif ==
    /\ Read([k |-> "endif"])
    /\ conditionalBlocks' = IF conditionalBlocks = <<>> THEN <<>> ELSE Front(conditionalBlocks)
    /\ UNCHANGED <<symTable, contextStack, tokens, processed, callers, pc>>

-----------------------------------------------------------------------------
Text(ns) ==
    /\ Read([k |-> "text", ns |-> ns])
    /\ tokens' = Tokens(ns)
    /\ UNCHANGED <<symTable, contextStack, conditionalBlocks, processed, callers, pc>>

IsExpanded(t) ==
    /\ t.type = "IDENTIFIER"
    /\ Defined(symTable, t.view)
    /\ ~Contains(contextStack, t.view[1])

(***************************************************************************)
(* Macros are expanded in skipped blocks as well; only what is appended to *)
(* the output is held back.                                                *)
(***************************************************************************)
ExpandIdentifier ==
    /\ tokens # <<>>
    /\ IsExpanded(Head(tokens))
    /\ LET x == ExpandMacroDefinition(Macro(symTable, Head(tokens).view), Tail(tokens))
       IN /\ tokens' = x.out \o x.rest
          /\ contextStack' = contextStack \o x.pushed
    /\ UNCHANGED <<source, symTable, conditionalBlocks, processed, callers, pc>>

AppendString ==
    /\ tokens # <<>>
    /\ Head(tokens).type # "REJECT_MACRO"
    /\ ~IsExpanded(Head(tokens))
    /\ tokens' = Tail(tokens)
    /\ processed' = IF ShouldTokenBeSkipped THEN processed ELSE processed \o Head(tokens).view
    /\ UNCHANGED <<source, symTable, contextStack, conditionalBlocks, callers, pc>>

\* The end of a replacement does not take its macro off the context.
RejectMacro_Wrong ==
    /\ tokens # <<>>
    /\ Head(tokens).type = "REJECT_MACRO"
    /\ tokens' = Tail(tokens)
    /\ UNCHANGED <<source, symTable, contextStack, conditionalBlocks, processed, callers, pc>>

RejectMacro ==
    /\ tokens # <<>>
    /\ Head(tokens).type = "REJECT_MACRO"
    /\ tokens' = Tail(tokens)
    /\ contextStack' = SelectSeq(contextStack, LAMBDA n : <<n>> # Head(tokens).view)
    /\ UNCHANGED <<source, symTable, conditionalBlocks, processed, callers, pc>>

-----------------------------------------------------------------------------
(***************************************************************************)
(* An include that is not skipped runs a new preprocessor on the file and  *)
(* pushes what comes out as the stream to read next.                       *)
(***************************************************************************)
EnterInclude ==
    /\ Len(callers) < MaxIncludes
    /\ ~ShouldTokenBeSkipped
    /\ Read([k |-> "include"])
    /\ callers' = Append(callers, [symTable |-> symTable, contextStack |-> contextStack,
                                   conditionalBlocks |-> conditionalBlocks, processed |-> processed])
    /\ symTable' = {}
    /\ contextStack' = <<>>
    /\ conditionalBlocks' = <<>>
    /\ processed' = <<>>
    /\ UNCHANGED <<tokens, pc>>

SkipInclude ==
    /\ ShouldTokenBeSkipped
    /\ Read([k |-> "skipped include"])
    /\ UNCHANGED <<symTable, contextStack, conditionalBlocks, tokens, processed, callers, pc>>

ExitInclude ==
    /\ pc = "running" /\ tokens = <<>> /\ callers # <<>>
    /\ source' = Append(source, [k |-> "end"])
    /\ LET caller == Last(callers)
       IN /\ symTable' = caller.symTable
          /\ contextStack' = caller.contextStack
          /\ conditionalBlocks' = caller.conditionalBlocks
          /\ processed' = caller.processed
    /\ tokens' = Tokens(processed)
    /\ callers' = Front(callers)
    /\ UNCHANGED pc

EndOfSource ==
    /\ pc = "running" /\ tokens = <<>> /\ callers = <<>>
    /\ pc' = "done"
    /\ UNCHANGED <<source, symTable, contextStack, conditionalBlocks, tokens, processed, callers>>

Stopped == pc # "running" /\ UNCHANGED vars

-----------------------------------------------------------------------------
Next ==
    \/ \E d \in Definitions : Define(d)
    \/ \E n \in MacroNames : Undef(n) \/ Ifdef(n) \/ Ifndef(n)
    \/ \E e \in Conditions(source) : If(e) \/ Elif(e)
    \/ Else \/ Endif
    \/ \E ns \in Texts : Text(ns)
    \/ ExpandIdentifier \/ AppendString \/ RejectMacro
    \/ EnterInclude \/ SkipInclude \/ ExitInclude
    \/ EndOfSource \/ Stopped

(***************************************************************************)
(* The loop is one thread that nothing blocks, and a file ends.            *)
(***************************************************************************)
Spec == Init /\ [][Next]_vars /\ WF_vars(Next)
=============================================================================
