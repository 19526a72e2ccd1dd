------------------------------- MODULE Driver -------------------------------
(***************************************************************************)
(* A run of rcc: main and the passes that compile calls one after the      *)
(* other, with the files that go between them.  Each pass may end the way  *)
(* its code can: an exception that nothing catches, an exit in the parser, *)
(* a message after which the driver goes on.  Only the files and the way   *)
(* out are kept of a pass.                                                 *)
(***************************************************************************)
EXTENDS Integers

CONSTANT MaxIncludes    \* files that are included: bounds the model

ASSUME IncludesAssumption == MaxIncludes \in Nat

VARIABLES
    emitLLVM, noLink,   \* -S and -c
    before,             \* the output file before the run: "none" or "old"
    output,             \* the output file
    preprocessed,       \* the temporary file of preprocess: "none" or "new"
    object,             \* the temporary object file: "none", "partial" or "new"
    leftBehind,         \* files of included sources in the temporary directory
    complained,         \* something was written to stderr
    pc                  \* the pass that is next, or how the run has ended

vars == <<emitLLVM, noLink, before, output, preprocessed, object, leftBehind, complained, pc>>
options == <<emitLLVM, noLink, before>>
files == <<output, preprocessed, object, leftBehind>>

needLinker == ~noLink /\ ~emitLLVM

Init ==
    /\ emitLLVM \in BOOLEAN /\ noLink \in BOOLEAN
    /\ before \in {"none", "old"} /\ output = before
    /\ preprocessed = "none" /\ object = "none" /\ leftBehind = 0
    /\ complained = FALSE
    /\ pc = "preprocess"

\* The next pass, perhaps with a message; or the end of the process, which a crash does not explain.
GoTo(pass) == pc' = pass /\ UNCHANGED complained
Complain(pass) == pc' = pass /\ complained' = TRUE
Fail == GoTo("failed") \/ Complain("failed")

(***************************************************************************)
(* preprocess writes its output to a temporary file, also for a file that  *)
(* is included; nobody looks if that works, and nobody removes them.  A    *)
(* source that cannot be read is an empty one.  Process may not return.    *)
(***************************************************************************)
Include ==
    /\ pc = "preprocess" /\ leftBehind < MaxIncludes
    /\ leftBehind' = leftBehind + 1
    /\ UNCHANGED <<options, output, preprocessed, object, complained, pc>>

Preprocess ==
    /\ pc = "preprocess"
    /\ \/ preprocessed' \in {"none", "new"} /\ GoTo("parse")
       \/ UNCHANGED preprocessed /\ (GoTo("hung") \/ Fail)
    /\ UNCHANGED <<options, output, object, leftBehind>>

\* The linker is called unless -c is given.
AfterEmission_Wrong == IF noLink THEN "report" ELSE "link"
AfterEmission == IF needLinker THEN "link" ELSE "report"

\* Without its input, and at a syntax error, the parser exits with 1.
parseAST ==
    /\ pc = "parse"
    /\ \/ preprocessed = "new" /\ GoTo("check")
       \/ Fail
    /\ UNCHANGED <<options, files>>

\* The type checker throws.
Check == pc = "check" /\ (GoTo("generate") \/ Fail) /\ UNCHANGED <<options, files>>

(***************************************************************************)
(* The constructor of the code generator warns of an architecture that it  *)
(* does not know and takes the rules of x86-64; a target that LLVM does    *)
(* not know is a null pointer.  The visits throw, and a function that does *)
(* not verify is only reported.                                            *)
(***************************************************************************)
Generate ==
    /\ pc = "generate"
    /\ GoTo("emit") \/ Complain("emit") \/ Fail
    /\ UNCHANGED <<options, files>>

\* A file that cannot be opened stays as it is; the driver does not hear of it.
CannotOpen ==
    /\ pc = "emit"
    /\ Complain(AfterEmission)
    /\ UNCHANGED <<options, files>>

\* A stream that could not write all of it ends the process when it is closed.
EmitLLVM ==
    /\ pc = "emit" /\ emitLLVM
    /\ \/ output' = "new" /\ GoTo(AfterEmission)
       \/ output' = "partial" /\ Fail
    /\ UNCHANGED <<options, preprocessed, object, leftBehind>>

\* The object goes to the output, whatever is done with it later.
WriteObject_Wrong(content) == output' = content /\ UNCHANGED object

\* The object is the output of the code generator, linked later or not.
WriteObject(content) ==
    IF needLinker THEN object' = content /\ UNCHANGED output
    ELSE output' = content /\ UNCHANGED object

(***************************************************************************)
(* The file is open when the back end says that it emits no files of this  *)
(* type, stops at what it cannot translate, or cannot write all of it.     *)
(***************************************************************************)
EmitObject ==
    /\ pc = "emit" /\ ~emitLLVM
    /\ \/ WriteObject("new") /\ GoTo(AfterEmission)
       \/ WriteObject("partial") /\ (Complain(AfterEmission) \/ Fail)
    /\ UNCHANGED <<options, preprocessed, leftBehind>>

\* A linker that fails, and nothing is said of it.
link_Wrong ==
    /\ pc = "link"
    /\ \/ output' = "new"
       \/ UNCHANGED output
    /\ GoTo("report")
    /\ UNCHANGED <<options, preprocessed, object, leftBehind>>

(***************************************************************************)
(* clang is looked for and run; what goes wrong is only printed.  It may   *)
(* remove the output when it fails, as it does without a whole object, and *)
(* may warn when it does not.                                              *)
(***************************************************************************)
link ==
    /\ pc = "link"
    /\ \/ object = "new" /\ output' = "new" /\ (GoTo("report") \/ Complain("report"))
       \/ output' \in {output, "none"} /\ Complain("report")
    /\ UNCHANGED <<options, preprocessed, object, leftBehind>>

\* main prints "Compiled to:" and returns 0.
Report == pc = "report" /\ GoTo("ok") /\ UNCHANGED <<options, files>>

Stopped == pc \in {"ok", "failed", "hung"} /\ UNCHANGED vars

Pass == Include \/ Preprocess \/ parseAST \/ Check \/ Generate \/ CannotOpen \/ EmitLLVM
    \/ EmitObject \/ link \/ Report

Next == Pass \/ Stopped

\* The process has one thread; each pass but the preprocessor is a recursion over a finite tree.
Spec == Init /\ [][Next]_vars /\ WF_vars(Pass)

-----------------------------------------------------------------------------
\* Types; and there is an object file only for the linker, once it has been emitted.
TypeOK ==
    /\ emitLLVM \in BOOLEAN /\ noLink \in BOOLEAN /\ complained \in BOOLEAN
    /\ before \in {"none", "old"} /\ output \in {"none", "old", "partial", "new"}
    /\ preprocessed \in {"none", "new"} /\ object \in {"none", "partial", "new"}
    /\ leftBehind \in 0 .. MaxIncludes
    /\ pc = "link" => needLinker
    /\ object # "none" => needLinker /\ pc \in {"link", "report", "ok", "failed"}
    /\ pc \in {"preprocess", "parse", "check", "generate", "emit", "link", "report", "ok", "failed", "hung"}

(***************************************************************************)
(* A run that ends with exit 0 and an empty stderr has written the output; *)
(* the passes that give up without an exception (emitLLVM, emitObject and  *)
(* link) must each say so, since the exit status does not.                 *)
(***************************************************************************)
LossIsSaid == pc = "ok" /\ ~complained => output = "new"

(***************************************************************************)
(* A run that fails leaves what was in the output file, for every step     *)
(* that can fail in front of the emission and for an object that is to be  *)
(* linked; only the emission of what is not linked leaves it half written. *)
(***************************************************************************)
FailureKeepsOutput == pc = "failed" => output = before \/ (output = "partial" /\ ~needLinker)

(***************************************************************************)
(* The driver implements Compiler: what a caller sees, once the process    *)
(* has ended, is one of the outcomes that are promised.                    *)
(***************************************************************************)
Ended == pc \in {"ok", "failed", "hung"}

Caller == INSTANCE Compiler WITH
    linked <- needLinker,
    status <- IF Ended THEN pc ELSE "running",
    output <- IF Ended THEN output ELSE before,
    complained <- Ended /\ complained

ImplementsCompiler == Caller!Spec

=============================================================================
