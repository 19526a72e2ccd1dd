---------------------------- MODULE DriverProofs ----------------------------
(***************************************************************************)
(* That a lost output is always said, that a failure leaves the output     *)
(* alone, and that the driver implements Compiler, for any number of       *)
(* included files.                                                         *)
(***************************************************************************)
EXTENDS Driver, TLAPS

Fronts == {"preprocess", "parse", "check", "generate", "emit"}

\* Up to the emission nothing has been written, and up to the code generator nothing said.
NothingYet ==
    /\ pc \in Fronts => output = before /\ object = "none"
    /\ pc \in Fronts \ {"emit"} => ~complained

\* The linker finds the output as it was, and a whole object unless something was said.
LinkerInput == pc = "link" => output = before /\ (~complained => object = "new")

\* What an end without a failure leaves, when it is not a new output.
Results ==
    pc \in {"report", "ok"} =>
        \/ output = "new"
        \/ complained /\ output = before
        \/ complained /\ output = "none" /\ needLinker
        \/ complained /\ output = "partial" /\ noLink /\ ~emitLLVM

\* What a failure leaves; and nobody speaks before the preprocessor does not return.
Failures ==
    /\ pc = "failed" => output = before \/ (output = "partial" /\ ~needLinker)
    /\ pc = "hung" => output = before /\ ~complained

IInv == TypeOK /\ NothingYet /\ LinkerInput /\ Results /\ Failures

-----------------------------------------------------------------------------
LEMMA InitIInv == Init => IInv
<1> SUFFICES ASSUME Init PROVE IInv
  OBVIOUS
<1>1. leftBehind \in 0 .. MaxIncludes
  BY IncludesAssumption DEF Init
<1>2. /\ pc = "preprocess" /\ object = "none" /\ output = before /\ complained = FALSE
      /\ preprocessed = "none" /\ before \in {"none", "old"}
      /\ emitLLVM \in BOOLEAN /\ noLink \in BOOLEAN
  BY DEF Init
<1>3. TypeOK
  BY <1>1, <1>2 DEF TypeOK
<1> QED
  BY <1>2, <1>3 DEF IInv, NothingYet, LinkerInput, Results, Failures, Fronts

\* A pass in front of the emission that leaves the output and the object as they are.
LEMMA BeforeEmission ==
    ASSUME IInv, pc \in Fronts, UNCHANGED <<options, output, object>>,
           preprocessed' \in {"none", "new"}, leftBehind' \in 0 .. MaxIncludes,
           pc' \in Fronts \cup {"hung", "failed"}, complained' \in BOOLEAN,
           pc' \in {"emit", "failed"} \/ complained' = FALSE
    PROVE  IInv'
<1>1. output = before /\ object = "none"
  BY DEF IInv, NothingYet
<1>2. /\ emitLLVM' = emitLLVM /\ noLink' = noLink /\ before' = before
      /\ output' = before' /\ object' = "none"
  BY <1>1 DEF options
<1>3. TypeOK'
  BY <1>2 DEF IInv, TypeOK, Fronts
<1> QED
  BY <1>2, <1>3 DEF IInv, NothingYet, LinkerInput, Results, Failures, Fronts

\* What such a pass does with the files, the message and the process.
HarmlessStep ==
    /\ UNCHANGED <<options, output, object>>
    /\ preprocessed' \in {"none", "new"} /\ leftBehind' \in 0 .. MaxIncludes
    /\ pc' \in Fronts \cup {"hung", "failed"} /\ complained' \in BOOLEAN
    /\ pc' \in {"emit", "failed"} \/ complained' = FALSE

LEMMA FrontKeeps ==
    ASSUME IInv, Include \/ Preprocess \/ parseAST \/ Check \/ Generate
    PROVE  IInv'
<1>1. /\ leftBehind \in 0 .. MaxIncludes /\ preprocessed \in {"none", "new"} /\ complained \in BOOLEAN
      /\ pc \in Fronts \ {"emit"} => complained = FALSE
  BY DEF IInv, TypeOK, NothingYet
<1>2. CASE Include
  <2>1. leftBehind' \in 0 .. MaxIncludes
    BY <1>1, <1>2, IncludesAssumption DEF Include
  <2>2. pc \in Fronts /\ HarmlessStep
    BY <1>1, <1>2, <2>1 DEF Include, Fronts, HarmlessStep
  <2> QED
    BY <2>2, BeforeEmission DEF HarmlessStep
<1>3. CASE Preprocess
  <2>1. pc \in Fronts /\ HarmlessStep
    BY <1>1, <1>3 DEF Preprocess, GoTo, Complain, Fail, Fronts, HarmlessStep
  <2> QED
    BY <2>1, BeforeEmission DEF HarmlessStep
<1>4. CASE parseAST
  <2>1. pc \in Fronts /\ HarmlessStep
    BY <1>1, <1>4 DEF parseAST, GoTo, Complain, Fail, Fronts, HarmlessStep, files
  <2> QED
    BY <2>1, BeforeEmission DEF HarmlessStep
<1>5. CASE Check
  <2>1. pc \in Fronts /\ HarmlessStep
    BY <1>1, <1>5 DEF Check, GoTo, Complain, Fail, Fronts, HarmlessStep, files
  <2> QED
    BY <2>1, BeforeEmission DEF HarmlessStep
<1>6. CASE Generate
  <2>1. pc \in Fronts /\ HarmlessStep
    BY <1>1, <1>6 DEF Generate, GoTo, Complain, Fail, Fronts, HarmlessStep, files
  <2> QED
    BY <2>1, BeforeEmission DEF HarmlessStep
<1> QED
  BY <1>2, <1>3, <1>4, <1>5, <1>6

\* What is known when the emission begins, and of the options after it.
LEMMA AtEmission ==
    ASSUME IInv, pc = "emit", UNCHANGED options
    PROVE  /\ output = before /\ object = "none" /\ complained \in BOOLEAN
           /\ emitLLVM' = emitLLVM /\ noLink' = noLink /\ before' = before
           /\ emitLLVM \in BOOLEAN /\ noLink \in BOOLEAN /\ before \in {"none", "old"}
           /\ preprocessed \in {"none", "new"} /\ leftBehind \in 0 .. MaxIncludes
BY DEF IInv, NothingYet, TypeOK, options, Fronts

\* A file that cannot be opened.
LEMMA CannotOpenKeeps == ASSUME IInv, CannotOpen PROVE IInv'
<1>1. pc = "emit" /\ UNCHANGED <<options, files>> /\ pc' = AfterEmission /\ complained' = TRUE
  BY DEF CannotOpen, Complain
<1>2. output' = before' /\ object' = "none" /\ preprocessed' = preprocessed /\ leftBehind' = leftBehind
  BY <1>1, AtEmission DEF files
<1>3. TypeOK'
  BY <1>1, <1>2, AtEmission DEF TypeOK, AfterEmission, needLinker
<1> QED
  BY <1>1, <1>2, <1>3, AtEmission
  DEF IInv, NothingYet, LinkerInput, Results, Failures, Fronts, AfterEmission, needLinker

\* The text of the module goes to the output, and is not linked.
LEMMA EmitLLVMKeeps == ASSUME IInv, EmitLLVM PROVE IInv'
<1>1. /\ pc = "emit" /\ emitLLVM
      /\ UNCHANGED options /\ object' = object /\ preprocessed' = preprocessed /\ leftBehind' = leftBehind
  BY DEF EmitLLVM
<1>2. AfterEmission = "report" /\ ~needLinker'
  BY <1>1, AtEmission DEF AfterEmission, needLinker
<1>3. \/ pc' = "report" /\ output' = "new"
      \/ pc' = "failed" /\ output' = "partial"
  BY <1>2 DEF EmitLLVM, GoTo, Complain, Fail
<1>4. complained' \in BOOLEAN
  BY <1>1, AtEmission DEF EmitLLVM, GoTo, Complain, Fail
<1>5. TypeOK'
  BY <1>1, <1>3, <1>4, AtEmission DEF TypeOK
<1> QED
  BY <1>2, <1>3, <1>5 DEF IInv, NothingYet, LinkerInput, Results, Failures, Fronts

\* The object is the linker's input or the output, and whole unless something is said.
LEMMA EmitObjectKeeps == ASSUME IInv, EmitObject PROVE IInv'
<1>1. /\ pc = "emit" /\ ~emitLLVM /\ UNCHANGED options
      /\ preprocessed' = preprocessed /\ leftBehind' = leftBehind
  BY DEF EmitObject
<1>2. PICK content \in {"new", "partial"} :
        /\ WriteObject(content)
        /\ \/ content = "new" /\ pc' = AfterEmission
           \/ content = "partial" /\ pc' = AfterEmission /\ complained' = TRUE
           \/ content = "partial" /\ pc' = "failed"
  BY DEF EmitObject, GoTo, Complain, Fail
<1>3. complained' \in BOOLEAN
  BY <1>1, AtEmission DEF EmitObject, GoTo, Complain, Fail
<1>4. CASE noLink
  <2>1. output' = content /\ object' = "none" /\ AfterEmission = "report" /\ ~needLinker'
    BY <1>1, <1>2, <1>4, AtEmission DEF WriteObject, AfterEmission, needLinker
  <2>2. noLink' /\ ~emitLLVM'
    BY <1>1, <1>4, AtEmission
  <2>3. TypeOK'
    BY <1>1, <1>2, <1>3, <2>1, AtEmission DEF TypeOK
  <2> QED
    BY <1>2, <2>1, <2>2, <2>3 DEF IInv, NothingYet, LinkerInput, Results, Failures, Fronts
<1>5. CASE ~noLink
  <2>1. object' = content /\ output' = before' /\ AfterEmission = "link" /\ needLinker'
    BY <1>1, <1>2, <1>5, AtEmission DEF WriteObject, AfterEmission, needLinker
  <2>2. TypeOK'
    BY <1>1, <1>2, <1>3, <2>1, AtEmission DEF TypeOK, needLinker
  <2> QED
    BY <1>2, <2>1, <2>2 DEF IInv, NothingYet, LinkerInput, Results, Failures, Fronts
<1> QED
  BY <1>4, <1>5

\* The linker writes the output from a whole object, or says that it does not.
LEMMA LinkKeeps == ASSUME IInv, link PROVE IInv'
<1>1. /\ pc = "link" /\ pc' = "report" /\ UNCHANGED options
      /\ preprocessed' = preprocessed /\ leftBehind' = leftBehind /\ object' = object
  BY DEF link, GoTo, Complain
<1>2. /\ emitLLVM' = emitLLVM /\ noLink' = noLink /\ before' = before
      /\ output = before /\ needLinker /\ complained \in BOOLEAN
  BY <1>1 DEF IInv, TypeOK, LinkerInput, options
<1>3. needLinker'
  BY <1>2 DEF needLinker
<1>4. CASE output' = "new" /\ complained' \in {complained, TRUE}
  <2>1. TypeOK'
    BY <1>1, <1>2, <1>3, <1>4 DEF IInv, TypeOK
  <2> QED
    BY <1>1, <1>2, <1>4, <2>1 DEF IInv, NothingYet, LinkerInput, Results, Failures, Fronts
<1>5. CASE output' \in {output, "none"} /\ complained' = TRUE
  <2>1. TypeOK'
    BY <1>1, <1>2, <1>3, <1>5 DEF IInv, TypeOK
  <2> QED
    BY <1>1, <1>2, <1>3, <1>5, <2>1 DEF IInv, NothingYet, LinkerInput, Results, Failures, Fronts
<1> QED
  BY <1>4, <1>5 DEF link, GoTo, Complain

\* The end changes no file.
LEMMA EndKeeps == ASSUME IInv, Report \/ Stopped \/ UNCHANGED vars PROVE IInv'
<1>1. CASE Report
  <2>1. /\ pc = "report" /\ pc' = "ok" /\ complained' = complained
        /\ UNCHANGED <<options, files>>
    BY <1>1 DEF Report, GoTo
  <2>2. TypeOK' /\ Results'
    BY <2>1 DEF IInv, TypeOK, Results, options, files, needLinker
  <2> QED
    BY <2>1, <2>2 DEF IInv, NothingYet, LinkerInput, Failures, Fronts
<1>2. CASE Stopped \/ UNCHANGED vars
  BY <1>2 DEF IInv, TypeOK, NothingYet, LinkerInput, Results, Failures, Stopped, vars, needLinker
<1> QED
  BY <1>1, <1>2

LEMMA NextKeeps == IInv /\ [Next]_vars => IInv'
BY FrontKeeps, CannotOpenKeeps, EmitLLVMKeeps, EmitObjectKeeps, LinkKeeps, EndKeeps DEF Next, Pass

LEMMA Invariant == Spec => []IInv
BY InitIInv, NextKeeps, PTL DEF Spec

(***************************************************************************)
(* Files and messages have their types, and only the linker has an object. *)
(***************************************************************************)
THEOREM TypeCorrect == Spec => []TypeOK
<1>1. IInv => TypeOK
  BY DEF IInv
<1> QED
  BY <1>1, Invariant, PTL

(***************************************************************************)
(* main.cpp returns 0 whatever the emission and the linker did: the output *)
(* is there, or stderr says that it is not.                                *)
(***************************************************************************)
THEOREM LossIsAlwaysSaid == Spec => []LossIsSaid
<1>1. IInv => LossIsSaid
  BY DEF IInv, Results, LossIsSaid
<1> QED
  BY <1>1, Invariant, PTL

(***************************************************************************)
(* A pass that fails leaves the output file as it was, or is the emission  *)
(* (emitLLVM, emitObject) of what is not linked.                           *)
(***************************************************************************)
THEOREM FailureKeepsTheOutput == Spec => []FailureKeepsOutput
<1>1. IInv => FailureKeepsOutput
  BY DEF IInv, Failures, FailureKeepsOutput
<1> QED
  BY <1>1, Invariant, PTL

-----------------------------------------------------------------------------
LEMMA CallerInit == Init => Caller!Init
BY DEF Init, Caller!Init, Ended, needLinker

\* A step after which the process still runs, or that it has ended before: a stutter.
LEMMA CallerWaits ==
    ASSUME IInv, Next \/ UNCHANGED vars, (~Ended /\ ~Ended') \/ (Ended /\ UNCHANGED vars)
    PROVE  UNCHANGED Caller!vars
<1>1. UNCHANGED options
  BY DEF Next, Pass, Include, Preprocess, parseAST, Check, Generate, CannotOpen, EmitLLVM,
         EmitObject, link, Report, Stopped, vars, options
<1>2. CASE ~Ended /\ ~Ended'
  BY <1>1, <1>2 DEF Caller!vars, options, needLinker
<1>3. CASE Ended /\ UNCHANGED vars
  BY <1>3 DEF Caller!vars, vars, needLinker, Ended
<1> QED
  BY <1>2, <1>3

\* The step that ends the process has one of the outcomes of Compiler.
LEMMA CallerEnds ==
    ASSUME IInv, IInv', Next, ~Ended, Ended'
    PROVE  Caller!End
<1>1. UNCHANGED options
  BY DEF Next, Pass, Include, Preprocess, parseAST, Check, Generate, CannotOpen, EmitLLVM,
         EmitObject, link, Report, Stopped, vars, options, Ended
<1>2. needLinker' = needLinker /\ emitLLVM' = emitLLVM /\ before' = before
  BY <1>1 DEF options, needLinker
<1>3. Caller!Ended(pc', output', complained') \in Caller!Outcomes(emitLLVM, needLinker, before)
  <2> DEFINE outcomes == Caller!Outcomes(emitLLVM, needLinker, before)
  <2>1. /\ \A c \in BOOLEAN : Caller!Ended("ok", "new", c) \in outcomes
        /\ \A c \in BOOLEAN : Caller!Ended("failed", before, c) \in outcomes
        /\ Caller!Ended("hung", before, FALSE) \in outcomes
        /\ Caller!Ended("ok", before, TRUE) \in outcomes
        /\ needLinker => Caller!Ended("ok", "none", TRUE) \in outcomes
        /\ ~needLinker => \A c \in BOOLEAN : Caller!Ended("failed", "partial", c) \in outcomes
        /\ ~needLinker /\ ~emitLLVM => Caller!Ended("ok", "partial", TRUE) \in outcomes
    BY DEF Caller!Outcomes, Caller!SaidOrNot
  <2>2. complained' \in BOOLEAN /\ (noLink /\ ~emitLLVM => ~needLinker) /\ noLink' = noLink
    BY <1>1 DEF IInv, TypeOK, needLinker, options
  <2> HIDE DEF outcomes
  <2>3. CASE pc' = "ok"
    <3>1. \/ output' = "new"
          \/ complained' = TRUE /\ output' = before
          \/ complained' = TRUE /\ output' = "none" /\ needLinker
          \/ complained' = TRUE /\ output' = "partial" /\ ~needLinker /\ ~emitLLVM
      BY <1>2, <2>2, <2>3 DEF IInv, Results
    <3> QED
      BY <2>1, <2>2, <2>3, <3>1 DEF outcomes
  <2>4. CASE pc' = "failed"
    <3>1. output' = before \/ (output' = "partial" /\ ~needLinker)
      BY <1>2, <2>4 DEF IInv, Failures
    <3> QED
      BY <2>1, <2>2, <2>4, <3>1 DEF outcomes
  <2>5. CASE pc' = "hung"
    <3>1. complained' = FALSE /\ output' = before
      BY <1>2, <2>2, <2>5 DEF IInv, Failures
    <3> QED
      BY <2>1, <2>5, <3>1 DEF outcomes
  <2> QED
    BY <2>3, <2>4, <2>5 DEF Ended
<1>4. complained' \in BOOLEAN
  BY DEF IInv, TypeOK
<1> QED
  BY <1>2, <1>3, <1>4 DEF Caller!End, Caller!Ended, Ended

(***************************************************************************)
(* The safety of ImplementsCompiler: what a caller sees of the driver is a *)
(* behaviour of Compiler, step by step.                                    *)
(***************************************************************************)
THEOREM Refinement == Spec => Caller!Init /\ [][Caller!End]_(Caller!vars)
<1>1. IInv /\ IInv' /\ [Next]_vars => [Caller!End]_(Caller!vars)
  <2> SUFFICES ASSUME IInv, IInv', Next \/ UNCHANGED vars
               PROVE  Caller!End \/ UNCHANGED Caller!vars
    OBVIOUS
  <2>1. CASE ~Ended /\ Ended'
    <3>1. Next
      BY <2>1 DEF vars, Ended
    <3> QED
      BY <2>1, <3>1, CallerEnds
  <2>2. CASE ~Ended /\ ~Ended'
    BY <2>2, CallerWaits
  <2>3. CASE Ended
    <3>1. UNCHANGED vars
      BY <2>3 DEF Ended, Next, Pass, Include, Preprocess, parseAST, Check, Generate, CannotOpen,
                  EmitLLVM, EmitObject, link, Report, Stopped
    <3> QED
      BY <2>3, <3>1, CallerWaits
  <2> QED
    BY <2>1, <2>2, <2>3
<1> QED
  BY <1>1, CallerInit, Invariant, PTL DEF Spec
=============================================================================
