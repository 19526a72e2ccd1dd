-------------------------- MODULE TestRunnerProofs --------------------------
(***************************************************************************)
(* That the report is complete and closed last, that a test passes only    *)
(* with what this run linked, and that rcc's log tells when that is old    *)
(* code, for any number of tests and of threads.                           *)
(***************************************************************************)
EXTENDS TestRunner, FiniteSetTheorems, TLAPS

\* Until the output folder has been removed no test has begun.
CleanAtFirst == pc = "clean" => report = <<>> /\ \A t \in Test : stage[t] = 0

\* What there is of a test in the output folder by the program that runs: old code behind rcc
\* only if rcc has said so, and a program to simulate only if it was linked of that code.
FilesByStage ==
    \A t \in Test :
        /\ stage[t] = 3 => (ll[t] = "old" => said[t])
        /\ stage[t] = 4 => ll[t] \in {"old", "new"} /\ exe[t] = ll[t] /\ (exe[t] = "old" => said[t])

\* Without -m a test begins when all before it have been written, and the exception of one
\* finds no other in progress.
InOrder ==
    ~multithreading =>
        /\ \A t \in Test : stage[t] # 0 => \A u \in 1 .. t - 1 : Written(u)
        /\ pc = "unwind" => Active = {}

ClosedAtTheEnd == closed => pc \in {"done", "raised"}

\* What does not depend on the files.
Order == ReportIsComplete /\ NothingRunsAfterReport /\ CleanAtFirst /\ InOrder /\ ClosedAtTheEnd

\* What does.
Fresh == PassRunsWhatWasLinked /\ OldCodeIsSaid /\ FilesByStage

IInv == TypeOK /\ Order /\ Fresh

\* The same of a single test.
FreshAt(t) ==
    /\ result[t] = "passed" => stage[t] = 5 /\ ll[t] \in {"old", "new"} /\ exe[t] = ll[t]
    /\ result[t] = "passed" => (exe[t] = "old" => said[t])
    /\ stage[t] = 3 => (ll[t] = "old" => said[t])
    /\ stage[t] = 4 => ll[t] \in {"old", "new"} /\ exe[t] = ll[t] /\ (exe[t] = "old" => said[t])

-----------------------------------------------------------------------------
LEMMA ActiveIsFinite ==
    ASSUME NEW A \in SUBSET Test
    PROVE  IsFiniteSet(A) /\ Cardinality(A) \in Nat
<1>1. Tests \in Int /\ 1 \in Int
  BY SizesAssumption
<1>2. IsFiniteSet(Test)
  BY <1>1, FS_Interval DEF Test
<1> QED
  BY <1>2, FS_Subset, FS_CardinalityType

\* A report in which every test is, and none twice, has as many entries as there are tests.
LEMMA AllWritten ==
    ASSUME report \in Seq(Test), \A i, j \in DOMAIN report : report[i] = report[j] => i = j,
           \A t \in Test : Written(t)
    PROVE  Len(report) = Tests
<1>1. report \in [1 .. Len(report) -> Test] /\ DOMAIN report = 1 .. Len(report) /\ Len(report) \in Nat
  OBVIOUS
<1>2. Tests \in Nat /\ Tests \in Int /\ 1 \in Int
  BY SizesAssumption
<1>3. IsFiniteSet(Test) /\ Cardinality(Test) = Tests
  <2>1. IsFiniteSet(1 .. Tests) /\ Cardinality(1 .. Tests) = IF 1 > Tests THEN 0 ELSE Tests - 1 + 1
    BY <1>2, FS_Interval
  <2> QED
    BY <1>2, <2>1 DEF Test
<1>4. Cardinality(1 .. Len(report)) = Len(report)
  <2>1. Len(report) \in Int
    BY <1>1
  <2>2. Cardinality(1 .. Len(report)) = IF 1 > Len(report) THEN 0 ELSE Len(report) - 1 + 1
    BY <1>2, <2>1, FS_Interval
  <2> QED
    BY <1>1, <2>2
<1>5. report \in Injection(1 .. Len(report), Test)
  BY <1>1 DEF Injection, IsInjective
<1>6. report \in Surjection(1 .. Len(report), Test)
  BY <1>1 DEF Surjection, Written
<1>7. Cardinality(1 .. Len(report)) = Cardinality(Test)
  BY <1>3, <1>5, <1>6, FS_Injection
<1> QED
  BY <1>3, <1>4, <1>7

LEMMA InitIInv == Init => IInv
<1> SUFFICES ASSUME Init PROVE IInv
  OBVIOUS
<1>1. Active = {}
  BY DEF Init, Active
<1>2. Cardinality(Active) = 0
  BY <1>1, FS_EmptySet
<1>3. TypeOK
  <2>1. Cardinality(Active) <= IF multithreading THEN Workers ELSE 1
    BY <1>2, SizesAssumption
  <2>2. ll \in [Test -> Files] /\ exe \in [Test -> Files]
    BY DEF Init, Files
  <2>3. result \in [Test -> {"failed", "passed"}]
    BY DEF Init
  <2>4. stage \in [Test -> 0 .. 6] /\ running \subseteq Active
    BY DEF Init
  <2>5. report \in Seq(Test)
    BY DEF Init
  <2>6. closed \in BOOLEAN
    BY DEF Init
  <2>7. multithreading \in BOOLEAN /\ said \in [Test -> BOOLEAN]
    BY DEF Init
  <2>8. pc \in {"clean", "run", "unwind", "done", "raised"}
    BY DEF Init
  <2> QED
    BY <2>1, <2>2, <2>3, <2>4, <2>5, <2>6, <2>7, <2>8 DEF TypeOK
<1>4. Order
  BY DEF Init, Order, ReportIsComplete, NothingRunsAfterReport, CleanAtFirst, InOrder, ClosedAtTheEnd
<1>5. Fresh
  BY DEF Init, Fresh, PassRunsWhatWasLinked, OldCodeIsSaid, FilesByStage
<1> QED
  BY <1>3, <1>4, <1>5 DEF IInv

-----------------------------------------------------------------------------
\* A test in progress goes on or ends.
LEMMA TestMoves ==
    ASSUME IInv, NEW t \in Test, stage[t] \in 1 .. 4,
           NEW s \in 1 .. 6, stage' = [stage EXCEPT ![t] = s],
           running' \subseteq running, s \in {5, 6} => t \notin running',
           ll' \in [Test -> Files], exe' \in [Test -> Files], said' \in [Test -> BOOLEAN],
           result' \in [Test -> {"failed", "passed"}],
           UNCHANGED <<multithreading, report, closed, pc>>
    PROVE  TypeOK' /\ Order'
<1>1. stage \in [Test -> 0 .. 6] /\ stage' \in [Test -> 0 .. 6]
  BY DEF IInv, TypeOK
<1>2. /\ \A u \in Test : u # t => stage'[u] = stage[u]
      /\ stage'[t] = s
  BY <1>1
<1>3. t \in Active /\ Active' \subseteq Active /\ Active \subseteq Test
  BY <1>2 DEF Active
<1>4. ~closed /\ ~closed'
  BY <1>3 DEF IInv, Order, NothingRunsAfterReport
<1>5. TypeOK'
  <2>1. Cardinality(Active') <= Cardinality(Active) /\ Cardinality(Active') \in Nat /\ Cardinality(Active) \in Nat
    BY <1>3, ActiveIsFinite, FS_Subset
  <2>2. Cardinality(Active') <= IF multithreading' THEN Workers ELSE 1
    BY <2>1, SizesAssumption DEF IInv, TypeOK
  <2>3. running' \subseteq Active'
    BY <1>2, <1>3 DEF IInv, TypeOK, Active
  <2> QED
    BY <1>1, <2>2, <2>3 DEF IInv, TypeOK
<1>6. ReportIsComplete'
  <2>1. \A i \in DOMAIN report : stage[report[i]] = 5 /\ report[i] \in Test
    BY DEF IInv, TypeOK, Order, ReportIsComplete
  <2>2. \A i \in DOMAIN report : stage'[report[i]] = 5
    BY <1>2, <2>1
  <2> QED
    BY <2>2 DEF IInv, Order, ReportIsComplete
<1>7. NothingRunsAfterReport' /\ ClosedAtTheEnd'
  BY <1>4 DEF NothingRunsAfterReport, ClosedAtTheEnd
<1>8. CleanAtFirst'
  BY DEF IInv, Order, CleanAtFirst
<1>9. InOrder'
  <2>1. \A u : Written(u)' <=> Written(u)
    BY DEF Written
  <2>2. \A u \in Test : stage'[u] # 0 => stage[u] # 0
    BY <1>2
  <2>3. pc' = "unwind" /\ ~multithreading => Active' = {}
    BY <1>3 DEF IInv, Order, InOrder
  <2> QED
    BY <2>1, <2>2, <2>3 DEF IInv, Order, InOrder
<1> QED
  BY <1>5, <1>6, <1>7, <1>8, <1>9 DEF Order

\* Only the files, the result and the stage of one test change.
LEMMA OthersStayFresh ==
    ASSUME IInv, NEW t \in Test, FreshAt(t)',
           \A u \in Test \ {t} : /\ stage'[u] = stage[u] /\ result'[u] = result[u]
                                 /\ ll'[u] = ll[u] /\ exe'[u] = exe[u] /\ said'[u] = said[u]
    PROVE  Fresh'
<1>1. ASSUME NEW u \in Test PROVE FreshAt(u)'
  <2>1. CASE u = t
    BY <2>1
  <2>2. CASE u # t
    <3>1. FreshAt(u)
      BY DEF IInv, Fresh, FreshAt, PassRunsWhatWasLinked, OldCodeIsSaid, FilesByStage
    <3> QED
      BY <2>2, <3>1 DEF FreshAt
  <2> QED
    BY <2>1, <2>2
<1> QED
  BY <1>1 DEF Fresh, FreshAt, PassRunsWhatWasLinked, OldCodeIsSaid, FilesByStage

LEMMA CleanKeeps == ASSUME IInv, Clean PROVE IInv'
<1>1. /\ report = <<>> /\ \A t \in Test : stage[t] = 0
      /\ stage' = stage /\ report' = report /\ running' = running /\ result' = result /\ said' = said
      /\ multithreading' = multithreading /\ closed' = closed /\ pc' \in {"run", "raised"}
  BY DEF Clean, IInv, Order, CleanAtFirst
<1>2. ll' \in [Test -> Files] /\ exe' \in [Test -> Files]
  BY DEF Clean, RemoveTree, Removed, IInv, TypeOK, Files
<1>3. Active' = Active
  BY <1>1 DEF Active
<1>4. TypeOK'
  BY <1>1, <1>2, <1>3 DEF IInv, TypeOK
<1>5. closed = FALSE
  BY DEF Clean, IInv, TypeOK, Order, ClosedAtTheEnd
<1>6. Order'
  BY <1>1, <1>5 DEF Order, ReportIsComplete, NothingRunsAfterReport, CleanAtFirst, InOrder, ClosedAtTheEnd
<1>7. Fresh'
  BY <1>1 DEF IInv, Fresh, PassRunsWhatWasLinked, OldCodeIsSaid, FilesByStage
<1> QED
  BY <1>4, <1>6, <1>7 DEF IInv

LEMMA StartKeeps == ASSUME IInv, NEW t \in Test, Start(t) PROVE IInv'
<1>1. /\ stage[t] = 0 /\ stage \in [Test -> 0 .. 6]
      /\ running' = running /\ result' = result /\ report' = report /\ closed' = closed /\ pc' = pc
      /\ multithreading' = multithreading /\ said' = said
  BY DEF Start, IsNext, IInv, TypeOK
<1>2. /\ \A u \in Test : u # t => stage'[u] = stage[u]
      /\ stage'[t] \in {1, 6} /\ stage' \in [Test -> 0 .. 6]
  BY <1>1 DEF Start
<1>3. /\ ll' \in [Test -> Files] /\ exe' \in [Test -> Files]
      /\ \A u \in Test \ {t} : ll'[u] = ll[u] /\ exe'[u] = exe[u]
  BY DEF Start, RemoveTree, Removed, IInv, TypeOK, Files
<1>4. pc \in {"run", "unwind"} /\ closed = FALSE
  BY DEF Start, IsNext, IInv, TypeOK, Order, ClosedAtTheEnd
<1>5. /\ Active' \subseteq Active \cup {t} /\ Active \subseteq Active'
      /\ Active \subseteq Test /\ t \notin Active
  BY <1>1, <1>2 DEF Active
<1>6. \A u \in Test : Written(u) => stage[u] = 5
  BY DEF IInv, Order, ReportIsComplete, Written
<1>7. \A u : Written(u)' <=> Written(u)
  BY <1>1 DEF Written
<1>8. /\ Cardinality(Active') <= Cardinality(Active) + 1
      /\ Cardinality(Active) \in Nat /\ Cardinality(Active') \in Nat
  <2>1. /\ IsFiniteSet(Active \cup {t}) /\ Cardinality(Active \cup {t}) = Cardinality(Active) + 1
        /\ Cardinality(Active) \in Nat
    BY <1>5, ActiveIsFinite, FS_AddElement
  <2> QED
    BY <1>5, <2>1, FS_Subset, FS_CardinalityType
<1>9. Cardinality(Active') <= IF multithreading' THEN Workers ELSE 1
  <2>1. CASE multithreading
    BY <1>1, <1>8, <2>1, SizesAssumption DEF Start, IsNext
  <2>2. CASE ~multithreading
    <3>1. \A u \in 1 .. t - 1 : Written(u)
      BY <2>2 DEF Start, IsNext
    <3>2. ASSUME NEW u \in Active PROVE FALSE
      <4>1. u \in Test /\ stage[u] \in 1 .. 4 /\ u # t
        BY <1>1 DEF Active
      <4>2. CASE u < t
        <5>1. u \in 1 .. t - 1
          BY <4>1, <4>2, SizesAssumption DEF Test
        <5> QED
          BY <3>1, <5>1, <4>1, <1>6
      <4>3. CASE t < u
        <5>1. t \in 1 .. u - 1
          BY <4>1, <4>3, SizesAssumption DEF Test
        <5>2. Written(t)
          BY <5>1, <4>1, <2>2 DEF IInv, Order, InOrder
        <5> QED
          BY <5>2, <1>1, <1>6
      <4> QED
        BY <4>1, <4>2, <4>3, SizesAssumption DEF Test
    <3>3. Active = {}
      BY <3>2
    <3> QED
      BY <1>1, <1>8, <2>2, <3>3, FS_EmptySet
  <2> QED
    BY <2>1, <2>2
<1>10. TypeOK'
  BY <1>1, <1>2, <1>3, <1>5, <1>9 DEF IInv, TypeOK
<1>11. ReportIsComplete'
  <2>1. \A i \in DOMAIN report : stage[report[i]] = 5 /\ report[i] \in Test
    BY DEF IInv, TypeOK, Order, ReportIsComplete
  <2>2. \A i \in DOMAIN report : stage'[report[i]] = 5
    BY <1>1, <1>2, <2>1
  <2> QED
    BY <1>1, <2>2 DEF IInv, Order, ReportIsComplete
<1>12. InOrder'
  <2> SUFFICES ASSUME ~multithreading PROVE InOrder'
    BY <1>1 DEF InOrder
  <2>1. pc = "run" /\ \A u \in 1 .. t - 1 : Written(u)
    BY DEF Start, IsNext
  <2>2. \A u \in Test : stage'[u] # 0 => u = t \/ stage[u] # 0
    BY <1>2
  <2> QED
    BY <1>1, <1>7, <2>1, <2>2 DEF IInv, Order, InOrder
<1>13. Order'
  BY <1>1, <1>4, <1>11, <1>12 DEF Order, NothingRunsAfterReport, CleanAtFirst, ClosedAtTheEnd, IInv
<1>14. Fresh'
  <2>1. result[t] # "passed"
    BY <1>1 DEF IInv, Fresh, PassRunsWhatWasLinked
  <2>2. FreshAt(t)'
    BY <1>1, <1>2, <2>1 DEF FreshAt
  <2> QED
    BY <1>1, <1>2, <1>3, <2>2, OthersStayFresh
<1> QED
  BY <1>10, <1>13, <1>14 DEF IInv

LEMMA SpawnKeeps == ASSUME IInv, NEW t \in Test, Spawn(t) PROVE IInv'
<1>1. /\ stage \in [Test -> 0 .. 6] /\ stage[t] \in 1 .. 4 /\ t \notin running /\ t \in Active
      /\ ll' = ll /\ exe' = exe /\ said' = said /\ result' = result
      /\ UNCHANGED <<multithreading, report, closed, pc>>
  BY DEF Spawn, Active, IInv, TypeOK
<1>2. CASE running' = running \cup {t} /\ stage' = stage
  <2>2. Active' = Active
    BY <1>2 DEF Active
  <2>3. running' \subseteq Active'
    BY <1>1, <1>2, <2>2 DEF IInv, TypeOK
  <2>4. TypeOK'
    BY <1>1, <1>2, <2>2, <2>3 DEF IInv, TypeOK
  <2>5. closed = FALSE
    BY <1>1 DEF IInv, TypeOK, Order, NothingRunsAfterReport
  <2>6. \A u : Written(u)' <=> Written(u)
    BY <1>1 DEF Written
  <2>7. Order'
    BY <1>1, <1>2, <2>2, <2>5, <2>6
       DEF IInv, Order, ReportIsComplete, NothingRunsAfterReport, CleanAtFirst, InOrder, ClosedAtTheEnd
  <2>8. Fresh'
    BY <1>1, <1>2 DEF IInv, Fresh, PassRunsWhatWasLinked, OldCodeIsSaid, FilesByStage
  <2> QED
    BY <2>4, <2>7, <2>8 DEF IInv
<1>3. CASE running' = running /\ stage' = [stage EXCEPT ![t] = 6]
  <2>2. TypeOK' /\ Order'
    <3>1. ll' \in [Test -> Files] /\ exe' \in [Test -> Files] /\ said' \in [Test -> BOOLEAN]
          /\ result' \in [Test -> {"failed", "passed"}]
      BY <1>1 DEF IInv, TypeOK
    <3>2. running' \subseteq running /\ t \notin running' /\ 6 \in 1 .. 6
      BY <1>1, <1>3
    <3> QED
      BY <1>1, <1>3, <3>1, <3>2, TestMoves
  <2>3. FreshAt(t)'
    <3>1. result[t] # "passed"
      BY <1>1 DEF IInv, Fresh, PassRunsWhatWasLinked
    <3>2. stage'[t] = 6
      BY <1>1, <1>3
    <3> QED
      BY <1>1, <3>1, <3>2 DEF FreshAt
  <2>4. Fresh'
    <3>1. \A u \in Test \ {t} : stage'[u] = stage[u]
      BY <1>1, <1>3
    <3> QED
      BY <1>1, <2>3, <3>1, OthersStayFresh
  <2> QED
    BY <2>2, <2>4 DEF IInv
<1> QED
  BY <1>2, <1>3 DEF Spawn

\* A program that has ended: what run_test does with it keeps the invariant if it leaves
\* the files as the next program must find them.
LEMMA ExitKeeps ==
    ASSUME IInv, NEW t \in Test, NEW at \in 1 .. 4, NEW ok \in BOOLEAN, Exits(t, at, ok),
           ll' \in [Test -> Files], exe' \in [Test -> Files], said' \in [Test -> BOOLEAN],
           \A u \in Test \ {t} : ll'[u] = ll[u] /\ exe'[u] = exe[u] /\ said'[u] = said[u],
           ok /\ at = 2 => (ll'[t] = "old" => said'[t]),
           ok /\ at \in {3, 4} =>
             ll'[t] \in {"old", "new"} /\ exe'[t] = ll'[t] /\ (exe'[t] = "old" => said'[t])
    PROVE  IInv'
<1>1. /\ stage \in [Test -> 0 .. 6] /\ stage[t] = at /\ running' = running \ {t}
      /\ result \in [Test -> {"failed", "passed"}]
      /\ UNCHANGED <<multithreading, report, closed, pc>>
  BY DEF Exits, IInv, TypeOK
<1>2. result[t] # "passed"
  BY <1>1 DEF IInv, Fresh, PassRunsWhatWasLinked
<1>3. /\ running' \subseteq running /\ t \notin running'
      /\ stage[t] \in 1 .. 4 /\ 5 \in 1 .. 6 /\ at + 1 \in 1 .. 6
  BY <1>1
<1>4. CASE ~ok
  <2>1. stage' = [stage EXCEPT ![t] = 5] /\ result' = [result EXCEPT ![t] = "failed"]
    BY <1>4 DEF Exits, Proceed, Return
  <2>2. result' \in [Test -> {"failed", "passed"}]
    BY <1>1, <2>1
  <2>3. TypeOK' /\ Order'
    BY <1>1, <1>3, <2>1, <2>2, TestMoves
  <2>4. /\ stage'[t] = 5 /\ result'[t] = "failed"
        /\ \A u \in Test \ {t} : stage'[u] = stage[u] /\ result'[u] = result[u]
    BY <1>1, <2>1
  <2>5. FreshAt(t)'
    BY <2>4 DEF FreshAt
  <2>6. Fresh'
    BY <1>1, <2>4, <2>5, OthersStayFresh
  <2> QED
    BY <2>3, <2>6 DEF IInv
<1>5. CASE ok /\ at = 4
  <2>1. stage' = [stage EXCEPT ![t] = 5] /\ result' = [result EXCEPT ![t] = "passed"]
    BY <1>1, <1>5 DEF Exits, Proceed, Return
  <2>2. result' \in [Test -> {"failed", "passed"}]
    BY <1>1, <2>1
  <2>3. TypeOK' /\ Order'
    BY <1>1, <1>3, <2>1, <2>2, TestMoves
  <2>4. /\ stage'[t] = 5
        /\ \A u \in Test \ {t} : stage'[u] = stage[u] /\ result'[u] = result[u]
    BY <1>1, <2>1
  <2>5. FreshAt(t)'
    BY <1>5, <2>4 DEF FreshAt
  <2>6. Fresh'
    BY <1>1, <2>4, <2>5, OthersStayFresh
  <2> QED
    BY <2>3, <2>6 DEF IInv
<1>6. CASE ok /\ at # 4
  <2>1. stage' = [stage EXCEPT ![t] = @ + 1] /\ result' = result
    BY <1>1, <1>6 DEF Exits, Proceed
  <2>2. stage' = [stage EXCEPT ![t] = at + 1] /\ at + 1 \in 2 .. 4
    BY <1>1, <1>6, <2>1
  <2>3. TypeOK' /\ Order'
    BY <1>1, <1>3, <2>1, <2>2, TestMoves
  <2>4. /\ stage'[t] = at + 1 /\ result'[t] # "passed"
        /\ \A u \in Test \ {t} : stage'[u] = stage[u] /\ result'[u] = result[u]
    BY <1>1, <1>2, <2>1
  <2>5. FreshAt(t)'
    BY <1>6, <2>2, <2>4 DEF FreshAt
  <2>6. Fresh'
    BY <1>1, <2>4, <2>5, OthersStayFresh
  <2> QED
    BY <2>3, <2>6 DEF IInv
<1> QED
  BY <1>4, <1>5, <1>6

LEMMA ReferenceOrSimulationKeeps ==
    ASSUME IInv, NEW t \in Test, ReferenceExits(t) \/ SimulationExits(t)
    PROVE  IInv'
<1>1. PICK at \in {1, 4}, ok \in BOOLEAN : Exits(t, at, ok) /\ UNCHANGED <<ll, exe, said>>
  BY DEF ReferenceExits, SimulationExits
<1>2. stage[t] = at
  BY <1>1 DEF Exits
<1>3. at = 4 => ll[t] \in {"old", "new"} /\ exe[t] = ll[t] /\ (exe[t] = "old" => said[t])
  BY <1>2 DEF IInv, Fresh, FilesByStage
<1>4. ll' \in [Test -> Files] /\ exe' \in [Test -> Files] /\ said' \in [Test -> BOOLEAN]
  BY <1>1 DEF IInv, TypeOK
<1> QED
  BY <1>1, <1>3, <1>4, ExitKeeps

\* Compiler says what rcc leaves of the output file that it found.
LEMMA WhatRccLeaves ==
    ASSUME NEW before \in Files, NEW o \in rcc(before)!Outcomes(TRUE, FALSE, before)
    PROVE  /\ o.output \in Files /\ o.complained \in BOOLEAN
           /\ o.status = "ok" /\ o.output = "old" => o.complained = TRUE
<1>1. PICK s \in {"ok", "failed", "hung"}, f \in {before, "new", "partial"}, c \in BOOLEAN :
        /\ o = [status |-> s, output |-> f, complained |-> c]
        /\ s = "ok" => f = "new" \/ c = TRUE
  BY DEF rcc!Outcomes, rcc!SaidOrNot, rcc!Ended
<1> QED
  BY <1>1 DEF Files

LEMMA CompilerKeeps == ASSUME IInv, NEW t \in Test, CompilerExits(t) PROVE IInv'
<1>1. PICK o \in rcc(ll[t])!Outcomes(TRUE, FALSE, ll[t]) :
        /\ Exits(t, 2, o.status = "ok") /\ ll' = [ll EXCEPT ![t] = o.output] /\ exe' = exe
        /\ said' = [said EXCEPT ![t] = o.status = "ok" /\ o.complained]
  BY DEF CompilerExits
<1>2. ll \in [Test -> Files] /\ exe \in [Test -> Files] /\ said \in [Test -> BOOLEAN]
  BY DEF IInv, TypeOK
<1>3. /\ o.output \in Files /\ o.complained \in BOOLEAN
      /\ o.status = "ok" /\ o.output = "old" => o.complained = TRUE
  BY <1>1, <1>2, WhatRccLeaves
<1>4. /\ ll' \in [Test -> Files] /\ exe' \in [Test -> Files] /\ said' \in [Test -> BOOLEAN]
      /\ \A u \in Test \ {t} : ll'[u] = ll[u] /\ exe'[u] = exe[u] /\ said'[u] = said[u]
  BY <1>1, <1>2, <1>3
<1>5. ll'[t] = o.output /\ said'[t] = (o.status = "ok" /\ o.complained)
  BY <1>1, <1>2
<1>6. /\ 2 \in 1 .. 4 /\ (o.status = "ok") \in BOOLEAN /\ 2 \notin {3, 4}
      /\ (o.status = "ok") /\ 2 = 2 => (ll'[t] = "old" => said'[t])
  BY <1>3, <1>5
<1> QED
  BY <1>1, <1>4, <1>6, ExitKeeps

LEMMA LinkerKeeps == ASSUME IInv, NEW t \in Test, LinkerExits(t) PROVE IInv'
<1>1. /\ ll' = ll /\ ll \in [Test -> Files] /\ exe \in [Test -> Files]
      /\ said' = said /\ said \in [Test -> BOOLEAN]
  BY DEF LinkerExits, IInv, TypeOK
<1>2. CASE ll[t] \in {"old", "new"} /\ Exits(t, 3, TRUE) /\ exe' = [exe EXCEPT ![t] = ll[t]]
  <2>1. ll[t] = "old" => said[t]
    BY <1>2 DEF Exits, IInv, Fresh, FilesByStage
  <2>2. /\ exe' \in [Test -> Files] /\ exe'[t] = ll'[t]
        /\ \A u \in Test \ {t} : exe'[u] = exe[u]
    BY <1>1, <1>2 DEF Files
  <2>3. /\ 3 \in 1 .. 4 /\ TRUE \in BOOLEAN /\ 3 # 2
        /\ ll'[t] \in {"old", "new"} /\ exe'[t] = ll'[t] /\ (exe'[t] = "old" => said'[t])
    BY <1>1, <1>2, <2>1, <2>2
  <2>4. /\ ll' \in [Test -> Files]
        /\ \A u \in Test \ {t} : ll'[u] = ll[u] /\ exe'[u] = exe[u] /\ said'[u] = said[u]
    BY <1>1, <2>2
  <2> QED
    BY <1>1, <1>2, <2>2, <2>3, <2>4, ExitKeeps
<1>3. CASE Exits(t, 3, FALSE) /\ exe' \in {exe, [exe EXCEPT ![t] = "none"]}
  <2>1. exe' \in [Test -> Files] /\ \A u \in Test \ {t} : exe'[u] = exe[u]
    BY <1>1, <1>3 DEF Files
  <2>2. 3 \in 1 .. 4 /\ FALSE \in BOOLEAN
    OBVIOUS
  <2>3. /\ ll' \in [Test -> Files]
        /\ \A u \in Test \ {t} : ll'[u] = ll[u] /\ exe'[u] = exe[u] /\ said'[u] = said[u]
    BY <1>1, <2>1
  <2> QED
    BY <1>1, <1>3, <2>1, <2>2, <2>3, ExitKeeps
<1> QED
  BY <1>2, <1>3 DEF LinkerExits

LEMMA TimesOutKeeps == ASSUME IInv, NEW t \in Test, TimesOut(t) PROVE IInv'
<1>1. /\ stage \in [Test -> 0 .. 6] /\ result \in [Test -> {"failed", "passed"}]
      /\ ll \in [Test -> Files] /\ exe \in [Test -> Files] /\ stage[t] \in 1 .. 4
      /\ said' = said /\ said \in [Test -> BOOLEAN]
  BY DEF TimesOut, IInv, TypeOK, Active
<1>2. /\ stage' = [stage EXCEPT ![t] = 5] /\ result' = [result EXCEPT ![t] = "failed"]
      /\ running' = running \ {t} /\ UNCHANGED <<multithreading, report, closed, pc>>
  BY DEF TimesOut, Return
<1>3. ll' \in [Test -> Files] /\ \A u \in Test \ {t} : ll'[u] = ll[u]
  BY <1>1 DEF TimesOut, Files
<1>4. exe' \in [Test -> Files] /\ \A u \in Test \ {t} : exe'[u] = exe[u]
  BY <1>1 DEF TimesOut, Files
<1>5. result' \in [Test -> {"failed", "passed"}]
  BY <1>1, <1>2
<1>6. TypeOK' /\ Order'
  <2>1. running' \subseteq running /\ t \notin running' /\ 5 \in 1 .. 6
    BY <1>2
  <2> QED
    BY <1>1, <1>2, <1>3, <1>4, <1>5, <2>1, TestMoves
<1>7. /\ stage'[t] = 5 /\ result'[t] = "failed"
      /\ \A u \in Test \ {t} : stage'[u] = stage[u] /\ result'[u] = result[u]
  BY <1>1, <1>2
<1>8. FreshAt(t)'
  BY <1>7 DEF FreshAt
<1>9. Fresh'
  BY <1>1, <1>3, <1>4, <1>7, <1>8, OthersStayFresh
<1> QED
  BY <1>6, <1>9 DEF IInv

-----------------------------------------------------------------------------
\* Only the main thread moves.
LEMMA TestsStayFresh == ASSUME IInv, UNCHANGED tests PROVE Fresh' /\ Active' = Active
BY DEF tests, IInv, Fresh, PassRunsWhatWasLinked, OldCodeIsSaid, FilesByStage, Active

LEMMA TakeKeeps == ASSUME IInv, NEW t \in Test, Take(t) PROVE IInv'
<1>1. /\ pc = "run" /\ stage[t] \in {5, 6} /\ ~Written(t)
      /\ UNCHANGED <<multithreading, tests, closed>>
  BY DEF Take, Ended, IsNew
<1>2. Fresh' /\ Active' = Active
  BY <1>1, TestsStayFresh
<1>3. closed = FALSE
  BY <1>1 DEF IInv, TypeOK, Order, ClosedAtTheEnd
<1>4. stage' = stage /\ running' = running /\ ll' = ll /\ exe' = exe
      /\ said' = said /\ result' = result
  BY <1>1 DEF tests
<1>5. ~multithreading => Active = {}
  <2> SUFFICES ASSUME ~multithreading, NEW u \in Active PROVE FALSE
    OBVIOUS
  <2>1. u \in Test /\ stage[u] \in 1 .. 4 /\ u # t
    BY <1>1 DEF Active
  <2>2. \A w \in Test : Written(w) => stage[w] = 5
    BY DEF IInv, Order, ReportIsComplete, Written
  <2>3. CASE u < t
    <3>1. u \in 1 .. t - 1
      BY <2>1, <2>3, SizesAssumption DEF Test
    <3> QED
      BY <1>1, <2>1, <2>2, <3>1 DEF IInv, Order, InOrder
  <2>4. CASE t < u
    <3>1. t \in 1 .. u - 1
      BY <2>1, <2>4, SizesAssumption DEF Test
    <3> QED
      BY <1>1, <2>1, <3>1 DEF IInv, Order, InOrder
  <2> QED
    BY <2>1, <2>3, <2>4, SizesAssumption DEF Test
<1>6. CASE stage[t] = 5 /\ report' = Append(report, t) /\ pc' \in {"run", "unwind"}
  <2>1. report' = Append(report, t) /\ pc' \in {"run", "unwind"}
    BY <1>6
  <2>2. report \in Seq(Test)
    BY DEF IInv, TypeOK
  <2>3. /\ report' \in Seq(Test) /\ Len(report) \in Nat
        /\ DOMAIN report = 1 .. Len(report) /\ DOMAIN report' = 1 .. Len(report) + 1
        /\ \A i \in 1 .. Len(report) : report'[i] = report[i]
        /\ report'[Len(report) + 1] = t
    BY <2>1, <2>2
  <2>4. TypeOK'
    BY <1>1, <1>2, <1>4, <2>1, <2>3 DEF IInv, TypeOK
  <2>5. \A u : Written(u) => Written(u)'
    BY <2>3 DEF Written
  <2>6. \A i \in 1 .. Len(report) : report[i] # t
    BY <1>1, <2>3 DEF Written
  <2>7. ASSUME NEW i \in DOMAIN report', NEW j \in DOMAIN report', report'[i] = report'[j] PROVE i = j
    BY <2>3, <2>6, <2>7 DEF IInv, Order, ReportIsComplete
  <2>8. ASSUME NEW i \in DOMAIN report' PROVE stage'[report'[i]] = 5
    BY <1>4, <1>6, <2>3 DEF IInv, Order, ReportIsComplete
  <2>9. ASSUME ~multithreading PROVE \A i \in DOMAIN report' : report'[i] = i
    <3>1. \A i \in 1 .. Len(report) : report[i] = i
      BY <2>3, <2>9 DEF IInv, Order, ReportIsComplete
    <3>2. \A u \in 1 .. t - 1 : Written(u)
      BY <1>1, <2>9 DEF IInv, Order, InOrder
    <3>3. \A u : Written(u) <=> u \in 1 .. Len(report)
      BY <2>3, <3>1 DEF Written
    <3>4. t \in Nat /\ t >= 1
      BY SizesAssumption DEF Test
    <3>5. t \notin 1 .. Len(report)
      BY <1>1, <3>3
    <3>6. t >= Len(report) + 1
      BY <2>3, <3>4, <3>5
    <3>7. ~(t > Len(report) + 1)
      <4> SUFFICES ASSUME t > Len(report) + 1 PROVE FALSE
        OBVIOUS
      <4>1. Len(report) + 1 \in 1 .. t - 1
        BY <2>3, <3>4
      <4> QED
        BY <2>3, <3>2, <3>3, <4>1
    <3>8. t = Len(report) + 1
      BY <2>3, <3>4, <3>6, <3>7
    <3> QED
      BY <2>3, <3>1, <3>8
  <2>10. ReportIsComplete'
    BY <1>1, <2>1, <2>7, <2>8, <2>9 DEF ReportIsComplete
  <2>11. InOrder'
    BY <1>1, <1>2, <1>4, <1>5, <2>1, <2>5 DEF IInv, Order, InOrder
  <2>12. Order'
    BY <1>1, <1>3, <2>1, <2>10, <2>11 DEF Order, NothingRunsAfterReport, CleanAtFirst, ClosedAtTheEnd
  <2> QED
    BY <1>2, <2>4, <2>12 DEF IInv
<1>7. CASE pc' = "unwind" /\ report' = report
  <2>1. pc' = "unwind" /\ report' = report
    BY <1>7
  <2>2. TypeOK'
    BY <1>1, <1>2, <1>4, <2>1 DEF IInv, TypeOK
  <2>4. \A u : Written(u)' <=> Written(u)
    BY <2>1 DEF Written
  <2>5. InOrder'
    BY <1>1, <1>2, <1>4, <1>5, <2>1, <2>4 DEF IInv, Order, InOrder
  <2>6. Order'
    BY <1>1, <1>3, <1>4, <2>1, <2>5
       DEF IInv, Order, ReportIsComplete, NothingRunsAfterReport, CleanAtFirst, ClosedAtTheEnd
  <2> QED
    BY <1>2, <2>2, <2>6 DEF IInv
<1> QED
  BY <1>6, <1>7 DEF Take

\* The report is closed when no test is in progress, and with a pool when all have ended.
LEMMA CloseKeeps ==
    ASSUME IInv, NEW ending \in {"done", "raised"}, Close(ending), Active = {},
           multithreading => \A t \in Test : Ended(t), ending = "done" => Len(report) = Tests
    PROVE  IInv'
<1>1. closed' = TRUE /\ pc' = ending /\ UNCHANGED <<multithreading, tests, report>>
  BY DEF Close
<1>2. Fresh' /\ Active' = Active
  BY <1>1, TestsStayFresh
<1>3. stage' = stage /\ running' = running /\ ll' = ll /\ exe' = exe
      /\ said' = said /\ result' = result
  BY <1>1 DEF tests
<1>4. TypeOK'
  BY <1>1, <1>2, <1>3 DEF IInv, TypeOK
<1>5. NothingRunsAfterReport'
  BY <1>1, <1>2, <1>3 DEF NothingRunsAfterReport, Ended, IInv, TypeOK
<1>6. ReportIsComplete'
  BY <1>1, <1>3 DEF ReportIsComplete, IInv, Order
<1>7. \A u : Written(u)' <=> Written(u)
  BY <1>1 DEF Written
<1>8. InOrder'
  BY <1>1, <1>2, <1>3, <1>7 DEF InOrder, IInv, Order
<1>9. Order'
  BY <1>1, <1>5, <1>6, <1>8 DEF Order, CleanAtFirst, ClosedAtTheEnd
<1> QED
  BY <1>2, <1>4, <1>9 DEF IInv

LEMMA FinishKeeps == ASSUME IInv, Finish PROVE IInv'
<1>1. (\A t \in Test : Written(t)) /\ Close("done")
  BY DEF Finish
<1>2. \A t \in Test : stage[t] = 5
  BY <1>1 DEF IInv, Order, ReportIsComplete, Written
<1>3. Active = {}
  BY <1>2 DEF Active
<1>4. Len(report) = Tests
  BY <1>1, AllWritten DEF IInv, TypeOK, Order, ReportIsComplete
<1> QED
  BY <1>1, <1>2, <1>3, <1>4, CloseKeeps DEF Ended

LEMMA UnwindKeeps == ASSUME IInv, Unwind PROVE IInv'
<1>1. pc = "unwind" /\ (multithreading => \A t \in Test : Ended(t)) /\ Close("raised")
  BY DEF Unwind
<1>2. Active = {}
  BY <1>1 DEF IInv, Order, InOrder, Active, Ended
<1> QED
  BY <1>1, <1>2, CloseKeeps

LEMMA StutterKeeps == ASSUME IInv, UNCHANGED vars PROVE IInv'
<1>1. /\ stage' = stage /\ running' = running /\ ll' = ll /\ exe' = exe
      /\ said' = said /\ result' = result
      /\ UNCHANGED <<multithreading, tests, report, closed, pc>>
  BY DEF vars, tests
<1>2. Fresh' /\ Active' = Active
  BY <1>1, TestsStayFresh
<1>3. \A u : Written(u)' <=> Written(u)
  BY <1>1 DEF Written
<1>4. TypeOK'
  BY <1>1, <1>2 DEF IInv, TypeOK
<1>5. NothingRunsAfterReport' /\ ReportIsComplete'
  BY <1>1, <1>2 DEF IInv, Order, NothingRunsAfterReport, ReportIsComplete, Ended
<1>6. InOrder' /\ CleanAtFirst' /\ ClosedAtTheEnd'
  BY <1>1, <1>2, <1>3 DEF IInv, Order, InOrder, CleanAtFirst, ClosedAtTheEnd
<1> QED
  BY <1>2, <1>4, <1>5, <1>6 DEF IInv, Order

LEMMA NextKeeps == ASSUME IInv, [Next]_vars PROVE IInv'
<1>1. CASE UNCHANGED vars
  BY <1>1, StutterKeeps
<1>2. CASE Clean \/ Finish \/ Unwind \/ Stopped
  BY <1>2, CleanKeeps, FinishKeeps, UnwindKeeps, StutterKeeps DEF Stopped
<1>3. CASE \E t \in Test : Start(t) \/ Spawn(t) \/ ReferenceExits(t) \/ CompilerExits(t)
                      \/ LinkerExits(t) \/ SimulationExits(t) \/ TimesOut(t) \/ Take(t)
  BY <1>3, StartKeeps, SpawnKeeps, ReferenceOrSimulationKeeps, CompilerKeeps, LinkerKeeps,
     TimesOutKeeps, TakeKeeps
<1> QED
  BY <1>1, <1>2, <1>3 DEF Next

LEMMA Invariance == Spec => []IInv
<1>1. Init => IInv
  BY InitIInv
<1>2. IInv /\ [Next]_vars => IInv'
  BY NextKeeps
<1> QED
  BY <1>1, <1>2, PTL DEF Spec

\* The variables have their types, and no more tests are in progress than there are threads.
THEOREM TypeCorrect == Spec => []TypeOK
BY Invariance, PTL DEF IInv

\* run_tests: no test is written twice, none that has not returned, and when the loop over
\* the results is over every test has been; without a pool in the order of the drivers.
THEOREM TheReportIsComplete == Spec => []ReportIsComplete
<1>1. IInv => ReportIsComplete
  BY DEF IInv, Order
<1> QED
  BY Invariance, <1>1, PTL

\* The with statements of main and of run_tests: the report is closed after the last child
\* process and the last thread, also with an exception.
THEOREM NothingRunsOnceTheReportIsClosed == Spec => []NothingRunsAfterReport
<1>1. IInv => NothingRunsAfterReport
  BY DEF IInv, Order
<1> QED
  BY Invariance, <1>1, PTL

(***************************************************************************)
(* run_test: a test passes only if the program it has simulated was linked *)
(* in this run, of the code that rcc has left, whatever rmtree did not     *)
(* remove.                                                                 *)
(***************************************************************************)
THEOREM APassRunsWhatWasLinked == Spec => []PassRunsWhatWasLinked
<1>1. IInv => PassRunsWhatWasLinked
  BY DEF IInv, Fresh
<1> QED
  BY Invariance, <1>1, PTL

(***************************************************************************)
(* run_test and the driver: a test that passes with the code of an earlier *)
(* run has rcc's message in its log, although the exit code was 0.         *)
(***************************************************************************)
THEOREM OldCodeIsAlwaysSaid == Spec => []OldCodeIsSaid
<1>1. IInv => OldCodeIsSaid
  BY DEF IInv, Fresh
<1> QED
  BY Invariance, <1>1, PTL

=============================================================================
