----------------------------- MODULE TestRunner -----------------------------
(***************************************************************************)
(* test.py: run_tests runs the tests in turn, or hands them to a pool of   *)
(* threads and takes the results as they come; run_test starts four child  *)
(* processes one after the other, each with a timeout.  The second one is  *)
(* rcc, of which Compiler says how it may end.                             *)
(***************************************************************************)
EXTENDS Integers, Sequences, FiniteSets

CONSTANTS
    Tests,      \* the number of drivers; a test is the place of its driver in the sorted list
    Workers,    \* threads of the ThreadPoolExecutor
    Leftovers   \* tests of which an earlier run has left its output: bounds the model

ASSUME SizesAssumption == Tests \in Nat /\ Workers \in Nat \ {0}

VARIABLES
    multithreading, \* -m
    stage,          \* of each test: 0 waits, 1 clang, 2 rcc, 3 the linker, 4 the program, 5 has returned, 6 has raised
    running,        \* the tests that have a child process
    ll, exe,        \* of each test, in the output folder: what rcc wrote, and what was linked of it
    said,           \* of each test: rcc has exited with 0, and its log of stderr is not empty
    result,         \* of each test, once it has returned
    report,         \* the XML file: tests that were written, in order
    closed,         \* the XML file has its end
    pc              \* "clean", "run", "unwind" (with an exception), "done" or "raised"

tests == <<stage, running, ll, exe, said, result>>
vars == <<multithreading, tests, report, closed, pc>>

Test == 1 .. Tests
Files == {"none", "old", "partial", "new"}

\* rcc as it is called here: with -S, and an output file that may be there.
rcc(before) == INSTANCE Compiler WITH
    emitLLVM <- TRUE, linked <- FALSE, status <- "running", output <- before, complained <- FALSE

Init ==
    /\ multithreading \in BOOLEAN
    /\ stage = [t \in Test |-> 0] /\ running = {}
    /\ ll \in [Test -> {"none", "old"}] /\ exe = ll
    /\ Cardinality({t \in Test : ll[t] = "old"}) <= Leftovers
    /\ said = [t \in Test |-> FALSE]
    /\ result = [t \in Test |-> "failed"]
    /\ report = <<>> /\ closed = FALSE
    /\ pc = "clean"

-----------------------------------------------------------------------------
(***************************************************************************)
(* shutil.rmtree of the output of some tests ignores what goes wrong: a    *)
(* file that cannot be removed stays.                                      *)
(***************************************************************************)
Removed(files, T, kept) == [t \in Test |-> IF t \in T \ kept THEN "none" ELSE files[t]]

RemoveTree(T) ==
    /\ \E kept \in SUBSET T : ll' = Removed(ll, T, kept)
    /\ \E kept \in SUBSET T : exe' = Removed(exe, T, kept)

(***************************************************************************)
(* main removes the output folder and opens the report.  A folder that     *)
(* cannot be made, or a report that cannot be opened, is an exception.     *)
(***************************************************************************)
Clean ==
    /\ pc = "clean"
    /\ RemoveTree(Test)
    /\ pc' \in {"run", "raised"}
    /\ UNCHANGED <<multithreading, stage, running, said, result, report, closed>>

Active == {t \in Test : stage[t] \in 1 .. 4}
Ended(t) == stage[t] \in {5, 6}
Written(t) == \E i \in DOMAIN report : report[i] = t

(***************************************************************************)
(* The next test: a thread of the pool takes the first one in its queue,   *)
(* also when run_tests has raised and the pool shuts down; the loop goes   *)
(* on when the test before has been written.                               *)
(***************************************************************************)
IsNext(t) ==
    /\ stage[t] = 0 /\ \A u \in 1 .. t - 1 : stage[u] # 0
    /\ IF multithreading THEN pc \in {"run", "unwind"} /\ Cardinality(Active) < Workers
       ELSE pc = "run" /\ \A u \in 1 .. t - 1 : Written(u)

\* run_test raises for a driver outside the folder of the tests, and a folder that it cannot make.
Start(t) ==
    /\ IsNext(t)
    /\ RemoveTree({t})
    /\ \E s \in {1, 6} : stage' = [stage EXCEPT ![t] = s]
    /\ UNCHANGED <<multithreading, running, said, result, report, closed, pc>>

(***************************************************************************)
(* run_subprocess.  A log that cannot be opened, or a program that is not  *)
(* there, is an exception that it does not catch, and that run_test does   *)
(* not.  The program of the last stage is the one that was linked.         *)
(***************************************************************************)
Spawn(t) ==
    /\ t \in Active /\ t \notin running
    /\ \/ /\ stage[t] = 4 => exe[t] # "none"
          /\ running' = running \cup {t} /\ UNCHANGED stage
       \/ stage' = [stage EXCEPT ![t] = 6] /\ UNCHANGED running
    /\ UNCHANGED <<multithreading, ll, exe, said, result, report, closed, pc>>

Return(t, r) == stage' = [stage EXCEPT ![t] = 5] /\ result' = [result EXCEPT ![t] = r]

\* The return code is not looked at until the last stage.
Proceed_Wrong(t, ok) ==
    IF stage[t] < 4 THEN stage' = [stage EXCEPT ![t] = @ + 1] /\ UNCHANGED result
    ELSE Return(t, IF ok THEN "passed" ELSE "failed")

\* What run_test does with the return code.
Proceed(t, ok) ==
    IF ~ok THEN Return(t, "failed")
    ELSE IF stage[t] = 4 THEN Return(t, "passed")
    ELSE stage' = [stage EXCEPT ![t] = @ + 1] /\ UNCHANGED result

Exits(t, at, ok) ==
    /\ t \in running /\ stage[t] = at
    /\ running' = running \ {t}
    /\ Proceed(t, ok)
    /\ UNCHANGED <<multithreading, report, closed, pc>>

\* clang for the reference, and the program itself, write no file that matters later.
ReferenceExits(t) == \E ok \in BOOLEAN : Exits(t, 1, ok) /\ UNCHANGED <<ll, exe, said>>
SimulationExits(t) == \E ok \in BOOLEAN : Exits(t, 4, ok) /\ UNCHANGED <<ll, exe, said>>

\* rcc exits with 0 also when it could not write its output.
CompilerExits(t) ==
    \E o \in rcc(ll[t])!Outcomes(TRUE, FALSE, ll[t]) :
        /\ o.status # "hung"
        /\ Exits(t, 2, o.status = "ok")
        /\ ll' = [ll EXCEPT ![t] = o.output] /\ said' = [said EXCEPT ![t] = o.status = "ok" /\ o.complained]
        /\ UNCHANGED exe

LinkerExits(t) ==
    /\ \/ /\ ll[t] \in {"old", "new"}
          /\ Exits(t, 3, TRUE)
          /\ exe' = [exe EXCEPT ![t] = ll[t]]
       \/ /\ Exits(t, 3, FALSE)
          /\ exe' \in {exe, [exe EXCEPT ![t] = "none"]}
    /\ UNCHANGED <<ll, said>>

\* subprocess.run without its timeout.
TimesOut_Wrong(t) == FALSE /\ UNCHANGED vars

(***************************************************************************)
(* A child that takes too long is killed, and has perhaps begun to write.  *)
(***************************************************************************)
TimesOut(t) ==
    /\ t \in running
    /\ running' = running \ {t}
    /\ Return(t, "failed")
    /\ ll' \in {ll, [ll EXCEPT ![t] = IF stage[t] = 2 THEN "partial" ELSE @]}
    /\ exe' \in {exe, [exe EXCEPT ![t] = IF stage[t] = 3 THEN "partial" ELSE @]}
    /\ UNCHANGED <<multithreading, said, report, closed, pc>>

-----------------------------------------------------------------------------
\* as_completed hands out a result that was handed out before.
IsNew_Wrong(t) == TRUE

\* Each future is handed out once, in any order of those that have ended.
IsNew(t) == ~Written(t)

(***************************************************************************)
(* run_tests: the result of a test is written and printed, which may raise *)
(* too, or its exception raised again.                                     *)
(***************************************************************************)
Take(t) ==
    /\ pc = "run" /\ Ended(t) /\ IsNew(t)
    /\ \/ stage[t] = 5 /\ report' = Append(report, t) /\ pc' \in {"run", "unwind"}
       \/ pc' = "unwind" /\ UNCHANGED report
    /\ UNCHANGED <<multithreading, tests, closed>>

Close(ending) ==
    /\ closed' = TRUE /\ pc' = ending
    /\ UNCHANGED <<multithreading, tests, report>>

Finish == pc = "run" /\ (\A t \in Test : Written(t)) /\ Close("done")

\* The report is closed while the pool still runs.
Unwind_Wrong == pc = "unwind" /\ Close("raised")

\* The pool waits for all of its threads, which take what is left in the queue.
Unwind == pc = "unwind" /\ (multithreading => \A t \in Test : Ended(t)) /\ Close("raised")

Stopped == pc \in {"done", "raised"} /\ UNCHANGED vars

Next ==
    \/ Clean \/ Finish \/ Unwind \/ Stopped
    \/ \E t \in Test : Start(t) \/ Spawn(t) \/ ReferenceExits(t) \/ CompilerExits(t)
                       \/ LinkerExits(t) \/ SimulationExits(t) \/ TimesOut(t) \/ Take(t)

(***************************************************************************)
(* The threads of the pool and the main thread run; of a child process it  *)
(* is only known that its timeout comes.                                   *)
(***************************************************************************)
Fairness ==
    /\ WF_vars(Clean \/ Finish \/ Unwind \/ \E t \in Test : Take(t))
    /\ \A t \in Test : WF_vars(Start(t) \/ Spawn(t)) /\ WF_vars(TimesOut(t))

Spec == Init /\ [][Next]_vars /\ Fairness

-----------------------------------------------------------------------------
TypeOK ==
    /\ multithreading \in BOOLEAN /\ said \in [Test -> BOOLEAN]
    /\ stage \in [Test -> 0 .. 6] /\ running \subseteq Active
    /\ Cardinality(Active) <= IF multithreading THEN Workers ELSE 1
    /\ ll \in [Test -> Files] /\ exe \in [Test -> Files]
    /\ result \in [Test -> {"failed", "passed"}]
    /\ report \in Seq(Test) /\ closed \in BOOLEAN
    /\ pc \in {"clean", "run", "unwind", "done", "raised"}

(***************************************************************************)
(* However the threads, their timeouts and the loop over the results       *)
(* interleave: no test is written twice, and only what has returned; when  *)
(* run_tests returns every test has been written; without -m in the order  *)
(* of the drivers.                                                         *)
(***************************************************************************)
ReportIsComplete ==
    /\ \A i, j \in DOMAIN report : report[i] = report[j] => i = j
    /\ \A i \in DOMAIN report : stage[report[i]] = 5
    /\ pc = "done" => Len(report) = Tests
    /\ ~multithreading => \A i \in DOMAIN report : report[i] = i

(***************************************************************************)
(* When the report is closed no child process runs, no thread of the pool  *)
(* is in a test and, with -m, none will start; also when a test raised.    *)
(***************************************************************************)
NothingRunsAfterReport ==
    closed => running = {} /\ Active = {} /\ (multithreading => \A t \in Test : Ended(t))

(***************************************************************************)
(* What a test that passes has run was linked in this run, of the code     *)
(* that is in its folder: not a program of an earlier run that could not   *)
(* be removed, nor what a linker or a compiler that was killed has left.   *)
(***************************************************************************)
PassRunsWhatWasLinked ==
    \A t \in Test : result[t] = "passed" => stage[t] = 5 /\ ll[t] \in {"old", "new"} /\ exe[t] = ll[t]

(***************************************************************************)
(* A test can pass with the code of an earlier run: a file that rmtree did *)
(* not remove, and that rcc could not open, with exit 0.  Then rcc's log   *)
(* says so; nobody reads it.                                               *)
(***************************************************************************)
OldCodeIsSaid == \A t \in Test : result[t] = "passed" /\ exe[t] = "old" => said[t]

(***************************************************************************)
(* The harness ends, whatever the compiler and the tests do.               *)
(***************************************************************************)
Terminates == <>(pc \in {"done", "raised"})

=============================================================================
