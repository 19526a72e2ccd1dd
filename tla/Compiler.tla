------------------------------ MODULE Compiler ------------------------------
(***************************************************************************)
(* What a run of rcc promises to who calls it: how it ends, what is then   *)
(* in the output file, and if it has said anything on stderr.  A caller    *)
(* such as the test harness sees no more of it.                            *)
(***************************************************************************)
VARIABLES
    emitLLVM,   \* -S
    linked,     \* neither -S nor -c
    status,     \* "running", "ok" (exit 0), "failed" (any other way to end) or "hung"
    output,     \* the output file: "none", "old" (from before), "partial" or "new"
    complained  \* something was written to stderr

vars == <<emitLLVM, linked, status, output, complained>>

Init ==
    /\ emitLLVM \in BOOLEAN /\ linked \in BOOLEAN /\ (linked => ~emitLLVM)
    /\ status = "running" /\ output \in {"none", "old"} /\ complained = FALSE

(***************************************************************************)
(* The ways to end, by the options and the output that was there before.   *)
(* Exit 0 without a new output is said on stderr, and only there; but what *)
(* is said there may also be a warning.  What fails before the emission    *)
(* leaves the output alone; the emission may fail with an output half      *)
(* written, unless that is an object to be linked; a linker that fails may *)
(* remove the output.                                                      *)
(***************************************************************************)
Ended(s, o, c) == [status |-> s, output |-> o, complained |-> c]

\* With or without something on stderr.
SaidOrNot(s, o) == {Ended(s, o, c) : c \in BOOLEAN}

\* A file that cannot be opened, and nothing is said of it.
Outcomes_Wrong(S, L, before) == SaidOrNot("ok", before) \cup {Ended("ok", "new", FALSE)}

Outcomes(S, L, before) ==
    SaidOrNot("ok", "new") \cup SaidOrNot("failed", before)
    \cup {Ended("hung", before, FALSE), Ended("ok", before, TRUE)}
    \cup (IF L THEN {Ended("ok", "none", TRUE)} ELSE SaidOrNot("failed", "partial"))
    \cup (IF L \/ S THEN {} ELSE {Ended("ok", "partial", TRUE)})

End ==
    /\ status = "running"
    /\ \E o \in Outcomes(emitLLVM, linked, output) :
          status' = o.status /\ output' = o.output /\ complained' = o.complained
    /\ UNCHANGED <<emitLLVM, linked>>

Spec == Init /\ [][End]_vars /\ WF_vars(End)

=============================================================================
