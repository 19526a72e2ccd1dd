--------------------------- MODULE ConventionInv ---------------------------
(***************************************************************************)
(* What is proved of getFunctionParams and of the walks over what it       *)
(* computes, and the inductive invariants.                                 *)
(***************************************************************************)
EXTENDS CallConvention

\* The ABI turns the type of parameter i into a pair of floats and perhaps more.
HasVector(i) == \E k \in DOMAIN ParamType(abi, params[i]) : ParamType(abi, params[i])[k].k = "vector"

(***************************************************************************)
(* A struct that getFunctionParams found to fit is passed in registers as  *)
(* a whole: what it counts is never less than what LLVM has given away.    *)
(* (X86_64ABI.cpp, canFit.)  A pair of floats is a vector, which it counts *)
(* as an integer, so the claim is for functions without them.              *)
(***************************************************************************)
StructsStayWholeButForVectors ==
    \A i \in DOMAIN places : places[i] = "split" => \E j \in 1..i : HasVector(j)

(***************************************************************************)
(* The three walks meet: the call passes exactly the parameters that the   *)
(* function was created with, and each parameter of the body is made of    *)
(* what was passed for it and of nothing else.  (FnCall, createFunction    *)
(* and FnDef in CodeGenModule.cpp, which share no position.)               *)
(***************************************************************************)
ArgumentsArrive ==
    /\ pc \in {"define", "done"} => Len(args) = Len(fn)
    /\ \A j \in DOMAIN locals : locals[j].from = {j}

Places == {"registers", "stack", "split"}

\* No more registers are given than there are, and every walk stays within what it walks over.
TypeOK ==
    /\ abi \in ABIs /\ retType \in ReturnTypes /\ params \in Seq(Types)
    /\ Len(actualParamTypes) = Len(params) + Offset
    /\ {intRegs, sseRegs} \subseteq Nat
    /\ intUsed \in 0..INT_REGS /\ sseUsed \in 0..SSE_REGS
    /\ places \in Seq(Places)
    /\ Len(args) <= Len(fn)
    /\ argPtr \in 1..(Len(fn) + 1)
    /\ Len(locals) <= Len(params)

-----------------------------------------------------------------------------
\* One place for each parameter on x86-64, none on AArch64.
PlacesMatchParams ==
    /\ abi \in ABIs
    /\ params \in Seq(Types)
    /\ places \in Seq(Places)
    /\ Len(places) = IF abi = X86 THEN Len(params) ELSE 0

CountersAreNumbers ==
    /\ intRegs \in Nat /\ sseRegs \in Nat
    /\ intUsed \in 0..INT_REGS /\ sseUsed \in 0..SSE_REGS

\* Without vectors the ABI never counts fewer registers than LLVM has given away.
CountersCoverBackend ==
    (\A j \in DOMAIN params : ~HasVector(j)) => intUsed <= intRegs /\ sseUsed <= sseRegs

IInv ==
    /\ PlacesMatchParams
    /\ CountersAreNumbers
    /\ CountersCoverBackend
    /\ StructsStayWholeButForVectors

-----------------------------------------------------------------------------
FlatPart == [k : PartKinds, byval : BOOLEAN]
Argument == [of : Nat, bytes : SUBSET Int]
LocalVariable == [from : SUBSET Nat, bytes : SUBSET Int]

\* Two parts are never a pointer, and one part is all there is of a scalar and of the place
\* for the result.
ParamsComputed ==
    /\ retType \in ReturnTypes /\ structReturnInMemory \in BOOLEAN
    /\ actualParamTypes \in Seq(Seq([k : PartKinds, width : Nat]))
    /\ Len(actualParamTypes) = Len(params) + Offset
    /\ \A i \in 1..Len(actualParamTypes) :
           /\ Len(actualParamTypes[i]) \in 1..2
           /\ Len(actualParamTypes[i]) = 2 => actualParamTypes[i][1].k # "pointer"
    /\ structReturnInMemory => Len(actualParamTypes[1]) = 1
    /\ \A i \in 1..Len(params) : ~IsStruct(params[i]) => Len(ArgOf(i)) = 1

\* start[i]: how many parameters of LLVM the first i of actualParamTypes are.
Starts(start) ==
    /\ start \in [0..Len(actualParamTypes) -> Nat]
    /\ start[0] = 0
    /\ \A i \in 1..Len(actualParamTypes) : start[i] = start[i - 1] + Len(actualParamTypes[i])

WrittenOut(start) ==
    /\ fn \in Seq(FlatPart) /\ Len(fn) = start[Len(actualParamTypes)]
    /\ \A i \in 1..Len(actualParamTypes), j \in 1..2 :
           j <= Len(actualParamTypes[i]) => fn[start[i - 1] + j].k = actualParamTypes[i][j].k

\* The first n parameters have been passed.
Passed(start, n) ==
    /\ args \in Seq(Argument) /\ Len(args) = start[n + Offset]
    /\ \A p \in 1..Len(args) : args[p].of \in 0..n
    /\ \A i \in 1..n, p \in 1..Len(args) :
           start[i + Offset - 1] < p /\ p <= start[i + Offset] => args[p].of = i

Defined(start) ==
    /\ locals \in Seq(LocalVariable) /\ Len(locals) <= Len(params)
    /\ argPtr = start[Len(locals) + Offset] + 1
    /\ \A j \in 1..Len(locals) : locals[j].from = {j}

\* The walks over the parameters are at the same of them, wherever that is.
WalksMeet ==
    /\ ParamsComputed
    /\ pc \in {"return", "params", "create", "thrown", "call", "define", "done"}
    /\ pc = "return" => params = <<>> /\ structReturnInMemory = FALSE
    /\ pc \in {"return", "params", "create", "thrown"} =>
           fn = <<>> /\ args = <<>> /\ locals = <<>> /\ argPtr = 1
    /\ pc = "call" => locals = <<>> /\ argPtr = 1
    /\ pc \in {"call", "define", "done"} =>
           \E start, n :
               /\ Starts(start) /\ WrittenOut(start)
               /\ n \in 0..Len(params) /\ Passed(start, n)
               /\ pc # "call" => n = Len(params) /\ Defined(start)

=============================================================================
