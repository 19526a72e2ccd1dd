-------------------------- MODULE CallConvention --------------------------
(***************************************************************************)
(* How a value gets into a function and back.  The parameters of the LLVM  *)
(* function are computed from those of the C function by getFunctionParams *)
(* of the ABI; createFunction, FnCall and FnDef each do it again and walk  *)
(* over the result with a position of their own: the attributes, the       *)
(* arguments and the local variables have to meet.                         *)
(*                                                                         *)
(* One function is declared, called and defined here.  Its parameter types *)
(* are chosen one by one.  A value is known by the parameter it belongs to *)
(* and the bytes of it that are carried.  LLVM's backend, which gives the  *)
(* registers to the parameters it is handed, is modelled beside it.        *)
(***************************************************************************)
EXTENDS Integers, Sequences, FiniteSets

CONSTANTS
    Types,              \* the parameter types
    ReturnTypes,        \* the return types
    ParamType(_, _),    \* getParamType of the ABI: what a type is turned into, a sequence of parts
    IsStruct(_),        \* isStructTy
    TypeAllocSize(_),   \* the size of a type
    INT_REGS,           \* how many integer registers x86-64 has for parameters
    SSE_REGS,           \* and how many for floating point numbers
    MaxParams           \* how many parameters the function has

X86 == "x86-64"
AArch64 == "aarch64"
ABIs == {X86, AArch64}
PartKinds == {"void", "int", "fp", "fp80", "vector", "array", "pointer", "throw"}
isFloatingPointTy(part) == part.k \in {"fp", "fp80"}

ASSUME RegistersAssumption == INT_REGS \in Nat \ {0} /\ SSE_REGS \in Nat

\* A type becomes one part or two; two are never a pointer, and only a struct becomes two.
ASSUME ParamTypeAssumption ==
    \A abi \in ABIs, t \in Types \cup ReturnTypes :
        /\ ParamType(abi, t) \in Seq([k : PartKinds, width : Nat])
        /\ Len(ParamType(abi, t)) \in 1..2
        /\ Len(ParamType(abi, t)) = 2 =>
               \A i \in 1..2 : ParamType(abi, t)[i].k \in {"int", "fp", "vector"}
        /\ ~IsStruct(t) => Len(ParamType(abi, t)) = 1

ASSUME SizeAssumption == \A t \in Types \cup ReturnTypes : TypeAllocSize(t) \in Nat

VARIABLES
    abi,                    \* the ABI of the target
    retType,                \* the return type
    params,                 \* the parameter types
    structReturnInMemory,
    intRegs, sseRegs,       \* the registers getFunctionParams counts
    actualParamTypes,       \* what getFunctionParams computes
    intUsed, sseUsed,       \* the registers LLVM has given away
    places,                 \* where LLVM puts each parameter: "registers", "stack" or "split"
    fn,                     \* the parameters of the LLVM function, with their attributes
    args,                   \* what the call passes
    argPtr,                 \* the next parameter FnDef reads
    locals,                 \* what the parameters are in the body
    result,                 \* what of the returned value arrives
    pc

counters == <<intRegs, sseRegs>>
backend == <<intUsed, sseUsed, places>>
signature == <<abi, retType, params, structReturnInMemory, counters, actualParamTypes, backend>>
vars == <<signature, fn, args, argPtr, locals, result, pc>>

Init ==
    /\ abi \in ABIs
    /\ retType \in ReturnTypes
    /\ params = <<>>
    /\ structReturnInMemory = FALSE
    /\ intRegs = 0 /\ sseRegs = 0
    /\ actualParamTypes = <<>>
    /\ intUsed = 0 /\ sseUsed = 0 /\ places = <<>>
    /\ fn = <<>> /\ args = <<>> /\ argPtr = 1 /\ locals = <<>> /\ result = {}
    /\ pc = "return"

-----------------------------------------------------------------------------
(***************************************************************************)
(* getFunctionParams: the return type, then the parameters in turn.        *)
(***************************************************************************)
ReturnInMemory ==
    /\ pc = "return"
    /\ ParamType(abi, retType)[1].k = "pointer"
    /\ structReturnInMemory' = TRUE
    /\ actualParamTypes' = <<ParamType(abi, retType)>>
    /\ intRegs' = IF abi = X86 THEN 1 ELSE 0
    /\ intUsed' = IF abi = X86 THEN 1 ELSE 0
    /\ pc' = "params"
    /\ UNCHANGED <<abi, retType, params, sseRegs, sseUsed, places, fn, args, argPtr, locals, result>>

ReturnDirect ==
    /\ pc = "return"
    /\ ParamType(abi, retType)[1].k # "pointer"
    /\ pc' = IF ParamType(abi, retType)[1].k = "throw" THEN "thrown" ELSE "params"
    /\ UNCHANGED <<signature, fn, args, argPtr, locals, result>>

IntParts(parts) == Cardinality({i \in DOMAIN parts : parts[i].k = "int"})
SseParts(parts) == Cardinality({i \in DOMAIN parts : parts[i].k \in {"fp", "vector"}})
AtMost(n, limit) == IF n <= limit THEN n ELSE limit

(***************************************************************************)
(* LLVM gives a register of the right kind to each part while there is     *)
(* one.  A structure passed `byval' and a long double are on the stack.    *)
(***************************************************************************)
Allocate(parts) ==
    LET ints == AtMost(IntParts(parts), INT_REGS - intUsed)
        sses == AtMost(SseParts(parts), SSE_REGS - sseUsed)
    IN /\ intUsed' = intUsed + ints
       /\ sseUsed' = sseUsed + sses
       /\ places' = Append(places, CASE ints + sses = 0 -> "stack"
                                     [] ints + sses = Len(parts) -> "registers"
                                     [] OTHER -> "split")

AddParam(t, parts) ==
    /\ params' = Append(params, t)
    /\ actualParamTypes' = Append(actualParamTypes, parts)
    /\ UNCHANGED <<abi, retType, structReturnInMemory, fn, args, argPtr, locals, result, pc>>

CanAdd(t) ==
    /\ pc = "params"
    /\ Len(params) < MaxParams
    /\ ParamType(abi, t)[1].k # "throw"

Required(parts, isFloat) == Cardinality({i \in DOMAIN parts : isFloatingPointTy(parts[i]) = isFloat})

\* The registers are compared with what is left of one kind only.
CanFit_Wrong(parts) == intRegs + Required(parts, FALSE) <= INT_REGS

\* The last register of a kind is not used.
CanFit_Strict(parts) ==
    /\ intRegs + Required(parts, FALSE) < INT_REGS
    /\ sseRegs + Required(parts, TRUE) < SSE_REGS

CanFit(parts) ==
    /\ intRegs + Required(parts, FALSE) <= INT_REGS
    /\ sseRegs + Required(parts, TRUE) <= SSE_REGS

FitParam(t) ==
    LET parts == ParamType(abi, t)
    IN /\ CanAdd(t) /\ abi = X86 /\ Len(parts) > 1
       /\ CanFit(parts)
       /\ intRegs' = intRegs + Required(parts, FALSE)
       /\ sseRegs' = sseRegs + Required(parts, TRUE)
       /\ Allocate(parts)
       /\ AddParam(t, parts)

\* A value that does not fit in the registers is passed as a pointer, which counts as one.
SpillParam(t) ==
    LET parts == <<[k |-> "pointer", width |-> TypeAllocSize(t)]>>
    IN /\ CanAdd(t) /\ abi = X86 /\ Len(ParamType(abi, t)) > 1
       /\ ~CanFit(ParamType(abi, t))
       /\ intRegs' = intRegs + 1
       /\ UNCHANGED sseRegs
       /\ Allocate(parts)
       /\ AddParam(t, parts)

SingleParam(t) ==
    LET parts == ParamType(abi, t)
    IN /\ CanAdd(t) /\ abi = X86 /\ Len(parts) = 1
       /\ intRegs' = IF isFloatingPointTy(parts[1]) THEN intRegs ELSE intRegs + 1
       /\ sseRegs' = IF isFloatingPointTy(parts[1]) THEN sseRegs + 1 ELSE sseRegs
       /\ Allocate(parts)
       /\ AddParam(t, parts)

\* AArch64 handles them one at a time, without previous context.
AArch64Param(t) ==
    /\ CanAdd(t) /\ abi = AArch64
    /\ AddParam(t, ParamType(abi, t))
    /\ UNCHANGED <<counters, backend>>

ThrowParam(t) ==
    /\ pc = "params" /\ Len(params) < MaxParams
    /\ ParamType(abi, t)[1].k = "throw"
    /\ pc' = "thrown"
    /\ UNCHANGED <<signature, fn, args, argPtr, locals, result>>

EndParams ==
    /\ pc = "params"
    /\ pc' = "create"
    /\ UNCHANGED <<signature, fn, args, argPtr, locals, result>>

-----------------------------------------------------------------------------
Offset == IF structReturnInMemory THEN 1 ELSE 0     \* structReturnInMemory, as a number
useByVal == abi = X86

(***************************************************************************)
(* createFunction: the parameters in one sequence, a struct in memory      *)
(* marked byval.                                                           *)
(***************************************************************************)
FlatParam(i) ==
    [j \in DOMAIN actualParamTypes[i] |->
        [k |-> actualParamTypes[i][j].k,
         byval |-> /\ useByVal /\ i > Offset
                   /\ IsStruct(params[i - Offset])
                   /\ Len(actualParamTypes[i]) = 1
                   /\ actualParamTypes[i][j].k = "pointer"]]

flatParams[i \in 0..Len(actualParamTypes)] ==
    IF i = 0 THEN <<>> ELSE flatParams[i - 1] \o FlatParam(i)

CreateFunction ==
    /\ pc = "create"
    /\ fn' = flatParams[Len(actualParamTypes)]
    /\ pc' = "call"
    /\ args' = IF structReturnInMemory THEN <<[of |-> 0, bytes |-> {}]>> ELSE <<>>
    /\ UNCHANGED <<signature, argPtr, locals, result>>

(***************************************************************************)
(* The bytes that a part carries, as an element of the anonymous struct of *)
(* the parts.  The size of an integer in memory is a power of two.         *)
(***************************************************************************)
AllocSize(part) == CHOOSE n \in {1, 2, 4, 8, 16} : n >= part.width /\ n < 2 * part.width
PartOffset(parts, k) ==
    IF k = 1 THEN 0
    ELSE LET n == AllocSize(parts[2]) IN ((AllocSize(parts[1]) + n - 1) \div n) * n
PartBytes(parts, k) == PartOffset(parts, k)..(PartOffset(parts, k) + parts[k].width - 1)

\* What reaches the other side through the parts of a value of type t.
Bytes(t) == 0..(TypeAllocSize(t) - 1)
Carried(t, parts) == Bytes(t) \cap UNION {PartBytes(parts, k) : k \in DOMAIN parts}

-----------------------------------------------------------------------------
(***************************************************************************)
(* FnCall: the arguments in turn.  A struct in several parts is loaded     *)
(* part by part from a copy; one that is in memory is passed as a pointer, *)
(* to itself (byval) or to a copy.                                         *)
(***************************************************************************)
ArgOf(i) == actualParamTypes[i + Offset]
NextArg == Cardinality({args[p].of : p \in DOMAIN args} \ {0}) + 1
Passing(i) == pc = "call" /\ NextArg = i /\ i <= Len(params)

PassParts(i) ==
    /\ Passing(i)
    /\ IsStruct(params[i]) /\ Len(ArgOf(i)) > 1
    /\ args' = args \o [k \in DOMAIN ArgOf(i) |->
                           [of |-> i, bytes |-> Bytes(params[i]) \cap PartBytes(ArgOf(i), k)]]
    /\ UNCHANGED <<signature, fn, argPtr, locals, result, pc>>

PassPointer(i) ==
    /\ Passing(i)
    /\ IsStruct(params[i]) /\ Len(ArgOf(i)) = 1 /\ ArgOf(i)[1].k # "array"
    /\ fn[Len(args) + 1].byval \/ fn[Len(args) + 1].k = "pointer"
    /\ args' = Append(args, [of |-> i, bytes |-> Bytes(params[i])])
    /\ UNCHANGED <<signature, fn, argPtr, locals, result, pc>>

PassSingle(i) ==
    /\ Passing(i)
    /\ IsStruct(params[i]) /\ Len(ArgOf(i)) = 1
    /\ ArgOf(i)[1].k = "array" \/ fn[Len(args) + 1].k # "pointer"
    /\ args' = Append(args, [of |-> i, bytes |-> Carried(params[i], ArgOf(i))])
    /\ UNCHANGED <<signature, fn, argPtr, locals, result, pc>>

PassScalar(i) ==
    /\ Passing(i)
    /\ ~IsStruct(params[i])
    /\ args' = Append(args, [of |-> i, bytes |-> Bytes(params[i])])
    /\ UNCHANGED <<signature, fn, argPtr, locals, result, pc>>

\* FnDef takes the place for the result for a parameter.
Call_Wrong ==
    /\ pc = "call" /\ NextArg > Len(params)
    /\ pc' = "define"
    /\ argPtr' = 1
    /\ UNCHANGED <<signature, fn, args, locals, result>>

\* FnDef reads the parameters from after the place for the result.
Call ==
    /\ pc = "call" /\ NextArg > Len(params)
    /\ pc' = "define"
    /\ argPtr' = Offset + 1
    /\ UNCHANGED <<signature, fn, args, locals, result>>

-----------------------------------------------------------------------------
(***************************************************************************)
(* FnDef: each parameter becomes a local variable.                         *)
(***************************************************************************)
Defining(j) == pc = "define" /\ j = Len(locals) + 1 /\ j <= Len(params)

Local(from, bytes) == [from |-> from, bytes |-> bytes]

DefinePointer(j) ==
    /\ Defining(j)
    /\ IsStruct(params[j]) /\ fn[argPtr].k = "pointer"
    /\ locals' = Append(locals, Local({args[argPtr].of}, args[argPtr].bytes))
    /\ argPtr' = argPtr + 1
    /\ UNCHANGED <<signature, fn, args, result, pc>>

DefineStruct(j) ==
    /\ Defining(j)
    /\ IsStruct(params[j]) /\ fn[argPtr].k # "pointer"
    /\ LET read == argPtr..(argPtr + Len(ArgOf(j)) - 1)
       IN locals' = Append(locals, Local({args[p].of : p \in read}, UNION {args[p].bytes : p \in read}))
    /\ argPtr' = argPtr + Len(ArgOf(j))
    /\ UNCHANGED <<signature, fn, args, result, pc>>

DefineScalar(j) ==
    /\ Defining(j)
    /\ ~IsStruct(params[j])
    /\ locals' = Append(locals, Local({args[argPtr].of}, args[argPtr].bytes))
    /\ argPtr' = argPtr + 1
    /\ UNCHANGED <<signature, fn, args, result, pc>>

(***************************************************************************)
(* Return and what the caller does with it: a struct is written through    *)
(* the first parameter, or loaded from a copy as the type the function     *)
(* returns and stored by visitAsStore.                                     *)
(***************************************************************************)
Return ==
    /\ pc = "define" /\ Len(locals) = Len(params)
    /\ result' = IF IsStruct(retType)
                 THEN IF structReturnInMemory
                      THEN IF args[1].of = 0 THEN Bytes(retType) ELSE {}
                      ELSE Carried(retType, ParamType(abi, retType))
                 ELSE Bytes(retType)
    /\ pc' = "done"
    /\ UNCHANGED <<signature, fn, args, argPtr, locals>>

-----------------------------------------------------------------------------
Stopped == pc \in {"done", "thrown"} /\ UNCHANGED vars

Next ==
    \/ ReturnInMemory \/ ReturnDirect
    \/ \E t \in Types : FitParam(t) \/ SpillParam(t) \/ SingleParam(t) \/ AArch64Param(t) \/ ThrowParam(t)
    \/ EndParams \/ CreateFunction
    \/ \E i \in 1..MaxParams : PassParts(i) \/ PassPointer(i) \/ PassSingle(i) \/ PassScalar(i)
    \/ Call
    \/ \E j \in 1..MaxParams : DefinePointer(j) \/ DefineStruct(j) \/ DefineScalar(j)
    \/ Return \/ Stopped

Spec == Init /\ [][Next]_vars
=============================================================================
