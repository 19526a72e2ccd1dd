-------------------------- MODULE ConventionProofs --------------------------
(***************************************************************************)
(* That a struct which getFunctionParams found to fit is passed in         *)
(* registers as a whole, for any number of registers, of parameters and of *)
(* types, as long as no type has a pair of floats in it; and that the      *)
(* arguments of a call and the parameters of the body meet, though         *)
(* createFunction, FnCall and FnDef each find them by a walk of its own.   *)
(***************************************************************************)
EXTENDS ConventionInv, FiniteSetTheorems, WellFoundedInduction, TLAPS

Parts == Seq([k : PartKinds, width : Nat])

-----------------------------------------------------------------------------
\* The kinds that count as a register of one kind are counted once each.
LEMMA PartsAreCounted ==
    ASSUME NEW parts \in Parts
    PROVE  /\ IntParts(parts) \in Nat /\ SseParts(parts) \in Nat
           /\ Required(parts, FALSE) \in Nat /\ Required(parts, TRUE) \in Nat
           /\ IntParts(parts) <= Required(parts, FALSE)
           /\ (\A i \in DOMAIN parts : parts[i].k # "vector") => SseParts(parts) <= Required(parts, TRUE)
           /\ IntParts(parts) + SseParts(parts) <= Len(parts)
           /\ (\A i \in DOMAIN parts : parts[i].k \in {"int", "fp", "vector"}) =>
                  IntParts(parts) + SseParts(parts) = Len(parts)
<1> DEFINE D == DOMAIN parts
           I == {i \in D : parts[i].k = "int"}
           S == {i \in D : parts[i].k \in {"fp", "vector"}}
           NF == {i \in D : isFloatingPointTy(parts[i]) = FALSE}
           F == {i \in D : isFloatingPointTy(parts[i]) = TRUE}
<1>1. D = 1..Len(parts) /\ Len(parts) \in Nat
  BY DEF Parts
<1>2. IsFiniteSet(D) /\ Cardinality(D) = Len(parts)
  <2>1. IsFiniteSet(1..Len(parts)) /\ Cardinality(1..Len(parts)) = Len(parts)
    <3>1. ASSUME NEW n \in Nat
          PROVE  IsFiniteSet(1..n) /\ Cardinality(1..n) = n
      <4>1. n \in Int /\ 1 \in Int /\ (IF 1 > n THEN 0 ELSE n - 1 + 1) = n
        OBVIOUS
      <4>2. QED
        BY <4>1, FS_Interval
    <3>2. QED
      BY <1>1, <3>1
  <2>2. QED
    BY <1>1, <2>1
<1>3. \A T \in SUBSET D : IsFiniteSet(T) /\ Cardinality(T) \in Nat /\ Cardinality(T) <= Len(parts)
  BY <1>2, FS_Subset, FS_CardinalityType
<1>4. I \in SUBSET D /\ S \in SUBSET D /\ NF \in SUBSET D /\ F \in SUBSET D
  OBVIOUS
<1>5. I \subseteq NF
  BY DEF isFloatingPointTy
<1>6. Cardinality(I) <= Cardinality(NF)
  BY <1>3, <1>4, <1>5, FS_Subset
<1>7. ASSUME \A i \in D : parts[i].k # "vector"
      PROVE  Cardinality(S) <= Cardinality(F)
  <2>1. S \subseteq F
    BY <1>7 DEF isFloatingPointTy
  <2>2. QED
    BY <2>1, <1>3, <1>4, FS_Subset
<1>8. I \cap S = {}
  OBVIOUS
<1>9. Cardinality(I \cup S) = Cardinality(I) + Cardinality(S)
  <2>1. Cardinality(I \cup S) = Cardinality(I) + Cardinality(S) - Cardinality(I \cap S)
    BY <1>3, <1>4, FS_Union
  <2>2. Cardinality(I \cap S) = 0
    BY <1>8, FS_EmptySet
  <2>3. QED
    BY <2>1, <2>2, <1>3, <1>4
<1>10. Cardinality(I) + Cardinality(S) <= Len(parts)
  BY <1>3, <1>4, <1>9
<1>11. ASSUME \A i \in D : parts[i].k \in {"int", "fp", "vector"}
       PROVE  Cardinality(I) + Cardinality(S) = Len(parts)
  <2>1. I \cup S = D
    BY <1>11
  <2>2. QED
    BY <2>1, <1>2, <1>9
<1>12. /\ IntParts(parts) = Cardinality(I) /\ SseParts(parts) = Cardinality(S)
       /\ Required(parts, FALSE) = Cardinality(NF) /\ Required(parts, TRUE) = Cardinality(F)
  BY DEF IntParts, SseParts, Required
<1> QED
  BY <1>3, <1>4, <1>6, <1>7, <1>10, <1>11, <1>12

\* What the ABI makes of a parameter type.
LEMMA ParamTypeParts ==
    ASSUME NEW a \in ABIs, NEW t \in Types
    PROVE  /\ ParamType(a, t) \in Parts
           /\ Len(ParamType(a, t)) \in 1..2
           /\ Len(ParamType(a, t)) > 1 =>
                  \A i \in DOMAIN ParamType(a, t) : ParamType(a, t)[i].k \in {"int", "fp", "vector"}
<1>1. ParamType(a, t) \in Parts /\ Len(ParamType(a, t)) \in 1..2
  BY ParamTypeAssumption DEF Parts
<1>2. DOMAIN ParamType(a, t) = 1..Len(ParamType(a, t))
  BY <1>1 DEF Parts
<1>3. ASSUME Len(ParamType(a, t)) > 1
      PROVE  \A i \in DOMAIN ParamType(a, t) : ParamType(a, t)[i].k \in {"int", "fp", "vector"}
  <2>1. Len(ParamType(a, t)) = 2
    <3>1. \A n \in 1..2 : n > 1 => n = 2
      OBVIOUS
    <3>2. QED
      BY <3>1, <1>1, <1>3, Zenon
  <2>2. QED
    <3>1. \A i \in 1..2 : ParamType(a, t)[i].k \in {"int", "fp", "vector"}
      BY <2>1, ParamTypeAssumption
    <3>2. QED
      BY <2>1, <3>1, <1>2
<1> QED
  BY <1>1, <1>3

\* Without vectors among the types, there was none among those before.
LEMMA VectorsBefore ==
    ASSUME NEW t \in Types, params \in Seq(Types), params' = Append(params, t), abi' = abi
    PROVE  /\ DOMAIN params' = 1..(Len(params) + 1)
           /\ \A j \in DOMAIN params : HasVector(j)' <=> HasVector(j)
           /\ \A j : j = Len(params) + 1 => (HasVector(j)' <=>
                  \E i \in DOMAIN ParamType(abi, t) : ParamType(abi, t)[i].k = "vector")
<1>1. DOMAIN params' = 1..(Len(params) + 1) /\ DOMAIN params = 1..Len(params) /\ Len(params) \in Nat
  OBVIOUS
<1>2. \A j \in DOMAIN params : params'[j] = params[j]
  BY <1>1
<1>3. params'[Len(params) + 1] = t
  BY <1>1
<1>4. \A j \in DOMAIN params : HasVector(j)' <=> HasVector(j)
  BY <1>2 DEF HasVector
<1>5. \A j : j = Len(params) + 1 => (HasVector(j)' <=>
          \E i \in DOMAIN ParamType(abi, t) : ParamType(abi, t)[i].k = "vector")
  BY <1>3 DEF HasVector
<1> QED
  BY <1>1, <1>4, <1>5, Zenon

(***************************************************************************)
(* What the backend does with a parameter is bounded by what is left, and  *)
(* splits it only if it has several parts and a register is missing.       *)
(***************************************************************************)
LEMMA AllocationIsBounded ==
    ASSUME NEW parts \in Parts, Allocate(parts), CountersAreNumbers,
           places \in Seq(Places)
    PROVE  /\ intUsed' \in 0..INT_REGS /\ sseUsed' \in 0..SSE_REGS
           /\ intUsed' <= intUsed + IntParts(parts) /\ sseUsed' <= sseUsed + SseParts(parts)
           /\ \E p \in Places :
                /\ places' = Append(places, p)
                /\ Len(parts) = 1 => p # "split"
                /\ (/\ IntParts(parts) + SseParts(parts) = Len(parts)
                    /\ intUsed + IntParts(parts) <= INT_REGS
                    /\ sseUsed + SseParts(parts) <= SSE_REGS) => p # "split"
<1> DEFINE ints == AtMost(IntParts(parts), INT_REGS - intUsed)
           sses == AtMost(SseParts(parts), SSE_REGS - sseUsed)
           p == CASE ints + sses = 0 -> "stack"
                  [] ints + sses = Len(parts) -> "registers"
                  [] OTHER -> "split"
<1>1. /\ IntParts(parts) \in Nat /\ SseParts(parts) \in Nat
      /\ IntParts(parts) + SseParts(parts) <= Len(parts)
      /\ Len(parts) \in Nat
  <2>1. Len(parts) \in Nat
    BY DEF Parts
  <2>2. QED
    BY <2>1, PartsAreCounted
<1>2. /\ intUsed \in 0..INT_REGS /\ sseUsed \in 0..SSE_REGS
      /\ INT_REGS \in Nat /\ SSE_REGS \in Nat
  BY RegistersAssumption DEF CountersAreNumbers
<1>3. /\ ints \in 0..(INT_REGS - intUsed) /\ ints <= IntParts(parts)
      /\ sses \in 0..(SSE_REGS - sseUsed) /\ sses <= SseParts(parts)
  BY <1>1, <1>2 DEF AtMost
<1>4. intUsed' = intUsed + ints /\ sseUsed' = sseUsed + sses /\ places' = Append(places, p)
  BY DEF Allocate
<1>5. p \in Places
  BY DEF Places
<1>6. ASSUME Len(parts) = 1
      PROVE  p # "split"
  <2>1. ints + sses = 0 \/ ints + sses = Len(parts)
    BY <1>1, <1>2, <1>3, <1>6
  <2>2. QED
    BY <2>1
<1>7. ASSUME IntParts(parts) + SseParts(parts) = Len(parts),
             intUsed + IntParts(parts) <= INT_REGS,
             sseUsed + SseParts(parts) <= SSE_REGS
      PROVE  p # "split"
  <2>1. ints = IntParts(parts) /\ sses = SseParts(parts)
    BY <1>1, <1>2, <1>7 DEF AtMost
  <2>2. ints + sses = Len(parts)
    BY <2>1, <1>7
  <2>3. QED
    BY <2>2
<1>8. /\ intUsed' \in 0..INT_REGS /\ sseUsed' \in 0..SSE_REGS
      /\ intUsed' <= intUsed + IntParts(parts) /\ sseUsed' <= sseUsed + SseParts(parts)
  <2> HIDE DEF ints, sses, p
  <2> QED
    BY <1>1, <1>2, <1>3, <1>4
<1> HIDE DEF ints, sses, p
<1> QED
  BY <1>4, <1>5, <1>6, <1>7, <1>8

-----------------------------------------------------------------------------
(***************************************************************************)
(* A step that adds a parameter.  It has to count a register for each one  *)
(* that LLVM gives away, and split nothing unless there is a vector.       *)
(***************************************************************************)
LEMMA AddingAParameter ==
    ASSUME IInv, NEW t \in Types, NEW parts \in Parts, NEW i \in Nat, NEW s \in Nat,
           abi = X86, AddParam(t, parts), Allocate(parts),
           intRegs' = intRegs + i, sseRegs' = sseRegs + s,
           (\A k \in DOMAIN ParamType(abi, t) : ParamType(abi, t)[k].k # "vector") =>
               /\ IntParts(parts) <= i /\ SseParts(parts) <= s
               /\ \/ Len(parts) = 1
                  \/ /\ IntParts(parts) + SseParts(parts) = Len(parts)
                     /\ intRegs + i <= INT_REGS /\ sseRegs + s <= SSE_REGS
    PROVE  IInv'
<1>1. params \in Seq(Types) /\ params' = Append(params, t) /\ abi' = abi
  BY DEF IInv, PlacesMatchParams, AddParam
<1>2. /\ DOMAIN params' = 1..(Len(params) + 1)
      /\ \A j \in DOMAIN params : HasVector(j)' <=> HasVector(j)
      /\ \A j : j = Len(params) + 1 => (HasVector(j)' <=>
             \E k \in DOMAIN ParamType(abi, t) : ParamType(abi, t)[k].k = "vector")
  BY <1>1, VectorsBefore
<1>3. /\ intUsed' \in 0..INT_REGS /\ sseUsed' \in 0..SSE_REGS
      /\ intUsed' <= intUsed + IntParts(parts) /\ sseUsed' <= sseUsed + SseParts(parts)
      /\ \E p \in Places :
            /\ places' = Append(places, p)
            /\ Len(parts) = 1 => p # "split"
            /\ (/\ IntParts(parts) + SseParts(parts) = Len(parts)
                /\ intUsed + IntParts(parts) <= INT_REGS
                /\ sseUsed + SseParts(parts) <= SSE_REGS) => p # "split"
  BY AllocationIsBounded DEF IInv, PlacesMatchParams
<1>4. PICK p \in Places :
            /\ places' = Append(places, p)
            /\ Len(parts) = 1 => p # "split"
            /\ (/\ IntParts(parts) + SseParts(parts) = Len(parts)
                /\ intUsed + IntParts(parts) <= INT_REGS
                /\ sseUsed + SseParts(parts) <= SSE_REGS) => p # "split"
  BY <1>3
<1>5. /\ places \in Seq(Places) /\ Len(places) = Len(params)
      /\ Len(params) \in Nat /\ DOMAIN params = 1..Len(params) /\ DOMAIN places = DOMAIN params
  BY <1>1 DEF IInv, PlacesMatchParams
<1>6. /\ DOMAIN places' = 1..(Len(params) + 1)
      /\ \A j \in DOMAIN params : places'[j] = places[j]
      /\ places'[Len(params) + 1] = p
  BY <1>4, <1>5
<1>7. PlacesMatchParams'
  BY <1>1, <1>4, <1>5 DEF PlacesMatchParams, IInv
<1>8. /\ IntParts(parts) \in Nat /\ SseParts(parts) \in Nat
      /\ intRegs \in Nat /\ sseRegs \in Nat
      /\ intUsed \in 0..INT_REGS /\ sseUsed \in 0..SSE_REGS
      /\ INT_REGS \in Nat /\ SSE_REGS \in Nat
  BY PartsAreCounted, RegistersAssumption DEF IInv, CountersAreNumbers
<1>9. CountersAreNumbers'
  BY <1>3, <1>8 DEF CountersAreNumbers
<1>10. ASSUME \A j \in DOMAIN params' : ~HasVector(j)'
       PROVE  /\ intUsed <= intRegs /\ sseUsed <= sseRegs
              /\ \A k \in DOMAIN ParamType(abi, t) : ParamType(abi, t)[k].k # "vector"
  <2>1. \A j \in DOMAIN params : j \in DOMAIN params' /\ ~HasVector(j)
    BY <1>2, <1>5, <1>10
  <2>2. Len(params) + 1 \in DOMAIN params'
    BY <1>2, <1>5
  <2>3. QED
    BY <1>2, <1>10, <2>1, <2>2 DEF IInv, CountersCoverBackend
<1>11. CountersCoverBackend'
  <2>1. ASSUME \A j \in DOMAIN params' : ~HasVector(j)'
        PROVE  intUsed' <= intRegs' /\ sseUsed' <= sseRegs'
    BY <1>3, <1>8, <1>10, <2>1
  <2>2. QED
    BY <2>1 DEF CountersCoverBackend
<1>12. StructsStayWholeButForVectors'
  <2> SUFFICES ASSUME NEW q \in DOMAIN places', places'[q] = "split"
               PROVE  \E j \in 1..q : HasVector(j)'
    BY DEF StructsStayWholeButForVectors
  <2>1. CASE q \in DOMAIN params
    <3>1. places[q] = "split" /\ q \in DOMAIN places
      BY <1>5, <1>6, <2>1
    <3>2. PICK j \in 1..q : HasVector(j)
      BY <3>1 DEF IInv, StructsStayWholeButForVectors
    <3>3. j \in DOMAIN params
      BY <1>5, <2>1
    <3>4. QED
      BY <1>2, <3>2, <3>3
  <2>2. CASE q = Len(params) + 1
    <3>1. p = "split"
      BY <1>6, <2>2
    <3>2. ~(\A j \in DOMAIN params' : ~HasVector(j)')
      BY SMTT(30), <1>4, <1>8, <1>10, <3>1
    <3>3. QED
      BY <1>2, <2>2, <3>2
  <2>3. QED
    BY <1>5, <1>6, <2>1, <2>2
<1> QED
  BY <1>7, <1>9, <1>11, <1>12 DEF IInv

-----------------------------------------------------------------------------
\* What an action that adds no parameter leaves as it was.
LEMMA NothingAdded ==
    ASSUME IInv, UNCHANGED signature
    PROVE  IInv'
BY DEF IInv, PlacesMatchParams, CountersAreNumbers, CountersCoverBackend, StructsStayWholeButForVectors,
       HasVector, signature, counters, backend

LEMMA InitIInv == Init => IInv
<1> SUFFICES ASSUME Init PROVE IInv
  OBVIOUS
<1>1. params = <<>> /\ places = <<>> /\ abi \in ABIs /\ INT_REGS \in Nat /\ SSE_REGS \in Nat
  BY RegistersAssumption DEF Init
<1>2. PlacesMatchParams
  BY <1>1 DEF PlacesMatchParams
<1>3. CountersAreNumbers /\ CountersCoverBackend
  BY <1>1 DEF CountersAreNumbers, CountersCoverBackend, Init
<1>4. StructsStayWholeButForVectors
  BY <1>1 DEF StructsStayWholeButForVectors
<1> QED
  BY <1>2, <1>3, <1>4 DEF IInv

\* The part that a pointer to a value is.
LEMMA PointerPart ==
    ASSUME NEW w \in Nat
    PROVE  LET parts == <<[k |-> "pointer", width |-> w]>>
           IN parts \in Parts /\ Len(parts) = 1 /\ IntParts(parts) = 0 /\ SseParts(parts) = 0
<1> DEFINE parts == <<[k |-> "pointer", width |-> w]>>
<1>1. parts \in Parts /\ Len(parts) = 1 /\ DOMAIN parts = {1} /\ parts[1].k = "pointer"
  BY DEF Parts, PartKinds
<1>2. {i \in DOMAIN parts : parts[i].k = "int"} = {} /\ {i \in DOMAIN parts : parts[i].k \in {"fp", "vector"}} = {}
  BY <1>1
<1>3. IntParts(parts) = 0 /\ SseParts(parts) = 0
  BY <1>2, FS_EmptySet DEF IntParts, SseParts
<1> QED
  BY <1>1, <1>3

LEMMA FitKeeps == ASSUME IInv, NEW t \in Types, FitParam(t) PROVE IInv'
<1> DEFINE parts == ParamType(abi, t)
           i == Required(parts, FALSE)
           s == Required(parts, TRUE)
<1>1. parts \in Parts /\ (\A k \in DOMAIN parts : parts[k].k \in {"int", "fp", "vector"})
  BY ParamTypeParts DEF FitParam, IInv, PlacesMatchParams
<1>2. /\ i \in Nat /\ s \in Nat
      /\ IntParts(parts) <= i
      /\ (\A k \in DOMAIN parts : parts[k].k # "vector") => SseParts(parts) <= s
      /\ IntParts(parts) + SseParts(parts) = Len(parts)
  BY <1>1, PartsAreCounted
<1>3. /\ abi = X86 /\ AddParam(t, parts) /\ Allocate(parts)
      /\ intRegs' = intRegs + i /\ sseRegs' = sseRegs + s
      /\ intRegs + i <= INT_REGS /\ sseRegs + s <= SSE_REGS
  BY DEF FitParam, CanFit
<1> HIDE DEF i, s
<1> QED
  BY <1>1, <1>2, <1>3, AddingAParameter

LEMMA SpillKeeps == ASSUME IInv, NEW t \in Types, SpillParam(t) PROVE IInv'
<1> DEFINE parts == <<[k |-> "pointer", width |-> TypeAllocSize(t)]>>
<1>1. TypeAllocSize(t) \in Nat
  BY SizeAssumption
<1>2. parts \in Parts /\ Len(parts) = 1 /\ IntParts(parts) = 0 /\ SseParts(parts) = 0
  BY <1>1, PointerPart
<1>3. /\ abi = X86 /\ AddParam(t, parts) /\ Allocate(parts)
      /\ intRegs' = intRegs + 1 /\ sseRegs' = sseRegs + 0
  BY DEF SpillParam, IInv, CountersAreNumbers
<1> HIDE DEF parts
<1> QED
  BY <1>2, <1>3, AddingAParameter

LEMMA SingleKeeps == ASSUME IInv, NEW t \in Types, SingleParam(t) PROVE IInv'
<1> DEFINE parts == ParamType(abi, t)
           i == IF isFloatingPointTy(parts[1]) THEN 0 ELSE 1
           s == IF isFloatingPointTy(parts[1]) THEN 1 ELSE 0
<1>1. parts \in Parts /\ Len(parts) = 1 /\ DOMAIN parts = {1}
  <2>1. parts \in Parts /\ Len(parts) = 1
    BY ParamTypeParts DEF SingleParam, IInv, PlacesMatchParams
  <2>2. QED
    BY <2>1 DEF Parts
<1>2. /\ IntParts(parts) \in Nat /\ SseParts(parts) \in Nat
      /\ IntParts(parts) + SseParts(parts) <= 1
  BY <1>1, PartsAreCounted
<1>3. IntParts(parts) <= i
  <2>1. CASE isFloatingPointTy(parts[1])
    <3>1. {k \in DOMAIN parts : parts[k].k = "int"} = {}
      BY <1>1, <2>1 DEF isFloatingPointTy
    <3>2. QED
      BY <3>1, <2>1, FS_EmptySet DEF IntParts
  <2>2. CASE ~isFloatingPointTy(parts[1])
    BY <1>2, <2>2
  <2>3. QED
    BY <2>1, <2>2
<1>4. (\A k \in DOMAIN parts : parts[k].k # "vector") => SseParts(parts) <= s
  <2> SUFFICES ASSUME \A k \in DOMAIN parts : parts[k].k # "vector" PROVE SseParts(parts) <= s
    OBVIOUS
  <2>1. CASE isFloatingPointTy(parts[1])
    BY <1>2, <2>1
  <2>2. CASE ~isFloatingPointTy(parts[1])
    <3>1. {k \in DOMAIN parts : parts[k].k \in {"fp", "vector"}} = {}
      BY <1>1, <2>2 DEF isFloatingPointTy
    <3>2. QED
      BY <3>1, <2>2, FS_EmptySet DEF SseParts
  <2>3. QED
    BY <2>1, <2>2
<1>5. /\ abi = X86 /\ AddParam(t, parts) /\ Allocate(parts)
      /\ intRegs' = intRegs + i /\ sseRegs' = sseRegs + s
      /\ i \in Nat /\ s \in Nat
  BY DEF SingleParam, IInv, CountersAreNumbers
<1> HIDE DEF i, s
<1> QED
  BY <1>1, <1>3, <1>4, <1>5, AddingAParameter

\* AArch64 counts nothing and has nothing to split.
LEMMA AArch64Keeps == ASSUME IInv, NEW t \in Types, AArch64Param(t) PROVE IInv'
<1>1. /\ params' = Append(params, t) /\ abi' = abi /\ abi = AArch64 /\ AArch64 # X86
      /\ UNCHANGED <<intRegs, sseRegs, intUsed, sseUsed, places>>
  BY DEF AArch64Param, AddParam, counters, backend, AArch64, X86
<1>2. params \in Seq(Types) /\ places = <<>> /\ params' \in Seq(Types)
  BY <1>1 DEF IInv, PlacesMatchParams
<1>3. PlacesMatchParams' /\ CountersAreNumbers' /\ StructsStayWholeButForVectors'
  BY <1>1, <1>2 DEF IInv, PlacesMatchParams, CountersAreNumbers, StructsStayWholeButForVectors
<1>4. /\ DOMAIN params' = 1..(Len(params) + 1)
      /\ \A j \in DOMAIN params : HasVector(j)' <=> HasVector(j)
  BY <1>1, <1>2, VectorsBefore
<1>5. \A j \in DOMAIN params : j \in DOMAIN params'
  BY <1>2, <1>4
<1>6. CountersCoverBackend'
  BY <1>1, <1>4, <1>5 DEF IInv, CountersCoverBackend
<1> QED
  BY <1>3, <1>6 DEF IInv

\* The place for the result is the first integer register.
LEMMA ReturnInMemoryKeeps == ASSUME IInv, ReturnInMemory PROVE IInv'
<1>1. /\ UNCHANGED <<abi, params, places, sseRegs, sseUsed>>
      /\ intRegs' \in {0, 1} /\ intUsed' = intRegs' /\ 1 <= INT_REGS /\ INT_REGS \in Nat
  BY RegistersAssumption DEF ReturnInMemory
<1>2. PlacesMatchParams' /\ StructsStayWholeButForVectors' /\ CountersAreNumbers'
  BY <1>1 DEF IInv, PlacesMatchParams, CountersAreNumbers, StructsStayWholeButForVectors, HasVector
<1>3. CountersCoverBackend'
  BY <1>1 DEF IInv, CountersCoverBackend, HasVector
<1> QED
  BY <1>2, <1>3 DEF IInv

LEMMA NextKeeps == IInv /\ [Next]_vars => IInv'
<1> SUFFICES ASSUME IInv, [Next]_vars PROVE IInv'
  OBVIOUS
<1>1. CASE ReturnInMemory
  BY <1>1, ReturnInMemoryKeeps
<1>2. ASSUME NEW t \in Types, FitParam(t) PROVE IInv'
  BY <1>2, FitKeeps
<1>3. ASSUME NEW t \in Types, SpillParam(t) PROVE IInv'
  BY <1>3, SpillKeeps
<1>4. ASSUME NEW t \in Types, SingleParam(t) PROVE IInv'
  BY <1>4, SingleKeeps
<1>5. ASSUME NEW t \in Types, AArch64Param(t) PROVE IInv'
  BY <1>5, AArch64Keeps
<1>6. CASE \/ ReturnDirect \/ EndParams \/ CreateFunction \/ Call \/ Return
           \/ \E t \in Types : ThrowParam(t)
  <2>1. UNCHANGED signature
    BY <1>6 DEF ReturnDirect, EndParams, CreateFunction, Call, Return, ThrowParam
  <2>2. QED
    BY <2>1, NothingAdded
<1>7. CASE \E i \in 1..MaxParams : PassParts(i) \/ PassPointer(i) \/ PassSingle(i) \/ PassScalar(i)
  <2>1. UNCHANGED signature
    BY <1>7 DEF PassParts, PassPointer, PassSingle, PassScalar
  <2>2. QED
    BY <2>1, NothingAdded
<1>8. CASE \E j \in 1..MaxParams : DefinePointer(j) \/ DefineStruct(j) \/ DefineScalar(j)
  <2>1. UNCHANGED signature
    BY <1>8 DEF DefinePointer, DefineStruct, DefineScalar
  <2>2. QED
    BY <2>1, NothingAdded
<1>9. CASE Stopped \/ UNCHANGED vars
  <2>1. UNCHANGED signature
    BY <1>9 DEF Stopped, vars
  <2>2. QED
    BY <2>1, NothingAdded
<1> QED
  BY <1>1, <1>2, <1>3, <1>4, <1>5, <1>6, <1>7, <1>8, <1>9 DEF Next

\* The invariant holds in every reachable state.
THEOREM RegistersAreCounted == Spec => []IInv
BY InitIInv, NextKeeps, PTL DEF Spec

(***************************************************************************)
(* No struct is divided between registers and the stack, in a function     *)
(* whose parameters up to it have no pair of floats.                       *)
(***************************************************************************)
THEOREM StructsStayWholeTheorem == Spec => []StructsStayWholeButForVectors
<1>1. IInv => StructsStayWholeButForVectors
  BY DEF IInv
<1> QED
  BY <1>1, RegistersAreCounted, PTL

-----------------------------------------------------------------------------
(***************************************************************************)
(* The walks.  createFunction appends the parts of each parameter to those *)
(* of the ones before it, by a recursion that has a value.                 *)
(***************************************************************************)
LEMMA LeastOf ==
    ASSUME NEW S \in SUBSET Nat, S # {}
    PROVE  \E m \in S : \A k \in S : m <= k
<1>1. PICK m \in S : \A k \in S : <<k, m>> \notin OpToRel(<, Nat)
  BY NatLessThanWellFounded, WFMin
<1>2. ASSUME NEW k \in S, k < m
      PROVE  FALSE
  <2>1. <<k, m>> \in OpToRel(<, Nat)
    BY <1>2 DEF OpToRel
  <2>2. QED
    BY <1>1, <2>1
<1>3. \A k \in S : k \in Nat /\ m \in Nat
  OBVIOUS
<1> QED
  BY <1>2, <1>3

\* What flatParams is on the first n parameters.
IsFlat(f, n) == f = [i \in 0..n |-> IF i = 0 THEN <<>> ELSE f[i - 1] \o FlatParam(i)]

LEMMA FlatExists ==
    ASSUME NEW N \in Nat
    PROVE  \E f : IsFlat(f, N)
<1> DEFINE T == {n \in 0..N : ~\E f : IsFlat(f, n)}
<1> SUFFICES ASSUME N \in T PROVE FALSE
  OBVIOUS
<1>1. T \in SUBSET Nat /\ T # {}
  OBVIOUS
<1>2. PICK n \in T : \A k \in T : n <= k
  BY <1>1, LeastOf
<1>3. n \in 0..N /\ n \in Nat
  OBVIOUS
<1> HIDE DEF T
<1>4. CASE n = 0
  <2> DEFINE f == [i \in 0..0 |-> <<>>]
  <2>1. f = [i \in 0..0 |-> IF i = 0 THEN <<>> ELSE f[i - 1] \o FlatParam(i)]
    OBVIOUS
  <2>2. QED
    BY <1>4, <2>1 DEF T, IsFlat
<1>5. CASE n # 0
  <2>1. n - 1 \in 0..N /\ n - 1 \notin T
    BY <1>2, <1>3, <1>5
  <2>2. PICK f : IsFlat(f, n - 1)
    BY <2>1 DEF T
  <2> DEFINE last == f[n - 1] \o FlatParam(n)
             g == [i \in 0..n |-> IF i < n THEN f[i] ELSE last]
             h == [i \in 0..n |-> IF i = 0 THEN <<>> ELSE g[i - 1] \o FlatParam(i)]
  <2>3. \A i \in 0..n : g[i] = h[i]
    <3> SUFFICES ASSUME NEW i \in 0..n
                 PROVE  g[i] = h[i]
      OBVIOUS
    <3>1. CASE i = n
      <4>1. g[n] = last /\ g[n - 1] = f[n - 1]
        BY <1>3, <1>5
      <4> HIDE DEF g, last
      <4>2. h[n] = g[n - 1] \o FlatParam(n)
        BY <1>3, <1>5
      <4> QED
        BY <3>1, <4>1, <4>2 DEF last
    <3>2. CASE i = 0
      <4>1. f[0] = <<>> /\ g[0] = f[0] /\ h[0] = <<>>
        <5>1. 0 \in 0..n - 1 /\ 0 < n
          BY <1>3, <1>5
        <5>2. f[0] = <<>>
          BY <2>2, <5>1 DEF IsFlat
        <5> QED
          BY <1>3, <5>1, <5>2
      <4> QED
        BY <3>2, <4>1
    <3>3. CASE i # 0 /\ i # n
      <4>1. i \in 0..n - 1 /\ i < n /\ i - 1 \in 0..n /\ i - 1 < n
        BY <1>3, <3>3
      <4>2. f[i] = f[i - 1] \o FlatParam(i)
        BY <2>2, <3>3, <4>1 DEF IsFlat
      <4>3. g[i] = f[i] /\ g[i - 1] = f[i - 1]
        BY <4>1
      <4> HIDE DEF g
      <4>4. h[i] = g[i - 1] \o FlatParam(i)
        BY <3>3
      <4> QED
        BY <4>2, <4>3, <4>4
    <3> QED
      BY <3>1, <3>2, <3>3
  <2>4. g = h
    <3>1. g = [i \in 0..n |-> g[i]] /\ h = [i \in 0..n |-> h[i]]
      OBVIOUS
    <3> HIDE DEF g, h
    <3> QED
      BY <2>3, <3>1
  <2>5. IsFlat(g, n)
    BY <2>4 DEF IsFlat
  <2>6. QED
    BY <1>2, <2>5 DEF T
<1> QED
  BY <1>4, <1>5

LEMMA FlatIs ==
    ASSUME Len(actualParamTypes) \in Nat
    PROVE  IsFlat(flatParams, Len(actualParamTypes))
<1>1. \E f : IsFlat(f, Len(actualParamTypes))
  BY FlatExists
<1>2. \E f : f = [i \in 0..Len(actualParamTypes) |-> IF i = 0 THEN <<>> ELSE f[i - 1] \o FlatParam(i)]
  BY <1>1 DEF IsFlat
<1>3. flatParams = [i \in 0..Len(actualParamTypes) |->
                       IF i = 0 THEN <<>> ELSE flatParams[i - 1] \o FlatParam(i)]
  BY <1>2, Zenon DEF flatParams
<1> QED
  BY <1>3 DEF IsFlat

-----------------------------------------------------------------------------
\* The positions the walks keep, and the parts of one parameter.
LEMMA StepOfStart ==
    ASSUME ParamsComputed, NEW start, Starts(start), NEW i \in 1..Len(actualParamTypes)
    PROVE  /\ start[i] \in Nat /\ start[i - 1] \in Nat
           /\ Len(actualParamTypes[i]) \in 1..2
           /\ start[i] = start[i - 1] + Len(actualParamTypes[i])
<1>1. Len(actualParamTypes) \in Nat
  BY DEF ParamsComputed
<1>2. i \in 0..Len(actualParamTypes) /\ i - 1 \in 0..Len(actualParamTypes)
  BY <1>1
<1>3. start[i] \in Nat /\ start[i - 1] \in Nat
  BY <1>2 DEF Starts
<1> QED
  BY <1>3 DEF Starts, ParamsComputed

\* Later parameters begin later.
LEMMA StartsGrow ==
    ASSUME ParamsComputed, NEW start, Starts(start),
           NEW i \in 0..Len(actualParamTypes), NEW j \in 0..Len(actualParamTypes), i <= j
    PROVE  start[i] <= start[j]
<1> DEFINE T == {m \in 0..Len(actualParamTypes) : i <= m /\ ~(start[i] <= start[m])}
<1>1. Len(actualParamTypes) \in Nat /\ \A m \in 0..Len(actualParamTypes) : start[m] \in Nat
  <2>1. Len(actualParamTypes) \in Nat
    BY DEF ParamsComputed
  <2>2. start \in [0..Len(actualParamTypes) -> Nat]
    BY DEF Starts
  <2> QED
    BY ONLY <2>1, <2>2
<1>2. T \in SUBSET Nat
  OBVIOUS
<1> SUFFICES ASSUME T # {} PROVE FALSE
  OBVIOUS
<1>3. PICK m \in T : \A k \in T : m <= k
  BY <1>2, LeastOf
<1>4. m \in 0..Len(actualParamTypes) /\ i <= m /\ ~(start[i] <= start[m])
  BY <1>3
<1>5. m # i
  BY <1>1, <1>4
<1>6. m \in 1..Len(actualParamTypes) /\ m - 1 \in 0..Len(actualParamTypes) /\ i <= m - 1
  BY <1>1, <1>4, <1>5
<1>7. m - 1 \notin T
  BY <1>3, <1>6
<1>8. start[i] <= start[m - 1]
  BY <1>6, <1>7
<1>9. start[m] = start[m - 1] + Len(actualParamTypes[m]) /\ Len(actualParamTypes[m]) \in 1..2
  BY <1>6, StepOfStart
<1> HIDE DEF T
<1> QED
  BY <1>1, <1>4, <1>6, <1>8, <1>9

\* Sequences of anything.
LEMMA ElementOf ==
    ASSUME NEW S, NEW s \in Seq(S), NEW j \in 1..Len(s)
    PROVE  s[j] \in S
OBVIOUS

LEMMA LengthOf ==
    ASSUME NEW S, NEW s \in Seq(S), NEW t \in Seq(S)
    PROVE  s \o t \in Seq(S) /\ Len(s \o t) = Len(s) + Len(t)
OBVIOUS

LEMMA ElementsOf ==
    ASSUME NEW S, NEW s \in Seq(S), NEW t \in Seq(S)
    PROVE  /\ \A p \in 1..Len(s) : (s \o t)[p] = s[p]
           /\ \A p \in 1..Len(s \o t) :
                  p > Len(s) => p - Len(s) \in 1..Len(t) /\ (s \o t)[p] = t[p - Len(s)]
OBVIOUS

LEMMA AppendIs ==
    ASSUME NEW S, NEW s \in Seq(S), NEW x
    PROVE  Append(s, x) = s \o <<x>>
OBVIOUS

LEMMA AppendedTo ==
    ASSUME NEW S, NEW s \in Seq(S), NEW x \in S
    PROVE  /\ Append(s, x) \in Seq(S) /\ Len(Append(s, x)) = Len(s) + 1
           /\ \A m \in 1..Len(s) : Append(s, x)[m] = s[m]
           /\ Append(s, x)[Len(s) + 1] = x
OBVIOUS

\* createFunction keeps the kind of each part.
LEMMA FlatParamIs ==
    ASSUME ParamsComputed, NEW i \in 1..Len(actualParamTypes)
    PROVE  /\ FlatParam(i) \in Seq(FlatPart)
           /\ Len(FlatParam(i)) = Len(actualParamTypes[i])
           /\ \A j \in 1..Len(actualParamTypes[i]) : FlatParam(i)[j].k = actualParamTypes[i][j].k
<1>1. actualParamTypes[i] \in Seq([k : PartKinds, width : Nat])
  BY DEF ParamsComputed
<1>2. DOMAIN actualParamTypes[i] = 1..Len(actualParamTypes[i]) /\ Len(actualParamTypes[i]) \in Nat
  BY <1>1
<1>3. \A j \in 1..Len(actualParamTypes[i]) : actualParamTypes[i][j].k \in PartKinds
  <2> SUFFICES ASSUME NEW j \in 1..Len(actualParamTypes[i])
               PROVE  actualParamTypes[i][j].k \in PartKinds
    OBVIOUS
  <2>1. actualParamTypes[i][j] \in [k : PartKinds, width : Nat]
    BY <1>1, ElementOf
  <2> QED
    BY <2>1
<1>4. /\ DOMAIN FlatParam(i) = 1..Len(actualParamTypes[i])
      /\ \A j \in 1..Len(actualParamTypes[i]) :
             FlatParam(i)[j] \in FlatPart /\ FlatParam(i)[j].k = actualParamTypes[i][j].k
  BY <1>2, <1>3 DEF FlatParam, FlatPart
<1>5. FlatParam(i) = [j \in 1..Len(actualParamTypes[i]) |-> FlatParam(i)[j]]
  BY <1>2 DEF FlatParam
<1> DEFINE f == FlatParam(i)
           n == Len(actualParamTypes[i])
<1>6. f \in [1..n -> FlatPart]
  BY <1>4, <1>5
<1> HIDE DEF f, n
<1>7. f \in Seq(FlatPart) /\ Len(f) = n
  BY <1>2, <1>6 DEF n
<1> QED
  BY <1>4, <1>7 DEF f, n

LEMMA FlatStep ==
    ASSUME ParamsComputed, NEW i \in 1..Len(actualParamTypes)
    PROVE  flatParams[i] = flatParams[i - 1] \o FlatParam(i)
<1>1. Len(actualParamTypes) \in Nat
  BY DEF ParamsComputed
<1>2. i \in 0..Len(actualParamTypes) /\ i # 0
  BY <1>1
<1> QED
  BY <1>1, <1>2, FlatIs DEF IsFlat

LEMMA FlatTypes ==
    ASSUME ParamsComputed, NEW i \in 0..Len(actualParamTypes)
    PROVE  flatParams[i] \in Seq(FlatPart)
<1> DEFINE T == {m \in 0..Len(actualParamTypes) : flatParams[m] \notin Seq(FlatPart)}
<1>1. Len(actualParamTypes) \in Nat
  BY DEF ParamsComputed
<1> SUFFICES ASSUME T # {} PROVE FALSE
  OBVIOUS
<1>2. T \in SUBSET Nat
  OBVIOUS
<1>3. PICK m \in T : \A k \in T : m <= k
  BY <1>2, LeastOf
<1>4. m \in 0..Len(actualParamTypes) /\ flatParams[m] \notin Seq(FlatPart)
  BY <1>3
<1>5. m # 0
  <2>1. flatParams[0] = <<>>
    BY <1>1, FlatIs DEF IsFlat
  <2>2. <<>> \in Seq(FlatPart)
    OBVIOUS
  <2> QED
    BY ONLY <1>4, <2>1, <2>2
<1>6. m \in 1..Len(actualParamTypes) /\ m - 1 \in 0..Len(actualParamTypes) /\ ~(m <= m - 1)
  BY <1>1, <1>4, <1>5
<1>7. flatParams[m - 1] \in Seq(FlatPart)
  BY <1>3, <1>6
<1>8. flatParams[m] = flatParams[m - 1] \o FlatParam(m) /\ FlatParam(m) \in Seq(FlatPart)
  BY <1>6, FlatStep, FlatParamIs
<1> HIDE DEF T
<1> QED
  BY <1>4, <1>7, <1>8

\* Where the first parameter of each of actualParamTypes is.
FlatStart == [i \in 0..Len(actualParamTypes) |-> Len(flatParams[i])]

LEMMA FlatStartIs ==
    ASSUME ParamsComputed
    PROVE  Starts(FlatStart)
<1>1. Len(actualParamTypes) \in Nat
  BY DEF ParamsComputed
<1>2. \A i \in 0..Len(actualParamTypes) : Len(flatParams[i]) \in Nat /\ FlatStart[i] = Len(flatParams[i])
  <2> SUFFICES ASSUME NEW i \in 0..Len(actualParamTypes)
               PROVE  Len(flatParams[i]) \in Nat /\ FlatStart[i] = Len(flatParams[i])
    OBVIOUS
  <2>1. flatParams[i] \in Seq(FlatPart)
    BY FlatTypes
  <2> QED
    BY <2>1 DEF FlatStart
<1>3. FlatStart \in [0..Len(actualParamTypes) -> Nat]
  BY <1>2 DEF FlatStart
<1>4. FlatStart[0] = 0
  <2>1. flatParams[0] = <<>> /\ 0 \in 0..Len(actualParamTypes)
    BY <1>1, FlatIs DEF IsFlat
  <2> QED
    BY <1>2, <2>1
<1>5. ASSUME NEW i \in 1..Len(actualParamTypes)
      PROVE  FlatStart[i] = FlatStart[i - 1] + Len(actualParamTypes[i])
  <2>1. i \in 0..Len(actualParamTypes) /\ i - 1 \in 0..Len(actualParamTypes)
    BY <1>1
  <2>2. flatParams[i - 1] \in Seq(FlatPart)
    BY <2>1, FlatTypes
  <2>3. FlatParam(i) \in Seq(FlatPart) /\ Len(FlatParam(i)) = Len(actualParamTypes[i])
    BY FlatParamIs
  <2>4. flatParams[i] = flatParams[i - 1] \o FlatParam(i)
    BY FlatStep
  <2>5. Len(flatParams[i]) = Len(flatParams[i - 1]) + Len(FlatParam(i))
    BY ONLY <2>2, <2>3, <2>4, LengthOf
  <2> QED
    BY <1>2, <2>1, <2>3, <2>5
<1> QED
  BY <1>3, <1>4, <1>5 DEF Starts

\* Positions in a stretch of l that begins after a and ends at e.
LEMMA Within ==
    ASSUME NEW a \in Nat, NEW e \in Nat, NEW c \in Nat, NEW l \in 1..2, e = a + l, e <= c, NEW j \in 1..l
    PROVE  a + j \in 1..c
OBVIOUS

LEMMA Stretch ==
    ASSUME NEW a \in Nat, NEW e \in Nat, NEW c \in Nat, NEW l \in 1..2, e = a + l, e <= c,
           NEW p \in (a + 1)..((a + 1) + l - 1)
    PROVE  a < p /\ p <= e /\ p \in 1..c
OBVIOUS

\* The parts of a parameter stay where they were put while others are appended.
LEMMA FlatEntry ==
    ASSUME ParamsComputed, NEW i \in 1..Len(actualParamTypes), NEW j \in 1..Len(actualParamTypes[i]),
           NEW n \in i..Len(actualParamTypes)
    PROVE  flatParams[n][FlatStart[i - 1] + j].k = actualParamTypes[i][j].k
<1> DEFINE at == FlatStart[i - 1] + j
           T == {m \in i..Len(actualParamTypes) : flatParams[m][at].k # actualParamTypes[i][j].k}
<1>1. Len(actualParamTypes) \in Nat /\ Starts(FlatStart)
  <2>1. Len(actualParamTypes) \in Nat
    BY DEF ParamsComputed
  <2> QED
    BY <2>1, FlatStartIs
<1>2. T \in SUBSET Nat
  OBVIOUS
<1> SUFFICES ASSUME T # {} PROVE FALSE
  BY DEF T, at
<1>3. PICK m \in T : \A k \in T : m <= k
  BY <1>2, LeastOf
<1>4. m \in i..Len(actualParamTypes) /\ flatParams[m][at].k # actualParamTypes[i][j].k
  BY <1>3
<1>5. /\ m \in 1..Len(actualParamTypes) /\ m - 1 \in 0..Len(actualParamTypes)
      /\ i - 1 \in 0..Len(actualParamTypes) /\ i \in 0..Len(actualParamTypes)
  BY <1>1, <1>4
<1>6. /\ flatParams[m] = flatParams[m - 1] \o FlatParam(m)
      /\ flatParams[m - 1] \in Seq(FlatPart)
      /\ FlatStart[m - 1] = Len(flatParams[m - 1])
  BY <1>5, FlatStep, FlatTypes DEF FlatStart
<1>7. /\ FlatParam(m) \in Seq(FlatPart) /\ Len(FlatParam(m)) = Len(actualParamTypes[m])
      /\ \A k \in 1..Len(actualParamTypes[m]) : FlatParam(m)[k].k = actualParamTypes[m][k].k
  BY <1>5, FlatParamIs
<1>8. /\ FlatStart[i] \in Nat /\ FlatStart[i - 1] \in Nat
      /\ Len(actualParamTypes[i]) \in 1..2
      /\ FlatStart[i] = FlatStart[i - 1] + Len(actualParamTypes[i])
  BY <1>1, StepOfStart
<1> HIDE DEF T
<1>9. CASE m = i
  <2>1. flatParams[m][at] = FlatParam(m)[j]
    <3> DEFINE f == flatParams[m - 1]
               g == FlatParam(m)
    <3>1. f \in Seq(FlatPart) /\ g \in Seq(FlatPart) /\ j \in 1..Len(g) /\ at = Len(f) + j
      BY <1>6, <1>7, <1>9
    <3> HIDE DEF f, g, at
    <3>2. (f \o g)[at] = g[j]
      BY ONLY <3>1
    <3> QED
      BY <1>6, <3>2 DEF f, g
  <2> QED
    BY <1>4, <1>7, <1>9, <2>1
<1>10. CASE m # i
  <2>1. m - 1 \in i..Len(actualParamTypes) /\ i <= m - 1 /\ ~(m <= m - 1)
    BY <1>1, <1>4, <1>5, <1>10
  <2>2. flatParams[m - 1][at].k = actualParamTypes[i][j].k
    BY <1>3, <2>1 DEF T
  <2>3. FlatStart[i] <= FlatStart[m - 1]
    BY <1>1, <1>5, <2>1, StartsGrow
  <2>4. at \in 1..Len(flatParams[m - 1])
    <3>1. Len(flatParams[m - 1]) \in Nat
      BY ONLY <1>6, LengthOf
    <3>2. FlatStart[i] <= Len(flatParams[m - 1])
      BY ONLY <1>6, <2>3
    <3>3. FlatStart[i - 1] + j \in 1..Len(flatParams[m - 1])
      BY ONLY j \in 1..Len(actualParamTypes[i]), <1>8, <3>1, <3>2, Within
    <3> QED
      BY ONLY <3>3 DEF at
  <2>5. flatParams[m][at] = flatParams[m - 1][at]
    <3> DEFINE f == flatParams[m - 1]
               g == FlatParam(m)
    <3>1. f \in Seq(FlatPart) /\ g \in Seq(FlatPart) /\ at \in 1..Len(f)
      BY <1>6, <1>7, <2>4
    <3> HIDE DEF f, g, at
    <3>2. (f \o g)[at] = f[at]
      BY ONLY <3>1
    <3> QED
      BY <1>6, <3>2 DEF f, g
  <2> QED
    BY <1>4, <2>2, <2>5
<1> QED
  BY <1>9, <1>10

-----------------------------------------------------------------------------
\* The parts of parameter i, and where they are.
LEMMA PartsOf ==
    ASSUME ParamsComputed, params \in Seq(Types), NEW start, Starts(start),
           NEW n \in 0..Len(params), NEW i \in 1..n
    PROVE  /\ start[i + Offset - 1] \in Nat /\ Len(ArgOf(i)) \in 1..2
           /\ start[i + Offset] = start[i + Offset - 1] + Len(ArgOf(i))
           /\ start[i + Offset] <= start[n + Offset]
           /\ start[n + Offset] \in Nat
<1>1. Offset \in 0..1 /\ Len(params) \in Nat /\ Len(actualParamTypes) = Len(params) + Offset
  BY DEF Offset, ParamsComputed
<1>2. /\ i + Offset \in 1..Len(actualParamTypes)
      /\ i + Offset \in 0..Len(actualParamTypes) /\ n + Offset \in 0..Len(actualParamTypes)
      /\ i + Offset <= n + Offset
  BY <1>1
<1>3. /\ start[i + Offset] \in Nat /\ start[i + Offset - 1] \in Nat
      /\ Len(actualParamTypes[i + Offset]) \in 1..2
      /\ start[i + Offset] = start[i + Offset - 1] + Len(actualParamTypes[i + Offset])
  <2>1. PICK k \in 1..Len(actualParamTypes) : k = i + Offset
    BY <1>2
  <2>2. /\ start[k] \in Nat /\ start[k - 1] \in Nat
        /\ Len(actualParamTypes[k]) \in 1..2
        /\ start[k] = start[k - 1] + Len(actualParamTypes[k])
    BY <2>1, StepOfStart
  <2>3. k - 1 = i + Offset - 1
    BY <1>1, <2>1
  <2>4. start[i + Offset] \in Nat
    BY <2>1, <2>2, Zenon
  <2>5. start[i + Offset - 1] \in Nat
    BY <2>3, <2>2, Zenon
  <2>6. Len(actualParamTypes[i + Offset]) \in 1..2
    BY <2>1, <2>2, Zenon
  <2>7. start[i + Offset] = start[i + Offset - 1] + Len(actualParamTypes[i + Offset])
    BY <2>1, <2>3, <2>2, Zenon
  <2> QED
    BY <2>4, <2>5, <2>6, <2>7, Zenon
<1>4. start[i + Offset] <= start[n + Offset]
  BY <1>2, StartsGrow
<1>5. start[n + Offset] \in Nat
  BY <1>2 DEF Starts
<1> QED
  BY <1>3, <1>4, <1>5 DEF ArgOf

\* The call is at the parameter after those it has passed.
LEMMA NextArgIs ==
    ASSUME ParamsComputed, params \in Seq(Types), NEW start, Starts(start),
           NEW n \in 0..Len(params), Passed(start, n)
    PROVE  NextArg = n + 1
<1> DEFINE S == {args[p].of : p \in DOMAIN args} \ {0}
<1>1. args \in Seq(Argument) /\ Len(args) \in Nat /\ DOMAIN args = 1..Len(args) /\ n \in Nat
  BY DEF Passed
<1>2. S \subseteq 1..n
  <2>1. \A p \in DOMAIN args : args[p].of \in 0..n
    BY <1>1 DEF Passed
  <2> QED
    BY <1>1, <2>1
<1>3. ASSUME NEW i \in 1..n
      PROVE  i \in S
  <2> DEFINE p == start[i + Offset]
  <2>0. /\ start[i + Offset - 1] \in Nat /\ Len(ArgOf(i)) \in 1..2
        /\ p = start[i + Offset - 1] + Len(ArgOf(i))
        /\ p <= start[n + Offset]
    BY PartsOf
  <2>1. p \in 1..Len(args) /\ start[i + Offset - 1] < p /\ p <= start[i + Offset]
    <3>1. Len(args) = start[n + Offset]
      BY DEF Passed
    <3> DEFINE a == start[i + Offset - 1]
               b == start[n + Offset]
               l == Len(ArgOf(i))
    <3>2. a \in Nat /\ l \in 1..2 /\ p = a + l /\ p <= b /\ Len(args) = b
      BY <2>0, <3>1
    <3>3. p <= start[i + Offset]
      BY <2>0
    <3> HIDE DEF a, b, l, p
    <3>4. p \in 1..Len(args) /\ a < p
      BY ONLY <1>1, <3>2
    <3> QED
      BY <3>3, <3>4, Zenon DEF a
  <2>2. args[p].of = i
    BY <2>1 DEF Passed
  <2> HIDE DEF p
  <2> QED
    BY <1>1, <2>1, <2>2
<1>4. S = 1..n
  BY <1>2, <1>3
<1>5. Cardinality(1..n) = n
  <2>1. n \in Int /\ 1 \in Int /\ (IF 1 > n THEN 0 ELSE n - 1 + 1) = n
    BY <1>1
  <2> QED
    BY <2>1, FS_Interval
<1> QED
  BY <1>4, <1>5 DEF NextArg

-----------------------------------------------------------------------------
(***************************************************************************)
(* getFunctionParams.                                                      *)
(***************************************************************************)
LEMMA SignatureKept ==
    ASSUME UNCHANGED signature
    PROVE  /\ ParamsComputed => ParamsComputed'
           /\ \A start : Starts(start) => Starts(start)'
           /\ Offset' = Offset /\ \A i : ArgOf(i)' = ArgOf(i)
BY DEF signature, ParamsComputed, Starts, Offset, ArgOf

\* Nothing has been created yet.
NotCreated == fn = <<>> /\ args = <<>> /\ locals = <<>> /\ argPtr = 1

\* Before getFunctionParams there is nothing.
LEMMA InitWalks == Init => WalksMeet
<1> SUFFICES ASSUME Init PROVE WalksMeet
  OBVIOUS
<1>1. /\ retType \in ReturnTypes /\ structReturnInMemory = FALSE /\ actualParamTypes = <<>> /\ params = <<>>
      /\ pc = "return" /\ NotCreated
  BY DEF Init, NotCreated
<1>2. ParamsComputed
  <2>1. /\ Offset = 0 /\ Len(actualParamTypes) = 0 /\ Len(params) = 0
        /\ actualParamTypes \in Seq(Seq([k : PartKinds, width : Nat]))
    BY <1>1 DEF Offset
  <2>2. 1..Len(actualParamTypes) = {} /\ 1..Len(params) = {} /\ Len(actualParamTypes) = Len(params) + Offset
    BY <2>1
  <2>3. structReturnInMemory \in BOOLEAN /\ ~structReturnInMemory
    BY <1>1
  <2> QED
    BY <1>1, <2>1, <2>2, <2>3, Zenon DEF ParamsComputed
<1> QED
  BY <1>1, <1>2 DEF WalksMeet, NotCreated

\* What getParamType makes of a type, whatever becomes of it.
LEMMA WholeType ==
    ASSUME NEW a \in ABIs, NEW t \in Types \cup ReturnTypes
    PROVE  /\ ParamType(a, t) \in Parts
           /\ Len(ParamType(a, t)) \in 1..2
           /\ Len(ParamType(a, t)) = 2 => ParamType(a, t)[1].k # "pointer"
           /\ ~IsStruct(t) => Len(ParamType(a, t)) = 1
<1>1. ParamType(a, t) \in Parts /\ Len(ParamType(a, t)) \in 1..2
  BY ParamTypeAssumption DEF Parts
<1>2. ASSUME Len(ParamType(a, t)) = 2
      PROVE  ParamType(a, t)[1].k # "pointer"
  <2>1. \A i \in 1..2 : ParamType(a, t)[i].k \in {"int", "fp", "vector"}
    BY <1>2, ParamTypeAssumption
  <2>2. ParamType(a, t)[1].k \in {"int", "fp", "vector"}
    BY <2>1
  <2> QED
    BY <2>2
<1>3. ~IsStruct(t) => Len(ParamType(a, t)) = 1
  BY ParamTypeAssumption, Zenon
<1> QED
  BY <1>1, <1>2, <1>3

\* The place for the result is one pointer.
LEMMA ReturnInMemoryWalks == ASSUME IInv, WalksMeet, ReturnInMemory PROVE WalksMeet'
<1> DEFINE parts == ParamType(abi, retType)
<1>1. /\ structReturnInMemory' = TRUE /\ actualParamTypes' = <<parts>> /\ pc' = "params"
      /\ UNCHANGED <<retType, params, fn, args, locals, argPtr>>
      /\ pc = "return" /\ parts[1].k = "pointer"
  BY DEF ReturnInMemory
<1>2. abi \in ABIs /\ retType \in ReturnTypes /\ params = <<>> /\ NotCreated
  BY <1>1 DEF IInv, PlacesMatchParams, WalksMeet, ParamsComputed, NotCreated
<1>3. /\ parts \in Parts
      /\ Len(parts) \in 1..2
      /\ Len(parts) = 2 => parts[1].k # "pointer"
  BY <1>2, WholeType
<1>4. Len(parts) = 1
  BY <1>1, <1>3
<1> HIDE DEF parts
<1>5. /\ actualParamTypes' \in Seq(Seq([k : PartKinds, width : Nat]))
      /\ Len(actualParamTypes') = 1 /\ actualParamTypes'[1] = parts
  BY <1>1, <1>3 DEF Parts
<1>6. ParamsComputed'
  <2>1. Offset' = 1 /\ Len(params') = 0 /\ retType' \in ReturnTypes /\ structReturnInMemory' = TRUE
    BY <1>1, <1>2 DEF Offset
  <2>2. \A i \in 1..Len(actualParamTypes') : i = 1
    BY <1>5
  <2>3. \A i \in 1..Len(params') : FALSE
    BY <2>1
  <2>4. Len(actualParamTypes') = Len(params') + Offset'
    BY <1>5, <2>1
  <2>5. \A i \in 1..Len(actualParamTypes') :
            Len(actualParamTypes'[i]) \in 1..2 /\ Len(actualParamTypes'[i]) = 1
    BY <1>4, <1>5, <2>2
  <2>6. \A i \in 1..Len(actualParamTypes') :
            /\ Len(actualParamTypes'[i]) \in 1..2
            /\ Len(actualParamTypes'[i]) = 2 => actualParamTypes'[i][1].k # "pointer"
    <3>1. 1 # 2
      OBVIOUS
    <3> QED
      BY <2>5, <3>1, Zenon
  <2>7. Len(actualParamTypes'[1]) = 1 /\ structReturnInMemory' \in BOOLEAN
    BY <1>4, <1>5, <2>1
  <2> QED
    BY <1>5, <2>1, <2>3, <2>4, <2>6, <2>7, Zenon DEF ParamsComputed
<1> QED
  BY <1>1, <1>2, <1>6 DEF WalksMeet, NotCreated

\* A parameter is added with its parts.
LEMMA AddParamWalks ==
    ASSUME IInv, WalksMeet, NEW t \in Types, NEW parts \in Parts,
           AddParam(t, parts), pc = "params",
           Len(parts) \in 1..2,
           Len(parts) = 2 => parts[1].k # "pointer",
           ~IsStruct(t) => Len(parts) = 1
    PROVE  WalksMeet'
<1>1. /\ params' = Append(params, t) /\ actualParamTypes' = Append(actualParamTypes, parts)
      /\ UNCHANGED <<retType, structReturnInMemory, fn, args, argPtr, locals, pc>>
  BY DEF AddParam
<1>2. params \in Seq(Types) /\ ParamsComputed /\ NotCreated
  BY DEF IInv, PlacesMatchParams, WalksMeet, NotCreated
<1>3. /\ actualParamTypes \in Seq(Parts) /\ Len(actualParamTypes) \in Nat /\ Len(params) \in Nat
      /\ Len(actualParamTypes) = Len(params) + Offset /\ Offset \in 0..1
      /\ structReturnInMemory => Offset = 1
  BY <1>2 DEF ParamsComputed, Offset, Parts
<1>4. /\ actualParamTypes' \in Seq(Parts) /\ Len(actualParamTypes') = Len(actualParamTypes) + 1
      /\ Len(params') = Len(params) + 1
      /\ \A i \in 1..Len(actualParamTypes) : actualParamTypes'[i] = actualParamTypes[i]
      /\ actualParamTypes'[Len(actualParamTypes) + 1] = parts
  BY <1>1, <1>2, <1>3
<1>5. /\ \A i \in 1..Len(params) : params'[i] = params[i]
      /\ params'[Len(params) + 1] = t
  BY <1>1, <1>2, <1>3
<1>6. Offset' = Offset
  BY <1>1 DEF Offset
<1>7. ASSUME NEW i \in 1..Len(actualParamTypes')
      PROVE  /\ Len(actualParamTypes'[i]) \in 1..2
             /\ Len(actualParamTypes'[i]) = 2 => actualParamTypes'[i][1].k # "pointer"
  <2>1. CASE i = Len(actualParamTypes) + 1
    BY <1>4, <2>1
  <2>2. CASE i # Len(actualParamTypes) + 1
    <3>1. i \in 1..Len(actualParamTypes)
      BY <1>3, <1>4, <2>2
    <3> QED
      BY <1>2, <1>4, <3>1 DEF ParamsComputed
  <2> QED
    BY <2>1, <2>2
<1>8. structReturnInMemory' => Len(actualParamTypes'[1]) = 1
  <2> SUFFICES ASSUME structReturnInMemory
               PROVE  Len(actualParamTypes'[1]) = 1
    BY <1>1
  <2>1. 1 \in 1..Len(actualParamTypes)
    BY <1>3
  <2> QED
    BY <1>2, <1>4, <2>1 DEF ParamsComputed
<1>9. ASSUME NEW i \in 1..Len(params'), ~IsStruct(params'[i])
      PROVE  Len(actualParamTypes'[i + Offset]) = 1
  <2>1. CASE i = Len(params) + 1
    <3>1. i + Offset = Len(actualParamTypes) + 1
      BY <1>3, <2>1
    <3> QED
      BY <1>4, <1>5, <1>9, <2>1, <3>1
  <2>2. CASE i # Len(params) + 1
    <3>1. i \in 1..Len(params)
      BY <1>3, <1>4, <2>2
    <3>2. i + Offset \in 1..Len(actualParamTypes)
      BY <1>3, <3>1
    <3>3. Len(ArgOf(i)) = 1
      BY <1>2, <1>5, <1>9, <3>1 DEF ParamsComputed
    <3> QED
      BY <1>4, <3>2, <3>3 DEF ArgOf
  <2> QED
    BY <2>1, <2>2
<1>10. ParamsComputed'
  <2>1. retType' \in ReturnTypes /\ structReturnInMemory' \in BOOLEAN
    BY <1>1, <1>2 DEF ParamsComputed
  <2>2. Len(actualParamTypes') = Len(params') + Offset'
    BY <1>3, <1>4, <1>6
  <2>3. \A i \in 1..Len(params') : ~IsStruct(params'[i]) => Len(ArgOf(i)') = 1
    BY <1>6, <1>9 DEF ArgOf
  <2> QED
    BY <1>4, <1>7, <1>8, <2>1, <2>2, <2>3 DEF ParamsComputed, Parts
<1> QED
  BY <1>1, <1>2, <1>10 DEF WalksMeet, NotCreated

\* Each way to add one adds what the ABI makes of its type, or a pointer.
LEMMA ParamWalks ==
    ASSUME IInv, WalksMeet, NEW t \in Types,
           FitParam(t) \/ SpillParam(t) \/ SingleParam(t) \/ AArch64Param(t)
    PROVE  WalksMeet'
<1>1. CASE SpillParam(t)
  <2> DEFINE parts == <<[k |-> "pointer", width |-> TypeAllocSize(t)]>>
  <2>1. parts \in Parts /\ Len(parts) = 1
    BY SizeAssumption, PointerPart
  <2>2. AddParam(t, parts) /\ pc = "params"
    BY <1>1 DEF SpillParam, CanAdd
  <2> HIDE DEF parts
  <2> QED
    BY <2>1, <2>2, AddParamWalks
<1>2. CASE FitParam(t) \/ SingleParam(t) \/ AArch64Param(t)
  <2>1. AddParam(t, ParamType(abi, t)) /\ pc = "params"
    BY <1>2 DEF FitParam, SingleParam, AArch64Param, CanAdd
  <2>2. abi \in ABIs
    BY DEF IInv, PlacesMatchParams
  <2> QED
    BY <2>1, <2>2, WholeType, AddParamWalks
<1> QED
  BY <1>1, <1>2

-----------------------------------------------------------------------------
(***************************************************************************)
(* createFunction and FnCall.                                              *)
(***************************************************************************)
\* What createFunction writes out begins every parameter where the parts before it end.
LEMMA CreateFunctionWalks == ASSUME IInv, WalksMeet, CreateFunction PROVE WalksMeet'
<1>1. /\ pc = "create" /\ pc' = "call" /\ fn' = flatParams[Len(actualParamTypes)]
      /\ args' = IF structReturnInMemory THEN <<[of |-> 0, bytes |-> {}]>> ELSE <<>>
      /\ UNCHANGED <<signature, argPtr, locals>>
  BY DEF CreateFunction
<1>2. ParamsComputed /\ NotCreated /\ params \in Seq(Types)
  BY <1>1 DEF WalksMeet, NotCreated, IInv, PlacesMatchParams
<1>3. ParamsComputed' /\ actualParamTypes' = actualParamTypes /\ params' = params /\ Offset' = Offset
  BY <1>1, <1>2, SignatureKept DEF signature
<1>4. PICK start : start = FlatStart
  OBVIOUS
<1>5. Starts(start) /\ Starts(start)'
  BY <1>1, <1>2, <1>4, FlatStartIs, SignatureKept
<1>6. Len(actualParamTypes) \in Nat /\ Len(actualParamTypes) = Len(params) + Offset /\ Len(params) \in Nat
  BY <1>2 DEF ParamsComputed
<1>7. WrittenOut(start)'
  <2>1. fn' \in Seq(FlatPart) /\ Len(fn') = start[Len(actualParamTypes)]
    <3>1. Len(actualParamTypes) \in 0..Len(actualParamTypes)
      BY <1>6
    <3> QED
      BY <1>1, <1>2, <1>4, <3>1, FlatTypes DEF FlatStart
  <2>2. ASSUME NEW i \in 1..Len(actualParamTypes), NEW j \in 1..2, j <= Len(actualParamTypes[i])
        PROVE  fn'[start[i - 1] + j].k = actualParamTypes[i][j].k
    <3>1. Len(actualParamTypes) \in i..Len(actualParamTypes)
      BY <1>6
    <3>2. j \in 1..Len(actualParamTypes[i])
      BY <1>2, <2>2 DEF ParamsComputed
    <3>3. flatParams[Len(actualParamTypes)][FlatStart[i - 1] + j].k = actualParamTypes[i][j].k
      BY <1>2, <3>1, <3>2, FlatEntry
    <3> QED
      BY <1>1, <1>4, <3>3
  <2> QED
    BY <1>3, <2>1, <2>2 DEF WrittenOut
<1>8. Passed(start, 0)'
  <2>1. CASE ~structReturnInMemory
    <3>1. args' = <<>> /\ Offset = 0 /\ start[0] = 0
      BY <1>1, <1>5, <2>1 DEF Starts, Offset
    <3>2. args' \in Seq(Argument) /\ Len(args') = 0
      BY <3>1
    <3>3. 1..Len(args') = {} /\ 1..0 = {} /\ 0 + Offset' = 0
      BY <1>3, <3>1, <3>2
    <3> QED
      BY <3>1, <3>2, <3>3, Zenon DEF Passed
  <2>2. CASE structReturnInMemory
    <3>1. args' = <<[of |-> 0, bytes |-> {}]>> /\ Offset = 1
      BY <1>1, <2>2 DEF Offset
    <3>2. [of |-> 0, bytes |-> {}] \in Argument
      BY DEF Argument
    <3>3. args' \in Seq(Argument) /\ Len(args') = 1 /\ args'[1].of = 0
      BY <3>1, <3>2
    <3>4. start[1] = 1
      <4>1. 1 \in 1..Len(actualParamTypes)
        BY <1>6, <3>1
      <4>2. Len(actualParamTypes[1]) = 1
        BY <1>2, <2>2 DEF ParamsComputed
      <4>3. start[1] = start[1 - 1] + Len(actualParamTypes[1])
        BY <1>2, <1>5, <4>1, StepOfStart
      <4>4. start[0] = 0
        BY <1>5 DEF Starts
      <4> QED
        BY <4>2, <4>3, <4>4
    <3>5. 1..0 = {} /\ 0 + Offset' = 1 /\ 0 \in 0..0
      BY <1>3, <3>1
    <3>6. \A p \in 1..Len(args') : args'[p].of \in 0..0
      BY <3>3
    <3> QED
      BY <3>3, <3>4, <3>5, <3>6, Zenon DEF Passed
  <2> QED
    BY <2>1, <2>2
<1>9. 0 \in 0..Len(params')
  BY <1>3, <1>6
<1>10. locals' = <<>> /\ argPtr' = 1
  BY <1>1, <1>2 DEF NotCreated
<1> QED
  BY <1>1, <1>3, <1>5, <1>7, <1>8, <1>9, <1>10, Zenon DEF WalksMeet

\* One argument is added for each part of the parameter.
LEMMA PassedOneMore ==
    ASSUME WalksMeet, params \in Seq(Types), NEW i, Passing(i), NEW new \in Seq(Argument),
           Len(new) = Len(ArgOf(i)), \A k \in 1..Len(new) : new[k].of = i,
           args' = args \o new, UNCHANGED <<signature, fn, argPtr, locals, pc>>
    PROVE  WalksMeet'
<1>1. /\ ParamsComputed /\ ParamsComputed'
      /\ pc = "call" /\ locals = <<>> /\ argPtr = 1 /\ NextArg = i /\ i <= Len(params)
  BY SignatureKept DEF WalksMeet, Passing
<1>2. PICK start, n : Starts(start) /\ WrittenOut(start) /\ n \in 0..Len(params) /\ Passed(start, n)
  BY <1>1 DEF WalksMeet
<1>3. i = n + 1
  BY <1>1, <1>2, NextArgIs
<1>4. /\ actualParamTypes' = actualParamTypes /\ params' = params /\ Offset' = Offset
      /\ Starts(start)' /\ fn' = fn
  BY <1>2, SignatureKept DEF signature
<1>5. WrittenOut(start)'
  BY <1>2, <1>4 DEF WrittenOut
<1>6. i \in 0..Len(params) /\ i \in 1..i /\ Len(params) \in Nat /\ Offset \in 0..1 /\ n \in Nat
  BY <1>1, <1>2, <1>3 DEF Offset
<1>7. /\ start[n + Offset] \in Nat /\ start[i + Offset] = start[n + Offset] + Len(new)
      /\ Len(new) \in 1..2
  <2>1. /\ start[i + Offset - 1] \in Nat /\ Len(ArgOf(i)) \in 1..2
        /\ start[i + Offset] = start[i + Offset - 1] + Len(ArgOf(i))
    BY <1>1, <1>2, <1>6, PartsOf
  <2>2. i + Offset - 1 = n + Offset
    BY <1>3, <1>6
  <2> QED
    BY <2>1, <2>2
<1>8. args \in Seq(Argument) /\ Len(args) = start[n + Offset]
  BY <1>2 DEF Passed
<1>9. /\ args' \in Seq(Argument) /\ Len(args') = Len(args) + Len(new)
  BY <1>8, LengthOf
<1>10. /\ \A p \in 1..Len(args) : args'[p] = args[p]
       /\ \A p \in 1..Len(args') :
              p > Len(args) => p - Len(args) \in 1..Len(new) /\ args'[p] = new[p - Len(args)]
  BY ONLY args' = args \o new, new \in Seq(Argument), <1>8, ElementsOf
<1>11. ASSUME NEW p \in 1..Len(args'), p > Len(args)
       PROVE  args'[p].of = i
  BY <1>10, <1>11
<1>12. ASSUME NEW p \in 1..Len(args'), ~(p > Len(args))
       PROVE  p \in 1..Len(args) /\ args'[p] = args[p]
  BY <1>7, <1>8, <1>10, <1>12
<1>13. \A p \in 1..Len(args') : args'[p].of \in 0..i
  <2> SUFFICES ASSUME NEW p \in 1..Len(args')
               PROVE  args'[p].of \in 0..i
    OBVIOUS
  <2>1. CASE p > Len(args)
    BY <1>3, <1>6, <1>11, <2>1
  <2>2. CASE ~(p > Len(args))
    <3>1. args[p].of \in 0..n
      BY <1>2, <1>12, <2>2 DEF Passed
    <3> QED
      BY <1>3, <1>6, <1>12, <2>2, <3>1
  <2> QED
    BY <2>1, <2>2
<1>14. ASSUME NEW m \in 1..i, NEW p \in 1..Len(args'), start[m + Offset - 1] < p, p <= start[m + Offset]
       PROVE  args'[p].of = m
  <2>1. CASE m = i
    <3>1. start[m + Offset - 1] = Len(args)
      <4>1. m + Offset - 1 = n + Offset
        BY <1>3, <1>6, <2>1
      <4> QED
        BY <1>8, <4>1
    <3> QED
      BY <1>7, <1>8, <1>11, <1>14, <2>1, <3>1
  <2>2. CASE m # i
    <3>1. m \in 1..n
      BY <1>3, <1>6, <2>2
    <3>2. start[m + Offset] <= start[n + Offset] /\ start[m + Offset - 1] \in Nat /\ Len(ArgOf(m)) \in 1..2
          /\ start[m + Offset] = start[m + Offset - 1] + Len(ArgOf(m))
      BY <1>1, <1>2, <3>1, PartsOf
    <3>3. ~(p > Len(args))
      BY <1>7, <1>8, <1>14, <3>2
    <3>4. p \in 1..Len(args) /\ args'[p] = args[p]
      BY <1>12, <3>3
    <3>5. args[p].of = m
      BY <1>2, <1>14, <3>1, <3>4 DEF Passed
    <3> QED
      BY <3>4, <3>5
  <2> QED
    BY <2>1, <2>2
<1>15. Passed(start, i)'
  <2>1. Len(args') = start[i + Offset']
    BY <1>4, <1>7, <1>8, <1>9
  <2> QED
    BY <1>4, <1>9, <1>13, <1>14, <2>1, Zenon DEF Passed
<1>16. pc' = "call" /\ locals' = <<>> /\ argPtr' = 1 /\ i \in 0..Len(params')
  BY <1>1, <1>4, <1>6
<1> QED
  BY <1>1, <1>4, <1>5, <1>15, <1>16, Zenon DEF WalksMeet

\* The parameter that is passed, and what can be passed of it.
LEMMA PassingIs ==
    ASSUME WalksMeet, params \in Seq(Types), NEW i, Passing(i)
    PROVE  /\ i \in 1..Len(params) /\ Len(ArgOf(i)) \in 1..2
           /\ ArgOf(i) \in Parts /\ DOMAIN ArgOf(i) = 1..Len(ArgOf(i))
           /\ ~IsStruct(params[i]) => Len(ArgOf(i)) = 1
           /\ \A b : [of |-> i, bytes |-> Bytes(params[i]) \cap b] \in Argument
<1>1. ParamsComputed /\ pc = "call" /\ NextArg = i /\ i <= Len(params) /\ Len(params) \in Nat
  BY DEF WalksMeet, Passing
<1>2. PICK start, n : Starts(start) /\ n \in 0..Len(params) /\ Passed(start, n)
  BY <1>1 DEF WalksMeet
<1>3. i = n + 1
  BY <1>1, <1>2, NextArgIs
<1>4. i \in 1..Len(params) /\ i \in Nat
  BY <1>1, <1>2, <1>3
<1>5. params[i] \in Types /\ TypeAllocSize(params[i]) \in Nat
  BY <1>4, SizeAssumption
<1>6. ASSUME NEW b
      PROVE  [of |-> i, bytes |-> Bytes(params[i]) \cap b] \in Argument
  <2>1. Bytes(params[i]) \cap b \in SUBSET Int
    BY <1>5 DEF Bytes
  <2> QED
    BY <1>4, <2>1 DEF Argument
<1>7. ArgOf(i) \in Parts
  <2>1. i + Offset \in 1..Len(actualParamTypes)
    BY <1>1, <1>4 DEF ParamsComputed, Offset
  <2>2. actualParamTypes \in Seq(Parts)
    BY <1>1 DEF ParamsComputed, Parts
  <2>3. actualParamTypes[i + Offset] \in Parts
    BY <2>1, <2>2, ElementOf
  <2> QED
    BY <2>3 DEF ArgOf
<1>8. Len(ArgOf(i)) \in 1..2
  <2>1. Len(params) \in 0..Len(params) /\ i \in 1..Len(params)
    BY <1>1, <1>4
  <2> QED
    BY <1>1, <1>2, <2>1, PartsOf
<1>9. DOMAIN ArgOf(i) = 1..Len(ArgOf(i))
  BY <1>7 DEF Parts
<1>10. ~IsStruct(params[i]) => Len(ArgOf(i)) = 1
  BY <1>1, <1>4 DEF ParamsComputed
<1> QED
  BY <1>4, <1>6, <1>7, <1>8, <1>9, <1>10

LEMMA PassPartsWalks == ASSUME IInv, WalksMeet, NEW i, PassParts(i) PROVE WalksMeet'
<1> DEFINE new == [k \in DOMAIN ArgOf(i) |->
                      [of |-> i, bytes |-> Bytes(params[i]) \cap PartBytes(ArgOf(i), k)]]
<1>1. /\ Passing(i) /\ args' = args \o new /\ UNCHANGED <<signature, fn, argPtr, locals, pc>>
      /\ params \in Seq(Types)
  BY DEF PassParts, IInv, PlacesMatchParams
<1>2. /\ DOMAIN ArgOf(i) = 1..Len(ArgOf(i)) /\ Len(ArgOf(i)) \in Nat
      /\ \A b : [of |-> i, bytes |-> Bytes(params[i]) \cap b] \in Argument
  <2>1. Len(ArgOf(i)) \in 1..2
    BY <1>1, PassingIs, Zenon
  <2>2. Len(ArgOf(i)) \in Nat
    BY <2>1
  <2> QED
    BY <1>1, <2>2, PassingIs, Zenon
<1>3. /\ new \in [1..Len(ArgOf(i)) -> Argument]
      /\ \A k \in 1..Len(ArgOf(i)) : new[k].of = i
  BY <1>2
<1> HIDE DEF new
<1>4. new \in Seq(Argument) /\ Len(new) = Len(ArgOf(i))
  BY <1>2, <1>3
<1> QED
  BY <1>1, <1>3, <1>4, PassedOneMore

\* A parameter that is one part is one argument.
LEMMA PassedWhole ==
    ASSUME IInv, WalksMeet, NEW i, Passing(i), Len(ArgOf(i)) = 1, NEW b,
           args' = Append(args, [of |-> i, bytes |-> Bytes(params[i]) \cap b]),
           UNCHANGED <<signature, fn, argPtr, locals, pc>>
    PROVE  WalksMeet'
<1> DEFINE arg == [of |-> i, bytes |-> Bytes(params[i]) \cap b]
           new == <<arg>>
<1>1. params \in Seq(Types)
  BY DEF IInv, PlacesMatchParams
<1>2. arg \in Argument /\ arg.of = i
  BY <1>1, PassingIs
<1>3. args \in Seq(Argument)
  BY DEF WalksMeet, Passing, Passed
<1> HIDE DEF arg
<1>4. new \in Seq(Argument) /\ Len(new) = 1 /\ \A k \in 1..Len(new) : new[k].of = i
  BY <1>2
<1>5. args' = args \o new
  <2>1. args' = Append(args, arg)
    BY DEF arg
  <2> QED
    BY ONLY <1>3, <2>1, AppendIs DEF new
<1> HIDE DEF new
<1> QED
  BY <1>1, <1>4, <1>5, PassedOneMore

LEMMA PassWalks ==
    ASSUME IInv, WalksMeet, NEW i, PassParts(i) \/ PassPointer(i) \/ PassSingle(i) \/ PassScalar(i)
    PROVE  WalksMeet'
<1>1. CASE PassParts(i)
  BY <1>1, PassPartsWalks
<1>2. CASE PassPointer(i) \/ PassScalar(i)
  <2>1. Passing(i) /\ UNCHANGED <<signature, fn, argPtr, locals, pc>> /\ params \in Seq(Types)
    BY <1>2 DEF PassPointer, PassScalar, IInv, PlacesMatchParams
  <2>2. Len(ArgOf(i)) = 1
    BY <1>2, <2>1, PassingIs DEF PassPointer, PassScalar
  <2>3. Bytes(params[i]) = Bytes(params[i]) \cap Bytes(params[i])
    OBVIOUS
  <2>4. args' = Append(args, [of |-> i, bytes |-> Bytes(params[i]) \cap Bytes(params[i])])
    BY <1>2, <2>3, Zenon DEF PassPointer, PassScalar
  <2> QED
    BY <2>1, <2>2, <2>4, PassedWhole
<1>3. CASE PassSingle(i)
  <2>1. Passing(i) /\ Len(ArgOf(i)) = 1 /\ UNCHANGED <<signature, fn, argPtr, locals, pc>>
    BY <1>3 DEF PassSingle
  <2>2. args' = Append(args, [of |-> i, bytes |->
                  Bytes(params[i]) \cap UNION {PartBytes(ArgOf(i), k) : k \in DOMAIN ArgOf(i)}])
    BY <1>3 DEF PassSingle, Carried
  <2> QED
    BY <2>1, <2>2, PassedWhole
<1> QED
  BY <1>1, <1>2, <1>3

\* When there is nothing left to pass, everything has been.
LEMMA CallWalks == ASSUME IInv, WalksMeet, Call PROVE WalksMeet'
<1>1. /\ pc = "call" /\ NextArg > Len(params) /\ pc' = "define" /\ argPtr' = Offset + 1
      /\ UNCHANGED <<signature, fn, args, locals>>
  BY DEF Call
<1>2. ParamsComputed /\ ParamsComputed' /\ locals = <<>> /\ params \in Seq(Types)
  BY <1>1, SignatureKept DEF WalksMeet, IInv, PlacesMatchParams
<1>3. PICK start, n : Starts(start) /\ WrittenOut(start) /\ n \in 0..Len(params) /\ Passed(start, n)
  BY <1>1 DEF WalksMeet
<1>4. n = Len(params)
  <2>1. NextArg = n + 1
    BY <1>2, <1>3, NextArgIs
  <2> QED
    BY <1>1, <1>2, <1>3, <2>1
<1>5. /\ actualParamTypes' = actualParamTypes /\ params' = params /\ Offset' = Offset
      /\ fn' = fn /\ args' = args
      /\ Starts(start)'
  BY <1>1, <1>3, SignatureKept DEF signature
<1>6. WrittenOut(start)' /\ Passed(start, n)'
  BY <1>3, <1>5 DEF WrittenOut, Passed
<1>7. start[Offset] = Offset
  <2>1. CASE ~structReturnInMemory
    BY <1>3, <2>1 DEF Offset, Starts
  <2>2. CASE structReturnInMemory
    <3>1. Offset = 1 /\ 1 \in 1..Len(actualParamTypes) /\ Len(actualParamTypes[1]) = 1
      BY <1>2, <2>2 DEF ParamsComputed, Offset
    <3>2. start[1] = start[1 - 1] + Len(actualParamTypes[1])
      BY <1>2, <1>3, <3>1, StepOfStart
    <3>3. start[0] = 0
      BY <1>3 DEF Starts
    <3> QED
      BY <3>1, <3>2, <3>3
  <2> QED
    BY <2>1, <2>2
<1>8. Defined(start)'
  <2>1. locals' = <<>> /\ locals' \in Seq(LocalVariable) /\ Len(locals') = 0 /\ 1..Len(locals') = {}
    BY <1>1, <1>2
  <2>2. 0 <= Len(params') /\ argPtr' = start[Len(locals') + Offset'] + 1
    <3>1. Offset \in Nat
      BY DEF Offset
    <3> QED
      BY <1>1, <1>2, <1>5, <1>7, <2>1, <3>1
  <2> QED
    BY <2>1, <2>2, Zenon DEF Defined
<1>9. n \in 0..Len(params') /\ n = Len(params')
  BY <1>3, <1>4, <1>5
<1>10. /\ pc' = "define" /\ "define" # "call" /\ "define" # "return"
       /\ "define" \notin {"return", "params", "create", "thrown"}
  BY <1>1
<1> QED
  BY <1>2, <1>5, <1>6, <1>8, <1>9, <1>10, Zenon DEF WalksMeet

-----------------------------------------------------------------------------
(***************************************************************************)
(* FnDef.  What was passed for parameter j begins where FnDef reads.       *)
(***************************************************************************)
Reading(j) == argPtr..(argPtr + Len(ArgOf(j)) - 1)

LEMMA ReadingIs ==
    ASSUME WalksMeet, params \in Seq(Types), NEW j, Defining(j)
    PROVE  /\ j \in 1..Len(params) /\ argPtr \in Nat /\ Len(ArgOf(j)) \in 1..2
           /\ \A p \in Reading(j) : p \in DOMAIN args /\ args[p].of = j /\ args[p].bytes \subseteq Int
           /\ fn[argPtr].k = ArgOf(j)[1].k
           /\ Len(ArgOf(j)) = 2 => ArgOf(j)[1].k # "pointer"
           /\ ~IsStruct(params[j]) => Len(ArgOf(j)) = 1
<1>1. ParamsComputed /\ pc = "define" /\ j = Len(locals) + 1 /\ j <= Len(params) /\ Len(params) \in Nat
  BY DEF WalksMeet, Defining
<1>2. PICK start : /\ Starts(start) /\ WrittenOut(start) /\ Passed(start, Len(params)) /\ Defined(start)
  BY <1>1 DEF WalksMeet
<1>3. /\ locals \in Seq(LocalVariable) /\ argPtr = start[Len(locals) + Offset] + 1
      /\ Len(locals) \in Nat
  BY <1>2 DEF Defined
<1>4. j \in 1..Len(params) /\ Len(params) \in 0..Len(params) /\ j \in Nat /\ Offset \in 0..1
  BY <1>1, <1>3 DEF Offset
<1>5. j + Offset - 1 = Len(locals) + Offset
  BY <1>1, <1>3, <1>4
<1>6. /\ start[Len(locals) + Offset] \in Nat /\ Len(ArgOf(j)) \in 1..2
      /\ start[j + Offset] = start[Len(locals) + Offset] + Len(ArgOf(j))
      /\ start[j + Offset] <= start[Len(params) + Offset]
      /\ start[Len(params) + Offset] \in Nat
  BY <1>1, <1>2, <1>4, <1>5, PartsOf
<1>7. args \in Seq(Argument) /\ Len(args) = start[Len(params) + Offset]
  BY <1>2 DEF Passed
<1>8. ASSUME NEW p \in Reading(j)
      PROVE  p \in DOMAIN args /\ args[p].of = j /\ args[p].bytes \subseteq Int
  <2>1. start[j + Offset - 1] < p /\ p <= start[j + Offset] /\ p \in 1..Len(args)
    <3> DEFINE a == start[Len(locals) + Offset]
               e == start[j + Offset]
               c == start[Len(params) + Offset]
    <3>1. a \in Nat /\ c \in Nat /\ Len(ArgOf(j)) \in 1..2 /\ e = a + Len(ArgOf(j)) /\ e <= c
      BY ONLY <1>6
    <3>2. p \in (a + 1)..((a + 1) + Len(ArgOf(j)) - 1)
      BY ONLY <1>3, <1>8 DEF Reading
    <3> HIDE DEF a, e, c
    <3>3. e \in Nat
      BY ONLY <3>1
    <3>4. a < p /\ p <= e /\ p \in 1..c
      BY ONLY <3>1, <3>2, <3>3, Stretch
    <3>5. start[j + Offset - 1] = a /\ Len(args) = c
      BY ONLY <1>5, <1>7 DEF a, c
    <3> QED
      BY ONLY <3>4, <3>5 DEF e
  <2>2. args[p].of = j
    BY <1>2, <1>4, <2>1 DEF Passed
  <2>3. args[p] \in Argument /\ p \in DOMAIN args
    BY <1>7, <2>1, ElementOf
  <2>4. args[p].bytes \subseteq Int
    BY <2>3 DEF Argument
  <2> QED
    BY <2>2, <2>3, <2>4
<1>9. fn[argPtr].k = ArgOf(j)[1].k
  <2>1. PICK q \in 1..Len(actualParamTypes) : q = j + Offset
    BY <1>1, <1>4 DEF ParamsComputed
  <2>2. Len(actualParamTypes[q]) \in 1..2
    BY <1>1 DEF ParamsComputed
  <2>3. fn[start[q - 1] + 1].k = actualParamTypes[q][1].k
    <3>1. 1 \in 1..2 /\ 1 <= Len(actualParamTypes[q])
      BY ONLY <2>2
    <3> QED
      BY <1>2, <3>1 DEF WrittenOut
  <2>4. q - 1 = Len(locals) + Offset
    BY <1>4, <1>5, <2>1
  <2> QED
    BY <1>3, <2>1, <2>3, <2>4 DEF ArgOf
<1>10. Len(ArgOf(j)) = 2 => ArgOf(j)[1].k # "pointer"
  <2>1. PICK q \in 1..Len(actualParamTypes) : q = j + Offset
    BY <1>1, <1>4 DEF ParamsComputed
  <2>2. Len(actualParamTypes[q]) = 2 => actualParamTypes[q][1].k # "pointer"
    BY <1>1 DEF ParamsComputed
  <2> QED
    BY <2>1, <2>2, Zenon DEF ArgOf
<1>11. ~IsStruct(params[j]) => Len(ArgOf(j)) = 1
  BY <1>1, <1>4 DEF ParamsComputed
<1>12. argPtr \in Nat
  BY <1>3, <1>6
<1> QED
  BY <1>4, <1>6, <1>8, <1>9, <1>10, <1>11, <1>12

\* One local variable is added for the parameter, and its parts are behind.
LEMMA DefinedOneMore ==
    ASSUME WalksMeet, params \in Seq(Types), NEW j, Defining(j), NEW b \in SUBSET Int,
           locals' = Append(locals, Local({j}, b)), argPtr' = argPtr + Len(ArgOf(j)),
           UNCHANGED <<signature, fn, args, pc>>
    PROVE  WalksMeet'
<1>1. /\ ParamsComputed /\ ParamsComputed'
      /\ pc = "define" /\ j = Len(locals) + 1 /\ j <= Len(params) /\ Len(params) \in Nat
  BY SignatureKept DEF WalksMeet, Defining
<1>2. PICK start : /\ Starts(start) /\ WrittenOut(start) /\ Passed(start, Len(params)) /\ Defined(start)
  BY <1>1 DEF WalksMeet
<1>3. /\ actualParamTypes' = actualParamTypes /\ params' = params /\ Offset' = Offset
      /\ fn' = fn /\ args' = args
      /\ Starts(start)'
  BY <1>2, SignatureKept DEF signature
<1>4. WrittenOut(start)' /\ Passed(start, Len(params))'
  BY <1>2, <1>3 DEF WrittenOut, Passed
<1>5. /\ locals \in Seq(LocalVariable) /\ argPtr = start[Len(locals) + Offset] + 1
      /\ Len(locals) \in Nat /\ \A m \in 1..Len(locals) : locals[m].from = {m}
  BY <1>2 DEF Defined
<1>6. j \in 1..Len(params) /\ Len(params) \in 0..Len(params) /\ j \in Nat /\ Offset \in 0..1
  BY <1>1, <1>5 DEF Offset
<1>7. Local({j}, b) \in LocalVariable /\ Local({j}, b).from = {j}
  BY <1>6 DEF Local, LocalVariable
<1>8. /\ locals' \in Seq(LocalVariable) /\ Len(locals') = Len(locals) + 1
      /\ \A m \in 1..Len(locals) : locals'[m] = locals[m]
      /\ locals'[Len(locals) + 1] = Local({j}, b)
  BY <1>5, <1>7, AppendedTo
<1>9. \A m \in 1..Len(locals') : locals'[m].from = {m}
  <2> SUFFICES ASSUME NEW m \in 1..Len(locals')
               PROVE  locals'[m].from = {m}
    OBVIOUS
  <2>1. m = Len(locals) + 1 \/ m \in 1..Len(locals)
    BY <1>5, <1>8
  <2>2. CASE m = Len(locals) + 1
    BY <1>1, <1>7, <1>8, <2>2
  <2>3. CASE m \in 1..Len(locals)
    BY <1>5, <1>8, <2>3
  <2> QED
    BY <2>1, <2>2, <2>3
<1>10. argPtr' = start[Len(locals') + Offset'] + 1
  <2>1. /\ start[j + Offset - 1] \in Nat /\ Len(ArgOf(j)) \in 1..2
        /\ start[j + Offset] = start[j + Offset - 1] + Len(ArgOf(j))
    BY <1>1, <1>2, <1>6, PartsOf
  <2>2. j + Offset - 1 = Len(locals) + Offset /\ Len(locals') + Offset' = j + Offset
    BY <1>1, <1>3, <1>5, <1>6, <1>8
  <2> QED
    BY <1>5, <2>1, <2>2
<1>11. Defined(start)'
  <2>1. Len(locals') <= Len(params')
    BY <1>1, <1>3, <1>8
  <2> QED
    BY <1>8, <1>9, <1>10, <2>1, Zenon DEF Defined
<1>12. Len(params) \in 0..Len(params') /\ Len(params) = Len(params')
  BY <1>3, <1>6
<1>13. /\ pc' = "define" /\ "define" # "call" /\ "define" # "return"
       /\ "define" \notin {"return", "params", "create", "thrown"}
  BY <1>1
<1> QED
  BY <1>1, <1>3, <1>4, <1>11, <1>12, <1>13, Zenon DEF WalksMeet

LEMMA DefineWalks ==
    ASSUME IInv, WalksMeet, NEW j, DefinePointer(j) \/ DefineStruct(j) \/ DefineScalar(j)
    PROVE  WalksMeet'
<1>1. Defining(j) /\ UNCHANGED <<signature, fn, args, pc>> /\ params \in Seq(Types)
  BY DEF DefinePointer, DefineStruct, DefineScalar, IInv, PlacesMatchParams
<1>2. /\ argPtr \in Nat /\ Len(ArgOf(j)) \in 1..2
      /\ fn[argPtr].k = ArgOf(j)[1].k
      /\ Len(ArgOf(j)) = 2 => ArgOf(j)[1].k # "pointer"
      /\ ~IsStruct(params[j]) => Len(ArgOf(j)) = 1
  BY <1>1, ReadingIs, Zenon
<1>3. \A p \in Reading(j) : args[p].of = j /\ args[p].bytes \subseteq Int
  BY <1>1, ReadingIs, Zenon
<1>4. argPtr \in Reading(j)
  BY <1>2 DEF Reading
<1>5. CASE DefinePointer(j) \/ DefineScalar(j)
  <2>1. /\ locals' = Append(locals, Local({args[argPtr].of}, args[argPtr].bytes)) /\ argPtr' = argPtr + 1
    BY <1>5 DEF DefinePointer, DefineScalar
  <2>2. Len(ArgOf(j)) = 1
    <3>1. fn[argPtr].k = "pointer" \/ ~IsStruct(params[j])
      BY <1>5 DEF DefinePointer, DefineScalar
    <3>2. Len(ArgOf(j)) # 2
      BY <1>2, <3>1
    <3> QED
      BY <1>2, <3>2
  <2>3. args[argPtr].of = j /\ args[argPtr].bytes \in SUBSET Int
    BY <1>3, <1>4
  <2> QED
    BY <1>1, <2>1, <2>2, <2>3, DefinedOneMore
<1>6. CASE DefineStruct(j)
  <2> DEFINE b == UNION {args[p].bytes : p \in Reading(j)}
  <2>1. /\ locals' = Append(locals, Local({args[p].of : p \in Reading(j)}, b))
        /\ argPtr' = argPtr + Len(ArgOf(j))
    BY <1>6 DEF DefineStruct, Reading
  <2>2. {args[p].of : p \in Reading(j)} = {j}
    BY <1>3, <1>4
  <2>3. b \in SUBSET Int
    BY <1>3
  <2> HIDE DEF b
  <2> QED
    BY <1>1, <2>1, <2>2, <2>3, DefinedOneMore
<1> QED
  BY <1>5, <1>6

-----------------------------------------------------------------------------
\* The steps that only go on, or stop.
LEMMA OtherWalks ==
    ASSUME IInv, WalksMeet,
           \/ ReturnDirect \/ EndParams \/ Return \/ Stopped \/ UNCHANGED vars
           \/ \E t \in Types : ThrowParam(t)
    PROVE  WalksMeet'
<1>1. /\ UNCHANGED <<signature, fn, args, argPtr, locals>>
      /\ \/ pc \in {"return", "params"} /\ pc' \in {"params", "create", "thrown"}
         \/ pc = "define" /\ pc' = "done"
         \/ pc' = pc
  BY DEF ReturnDirect, EndParams, Return, Stopped, ThrowParam, vars
<1>2. ParamsComputed' /\ \A start : Starts(start) => Starts(start)'
  BY <1>1, SignatureKept DEF WalksMeet
<1>3. /\ \A start : WrittenOut(start) => WrittenOut(start)'
      /\ \A start, n : Passed(start, n) => Passed(start, n)'
      /\ \A start : Defined(start) => Defined(start)'
  BY <1>1 DEF signature, WrittenOut, Passed, Defined, Offset
<1>4. params' = params /\ structReturnInMemory' = structReturnInMemory
  BY <1>1 DEF signature
<1>5. CASE pc \in {"return", "params"} /\ pc' \in {"params", "create", "thrown"}
  <2>1. fn' = <<>> /\ args' = <<>> /\ locals' = <<>> /\ argPtr' = 1
    BY <1>1, <1>5 DEF WalksMeet
  <2> QED
    BY <1>2, <1>5, <2>1 DEF WalksMeet
<1>6. CASE pc = "define" /\ pc' = "done"
  <2>1. PICK start, n : /\ Starts(start) /\ WrittenOut(start)
                        /\ n \in 0..Len(params) /\ Passed(start, n)
                        /\ n = Len(params) /\ Defined(start)
    BY <1>6 DEF WalksMeet
  <2>2. n \in 0..Len(params') /\ n = Len(params')
    BY <1>4, <2>1
  <2> QED
    BY <1>2, <1>3, <1>6, <2>1, <2>2 DEF WalksMeet
<1>7. CASE pc' = pc
  <2>1. ASSUME pc \in {"call", "define", "done"}
        PROVE  \E start, n : /\ Starts(start)' /\ WrittenOut(start)'
                             /\ n \in 0..Len(params') /\ Passed(start, n)'
                             /\ pc' # "call" => n = Len(params') /\ Defined(start)'
    <3>1. PICK start, n : /\ Starts(start) /\ WrittenOut(start)
                          /\ n \in 0..Len(params) /\ Passed(start, n)
                          /\ pc # "call" => n = Len(params) /\ Defined(start)
      BY <2>1 DEF WalksMeet
    <3>2. n \in 0..Len(params')
      BY <1>4, <3>1
    <3> QED
      BY <1>2, <1>3, <1>4, <1>7, <3>1, <3>2
  <2> QED
    BY <1>1, <1>2, <1>4, <1>7, <2>1 DEF WalksMeet
<1> QED
  BY <1>1, <1>5, <1>6, <1>7

\* With the registers counted, every step keeps the walks together.
LEMMA NextWalks == IInv /\ WalksMeet /\ [Next]_vars => WalksMeet'
<1> SUFFICES ASSUME IInv, WalksMeet, [Next]_vars PROVE WalksMeet'
  OBVIOUS
<1>1. CASE ReturnInMemory
  BY <1>1, ReturnInMemoryWalks
<1>2. ASSUME NEW t \in Types, FitParam(t) \/ SpillParam(t) \/ SingleParam(t) \/ AArch64Param(t)
      PROVE  WalksMeet'
  BY <1>2, ParamWalks
<1>3. CASE CreateFunction
  BY <1>3, CreateFunctionWalks
<1>4. ASSUME NEW i \in 1..MaxParams, PassParts(i) \/ PassPointer(i) \/ PassSingle(i) \/ PassScalar(i)
      PROVE  WalksMeet'
  BY <1>4, PassWalks
<1>5. CASE Call
  BY <1>5, CallWalks
<1>6. ASSUME NEW j \in 1..MaxParams, DefinePointer(j) \/ DefineStruct(j) \/ DefineScalar(j)
      PROVE  WalksMeet'
  BY <1>6, DefineWalks
<1>7. CASE ReturnDirect \/ EndParams \/ Return \/ Stopped \/ UNCHANGED vars \/ \E t \in Types : ThrowParam(t)
  BY <1>7, OtherWalks
<1> QED
  BY <1>1, <1>2, <1>3, <1>4, <1>5, <1>6, <1>7, Zenon DEF Next

(***************************************************************************)
(* Wherever createFunction, FnCall and FnDef are, the next parameter of    *)
(* each begins at the same parameter of the LLVM function.                 *)
(***************************************************************************)
THEOREM WalksMeetTheorem == Spec => []WalksMeet
<1>1. Spec => []IInv
  BY RegistersAreCounted
<1> QED
  BY <1>1, InitWalks, NextWalks, PTL DEF Spec

\* What the invariant says of the arguments and the local variables.
LEMMA WalksArrive == WalksMeet => ArgumentsArrive
<1> SUFFICES ASSUME WalksMeet PROVE ArgumentsArrive
  OBVIOUS
<1>1. CASE pc \in {"define", "done"}
  <2>1. PICK start, n : /\ Starts(start) /\ WrittenOut(start) /\ Passed(start, n)
                        /\ n = Len(params) /\ Defined(start)
    BY <1>1 DEF WalksMeet
  <2>2. Len(args) = Len(fn)
    BY <2>1 DEF WrittenOut, Passed, WalksMeet, ParamsComputed
  <2>3. DOMAIN locals = 1..Len(locals) /\ \A j \in 1..Len(locals) : locals[j].from = {j}
    BY <2>1 DEF Defined
  <2> QED
    BY <2>2, <2>3 DEF ArgumentsArrive
<1>2. CASE pc \notin {"define", "done"}
  <2>1. locals = <<>>
    BY <1>2 DEF WalksMeet
  <2>2. DOMAIN locals = {}
    BY <2>1
  <2> QED
    BY <1>2, <2>2 DEF ArgumentsArrive
<1> QED
  BY <1>1, <1>2

(***************************************************************************)
(* The call of FnCall passes as many arguments as createFunction made      *)
(* parameters, and FnDef makes each parameter of the body of what was      *)
(* passed for it and nothing else, for any types and any number of them.   *)
(***************************************************************************)
THEOREM ArgumentsArriveTheorem == Spec => []ArgumentsArrive
BY WalksMeetTheorem, WalksArrive, PTL

\* The walks end within what they walk over.
LEMMA TypeOKFollows == IInv /\ WalksMeet => TypeOK
<1> SUFFICES ASSUME IInv, WalksMeet PROVE TypeOK
  OBVIOUS
<1>1. /\ abi \in ABIs /\ params \in Seq(Types) /\ places \in Seq(Places) /\ Len(params) \in Nat
      /\ intRegs \in Nat /\ sseRegs \in Nat /\ intUsed \in 0..INT_REGS /\ sseUsed \in 0..SSE_REGS
  BY DEF IInv, PlacesMatchParams, CountersAreNumbers
<1>2. /\ ParamsComputed /\ retType \in ReturnTypes
      /\ Len(actualParamTypes) = Len(params) + Offset /\ Offset \in 0..1
  BY DEF WalksMeet, ParamsComputed, Offset
<1>3. CASE pc \in {"return", "params", "create", "thrown"}
  <2>1. fn = <<>> /\ args = <<>> /\ locals = <<>> /\ argPtr = 1
    BY <1>3 DEF WalksMeet
  <2>2. Len(args) <= Len(fn) /\ argPtr \in 1..(Len(fn) + 1) /\ Len(locals) <= Len(params)
    BY <1>1, <2>1
  <2> QED
    BY <1>1, <1>2, <2>2 DEF TypeOK
<1>4. CASE pc \in {"call", "define", "done"}
  <2>1. PICK start, n : /\ Starts(start) /\ WrittenOut(start)
                        /\ n \in 0..Len(params) /\ Passed(start, n)
                        /\ pc # "call" => n = Len(params) /\ Defined(start)
    BY <1>4 DEF WalksMeet
  <2>2. Len(fn) = start[Len(params) + Offset] /\ Len(args) = start[n + Offset]
    BY <1>2, <2>1 DEF WrittenOut, Passed
  <2>3. Len(params) + Offset \in 0..Len(actualParamTypes) /\ n + Offset \in 0..Len(actualParamTypes)
        /\ n + Offset <= Len(params) + Offset
    BY <1>1, <1>2, <2>1
  <2>4. Len(args) <= Len(fn)
    BY <1>2, <2>1, <2>2, <2>3, StartsGrow
  <2>5. \A i \in 0..Len(actualParamTypes) : start[i] \in Nat
    BY <2>1 DEF Starts
  <2>6. argPtr \in 1..(Len(fn) + 1) /\ Len(locals) <= Len(params)
    <3>1. CASE pc = "call"
      <4>1. locals = <<>> /\ argPtr = 1
        BY <3>1 DEF WalksMeet
      <4> QED
        BY <1>1, <2>2, <2>3, <2>5, <4>1
    <3>2. CASE pc # "call"
      <4>1. /\ locals \in Seq(LocalVariable) /\ Len(locals) <= Len(params)
            /\ argPtr = start[Len(locals) + Offset] + 1
        BY <2>1, <3>2 DEF Defined
      <4>2. Len(locals) + Offset \in 0..Len(actualParamTypes) /\ Len(locals) + Offset <= Len(params) + Offset
        BY <1>1, <1>2, <4>1
      <4>3. start[Len(locals) + Offset] <= start[Len(params) + Offset]
        BY <1>2, <2>1, <2>3, <4>2, StartsGrow
      <4>4. start[Len(locals) + Offset] \in Nat /\ start[Len(params) + Offset] \in Nat
        BY <2>3, <2>5, <4>2
      <4> QED
        BY <2>2, <4>1, <4>3, <4>4
    <3> QED
      BY <3>1, <3>2
  <2> QED
    BY <1>1, <1>2, <2>4, <2>6 DEF TypeOK
<1> QED
  BY <1>3, <1>4 DEF WalksMeet

\* No walk of createFunction, FnCall and FnDef runs off its sequence, and no register is given twice.
THEOREM TypeCorrect == Spec => []TypeOK
BY RegistersAreCounted, WalksMeetTheorem, TypeOKFollows, PTL

=============================================================================
