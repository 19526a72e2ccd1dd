-------------------------- MODULE ConventionCheck --------------------------
(***************************************************************************)
(* The calling convention against the System V ABI: the classification of  *)
(* a type by what lies in each of its eightbytes, and the registers each   *)
(* parameter has to be in.                                                 *)
(***************************************************************************)
EXTENDS ArgClasses, ConventionInv

-----------------------------------------------------------------------------
(***************************************************************************)
(* The reference.  A type is what its scalars are and where they lie.      *)
(***************************************************************************)
RECURSIVE Scalars(_, _), ScalarsFrom(_, _, _)
Scalars(type, base) ==
    IF isAggregateType(type) THEN ScalarsFrom(Elements(type), Layout(type).offsets, base)
    ELSE {[type |-> type, at |-> base]}
ScalarsFrom(elems, offsets, base) ==
    IF elems = <<>> THEN {}
    ELSE Scalars(Head(elems), base + Head(offsets)) \cup ScalarsFrom(Tail(elems), Tail(offsets), base)

Occupied(s) == s.at..(s.at + s.type.size - 1)
Meaning(type) == UNION {Occupied(s) : s \in Scalars(type, 0)}
Eightbyte(e) == (8 * (e - 1))..(8 * e - 1)

\* ABI 3.2.3: a class for each eightbyte, or memory.
AbiClasses(type) ==
    LET n == (SizeOf(type) + 7) \div 8
        In(e) == {s.type.kind : s \in {x \in Scalars(type, 0) : Occupied(x) \cap Eightbyte(e) # {}}}
    IN IF SizeOf(type) > 16 \/ \E s \in Scalars(type, 0) : s.type.kind = "FP80" THEN <<"MEMORY">>
       ELSE [e \in 1..n |-> IF "INT" \in In(e) THEN "INTEGER" ELSE "SSE"]

\* Of each parameter type, once.
AbiClassesOf == [t \in Types |-> AbiClasses(t)]
MeaningOf == [t \in Types \cup ReturnTypes |-> IF t.kind = "void" THEN {} ELSE Meaning(t)]

Count(classes, class) == Cardinality({i \in DOMAIN classes : classes[i] = class})

\* A value is in registers as a whole, or it is on the stack and takes none.
RECURSIVE AbiPlaces(_, _, _)
AbiPlaces(types, ints, sses) ==
    IF types = <<>> THEN <<>>
    ELSE LET classes == AbiClassesOf[Head(types)]
             i == ints + Count(classes, "INTEGER")
             s == sses + Count(classes, "SSE")
         IN IF classes # <<"MEMORY">> /\ i <= INT_REGS /\ s <= SSE_REGS
            THEN <<"registers">> \o AbiPlaces(Tail(types), i, s)
            ELSE <<"stack">> \o AbiPlaces(Tail(types), ints, sses)

-----------------------------------------------------------------------------
(***************************************************************************)
(* Where the code departs from it.                                         *)
(***************************************************************************)
\* The sizes in an eightbyte are added up, so bytes between them are not counted.
HasHole(type) ==
    \E e \in 1..((SizeOf(type) + 7) \div 8) :
        LET inside == Meaning(type) \cap Eightbyte(e)
        IN inside # {} /\ (8 * (e - 1))..Max(inside) # inside

Holed == {t \in Types \cup ReturnTypes : t.kind # "void" /\ HasHole(t)}

\* An element with eightbytes of its own is classified by them, wherever it lies:
\* one of integers and floats may lie so that the classes come to be of other bytes.
IsAskew(type) ==
    isAggregateType(type) /\ \E i \in DOMAIN Elements(type) :
        /\ isAggregateType(Elements(type)[i])
        /\ Layout(type).offsets[i] % 8 # 0
        /\ Cardinality({s.type.kind : s \in Scalars(Elements(type)[i], 0)}) > 1

Askew == {t \in Types : IsAskew(t)}

\* A pair of floats and a pointer to a struct are counted as integers, a long double as a float.
IsMiscounted(i) == HasVector(i) \/ ArgOf(i)[1].k \in {"fp80", "pointer"}

-----------------------------------------------------------------------------
(***************************************************************************)
(* Every byte of a value that means something gets across the call, and    *)
(* back out of it, and no copy runs over the end of the temporary it is    *)
(* made to: the parts that getParamType computes cover the struct.         *)
(***************************************************************************)
PartsSize(parts) == IF Len(parts) = 1 THEN AllocSize(parts[1])
                    ELSE PartOffset(parts, 2) + Max({AllocSize(parts[1]), AllocSize(parts[2])})
InParts(parts) == parts[1].k \in {"int", "fp", "vector"}
CopyFits(t, parts) == IsStruct(t) /\ InParts(parts) => TypeAllocSize(t) <= PartsSize(parts)

NothingIsLostOf(j) == MeaningOf[params[j]] \subseteq locals[j].bytes /\ CopyFits(params[j], ArgOf(j))

NothingIsLostButInHoles ==
    pc = "done" =>
        /\ \A j \in DOMAIN params : abi = AArch64 \/ params[j] \notin Holed => NothingIsLostOf(j)
        /\ abi = AArch64 \/ retType \notin Holed => MeaningOf[retType] \subseteq result

(***************************************************************************)
(* The classes that getArgClassification merges element by element are     *)
(* those of the ABI, but for aggregates that lie askew and long doubles.   *)
(***************************************************************************)
ClassesOf == [t \in Types |-> LET classes == getArgClassification(t)
                              IN [e \in DOMAIN classes |-> classes[e].cls]]

ClassesFollowABIButForDepartures ==
    abi = X86 /\ pc = "params" => \A j \in DOMAIN params :
        params[j] \in Askew \/ params[j].kind = "FP80" \/ ClassesOf[params[j]] = AbiClassesOf[params[j]]

(***************************************************************************)
(* Each parameter is where a caller built by another compiler puts it,     *)
(* unless it, or one before it, is counted or classified in another way.   *)
(***************************************************************************)
PlacesFollowABIButForDepartures ==
    abi = X86 /\ pc = "params" =>
        LET sret == IF structReturnInMemory THEN 1 ELSE 0
            abiPlaces == AbiPlaces(params, sret, 0)
        IN \A i \in DOMAIN places :
              (/\ \A j \in 1..(i - 1) : ~IsMiscounted(j)
               /\ ~HasVector(i)
               /\ \A j \in 1..i : params[j] \notin Askew) => places[i] = abiPlaces[i]

=============================================================================
