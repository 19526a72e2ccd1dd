---------------------------- MODULE ArgClasses ----------------------------
(***************************************************************************)
(* How the two ABIs of the code generator turn a type into the types that  *)
(* a function has parameters of: X86_64ABI::getParamType with its          *)
(* classification in eightbytes, and AArch64ABI::getParamType.             *)
(*                                                                         *)
(* A type is an integer or a pointer, a floating point number, the 80-bit  *)
(* long double, a struct or an array; its layout is that of LLVM.          *)
(***************************************************************************)
EXTENDS Integers, Sequences, SequencesExt, FiniteSetsExt

INT(n) == [kind |-> "INT", size |-> n]
FP(n) == [kind |-> "FP", size |-> n]
FP80 == [kind |-> "FP80", size |-> 16]
Struct(elems) == [kind |-> "struct", elems |-> elems]
Array(elem, n) == [kind |-> "array", elem |-> elem, n |-> n]
isAggregateType(type) == type.kind \in {"struct", "array"}

alignTo(size, align) == ((size + align - 1) \div align) * align

-----------------------------------------------------------------------------
(***************************************************************************)
(* The data layout of LLVM: the elements of an aggregate with their        *)
(* offsets, the size and the alignment of a type.                          *)
(***************************************************************************)
Elements(type) == IF type.kind = "struct" THEN type.elems
                  ELSE [i \in 1..type.n |-> type.elem]

RECURSIVE Layout(_), Place(_, _)
Layout(type) ==
    IF ~isAggregateType(type)
    THEN [size |-> type.size, align |-> type.size, offsets |-> <<>>]
    ELSE LET l == Place(Elements(type), [size |-> 0, align |-> 1, offsets |-> <<>>])
         IN [l EXCEPT !.size = alignTo(@, l.align)]
Place(elems, l) ==
    IF elems = <<>> THEN l
    ELSE LET e == Layout(Head(elems))
             offset == alignTo(l.size, e.align)
         IN Place(Tail(elems), [size |-> offset + e.size, align |-> Max({l.align, e.align}),
                                offsets |-> Append(l.offsets, offset)])

SizeOf(type) == Layout(type).size

-----------------------------------------------------------------------------
(***************************************************************************)
(* X86_64ABI.  The class of a scalar float or double is given without its  *)
(* alignment, which is then zero.                                          *)
(***************************************************************************)
Info(cls, size, align, multiple) == [cls |-> cls, size |-> size, align |-> align, multiple |-> multiple]
NoClass == Info("NO_CLASS", 0, 0, FALSE)

\* The sizes of what is merged are not added up.
mergeClassifications_Wrong(lhs, rhs) ==
    Info(IF "INTEGER" \in {lhs.cls, rhs.cls} THEN "INTEGER" ELSE rhs.cls,
         Max({lhs.size, rhs.size}), Max({lhs.align, rhs.align}), lhs.cls = rhs.cls)

mergeClassifications(lhs, rhs) ==
    LET size == Min({8, lhs.size + rhs.size})
        align == Max({lhs.align, rhs.align})
        classes == {lhs.cls, rhs.cls}
    IN CASE lhs.cls = rhs.cls -> Info(lhs.cls, size, align, TRUE)
         [] "NO_CLASS" \in classes /\ lhs.cls # rhs.cls ->
              Info(CHOOSE c \in classes : c # "NO_CLASS", size, align, FALSE)
         [] OTHER ->
              Info(CASE "MEMORY" \in classes -> "MEMORY"
                     [] "INTEGER" \in classes /\ "MEMORY" \notin classes -> "INTEGER"
                     [] classes \cap {"MEMORY", "INTEGER"} = {} /\ classes \cap {"X87", "X87UP"} # {} -> "MEMORY"
                     [] OTHER -> "SSE",
                   size, align, TRUE)

\* A class that crosses a boundary is counted where it starts.
SizeInFirst_Wrong(cls, offset) == cls.size

\* The part of a class that starts at offset and lies in the eightbyte of offset.
SizeInFirst(cls, offset) == Min({cls.size, (offset \div 8) * 8 + 8 - offset})

\* The class goes into the eightbyte of its offset, the rest of it into the next.
MergeClass(eightbytes, cls, offset) ==
    LET at == (offset \div 8) + 1
        first == SizeInFirst(cls, offset)
        one == [eightbytes EXCEPT ![at] = mergeClassifications(@, [cls EXCEPT !.size = first])]
    IN IF first = cls.size THEN one
       ELSE [one EXCEPT ![at + 1] = mergeClassifications(@, [cls EXCEPT !.size = cls.size - first])]

RECURSIVE MergeElement(_, _, _)
MergeElement(eightbytes, elemClass, offset) ==
    IF elemClass = <<>> THEN eightbytes
    ELSE MergeElement(MergeClass(eightbytes, Head(elemClass), offset), Tail(elemClass), offset + 8)

\* What is left to do when all elements are merged; the classes, or memory.
PostMerger(eightbytes, size, returnMemory) ==
    LET n == Len(eightbytes)
        Cls(i) == eightbytes[i].cls
    IN IF \/ \E i \in 1..n : Cls(i) = "MEMORY"
          \/ \E i \in 1..n : Cls(i) = "X87UP" /\ (i = 1 \/ Cls(i - 1) # "X87")
          \/ size > 16     \* no class but SSE begins a larger value, and no type gives SSEUP
       THEN returnMemory
       ELSE [i \in 1..Max({0} \cup {j \in 1..n : Cls(j) # "NO_CLASS"}) |-> eightbytes[i]]

RECURSIVE getArgClassification(_), MergeElements(_, _, _)
getArgClassification(type) ==
    CASE type.kind = "INT" -> <<Info("INTEGER", type.size, type.size, FALSE)>>
      [] type.kind = "FP80" -> <<Info("X87", 8, 8, FALSE), Info("X87UP", 8, 8, FALSE)>>
      [] type.kind = "FP" -> <<Info("SSE", type.size, 0, FALSE)>>
      [] OTHER ->
           LET layout == Layout(type)
               returnMemory == <<Info("MEMORY", layout.size, layout.align, FALSE)>>
               none == [i \in 1..((layout.size + 7) \div 8) |-> NoClass]
           IN IF layout.size > 64 THEN returnMemory
              ELSE PostMerger(MergeElements(none, Elements(type), layout.offsets),
                              layout.size, returnMemory)
MergeElements(eightbytes, elems, offsets) ==
    IF elems = <<>> THEN eightbytes
    ELSE MergeElements(MergeElement(eightbytes, getArgClassification(Head(elems)), Head(offsets)),
                       Tail(elems), Tail(offsets))

(***************************************************************************)
(* A part is what one parameter of the LLVM function has the type of: its  *)
(* kind and how many bytes it carries.  Class X87 is an error.             *)
(***************************************************************************)
Part(k, width) == [k |-> k, width |-> width]
Scalar(type) == Part(CASE type.kind = "INT" -> "int" [] type.kind = "FP" -> "fp" [] OTHER -> "fp80", type.size)
Throws == <<Part("throw", 0)>>

PartOf(info) ==
    CASE info.cls = "INTEGER" -> Part("int", alignTo(info.size, info.align))
      [] info.cls = "SSE" /\ info.multiple -> Part("vector", 8)
      [] info.cls = "SSE" /\ ~info.multiple -> Part("fp", 8)
      [] info.cls = "MEMORY" -> Part("pointer", info.size)
      [] OTHER -> Part("throw", 0)

X86ParamType(type) ==
    IF ~isAggregateType(type) THEN <<Scalar(type)>>
    ELSE LET argClasses == getArgClassification(type)
             parts == [i \in DOMAIN argClasses |-> PartOf(argClasses[i])]
         IN IF \E i \in DOMAIN parts : parts[i].k = "throw" THEN Throws ELSE parts

-----------------------------------------------------------------------------
(***************************************************************************)
(* AArch64ABI: a homogeneous aggregate of up to four floating point        *)
(* numbers is an array of them, another of up to 16 bytes is one or two    *)
(* 64-bit integers, and a larger one is in memory.                         *)
(***************************************************************************)
RECURSIVE flattenHFA(_), FlattenAll(_)
flattenHFA(type) == IF isAggregateType(type) THEN FlattenAll(Elements(type)) ELSE <<type>>
FlattenAll(elems) == IF elems = <<>> THEN <<>> ELSE flattenHFA(Head(elems)) \o FlattenAll(Tail(elems))

isHFA(type) ==
    /\ isAggregateType(type)
    /\ LET flat == flattenHFA(type)
       IN /\ Len(flat) \in 1..4
          /\ flat[1].kind \in {"FP", "FP80"}
          /\ \A i \in DOMAIN flat : flat[i] = flat[1]

AArch64ParamType(type) ==
    CASE isHFA(type) -> <<Part("array", SizeOf(type))>>
      [] ~isHFA(type) /\ SizeOf(type) > 16 -> <<Part("pointer", SizeOf(type))>>
      [] isAggregateType(type) /\ ~isHFA(type) /\ SizeOf(type) <= 8 -> <<Part("int", 8)>>
      [] isAggregateType(type) /\ ~isHFA(type) /\ SizeOf(type) \in 9..16 -> <<Part("array", 16)>>
      [] OTHER -> <<Scalar(type)>>
=============================================================================
