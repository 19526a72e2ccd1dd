------------------------- MODULE MC_ConventionCheck -------------------------
(***************************************************************************)
(* Types that fill registers of both kinds, that straddle eightbytes, that *)
(* have holes, and that the ABI passes in memory.                          *)
(***************************************************************************)
EXTENDS ConventionCheck

TChar == INT(1)  TShort == INT(2)  TInt == INT(4)  TLong == INT(8)
TFloat == FP(4)  TDouble == FP(8)
TVoid == [kind |-> "void", size |-> 0]

Pair == Struct(<<TLong, TLong>>)
Mixed == Struct(<<TDouble, Array(TInt, 2)>>)
Floats == Struct(<<TFloat, TFloat, TInt>>)
Big == Struct(<<TLong, Pair>>)
Padded == Struct(<<TChar, TShort, TChar, TInt>>)
Tilted == Struct(<<TInt, Struct(<<TInt, TFloat, TFloat>>)>>)
Straddles == Struct(<<TInt, Struct(<<TInt, TInt>>)>>)

MCTypes == {TInt, TDouble, FP80, Pair, Mixed, Floats, Big, Padded, Tilted, Straddles,
            Struct(<<FP80>>), Struct(<<Array(TDouble, 3)>>), Struct(<<Array(TLong, 9)>>),
            Struct(<<TInt, TShort>>)}
MCReturnTypes == {TVoid, TInt, Floats, Big, Padded, Straddles, Struct(<<FP80>>)}

Parts == [a \in ABIs, t \in MCTypes \cup MCReturnTypes |->
             IF t = TVoid THEN <<Part("void", 0)>>
             ELSE IF a = X86 THEN X86ParamType(t) ELSE AArch64ParamType(t)]
MCParamType(a, t) == Parts[a, t]
MCIsStruct(t) == t.kind = "struct"
Sizes == [t \in MCTypes \cup MCReturnTypes |-> IF t = TVoid THEN 0 ELSE SizeOf(t)]
MCTypeAllocSize(t) == Sizes[t]
=============================================================================
