------------------------ MODULE MC_DeclarationCheck ------------------------
(* Initializers of up to three items and two levels for scalars, arrays    *)
(* and structs; units of declarations of one object and two functions.     *)
EXTENDS DeclarationCheck, InitialValues, TLC

CONSTANTS ident, f, g

MCFn == {f, g}
FnSymmetry == Permutations(MCFn)

(* constant expressions of up to two operators, for scalars at file scope  *)
Literal == {Const(0), Const(1), Const(3), UnsignedConst(1), HexConst(2), CharConst(1)}

Operand == Literal
  \cup {UnaryOp(op, e) : op \in {"-", "~", "!"}, e \in {Const(3), UnsignedConst(1)}}
  \cup {BinaryOp(Const(1), Const(3), op) : op \in {"<", "-"}}
  \cup {UnaryOp("-", BinaryOp(Const(1), Const(3), "<")), BinaryOp(Const(1), Const(0), "/")}

Operators == {"+", "-", "*", "/", "%", "&", "|", "^"} \cup C!Shifts \cup C!Relations \cup Logical

Trees == Operand \cup {UnaryOp(op, e) : op \in {"+", "-", "~", "!"}, e \in Operand}
                 \cup {BinaryOp(l, r, op) : l \in Operand, r \in Operand, op \in Operators}

Types == {INT, BOOL, PTR, ENUM, ArrayOf(CHAR, 4), ArrayOf(INT, 2),
          ArrayOf(ArrayOf(INT, 2), 2), ArrayOf(PTR, 2),
          StructOf(<<INT, ArrayOf(INT, 2)>>),
          StructOf(<<ArrayOf(CHAR, 4), INT>>),
          StructOf(<<BOOL, ENUM>>)}

Atoms == {Const(0), Const(1), Const(2), Str(1), Str(3), Address, EnumConst, RunTime}

Lists(items, n) == {List(s) : s \in UNION {[1..k -> items] : k \in 1..n}}

Inits == Atoms \cup {Copy} \cup Lists(Atoms, 3) \cup Lists(Atoms \cup Lists(Atoms, 2), 2)

MCDefault == <<INT, NoInit>>

MCPlain == {MCDefault, <<INT, Const(1)>>,
            <<ArrayOf(INT, 2), List(<<Const(1)>>)>>,
            <<ArrayOf(INT, 2), List(<<RunTime>>)>>}

MCShapes == MCPlain \cup
  {shape \in (Types \X Inits) \cup ({INT, LONG} \X Trees) \cup ({PTR} \X Operand) :
      IsLegal(shape)}

MCHasInit(shape) == shape[2] # NoInit
MCAccepts(shape) == checkType(shape[2], shape[1])
MCStaticInit(shape, hasExtern) == StaticValue(shape[1], shape[2], hasExtern)
MCAutoInit(shape) == AutoValue(shape[1], shape[2])
MCCopiesGlobal(shape) == CopiedFromGlobal(shape[1], shape[2])

MCTypeIn(shape) == shape[1]
MCInitIsConstant(shape) == IsConstant(shape[2])
MCInitHasOperators(shape) == HasOperators(shape[2])
=============================================================================
