------------------------------- MODULE Scopes -------------------------------
(***************************************************************************)
(* The three tables in which the compiler keeps what an identifier means:  *)
(* the set of typedef names of the lexer, typeContext_ of TypeChecker and  *)
(* symbolTable_ of CodeGenModule.  Each pass walks the whole program by    *)
(* itself; since what one pass computes at a node reaches the next one     *)
(* through nodeMap_ and only at that node, the model takes the three walks *)
(* in step.  A behaviour is one source program; the code generator skips   *)
(* the items that BlockItemList skips, the other passes do not.            *)
(*                                                                         *)
(* A declaration is a number.  typeContext_ holds the number of the        *)
(* declaration whose type it would return, symbolTable_ the one whose      *)
(* alloca, global or constant it would return.  Names of functions live in *)
(* llvm::Module and are not in Id.                                         *)
(*                                                                         *)
(* A definition X_Wrong is a mistake one could make in X: no action uses   *)
(* it, and it is there to show which property rules it out.                *)
(***************************************************************************)
EXTENDS Integers, Sequences, FiniteSetsExt

CONSTANTS
  Id,        (* identifiers of objects, enumeration constants, typedefs     *)
  Tag,       (* keys of enums, "enum X" in the code                         *)
  Features,  (* the kinds of items the source programs are made of          *)
  MaxDecls,  (* declarations in one program: bounds the model               *)
  MaxDepth   (* scopes open at once inside a function: bounds the model     *)

ASSUME BoundsAreNat == MaxDecls \in Nat /\ MaxDepth \in Nat
ASSUME TagsAreNotIds == Id \cap Tag = {}

VARIABLES
  frames,      (* the items being visited, outermost first                  *)
  decls,       (* the declarations read so far                              *)
  terminated,  (* the insert block of the code generator has a terminator   *)
  typedefs,    (* the lexer's set of typedef names                          *)
  typeContext, (* TypeChecker::typeContext_                                 *)
  symbolTable  (* CodeGenModule::symbolTable_                               *)

vars == <<frames, decls, terminated, typedefs, typeContext, symbolTable>>

Key     == Id \cup Tag
NoDecl  == 0
NoScope == [k \in Key |-> NoDecl]

(* where: an ordinary declaration, one in the first clause of a for, the   *)
(* name of a function declarator inside another declarator, or the member  *)
(* of an enum that is defined within a typedef                             *)
Decls == [name : Id, kind : {"object", "typedef", "const"},
          where : {"item", "for", "inner", "typedef"}]

New == Len(decls) + 1

Declaration(x, kind, where) == [name |-> x, kind |-> kind, where |-> where]

(* What a lookup finds: the entry of the innermost scope that has one.     *)
Lookup(stack, k) ==
  LET found == {i \in 1..Len(stack) : stack[i][k] # NoDecl}
  IN  IF found = {} THEN NoDecl ELSE stack[Max(found)][k]

lookupType(k)        == Lookup(typeContext, k)
symbolTableLookup(k) == Lookup(symbolTable, k)

(* context.back()[k] = d                                                   *)
Insert(stack, k, d) == [stack EXCEPT ![Len(stack)][k] = d]

Push(stack) == Append(stack, NoScope)

PopN(stack, count) == SubSeq(stack, 1, Len(stack) - count)

-----------------------------------------------------------------------------
(* The items of a program and which of them the code generator visits      *)

Top == frames[Len(frames)]

InFunction == frames # << >>

(* The code generator skips everything in an item that it skips.           *)
Skipping == InFunction /\ Top.skipped

SwitchOpen == \E i \in 1..Len(frames) : frames[i].kind = "switch"

(* BlockItemList tests the terminator before every item.                   *)
SkipsNext == Skipping \/ (InFunction /\ terminated /\ ~SwitchOpen)

CanDeclare(feature) == feature \in Features /\ Len(decls) < MaxDecls

(* The grammar wants an IDENTIFIER token in every declarator.              *)
IsIdentifier(x) == x \notin typedefs

CanEnter(kind) ==
  /\ kind \in Features
  /\ InFunction
  /\ Len(frames) < MaxDepth

Enter(kind) ==
  frames' = Append(frames, [kind |-> kind, skipped |-> SkipsNext])

Leave(kind) ==
  /\ InFunction
  /\ Top.kind = kind
  /\ frames' = SubSeq(frames, 1, Len(frames) - 1)

(* What the code generator does to its table, unless it skips the item.    *)
Visited(table) == symbolTable' = IF SkipsNext THEN symbolTable ELSE table

(* A visited loop or switch leaves a fresh insert block behind.            *)
FreshBlock == terminated' = (terminated /\ Skipping)

-----------------------------------------------------------------------------
(* FnDef: one scope for the parameters, one for the body.                  *)
EnterFnDef(params) ==
  LET scope == [k \in Key |-> IF k \in params THEN New ELSE NoDecl]
  IN  /\ "fn" \in Features
      /\ ~InFunction
      /\ params # {} => CanDeclare("fn")
      /\ \A x \in params : IsIdentifier(x)
      /\ frames' = <<[kind |-> "fn", skipped |-> FALSE]>>
      /\ decls' = IF params = {} THEN decls
                  ELSE Append(decls, Declaration(CHOOSE x \in params : TRUE,
                                                 "object", "item"))
      /\ terminated' = FALSE
      /\ typeContext' = Push(Append(typeContext, scope))
      /\ symbolTable' = Push(Append(symbolTable, scope))
      /\ UNCHANGED typedefs

ExitFnDef ==
  /\ Leave("fn")
  /\ terminated' = FALSE
  /\ typeContext' = PopN(typeContext, 2)
  /\ symbolTable' = PopN(symbolTable, 2)
  /\ UNCHANGED <<decls, typedefs>>

(* CompoundStmt                                                            *)
EnterCompoundStmt ==
  /\ CanEnter("block")
  /\ Enter("block")
  /\ typeContext' = Push(typeContext)
  /\ Visited(Push(symbolTable))
  /\ UNCHANGED <<decls, terminated, typedefs>>

(* the scope of a block stays when the block ends in a jump                *)
ExitCompoundStmt_Wrong ==
  /\ Leave("block")
  /\ typeContext' = PopN(typeContext, 1)
  /\ symbolTable' = IF Skipping \/ terminated THEN symbolTable
                                              ELSE PopN(symbolTable, 1)
  /\ UNCHANGED <<decls, terminated, typedefs>>

ExitCompoundStmt ==
  /\ Leave("block")
  /\ typeContext' = PopN(typeContext, 1)
  /\ symbolTable' = IF Skipping THEN symbolTable ELSE PopN(symbolTable, 1)
  /\ UNCHANGED <<decls, terminated, typedefs>>

(* Switch over a compound statement: items are visited after a terminator, *)
(* of which the switch is the first; labels change none of the tables.     *)
EnterSwitch ==
  /\ CanEnter("switch")
  /\ Enter("switch")
  /\ terminated' = (terminated \/ ~SkipsNext)
  /\ typeContext' = Push(typeContext)
  /\ Visited(Push(symbolTable))
  /\ UNCHANGED <<decls, typedefs>>

ExitSwitch ==
  /\ Leave("switch")
  /\ FreshBlock
  /\ typeContext' = PopN(typeContext, 1)
  /\ symbolTable' = IF Skipping THEN symbolTable ELSE PopN(symbolTable, 1)
  /\ UNCHANGED <<decls, typedefs>>

(* the variable is put in the file scope                                   *)
EnterFor_Wrong(x) ==
  /\ CanEnter("for")
  /\ CanDeclare("for")
  /\ IsIdentifier(x)
  /\ Enter("for")
  /\ decls' = Append(decls, Declaration(x, "object", "for"))
  /\ terminated' = (terminated /\ SkipsNext)
  /\ typeContext' = Push([typeContext EXCEPT ![1][x] = New])
  /\ Visited(Push(Insert(Push(symbolTable), x, New)))
  /\ UNCHANGED typedefs

(* For over a compound statement, with a declaration of x as its first     *)
(* clause.  TypeChecker opens no scope for that declaration.               *)
EnterFor(x) ==
  /\ CanEnter("for")
  /\ CanDeclare("for")
  /\ IsIdentifier(x)
  /\ Enter("for")
  /\ decls' = Append(decls, Declaration(x, "object", "for"))
  /\ terminated' = (terminated /\ SkipsNext)
  /\ typeContext' = Push(Insert(typeContext, x, New))
  /\ Visited(Push(Insert(Push(symbolTable), x, New)))
  /\ UNCHANGED typedefs

(* no popScope at the end of a for                                         *)
ExitFor_Wrong ==
  /\ Leave("for")
  /\ FreshBlock
  /\ typeContext' = PopN(typeContext, 1)
  /\ symbolTable' = IF Skipping THEN symbolTable ELSE PopN(symbolTable, 1)
  /\ UNCHANGED <<decls, typedefs>>

ExitFor ==
  /\ Leave("for")
  /\ FreshBlock
  /\ typeContext' = PopN(typeContext, 1)
  /\ symbolTable' = IF Skipping THEN symbolTable ELSE PopN(symbolTable, 2)
  /\ UNCHANGED <<decls, typedefs>>

(* Return: what follows it in its list is skipped.                         *)
Return ==
  /\ "return" \in Features
  /\ InFunction
  /\ terminated' = (terminated \/ ~SkipsNext)
  /\ UNCHANGED <<frames, decls, typedefs, typeContext, symbolTable>>

-----------------------------------------------------------------------------
(* Declarations                                                            *)

(* DeclNode and InitDecl of an object                                      *)
Declare(x) ==
  /\ CanDeclare("object")
  /\ IsIdentifier(x)
  /\ decls' = Append(decls, Declaration(x, "object", "item"))
  /\ typeContext' = Insert(typeContext, x, New)
  /\ Visited(Insert(symbolTable, x, New))
  /\ UNCHANGED <<frames, terminated, typedefs>>

(* the lexer is told of typedefs at file scope only                        *)
DeclareTypedef_Wrong(x) ==
  /\ CanDeclare("typedef")
  /\ IsIdentifier(x)
  /\ decls' = Append(decls, Declaration(x, "typedef", "item"))
  /\ typedefs' = IF InFunction THEN typedefs ELSE typedefs \cup {x}
  /\ typeContext' = Insert(typeContext, x, New)
  /\ UNCHANGED <<frames, terminated, symbolTable>>

(* The parser adds the name to the lexer's set, TypeChecker treats it like *)
(* any declaration, CodeGenModule leaves the declaration out.              *)
DeclareTypedef(x) ==
  /\ CanDeclare("typedef")
  /\ IsIdentifier(x)
  /\ decls' = Append(decls, Declaration(x, "typedef", "item"))
  /\ typedefs' = typedefs \cup {x}
  /\ typeContext' = Insert(typeContext, x, New)
  /\ UNCHANGED <<frames, terminated, symbolTable>>

(* Enum with a member list, of one member x.                               *)
DefineEnum(t, x) ==
  /\ CanDeclare("enum")
  /\ IsIdentifier(x)
  /\ decls' = Append(decls, Declaration(x, "const", "item"))
  /\ typeContext' = Insert(Insert(typeContext, x, New), t, New)
  /\ Visited(Insert(symbolTable, x, New))
  /\ UNCHANGED <<frames, terminated, typedefs>>

(* The same within a typedef of a further name: CodeGenModule does not     *)
(* visit what is within a typedef.                                         *)
DefineEnumInTypedef(t, x) ==
  /\ CanDeclare("enumtypedef")
  /\ IsIdentifier(x)
  /\ decls' = Append(decls, Declaration(x, "const", "typedef"))
  /\ typeContext' = Insert(Insert(typeContext, x, New), t, New)
  /\ UNCHANGED <<frames, terminated, typedefs, symbolTable>>

(* Enum without members, as in `enum E v;': TypeChecker looks the enum up, *)
(* CodeGenModule registers the constants of what it found.                 *)
ReferToEnum(t) ==
  LET d == lookupType(t)
  IN  /\ "enumref" \in Features
      /\ d # NoDecl
      /\ Visited(Insert(symbolTable, decls[d].name, d))
      /\ UNCHANGED <<frames, decls, terminated, typedefs, typeContext>>

(* A function declarator x inside another declarator, as a parameter or a  *)
(* member has it: FnDecl inserts its name wherever it stands.              *)
InnerFnDecl(x) ==
  /\ CanDeclare("inner")
  /\ IsIdentifier(x)
  /\ decls' = Append(decls, Declaration(x, "object", "inner"))
  /\ typeContext' = Insert(typeContext, x, New)
  /\ UNCHANGED <<frames, terminated, typedefs, symbolTable>>

-----------------------------------------------------------------------------
Init ==
  /\ frames = << >>
  /\ decls = << >>
  /\ terminated = FALSE
  /\ typedefs = {}
  /\ typeContext = <<NoScope>>
  /\ symbolTable = <<NoScope>>

=============================================================================
