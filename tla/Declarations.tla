---------------------------- MODULE Declarations ----------------------------
(***************************************************************************)
(* Declarations of objects and functions in CodeGenModule: which global of *)
(* llvm::Module or which alloca a declaration makes, finds again or        *)
(* completes, with which linkage and which initial value, and what the     *)
(* symbol table says of its name afterwards.  TypeChecker only compares    *)
(* the type of the initializer and passes the storage class on in the type.*)
(*                                                                         *)
(* A shape is a type with an initializer; what becomes of one is given by  *)
(* operators, which module Initializers defines.                           *)
(*                                                                         *)
(* A definition X_Wrong is a mistake one could make in X: no action uses   *)
(* it, and it is there to show which property rules it out.                *)
(***************************************************************************)
EXTENDS Integers, Sequences, FiniteSets

CONSTANTS
  Id,        (* identifiers of objects                                      *)
  Fn,        (* identifiers of functions; a local object may have one too   *)
  Shapes,    (* types with an initializer, or without one                   *)
  Default,   (* an int without an initializer                               *)
  Plain,     (* those of which a unit has several; of the others it has one *)
             (* that is its first and its last object: bounds the model     *)
  MaxDecls,  (* declarations in one unit: bounds the model                  *)
  MaxDepth,  (* scopes open at once: bounds the model                       *)
  HasInit(_),       (* the shape has an initializer,                        *)
  Accepts(_),       (* whose type TypeChecker accepts                       *)
  StaticInit(_, _), (* the outcome, and the initializer of the global if it *)
                    (* is "done", of a static object, declared extern or not*)
  AutoInit(_),      (* the same of an automatic object; its value           *)
  CopiesGlobal(_)   (* an automatic object is copied from a constant global *)

ASSUME PlainAreShapes == Plain \subseteq Shapes
ASSUME NamesAreDistinct == Id \cap Fn = {}
ASSUME BoundsAreNat == MaxDecls \in Nat /\ MaxDepth \in Nat

ASSUME HasInitIsTruth == \A shape \in Shapes : HasInit(shape) \in BOOLEAN

(* The initializer of a global is null, << >>, for one that is extern and  *)
(* only declared.                                                          *)
ASSUME OnlyExternHasNoInit ==
  \A shape \in Shapes, hasExtern \in BOOLEAN :
    LET init == StaticInit(shape, hasExtern) IN
      init.outcome \notin {"thrown", "undefined"} =>
        (init.value = << >> <=> ~HasInit(shape) /\ hasExtern)

(* An initializer that is not a constant is stored, which does not throw.  *)
ASSUME StoresDoNotThrow ==
  \A shape \in Shapes : (HasInit(shape) => Accepts(shape)) => AutoInit(shape).outcome # "thrown"

VARIABLES
  objects,     (* the globals of llvm::Module and the allocas, by name      *)
  functions,   (* the linkage of the functions in llvm::Module              *)
  counter,     (* getLocalStaticName's counter                              *)
  symbolTable, (* CodeGenModule::symbolTable_, innermost scope last         *)
  current,     (* the function whose body is visited                        *)
  count,       (* the declarations so far                                   *)
  status       (* "open", "rejected" after a throw, or "undefined"          *)

vars == <<objects, functions, counter, symbolTable, current, count, status>>

Name == Id \cup Fn
None == "none"

(* the names of globals and, with a number, of the allocas                 *)
FileName(x)    == [kind |-> "file", fn |-> None, id |-> x, n |-> 0]
Alloca(x, n)   == [kind |-> "alloca", fn |-> current, id |-> x, n |-> n]
ConstName(name) == [name EXCEPT !.kind = "const"]
NoObject       == [kind |-> None]

Empty == [x \in Name |-> NoObject]

Init ==
  /\ objects = << >>
  /\ functions = [f \in Fn |-> None]
  /\ counter = [x \in Name |-> 0]
  /\ symbolTable = <<Empty>>
  /\ current = None
  /\ count = 0
  /\ status = "open"

isGlobal == current = None

Known(name) == name \in DOMAIN objects

Object(linkage, value) == [linkage |-> linkage, initializer |-> value]

(* the map with one object more, or another one in its place               *)
Put(map, name, object) ==
  [m \in DOMAIN map \cup {name} |-> IF m = name THEN object ELSE map[m]]

(* what the innermost scope that has the name holds for it                 *)
symbolTableLookup(x) ==
  LET found == {i \in DOMAIN symbolTable : symbolTable[i][x] # NoObject}
  IN  IF found = {} THEN NoObject
      ELSE symbolTable[CHOOSE i \in found : \A j \in found : j <= i][x]

symbolTablePush(x, name) ==
  symbolTable' = [symbolTable EXCEPT ![Len(symbolTable)][x] = name]

(* fn.x for the first x of the unit, fn.x.2, fn.x.3, ... for the others    *)
getLocalStaticName(x) ==
  [kind |-> "static", fn |-> current, id |-> x,
   n |-> IF counter[x] > 0 THEN counter[x] + 1 ELSE 0]

CountStatic(x) == counter' = [counter EXCEPT ![x] = @ + 1]

Offered == IF count = (IF isGlobal THEN 0 ELSE 1) THEN Shapes ELSE Plain

CanDeclare(shape) == status = "open" /\ count < MaxDecls /\ shape \in Offered

Count(shape) == count' = IF shape \in Plain THEN count + 1 ELSE MaxDecls

(* A throw, in either pass, ends the compilation; so does a step whose     *)
(* behaviour is undefined, as far as this model goes.                      *)
Stop(reason) ==
  /\ status' = reason
  /\ UNCHANGED <<objects, functions, counter, symbolTable, current>>

Mismatch(shape) == HasInit(shape) /\ ~Accepts(shape)

IncompatibleInit(shape) ==
  /\ CanDeclare(shape)
  /\ Mismatch(shape)
  /\ Count(shape)
  /\ Stop("rejected")

-----------------------------------------------------------------------------
(* A global that is there already: a definition completes it, anything     *)
(* else leaves it, and its linkage stays.                                  *)
Redeclare(name, shape, value) ==
  IF HasInit(shape) \/ objects[name].initializer = << >>
  THEN [objects EXCEPT ![name].initializer = value]
  ELSE objects

(* An object at file scope, or a local one declared static.                *)
StaticObject(x, storage, shape) ==
  LET value == StaticInit(shape, storage = "extern")
      name  == IF isGlobal THEN FileName(x) ELSE getLocalStaticName(x)
      linkage == IF storage = "static" THEN "internal" ELSE "external"
  IN  /\ CanDeclare(shape) /\ ~Mismatch(shape)
      /\ isGlobal \/ storage = "static"
      /\ Count(shape)
      /\ IF value.outcome = "thrown" THEN Stop("rejected")
         ELSE IF value.outcome = "undefined" THEN Stop("undefined")
         ELSE /\ objects' = IF Known(name) THEN Redeclare(name, shape, value.value)
                            ELSE Put(objects, name, Object(linkage, value.value))
              /\ IF isGlobal THEN UNCHANGED counter ELSE CountStatic(x)
              /\ symbolTablePush(x, name)
              /\ UNCHANGED <<functions, current, status>>

(* the object at file scope is looked for in the symbol table              *)
ExternObject_Wrong(x, shape) ==
  LET name == IF symbolTableLookup(x) = NoObject THEN FileName(x) ELSE symbolTableLookup(x)
  IN  /\ CanDeclare(shape) /\ ~HasInit(shape) /\ ~isGlobal
      /\ Count(shape)
      /\ objects' = IF Known(name) THEN objects
                    ELSE Put(objects, name, Object("external", << >>))
      /\ symbolTablePush(x, name)
      /\ UNCHANGED <<functions, counter, current, status>>

(* extern in a block: the global of that name, made if it is not there.    *)
ExternObject(x, shape) ==
  LET name == FileName(x)
  IN  /\ CanDeclare(shape) /\ ~HasInit(shape) /\ ~isGlobal
      /\ Count(shape)
      /\ objects' = IF Known(name) THEN objects
                    ELSE Put(objects, name, Object("external", << >>))
      /\ symbolTablePush(x, name)
      /\ UNCHANGED <<functions, counter, current, status>>

(* An automatic object.  An aggregate whose initializer is a constant is   *)
(* copied from a global, whose name counts as that of a local static; when *)
(* the constant throws there is neither.                                   *)
AutoObject(x, shape) ==
  LET value == AutoInit(shape)
      copy  == ConstName(getLocalStaticName(x))
      name  == Alloca(x, count)
  IN  /\ CanDeclare(shape) /\ ~Mismatch(shape) /\ ~isGlobal
      /\ Count(shape)
      /\ IF value.outcome = "undefined" THEN Stop("undefined")
         ELSE /\ objects' = Put(IF CopiesGlobal(shape)
                                THEN Put(objects, copy, Object("internal", value.value))
                                ELSE objects, name, Object(None, value.value))
              /\ IF CopiesGlobal(shape) THEN CountStatic(x) ELSE UNCHANGED counter
              /\ symbolTablePush(x, name)
              /\ UNCHANGED <<functions, current, status>>

-----------------------------------------------------------------------------
(* The linkage of a function that is declared: extern keeps an internal    *)
(* one, and a declaration without a storage class keeps what there is.     *)
FnDecl(f, storage) ==
  /\ CanDeclare(Default)
  /\ isGlobal \/ storage # "static"
  /\ count' = count + 1
  /\ functions' = [functions EXCEPT ![f] =
       IF @ = None THEN IF storage = "static" THEN "internal" ELSE "external"
       ELSE IF storage = "extern" /\ @ # "internal" THEN "external"
       ELSE @]
  /\ UNCHANGED <<objects, counter, symbolTable, current, status>>

(* the function gets the linkage of its definition                         *)
FnDef_Wrong(f, storage) ==
  /\ CanDeclare(Default) /\ isGlobal
  /\ count' = count + 1
  /\ functions' = [functions EXCEPT ![f] =
                     IF storage = "static" THEN "internal" ELSE "external"]
  /\ current' = f
  /\ symbolTable' = symbolTable \o <<Empty, Empty>>
  /\ UNCHANGED <<objects, counter, status>>

(* FnDef, up to its body: a function that was declared keeps its linkage;  *)
(* one scope for the parameters, one for the body.                         *)
FnDef(f, storage) ==
  /\ CanDeclare(Default) /\ isGlobal
  /\ count' = count + 1
  /\ functions' = [functions EXCEPT ![f] =
                     IF @ # None THEN @
                     ELSE IF storage = "static" THEN "internal" ELSE "external"]
  /\ current' = f
  /\ symbolTable' = symbolTable \o <<Empty, Empty>>
  /\ UNCHANGED <<objects, counter, status>>

EnterBlock ==
  /\ status = "open" /\ ~isGlobal /\ Len(symbolTable) < MaxDepth
  /\ symbolTable' = Append(symbolTable, Empty)
  /\ UNCHANGED <<objects, functions, counter, current, count, status>>

LeaveBlock ==
  /\ status = "open" /\ ~isGlobal /\ Len(symbolTable) > 3
  /\ symbolTable' = SubSeq(symbolTable, 1, Len(symbolTable) - 1)
  /\ UNCHANGED <<objects, functions, counter, current, count, status>>

EndFunction ==
  /\ status = "open" /\ ~isGlobal /\ Len(symbolTable) = 3
  /\ symbolTable' = SubSeq(symbolTable, 1, 1)
  /\ current' = None
  /\ UNCHANGED <<objects, functions, counter, count, status>>
=============================================================================
