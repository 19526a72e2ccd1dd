-------------------------- MODULE DeclarationCheck --------------------------
(***************************************************************************)
(* Declarations beside the rules of C: linkage (C99 6.2.2), tentative      *)
(* definitions (6.9.2), scope (6.2.1) and initialization (6.7.8).  The     *)
(* units are those whose behaviour C defines.  What an initializer means   *)
(* in C is given by operators, which module InitialValues defines.         *)
(***************************************************************************)
EXTENDS Declarations

CONSTANTS
  TypeIn(_),           (* the type in a shape                               *)
  ValueInC(_, _),      (* the value an object of it, static or not, begins  *)
                       (* with in C: that of its initializer, or null, or   *)
                       (* indeterminate                                     *)
  InitIsConstant(_),   (* C lets a static object have the initializer       *)
  InitHasOperators(_), (* it is more than a literal                         *)
  IsDeparture(_, _)    (* the compiler is known to get it wrong             *)

ASSUME ValuesHaveScalars ==
  \A shape \in Shapes, isStatic \in BOOLEAN : ValueInC(shape, isStatic) # << >>

ASSUME IsDepartureIsTruth ==
  \A shape \in Shapes, isStatic \in BOOLEAN : IsDeparture(shape, isStatic) \in BOOLEAN

VARIABLES
  entities, (* the objects and functions of the unit, in order              *)
  scopes,   (* the entity each name stands for: scopes, innermost last      *)
  excused   (* the compiler is known to fail on the declaration just read   *)

cvars == <<entities, scopes, excused>>
allvars == <<vars, cvars>>

Nothing == [x \in Name |-> 0]

CheckInit == Init /\ entities = << >> /\ scopes = <<Nothing>> /\ excused = FALSE

-----------------------------------------------------------------------------
(* 6.2.1, 6.2.2, 6.9.2                                                     *)

(* the entity a name stands for, 0 if it is not declared                   *)
Meant(x) ==
  LET found == {i \in DOMAIN scopes : scopes[i][x] # 0}
  IN  IF found = {} THEN 0 ELSE scopes[CHOOSE i \in found : \A j \in found : j <= i][x]

Linked(x) ==
  LET found == {e \in DOMAIN entities : entities[e].id = x /\ entities[e].linkage # None}
  IN  IF found = {} THEN 0 ELSE CHOOSE e \in found : TRUE

(* the linkage of a declaration of an identifier that has one              *)
Linkage(x, storage, isFn) ==
  IF storage = "static" THEN "internal"
  ELSE IF storage = "extern" \/ isFn
  THEN IF Meant(x) # 0 /\ entities[Meant(x)].linkage # None
       THEN entities[Meant(x)].linkage ELSE "external"
  ELSE "external"

(* It is the entity that the unit has, if it has one.                      *)
AgreesWith(x, kind, t, linkage) ==
  /\ scopes[Len(scopes)][x] \in {0, Linked(x)}
  /\ Linked(x) # 0 =>
       /\ entities[Linked(x)].kind = kind
       /\ entities[Linked(x)].type = t
       /\ entities[Linked(x)].linkage = linkage

Means(x, e) == scopes' = [scopes EXCEPT ![Len(scopes)][x] = e]

Entity(x, kind, t, linkage, value, initialized, departs, object) ==
  [id |-> x, kind |-> kind, type |-> t, linkage |-> linkage, value |-> value,
   initialized |-> initialized, departs |-> departs, object |-> object]

DeclareLinked(x, kind, t, linkage, value, initialized, departs) ==
  IF Linked(x) = 0
  THEN /\ entities' = Append(entities,
            Entity(x, kind, t, linkage, value, initialized, departs, FileName(x)))
       /\ Means(x, Len(entities) + 1)
  ELSE /\ Means(x, Linked(x))
       /\ LET old == entities[Linked(x)] IN
          entities' = [entities EXCEPT ![Linked(x)] =
            [old EXCEPT !.value = IF initialized \/ (value # << >> /\ ~old.initialized)
                                  THEN value ELSE @,
                        !.initialized = @ \/ initialized,
                        !.departs = @ \/ departs]]

(* Initializers with operators or with the other literals are offered to   *)
(* objects at file scope without a storage class: eval() is the same for   *)
(* all static objects, and what the program computes itself at run time is *)
(* the matter of Expressions.                                              *)
CheckFileObject(x, storage, shape) ==
  LET linkage == Linkage(x, storage, FALSE)
      value == IF ~HasInit(shape) /\ storage = "extern" THEN << >>
               ELSE ValueInC(shape, TRUE)
  IN  /\ isGlobal
      /\ InitHasOperators(shape) => storage = None
      /\ CanDeclare(shape)
      /\ AgreesWith(x, "object", TypeIn(shape), linkage)
      /\ HasInit(shape) =>
           /\ InitIsConstant(shape)
           /\ Linked(x) # 0 => ~entities[Linked(x)].initialized
      /\ StaticObject(x, storage, shape) \/ IncompatibleInit(shape)
      /\ DeclareLinked(x, "object", TypeIn(shape), linkage, value, HasInit(shape),
                       IsDeparture(shape, TRUE))
      /\ excused' = IsDeparture(shape, TRUE)

(* A local object, static or automatic, is always a new one.               *)
CheckLocalObject(x, storage, shape) ==
  LET isStatic == storage = "static"
      value == ValueInC(shape, isStatic)
  IN  /\ ~isGlobal /\ storage # "extern"
      /\ ~InitHasOperators(shape)
      /\ CanDeclare(shape)
      /\ scopes[Len(scopes)][x] = 0
      /\ isStatic /\ HasInit(shape) => InitIsConstant(shape)
      /\ \/ isStatic /\ StaticObject(x, storage, shape)
         \/ ~isStatic /\ AutoObject(x, shape)
         \/ IncompatibleInit(shape)
      /\ entities' = Append(entities,
           Entity(x, "object", TypeIn(shape), None, value, TRUE, IsDeparture(shape, isStatic),
                  symbolTable'[Len(symbolTable)][x]))
      /\ Means(x, Len(entities) + 1)
      /\ excused' = IsDeparture(shape, isStatic)

CheckExternObject(x, shape) ==
  LET linkage == Linkage(x, "extern", FALSE)
  IN  /\ AgreesWith(x, "object", TypeIn(shape), linkage)
      /\ ExternObject(x, shape)
      /\ DeclareLinked(x, "object", TypeIn(shape), linkage, << >>, FALSE, FALSE)
      /\ excused' = FALSE

CheckFnDecl(f, storage) ==
  LET linkage == Linkage(f, storage, TRUE)
  IN  /\ AgreesWith(f, "fn", TypeIn(Default), linkage)
      /\ FnDecl(f, storage)
      /\ DeclareLinked(f, "fn", TypeIn(Default), linkage, << >>, FALSE, FALSE)
      /\ excused' = FALSE

CheckFnDef(f, storage) ==
  LET linkage == Linkage(f, storage, TRUE)
      e == IF Linked(f) = 0 THEN Len(entities) + 1 ELSE Linked(f)
  IN  /\ AgreesWith(f, "fn", TypeIn(Default), linkage)
      /\ Linked(f) # 0 => ~entities[Linked(f)].initialized
      /\ FnDef(f, storage)
      /\ entities' = IF Linked(f) = 0
                     THEN Append(entities,
                            Entity(f, "fn", TypeIn(Default), linkage, << >>, TRUE, FALSE, FileName(f)))
                     ELSE [entities EXCEPT ![e].initialized = TRUE]
      /\ scopes' = [scopes EXCEPT ![1][f] = e] \o <<Nothing, Nothing>>
      /\ excused' = FALSE

CheckEnterBlock == EnterBlock /\ scopes' = Append(scopes, Nothing) /\ UNCHANGED <<entities, excused>>
CheckLeaveBlock ==
  LeaveBlock /\ scopes' = SubSeq(scopes, 1, Len(scopes) - 1) /\ UNCHANGED <<entities, excused>>
CheckEndFunction == EndFunction /\ scopes' = SubSeq(scopes, 1, 1) /\ UNCHANGED <<entities, excused>>

Storage == {None, "static", "extern"}

CheckNext ==
  \/ \E x \in Id, storage \in Storage, shape \in Offered : CheckFileObject(x, storage, shape)
  \/ \E storage \in Storage, shape \in Offered :
       \E x \in IF shape = Default THEN Name ELSE Id : CheckLocalObject(x, storage, shape)
  \/ \E x \in Id, shape \in Plain : CheckExternObject(x, shape)
  \/ \E f \in Fn, storage \in Storage : CheckFnDecl(f, storage)
  \/ \E f \in Fn, storage \in Storage : CheckFnDef(f, storage)
  \/ CheckEnterBlock
  \/ CheckLeaveBlock
  \/ CheckEndFunction

CheckSpec == CheckInit /\ [][CheckNext]_allvars

-----------------------------------------------------------------------------
(* Every object and function with linkage is one symbol of the module,     *)
(* with the linkage of C, whichever of its declarations came first, in a   *)
(* block or at file scope; an object has an initializer exactly when the   *)
(* unit defines it, and there are no other symbols at file scope.          *)
GlobalsFollowC ==
  status = "open" =>
    /\ \A e \in DOMAIN entities : LET entity == entities[e] IN
         /\ entity.linkage # None /\ entity.kind = "fn" =>
              functions[entity.id] = entity.linkage
         /\ entity.linkage # None /\ entity.kind = "object" =>
              /\ Known(FileName(entity.id))
              /\ objects[FileName(entity.id)].linkage = entity.linkage
              /\ (objects[FileName(entity.id)].initializer = << >>) = (entity.value = << >>)
    /\ \A name \in DOMAIN objects : name.kind = "file" => Linked(name.id) # 0

(* An identifier stands for the object that C says it does, wherever it is *)
(* used: local statics of one name in two functions or two blocks are two  *)
(* objects, and extern in a block reaches past a local of that name.       *)
IdentifiersDenoteTheirObjects ==
  status = "open" =>
    /\ \A x \in Name : Meant(x) # 0 /\ entities[Meant(x)].kind = "object" =>
         symbolTableLookup(x) = entities[Meant(x)].object
    /\ \A e, d \in DOMAIN entities :
         entities[e].object = entities[d].object => e = d

(* Every object begins with the value that C gives it, on both paths of an *)
(* aggregate, but for the declarations of Departs: brace elision, literals *)
(* in braces, a _Bool from a constant other than 0 and 1, and a literal    *)
(* shorter than its array when the object is initialized by stores.        *)
InitialValuesFollowCButForDepartures ==
  status = "open" =>
    \A e \in DOMAIN entities : LET entity == entities[e] IN
      entity.kind = "object" /\ ~entity.departs =>
        objects[entity.object].initializer = entity.value

(* The compiler accepts every declaration, but for those of Departs: of    *)
(* static objects also an address, an enumeration constant or an object of *)
(* enumeration type, whose values eval() cannot tell.                      *)
NothingIsRejectedButForDepartures == status # "open" => excused
=============================================================================
