-------------------------- MODULE DeclarationProofs --------------------------
(***************************************************************************)
(* That every object and function of a unit is the symbol that C says it   *)
(* is, and that every identifier stands for its own, for any identifiers,  *)
(* any types and initializers, any number of declarations and any nesting  *)
(* of blocks.                                                              *)
(*                                                                         *)
(* The argument ties the entities of C to the module, each by its kind: a  *)
(* function to its linkage, an object with linkage to the global that has  *)
(* its name, an object without to a name that no other object has, because *)
(* the counters have gone past its number.  From that, and from what each  *)
(* initializer evaluates to by itself, follow the values of all objects.   *)
(*                                                                         *)
(* Arguments of a lemma that are literals have local names, no and top, so *)
(* that the provers find the instance.                                     *)
(***************************************************************************)
EXTENDS DeclarationCheck, SequenceTheorems, WellFoundedInduction, TLAPS

LinkageOrNone == {None, "internal", "external"}

ObjectName ==
  [kind : {"file", "static", "alloca", "const"}, fn : Fn \cup {None}, id : Name, n : Nat]

Denoted == ObjectName \cup {NoObject}

Outcome == {StaticInit(shape, hasExtern) : shape \in Shapes, hasExtern \in BOOLEAN}
           \cup {AutoInit(shape) : shape \in Shapes}
GlobalValue ==
  {<< >>} \cup {r.value : r \in {o \in Outcome : o.outcome \notin {"thrown", "undefined"}}}

GlobalObject == [linkage : LinkageOrNone, initializer : GlobalValue]

CValue == {<< >>} \cup {ValueInC(shape, isStatic) : shape \in Shapes, isStatic \in BOOLEAN}

AnyEntity ==
  [id : Name, kind : {"object", "fn"}, type : {TypeIn(shape) : shape \in Shapes},
   linkage : LinkageOrNone, value : CValue, initialized : BOOLEAN,
   departs : BOOLEAN, object : Denoted]

SymbolScope == [Name -> Denoted]
CScope      == [Name -> Nat]

Objects(O) == DOMAIN O \subseteq ObjectName /\ O \in [DOMAIN O -> GlobalObject]

Stacks(S, T) ==
  /\ S \in Seq(CScope) /\ T \in Seq(SymbolScope)
  /\ Len(S) = Len(T) /\ Len(S) > 0

TypeOK ==
  /\ Objects(objects)
  /\ functions \in [Fn -> LinkageOrNone]
  /\ counter \in [Name -> Nat]
  /\ current \in Fn \cup {None}
  /\ count \in Nat
  /\ status \in {"open", "rejected", "undefined"}
  /\ entities \in Seq(AnyEntity)
  /\ Stacks(scopes, symbolTable)
  /\ excused \in BOOLEAN

(* The entities E have one of that name with linkage.                      *)
IsLinked(entity, x) == entity.id = x /\ entity.linkage # None
HasLinkage(E, x) == \E e \in 1..Len(E) : IsLinked(E[e], x)

(* The object of an entity has the name of its kind.  c are the counters   *)
(* of the static names, n is the number of declarations.                   *)
Behind(name, c, n) ==
  \/ name.kind = "static" /\ c[name.id] > 0 /\ name.n <= c[name.id]
  \/ name.kind = "alloca" /\ name.n < n

Place(entity, c, n) ==
  IF entity.linkage # None
  THEN entity.object = FileName(entity.id) /\ (entity.kind = "object" <=> entity.id \in Id)
  ELSE entity.kind = "object" /\ entity.object \in ObjectName /\ Behind(entity.object, c, n)

Distinct(E) == \A e, d \in 1..Len(E) : E[e].object = E[d].object => e = d

Identified(E, c, n) == (\A e \in 1..Len(E) : Place(E[e], c, n)) /\ Distinct(E)

(* A scope has in C what the symbol table has, and the functions.          *)
Agrees(e, x, name, E) ==
  IF e = 0 THEN name = NoObject
  ELSE e \in 1..Len(E) /\ E[e].id = x /\ (E[e].kind = "object" => name = E[e].object)

Mirror(S, T, E) ==
  \A i \in 1..Len(S), x \in Name : Agrees(S[i][x], x, T[i][x], E)

FunctionsMatch(E, F) ==
  \A f \in Fn :
    /\ F[f] # None => HasLinkage(E, f)
    /\ \A e \in 1..Len(E) : IsLinked(E[e], f) => F[f] = E[e].linkage

(* The global of an object that has linkage                                *)
Completed(entity, O) ==
  /\ FileName(entity.id) \in DOMAIN O
  /\ O[FileName(entity.id)].linkage = entity.linkage
  /\ O[FileName(entity.id)].initializer = << >> <=> entity.value = << >>
  /\ entity.initialized => entity.value # << >>

FilesAreLinked(E, O) == \A name \in DOMAIN O : name.kind = "file" => HasLinkage(E, name.id)

ObjectsMatch(E, O) ==
  /\ \A x \in Id, e \in 1..Len(E) : IsLinked(E[e], x) => Completed(E[e], O)
  /\ FilesAreLinked(E, O)

Matched(E, S, T, F, O, c, n) ==
  Identified(E, c, n) /\ Mirror(S, T, E) /\ FunctionsMatch(E, F) /\ ObjectsMatch(E, O)

Matching == Matched(entities, scopes, symbolTable, functions, objects, counter, count)

IInv == TypeOK /\ (status = "open" => Matching)

-----------------------------------------------------------------------------
(* Scopes                                                                  *)

LEMMA LeastOf ==
  ASSUME NEW S \in SUBSET Nat, S # {}
  PROVE  \E m \in S : \A k \in S : m <= k
<1>1. OpToRel(<, Nat) = {pair \in Nat \X Nat : pair[1] < pair[2]}
  BY DEF OpToRel
<1>2. PICK m \in S : \A k \in S : <<k, m>> \notin OpToRel(<, Nat)
  BY NatLessThanWellFounded, WFMin
<1>3. ASSUME NEW k \in S, k < m
      PROVE  FALSE
  <2>1. <<k, m>> \in {pair \in Nat \X Nat : pair[1] < pair[2]}
    BY <1>3
  <2> QED
    BY <1>1, <1>2, <2>1
<1>4. \A k \in S : k \in Nat /\ m \in Nat
  OBVIOUS
<1> QED
  BY <1>3, <1>4

LEMMA GreatestOf ==
  ASSUME NEW n \in Nat, NEW S \in SUBSET (1..n), S # {}
  PROVE  \E x \in S : \A y \in S : y <= x
<1> DEFINE T == {n - i : i \in S}
<1>1. T \in SUBSET Nat
  <2>1. \A i \in S : i \in 1..n
    OBVIOUS
  <2>2. \A i \in 1..n : n - i \in Nat
    OBVIOUS
  <2> QED
    BY <2>1, <2>2
<1>2. T # {}
  <2>1. PICK i \in S : TRUE
    OBVIOUS
  <2>2. n - i \in T
    OBVIOUS
  <2> QED
    BY <2>2
<1>3. PICK m \in T : \A k \in T : m <= k
  <2> HIDE DEF T
  <2> QED
    BY <1>1, <1>2, LeastOf
<1>4. PICK x \in S : m = n - x
  BY <1>3
<1>5. x \in 1..n /\ \A y \in S : n - y \in T /\ y \in 1..n
  OBVIOUS
<1>6. \A y \in S : y <= x
  <2> HIDE DEF T
  <2> QED
    BY <1>3, <1>4, <1>5
<1> QED
  BY <1>6

(* The innermost of some of n scopes                                       *)
Innermost(found) == CHOOSE i \in found : \A j \in found : j <= i

LEMMA InnermostIsFound ==
  ASSUME NEW n \in Nat, NEW S \in SUBSET (1..n), S # {}
  PROVE  Innermost(S) \in S /\ \A j \in S : j <= Innermost(S)
<1>1. \E x \in S : \A y \in S : y <= x
  BY GreatestOf
<1> QED
  BY <1>1 DEF Innermost

(* What a name stands for is what the innermost scope that has it says.    *)
LEMMA MeantIsInnermost ==
  ASSUME TypeOK, NEW x \in Name, Meant(x) # 0
  PROVE  \E i \in 1..Len(scopes) : /\ scopes[i][x] = Meant(x)
                                   /\ \A j \in i + 1..Len(scopes) : scopes[j][x] = 0
<1> DEFINE found == {i \in DOMAIN scopes : scopes[i][x] # 0}
<1>1. DOMAIN scopes = 1..Len(scopes) /\ Len(scopes) \in Nat
  BY LenProperties DEF TypeOK, Stacks
<1>2. found # {} /\ Meant(x) = scopes[Innermost(found)][x]
  BY DEF Meant, Innermost
<1>3. found \in SUBSET (1..Len(scopes))
  BY <1>1
<1>4. Innermost(found) \in found /\ \A j \in found : j <= Innermost(found)
  <2> HIDE DEF found
  <2> QED
    BY <1>1, <1>2, <1>3, InnermostIsFound
<1>5. Innermost(found) \in 1..Len(scopes)
  BY <1>1, <1>4
<1>6. ASSUME NEW j \in Innermost(found) + 1..Len(scopes), scopes[j][x] # 0
      PROVE  FALSE
  <2>1. j \in 1..Len(scopes) /\ ~(j <= Innermost(found))
    <3> HIDE DEF found
    <3> QED
      BY <1>5, <1>1
  <2>2. j \in found
    BY <1>1, <1>6, <2>1
  <2> QED
    BY <1>4, <2>1, <2>2
<1> HIDE DEF found
<1> QED
  BY <1>2, <1>5, <1>6

(* What the symbol table holds for a name is in the innermost scope that   *)
(* has the name.                                                           *)
LEMMA LookupIsInnermost ==
  ASSUME TypeOK, NEW x \in Name, NEW i \in 1..Len(symbolTable),
         symbolTable[i][x] # NoObject,
         \A j \in i + 1..Len(symbolTable) : symbolTable[j][x] = NoObject
  PROVE  symbolTableLookup(x) = symbolTable[i][x]
<1> DEFINE found == {j \in DOMAIN symbolTable : symbolTable[j][x] # NoObject}
<1>1. DOMAIN symbolTable = 1..Len(symbolTable) /\ Len(symbolTable) \in Nat
  BY LenProperties DEF TypeOK, Stacks
<1>2. i \in found
  BY <1>1
<1>3. symbolTableLookup(x) = symbolTable[Innermost(found)][x]
  BY <1>2 DEF symbolTableLookup, Innermost
<1>4. found \in SUBSET (1..Len(symbolTable))
  BY <1>1
<1>5. Innermost(found) \in found /\ \A j \in found : j <= Innermost(found)
  <2> HIDE DEF found
  <2> QED
    BY <1>1, <1>2, <1>4, InnermostIsFound
<1>6. /\ Innermost(found) \in 1..Len(symbolTable)
      /\ symbolTable[Innermost(found)][x] # NoObject
  BY <1>1, <1>5
<1>7. Innermost(found) = i
  <2>1. i <= Innermost(found)
    BY <1>2, <1>5
  <2>2. Innermost(found) \notin i + 1..Len(symbolTable)
    BY <1>6
  <2> HIDE DEF found
  <2> QED
    BY <1>1, <1>6, <2>1, <2>2
<1> QED
  BY <1>3, <1>7

-----------------------------------------------------------------------------
(* Entities                                                                *)

LEMMA LinkedFacts ==
  ASSUME TypeOK, NEW x
  PROVE  /\ Linked(x) = 0 <=> ~HasLinkage(entities, x)
         /\ Linked(x) # 0 => Linked(x) \in 1..Len(entities) /\ IsLinked(entities[Linked(x)], x)
<1> DEFINE found == {e \in DOMAIN entities : entities[e].id = x /\ entities[e].linkage # None}
<1>1. DOMAIN entities = 1..Len(entities) /\ Len(entities) \in Nat
  BY LenProperties DEF TypeOK, Stacks
<1>2. Linked(x) = IF found = {} THEN 0 ELSE CHOOSE e \in found : TRUE
  BY DEF Linked
<1>3. found = {} <=> ~HasLinkage(entities, x)
  BY <1>1 DEF HasLinkage, IsLinked
<1>4. ASSUME found # {}
      PROVE  Linked(x) \in 1..Len(entities) /\ IsLinked(entities[Linked(x)], x)
  <2>1. Linked(x) \in found
    <3> HIDE DEF found
    <3> QED
      BY <1>2, <1>4
  <2> QED
    BY <1>1, <2>1 DEF IsLinked
<1>5. found = {} => Linked(x) = 0
  BY <1>2
<1>6. 0 \notin 1..Len(entities)
  BY <1>1
<1> QED
  BY ONLY <1>3, <1>4, <1>5, <1>6

(* There is one of a name.                                                 *)
LEMMA OneIsLinked ==
  ASSUME NEW E, NEW c, NEW n, Identified(E, c, n), NEW x,
         NEW d \in 1..Len(E), NEW e \in 1..Len(E), IsLinked(E[d], x), IsLinked(E[e], x)
  PROVE  e = d
<1>1. E[d].object = FileName(x) /\ E[e].object = FileName(x)
  BY DEF Identified, Place, IsLinked
<1> QED
  BY <1>1 DEF Identified, Distinct

-----------------------------------------------------------------------------
(* The two properties                                                      *)

LEMMA GlobalsInv == IInv => GlobalsFollowC
<1> SUFFICES ASSUME IInv, status = "open"
             PROVE  /\ \A e \in DOMAIN entities : LET entity == entities[e] IN
                         /\ entity.linkage # None /\ entity.kind = "fn" =>
                              functions[entity.id] = entity.linkage
                         /\ entity.linkage # None /\ entity.kind = "object" =>
                              /\ Known(FileName(entity.id))
                              /\ objects[FileName(entity.id)].linkage = entity.linkage
                              /\ (objects[FileName(entity.id)].initializer = << >>)
                                    = (entity.value = << >>)
                    /\ \A name \in DOMAIN objects : name.kind = "file" => Linked(name.id) # 0
  BY DEF GlobalsFollowC
<1>1. TypeOK /\ Matching
  BY DEF IInv
<1>2. DOMAIN entities = 1..Len(entities)
  BY <1>1, LenProperties DEF TypeOK, Stacks
<1>3. \A e \in 1..Len(entities) : entities[e] \in AnyEntity
  BY <1>1, ElementOfSeq DEF TypeOK
<1>4. ASSUME NEW e \in 1..Len(entities), entities[e].linkage # None
      PROVE  /\ IsLinked(entities[e], entities[e].id)
             /\ entities[e].id \in Name /\ entities[e].kind \in {"object", "fn"}
             /\ entities[e].kind = "object" <=> entities[e].id \in Id
  BY <1>1, <1>3, <1>4 DEF Matching, Matched, Identified, Place, IsLinked, AnyEntity
<1>5. ASSUME NEW e \in 1..Len(entities), entities[e].linkage # None, entities[e].kind = "fn"
      PROVE  functions[entities[e].id] = entities[e].linkage
  <2>1. entities[e].id \in Fn
    BY <1>4, <1>5 DEF Name
  <2> QED
    BY <1>1, <1>4, <1>5, <2>1 DEF Matching, Matched, FunctionsMatch
<1>6. ASSUME NEW e \in 1..Len(entities), entities[e].linkage # None, entities[e].kind = "object"
      PROVE  Completed(entities[e], objects)
  BY <1>1, <1>4, <1>6 DEF Matching, Matched, ObjectsMatch
<1>7. ASSUME NEW name \in DOMAIN objects, name.kind = "file"
      PROVE  Linked(name.id) # 0
  <2>1. HasLinkage(entities, name.id)
    BY <1>1, <1>7 DEF Matching, Matched, ObjectsMatch, FilesAreLinked
  <2> QED
    BY <1>1, <2>1, LinkedFacts
<1> QED
  BY <1>2, <1>5, <1>6, <1>7 DEF Completed, Known

LEMMA IdentifiersInv == IInv => IdentifiersDenoteTheirObjects
<1> SUFFICES ASSUME IInv, status = "open"
             PROVE  /\ \A x \in Name : Meant(x) # 0 /\ entities[Meant(x)].kind = "object" =>
                         symbolTableLookup(x) = entities[Meant(x)].object
                    /\ \A e, d \in DOMAIN entities :
                         entities[e].object = entities[d].object => e = d
  BY DEF IdentifiersDenoteTheirObjects
<1>1. TypeOK /\ Matching
  BY DEF IInv
<1>2. DOMAIN entities = 1..Len(entities)
  BY <1>1, LenProperties DEF TypeOK, Stacks
<1>3. ASSUME NEW x \in Name, Meant(x) # 0, entities[Meant(x)].kind = "object"
      PROVE  symbolTableLookup(x) = entities[Meant(x)].object
  <2>1. PICK i \in 1..Len(scopes) : /\ scopes[i][x] = Meant(x)
                                    /\ \A j \in i + 1..Len(scopes) : scopes[j][x] = 0
    BY <1>1, <1>3, MeantIsInnermost
  <2>2. Len(scopes) = Len(symbolTable) /\ Len(scopes) \in Nat
    BY <1>1, LenProperties DEF TypeOK, Stacks
  <2>3. \A j \in 1..Len(scopes) : Agrees(scopes[j][x], x, symbolTable[j][x], entities)
    BY <1>1 DEF Matching, Matched, Mirror
  <2>4. /\ Meant(x) \in 1..Len(entities)
        /\ symbolTable[i][x] = entities[Meant(x)].object
    BY <1>3, <2>1, <2>3 DEF Agrees
  <2>5. symbolTable[i][x] # NoObject
    <3>1. Place(entities[Meant(x)], counter, count)
      BY <1>1, <2>4 DEF Matching, Matched, Identified
    <3>2. entities[Meant(x)].object.kind # None
      BY <3>1 DEF Place, FileName, Behind, None
    <3> QED
      BY <2>4, <3>2 DEF NoObject
  <2>6. \A j \in i + 1..Len(symbolTable) : symbolTable[j][x] = NoObject
    BY <2>1, <2>2, <2>3 DEF Agrees
  <2> QED
    BY <1>1, <2>2, <2>4, <2>5, <2>6, LookupIsInnermost
<1>4. \A e, d \in DOMAIN entities : entities[e].object = entities[d].object => e = d
  BY <1>1, <1>2 DEF Matching, Matched, Identified, Distinct
<1> QED
  BY <1>3, <1>4

-----------------------------------------------------------------------------
(* What a declaration does to the entities and to the scopes               *)

Appended(E2, E, r) ==
  /\ Len(E) \in Nat /\ Len(E2) = Len(E) + 1
  /\ \A i \in 1..Len(E) : E2[i] = E[i]
  /\ E2[Len(E) + 1] = r

Replaced(E2, E, l, r) ==
  /\ l \in 1..Len(E) /\ Len(E2) = Len(E)
  /\ \A i \in 1..Len(E) : E2[i] = IF i = l THEN r ELSE E[i]

(* Another declaration of what is declared                                 *)
Alike(r, entity) ==
  r.id = entity.id /\ r.kind = entity.kind /\ r.linkage = entity.linkage /\ r.object = entity.object

(* The name x has v in scope i, and the rest is as it was.                 *)
Declared(s2, s, i, x, v) ==
  /\ Len(s2) = Len(s)
  /\ \A j \in 1..Len(s), y \in Name : s2[j][y] = IF j = i /\ y = x THEN v ELSE s[j][y]

Opened(s2, s, fresh) ==
  /\ Len(s) \in Nat /\ Len(s2) = Len(s) + 1
  /\ \A j \in 1..Len(s) : s2[j] = s[j]
  /\ s2[Len(s) + 1] = fresh

Closed(s2, s) ==
  /\ Len(s2) \in Nat /\ Len(s) \in Nat /\ Len(s2) <= Len(s)
  /\ \A j \in 1..Len(s2) : s2[j] = s[j]

LEMMA AppendedEntity ==
  ASSUME NEW E \in Seq(AnyEntity), NEW r \in AnyEntity
  PROVE  Append(E, r) \in Seq(AnyEntity) /\ Appended(Append(E, r), E, r)
<1>1. Len(E) \in Nat
  BY LenProperties
<1>2. /\ Append(E, r) \in Seq(AnyEntity)
      /\ Len(Append(E, r)) = Len(E) + 1
      /\ \A i \in 1..Len(E) : Append(E, r)[i] = E[i]
      /\ Append(E, r)[Len(E) + 1] = r
  BY AppendProperties
<1> QED
  BY <1>1, <1>2 DEF Appended

LEMMA ReplacedEntity ==
  ASSUME NEW E \in Seq(AnyEntity), NEW r \in AnyEntity, NEW l \in 1..Len(E)
  PROVE  [E EXCEPT ![l] = r] \in Seq(AnyEntity) /\ Replaced([E EXCEPT ![l] = r], E, l, r)
<1>1. /\ [E EXCEPT ![l] = r] \in Seq(AnyEntity)
      /\ Len([E EXCEPT ![l] = r]) = Len(E)
      /\ \A i \in 1..Len(E) : [E EXCEPT ![l] = r][i] = IF i = l THEN r ELSE E[i]
  BY ExceptSeq
<1> QED
  BY <1>1 DEF Replaced

LEMMA DeclaredName ==
  ASSUME NEW V, NEW s \in Seq([Name -> V]), NEW i \in 1..Len(s), NEW x \in Name, NEW v \in V
  PROVE  /\ [s EXCEPT ![i][x] = v] \in Seq([Name -> V])
         /\ Declared([s EXCEPT ![i][x] = v], s, i, x, v)
<1> DEFINE scope == [s[i] EXCEPT ![x] = v]
<1>1. s[i] \in [Name -> V]
  BY ElementOfSeq
<1>2. scope \in [Name -> V] /\ \A y \in Name : scope[y] = IF y = x THEN v ELSE s[i][y]
  BY <1>1
<1>3. [s EXCEPT ![i][x] = v] = [s EXCEPT ![i] = scope]
  OBVIOUS
<1> HIDE DEF scope
<1>4. /\ [s EXCEPT ![i] = scope] \in Seq([Name -> V])
      /\ Len([s EXCEPT ![i] = scope]) = Len(s)
      /\ \A j \in 1..Len(s) : [s EXCEPT ![i] = scope][j] = IF j = i THEN scope ELSE s[j]
  BY <1>2, ExceptSeq
<1>5. \A j \in 1..Len(s), y \in Name :
        [s EXCEPT ![i] = scope][j][y] = IF j = i /\ y = x THEN v ELSE s[j][y]
  BY <1>2, <1>4
<1> QED
  BY <1>3, <1>4, <1>5 DEF Declared

LEMMA OpenedScope ==
  ASSUME NEW V, NEW s \in Seq(V), NEW fresh \in V
  PROVE  Append(s, fresh) \in Seq(V) /\ Opened(Append(s, fresh), s, fresh)
<1>1. Len(s) \in Nat
  BY LenProperties
<1>2. /\ Append(s, fresh) \in Seq(V)
      /\ Len(Append(s, fresh)) = Len(s) + 1
      /\ \A i \in 1..Len(s) : Append(s, fresh)[i] = s[i]
      /\ Append(s, fresh)[Len(s) + 1] = fresh
  BY AppendProperties
<1> QED
  BY <1>1, <1>2 DEF Opened

LEMMA ClosedScopes ==
  ASSUME NEW V, NEW s \in Seq(V), NEW n \in 1..Len(s)
  PROVE  /\ SubSeq(s, 1, n) \in Seq(V)
         /\ Closed(SubSeq(s, 1, n), s)
         /\ Len(SubSeq(s, 1, n)) = n
<1>1. Len(s) \in Nat
  BY LenProperties
<1>2. \A i \in 1..n : s[i] \in V
  <2>1. \A i \in 1..n : i \in 1..Len(s)
    BY <1>1
  <2> QED
    BY <2>1, ElementOfSeq
<1>3. /\ SubSeq(s, 1, n) \in Seq(V)
      /\ Len(SubSeq(s, 1, n)) = IF 1 <= n THEN n - 1 + 1 ELSE 0
      /\ \A i \in 1..n - 1 + 1 : SubSeq(s, 1, n)[i] = s[1 + i - 1]
  BY <1>1, <1>2, SubSeqProperties
<1>4. n \in Nat /\ n >= 1 /\ n <= Len(s) /\ n - 1 + 1 = n /\ \A i \in 1..n : 1 + i - 1 = i
  BY <1>1
<1>5. Len(SubSeq(s, 1, n)) = n /\ \A i \in 1..n : SubSeq(s, 1, n)[i] = s[i]
  BY <1>3, <1>4
<1> QED
  BY <1>1, <1>3, <1>4, <1>5 DEF Closed

-----------------------------------------------------------------------------
(* The parts of the invariant when an entity is added or declared again    *)

(* The counters have gone on.                                              *)
Later(c2, n2, c, n) ==
  /\ c \in [Name -> Nat] /\ c2 \in [Name -> Nat] /\ n \in Nat /\ n2 \in Nat /\ n <= n2
  /\ \A x \in Name : c[x] <= c2[x]

LEMMA PlaceStays ==
  ASSUME NEW entity, NEW c, NEW n, NEW c2, NEW n2, Later(c2, n2, c, n), Place(entity, c, n)
  PROVE  Place(entity, c2, n2)
<1>1. CASE entity.linkage # None
  BY <1>1 DEF Place
<1>2. CASE entity.linkage = None
  <2>1. entity.kind = "object" /\ entity.object \in ObjectName /\ Behind(entity.object, c, n)
    BY <1>2 DEF Place
  <2>2. entity.object.id \in Name /\ entity.object.n \in Nat
    BY <2>1 DEF ObjectName
  <2>3. Behind(entity.object, c2, n2)
    <3> DEFINE m == entity.object.n
               x == entity.object.id
    <3>1. /\ c[x] \in Nat /\ c2[x] \in Nat /\ c[x] <= c2[x]
          /\ n \in Nat /\ n2 \in Nat /\ n <= n2
      BY <2>2 DEF Later
    <3>2. \/ entity.object.kind = "static" /\ c[x] > 0 /\ m <= c[x]
          \/ entity.object.kind = "alloca" /\ m < n
      BY <2>1 DEF Behind
    <3>3. m \in Nat
      BY <2>2
    <3> HIDE DEF m, x
    <3>4. \/ entity.object.kind = "static" /\ c2[x] > 0 /\ m <= c2[x]
          \/ entity.object.kind = "alloca" /\ m < n2
      BY ONLY <3>1, <3>2, <3>3
    <3> QED
      BY <3>4 DEF Behind, m, x
  <2> QED
    BY <1>2, <2>1, <2>3 DEF Place
<1> QED
  BY <1>1, <1>2

LEMMA IdentifiedNew ==
  ASSUME NEW E, NEW c, NEW n, NEW c2, NEW n2, NEW r, NEW E2,
         Identified(E, c, n), Later(c2, n2, c, n), Appended(E2, E, r), Place(r, c2, n2),
         \A e \in 1..Len(E) : E[e].object # r.object
  PROVE  Identified(E2, c2, n2)
<1>1. \A j \in 1..Len(E2) : j \in 1..Len(E) \/ j = Len(E) + 1
  BY DEF Appended
<1>2. \A i \in 1..Len(E) : Place(E[i], c2, n2)
  BY PlaceStays DEF Identified
<1>3. \A i \in 1..Len(E2) : Place(E2[i], c2, n2)
  BY <1>1, <1>2 DEF Appended
<1>4. Distinct(E2)
  <2>1. SUFFICES ASSUME NEW e \in 1..Len(E2), NEW d \in 1..Len(E2), E2[e].object = E2[d].object
                 PROVE  e = d
    BY DEF Distinct
  <2>2. \A j \in 1..Len(E2) : \/ j \in 1..Len(E) /\ E2[j] = E[j]
                              \/ j = Len(E) + 1 /\ E2[j] = r
    BY <1>1 DEF Appended
  <2> QED
    BY <2>1, <2>2 DEF Identified, Distinct
<1> QED
  BY <1>3, <1>4 DEF Identified

LEMMA IdentifiedAgain ==
  ASSUME NEW E, NEW c, NEW n, NEW c2, NEW n2, NEW l, NEW r, NEW E2,
         Identified(E, c, n), Later(c2, n2, c, n), Replaced(E2, E, l, r), Alike(r, E[l])
  PROVE  Identified(E2, c2, n2)
<1>1. \A i \in 1..Len(E) : Place(E[i], c2, n2)
  BY PlaceStays DEF Identified
<1>2. \A i \in 1..Len(E) : Alike(E2[i], E[i])
  BY DEF Replaced, Alike
<1>3. Len(E2) = Len(E)
  BY DEF Replaced
<1>4. \A i \in 1..Len(E2) : Place(E2[i], c2, n2)
  BY <1>1, <1>2, <1>3 DEF Place, Alike
<1>5. Distinct(E2)
  BY <1>2, <1>3 DEF Identified, Distinct, Alike
<1> QED
  BY <1>4, <1>5 DEF Identified

LEMMA MirrorNew ==
  ASSUME NEW S, NEW T, NEW E, NEW E2, NEW r, Mirror(S, T, E), Appended(E2, E, r)
  PROVE  Mirror(S, T, E2)
<1>1. \A e \in 1..Len(E) : e \in 1..Len(E2) /\ E2[e] = E[e]
  BY DEF Appended
<1> QED
  BY <1>1 DEF Mirror, Agrees

LEMMA MirrorAgain ==
  ASSUME NEW S, NEW T, NEW E, NEW E2, NEW l, NEW r,
         Mirror(S, T, E), Replaced(E2, E, l, r), Alike(r, E[l])
  PROVE  Mirror(S, T, E2)
<1>1. \A e \in 1..Len(E) : e \in 1..Len(E2) /\ Alike(E2[e], E[e])
  BY DEF Replaced, Alike
<1> QED
  BY <1>1 DEF Mirror, Agrees, Alike

LEMMA MirrorDeclared ==
  ASSUME NEW S, NEW T, NEW E, NEW S2, NEW T2, NEW i, NEW x, NEW e, NEW name,
         Len(S) = Len(T), Mirror(S, T, E), Agrees(e, x, name, E),
         Declared(S2, S, i, x, e), Declared(T2, T, i, x, name)
  PROVE  Mirror(S2, T2, E)
<1>1. SUFFICES ASSUME NEW j \in 1..Len(S2), NEW y \in Name
               PROVE  Agrees(S2[j][y], y, T2[j][y], E)
  BY DEF Mirror
<1>2. j \in 1..Len(S) /\ j \in 1..Len(T)
  BY DEF Declared
<1>3. /\ S2[j][y] = IF j = i /\ y = x THEN e ELSE S[j][y]
      /\ T2[j][y] = IF j = i /\ y = x THEN name ELSE T[j][y]
  BY <1>2 DEF Declared
<1>4. Agrees(S[j][y], y, T[j][y], E)
  BY <1>2 DEF Mirror
<1> QED
  BY <1>3, <1>4

LEMMA MirrorOpened ==
  ASSUME NEW S, NEW T, NEW E, NEW S2, NEW T2, Len(S) = Len(T), Mirror(S, T, E),
         Opened(S2, S, Nothing), Opened(T2, T, Empty)
  PROVE  Mirror(S2, T2, E)
<1>1. SUFFICES ASSUME NEW j \in 1..Len(S2), NEW y \in Name
               PROVE  Agrees(S2[j][y], y, T2[j][y], E)
  BY DEF Mirror
<1>2. j \in 1..Len(S) \/ j = Len(S) + 1
  BY DEF Opened
<1>3. CASE j \in 1..Len(S)
  BY <1>3 DEF Opened, Mirror
<1>4. CASE j = Len(S) + 1
  BY <1>4 DEF Opened, Agrees, Nothing, Empty
<1> QED
  BY <1>2, <1>3, <1>4

LEMMA MirrorClosed ==
  ASSUME NEW S, NEW T, NEW E, NEW S2, NEW T2, Mirror(S, T, E),
         Closed(S2, S), Closed(T2, T), Len(S2) = Len(T2)
  PROVE  Mirror(S2, T2, E)
<1>1. \A j \in 1..Len(S2) : j \in 1..Len(S) /\ S2[j] = S[j] /\ T2[j] = T[j]
  BY DEF Closed
<1> QED
  BY <1>1 DEF Mirror

LEMMA LinkageStays ==
  ASSUME NEW E, NEW E2, NEW r, NEW x, Appended(E2, E, r)
  PROVE  HasLinkage(E2, x) <=> HasLinkage(E, x) \/ IsLinked(r, x)
<1>1. \A e \in 1..Len(E) : e \in 1..Len(E2) /\ E2[e] = E[e]
  BY DEF Appended
<1>2. \A e \in 1..Len(E2) : e \in 1..Len(E) \/ e = Len(E) + 1
  BY DEF Appended
<1>3. Len(E) + 1 \in 1..Len(E2) /\ E2[Len(E) + 1] = r
  BY DEF Appended
<1> QED
  BY <1>1, <1>2, <1>3 DEF HasLinkage

LEMMA LinkageStaysAgain ==
  ASSUME NEW E, NEW E2, NEW l, NEW r, NEW x, Replaced(E2, E, l, r), Alike(r, E[l])
  PROVE  HasLinkage(E2, x) <=> HasLinkage(E, x)
<1>1. Len(E2) = Len(E) /\ \A e \in 1..Len(E) : Alike(E2[e], E[e])
  BY DEF Replaced, Alike
<1> QED
  BY <1>1 DEF HasLinkage, IsLinked, Alike

(* The functions keep their linkage, but for one that is new.              *)
FunctionNew(F2, F, r) ==
  /\ \A f \in Fn : f # r.id \/ r.linkage = None => F2[f] = F[f]
  /\ r.id \in Fn /\ r.linkage # None => F2[r.id] = r.linkage

LEMMA FunctionsNew ==
  ASSUME NEW E, NEW E2, NEW r, NEW F, NEW F2,
         FunctionsMatch(E, F), Appended(E2, E, r), FunctionNew(F2, F, r),
         r.linkage = None \/ ~HasLinkage(E, r.id)
  PROVE  FunctionsMatch(E2, F2)
<1>1. SUFFICES ASSUME NEW f \in Fn
               PROVE  /\ F2[f] # None => HasLinkage(E2, f)
                      /\ \A e \in 1..Len(E2) : IsLinked(E2[e], f) => F2[f] = E2[e].linkage
  BY DEF FunctionsMatch
<1>2. /\ F[f] # None => HasLinkage(E, f)
      /\ \A e \in 1..Len(E) : IsLinked(E[e], f) => F[f] = E[e].linkage
  BY DEF FunctionsMatch
<1>3. HasLinkage(E2, f) <=> HasLinkage(E, f) \/ IsLinked(r, f)
  BY LinkageStays
<1>4. \A e \in 1..Len(E2) : \/ e \in 1..Len(E) /\ E2[e] = E[e]
                            \/ E2[e] = r
  BY DEF Appended
<1>5. CASE IsLinked(r, f)
  <2>1. f = r.id /\ r.linkage # None /\ ~HasLinkage(E, f)
    BY <1>5 DEF IsLinked
  <2>2. F2[f] = r.linkage
    BY <2>1 DEF FunctionNew
  <2>3. \A e \in 1..Len(E) : ~IsLinked(E[e], f)
    BY <2>1 DEF HasLinkage
  <2> QED
    BY <1>3, <1>4, <1>5, <2>2, <2>3
<1>6. CASE ~IsLinked(r, f)
  <2>1. F2[f] = F[f]
    BY <1>6 DEF IsLinked, FunctionNew
  <2> QED
    BY <1>2, <1>3, <1>4, <1>6, <2>1
<1> QED
  BY <1>5, <1>6

LEMMA FunctionsAgain ==
  ASSUME NEW E, NEW E2, NEW l, NEW r, NEW F,
         FunctionsMatch(E, F), Replaced(E2, E, l, r), Alike(r, E[l])
  PROVE  FunctionsMatch(E2, F)
<1>1. Len(E2) = Len(E) /\ \A e \in 1..Len(E) : Alike(E2[e], E[e])
  BY DEF Replaced, Alike
<1> QED
  BY <1>1 DEF FunctionsMatch, HasLinkage, IsLinked, Alike

(* The globals of the other names                                          *)
OthersStay(O2, O, x) ==
  \A name \in DOMAIN O \cup DOMAIN O2 : name.kind = "file" /\ name.id # x =>
    name \in DOMAIN O /\ name \in DOMAIN O2 /\ O2[name] = O[name]

FilesStay(O2, O) ==
  \A name \in DOMAIN O \cup DOMAIN O2 : name.kind = "file" =>
    name \in DOMAIN O /\ name \in DOMAIN O2 /\ O2[name] = O[name]

LEMMA CompletedStays ==
  ASSUME NEW O, NEW O2, NEW x, NEW entity,
         OthersStay(O2, O, x), Completed(entity, O), entity.id # x
  PROVE  Completed(entity, O2)
<1>1. FileName(entity.id).kind = "file" /\ FileName(entity.id).id = entity.id
  BY DEF FileName
<1>2. FileName(entity.id) \in DOMAIN O
  BY DEF Completed
<1>3. /\ FileName(entity.id) \in DOMAIN O2
      /\ O2[FileName(entity.id)] = O[FileName(entity.id)]
  BY <1>1, <1>2 DEF OthersStay
<1> QED
  BY <1>3 DEF Completed

LEMMA ObjectsNew ==
  ASSUME NEW E, NEW E2, NEW r, NEW O, NEW O2,
         ObjectsMatch(E, O), Appended(E2, E, r), OthersStay(O2, O, r.id),
         r.linkage # None, ~HasLinkage(E, r.id), r.id \in Id => Completed(r, O2)
  PROVE  ObjectsMatch(E2, O2)
<1>1. \A e \in 1..Len(E2) : \/ e \in 1..Len(E) /\ E2[e] = E[e]
                            \/ E2[e] = r
  BY DEF Appended
<1>2. ASSUME NEW x \in Id, NEW e \in 1..Len(E2), IsLinked(E2[e], x)
      PROVE  Completed(E2[e], O2)
  <2>1. CASE E2[e] = r
    BY <1>2, <2>1 DEF IsLinked
  <2>2. CASE e \in 1..Len(E) /\ E2[e] = E[e]
    <3>1. Completed(E[e], O) /\ E[e].id = x
      BY <1>2, <2>2 DEF ObjectsMatch, IsLinked
    <3>2. E[e].id # r.id
      BY <1>2, <2>2, <3>1 DEF HasLinkage
    <3> QED
      BY <2>2, <3>1, <3>2, CompletedStays
  <2> QED
    BY <1>1, <2>1, <2>2
<1>3. FilesAreLinked(E2, O2)
  <2>1. SUFFICES ASSUME NEW name \in DOMAIN O2, name.kind = "file"
                 PROVE  HasLinkage(E2, name.id)
    BY DEF FilesAreLinked
  <2>2. HasLinkage(E2, name.id) <=> HasLinkage(E, name.id) \/ IsLinked(r, name.id)
    BY LinkageStays
  <2>3. CASE name.id = r.id
    BY <2>2, <2>3 DEF IsLinked
  <2>4. CASE name.id # r.id
    <3>1. name \in DOMAIN O
      BY <2>1, <2>4 DEF OthersStay
    <3> QED
      BY <2>1, <2>2, <3>1 DEF ObjectsMatch, FilesAreLinked
  <2> QED
    BY <2>3, <2>4
<1> QED
  BY <1>2, <1>3 DEF ObjectsMatch

LEMMA ObjectsLocal ==
  ASSUME NEW E, NEW E2, NEW r, NEW O, NEW O2,
         ObjectsMatch(E, O), Appended(E2, E, r), FilesStay(O2, O), r.linkage = None
  PROVE  ObjectsMatch(E2, O2)
<1>1. \A e \in 1..Len(E2) : \/ e \in 1..Len(E) /\ E2[e] = E[e]
                            \/ E2[e] = r
  BY DEF Appended
<1>2. ASSUME NEW x \in Id, NEW e \in 1..Len(E2), IsLinked(E2[e], x)
      PROVE  Completed(E2[e], O2)
  <2>1. e \in 1..Len(E) /\ E2[e] = E[e]
    BY <1>1, <1>2 DEF IsLinked
  <2>2. Completed(E[e], O)
    BY <1>2, <2>1 DEF ObjectsMatch
  <2>3. FileName(E[e].id) \in DOMAIN O /\ FileName(E[e].id).kind = "file"
    BY <2>2 DEF Completed, FileName
  <2>4. FileName(E[e].id) \in DOMAIN O2 /\ O2[FileName(E[e].id)] = O[FileName(E[e].id)]
    BY <2>3 DEF FilesStay
  <2> QED
    BY <2>1, <2>2, <2>4 DEF Completed
<1>3. ASSUME NEW name \in DOMAIN O2, name.kind = "file"
      PROVE  HasLinkage(E2, name.id)
  <2>1. HasLinkage(E, name.id)
    BY <1>3 DEF ObjectsMatch, FilesAreLinked, FilesStay
  <2> QED
    BY <2>1, LinkageStays
<1> QED
  BY <1>2, <1>3 DEF ObjectsMatch, FilesAreLinked

LEMMA ObjectsAgain ==
  ASSUME NEW E, NEW E2, NEW l, NEW r, NEW c, NEW n, NEW O, NEW O2,
         Identified(E, c, n), ObjectsMatch(E, O), Replaced(E2, E, l, r), Alike(r, E[l]),
         r.linkage # None, OthersStay(O2, O, r.id), r.id \in Id => Completed(r, O2)
  PROVE  ObjectsMatch(E2, O2)
<1>1. Len(E2) = Len(E) /\ l \in 1..Len(E)
  BY DEF Replaced
<1>2. \A e \in 1..Len(E) : E2[e] = IF e = l THEN r ELSE E[e]
  BY DEF Replaced
<1>3. IsLinked(E[l], r.id)
  BY DEF Alike, IsLinked
<1>4. ASSUME NEW x \in Id, NEW e \in 1..Len(E), IsLinked(E2[e], x)
      PROVE  Completed(E2[e], O2)
  <2>1. CASE e = l
    BY <1>2, <1>4, <2>1 DEF IsLinked
  <2>2. CASE e # l
    <3>1. E2[e] = E[e] /\ IsLinked(E[e], x) /\ Completed(E[e], O)
      BY <1>2, <1>4, <2>2 DEF ObjectsMatch
    <3>2. x # r.id
      BY <1>1, <1>3, <2>2, <3>1, OneIsLinked
    <3>3. E[e].id = x
      BY <3>1 DEF IsLinked
    <3> QED
      BY <3>1, <3>2, <3>3, CompletedStays
  <2> QED
    BY <2>1, <2>2
<1>5. ASSUME NEW name \in DOMAIN O2, name.kind = "file"
      PROVE  HasLinkage(E2, name.id)
  <2>1. HasLinkage(E2, name.id) <=> HasLinkage(E, name.id)
    BY LinkageStaysAgain
  <2>2. CASE name.id = r.id
    BY <1>1, <1>3, <2>1, <2>2 DEF HasLinkage
  <2>3. CASE name.id # r.id
    <3>1. name \in DOMAIN O
      BY <1>5, <2>3 DEF OthersStay
    <3> QED
      BY <1>5, <2>1, <3>1 DEF ObjectsMatch, FilesAreLinked
  <2> QED
    BY <2>2, <2>3
<1> QED
  BY <1>1, <1>4, <1>5 DEF ObjectsMatch, FilesAreLinked

-----------------------------------------------------------------------------
(* The three ways to declare something                                     *)

(* An entity with linkage that is new                                      *)
LEMMA MatchedNew ==
  ASSUME NEW E, NEW S, NEW T, NEW F, NEW O, NEW c, NEW n,
         NEW E2, NEW S2, NEW T2, NEW F2, NEW O2, NEW c2, NEW n2,
         NEW r \in AnyEntity, NEW i, NEW name,
         Matched(E, S, T, F, O, c, n), Len(S) = Len(T),
         Later(c2, n2, c, n), Appended(E2, E, r), ~HasLinkage(E, r.id),
         r.linkage # None, Place(r, c2, n2), r.kind = "object" => name = FileName(r.id),
         Declared(S2, S, i, r.id, Len(E) + 1), Declared(T2, T, i, r.id, name),
         FunctionNew(F2, F, r), OthersStay(O2, O, r.id), r.id \in Id => Completed(r, O2)
  PROVE  Matched(E2, S2, T2, F2, O2, c2, n2)
<1>1. Identified(E, c, n) /\ Mirror(S, T, E) /\ FunctionsMatch(E, F) /\ ObjectsMatch(E, O)
  BY DEF Matched
<1>2. Identified(E2, c2, n2)
  <2>1. r.object = FileName(r.id)
    BY DEF Place
  <2>2. ASSUME NEW e \in 1..Len(E), E[e].object = r.object
        PROVE  FALSE
    <3>1. Place(E[e], c, n) /\ ~IsLinked(E[e], r.id)
      BY <1>1 DEF Identified, HasLinkage
    <3>2. r.object.kind = "file" /\ r.object.id = r.id
      BY <2>1 DEF FileName
    <3>3. CASE E[e].linkage = None
      BY <2>2, <3>1, <3>2, <3>3 DEF Place, Behind
    <3>4. CASE E[e].linkage # None
      <4>1. E[e].object = FileName(E[e].id)
        BY <3>1, <3>4 DEF Place
      <4>2. E[e].id = r.id
        BY <2>1, <2>2, <4>1 DEF FileName
      <4> QED
        BY <3>1, <3>4, <4>2 DEF IsLinked
    <3> QED
      BY <3>3, <3>4
  <2> QED
    BY <1>1, <2>2, IdentifiedNew
<1>3. Mirror(S2, T2, E2)
  <2>1. Mirror(S, T, E2)
    BY <1>1, MirrorNew
  <2>2. Agrees(Len(E) + 1, r.id, name, E2)
    <3>1. Len(E) + 1 \in 1..Len(E2) /\ Len(E) + 1 # 0 /\ E2[Len(E) + 1] = r
      BY DEF Appended
    <3>2. r.object = FileName(r.id)
      BY DEF Place
    <3> QED
      BY <3>1, <3>2 DEF Agrees
  <2> QED
    BY <2>1, <2>2, MirrorDeclared
<1>4. FunctionsMatch(E2, F2)
  BY <1>1, FunctionsNew
<1>5. ObjectsMatch(E2, O2)
  BY <1>1, ObjectsNew
<1> QED
  BY <1>2, <1>3, <1>4, <1>5 DEF Matched

(* One that the unit has                                                   *)
LEMMA MatchedAgain ==
  ASSUME NEW E, NEW S, NEW T, NEW F, NEW O, NEW c, NEW n,
         NEW E2, NEW S2, NEW T2, NEW O2, NEW c2, NEW n2,
         NEW r \in AnyEntity, NEW l, NEW i, NEW name,
         Matched(E, S, T, F, O, c, n), Len(S) = Len(T),
         Later(c2, n2, c, n), Replaced(E2, E, l, r), Alike(r, E[l]),
         r.linkage # None, r.kind = "object" => name = FileName(r.id),
         Declared(S2, S, i, r.id, l), Declared(T2, T, i, r.id, name),
         OthersStay(O2, O, r.id), r.id \in Id => Completed(r, O2)
  PROVE  Matched(E2, S2, T2, F, O2, c2, n2)
<1>1. Identified(E, c, n) /\ Mirror(S, T, E) /\ FunctionsMatch(E, F) /\ ObjectsMatch(E, O)
  BY DEF Matched
<1>2. Identified(E2, c2, n2)
  BY <1>1, IdentifiedAgain
<1>3. Mirror(S2, T2, E2)
  <2>1. Mirror(S, T, E2)
    BY <1>1, MirrorAgain
  <2>2. Agrees(l, r.id, name, E2)
    <3>1. l \in 1..Len(E2) /\ l # 0 /\ E2[l] = r
      BY DEF Replaced
    <3>2. r.object = FileName(r.id)
      BY <1>1 DEF Identified, Place, Replaced, Alike
    <3> QED
      BY <3>1, <3>2 DEF Agrees
  <2> QED
    BY <2>1, <2>2, MirrorDeclared
<1>4. FunctionsMatch(E2, F)
  BY <1>1, FunctionsAgain
<1>5. ObjectsMatch(E2, O2)
  BY <1>1, ObjectsAgain
<1> QED
  BY <1>2, <1>3, <1>4, <1>5 DEF Matched

(* An object without linkage                                               *)
LEMMA MatchedLocal ==
  ASSUME NEW E, NEW S, NEW T, NEW F, NEW O, NEW c, NEW n,
         NEW E2, NEW S2, NEW T2, NEW O2, NEW c2, NEW n2,
         NEW r \in AnyEntity, NEW i,
         Matched(E, S, T, F, O, c, n), Len(S) = Len(T),
         Later(c2, n2, c, n), Appended(E2, E, r),
         r.linkage = None, Place(r, c2, n2), ~Behind(r.object, c, n),
         Declared(S2, S, i, r.id, Len(E) + 1), Declared(T2, T, i, r.id, r.object),
         FilesStay(O2, O)
  PROVE  Matched(E2, S2, T2, F, O2, c2, n2)
<1>1. Identified(E, c, n) /\ Mirror(S, T, E) /\ FunctionsMatch(E, F) /\ ObjectsMatch(E, O)
  BY DEF Matched
<1>2. Identified(E2, c2, n2)
  <2>1. Behind(r.object, c2, n2)
    BY DEF Place
  <2>2. ASSUME NEW e \in 1..Len(E), E[e].object = r.object
        PROVE  FALSE
    <3>1. Place(E[e], c, n)
      BY <1>1 DEF Identified
    <3>2. CASE E[e].linkage = None
      BY <2>2, <3>1, <3>2 DEF Place
    <3>3. CASE E[e].linkage # None
      <4>1. E[e].object.kind = "file"
        BY <3>1, <3>3 DEF Place, FileName
      <4> QED
        BY <2>1, <2>2, <4>1 DEF Behind
    <3> QED
      BY <3>2, <3>3
  <2> QED
    BY <1>1, <2>2, IdentifiedNew
<1>3. Mirror(S2, T2, E2)
  <2>1. Mirror(S, T, E2)
    BY <1>1, MirrorNew
  <2>2. Agrees(Len(E) + 1, r.id, r.object, E2)
    <3>1. Len(E) + 1 \in 1..Len(E2) /\ Len(E) + 1 # 0 /\ E2[Len(E) + 1] = r
      BY DEF Appended
    <3> QED
      BY <3>1 DEF Agrees
  <2> QED
    BY <2>1, <2>2, MirrorDeclared
<1>4. FunctionsMatch(E2, F)
  <2>1. FunctionNew(F, F, r)
    BY DEF FunctionNew
  <2> QED
    BY <1>1, <2>1, FunctionsNew
<1>5. ObjectsMatch(E2, O2)
  BY <1>1, ObjectsLocal
<1> QED
  BY <1>2, <1>3, <1>4, <1>5 DEF Matched

-----------------------------------------------------------------------------
(* What the actions have in common                                         *)

LEMMA Offers ==
  ASSUME TypeOK, NEW shape, CanDeclare(shape)
  PROVE  shape \in Shapes /\ status = "open" /\ count < MaxDecls
BY PlainAreShapes DEF CanDeclare, Offered

LEMMA Counted ==
  ASSUME TypeOK, NEW shape, CanDeclare(shape), Count(shape)
  PROVE  count' \in Nat /\ count < count'
<1>1. count \in Nat /\ MaxDecls \in Nat /\ count < MaxDecls
  BY Offers, BoundsAreNat DEF TypeOK
<1> QED
  BY <1>1 DEF Count

(* What a name stands for has that name.                                   *)
LEMMA MeantFacts ==
  ASSUME TypeOK, Matching, NEW x \in Name, Meant(x) # 0
  PROVE  Meant(x) \in 1..Len(entities) /\ entities[Meant(x)].id = x
<1>1. PICK i \in 1..Len(scopes) : scopes[i][x] = Meant(x)
  BY MeantIsInnermost
<1>2. Agrees(scopes[i][x], x, symbolTable[i][x], entities)
  BY DEF Matching, Matched, Mirror
<1> QED
  BY <1>1, <1>2 DEF Agrees

LEMMA LinkageFacts ==
  ASSUME TypeOK, Matching, NEW x \in Name, NEW storage, NEW isFn
  PROVE  /\ Linkage(x, storage, isFn) \in {"internal", "external"}
         /\ ~HasLinkage(entities, x) =>
              Linkage(x, storage, isFn) = IF storage = "static" THEN "internal" ELSE "external"
<1>1. ASSUME Meant(x) # 0, entities[Meant(x)].linkage # None
      PROVE  /\ HasLinkage(entities, x)
             /\ entities[Meant(x)].linkage \in {"internal", "external"}
  <2>1. Meant(x) \in 1..Len(entities) /\ entities[Meant(x)].id = x
    BY <1>1, MeantFacts
  <2>2. entities[Meant(x)] \in AnyEntity
    BY <2>1, ElementOfSeq DEF TypeOK
  <2> QED
    BY <1>1, <2>1, <2>2 DEF HasLinkage, IsLinked, AnyEntity, LinkageOrNone
<1> QED
  BY <1>1 DEF Linkage

(* What DeclareLinked makes of an entity                                   *)
Completes(r, old, value, initialized, departs) ==
  /\ r.value = IF initialized \/ (value # << >> /\ ~old.initialized) THEN value ELSE old.value
  /\ r.initialized <=> old.initialized \/ initialized
  /\ r.departs <=> old.departs \/ departs
  /\ r.type = old.type

LEMMA LinkedDeclared ==
  ASSUME TypeOK, NEW x \in Name, NEW kind \in {"object", "fn"},
         NEW t \in {TypeIn(shape) : shape \in Shapes},
         NEW linkage \in {"internal", "external"}, NEW value \in CValue,
         NEW initialized \in BOOLEAN, NEW departs \in BOOLEAN,
         AgreesWith(x, kind, t, linkage),
         DeclareLinked(x, kind, t, linkage, value, initialized, departs)
  PROVE  /\ entities' \in Seq(AnyEntity)
         /\ scopes' \in Seq(CScope) /\ Len(scopes') = Len(scopes)
         /\ \/ /\ ~HasLinkage(entities, x)
               /\ LET r == Entity(x, kind, t, linkage, value, initialized, departs, FileName(x))
                  IN  r \in AnyEntity /\ Appended(entities', entities, r)
               /\ Declared(scopes', scopes, Len(scopes), x, Len(entities) + 1)
            \/ \E l \in 1..Len(entities), r \in AnyEntity :
                 /\ IsLinked(entities[l], x)
                 /\ entities[l].kind = kind /\ entities[l].linkage = linkage
                 /\ entities[l].type = t
                 /\ Replaced(entities', entities, l, r) /\ Alike(r, entities[l])
                 /\ Completes(r, entities[l], value, initialized, departs)
                 /\ Declared(scopes', scopes, Len(scopes), x, l)
<1>1. entities \in Seq(AnyEntity) /\ Len(entities) \in Nat
  BY LenProperties DEF TypeOK
<1>2. scopes \in Seq(CScope) /\ Len(scopes) \in 1..Len(scopes)
  <2>1. scopes \in Seq(CScope) /\ Len(scopes) > 0
    BY DEF TypeOK, Stacks
  <2>2. Len(scopes) \in Nat
    BY <2>1, LenProperties
  <2> QED
    BY <2>1, <2>2
<1>3. ASSUME NEW e \in Nat, Means(x, e)
      PROVE  /\ scopes' \in Seq(CScope) /\ Len(scopes') = Len(scopes)
             /\ Declared(scopes', scopes, Len(scopes), x, e)
  <2>1. scopes' = [scopes EXCEPT ![Len(scopes)][x] = e]
    BY <1>3 DEF Means
  <2>2. /\ [scopes EXCEPT ![Len(scopes)][x] = e] \in Seq([Name -> Nat])
        /\ Declared([scopes EXCEPT ![Len(scopes)][x] = e], scopes, Len(scopes), x, e)
    BY <1>2, DeclaredName DEF CScope
  <2> QED
    BY <2>1, <2>2 DEF Declared, CScope
<1>4. CASE Linked(x) = 0
  <2> DEFINE r == Entity(x, kind, t, linkage, value, initialized, departs, FileName(x))
  <2>1. ~HasLinkage(entities, x)
    BY <1>4, LinkedFacts
  <2>2. r \in AnyEntity
    <3>1. FileName(x) \in Denoted
      BY DEF FileName, Denoted, ObjectName
    <3>2. linkage \in LinkageOrNone
      BY DEF LinkageOrNone
    <3> QED
      BY <3>1, <3>2 DEF Entity, AnyEntity
  <2>3. entities' = Append(entities, r) /\ Means(x, Len(entities) + 1)
    BY <1>4 DEF DeclareLinked
  <2> HIDE DEF r
  <2>4. entities' \in Seq(AnyEntity) /\ Appended(entities', entities, r)
    BY <1>1, <2>2, <2>3, AppendedEntity
  <2>5. Len(entities) + 1 \in Nat
    BY <1>1
  <2>6. /\ scopes' \in Seq(CScope) /\ Len(scopes') = Len(scopes)
        /\ Declared(scopes', scopes, Len(scopes), x, Len(entities) + 1)
    BY <1>3, <2>3, <2>5
  <2> QED
    BY <2>1, <2>2, <2>4, <2>6 DEF r
<1>5. CASE Linked(x) # 0
  <2> DEFINE l == Linked(x)
             old == entities[l]
             r == [old EXCEPT !.value = IF initialized \/ (value # << >> /\ ~old.initialized)
                                        THEN value ELSE @,
                              !.initialized = @ \/ initialized,
                              !.departs = @ \/ departs]
  <2>1. l \in 1..Len(entities) /\ IsLinked(old, x)
    BY <1>5, LinkedFacts
  <2>2. old \in AnyEntity
    BY <1>1, <2>1, ElementOfSeq
  <2>3. entities' = [entities EXCEPT ![l] = r] /\ Means(x, l)
    BY <1>5 DEF DeclareLinked
  <2>4. old.kind = kind /\ old.linkage = linkage /\ old.type = t
    BY <1>5 DEF AgreesWith
  <2>5. r \in AnyEntity /\ Alike(r, old) /\ Completes(r, old, value, initialized, departs)
    <3> HIDE DEF old, l
    <3> QED
      BY <2>2 DEF AnyEntity, Alike, Completes
  <2> HIDE DEF r, l
  <2>6. entities' \in Seq(AnyEntity) /\ Replaced(entities', entities, l, r)
    BY <1>1, <2>1, <2>3, <2>5, ReplacedEntity
  <2>7. l \in Nat
    BY <1>1, <2>1
  <2>8. /\ scopes' \in Seq(CScope) /\ Len(scopes') = Len(scopes)
        /\ Declared(scopes', scopes, Len(scopes), x, l)
    BY <1>3, <2>3, <2>7
  <2> QED
    BY <2>1, <2>4, <2>5, <2>6, <2>8
<1> QED
  BY <1>4, <1>5

(* One object is made or changed.                                          *)
OnlyAt(O2, O, name) ==
  /\ name \in DOMAIN O2
  /\ \A m \in DOMAIN O \cup DOMAIN O2 : m # name =>
       m \in DOMAIN O /\ m \in DOMAIN O2 /\ O2[m] = O[m]

LEMMA PutFacts ==
  ASSUME NEW O, Objects(O), NEW name \in ObjectName, NEW object \in GlobalObject
  PROVE  /\ Objects(Put(O, name, object))
         /\ OnlyAt(Put(O, name, object), O, name)
         /\ Put(O, name, object)[name] = object
<1> DEFINE O2 == Put(O, name, object)
<1>1. O2 = [m \in DOMAIN O \cup {name} |-> IF m = name THEN object ELSE O[m]]
  BY DEF Put
<1>2. DOMAIN O2 = DOMAIN O \cup {name}
  BY <1>1
<1>3. \A m \in DOMAIN O2 : O2[m] = IF m = name THEN object ELSE O[m]
  BY <1>1
<1>4. \A m \in DOMAIN O2 : O2[m] \in GlobalObject
  BY <1>2, <1>3 DEF Objects
<1>5. O2 \in [DOMAIN O2 -> GlobalObject]
  BY <1>1, <1>2, <1>4
<1>6. DOMAIN O2 \subseteq ObjectName
  BY <1>2 DEF Objects
<1> HIDE DEF O2
<1>7. OnlyAt(O2, O, name)
  BY <1>2, <1>3 DEF OnlyAt
<1>8. O2[name] = object
  BY <1>2, <1>3
<1> QED
  BY <1>5, <1>6, <1>7, <1>8 DEF Objects, O2

LEMMA RedeclareFacts ==
  ASSUME Objects(objects), NEW name, Known(name), NEW shape, NEW value \in GlobalValue
  PROVE  /\ Objects(Redeclare(name, shape, value))
         /\ OnlyAt(Redeclare(name, shape, value), objects, name)
         /\ Redeclare(name, shape, value)[name].linkage = objects[name].linkage
         /\ Redeclare(name, shape, value)[name].initializer =
              IF HasInit(shape) \/ objects[name].initializer = << >> THEN value
              ELSE objects[name].initializer
<1> DEFINE O2 == [objects EXCEPT ![name].initializer = value]
<1>1. /\ objects \in [DOMAIN objects -> GlobalObject] /\ DOMAIN objects \subseteq ObjectName
      /\ name \in DOMAIN objects /\ objects[name] \in GlobalObject
  BY DEF Objects, Known
<1>2. /\ [objects[name] EXCEPT !.initializer = value] \in GlobalObject
      /\ [objects[name] EXCEPT !.initializer = value].linkage = objects[name].linkage
      /\ [objects[name] EXCEPT !.initializer = value].initializer = value
  BY <1>1 DEF GlobalObject
<1>3. O2 = [objects EXCEPT ![name] = [objects[name] EXCEPT !.initializer = value]]
  OBVIOUS
<1>4. /\ DOMAIN O2 = DOMAIN objects /\ O2 \in [DOMAIN objects -> GlobalObject]
      /\ \A m \in DOMAIN objects : m # name => O2[m] = objects[m]
      /\ O2[name].linkage = objects[name].linkage /\ O2[name].initializer = value
  BY <1>1, <1>2, <1>3
<1>5. Redeclare(name, shape, value) =
        IF HasInit(shape) \/ objects[name].initializer = << >> THEN O2 ELSE objects
  BY DEF Redeclare
<1> HIDE DEF O2
<1>6. CASE HasInit(shape) \/ objects[name].initializer = << >>
  BY <1>1, <1>4, <1>5, <1>6 DEF Objects, OnlyAt
<1>7. CASE ~(HasInit(shape) \/ objects[name].initializer = << >>)
  BY <1>1, <1>5, <1>7 DEF Objects, OnlyAt
<1> QED
  BY <1>6, <1>7

LEMMA PushFacts ==
  ASSUME TypeOK, NEW x \in Name, NEW name \in ObjectName, symbolTablePush(x, name)
  PROVE  /\ symbolTable' \in Seq(SymbolScope) /\ Len(symbolTable') = Len(symbolTable)
         /\ Declared(symbolTable', symbolTable, Len(scopes), x, name)
         /\ symbolTable'[Len(symbolTable)][x] = name
<1>1. /\ symbolTable \in Seq([Name -> Denoted])
      /\ Len(symbolTable) = Len(scopes) /\ Len(symbolTable) > 0
  BY DEF TypeOK, Stacks, SymbolScope
<1>2. Len(symbolTable) \in Nat
  BY <1>1, LenProperties
<1>3. Len(symbolTable) \in 1..Len(symbolTable) /\ name \in Denoted
  BY <1>1, <1>2 DEF Denoted
<1>4. symbolTable' = [symbolTable EXCEPT ![Len(symbolTable)][x] = name]
  BY DEF symbolTablePush
<1>5. /\ [symbolTable EXCEPT ![Len(symbolTable)][x] = name] \in Seq([Name -> Denoted])
      /\ Declared([symbolTable EXCEPT ![Len(symbolTable)][x] = name],
                  symbolTable, Len(symbolTable), x, name)
  BY <1>1, <1>3, DeclaredName
<1> QED
  BY <1>1, <1>3, <1>4, <1>5 DEF Declared, SymbolScope

LEMMA StopKeepsIInv ==
  ASSUME TypeOK, NEW shape, CanDeclare(shape), Count(shape),
         NEW reason \in {"rejected", "undefined"}, Stop(reason),
         entities' \in Seq(AnyEntity), scopes' \in Seq(CScope), Len(scopes') = Len(scopes),
         excused' \in BOOLEAN
  PROVE  IInv'
<1>1. count' \in Nat
  BY Counted
<1>2. Stacks(scopes', symbolTable')
  BY DEF Stop, TypeOK, Stacks
<1>3. TypeOK'
  BY <1>1, <1>2 DEF TypeOK, Stop
<1>4. status' # "open"
  BY DEF Stop
<1> QED
  BY <1>3, <1>4 DEF IInv

(* The outcome of an initializer is one of the values of a global.         *)
LEMMA OutcomeIsValue ==
  ASSUME NEW result \in Outcome, result.outcome \notin {"thrown", "undefined"}
  PROVE  result.value \in GlobalValue
BY DEF GlobalValue

LEMMA StaticOutcome ==
  ASSUME NEW shape \in Shapes, NEW hasExtern \in BOOLEAN
  PROVE  StaticInit(shape, hasExtern) \in Outcome
BY DEF Outcome

LEMMA CValues ==
  ASSUME NEW shape \in Shapes, NEW isStatic \in BOOLEAN
  PROVE  ValueInC(shape, isStatic) \in CValue /\ ValueInC(shape, isStatic) # << >>
BY ValuesHaveScalars DEF CValue

LEMMA FileNames ==
  ASSUME NEW x \in Name
  PROVE  FileName(x) \in ObjectName /\ FileName(x).kind = "file" /\ FileName(x).id = x
BY DEF FileName, ObjectName

LEMMA FilesAt ==
  ASSUME NEW O, NEW O2, NEW name, OnlyAt(O2, O, name), name.kind # "file"
  PROVE  FilesStay(O2, O)
BY DEF OnlyAt, FilesStay

LEMMA OthersAt ==
  ASSUME NEW O, NEW O2, NEW x \in Name, OnlyAt(O2, O, FileName(x))
  PROVE  OthersStay(O2, O, x)
BY FileNames DEF OnlyAt, OthersStay

-----------------------------------------------------------------------------
(* Declarations at file scope                                              *)

(* What C gives an object that is declared at file scope                   *)
StaticInC(shape, storage) ==
  IF ~HasInit(shape) /\ storage = "extern" THEN << >> ELSE ValueInC(shape, TRUE)

LEMMA FileObjectFacts ==
  ASSUME IInv, NEW x \in Id, NEW storage \in Storage, NEW shape \in Offered,
         CheckFileObject(x, storage, shape)
  PROVE  /\ TypeOK /\ status = "open" /\ shape \in Shapes /\ Matching /\ x \in Name
         /\ Linkage(x, storage, FALSE) \in {"internal", "external"}
         /\ ~HasLinkage(entities, x) =>
              Linkage(x, storage, FALSE) = IF storage = "static" THEN "internal" ELSE "external"
         /\ StaticInC(shape, storage) \in CValue
         /\ HasInit(shape) \in BOOLEAN /\ IsDeparture(shape, TRUE) \in BOOLEAN
<1>1. CanDeclare(shape)
  BY DEF CheckFileObject
<1>2. TypeOK /\ status = "open" /\ shape \in Shapes /\ Matching /\ x \in Name
  BY <1>1, Offers DEF IInv, Name
<1>3. /\ Linkage(x, storage, FALSE) \in {"internal", "external"}
      /\ ~HasLinkage(entities, x) =>
           Linkage(x, storage, FALSE) = IF storage = "static" THEN "internal" ELSE "external"
  <2> DEFINE no == FALSE
  <2> HIDE DEF no
  <2>1. /\ Linkage(x, storage, no) \in {"internal", "external"}
        /\ ~HasLinkage(entities, x) =>
             Linkage(x, storage, no) = IF storage = "static" THEN "internal" ELSE "external"
    BY <1>2, LinkageFacts
  <2> QED
    BY <2>1 DEF no
<1>4. StaticInC(shape, storage) \in CValue
  <2>1. ValueInC(shape, TRUE) \in CValue
    BY <1>2, CValues, Zenon
  <2>2. << >> \in CValue
    BY DEF CValue
  <2> QED
    BY <2>1, <2>2 DEF StaticInC
<1>5. HasInit(shape) \in BOOLEAN /\ IsDeparture(shape, TRUE) \in BOOLEAN
  BY <1>2, HasInitIsTruth, IsDepartureIsTruth
<1> QED
  BY <1>2, <1>3, <1>4, <1>5

(* It is a new entity, or one that there is.                               *)
LEMMA FileObjectDeclares ==
  ASSUME IInv, NEW x \in Id, NEW storage \in Storage, NEW shape \in Offered,
         CheckFileObject(x, storage, shape)
  PROVE  LET linkage == Linkage(x, storage, FALSE)
             value   == StaticInC(shape, storage)
             departs == IsDeparture(shape, TRUE)
         IN  /\ entities' \in Seq(AnyEntity)
             /\ scopes' \in Seq(CScope) /\ Len(scopes') = Len(scopes)
             /\ \/ /\ ~HasLinkage(entities, x)
                   /\ LET r == Entity(x, "object", TypeIn(shape), linkage, value, HasInit(shape),
                                      departs, FileName(x))
                      IN  r \in AnyEntity /\ Appended(entities', entities, r)
                   /\ Declared(scopes', scopes, Len(scopes), x, Len(entities) + 1)
                \/ \E l \in 1..Len(entities), r \in AnyEntity :
                     /\ IsLinked(entities[l], x)
                     /\ entities[l].kind = "object" /\ entities[l].linkage = linkage
                     /\ entities[l].type = TypeIn(shape)
                     /\ Replaced(entities', entities, l, r) /\ Alike(r, entities[l])
                     /\ Completes(r, entities[l], value, HasInit(shape), departs)
                     /\ Declared(scopes', scopes, Len(scopes), x, l)
<1> DEFINE linkage == Linkage(x, storage, FALSE)
           value   == StaticInC(shape, storage)
           departs == IsDeparture(shape, TRUE)
<1>1. /\ AgreesWith(x, "object", TypeIn(shape), linkage)
      /\ DeclareLinked(x, "object", TypeIn(shape), linkage, value, HasInit(shape), departs)
  BY DEF CheckFileObject, StaticInC
<1>2. TypeOK /\ shape \in Shapes /\ x \in Name
  BY FileObjectFacts
<1>3. /\ linkage \in {"internal", "external"} /\ value \in CValue
      /\ HasInit(shape) \in BOOLEAN /\ departs \in BOOLEAN
  BY FileObjectFacts
<1>4. TypeIn(shape) \in {TypeIn(s) : s \in Shapes}
  BY <1>2
<1> HIDE DEF linkage, value, departs
<1> SUFFICES
      /\ entities' \in Seq(AnyEntity)
      /\ scopes' \in Seq(CScope) /\ Len(scopes') = Len(scopes)
      /\ \/ /\ ~HasLinkage(entities, x)
            /\ LET r == Entity(x, "object", TypeIn(shape), linkage, value, HasInit(shape),
                               departs, FileName(x))
               IN  r \in AnyEntity /\ Appended(entities', entities, r)
            /\ Declared(scopes', scopes, Len(scopes), x, Len(entities) + 1)
         \/ \E l \in 1..Len(entities), r \in AnyEntity :
              /\ IsLinked(entities[l], x)
              /\ entities[l].kind = "object" /\ entities[l].linkage = linkage
              /\ entities[l].type = TypeIn(shape)
              /\ Replaced(entities', entities, l, r) /\ Alike(r, entities[l])
              /\ Completes(r, entities[l], value, HasInit(shape), departs)
              /\ Declared(scopes', scopes, Len(scopes), x, l)
  BY DEF linkage, value, departs
<1> QED
  BY <1>1, <1>2, <1>3, <1>4, LinkedDeclared

(* The global of the name is made, or completed, and nothing else changes. *)
LEMMA FileObjectMakes ==
  ASSUME IInv, NEW x \in Id, NEW storage \in Storage, NEW shape \in Offered,
         CheckFileObject(x, storage, shape), StaticObject(x, storage, shape),
         ~Stop("rejected"), ~Stop("undefined")
  PROVE  LET init == StaticInit(shape, storage = "extern")
             name == FileName(x)
         IN  /\ init.outcome \notin {"thrown", "undefined"} /\ ~Mismatch(shape)
             /\ init.value = << >> <=> ~HasInit(shape) /\ storage = "extern"
             /\ symbolTablePush(x, name) /\ UNCHANGED <<functions, counter, current, status>>
             /\ Objects(objects') /\ OnlyAt(objects', objects, name)
             /\ Known(name) =>
                  /\ objects'[name].linkage = objects[name].linkage
                  /\ objects'[name].initializer =
                       IF HasInit(shape) \/ objects[name].initializer = << >> THEN init.value
                       ELSE objects[name].initializer
             /\ ~Known(name) =>
                  /\ objects'[name].linkage = IF storage = "static" THEN "internal" ELSE "external"
                  /\ objects'[name].initializer = init.value
<1> DEFINE init == StaticInit(shape, storage = "extern")
           name == FileName(x)
<1>1. TypeOK /\ shape \in Shapes /\ x \in Name /\ isGlobal
  BY FileObjectFacts DEF CheckFileObject
<1>2. /\ init.outcome \notin {"thrown", "undefined"} /\ ~Mismatch(shape)
      /\ objects' = IF Known(name) THEN Redeclare(name, shape, init.value)
                    ELSE Put(objects, name,
                             Object(IF storage = "static" THEN "internal" ELSE "external", init.value))
      /\ symbolTablePush(x, name) /\ UNCHANGED <<functions, counter, current, status>>
  BY <1>1 DEF StaticObject
<1>3. init.value \in GlobalValue /\ (init.value = << >> <=> ~HasInit(shape) /\ storage = "extern")
  <2>1. init \in Outcome
    BY <1>1, StaticOutcome
  <2>2. init.value \in GlobalValue
    BY <1>2, <2>1, OutcomeIsValue
  <2>3. init.value = << >> <=> ~HasInit(shape) /\ storage = "extern"
    BY <1>1, <1>2, OnlyExternHasNoInit
  <2> QED
    BY <2>2, <2>3
<1>4. name \in ObjectName
  BY <1>1, FileNames
<1> HIDE DEF init, name
<1>5. Objects(objects)
  BY <1>1 DEF TypeOK
<1>6. /\ Objects(objects') /\ OnlyAt(objects', objects, name)
      /\ Known(name) =>
           /\ objects'[name].linkage = objects[name].linkage
           /\ objects'[name].initializer =
                IF HasInit(shape) \/ objects[name].initializer = << >> THEN init.value
                ELSE objects[name].initializer
      /\ ~Known(name) =>
           /\ objects'[name].linkage = IF storage = "static" THEN "internal" ELSE "external"
           /\ objects'[name].initializer = init.value
  <2>1. CASE Known(name)
    BY <1>2, <1>3, <1>5, <2>1, RedeclareFacts
  <2>2. CASE ~Known(name)
    <3> DEFINE object == Object(IF storage = "static" THEN "internal" ELSE "external", init.value)
    <3>1. /\ object \in GlobalObject /\ object.initializer = init.value
          /\ object.linkage = IF storage = "static" THEN "internal" ELSE "external"
      BY <1>3 DEF Object, GlobalObject, LinkageOrNone
    <3>2. objects' = Put(objects, name, object)
      BY <1>2, <2>2
    <3> HIDE DEF object
    <3> QED
      BY <1>4, <1>5, <2>2, <3>1, <3>2, PutFacts
  <2> QED
    BY <2>1, <2>2
<1> SUFFICES
      /\ init.outcome \notin {"thrown", "undefined"} /\ ~Mismatch(shape)
      /\ init.value = << >> <=> ~HasInit(shape) /\ storage = "extern"
      /\ symbolTablePush(x, name) /\ UNCHANGED <<functions, counter, current, status>>
      /\ Objects(objects') /\ OnlyAt(objects', objects, name)
      /\ Known(name) =>
           /\ objects'[name].linkage = objects[name].linkage
           /\ objects'[name].initializer =
                IF HasInit(shape) \/ objects[name].initializer = << >> THEN init.value
                ELSE objects[name].initializer
      /\ ~Known(name) =>
           /\ objects'[name].linkage = IF storage = "static" THEN "internal" ELSE "external"
           /\ objects'[name].initializer = init.value
  BY DEF init, name
<1> QED
  BY <1>2, <1>3, <1>6

LEMMA FileObjectStep ==
  ASSUME IInv, NEW x \in Id, NEW storage \in Storage, NEW shape \in Offered,
         CheckFileObject(x, storage, shape)
  PROVE  IInv'
<1> DEFINE linkage == Linkage(x, storage, FALSE)
           value == StaticInC(shape, storage)
           departs == IsDeparture(shape, TRUE)
           init == StaticInit(shape, storage = "extern")
<1>1. /\ CanDeclare(shape) /\ (StaticObject(x, storage, shape) \/ IncompatibleInit(shape))
      /\ excused' = departs
  BY DEF CheckFileObject
<1>2. TypeOK /\ status = "open" /\ shape \in Shapes /\ Matching /\ x \in Name
  BY FileObjectFacts
<1>3. /\ linkage \in {"internal", "external"}
      /\ ~HasLinkage(entities, x) =>
           linkage = IF storage = "static" THEN "internal" ELSE "external"
  BY FileObjectFacts
<1>4. /\ value \in CValue /\ (value = << >> <=> ~HasInit(shape) /\ storage = "extern")
      /\ HasInit(shape) \in BOOLEAN /\ departs \in BOOLEAN
  <2>1. value \in CValue
    BY FileObjectFacts
  <2>2. value = << >> <=> ~HasInit(shape) /\ storage = "extern"
    <3>1. ValueInC(shape, TRUE) # << >>
      BY <1>2, CValues, Zenon
    <3> QED
      BY <3>1 DEF StaticInC
  <2>3. HasInit(shape) \in BOOLEAN
    BY FileObjectFacts
  <2>4. departs \in BOOLEAN
    BY FileObjectFacts
  <2> QED
    BY <2>1, <2>2, <2>3, <2>4
<1>5. /\ entities' \in Seq(AnyEntity)
      /\ scopes' \in Seq(CScope) /\ Len(scopes') = Len(scopes)
      /\ \/ /\ ~HasLinkage(entities, x)
            /\ LET r == Entity(x, "object", TypeIn(shape), linkage, value, HasInit(shape),
                               departs, FileName(x))
               IN  r \in AnyEntity /\ Appended(entities', entities, r)
            /\ Declared(scopes', scopes, Len(scopes), x, Len(entities) + 1)
         \/ \E l \in 1..Len(entities), r \in AnyEntity :
              /\ IsLinked(entities[l], x)
              /\ entities[l].kind = "object" /\ entities[l].linkage = linkage
              /\ entities[l].type = TypeIn(shape)
              /\ Replaced(entities', entities, l, r) /\ Alike(r, entities[l])
              /\ Completes(r, entities[l], value, HasInit(shape), departs)
              /\ Declared(scopes', scopes, Len(scopes), x, l)
  BY FileObjectDeclares
<1> HIDE DEF linkage, value, departs
<1>6. CASE IncompatibleInit(shape)
  BY <1>1, <1>2, <1>4, <1>5, <1>6, StopKeepsIInv DEF IncompatibleInit
<1>7. CASE StaticObject(x, storage, shape)
  <2>1. Count(shape)
    BY <1>7 DEF StaticObject
  <2>2. CASE Stop("rejected") \/ Stop("undefined")
    BY <1>1, <1>2, <1>4, <1>5, <2>1, <2>2, StopKeepsIInv
  <2>3. CASE ~(Stop("rejected") \/ Stop("undefined"))
    <3>1. /\ init.value = << >> <=> ~HasInit(shape) /\ storage = "extern"
          /\ symbolTablePush(x, FileName(x)) /\ UNCHANGED <<functions, counter, current, status>>
          /\ Objects(objects') /\ OnlyAt(objects', objects, FileName(x))
          /\ Known(FileName(x)) =>
               /\ objects'[FileName(x)].linkage = objects[FileName(x)].linkage
               /\ objects'[FileName(x)].initializer =
                    IF HasInit(shape) \/ objects[FileName(x)].initializer = << >> THEN init.value
                    ELSE objects[FileName(x)].initializer
          /\ ~Known(FileName(x)) =>
               /\ objects'[FileName(x)].linkage =
                    IF storage = "static" THEN "internal" ELSE "external"
               /\ objects'[FileName(x)].initializer = init.value
      BY <1>7, <2>3, FileObjectMakes
    <3> HIDE DEF init
    <3>2. FileName(x) \in ObjectName
      BY <1>2, FileNames
    <3>3. /\ symbolTable' \in Seq(SymbolScope) /\ Len(symbolTable') = Len(symbolTable)
          /\ Declared(symbolTable', symbolTable, Len(scopes), x, FileName(x))
      BY <1>2, <3>1, <3>2, PushFacts
    <3>4. count' \in Nat /\ count < count' /\ Later(counter', count', counter, count)
      <4>1. count' \in Nat /\ count < count'
        BY <1>1, <1>2, <2>1, Counted
      <4> QED
        BY <1>2, <3>1, <4>1 DEF Later, TypeOK
    <3>5. OthersStay(objects', objects, x)
      BY <1>2, <3>1, OthersAt
    <3>6. TypeOK'
      <4>1. Stacks(scopes', symbolTable')
        BY <1>2, <1>5, <3>3 DEF TypeOK, Stacks
      <4> QED
        BY <1>1, <1>2, <1>4, <1>5, <3>1, <3>4, <4>1 DEF TypeOK
    <3>7. Len(scopes) = Len(symbolTable)
      BY <1>2 DEF TypeOK, Stacks
    <3>8. Matched(entities, scopes, symbolTable, functions, objects, counter, count)
      BY <1>2 DEF Matching
    <3>9. FileName(x) \in DOMAIN objects'
      BY <3>1 DEF OnlyAt
    <3>10. CASE ~HasLinkage(entities, x)
      <4> DEFINE r == Entity(x, "object", TypeIn(shape), linkage, value, HasInit(shape),
                             departs, FileName(x))
      <4>1. /\ r \in AnyEntity /\ Appended(entities', entities, r)
            /\ Declared(scopes', scopes, Len(scopes), x, Len(entities) + 1)
        BY <1>5, <3>10 DEF HasLinkage
      <4>2. /\ r.id = x /\ r.kind = "object" /\ r.linkage = linkage /\ r.value = value
            /\ (r.initialized <=> HasInit(shape)) /\ r.object = FileName(x)
        BY DEF Entity
      <4> HIDE DEF r
      <4>3. r.linkage # None /\ r.id \in Id
        BY <1>3, <4>2 DEF None
      <4>4. Place(r, counter', count')
        BY <4>2, <4>3 DEF Place
      <4>5. FunctionNew(functions', functions, r)
        BY <3>1, <4>3, NamesAreDistinct DEF FunctionNew
      <4>6. ~Known(FileName(x))
        <5>1. FilesAreLinked(entities, objects)
          BY <3>8 DEF Matched, ObjectsMatch
        <5> QED
          BY <1>2, <3>10, <5>1, FileNames DEF FilesAreLinked, Known
      <4>7. Completed(r, objects')
        BY <1>3, <1>4, <3>1, <3>9, <3>10, <4>2, <4>6 DEF Completed
      <4>8. Matched(entities', scopes', symbolTable', functions', objects', counter', count')
        <5>1. /\ r \in AnyEntity /\ Appended(entities', entities, r) /\ ~HasLinkage(entities, r.id)
              /\ r.linkage # None /\ Place(r, counter', count')
              /\ FunctionNew(functions', functions, r)
              /\ r.kind = "object" => FileName(x) = FileName(r.id)
              /\ r.id \in Id => Completed(r, objects')
          BY <3>10, <4>1, <4>2, <4>3, <4>4, <4>5, <4>7
        <5>2. /\ Declared(scopes', scopes, Len(scopes), r.id, Len(entities) + 1)
              /\ Declared(symbolTable', symbolTable, Len(scopes), r.id, FileName(x))
              /\ OthersStay(objects', objects, r.id)
          BY <3>3, <3>5, <4>1, <4>2
        <5> QED
          BY ONLY <3>4, <3>7, <3>8, <5>1, <5>2, MatchedNew
      <4> QED
        BY <3>6, <4>8 DEF IInv, Matching
    <3>11. CASE HasLinkage(entities, x)
      <4>1. PICK l \in 1..Len(entities), r \in AnyEntity :
              /\ IsLinked(entities[l], x)
              /\ entities[l].kind = "object" /\ entities[l].linkage = linkage
              /\ Replaced(entities', entities, l, r) /\ Alike(r, entities[l])
              /\ Completes(r, entities[l], value, HasInit(shape), departs)
              /\ Declared(scopes', scopes, Len(scopes), x, l)
        BY <1>5, <3>11
      <4>2. r.id = x /\ r.kind = "object" /\ r.linkage # None /\ r.linkage = linkage
        BY <4>1 DEF Alike, IsLinked
      <4>3. Completed(entities[l], objects) /\ entities[l].id = x
        BY <3>8, <4>1 DEF Matched, ObjectsMatch, IsLinked
      <4>4. Known(FileName(x))
        BY <4>3 DEF Completed, Known
      <4>5. Completed(r, objects')
        <5>1. /\ objects[FileName(x)].linkage = linkage
              /\ objects[FileName(x)].initializer = << >> <=> entities[l].value = << >>
              /\ entities[l].initialized => entities[l].value # << >>
          BY <4>1, <4>3 DEF Completed
        <5>2. objects'[FileName(x)].linkage = r.linkage
          BY <3>1, <4>2, <4>4, <5>1
        <5>3. /\ objects'[FileName(x)].initializer = << >> <=> r.value = << >>
              /\ r.initialized => r.value # << >>
          BY <1>4, <3>1, <4>1, <4>4, <5>1 DEF Completes
        <5> QED
          BY <3>9, <4>2, <5>2, <5>3 DEF Completed
      <4>6. functions' = functions
        BY <3>1
      <4>7. Matched(entities', scopes', symbolTable', functions, objects', counter', count')
        <5>1. /\ r \in AnyEntity /\ Replaced(entities', entities, l, r) /\ Alike(r, entities[l])
              /\ r.linkage # None
              /\ r.kind = "object" => FileName(x) = FileName(r.id)
              /\ r.id \in Id => Completed(r, objects')
          BY <4>1, <4>2, <4>5
        <5>2. /\ Declared(scopes', scopes, Len(scopes), r.id, l)
              /\ Declared(symbolTable', symbolTable, Len(scopes), r.id, FileName(x))
              /\ OthersStay(objects', objects, r.id)
          BY <3>3, <3>5, <4>1, <4>2
        <5> QED
          BY ONLY <3>4, <3>7, <3>8, <5>1, <5>2, MatchedAgain
      <4> QED
        BY <3>6, <4>6, <4>7 DEF IInv, Matching
    <3> QED
      BY <3>10, <3>11
  <2> QED
    BY <2>2, <2>3
<1> QED
  BY <1>1, <1>6, <1>7

LEMMA ExternObjectDeclares ==
  ASSUME IInv, NEW x \in Id, NEW shape \in Plain, CheckExternObject(x, shape)
  PROVE  LET linkage == Linkage(x, "extern", FALSE)
             no == FALSE
         IN  /\ entities' \in Seq(AnyEntity)
             /\ scopes' \in Seq(CScope) /\ Len(scopes') = Len(scopes)
             /\ \/ /\ ~HasLinkage(entities, x)
                   /\ LET r == Entity(x, "object", TypeIn(shape), linkage, << >>, no, no, FileName(x))
                      IN  r \in AnyEntity /\ Appended(entities', entities, r)
                   /\ Declared(scopes', scopes, Len(scopes), x, Len(entities) + 1)
                \/ \E l \in 1..Len(entities), r \in AnyEntity :
                     /\ IsLinked(entities[l], x)
                     /\ entities[l].kind = "object" /\ entities[l].linkage = linkage
                     /\ entities[l].type = TypeIn(shape)
                     /\ Replaced(entities', entities, l, r) /\ Alike(r, entities[l])
                     /\ Completes(r, entities[l], << >>, no, no)
                     /\ Declared(scopes', scopes, Len(scopes), x, l)
<1> DEFINE linkage == Linkage(x, "extern", FALSE)
           no == FALSE
<1>1. /\ AgreesWith(x, "object", TypeIn(shape), linkage)
      /\ DeclareLinked(x, "object", TypeIn(shape), linkage, << >>, no, no)
      /\ CanDeclare(shape)
  BY DEF CheckExternObject, ExternObject
<1>2. TypeOK /\ shape \in Shapes /\ Matching /\ x \in Name
  BY <1>1, Offers DEF IInv, Name
<1>3. linkage \in {"internal", "external"}
  BY <1>2, LinkageFacts
<1>4. TypeIn(shape) \in {TypeIn(s) : s \in Shapes} /\ << >> \in CValue /\ no \in BOOLEAN
  BY <1>2 DEF CValue
<1> HIDE DEF linkage, no
<1> SUFFICES
      /\ entities' \in Seq(AnyEntity)
      /\ scopes' \in Seq(CScope) /\ Len(scopes') = Len(scopes)
      /\ \/ /\ ~HasLinkage(entities, x)
            /\ LET r == Entity(x, "object", TypeIn(shape), linkage, << >>, no, no, FileName(x))
               IN  r \in AnyEntity /\ Appended(entities', entities, r)
            /\ Declared(scopes', scopes, Len(scopes), x, Len(entities) + 1)
         \/ \E l \in 1..Len(entities), r \in AnyEntity :
              /\ IsLinked(entities[l], x)
              /\ entities[l].kind = "object" /\ entities[l].linkage = linkage
              /\ entities[l].type = TypeIn(shape)
              /\ Replaced(entities', entities, l, r) /\ Alike(r, entities[l])
              /\ Completes(r, entities[l], << >>, no, no)
              /\ Declared(scopes', scopes, Len(scopes), x, l)
  BY DEF linkage, no
<1> QED
  BY <1>1, <1>2, <1>3, <1>4, LinkedDeclared

LEMMA ExternObjectMakes ==
  ASSUME IInv, NEW x \in Id, NEW shape \in Plain, CheckExternObject(x, shape)
  PROVE  LET name == FileName(x) IN
         /\ Objects(objects') /\ OnlyAt(objects', objects, name)
         /\ Known(name) => objects' = objects
         /\ ~Known(name) => objects'[name].linkage = "external" /\ objects'[name].initializer = << >>
<1> DEFINE name == FileName(x)
<1>1. /\ CanDeclare(shape)
      /\ objects' = IF Known(name) THEN objects ELSE Put(objects, name, Object("external", << >>))
  BY DEF CheckExternObject, ExternObject
<1>2. Objects(objects) /\ name \in ObjectName
  BY FileNames DEF IInv, TypeOK, Name
<1> HIDE DEF name
<1>3. CASE Known(name)
  BY <1>1, <1>2, <1>3 DEF OnlyAt, Known, name
<1>4. CASE ~Known(name)
  <2>1. /\ Object("external", << >>) \in GlobalObject
        /\ Object("external", << >>).initializer = << >>
        /\ Object("external", << >>).linkage = "external"
    BY DEF Object, GlobalObject, LinkageOrNone, GlobalValue
  <2>2. /\ Objects(objects') /\ OnlyAt(objects', objects, name)
        /\ objects'[name] = Object("external", << >>)
    BY <1>1, <1>2, <1>4, <2>1, PutFacts
  <2> QED
    BY <1>4, <2>1, <2>2 DEF name
<1> QED
  BY <1>3, <1>4 DEF name

LEMMA ExternObjectStep ==
  ASSUME IInv, NEW x \in Id, NEW shape \in Plain, CheckExternObject(x, shape)
  PROVE  IInv'
<1> DEFINE linkage == Linkage(x, "extern", FALSE)
           name == FileName(x)
           no == FALSE
<1>1. excused' = no
  BY DEF CheckExternObject
<1>2. /\ CanDeclare(shape) /\ Count(shape)
      /\ symbolTablePush(x, name) /\ UNCHANGED <<functions, counter, current, status>>
  BY DEF CheckExternObject, ExternObject
<1>3. TypeOK /\ status = "open" /\ shape \in Shapes /\ Matching /\ x \in Name
  BY <1>2, Offers DEF IInv, Name
<1>4. /\ linkage \in {"internal", "external"}
      /\ ~HasLinkage(entities, x) => linkage = "external"
  BY <1>3, LinkageFacts
<1>5. no \in BOOLEAN
  OBVIOUS
<1>6. /\ entities' \in Seq(AnyEntity)
      /\ scopes' \in Seq(CScope) /\ Len(scopes') = Len(scopes)
      /\ \/ /\ ~HasLinkage(entities, x)
            /\ LET r == Entity(x, "object", TypeIn(shape), linkage, << >>, no, no, FileName(x))
               IN  r \in AnyEntity /\ Appended(entities', entities, r)
            /\ Declared(scopes', scopes, Len(scopes), x, Len(entities) + 1)
         \/ \E l \in 1..Len(entities), r \in AnyEntity :
              /\ IsLinked(entities[l], x)
              /\ entities[l].kind = "object" /\ entities[l].linkage = linkage
              /\ entities[l].type = TypeIn(shape)
              /\ Replaced(entities', entities, l, r) /\ Alike(r, entities[l])
              /\ Completes(r, entities[l], << >>, no, no)
              /\ Declared(scopes', scopes, Len(scopes), x, l)
  BY ExternObjectDeclares
<1> HIDE DEF linkage, no
<1>7. name \in ObjectName
  BY <1>3, FileNames
<1>8. /\ symbolTable' \in Seq(SymbolScope) /\ Len(symbolTable') = Len(symbolTable)
      /\ Declared(symbolTable', symbolTable, Len(scopes), x, name)
  BY <1>2, <1>3, <1>7, PushFacts
<1>9. count' \in Nat /\ Later(counter', count', counter, count)
  <2>1. count' \in Nat /\ count < count'
    BY <1>2, <1>3, Counted
  <2> QED
    BY <1>2, <1>3, <2>1 DEF Later, TypeOK
<1>10. /\ Objects(objects') /\ OnlyAt(objects', objects, name)
       /\ Known(name) => objects' = objects
       /\ ~Known(name) => objects'[name].linkage = "external" /\ objects'[name].initializer = << >>
  BY ExternObjectMakes
<1>11. OthersStay(objects', objects, x)
  BY <1>3, <1>10, OthersAt
<1>12. TypeOK'
  <2>1. Stacks(scopes', symbolTable')
    BY <1>3, <1>6, <1>8 DEF TypeOK, Stacks
  <2> QED
    BY <1>1, <1>2, <1>3, <1>5, <1>6, <1>9, <1>10, <2>1 DEF TypeOK
<1>13. Len(scopes) = Len(symbolTable)
  BY <1>3 DEF TypeOK, Stacks
<1>14. Matched(entities, scopes, symbolTable, functions, objects, counter, count)
  BY <1>3 DEF Matching
<1>15. name \in DOMAIN objects'
  BY <1>10 DEF OnlyAt
<1>16. CASE ~HasLinkage(entities, x)
  <2> DEFINE r == Entity(x, "object", TypeIn(shape), linkage, << >>, no, no, FileName(x))
  <2>1. /\ r \in AnyEntity /\ Appended(entities', entities, r)
        /\ Declared(scopes', scopes, Len(scopes), x, Len(entities) + 1)
    BY <1>6, <1>16 DEF HasLinkage
  <2>2. /\ r.id = x /\ r.kind = "object" /\ r.linkage = linkage /\ r.value = << >>
        /\ ~r.initialized /\ r.object = name
    BY DEF Entity, no
  <2> HIDE DEF r
  <2>3. r.linkage # None /\ r.id \in Id
    BY <1>4, <2>2 DEF None
  <2>4. Place(r, counter', count')
    BY <2>2, <2>3 DEF Place
  <2>5. FunctionNew(functions', functions, r)
    BY <1>2, <2>3, NamesAreDistinct DEF FunctionNew
  <2>6. ~Known(name)
    <3>1. FilesAreLinked(entities, objects)
      BY <1>14 DEF Matched, ObjectsMatch
    <3> QED
      BY <1>3, <1>16, <3>1, FileNames DEF FilesAreLinked, Known
  <2>7. Completed(r, objects')
    BY <1>4, <1>10, <1>15, <1>16, <2>2, <2>6 DEF Completed
  <2>8. Matched(entities', scopes', symbolTable', functions', objects', counter', count')
    <3>1. /\ r \in AnyEntity /\ Appended(entities', entities, r) /\ ~HasLinkage(entities, r.id)
          /\ r.linkage # None /\ Place(r, counter', count')
          /\ FunctionNew(functions', functions, r)
          /\ r.kind = "object" => name = FileName(r.id)
          /\ r.id \in Id => Completed(r, objects')
      BY <1>16, <2>1, <2>2, <2>3, <2>4, <2>5, <2>7
    <3>2. /\ Declared(scopes', scopes, Len(scopes), r.id, Len(entities) + 1)
          /\ Declared(symbolTable', symbolTable, Len(scopes), r.id, name)
          /\ OthersStay(objects', objects, r.id)
      BY <1>8, <1>11, <2>1, <2>2
    <3> QED
      BY ONLY <1>9, <1>13, <1>14, <3>1, <3>2, MatchedNew
  <2> QED
    BY <1>12, <2>8 DEF IInv, Matching
<1>17. CASE HasLinkage(entities, x)
  <2>1. PICK l \in 1..Len(entities), r \in AnyEntity :
          /\ IsLinked(entities[l], x)
          /\ entities[l].kind = "object" /\ entities[l].linkage = linkage
          /\ Replaced(entities', entities, l, r) /\ Alike(r, entities[l])
          /\ Completes(r, entities[l], << >>, no, no)
          /\ Declared(scopes', scopes, Len(scopes), x, l)
    BY <1>6, <1>17
  <2>2. r.id = x /\ r.kind = "object" /\ r.linkage # None
    BY <2>1 DEF Alike, IsLinked
  <2>3. Completed(entities[l], objects) /\ entities[l].id = x
    BY <1>14, <2>1 DEF Matched, ObjectsMatch, IsLinked
  <2>4. objects' = objects
    BY <1>10, <2>3 DEF Completed, Known
  <2>5. Completed(r, objects')
    BY <2>1, <2>3, <2>4 DEF Completed, Completes, Alike, no
  <2>6. functions' = functions
    BY <1>2
  <2>7. Matched(entities', scopes', symbolTable', functions, objects', counter', count')
    <3>1. /\ r \in AnyEntity /\ Replaced(entities', entities, l, r) /\ Alike(r, entities[l])
          /\ r.linkage # None
          /\ r.kind = "object" => name = FileName(r.id)
          /\ r.id \in Id => Completed(r, objects')
      BY <2>1, <2>2, <2>5
    <3>2. /\ Declared(scopes', scopes, Len(scopes), r.id, l)
          /\ Declared(symbolTable', symbolTable, Len(scopes), r.id, name)
          /\ OthersStay(objects', objects, r.id)
      BY <1>8, <1>11, <2>1, <2>2
    <3> QED
      BY ONLY <1>9, <1>13, <1>14, <3>1, <3>2, MatchedAgain
  <2> QED
    BY <1>12, <2>6, <2>7 DEF IInv, Matching
<1> QED
  BY <1>16, <1>17

(* The symbol table has no functions.                                      *)
LEMMA NothingPushed ==
  ASSUME NEW i, NEW x \in Name
  PROVE  Declared(symbolTable, symbolTable, i, x, symbolTable[i][x])
BY DEF Declared

LEMMA FnDeclStep ==
  ASSUME IInv, NEW f \in Fn, NEW storage \in Storage, CheckFnDecl(f, storage)
  PROVE  IInv'
<1> DEFINE linkage == Linkage(f, storage, TRUE)
           no == FALSE
<1>1. /\ AgreesWith(f, "fn", TypeIn(Default), linkage)
      /\ DeclareLinked(f, "fn", TypeIn(Default), linkage, << >>, no, no)
      /\ excused' = no
  BY DEF CheckFnDecl
<1>2. /\ CanDeclare(Default) /\ count' = count + 1
      /\ functions' = [functions EXCEPT ![f] =
           IF @ = None THEN IF storage = "static" THEN "internal" ELSE "external"
           ELSE IF storage = "extern" /\ @ # "internal" THEN "external"
           ELSE @]
      /\ UNCHANGED <<objects, counter, symbolTable, current, status>>
  BY DEF CheckFnDecl, FnDecl
<1>3. TypeOK /\ status = "open" /\ Default \in Shapes /\ Matching /\ f \in Name /\ f \notin Id
  BY <1>2, Offers, NamesAreDistinct DEF IInv, Name
<1>4. /\ linkage \in {"internal", "external"}
      /\ ~HasLinkage(entities, f) =>
           linkage = IF storage = "static" THEN "internal" ELSE "external"
  BY <1>3, LinkageFacts
<1>5. TypeIn(Default) \in {TypeIn(s) : s \in Shapes} /\ << >> \in CValue /\ no \in BOOLEAN
  BY <1>3 DEF CValue
<1> HIDE DEF linkage, no
<1>6. /\ entities' \in Seq(AnyEntity)
      /\ scopes' \in Seq(CScope) /\ Len(scopes') = Len(scopes)
      /\ \/ /\ ~HasLinkage(entities, f)
            /\ LET r == Entity(f, "fn", TypeIn(Default), linkage, << >>, no, no, FileName(f))
               IN  r \in AnyEntity /\ Appended(entities', entities, r)
            /\ Declared(scopes', scopes, Len(scopes), f, Len(entities) + 1)
         \/ \E l \in 1..Len(entities), r \in AnyEntity :
              /\ IsLinked(entities[l], f)
              /\ entities[l].kind = "fn" /\ entities[l].linkage = linkage
              /\ Replaced(entities', entities, l, r) /\ Alike(r, entities[l])
              /\ Completes(r, entities[l], << >>, no, no)
              /\ Declared(scopes', scopes, Len(scopes), f, l)
  BY <1>1, <1>3, <1>4, <1>5, LinkedDeclared
<1>7. count' \in Nat /\ Later(counter', count', counter, count)
  BY <1>2, <1>3 DEF Later, TypeOK
<1>8. /\ functions \in [Fn -> LinkageOrNone] /\ functions' \in [Fn -> LinkageOrNone]
      /\ \A g \in Fn : g # f => functions'[g] = functions[g]
      /\ functions[f] = None =>
           functions'[f] = IF storage = "static" THEN "internal" ELSE "external"
      /\ functions[f] # None => functions' = functions
  BY <1>2, <1>3 DEF TypeOK, LinkageOrNone, None
<1>9. TypeOK'
  <2>1. Stacks(scopes', symbolTable')
    BY <1>2, <1>3, <1>6 DEF TypeOK, Stacks
  <2> QED
    BY <1>1, <1>2, <1>3, <1>5, <1>6, <1>7, <1>8, <2>1 DEF TypeOK
<1>10. /\ Len(scopes) = Len(symbolTable)
       /\ Matched(entities, scopes, symbolTable, functions, objects, counter, count)
  BY <1>3 DEF TypeOK, Stacks, Matching
<1>11. Declared(symbolTable', symbolTable, Len(scopes), f, symbolTable[Len(scopes)][f])
  BY <1>2, <1>3, NothingPushed
<1>12. OthersStay(objects', objects, f)
  BY <1>2 DEF OthersStay
<1>13. FunctionsMatch(entities, functions)
  BY <1>10 DEF Matched
<1>14. CASE ~HasLinkage(entities, f)
  <2> DEFINE r == Entity(f, "fn", TypeIn(Default), linkage, << >>, no, no, FileName(f))
  <2>1. /\ r \in AnyEntity /\ Appended(entities', entities, r)
        /\ Declared(scopes', scopes, Len(scopes), f, Len(entities) + 1)
    BY <1>6, <1>14 DEF HasLinkage
  <2>2. r.id = f /\ r.kind = "fn" /\ r.linkage = linkage /\ r.object = FileName(f)
    BY DEF Entity
  <2> HIDE DEF r
  <2>3. r.linkage # None /\ r.id \notin Id
    BY <1>3, <1>4, <2>2 DEF None
  <2>4. Place(r, counter', count')
    BY <2>2, <2>3 DEF Place
  <2>5. FunctionNew(functions', functions, r)
    <3>1. functions[f] = None
      BY <1>13, <1>14 DEF FunctionsMatch
    <3> QED
      BY <1>4, <1>8, <1>14, <2>2, <3>1 DEF FunctionNew
  <2>6. Matched(entities', scopes', symbolTable', functions', objects', counter', count')
    <3>1. /\ r \in AnyEntity /\ Appended(entities', entities, r) /\ ~HasLinkage(entities, r.id)
          /\ r.linkage # None /\ Place(r, counter', count')
          /\ FunctionNew(functions', functions, r)
          /\ r.kind = "object" => symbolTable[Len(scopes)][f] = FileName(r.id)
          /\ r.id \in Id => Completed(r, objects')
      BY <1>14, <2>1, <2>2, <2>3, <2>4, <2>5
    <3>2. /\ Declared(scopes', scopes, Len(scopes), r.id, Len(entities) + 1)
          /\ Declared(symbolTable', symbolTable, Len(scopes), r.id, symbolTable[Len(scopes)][f])
          /\ OthersStay(objects', objects, r.id)
      BY <1>11, <1>12, <2>1, <2>2
    <3> QED
      BY ONLY <1>7, <1>10, <3>1, <3>2, MatchedNew
  <2> QED
    BY <1>9, <2>6 DEF IInv, Matching
<1>15. CASE HasLinkage(entities, f)
  <2>1. PICK l \in 1..Len(entities), r \in AnyEntity :
          /\ IsLinked(entities[l], f)
          /\ entities[l].kind = "fn" /\ entities[l].linkage = linkage
          /\ Replaced(entities', entities, l, r) /\ Alike(r, entities[l])
          /\ Declared(scopes', scopes, Len(scopes), f, l)
    BY <1>6, <1>15
  <2>2. r.id = f /\ r.kind = "fn" /\ r.linkage # None
    BY <2>1 DEF Alike, IsLinked
  <2>3. functions' = functions
    <3>1. functions[f] = linkage
      BY <1>13, <2>1 DEF FunctionsMatch
    <3> QED
      BY <1>4, <1>8, <3>1 DEF None
  <2>4. Matched(entities', scopes', symbolTable', functions, objects', counter', count')
    <3>1. /\ r \in AnyEntity /\ Replaced(entities', entities, l, r) /\ Alike(r, entities[l])
          /\ r.linkage # None
          /\ r.kind = "object" => symbolTable[Len(scopes)][f] = FileName(r.id)
          /\ r.id \in Id => Completed(r, objects')
      BY <1>3, <2>1, <2>2
    <3>2. /\ Declared(scopes', scopes, Len(scopes), r.id, l)
          /\ Declared(symbolTable', symbolTable, Len(scopes), r.id, symbolTable[Len(scopes)][f])
          /\ OthersStay(objects', objects, r.id)
      BY <1>11, <1>12, <2>1, <2>2
    <3> QED
      BY ONLY <1>7, <1>10, <3>1, <3>2, MatchedAgain
  <2> QED
    BY <1>9, <2>3, <2>4 DEF IInv, Matching
<1> QED
  BY <1>14, <1>15

LEMMA FreshScopes == Nothing \in CScope /\ Empty \in SymbolScope
<1>1. Nothing \in CScope
  BY DEF Nothing, CScope
<1>2. NoObject \in Denoted
  BY DEF Denoted
<1>3. Empty \in SymbolScope
  BY <1>2 DEF Empty, SymbolScope
<1> QED
  BY <1>1, <1>3

LEMMA TwoOpened ==
  ASSUME NEW V, NEW s \in Seq(V), NEW fresh \in V
  PROVE  s \o <<fresh, fresh>> = Append(Append(s, fresh), fresh)
<1>1. Append(s, fresh) \in Seq(V) /\ <<fresh>> \in Seq(V)
  BY AppendProperties
<1>2. Append(Append(s, fresh), fresh) = Append(s, fresh) \o <<fresh>>
  BY <1>1, AppendIsConcat
<1>3. Append(s, fresh) = s \o <<fresh>>
  BY AppendIsConcat
<1>4. (s \o <<fresh>>) \o <<fresh>> = s \o (<<fresh>> \o <<fresh>>)
  BY <1>1, ConcatAssociative
<1>5. <<fresh>> \o <<fresh>> = <<fresh, fresh>>
  <2>1. /\ <<fresh>> \o <<fresh>> \in Seq(V) /\ Len(<<fresh>> \o <<fresh>>) = 2
        /\ \A i \in 1..2 : (<<fresh>> \o <<fresh>>)[i] = fresh
    BY <1>1, ConcatProperties
  <2>2. /\ <<fresh, fresh>> \in Seq(V) /\ Len(<<fresh, fresh>>) = 2
        /\ \A i \in 1..2 : <<fresh, fresh>>[i] = fresh
    OBVIOUS
  <2> QED
    BY <2>1, <2>2, SeqEqual
<1> QED
  BY <1>2, <1>3, <1>4, <1>5

(* The two scopes of a function                                            *)
LEMMA FunctionOpened ==
  ASSUME NEW S, NEW T, NEW E, Stacks(S, T), Mirror(S, T, E)
  PROVE  /\ Stacks(S \o <<Nothing, Nothing>>, T \o <<Empty, Empty>>)
         /\ Mirror(S \o <<Nothing, Nothing>>, T \o <<Empty, Empty>>, E)
<1> DEFINE S1 == Append(S, Nothing)
           T1 == Append(T, Empty)
           S2 == Append(S1, Nothing)
           T2 == Append(T1, Empty)
<1>1. /\ S \in Seq(CScope) /\ T \in Seq(SymbolScope) /\ Len(S) = Len(T) /\ Len(S) > 0
      /\ Len(S) \in Nat
  BY LenProperties DEF Stacks
<1>2. S1 \in Seq(CScope) /\ Opened(S1, S, Nothing) /\ T1 \in Seq(SymbolScope) /\ Opened(T1, T, Empty)
  BY <1>1, FreshScopes, OpenedScope
<1>3. S \o <<Nothing, Nothing>> = S2 /\ T \o <<Empty, Empty>> = T2
  BY <1>1, FreshScopes, TwoOpened
<1> HIDE DEF S1, T1
<1>4. S2 \in Seq(CScope) /\ Opened(S2, S1, Nothing) /\ T2 \in Seq(SymbolScope) /\ Opened(T2, T1, Empty)
  BY <1>2, FreshScopes, OpenedScope
<1> HIDE DEF S2, T2
<1>5. /\ Len(S1) = Len(S) + 1 /\ Len(T1) = Len(T) + 1
      /\ Len(S2) = Len(S1) + 1 /\ Len(T2) = Len(T1) + 1
  BY <1>2, <1>4 DEF Opened
<1>6. Mirror(S1, T1, E)
  BY <1>1, <1>2, MirrorOpened
<1>7. Mirror(S2, T2, E)
  BY <1>1, <1>4, <1>5, <1>6, MirrorOpened
<1>8. Stacks(S2, T2)
  BY <1>1, <1>4, <1>5 DEF Stacks
<1> QED
  BY <1>3, <1>7, <1>8

LEMMA FnDefStep ==
  ASSUME IInv, NEW f \in Fn, NEW storage \in Storage, CheckFnDef(f, storage)
  PROVE  IInv'
<1> DEFINE linkage == Linkage(f, storage, TRUE)
           l == Linked(f)
           e == IF l = 0 THEN Len(entities) + 1 ELSE l
           top == 1
           S == [scopes EXCEPT ![top][f] = e]
<1>1. /\ AgreesWith(f, "fn", TypeIn(Default), linkage)
      /\ entities' = IF l = 0
                     THEN Append(entities,
                            Entity(f, "fn", TypeIn(Default), linkage, << >>, TRUE, FALSE, FileName(f)))
                     ELSE [entities EXCEPT ![e].initialized = TRUE]
      /\ scopes' = S \o <<Nothing, Nothing>>
      /\ excused' = FALSE
  BY DEF CheckFnDef
<1>2. /\ CanDeclare(Default) /\ count' = count + 1
      /\ functions' = [functions EXCEPT ![f] =
           IF @ # None THEN @ ELSE IF storage = "static" THEN "internal" ELSE "external"]
      /\ current' = f /\ symbolTable' = symbolTable \o <<Empty, Empty>>
      /\ UNCHANGED <<objects, counter, status>>
  BY DEF CheckFnDef, FnDef
<1>3. TypeOK /\ status = "open" /\ Default \in Shapes /\ Matching /\ f \in Name /\ f \notin Id
  BY <1>2, Offers, NamesAreDistinct DEF IInv, Name
<1>4. /\ linkage \in {"internal", "external"}
      /\ ~HasLinkage(entities, f) =>
           linkage = IF storage = "static" THEN "internal" ELSE "external"
  BY <1>3, LinkageFacts
<1>5. /\ l = 0 <=> ~HasLinkage(entities, f)
      /\ l # 0 => l \in 1..Len(entities) /\ IsLinked(entities[l], f)
  BY <1>3, LinkedFacts
<1>6. TypeIn(Default) \in {TypeIn(s) : s \in Shapes} /\ << >> \in CValue
  BY <1>3 DEF CValue
<1>7. /\ entities \in Seq(AnyEntity) /\ Len(entities) \in Nat
      /\ scopes \in Seq(CScope) /\ symbolTable \in Seq(SymbolScope)
      /\ Len(scopes) = Len(symbolTable) /\ top \in 1..Len(scopes)
  <2>1. /\ entities \in Seq(AnyEntity) /\ scopes \in Seq(CScope) /\ symbolTable \in Seq(SymbolScope)
        /\ Len(scopes) = Len(symbolTable) /\ Len(scopes) > 0
    BY <1>3 DEF TypeOK, Stacks
  <2>2. Len(entities) \in Nat /\ Len(scopes) \in Nat
    BY <2>1, LenProperties
  <2> QED
    BY <2>1, <2>2
<1>8. S \in Seq(CScope) /\ Declared(S, scopes, top, f, e) /\ Len(S) = Len(scopes)
  <2>1. e \in Nat
    BY <1>5, <1>7
  <2> HIDE DEF e
  <2>2. S \in Seq([Name -> Nat]) /\ Declared(S, scopes, top, f, e)
    BY <1>3, <1>7, <2>1, DeclaredName DEF CScope
  <2> QED
    BY <2>2 DEF Declared, CScope
<1> HIDE DEF linkage, S, top
<1>9. count' \in Nat /\ Later(counter', count', counter, count)
  BY <1>2, <1>3 DEF Later, TypeOK
<1>10. /\ functions' \in [Fn -> LinkageOrNone]
       /\ \A g \in Fn : g # f => functions'[g] = functions[g]
       /\ functions[f] = None =>
            functions'[f] = IF storage = "static" THEN "internal" ELSE "external"
       /\ functions[f] # None => functions' = functions
  BY <1>2, <1>3 DEF TypeOK, LinkageOrNone, None
<1>11. Matched(entities, scopes, symbolTable, functions, objects, counter, count)
  BY <1>3 DEF Matching
<1>12. Declared(symbolTable, symbolTable, top, f, symbolTable[top][f])
  BY <1>3, NothingPushed
<1>13. OthersStay(objects', objects, f)
  BY <1>2 DEF OthersStay
<1>14. FunctionsMatch(entities, functions)
  BY <1>11 DEF Matched
<1>15. /\ entities' \in Seq(AnyEntity)
       /\ Matched(entities', S, symbolTable, functions', objects', counter', count')
  <2>1. CASE l = 0
    <3> DEFINE r == Entity(f, "fn", TypeIn(Default), linkage, << >>, TRUE, FALSE, FileName(f))
    <3>1. r \in AnyEntity
      <4>1. FileName(f) \in Denoted /\ linkage \in LinkageOrNone
        BY <1>3, <1>4, FileNames DEF Denoted, LinkageOrNone
      <4> QED
        BY <1>3, <1>6, <4>1 DEF Entity, AnyEntity
    <3>2. r.id = f /\ r.kind = "fn" /\ r.linkage = linkage /\ r.object = FileName(f)
      BY DEF Entity
    <3>3. entities' = Append(entities, r) /\ e = Len(entities) + 1 /\ ~HasLinkage(entities, f)
      BY <1>1, <1>5, <2>1
    <3> HIDE DEF r, e
    <3>4. entities' \in Seq(AnyEntity) /\ Appended(entities', entities, r)
      BY <1>7, <3>1, <3>3, AppendedEntity
    <3>5. r.linkage # None /\ r.id \notin Id
      BY <1>3, <1>4, <3>2 DEF None
    <3>6. Place(r, counter', count')
      BY <3>2, <3>5 DEF Place
    <3>7. FunctionNew(functions', functions, r)
      <4>1. functions[f] = None
        BY <1>14, <3>3 DEF FunctionsMatch
      <4> QED
        BY <1>4, <1>10, <3>2, <3>3, <4>1 DEF FunctionNew
    <3>8. Declared(S, scopes, top, f, Len(entities) + 1)
      BY <1>8, <3>3
    <3>9. Matched(entities', S, symbolTable, functions', objects', counter', count')
      <4>1. /\ r \in AnyEntity /\ Appended(entities', entities, r) /\ ~HasLinkage(entities, r.id)
            /\ r.linkage # None /\ Place(r, counter', count')
            /\ FunctionNew(functions', functions, r)
            /\ r.kind = "object" => symbolTable[top][f] = FileName(r.id)
            /\ r.id \in Id => Completed(r, objects')
        BY <3>1, <3>2, <3>3, <3>4, <3>5, <3>6, <3>7
      <4>2. /\ Declared(S, scopes, top, r.id, Len(entities) + 1)
            /\ Declared(symbolTable, symbolTable, top, r.id, symbolTable[top][f])
            /\ OthersStay(objects', objects, r.id)
        BY <1>12, <1>13, <3>2, <3>8
      <4> QED
        BY ONLY <1>7, <1>9, <1>11, <4>1, <4>2, MatchedNew
    <3> QED
      BY <3>4, <3>9
  <2>2. CASE l # 0
    <3> DEFINE old == entities[l]
               r == [old EXCEPT !.initialized = TRUE]
    <3>1. e = l /\ l \in 1..Len(entities) /\ IsLinked(old, f) /\ old.kind = "fn" /\ old.linkage = linkage
      BY <1>1, <1>5, <2>2 DEF AgreesWith
    <3>2. old \in AnyEntity
      BY <1>7, <3>1, ElementOfSeq
    <3>3. entities' = [entities EXCEPT ![l] = r]
      BY <1>1, <2>2
    <3> HIDE DEF old, l, e
    <3>4. r \in AnyEntity /\ Alike(r, old)
      BY <3>2 DEF AnyEntity, Alike
    <3> HIDE DEF r
    <3>5. entities' \in Seq(AnyEntity) /\ Replaced(entities', entities, l, r)
      BY <1>7, <3>1, <3>3, <3>4, ReplacedEntity
    <3>6. r.id = f /\ r.kind = "fn" /\ r.linkage # None /\ Alike(r, entities[l])
      BY <3>1, <3>4 DEF Alike, IsLinked, old
    <3>7. functions' = functions
      <4>1. functions[f] = linkage
        BY <1>14, <3>1 DEF FunctionsMatch, old
      <4> QED
        BY <1>4, <1>10, <4>1 DEF None
    <3>8. Declared(S, scopes, top, f, l)
      BY <1>8, <3>1
    <3>9. Matched(entities', S, symbolTable, functions, objects', counter', count')
      <4>1. /\ r \in AnyEntity /\ Replaced(entities', entities, l, r) /\ Alike(r, entities[l])
            /\ r.linkage # None
            /\ r.kind = "object" => symbolTable[top][f] = FileName(r.id)
            /\ r.id \in Id => Completed(r, objects')
        BY <1>3, <3>4, <3>5, <3>6
      <4>2. /\ Declared(S, scopes, top, r.id, l)
            /\ Declared(symbolTable, symbolTable, top, r.id, symbolTable[top][f])
            /\ OthersStay(objects', objects, r.id)
        BY <1>12, <1>13, <3>6, <3>8
      <4> QED
        BY ONLY <1>7, <1>9, <1>11, <4>1, <4>2, MatchedAgain
    <3> QED
      BY <3>5, <3>7, <3>9
  <2> QED
    BY <2>1, <2>2
<1>16. /\ Stacks(scopes', symbolTable')
       /\ Mirror(scopes', symbolTable', entities')
  <2>1. Mirror(S, symbolTable, entities')
    BY <1>15 DEF Matched
  <2>2. Stacks(S, symbolTable)
    BY <1>3, <1>7, <1>8 DEF TypeOK, Stacks
  <2> QED
    BY <1>1, <1>2, <2>1, <2>2, FunctionOpened
<1>17. TypeOK'
  BY <1>1, <1>2, <1>3, <1>9, <1>10, <1>15, <1>16 DEF TypeOK
<1>18. Matching'
  BY <1>15, <1>16 DEF Matching, Matched
<1> QED
  BY <1>17, <1>18 DEF IInv

-----------------------------------------------------------------------------
(* Declarations in a block, and the blocks                                 *)

LEMMA LocalNames ==
  ASSUME TypeOK, NEW x \in Name
  PROVE  /\ Alloca(x, count) \in ObjectName /\ getLocalStaticName(x) \in ObjectName
         /\ ConstName(getLocalStaticName(x)) \in ObjectName
         /\ Alloca(x, count).kind = "alloca" /\ getLocalStaticName(x).kind = "static"
         /\ ConstName(getLocalStaticName(x)).kind = "const"
         /\ ~Behind(Alloca(x, count), counter, count)
         /\ ~Behind(getLocalStaticName(x), counter, count)
<1>1. current \in Fn \cup {None} /\ count \in Nat /\ counter[x] \in Nat
  BY DEF TypeOK
<1>2. Alloca(x, count) \in ObjectName /\ ~Behind(Alloca(x, count), counter, count)
  BY <1>1 DEF Alloca, ObjectName, Behind
<1>3. /\ getLocalStaticName(x) \in ObjectName /\ getLocalStaticName(x).kind = "static"
      /\ ~Behind(getLocalStaticName(x), counter, count)
  BY <1>1 DEF getLocalStaticName, ObjectName, Behind
<1>4. /\ ConstName(getLocalStaticName(x)) \in ObjectName
      /\ ConstName(getLocalStaticName(x)).kind = "const"
  BY <1>3 DEF ConstName, ObjectName
<1> QED
  BY <1>2, <1>3, <1>4 DEF Alloca

LEMMA FilesStayTwice ==
  ASSUME NEW O, NEW O2, NEW O3, FilesStay(O2, O), FilesStay(O3, O2)
  PROVE  FilesStay(O3, O)
BY DEF FilesStay

(* What a local object leaves: a new name, and no change of a global       *)
LocalMade(x, name) ==
  /\ name \in ObjectName /\ ~Behind(name, counter, count) /\ Behind(name, counter', count')
  /\ Objects(objects') /\ FilesStay(objects', objects)
  /\ Later(counter', count', counter, count)
  /\ symbolTablePush(x, name) /\ UNCHANGED <<functions, current, status>>

LEMMA StaticObjectMakes ==
  ASSUME TypeOK, NEW x \in Name, NEW storage, NEW shape, ~isGlobal,
         StaticObject(x, storage, shape)
  PROVE  Stop("rejected") \/ Stop("undefined") \/ LocalMade(x, getLocalStaticName(x))
<1> DEFINE init == StaticInit(shape, storage = "extern")
           name == getLocalStaticName(x)
           linkage == IF storage = "static" THEN "internal" ELSE "external"
<1>1. SUFFICES ASSUME ~(Stop("rejected") \/ Stop("undefined"))
               PROVE  LocalMade(x, name)
  OBVIOUS
<1>2. /\ CanDeclare(shape) /\ Count(shape)
      /\ init.outcome \notin {"thrown", "undefined"}
      /\ objects' = IF Known(name) THEN Redeclare(name, shape, init.value)
                    ELSE Put(objects, name, Object(linkage, init.value))
      /\ CountStatic(x) /\ symbolTablePush(x, name)
      /\ UNCHANGED <<functions, current, status>>
  BY <1>1 DEF StaticObject
<1>3. init.value \in GlobalValue
  <2>1. shape \in Shapes
    BY <1>2, Offers
  <2>2. init \in Outcome
    BY <2>1, StaticOutcome
  <2> QED
    BY <1>2, <2>2, OutcomeIsValue
<1> HIDE DEF init
<1>4. /\ name \in ObjectName /\ name.kind = "static" /\ ~Behind(name, counter, count)
  BY LocalNames
<1>5. count' \in Nat /\ count < count'
  BY <1>2, Counted
<1>6. /\ counter \in [Name -> Nat] /\ counter' \in [Name -> Nat] /\ counter'[x] = counter[x] + 1
      /\ \A y \in Name : counter[y] <= counter'[y]
  BY <1>2 DEF CountStatic, TypeOK
<1>7. Later(counter', count', counter, count)
  BY <1>5, <1>6 DEF Later, TypeOK
<1>8. Behind(name, counter', count')
  <2>1. counter[x] \in Nat
    BY <1>6
  <2> QED
    BY <1>6, <2>1 DEF Behind, getLocalStaticName
<1> HIDE DEF name
<1>9. Objects(objects') /\ OnlyAt(objects', objects, name)
  <2>1. Objects(objects)
    BY DEF TypeOK
  <2>2. CASE Known(name)
    BY <1>2, <1>3, <2>1, <2>2, RedeclareFacts
  <2>3. CASE ~Known(name)
    <3>1. Object(linkage, init.value) \in GlobalObject
      BY <1>3 DEF Object, GlobalObject, LinkageOrNone
    <3> QED
      BY <1>2, <1>4, <2>1, <2>3, <3>1, PutFacts
  <2> QED
    BY <2>2, <2>3
<1>10. FilesStay(objects', objects)
  BY <1>4, <1>9, FilesAt
<1> QED
  BY <1>2, <1>4, <1>7, <1>8, <1>9, <1>10 DEF LocalMade

LEMMA AutoObjectMakes ==
  ASSUME TypeOK, NEW x \in Name, NEW shape, AutoObject(x, shape)
  PROVE  Stop("undefined") \/ LocalMade(x, Alloca(x, count))
<1> DEFINE init == AutoInit(shape)
           copy == ConstName(getLocalStaticName(x))
           name == Alloca(x, count)
           O    == IF CopiesGlobal(shape) THEN Put(objects, copy, Object("internal", init.value))
                   ELSE objects
<1>1. SUFFICES ASSUME ~Stop("undefined")
               PROVE  LocalMade(x, name)
  OBVIOUS
<1>2. /\ CanDeclare(shape) /\ ~Mismatch(shape) /\ Count(shape)
      /\ init.outcome # "undefined"
      /\ objects' = Put(O, name, Object(None, init.value))
      /\ IF CopiesGlobal(shape) THEN CountStatic(x) ELSE UNCHANGED counter
      /\ symbolTablePush(x, name)
      /\ UNCHANGED <<functions, current, status>>
  BY <1>1 DEF AutoObject
<1>3. init.value \in GlobalValue
  <2>1. shape \in Shapes
    BY <1>2, Offers
  <2>2. init \in Outcome
    BY <2>1 DEF Outcome
  <2>3. init.outcome # "thrown"
    BY <1>2, <2>1, StoresDoNotThrow DEF Mismatch
  <2> QED
    BY <1>2, <2>2, <2>3, OutcomeIsValue
<1> HIDE DEF init
<1>4. /\ name \in ObjectName /\ name.kind = "alloca" /\ ~Behind(name, counter, count)
      /\ copy \in ObjectName /\ copy.kind = "const"
  BY LocalNames
<1>5. count' \in Nat /\ count < count'
  BY <1>2, Counted
<1>6. Later(counter', count', counter, count)
  BY <1>2, <1>5 DEF CountStatic, Later, TypeOK
<1>7. Behind(name, counter', count')
  BY <1>5 DEF Behind, Alloca
<1> HIDE DEF name, copy
<1>8. /\ Object(None, init.value) \in GlobalObject
      /\ Object("internal", init.value) \in GlobalObject
  BY <1>3 DEF Object, GlobalObject, LinkageOrNone
<1>9. Objects(O) /\ FilesStay(O, objects)
  <2>1. Objects(objects)
    BY DEF TypeOK
  <2>2. CASE CopiesGlobal(shape)
    <3>1. O = Put(objects, copy, Object("internal", init.value))
      BY <2>2
    <3> QED
      BY <1>4, <1>8, <2>1, <3>1, PutFacts, FilesAt
  <2>3. CASE ~CopiesGlobal(shape)
    BY <2>1, <2>3 DEF FilesStay
  <2> QED
    BY <2>2, <2>3
<1> HIDE DEF O
<1>10. Objects(objects') /\ FilesStay(objects', O)
  BY <1>2, <1>4, <1>8, <1>9, PutFacts, FilesAt
<1>11. FilesStay(objects', objects)
  BY <1>9, <1>10, FilesStayTwice
<1> QED
  BY <1>2, <1>4, <1>6, <1>7, <1>10, <1>11 DEF LocalMade

LEMMA LocalObjectStep ==
  ASSUME IInv, NEW x \in Name, NEW storage \in Storage, NEW shape \in Offered,
         CheckLocalObject(x, storage, shape)
  PROVE  IInv'
<1> DEFINE isStatic == storage = "static"
           value == ValueInC(shape, isStatic)
           departs == IsDeparture(shape, isStatic)
           yes == TRUE
           name == symbolTable'[Len(symbolTable)][x]
           r == Entity(x, "object", TypeIn(shape), None, value, yes, departs, name)
<1>1. /\ ~isGlobal /\ CanDeclare(shape)
      /\ \/ isStatic /\ StaticObject(x, storage, shape)
         \/ ~isStatic /\ AutoObject(x, shape)
         \/ IncompatibleInit(shape)
      /\ entities' = Append(entities, r)
      /\ Means(x, Len(entities) + 1) /\ excused' = departs
  BY DEF CheckLocalObject
<1>2. TypeOK /\ status = "open" /\ shape \in Shapes /\ Matching
  BY <1>1, Offers DEF IInv
<1>3. value \in CValue /\ departs \in BOOLEAN
  <2>1. isStatic \in BOOLEAN
    OBVIOUS
  <2>2. \A b \in BOOLEAN : ValueInC(shape, b) \in CValue /\ IsDeparture(shape, b) \in BOOLEAN
    BY <1>2, CValues, IsDepartureIsTruth
  <2> HIDE DEF isStatic
  <2> QED
    BY <2>1, <2>2
<1>4. yes \in BOOLEAN
  OBVIOUS
<1> HIDE DEF value, departs, yes
<1>5. name \in Denoted => r \in AnyEntity
  <2> HIDE DEF name
  <2> QED
    BY <1>2, <1>3, <1>4 DEF Entity, AnyEntity, LinkageOrNone
<1>6. /\ r.id = x /\ r.kind = "object" /\ r.linkage = None /\ r.object = name
  BY DEF Entity
<1>7. /\ entities \in Seq(AnyEntity) /\ Len(entities) \in Nat
      /\ scopes \in Seq(CScope) /\ symbolTable \in Seq(SymbolScope)
      /\ Len(scopes) = Len(symbolTable) /\ Len(scopes) \in 1..Len(scopes)
  <2>1. /\ entities \in Seq(AnyEntity) /\ scopes \in Seq(CScope) /\ symbolTable \in Seq(SymbolScope)
        /\ Len(scopes) = Len(symbolTable) /\ Len(scopes) > 0
    BY <1>2 DEF TypeOK, Stacks
  <2>2. Len(entities) \in Nat /\ Len(scopes) \in Nat
    BY <2>1, LenProperties
  <2> QED
    BY <2>1, <2>2
<1>8. /\ scopes' \in Seq(CScope) /\ Len(scopes') = Len(scopes)
      /\ Declared(scopes', scopes, Len(scopes), x, Len(entities) + 1)
  <2>1. scopes' = [scopes EXCEPT ![Len(scopes)][x] = Len(entities) + 1]
    BY <1>1 DEF Means
  <2> DEFINE e == Len(entities) + 1
             S == [scopes EXCEPT ![Len(scopes)][x] = e]
  <2>2. e \in Nat
    BY <1>7
  <2> HIDE DEF e
  <2>3. S \in Seq([Name -> Nat]) /\ Declared(S, scopes, Len(scopes), x, e)
    BY <1>7, <2>2, DeclaredName DEF CScope
  <2>4. scopes' = S
    BY <2>1 DEF e
  <2> QED
    BY <2>3, <2>4 DEF Declared, CScope, e
<1> HIDE DEF r
<1>9. ASSUME NEW reason \in {"rejected", "undefined"}, Count(shape), Stop(reason)
      PROVE  IInv'
  <2>1. name \in Denoted
    <3>1. symbolTable' = symbolTable
      BY <1>9 DEF Stop
    <3>2. Len(symbolTable) \in 1..Len(symbolTable)
      BY <1>7
    <3>3. symbolTable[Len(symbolTable)] \in SymbolScope
      BY <1>7, <3>2, ElementOfSeq
    <3> QED
      BY <3>1, <3>3 DEF SymbolScope
  <2>2. entities' \in Seq(AnyEntity)
    BY <1>1, <1>5, <1>7, <2>1, AppendProperties
  <2> QED
    BY <1>1, <1>2, <1>3, <1>8, <1>9, <2>2, StopKeepsIInv
<1>10. ASSUME NEW made, LocalMade(x, made)
       PROVE  IInv'
  <2>1. /\ made \in ObjectName /\ ~Behind(made, counter, count) /\ Behind(made, counter', count')
        /\ Objects(objects') /\ FilesStay(objects', objects)
        /\ Later(counter', count', counter, count)
        /\ symbolTablePush(x, made) /\ UNCHANGED <<functions, current, status>>
    BY <1>10 DEF LocalMade
  <2>2. /\ symbolTable' \in Seq(SymbolScope) /\ Len(symbolTable') = Len(symbolTable)
        /\ Declared(symbolTable', symbolTable, Len(scopes), x, made) /\ name = made
    BY <1>2, <2>1, PushFacts
  <2> HIDE DEF name
  <2>3. r \in AnyEntity
    BY <1>5, <2>1, <2>2 DEF Denoted
  <2>4. entities' \in Seq(AnyEntity) /\ Appended(entities', entities, r)
    BY <1>1, <1>7, <2>3, AppendedEntity
  <2>5. TypeOK'
    <3>1. Stacks(scopes', symbolTable')
      BY <1>2, <1>8, <2>2 DEF TypeOK, Stacks
    <3>2. counter' \in [Name -> Nat] /\ count' \in Nat
      BY <2>1 DEF Later
    <3> QED
      BY <1>1, <1>2, <1>3, <2>1, <2>4, <3>1, <3>2 DEF TypeOK
  <2>6. Place(r, counter', count') /\ ~Behind(r.object, counter, count)
    BY <1>6, <2>1, <2>2 DEF Place
  <2>7. Matched(entities, scopes, symbolTable, functions, objects, counter, count)
    BY <1>2 DEF Matching
  <2>8. functions' = functions
    BY <2>1
  <2>9. r.linkage = None /\ Len(scopes) = Len(symbolTable)
    BY <1>6, <1>7
  <2>10. /\ Declared(scopes', scopes, Len(scopes), r.id, Len(entities) + 1)
         /\ Declared(symbolTable', symbolTable, Len(scopes), r.id, r.object)
    BY <1>6, <1>8, <2>2
  <2>11. Later(counter', count', counter, count) /\ FilesStay(objects', objects)
    BY <2>1
  <2>12. Matched(entities', scopes', symbolTable', functions, objects', counter', count')
    BY ONLY <2>3, <2>4, <2>6, <2>7, <2>9, <2>10, <2>11, MatchedLocal
  <2> QED
    BY <2>5, <2>8, <2>12 DEF IInv, Matching
<1>11. CASE IncompatibleInit(shape)
  BY <1>9, <1>11 DEF IncompatibleInit
<1>12. CASE StaticObject(x, storage, shape)
  <2>1. Count(shape)
    BY <1>12 DEF StaticObject
  <2>2. Stop("rejected") \/ Stop("undefined") \/ LocalMade(x, getLocalStaticName(x))
    BY <1>1, <1>2, <1>12, StaticObjectMakes
  <2> QED
    BY <1>9, <1>10, <2>1, <2>2
<1>13. CASE AutoObject(x, shape)
  <2>1. Count(shape)
    BY <1>13 DEF AutoObject
  <2>2. Stop("undefined") \/ LocalMade(x, Alloca(x, count))
    BY <1>2, <1>13, AutoObjectMakes
  <2> QED
    BY <1>9, <1>10, <2>1, <2>2
<1> QED
  BY <1>1, <1>11, <1>12, <1>13

LEMMA EnterBlockStep ==
  ASSUME IInv, CheckEnterBlock
  PROVE  IInv'
<1>1. /\ status = "open" /\ symbolTable' = Append(symbolTable, Empty) /\ scopes' = Append(scopes, Nothing)
      /\ UNCHANGED <<objects, functions, counter, current, count, status, entities, excused>>
  BY DEF CheckEnterBlock, EnterBlock
<1>2. TypeOK /\ Matching
  BY <1>1 DEF IInv
<1>3. /\ scopes \in Seq(CScope) /\ symbolTable \in Seq(SymbolScope)
      /\ Len(scopes) = Len(symbolTable) /\ Len(scopes) > 0
  BY <1>2 DEF TypeOK, Stacks
<1>4. /\ scopes' \in Seq(CScope) /\ Opened(scopes', scopes, Nothing)
      /\ symbolTable' \in Seq(SymbolScope) /\ Opened(symbolTable', symbolTable, Empty)
  BY <1>1, <1>3, FreshScopes, OpenedScope
<1>5. Stacks(scopes', symbolTable')
  BY <1>3, <1>4 DEF Stacks, Opened
<1>6. Mirror(scopes', symbolTable', entities)
  BY <1>2, <1>3, <1>4, MirrorOpened DEF Matching, Matched
<1> QED
  BY <1>1, <1>2, <1>5, <1>6 DEF IInv, TypeOK, Matching, Matched

(* Leaving a block, or a function                                          *)
LEMMA ClosedStep ==
  ASSUME IInv, status = "open", NEW n \in 1..Len(scopes),
         scopes' = SubSeq(scopes, 1, n), symbolTable' = SubSeq(symbolTable, 1, n),
         current' \in Fn \cup {None},
         UNCHANGED <<objects, functions, counter, count, status, entities, excused>>
  PROVE  IInv'
<1>1. TypeOK /\ Matching
  BY DEF IInv
<1>2. /\ scopes \in Seq(CScope) /\ symbolTable \in Seq(SymbolScope)
      /\ Len(scopes) = Len(symbolTable) /\ n \in Nat /\ n > 0
  <2>1. /\ scopes \in Seq(CScope) /\ symbolTable \in Seq(SymbolScope) /\ Len(scopes) = Len(symbolTable)
    BY <1>1 DEF TypeOK, Stacks
  <2>2. Len(scopes) \in Nat
    BY <2>1, LenProperties
  <2> QED
    BY <2>1, <2>2
<1>3. /\ scopes' \in Seq(CScope) /\ Closed(scopes', scopes) /\ Len(scopes') = n
      /\ symbolTable' \in Seq(SymbolScope) /\ Closed(symbolTable', symbolTable)
      /\ Len(symbolTable') = n
  BY <1>2, ClosedScopes
<1>4. Stacks(scopes', symbolTable')
  BY <1>2, <1>3 DEF Stacks
<1>5. Mirror(scopes', symbolTable', entities)
  BY <1>1, <1>3, MirrorClosed DEF Matching, Matched
<1> QED
  BY <1>1, <1>4, <1>5 DEF IInv, TypeOK, Matching, Matched

LEMMA LeaveBlockStep ==
  ASSUME IInv, CheckLeaveBlock
  PROVE  IInv'
<1>1. /\ status = "open" /\ Len(symbolTable) > 3
      /\ symbolTable' = SubSeq(symbolTable, 1, Len(symbolTable) - 1)
      /\ scopes' = SubSeq(scopes, 1, Len(scopes) - 1)
      /\ UNCHANGED <<objects, functions, counter, current, count, status, entities, excused>>
  BY DEF CheckLeaveBlock, LeaveBlock
<1>2. /\ scopes \in Seq(CScope) /\ Len(scopes) = Len(symbolTable) /\ current \in Fn \cup {None}
  BY DEF IInv, TypeOK, Stacks
<1>3. Len(scopes) - 1 \in 1..Len(scopes)
  BY <1>1, <1>2, LenProperties
<1> QED
  BY <1>1, <1>2, <1>3, ClosedStep

LEMMA EndFunctionStep ==
  ASSUME IInv, CheckEndFunction
  PROVE  IInv'
<1> DEFINE n == 1
<1>1. /\ status = "open" /\ Len(symbolTable) = 3
      /\ symbolTable' = SubSeq(symbolTable, 1, n) /\ scopes' = SubSeq(scopes, 1, n)
      /\ current' \in Fn \cup {None}
      /\ UNCHANGED <<objects, functions, counter, count, status, entities, excused>>
  BY DEF CheckEndFunction, EndFunction
<1>2. n \in 1..Len(scopes)
  BY <1>1 DEF IInv, TypeOK, Stacks
<1> HIDE DEF n
<1> QED
  BY <1>1, <1>2, ClosedStep

-----------------------------------------------------------------------------
(* Every step keeps the invariant                                          *)

LEMMA InitInv == CheckInit => IInv
<1> SUFFICES ASSUME CheckInit
             PROVE  IInv
  OBVIOUS
<1>1. /\ objects = << >> /\ functions = [f \in Fn |-> None] /\ counter = [x \in Name |-> 0]
      /\ symbolTable = <<Empty>> /\ current = None /\ count = 0 /\ status = "open"
      /\ entities = << >> /\ scopes = <<Nothing>> /\ excused = FALSE
  BY DEF CheckInit, Init
<1>2. Objects(objects) /\ DOMAIN objects = {}
  <2>1. DOMAIN objects = {} /\ objects \in [{} -> GlobalObject]
    BY <1>1
  <2> QED
    BY <2>1 DEF Objects
<1>3. entities \in Seq(AnyEntity) /\ Len(entities) = 0
  BY <1>1, EmptySeq
<1>4. /\ scopes \in Seq(CScope) /\ Len(scopes) = 1 /\ scopes[1] = Nothing
      /\ symbolTable \in Seq(SymbolScope) /\ Len(symbolTable) = 1 /\ symbolTable[1] = Empty
  BY <1>1, FreshScopes
<1>5. TypeOK
  <2>1. Stacks(scopes, symbolTable)
    BY <1>4 DEF Stacks
  <2>2. functions \in [Fn -> LinkageOrNone] /\ counter \in [Name -> Nat]
    BY <1>1 DEF LinkageOrNone
  <2> QED
    BY <1>1, <1>2, <1>3, <2>1, <2>2 DEF TypeOK
<1>6. Identified(entities, counter, count)
  BY <1>3 DEF Identified, Distinct
<1>7. Mirror(scopes, symbolTable, entities)
  BY <1>4 DEF Mirror, Agrees, Nothing, Empty
<1>8. FunctionsMatch(entities, functions)
  BY <1>1, <1>3 DEF FunctionsMatch
<1>9. ObjectsMatch(entities, objects)
  BY <1>2, <1>3 DEF ObjectsMatch, FilesAreLinked
<1> QED
  BY <1>5, <1>6, <1>7, <1>8, <1>9 DEF IInv, Matching, Matched

LEMMA StutterInv == IInv /\ UNCHANGED allvars => IInv'
<1> SUFFICES ASSUME IInv, UNCHANGED allvars
             PROVE  IInv'
  OBVIOUS
<1>1. UNCHANGED <<objects, functions, counter, symbolTable, current, count, status,
                 entities, scopes, excused>>
  BY DEF allvars, vars, cvars
<1> QED
  BY <1>1 DEF IInv, TypeOK, Matching, Matched

LEMMA NextInv == IInv /\ [CheckNext]_allvars => IInv'
<1> SUFFICES ASSUME IInv, [CheckNext]_allvars
             PROVE  IInv'
  OBVIOUS
<1>1. CASE \E x \in Id, storage \in Storage, shape \in Offered : CheckFileObject(x, storage, shape)
  BY <1>1, FileObjectStep
<1>2. CASE \E storage \in Storage, shape \in Offered :
             \E x \in IF shape = Default THEN Name ELSE Id : CheckLocalObject(x, storage, shape)
  <2>1. PICK storage \in Storage, shape \in Offered :
               \E x \in IF shape = Default THEN Name ELSE Id : CheckLocalObject(x, storage, shape)
    BY <1>2
  <2>2. PICK x \in Name : CheckLocalObject(x, storage, shape)
    BY <2>1 DEF Name
  <2> QED
    BY <2>2, LocalObjectStep
<1>3. CASE \E x \in Id, shape \in Plain : CheckExternObject(x, shape)
  BY <1>3, ExternObjectStep
<1>4. CASE \E f \in Fn, storage \in Storage : CheckFnDecl(f, storage)
  BY <1>4, FnDeclStep
<1>5. CASE \E f \in Fn, storage \in Storage : CheckFnDef(f, storage)
  BY <1>5, FnDefStep
<1>6. CASE CheckEnterBlock
  BY <1>6, EnterBlockStep
<1>7. CASE CheckLeaveBlock
  BY <1>7, LeaveBlockStep
<1>8. CASE CheckEndFunction
  BY <1>8, EndFunctionStep
<1>9. CASE UNCHANGED allvars
  BY <1>9, StutterInv
<1> QED
  BY <1>1, <1>2, <1>3, <1>4, <1>5, <1>6, <1>7, <1>8, <1>9 DEF CheckNext

LEMMA Invariant == CheckSpec => []IInv
<1> QED
  BY InitInv, NextInv, PTL DEF CheckSpec

-----------------------------------------------------------------------------
(* The values of objects                                                   *)

(* What the initializers by themselves have to do: that of a static object *)
(* evaluates to the value of C,                                            *)
StaticFollowsC ==
  \A shape \in Shapes, hasExtern \in BOOLEAN :
    LET init == StaticInit(shape, hasExtern) IN
      /\ init.outcome \notin {"thrown", "undefined"} /\ ~Mismatch(shape)
      /\ HasInit(shape) => InitIsConstant(shape)
      /\ ~IsDeparture(shape, TRUE)
      => init.value = IF ~HasInit(shape) /\ hasExtern THEN << >> ELSE ValueInC(shape, TRUE)

(* that of an automatic object leaves that value in it,                    *)
AutoFollowsC ==
  \A shape \in Shapes :
    /\ AutoInit(shape).outcome # "undefined" /\ ~Mismatch(shape)
    /\ ~InitHasOperators(shape)
    /\ ~IsDeparture(shape, FALSE)
    => AutoInit(shape).value = ValueInC(shape, FALSE)

(* and null is a matter of the type.                                       *)
NullIsOfTheType ==
  \A s, t \in Shapes :
    ~HasInit(s) /\ ~HasInit(t) /\ TypeIn(s) = TypeIn(t) => ValueInC(s, TRUE) = ValueInC(t, TRUE)

(* An object that is not yet initialized, but has a tentative definition,  *)
(* is null.                                                                *)
IsNull(entity) ==
  \E s \in Shapes : ~HasInit(s) /\ TypeIn(s) = entity.type /\ entity.value = ValueInC(s, TRUE)

HasValue(entity, O) ==
  /\ entity.object \in DOMAIN O
  /\ ~entity.departs => O[entity.object].initializer = entity.value
  /\ entity.linkage # None /\ ~entity.initialized /\ entity.value # << >> => IsNull(entity)

(* The static names that are taken are behind the counters.                *)
StaticsBehind(O, c) == \A name \in DOMAIN O : name.kind = "static" => Behind(name, c, 0)

ValuesMatch(E, O, c) ==
  /\ \A e \in 1..Len(E) : E[e].kind = "object" => HasValue(E[e], O)
  /\ StaticsBehind(O, c)

VInv == status = "open" => ValuesMatch(entities, objects, counter)

LEMMA ValueStays ==
  ASSUME NEW entity, NEW O, NEW O2, HasValue(entity, O),
         entity.object \in DOMAIN O2, O2[entity.object] = O[entity.object]
  PROVE  HasValue(entity, O2)
BY DEF HasValue

(* The objects of all other entities are as they were.                     *)
OthersKeep(E, l, O2, O) ==
  \A e \in 1..Len(E) : E[e].kind = "object" /\ e # l =>
    E[e].object \in DOMAIN O2 /\ O2[E[e].object] = O[E[e].object]

LEMMA ValuesNew ==
  ASSUME NEW E, NEW E2, NEW r, NEW O, NEW O2, NEW c, NEW c2,
         ValuesMatch(E, O, c), Appended(E2, E, r), OthersKeep(E, 0, O2, O),
         r.kind = "object" => HasValue(r, O2), StaticsBehind(O2, c2)
  PROVE  ValuesMatch(E2, O2, c2)
<1>1. SUFFICES ASSUME NEW e \in 1..Len(E2), E2[e].kind = "object"
               PROVE  HasValue(E2[e], O2)
  BY DEF ValuesMatch
<1>2. \/ e \in 1..Len(E) /\ e # 0 /\ E2[e] = E[e]
      \/ E2[e] = r
  BY DEF Appended
<1>3. CASE e \in 1..Len(E) /\ e # 0 /\ E2[e] = E[e]
  <2>1. HasValue(E[e], O) /\ E[e].object \in DOMAIN O2 /\ O2[E[e].object] = O[E[e].object]
    BY <1>1, <1>3 DEF ValuesMatch, OthersKeep
  <2> QED
    BY <1>3, <2>1, ValueStays
<1>4. CASE E2[e] = r
  BY <1>1, <1>4
<1> QED
  BY <1>2, <1>3, <1>4

LEMMA ValuesAgain ==
  ASSUME NEW E, NEW E2, NEW l, NEW r, NEW O, NEW O2, NEW c, NEW c2,
         ValuesMatch(E, O, c), Replaced(E2, E, l, r), OthersKeep(E, l, O2, O),
         r.kind = "object" => HasValue(r, O2), StaticsBehind(O2, c2)
  PROVE  ValuesMatch(E2, O2, c2)
<1>1. SUFFICES ASSUME NEW e \in 1..Len(E2), E2[e].kind = "object"
               PROVE  HasValue(E2[e], O2)
  BY DEF ValuesMatch
<1>2. e \in 1..Len(E) /\ E2[e] = IF e = l THEN r ELSE E[e]
  BY DEF Replaced
<1>3. CASE e # l
  <2>1. HasValue(E[e], O) /\ E[e].object \in DOMAIN O2 /\ O2[E[e].object] = O[E[e].object]
    BY <1>1, <1>2, <1>3 DEF ValuesMatch, OthersKeep
  <2> QED
    BY <1>2, <1>3, <2>1, ValueStays
<1>4. CASE e = l
  BY <1>1, <1>2, <1>4
<1> QED
  BY <1>3, <1>4

LEMMA KeepsAll ==
  ASSUME NEW E, NEW O, NEW O2, NEW c, NEW name, NEW l, ValuesMatch(E, O, c), OnlyAt(O2, O, name),
         \A e \in 1..Len(E) : E[e].kind = "object" /\ e # l => E[e].object # name
  PROVE  OthersKeep(E, l, O2, O)
<1>1. SUFFICES ASSUME NEW e \in 1..Len(E), E[e].kind = "object", e # l
               PROVE  E[e].object \in DOMAIN O2 /\ O2[E[e].object] = O[E[e].object]
  BY DEF OthersKeep
<1>2. E[e].object \in DOMAIN O
  BY <1>1 DEF ValuesMatch, HasValue
<1> QED
  BY <1>1, <1>2 DEF OnlyAt

LEMMA StaticsStay ==
  ASSUME NEW O, NEW O2, NEW c, NEW c2, NEW name, Objects(O), StaticsBehind(O, c), OnlyAt(O2, O, name),
         name.kind = "static" => Behind(name, c2, 0),
         c \in [Name -> Nat], c2 \in [Name -> Nat], \A x \in Name : c[x] <= c2[x]
  PROVE  StaticsBehind(O2, c2)
<1>1. SUFFICES ASSUME NEW m \in DOMAIN O2, m.kind = "static", m # name
               PROVE  Behind(m, c2, 0)
  BY DEF StaticsBehind
<1>2. m \in DOMAIN O
  BY <1>1 DEF OnlyAt
<1>3. Behind(m, c, 0) /\ m \in ObjectName
  BY <1>1, <1>2 DEF StaticsBehind, Objects
<1>4. m.id \in Name /\ m.n \in Nat
  BY <1>3 DEF ObjectName
<1>5. c[m.id] \in Nat /\ c2[m.id] \in Nat /\ c[m.id] <= c2[m.id]
  BY <1>4
<1>6. c[m.id] > 0 /\ m.n <= c[m.id]
  BY <1>1, <1>3 DEF Behind
<1>7. c2[m.id] > 0 /\ m.n <= c2[m.id]
  BY <1>4, <1>5, <1>6
<1> QED
  BY <1>1, <1>7 DEF Behind

(* A step that goes on is not one that stops.                              *)
LEMMA GoesOn ==
  ASSUME status' = "open"
  PROVE  ~Stop("rejected") /\ ~Stop("undefined") /\ \A shape : ~IncompatibleInit(shape)
BY DEF Stop, IncompatibleInit

LEMMA FileValuesStep ==
  ASSUME StaticFollowsC, NullIsOfTheType, IInv, IInv', VInv, status' = "open",
         NEW x \in Id, NEW storage \in Storage, NEW shape \in Offered,
         CheckFileObject(x, storage, shape)
  PROVE  VInv'
<1> DEFINE linkage == Linkage(x, storage, FALSE)
           value   == StaticInC(shape, storage)
           departs == IsDeparture(shape, TRUE)
           hasExtern == storage = "extern"
           init    == StaticInit(shape, hasExtern)
           name    == FileName(x)
<1>1. TypeOK /\ status = "open" /\ shape \in Shapes /\ Matching /\ x \in Name
  BY FileObjectFacts
<1>2. Matching' /\ ValuesMatch(entities, objects, counter)
  BY <1>1 DEF IInv, VInv
<1>3. StaticObject(x, storage, shape) /\ ~Stop("rejected") /\ ~Stop("undefined")
  BY GoesOn DEF CheckFileObject
<1>4. /\ init.outcome \notin {"thrown", "undefined"} /\ ~Mismatch(shape)
      /\ UNCHANGED counter
      /\ OnlyAt(objects', objects, name)
      /\ Known(name) =>
           objects'[name].initializer =
             IF HasInit(shape) \/ objects[name].initializer = << >> THEN init.value
             ELSE objects[name].initializer
      /\ ~Known(name) => objects'[name].initializer = init.value
  BY <1>3, FileObjectMakes
<1>5. ~departs => init.value = value
  <2>1. HasInit(shape) => InitIsConstant(shape)
    BY DEF CheckFileObject
  <2>2. hasExtern \in BOOLEAN
    OBVIOUS
  <2>3. ~departs => init.value = IF ~HasInit(shape) /\ hasExtern THEN << >> ELSE ValueInC(shape, TRUE)
    <3> HIDE DEF hasExtern
    <3> QED
      BY <1>1, <1>4, <2>1, <2>2 DEF StaticFollowsC
  <2> QED
    BY <2>3 DEF StaticInC
<1>6. ~HasInit(shape) /\ value # << >> => value = ValueInC(shape, TRUE)
  BY DEF StaticInC
<1>7. name \in DOMAIN objects' /\ name.kind = "file"
  BY <1>1, <1>4, FileNames DEF OnlyAt
<1>8. /\ \/ /\ ~HasLinkage(entities, x)
            /\ LET r == Entity(x, "object", TypeIn(shape), linkage, value, HasInit(shape),
                               departs, name)
               IN  r \in AnyEntity /\ Appended(entities', entities, r)
         \/ \E l \in 1..Len(entities), r \in AnyEntity :
              /\ IsLinked(entities[l], x)
              /\ entities[l].kind = "object" /\ entities[l].linkage = linkage
              /\ entities[l].type = TypeIn(shape)
              /\ Replaced(entities', entities, l, r) /\ Alike(r, entities[l])
              /\ Completes(r, entities[l], value, HasInit(shape), departs)
  BY FileObjectDeclares
<1> HIDE DEF linkage, value, departs, init, name
<1>9. StaticsBehind(objects', counter')
  <2>1. counter \in [Name -> Nat] /\ Objects(objects) /\ StaticsBehind(objects, counter)
    BY <1>1, <1>2 DEF TypeOK, ValuesMatch
  <2>2. \A y \in Name : counter[y] <= counter[y]
    BY <2>1
  <2>3. StaticsBehind(objects', counter)
    BY <1>4, <1>7, <2>1, <2>2, StaticsStay
  <2> QED
    BY <1>4, <2>3
<1>10. Distinct(entities) /\ Distinct(entities')
  BY <1>1, <1>2 DEF Matching, Matched, Identified
<1>11. CASE ~HasLinkage(entities, x)
  <2> DEFINE r == Entity(x, "object", TypeIn(shape), linkage, value, HasInit(shape), departs, name)
  <2>1. Appended(entities', entities, r)
    BY <1>8, <1>11 DEF HasLinkage
  <2>2. /\ r.object = name /\ r.value = value /\ r.type = TypeIn(shape)
        /\ r.departs <=> departs
        /\ r.initialized <=> HasInit(shape)
    BY DEF Entity
  <2> HIDE DEF r
  <2>3. ~Known(name)
    <3>1. FilesAreLinked(entities, objects)
      BY <1>1 DEF Matching, Matched, ObjectsMatch
    <3> QED
      BY <1>1, <1>11, <3>1, FileNames DEF FilesAreLinked, Known, name
  <2>4. HasValue(r, objects')
    BY <1>1, <1>4, <1>5, <1>6, <1>7, <2>2, <2>3 DEF HasValue, IsNull
  <2>5. OthersKeep(entities, 0, objects', objects)
    <3>1. ASSUME NEW e \in 1..Len(entities), entities[e].object = name
          PROVE  FALSE
      <4>1. /\ e \in 1..Len(entities') /\ Len(entities) + 1 \in 1..Len(entities')
            /\ entities'[e] = entities[e] /\ entities'[Len(entities) + 1] = r
            /\ e # Len(entities) + 1
        BY <2>1 DEF Appended
      <4> QED
        BY <1>10, <2>2, <3>1, <4>1 DEF Distinct
    <3> QED
      BY <1>2, <1>4, <3>1, KeepsAll
  <2>6. ValuesMatch(entities', objects', counter')
    BY <1>2, <1>9, <2>1, <2>4, <2>5, ValuesNew
  <2> QED
    BY <2>6 DEF VInv
<1>12. CASE HasLinkage(entities, x)
  <2>1. PICK l \in 1..Len(entities), r \in AnyEntity :
          /\ IsLinked(entities[l], x)
          /\ entities[l].kind = "object" /\ entities[l].linkage = linkage
          /\ entities[l].type = TypeIn(shape)
          /\ Replaced(entities', entities, l, r) /\ Alike(r, entities[l])
          /\ Completes(r, entities[l], value, HasInit(shape), departs)
    BY <1>8, <1>12
  <2> DEFINE old == entities[l]
  <2>2. /\ r.value = IF HasInit(shape) \/ (value # << >> /\ ~old.initialized) THEN value ELSE old.value
        /\ r.initialized <=> old.initialized \/ HasInit(shape)
        /\ r.departs <=> old.departs \/ departs
        /\ r.type = TypeIn(shape) /\ old.type = TypeIn(shape)
        /\ r.linkage = old.linkage /\ r.object = old.object
    BY <2>1 DEF Completes, Alike
  <2>3. Completed(old, objects) /\ old.object = name /\ old.linkage # None
    <3>1. IsLinked(old, x) /\ Place(old, counter, count) /\ Completed(old, objects)
      BY <1>1, <2>1 DEF Matching, Matched, Identified, ObjectsMatch
    <3> QED
      BY <3>1 DEF IsLinked, Place, name
  <2>4. /\ HasValue(old, objects) /\ Known(name)
        /\ old.initialized => old.value # << >>
        /\ objects[name].initializer = << >> <=> old.value = << >>
    <3>1. HasValue(old, objects)
      BY <1>2, <2>1 DEF ValuesMatch
    <3>2. name = FileName(old.id)
      BY <2>1 DEF IsLinked, name
    <3> QED
      BY <2>3, <3>1, <3>2 DEF Completed, Known
  <2> HIDE DEF old
  <2>5. ASSUME ~HasInit(shape), value # << >>, ~old.initialized, old.value # << >>
        PROVE  old.value = value
    <3>1. IsNull(old)
      BY <2>3, <2>4, <2>5 DEF HasValue
    <3>2. PICK s \in Shapes : ~HasInit(s) /\ TypeIn(s) = TypeIn(shape) /\ old.value = ValueInC(s, TRUE)
      BY <2>2, <3>1 DEF IsNull
    <3>3. ValueInC(s, TRUE) = ValueInC(shape, TRUE)
      BY <1>1, <2>5, <3>2 DEF NullIsOfTheType
    <3> QED
      BY <1>6, <2>5, <3>2, <3>3
  <2>6. ~r.departs => objects'[name].initializer = r.value
    <3>1. SUFFICES ASSUME ~old.departs, ~departs
                   PROVE  objects'[name].initializer = r.value
      BY <2>2
    <3>2. objects[name].initializer = old.value /\ init.value = value
      BY <1>5, <2>3, <2>4, <3>1 DEF HasValue
    <3>3. objects'[name].initializer =
            IF HasInit(shape) \/ old.value = << >> THEN value ELSE old.value
      BY <1>4, <2>4, <3>2
    <3> QED
      BY <2>2, <2>4, <2>5, <3>3
  <2>7. ASSUME ~r.initialized, r.value # << >>
        PROVE  IsNull(r)
    <3>1. CASE value # << >>
      BY <1>1, <1>6, <2>2, <2>7, <3>1 DEF IsNull
    <3>2. CASE value = << >>
      <4>1. r.value = old.value /\ IsNull(old)
        BY <2>2, <2>3, <2>4, <2>7, <3>2 DEF HasValue
      <4> QED
        BY <2>2, <4>1 DEF IsNull
    <3> QED
      BY <3>1, <3>2
  <2>8. HasValue(r, objects')
    BY <1>7, <2>2, <2>3, <2>6, <2>7 DEF HasValue
  <2>9. OthersKeep(entities, l, objects', objects)
    <3>1. \A e \in 1..Len(entities) : e # l => entities[e].object # name
      BY <1>10, <2>1, <2>3 DEF Distinct, old
    <3> QED
      BY <1>2, <1>4, <3>1, KeepsAll
  <2>10. ValuesMatch(entities', objects', counter')
    BY <1>2, <1>9, <2>1, <2>8, <2>9, ValuesAgain
  <2> QED
    BY <2>10 DEF VInv
<1> QED
  BY <1>11, <1>12

LEMMA ExternValuesStep ==
  ASSUME IInv, IInv', VInv, NEW x \in Id, NEW shape \in Plain, CheckExternObject(x, shape)
  PROVE  VInv'
<1> DEFINE linkage == Linkage(x, "extern", FALSE)
           name == FileName(x)
           no == FALSE
<1>1. CanDeclare(shape) /\ UNCHANGED <<counter, status>>
  BY DEF CheckExternObject, ExternObject
<1>2. /\ TypeOK /\ status = "open" /\ status' = "open" /\ Matching /\ Matching'
      /\ x \in Name /\ ValuesMatch(entities, objects, counter)
  BY <1>1, Offers DEF IInv, VInv, Name
<1>3. /\ OnlyAt(objects', objects, name)
      /\ Known(name) => objects' = objects
      /\ ~Known(name) => objects'[name].initializer = << >>
  BY ExternObjectMakes
<1>4. \/ /\ ~HasLinkage(entities, x)
         /\ LET r == Entity(x, "object", TypeIn(shape), linkage, << >>, no, no, name)
            IN  r \in AnyEntity /\ Appended(entities', entities, r)
      \/ \E l \in 1..Len(entities), r \in AnyEntity :
           /\ IsLinked(entities[l], x)
           /\ entities[l].kind = "object" /\ entities[l].linkage = linkage
           /\ entities[l].type = TypeIn(shape)
           /\ Replaced(entities', entities, l, r) /\ Alike(r, entities[l])
           /\ Completes(r, entities[l], << >>, no, no)
  BY ExternObjectDeclares
<1>5. name \in DOMAIN objects' /\ name.kind = "file"
  BY <1>2, <1>3, FileNames DEF OnlyAt
<1> HIDE DEF linkage, name, no
<1>6. StaticsBehind(objects', counter')
  <2>1. counter \in [Name -> Nat] /\ Objects(objects) /\ StaticsBehind(objects, counter)
    BY <1>2 DEF TypeOK, ValuesMatch
  <2>2. \A y \in Name : counter[y] <= counter[y]
    BY <2>1
  <2>3. StaticsBehind(objects', counter)
    BY <1>3, <1>5, <2>1, <2>2, StaticsStay
  <2> QED
    BY <1>1, <2>3
<1>7. Distinct(entities) /\ Distinct(entities')
  BY <1>2 DEF Matching, Matched, Identified
<1>8. CASE ~HasLinkage(entities, x)
  <2> DEFINE r == Entity(x, "object", TypeIn(shape), linkage, << >>, no, no, name)
  <2>1. Appended(entities', entities, r)
    BY <1>4, <1>8 DEF HasLinkage
  <2>2. r.object = name /\ r.value = << >>
    BY DEF Entity
  <2> HIDE DEF r
  <2>3. ~Known(name)
    <3>1. FilesAreLinked(entities, objects)
      BY <1>2 DEF Matching, Matched, ObjectsMatch
    <3> QED
      BY <1>2, <1>8, <3>1, FileNames DEF FilesAreLinked, Known, name
  <2>4. HasValue(r, objects')
    BY <1>3, <1>5, <2>2, <2>3 DEF HasValue
  <2>5. OthersKeep(entities, 0, objects', objects)
    <3>1. ASSUME NEW e \in 1..Len(entities), entities[e].object = name
          PROVE  FALSE
      <4>1. /\ e \in 1..Len(entities') /\ Len(entities) + 1 \in 1..Len(entities')
            /\ entities'[e] = entities[e] /\ entities'[Len(entities) + 1] = r
            /\ e # Len(entities) + 1
        BY <2>1 DEF Appended
      <4> QED
        BY <1>7, <2>2, <3>1, <4>1 DEF Distinct
    <3> QED
      BY <1>2, <1>3, <3>1, KeepsAll
  <2>6. ValuesMatch(entities', objects', counter')
    BY <1>2, <1>6, <2>1, <2>4, <2>5, ValuesNew
  <2> QED
    BY <2>6 DEF VInv
<1>9. CASE HasLinkage(entities, x)
  <2>1. PICK l \in 1..Len(entities), r \in AnyEntity :
          /\ IsLinked(entities[l], x)
          /\ entities[l].kind = "object"
          /\ Replaced(entities', entities, l, r) /\ Alike(r, entities[l])
          /\ Completes(r, entities[l], << >>, no, no)
    BY <1>4, <1>9
  <2>2. objects' = objects
    <3>1. Completed(entities[l], objects) /\ entities[l].id = x
      BY <1>2, <2>1 DEF Matching, Matched, ObjectsMatch, IsLinked
    <3> QED
      BY <1>3, <3>1 DEF Completed, Known, name
  <2>3. HasValue(r, objects')
    <3>1. HasValue(entities[l], objects)
      BY <1>2, <2>1 DEF ValuesMatch
    <3>2. /\ r.value = entities[l].value /\ r.type = entities[l].type
          /\ (r.initialized <=> entities[l].initialized) /\ (r.departs <=> entities[l].departs)
          /\ r.linkage = entities[l].linkage /\ r.object = entities[l].object
      BY <2>1 DEF Completes, Alike, no
    <3> QED
      BY <2>2, <3>1, <3>2 DEF HasValue, IsNull
  <2>4. OthersKeep(entities, l, objects', objects)
    BY <1>2, <2>2 DEF OthersKeep, ValuesMatch, HasValue
  <2>5. ValuesMatch(entities', objects', counter')
    BY <1>2, <1>6, <2>1, <2>3, <2>4, ValuesAgain
  <2> QED
    BY <2>5 DEF VInv
<1> QED
  BY <1>8, <1>9

(* A function has no value.                                                *)
LEMMA FunctionValues ==
  ASSUME VInv, TypeOK, TypeOK', status = "open", NEW r, r.kind = "fn",
         \/ entities' = Append(entities, r)
         \/ \E l \in 1..Len(entities) : entities' = [entities EXCEPT ![l] = r],
         UNCHANGED <<objects, counter>>
  PROVE  VInv'
<1>1. /\ entities \in Seq(AnyEntity) /\ ValuesMatch(entities, objects, counter)
      /\ entities = [e \in 1..Len(entities) |-> entities[e]] /\ Len(entities) \in Nat
  BY LenProperties DEF VInv, TypeOK
<1>2. ASSUME NEW e \in 1..Len(entities'), entities'[e].kind = "object"
      PROVE  e \in 1..Len(entities) /\ entities'[e] = entities[e]
  <2>1. CASE entities' = Append(entities, r)
    <3>1. /\ Len(Append(entities, r)) = Len(entities) + 1
          /\ \A i \in 1..Len(entities) : Append(entities, r)[i] = entities[i]
          /\ Append(entities, r)[Len(entities) + 1] = r
      BY <1>1, AppendProperties
    <3> QED
      BY <1>1, <1>2, <2>1, <3>1
  <2>2. ASSUME NEW l \in 1..Len(entities), entities' = [entities EXCEPT ![l] = r]
        PROVE  e \in 1..Len(entities) /\ entities'[e] = entities[e]
    <3>1. DOMAIN entities' = 1..Len(entities)
      BY <1>1, <2>2
    <3>2. DOMAIN entities' = 1..Len(entities')
      BY LenProperties DEF TypeOK
    <3> QED
      BY <1>1, <1>2, <2>2, <3>1, <3>2
  <2> QED
    BY <2>1, <2>2
<1>3. ValuesMatch(entities', objects', counter')
  BY <1>1, <1>2 DEF ValuesMatch
<1> QED
  BY <1>3 DEF VInv

LEMMA FnDeclValuesStep ==
  ASSUME IInv, IInv', VInv, NEW f \in Fn, NEW storage \in Storage, CheckFnDecl(f, storage)
  PROVE  VInv'
<1> DEFINE linkage == Linkage(f, storage, TRUE)
           t == TypeIn(Default)
           no == FALSE
<1>1. /\ AgreesWith(f, "fn", t, linkage) /\ DeclareLinked(f, "fn", t, linkage, << >>, no, no)
      /\ status = "open" /\ UNCHANGED <<objects, counter>>
  BY DEF CheckFnDecl, FnDecl, CanDeclare
<1>2. TypeOK /\ TypeOK'
  BY DEF IInv
<1> HIDE DEF linkage, t, no
<1>3. CASE Linked(f) = 0
  <2> DEFINE r == Entity(f, "fn", t, linkage, << >>, no, no, FileName(f))
  <2>1. entities' = Append(entities, r) /\ r.kind = "fn"
    BY <1>1, <1>3 DEF DeclareLinked, Entity
  <2> HIDE DEF r
  <2> QED
    BY <1>1, <1>2, <2>1, FunctionValues
<1>4. CASE Linked(f) # 0
  <2> DEFINE l == Linked(f)
             old == entities[l]
             r == [old EXCEPT !.value = IF no \/ (<< >> # << >> /\ ~old.initialized) THEN << >> ELSE @,
                              !.initialized = @ \/ no, !.departs = @ \/ no]
  <2>1. entities' = [entities EXCEPT ![l] = r]
    BY <1>1, <1>4 DEF DeclareLinked
  <2>2. l \in 1..Len(entities) /\ old.kind = "fn"
    BY <1>1, <1>2, <1>4, LinkedFacts DEF AgreesWith
  <2>3. old \in AnyEntity
    BY <1>2, <2>2, ElementOfSeq DEF TypeOK
  <2>4. r.kind = "fn"
    <3> HIDE DEF old
    <3> QED
      BY <2>2, <2>3 DEF AnyEntity
  <2> HIDE DEF r, l
  <2> QED
    BY <1>1, <1>2, <2>1, <2>2, <2>4, FunctionValues
<1> QED
  BY <1>3, <1>4

LEMMA FnDefValuesStep ==
  ASSUME IInv, IInv', VInv, NEW f \in Fn, NEW storage \in Storage, CheckFnDef(f, storage)
  PROVE  VInv'
<1> DEFINE linkage == Linkage(f, storage, TRUE)
           t == TypeIn(Default)
           l == Linked(f)
           yes == TRUE
           new == Entity(f, "fn", t, linkage, << >>, yes, FALSE, FileName(f))
           old == [entities[l] EXCEPT !.initialized = yes]
<1>1. /\ AgreesWith(f, "fn", t, linkage)
      /\ entities' = IF l = 0 THEN Append(entities, new) ELSE [entities EXCEPT ![l] = old]
      /\ status = "open" /\ UNCHANGED <<objects, counter>>
  BY DEF CheckFnDef, FnDef, CanDeclare
<1>2. TypeOK /\ TypeOK'
  BY DEF IInv
<1>3. new.kind = "fn"
  BY DEF Entity
<1>4. CASE l = 0
  <2> HIDE DEF new
  <2> QED
    BY <1>1, <1>2, <1>3, <1>4, FunctionValues
<1>5. CASE l # 0
  <2>1. l \in 1..Len(entities) /\ entities[l].kind = "fn"
    BY <1>1, <1>2, <1>5, LinkedFacts DEF AgreesWith
  <2>2. entities[l] \in AnyEntity
    BY <1>2, <2>1, ElementOfSeq DEF TypeOK
  <2>3. old.kind = "fn"
    BY <2>1, <2>2 DEF AnyEntity
  <2> HIDE DEF old, l
  <2> QED
    BY <1>1, <1>2, <1>5, <2>1, <2>3, FunctionValues
<1> QED
  BY <1>4, <1>5

(* Of the objects there are, none has the name of a new local object, and  *)
(* none is the constant copy of one.                                       *)
LEMMA NewToAll ==
  ASSUME Matching, NEW name, name.kind \in {"static", "alloca", "const"},
         ~Behind(name, counter, count), NEW e \in 1..Len(entities)
  PROVE  entities[e].object # name
<1>1. Place(entities[e], counter, count)
  BY DEF Matching, Matched, Identified
<1>2. CASE entities[e].linkage # None
  BY <1>1, <1>2 DEF Place, FileName
<1>3. CASE entities[e].linkage = None
  BY <1>1, <1>3 DEF Place
<1> QED
  BY <1>2, <1>3

LEMMA StaticNameIsNew ==
  ASSUME TypeOK, StaticsBehind(objects, counter), NEW x \in Name
  PROVE  ~Known(getLocalStaticName(x))
<1>1. CASE Known(getLocalStaticName(x))
  <2>1. Behind(getLocalStaticName(x), counter, 0)
    BY <1>1, LocalNames DEF StaticsBehind, Known
  <2>2. Behind(getLocalStaticName(x), counter, count)
    BY <2>1, LocalNames DEF Behind
  <2> QED
    BY <2>2, LocalNames
<1> QED
  BY <1>1

(* What a local object begins with, and what it does to the other globals. *)
LocalValue(name, value) ==
  /\ name \in ObjectName /\ name.kind \in {"static", "alloca"}
  /\ ~Behind(name, counter, count)
  /\ name \in DOMAIN objects' /\ objects'[name].initializer = value
  /\ OthersKeep(entities, 0, objects', objects)
  /\ StaticsBehind(objects', counter')

LEMMA StaticValue ==
  ASSUME TypeOK, Matching, ValuesMatch(entities, objects, counter), status' = "open",
         NEW x \in Name, NEW storage, NEW shape, ~isGlobal, StaticObject(x, storage, shape)
  PROVE  /\ StaticInit(shape, storage = "extern").outcome \notin {"thrown", "undefined"}
         /\ ~Mismatch(shape)
         /\ symbolTablePush(x, getLocalStaticName(x))
         /\ LocalValue(getLocalStaticName(x), StaticInit(shape, storage = "extern").value)
<1> DEFINE init == StaticInit(shape, storage = "extern")
           name == getLocalStaticName(x)
           linkage == IF storage = "static" THEN "internal" ELSE "external"
<1>1. ~Stop("rejected") /\ ~Stop("undefined")
  BY GoesOn
<1>2. /\ CanDeclare(shape) /\ ~Mismatch(shape)
      /\ init.outcome \notin {"thrown", "undefined"}
      /\ objects' = IF Known(name) THEN Redeclare(name, shape, init.value)
                    ELSE Put(objects, name, Object(linkage, init.value))
      /\ CountStatic(x) /\ symbolTablePush(x, name)
  BY <1>1 DEF StaticObject
<1>3. init.value \in GlobalValue
  <2>1. shape \in Shapes
    BY <1>2, Offers
  <2>2. init \in Outcome
    BY <2>1, StaticOutcome
  <2> QED
    BY <1>2, <2>2, OutcomeIsValue
<1>4. /\ name \in ObjectName /\ name.kind = "static" /\ ~Behind(name, counter, count)
      /\ ~Known(name)
  BY LocalNames, StaticNameIsNew DEF ValuesMatch
<1>5. /\ counter \in [Name -> Nat] /\ counter' \in [Name -> Nat] /\ counter'[x] = counter[x] + 1
      /\ \A y \in Name : counter[y] <= counter'[y]
  BY <1>2 DEF CountStatic, TypeOK
<1>6. Behind(name, counter', 0)
  <2>1. counter[x] \in Nat
    BY <1>5
  <2> QED
    BY <1>5, <2>1 DEF Behind, getLocalStaticName
<1> HIDE DEF init, name
<1>7. Objects(objects) /\ StaticsBehind(objects, counter)
  BY DEF TypeOK, ValuesMatch
<1>8. /\ OnlyAt(objects', objects, name)
      /\ name \in DOMAIN objects' /\ objects'[name].initializer = init.value
  <2> DEFINE object == Object(linkage, init.value)
  <2>1. object \in GlobalObject /\ object.initializer = init.value
    BY <1>3 DEF Object, GlobalObject, LinkageOrNone
  <2> HIDE DEF object
  <2>2. objects' = Put(objects, name, object)
    BY <1>2, <1>4 DEF object
  <2>3. OnlyAt(objects', objects, name) /\ objects'[name] = object
    BY <1>4, <1>7, <2>1, <2>2, PutFacts
  <2> QED
    BY <2>1, <2>3 DEF OnlyAt
<1>9. OthersKeep(entities, 0, objects', objects)
  <2>1. \A e \in 1..Len(entities) : entities[e].object # name
    BY <1>4, NewToAll
  <2> QED
    BY <1>8, <2>1, KeepsAll
<1>10. StaticsBehind(objects', counter')
  BY <1>5, <1>6, <1>7, <1>8, StaticsStay
<1> QED
  BY <1>2, <1>4, <1>8, <1>9, <1>10 DEF LocalValue, init, name

LEMMA KeepTwice ==
  ASSUME NEW E, NEW O, NEW O2, NEW O3, OthersKeep(E, 0, O2, O), OthersKeep(E, 0, O3, O2)
  PROVE  OthersKeep(E, 0, O3, O)
BY DEF OthersKeep

(* One more global or alloca, which no entity has                          *)
LEMMA PutKeeps ==
  ASSUME NEW E, NEW O, Objects(O), NEW name \in ObjectName, NEW object \in GlobalObject,
         \A e \in 1..Len(E) : E[e].kind = "object" => E[e].object \in DOMAIN O /\ E[e].object # name
  PROVE  OthersKeep(E, 0, Put(O, name, object), O)
<1>1. OnlyAt(Put(O, name, object), O, name)
  BY PutFacts
<1> QED
  BY <1>1 DEF OnlyAt, OthersKeep

LEMMA PutStatics ==
  ASSUME NEW O, Objects(O), NEW name \in ObjectName, NEW object \in GlobalObject, NEW c,
         StaticsBehind(O, c), name.kind # "static"
  PROVE  StaticsBehind(Put(O, name, object), c)
<1>1. OnlyAt(Put(O, name, object), O, name)
  BY PutFacts
<1> QED
  BY <1>1 DEF OnlyAt, StaticsBehind

LEMMA AutoValue ==
  ASSUME TypeOK, Matching, ValuesMatch(entities, objects, counter), status' = "open",
         NEW x \in Name, NEW shape, AutoObject(x, shape)
  PROVE  /\ AutoInit(shape).outcome # "undefined"
         /\ ~Mismatch(shape)
         /\ symbolTablePush(x, Alloca(x, count))
         /\ LocalValue(Alloca(x, count), AutoInit(shape).value)
<1> DEFINE init == AutoInit(shape)
           copy == ConstName(getLocalStaticName(x))
           name == Alloca(x, count)
           constant == Object("internal", init.value)
           object == Object(None, init.value)
           O == IF CopiesGlobal(shape) THEN Put(objects, copy, constant) ELSE objects
<1>1. ~Stop("undefined")
  BY GoesOn
<1>2. /\ CanDeclare(shape) /\ ~Mismatch(shape)
      /\ init.outcome # "undefined"
      /\ objects' = Put(O, name, object)
      /\ IF CopiesGlobal(shape) THEN CountStatic(x) ELSE UNCHANGED counter
      /\ symbolTablePush(x, name)
  BY <1>1 DEF AutoObject
<1>3. init.value \in GlobalValue
  <2>1. shape \in Shapes
    BY <1>2, Offers
  <2>2. init \in Outcome
    BY <2>1 DEF Outcome
  <2>3. init.outcome # "thrown"
    BY <1>2, <2>1, StoresDoNotThrow DEF Mismatch
  <2> QED
    BY <1>2, <2>2, <2>3, OutcomeIsValue
<1> HIDE DEF init
<1>4. /\ name \in ObjectName /\ name.kind = "alloca" /\ ~Behind(name, counter, count)
      /\ copy \in ObjectName /\ copy.kind = "const"
  BY LocalNames
<1>5. ~Behind(copy, counter, count)
  BY <1>4 DEF Behind
<1> HIDE DEF name, copy
<1>6. constant \in GlobalObject /\ object \in GlobalObject /\ object.initializer = init.value
  BY <1>3 DEF Object, GlobalObject, LinkageOrNone
<1> HIDE DEF constant, object
<1>7. /\ Objects(objects) /\ StaticsBehind(objects, counter)
      /\ \A e \in 1..Len(entities) :
           entities[e].kind = "object" => entities[e].object \in DOMAIN objects
      /\ \A e \in 1..Len(entities) : entities[e].object # name /\ entities[e].object # copy
  <2>1. \A e \in 1..Len(entities) : entities[e].object # name /\ entities[e].object # copy
    BY <1>4, <1>5, NewToAll
  <2> QED
    BY <2>1 DEF TypeOK, ValuesMatch, HasValue
<1>8. Objects(O) /\ StaticsBehind(O, counter) /\ OthersKeep(entities, 0, O, objects)
  <2>1. CASE CopiesGlobal(shape)
    <3>1. O = Put(objects, copy, constant)
      BY <2>1
    <3>2. Objects(Put(objects, copy, constant))
      BY <1>4, <1>6, <1>7, PutFacts
    <3>3. StaticsBehind(Put(objects, copy, constant), counter)
      BY <1>4, <1>6, <1>7, PutStatics
    <3>4. OthersKeep(entities, 0, Put(objects, copy, constant), objects)
      BY <1>4, <1>6, <1>7, PutKeeps
    <3> QED
      BY <3>1, <3>2, <3>3, <3>4
  <2>2. CASE ~CopiesGlobal(shape)
    BY <1>7, <2>2 DEF OthersKeep
  <2> QED
    BY <2>1, <2>2
<1> HIDE DEF O
<1>9. \A e \in 1..Len(entities) :
        entities[e].kind = "object" => entities[e].object \in DOMAIN O /\ entities[e].object # name
  <2>1. \A e \in 1..Len(entities) : e # 0
    OBVIOUS
  <2> QED
    BY <1>7, <1>8, <2>1 DEF OthersKeep
<1>10. OthersKeep(entities, 0, Put(O, name, object), O)
  BY <1>4, <1>6, <1>8, <1>9, PutKeeps
<1>11. OthersKeep(entities, 0, objects', objects)
  BY <1>2, <1>8, <1>10, KeepTwice
<1>12. /\ Objects(objects') /\ StaticsBehind(objects', counter)
       /\ name \in DOMAIN objects' /\ objects'[name] = object
  BY <1>2, <1>4, <1>6, <1>8, PutFacts, PutStatics DEF OnlyAt
<1>13. StaticsBehind(objects', counter')
  <2>1. /\ counter \in [Name -> Nat] /\ counter' \in [Name -> Nat]
        /\ \A y \in Name : counter[y] <= counter'[y]
    BY <1>2 DEF CountStatic, TypeOK
  <2>2. OnlyAt(objects', objects', name)
    BY <1>12 DEF OnlyAt
  <2> QED
    BY <1>4, <1>12, <2>1, <2>2, StaticsStay
<1> QED
  BY <1>2, <1>4, <1>6, <1>11, <1>12, <1>13 DEF LocalValue, init, name

LEMMA LocalValuesStep ==
  ASSUME StaticFollowsC, AutoFollowsC, IInv, VInv, status' = "open",
         NEW x \in Name, NEW storage \in Storage, NEW shape \in Offered,
         CheckLocalObject(x, storage, shape)
  PROVE  VInv'
<1> DEFINE isStatic == storage = "static"
           hasExtern == storage = "extern"
           value == ValueInC(shape, isStatic)
           departs == IsDeparture(shape, isStatic)
           yes == TRUE
           name == symbolTable'[Len(symbolTable)][x]
           r == Entity(x, "object", TypeIn(shape), None, value, yes, departs, name)
<1>1. /\ ~isGlobal /\ storage # "extern" /\ ~InitHasOperators(shape) /\ CanDeclare(shape)
      /\ isStatic /\ HasInit(shape) => InitIsConstant(shape)
      /\ \/ isStatic /\ StaticObject(x, storage, shape)
         \/ ~isStatic /\ AutoObject(x, shape)
      /\ entities' = Append(entities, r)
  BY GoesOn DEF CheckLocalObject
<1>2. /\ TypeOK /\ status = "open" /\ shape \in Shapes /\ Matching
      /\ ValuesMatch(entities, objects, counter)
  BY <1>1, Offers DEF IInv, VInv
<1>3. /\ r.kind = "object" /\ r.linkage = None /\ r.object = name /\ r.value = value
      /\ r.departs <=> departs
  BY DEF Entity
<1>4. entities \in Seq(AnyEntity)
  BY <1>2 DEF TypeOK
<1>5. name \in Denoted => Appended(entities', entities, r)
  <2>1. value \in CValue /\ departs \in BOOLEAN
    <3>1. isStatic \in BOOLEAN
      OBVIOUS
    <3>2. \A b \in BOOLEAN : ValueInC(shape, b) \in CValue /\ IsDeparture(shape, b) \in BOOLEAN
      BY <1>2, CValues, IsDepartureIsTruth
    <3> HIDE DEF isStatic
    <3> QED
      BY <3>1, <3>2
  <2>2. yes \in BOOLEAN
    OBVIOUS
  <2> HIDE DEF value, departs, yes
  <2>3. name \in Denoted => r \in AnyEntity
    <3> HIDE DEF name
    <3> QED
      BY <1>2, <2>1, <2>2 DEF Entity, AnyEntity, LinkageOrNone
  <2> HIDE DEF r, name
  <2> QED
    BY <1>1, <1>4, <2>3, AppendedEntity
<1> HIDE DEF r
<1>6. ASSUME NEW new, NEW v, symbolTablePush(x, new), LocalValue(new, v), ~departs => v = value
      PROVE  VInv'
  <2>1. /\ new \in ObjectName /\ new \in DOMAIN objects' /\ objects'[new].initializer = v
        /\ OthersKeep(entities, 0, objects', objects) /\ StaticsBehind(objects', counter')
    BY <1>6 DEF LocalValue
  <2>2. name = new
    BY <1>2, <1>6, <2>1, PushFacts
  <2> HIDE DEF name
  <2>3. Appended(entities', entities, r)
    BY <1>5, <2>1, <2>2 DEF Denoted
  <2>4. HasValue(r, objects')
    <3> HIDE DEF departs, value
    <3> QED
      BY <1>3, <1>6, <2>1, <2>2 DEF HasValue
  <2>5. ValuesMatch(entities', objects', counter')
    BY <1>2, <2>1, <2>3, <2>4, ValuesNew
  <2> QED
    BY <2>5 DEF VInv
<1>7. CASE isStatic /\ StaticObject(x, storage, shape)
  <2> DEFINE init == StaticInit(shape, hasExtern)
             new == getLocalStaticName(x)
  <2>1. /\ init.outcome \notin {"thrown", "undefined"} /\ ~Mismatch(shape)
        /\ symbolTablePush(x, new) /\ LocalValue(new, init.value)
    BY <1>1, <1>2, <1>7, StaticValue
  <2>2. ~IsDeparture(shape, TRUE) => init.value = ValueInC(shape, TRUE)
    <3>1. hasExtern \in BOOLEAN /\ ~hasExtern
      BY <1>1
    <3> HIDE DEF hasExtern
    <3> QED
      BY <1>1, <1>2, <1>7, <2>1, <3>1 DEF StaticFollowsC
  <2>3. ~departs => init.value = value
    BY <1>7, <2>2
  <2> HIDE DEF init, new, departs, value
  <2> QED
    BY <1>6, <2>1, <2>3
<1>8. CASE ~isStatic /\ AutoObject(x, shape)
  <2> DEFINE init == AutoInit(shape)
             new == Alloca(x, count)
  <2>1. /\ init.outcome # "undefined" /\ ~Mismatch(shape)
        /\ symbolTablePush(x, new) /\ LocalValue(new, init.value)
    BY <1>1, <1>2, <1>8, AutoValue
  <2>2. ~IsDeparture(shape, FALSE) => init.value = ValueInC(shape, FALSE)
    BY <1>1, <1>2, <2>1 DEF AutoFollowsC
  <2>3. ~departs => init.value = value
    <3>1. isStatic = FALSE
      BY <1>8
    <3> QED
      BY <2>2, <3>1
  <2> HIDE DEF init, new, departs, value
  <2> QED
    BY <1>6, <2>1, <2>3
<1> QED
  BY <1>1, <1>7, <1>8

LEMMA InitValues == CheckInit => VInv
<1> SUFFICES ASSUME CheckInit
             PROVE  VInv
  OBVIOUS
<1>1. objects = << >> /\ entities = << >>
  BY DEF CheckInit, Init
<1>2. DOMAIN objects = {} /\ Len(entities) = 0
  BY <1>1, EmptySeq
<1> QED
  BY <1>2 DEF VInv, ValuesMatch, StaticsBehind

LEMMA SameValues ==
  ASSUME VInv, UNCHANGED <<entities, objects, counter, status>>
  PROVE  VInv'
BY DEF VInv, ValuesMatch, StaticsBehind, HasValue, Behind

LEMMA NextValues ==
  ASSUME StaticFollowsC, AutoFollowsC, NullIsOfTheType, IInv, IInv', VInv, [CheckNext]_allvars
  PROVE  VInv'
<1>1. CASE status' # "open"
  BY <1>1 DEF VInv
<1>2. CASE \E x \in Id, storage \in Storage, shape \in Offered : CheckFileObject(x, storage, shape)
  BY <1>1, <1>2, FileValuesStep
<1>3. CASE \E storage \in Storage, shape \in Offered :
             \E x \in IF shape = Default THEN Name ELSE Id : CheckLocalObject(x, storage, shape)
  <2>1. PICK storage \in Storage, shape \in Offered :
               \E x \in IF shape = Default THEN Name ELSE Id : CheckLocalObject(x, storage, shape)
    BY <1>3
  <2>2. PICK x \in Name : CheckLocalObject(x, storage, shape)
    BY <2>1 DEF Name
  <2> QED
    BY <1>1, <2>2, LocalValuesStep
<1>4. CASE \E x \in Id, shape \in Plain : CheckExternObject(x, shape)
  BY <1>4, ExternValuesStep
<1>5. CASE \E f \in Fn, storage \in Storage : CheckFnDecl(f, storage)
  BY <1>5, FnDeclValuesStep
<1>6. CASE \E f \in Fn, storage \in Storage : CheckFnDef(f, storage)
  BY <1>6, FnDefValuesStep
<1>7. CASE CheckEnterBlock
  BY <1>7, SameValues DEF CheckEnterBlock, EnterBlock
<1>8. CASE CheckLeaveBlock
  BY <1>8, SameValues DEF CheckLeaveBlock, LeaveBlock
<1>9. CASE CheckEndFunction
  BY <1>9, SameValues DEF CheckEndFunction, EndFunction
<1>10. CASE UNCHANGED allvars
  BY <1>10, SameValues DEF allvars, vars, cvars
<1> QED
  BY <1>2, <1>3, <1>4, <1>5, <1>6, <1>7, <1>8, <1>9, <1>10 DEF CheckNext

LEMMA ValuesInv == IInv /\ VInv => InitialValuesFollowCButForDepartures
<1>1. SUFFICES ASSUME IInv, VInv, status = "open", NEW e \in DOMAIN entities,
                      entities[e].kind = "object", ~entities[e].departs
               PROVE  objects[entities[e].object].initializer = entities[e].value
  BY DEF InitialValuesFollowCButForDepartures
<1>2. e \in 1..Len(entities)
  BY <1>1, LenProperties DEF IInv, TypeOK
<1> QED
  BY <1>1, <1>2 DEF VInv, ValuesMatch, HasValue

-----------------------------------------------------------------------------
(* The theorems                                                            *)

(* The state of CodeGenModule and the entities of C have their types.      *)
THEOREM TypeCorrect == CheckSpec => []TypeOK
<1>1. IInv => TypeOK
  BY DEF IInv
<1> QED
  BY <1>1, Invariant, PTL

(* In every unit, visit(DeclNode) and visit(FnDef) leave in llvm::Module   *)
(* one symbol for every object and function with linkage, with the linkage *)
(* of C99 6.2.2 and an initializer exactly when the unit defines it.       *)
THEOREM GlobalsAreThoseOfC == CheckSpec => []GlobalsFollowC
<1> QED
  BY Invariant, GlobalsInv, PTL

(* In every unit, symbolTableLookup finds for an identifier the object     *)
(* that it stands for in C99 6.2.1, and no two objects share a global or   *)
(* an alloca.                                                              *)
THEOREM IdentifiersAreThoseOfC == CheckSpec => []IdentifiersDenoteTheirObjects
<1> QED
  BY Invariant, IdentifiersInv, PTL

(* If every initializer by itself evaluates to the value of C, then so do  *)
(* the objects of every unit: what StaticInit and AutoInit leave is        *)
(* neither lost nor replaced when visit(DeclNode) finds a global again,    *)
(* completes it, counts a local static or copies a constant.               *)
THEOREM InitialValuesAreThoseOfC ==
  ASSUME StaticFollowsC, AutoFollowsC, NullIsOfTheType
  PROVE  CheckSpec => []InitialValuesFollowCButForDepartures
<1>1. IInv /\ VInv /\ [CheckNext]_allvars /\ IInv' => VInv'
  BY NextValues
<1> QED
  BY InitValues, Invariant, ValuesInv, <1>1, PTL DEF CheckSpec
=============================================================================
