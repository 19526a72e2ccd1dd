----------------------------- MODULE StructTags -----------------------------
(***************************************************************************)
(* What identity a structure tag has in the type checker, and what type of *)
(* LLVM the code generator finds for that identity.  The type checker      *)
(* walks the whole translation unit and leaves an identity at every node;  *)
(* the code generator walks it again, with the members of all structures   *)
(* known, numbers the identities of a tag as it meets them and finds the   *)
(* type of LLVM by that number.                                            *)
(*                                                                         *)
(* A program is a sequence of items: `struct t;', `struct t *p;',          *)
(* `struct t x;', a definition, perhaps with a member that has a structure *)
(* type, and accesses to a member of p or x.  Code that the generator      *)
(* skips as unreachable is not among them.                                 *)
(***************************************************************************)
EXTENDS Integers, Sequences, FiniteSets

CONSTANTS
    Tag,        \* structure tags
    MaxItems,   \* items of a program: bounds the model
    MaxDepth    \* scopes that are open at once: bounds the model

ASSUME BoundsAssumption == MaxItems \in Nat /\ MaxDepth \in Nat \ {0}

VARIABLES
    typeContext,    \* TypeChecker::typeContext_, the tags in it: scopes, innermost last
    nextID,         \* BaseType's idProvider_
    structMap,      \* the identities that have members
    nodes,          \* what the type checker leaves at the nodes, in order
    variables,      \* the pointers and objects in scope, with the identity of their type
    structIDs,      \* CodeGenModule::structIDs_
    llvmTypes,      \* the named types in the LLVMContext
    uses,           \* the types that allocations and accesses were generated with
    generated,      \* the nodes the code generator has been at
    pc              \* "check", "generate", "done" or "rejected"

checker == <<typeContext, nextID, structMap, nodes, variables>>
generator == <<structIDs, llvmTypes, uses, generated>>
vars == <<checker, generator, pc>>

None == 0       \* no identity; they begin at 1
NoTags == [t \in Tag |-> None]
NoMember == [op |-> "none"]
Opaque == [of |-> None, sized |-> FALSE]

Init ==
    /\ typeContext = <<NoTags>> /\ nextID = 1 /\ structMap = {} /\ nodes = <<>> /\ variables = <<>>
    /\ structIDs = <<>> /\ llvmTypes = <<>> /\ uses = {} /\ generated = 0
    /\ pc = "check"

-----------------------------------------------------------------------------
(* TypeChecker *)

Depth == Len(typeContext)
CanAdd == pc = "check" /\ Len(nodes) < MaxItems

lookupIn(context, t) ==
    LET found == {i \in DOMAIN context : context[i][t] # None}
    IN IF found = {} THEN None ELSE context[CHOOSE i \in found : \A j \in found : j <= i][t]

insertType(context, t, id) == [context EXCEPT ![Len(context)][t] = id]

(***************************************************************************)
(* Struct without members.  A tag that is not known gets an identity of    *)
(* its own, which is not entered under the tag.                            *)
(***************************************************************************)
Mentioned(t) == IF lookupIn(typeContext, t) = None THEN nextID ELSE lookupIn(typeContext, t)
TakeID(id) == nextID' = IF id = nextID THEN nextID + 1 ELSE nextID

\* DeclNode enters the type under its tag when nothing is declared with it.
Forward(t) ==
    /\ CanAdd
    /\ typeContext' = insertType(typeContext, t, Mentioned(t))
    /\ TakeID(Mentioned(t))
    /\ nodes' = Append(nodes, [op |-> "forward", tag |-> t, id |-> Mentioned(t)])
    /\ UNCHANGED <<structMap, variables, generator, pc>>

Variable(t, op) ==
    /\ CanAdd
    /\ TakeID(Mentioned(t))
    /\ nodes' = Append(nodes, [op |-> op, tag |-> t, id |-> Mentioned(t)])
    /\ variables' = Append(variables, [tag |-> t, id |-> Mentioned(t), depth |-> Depth])
    /\ UNCHANGED <<typeContext, structMap, generator, pc>>

(***************************************************************************)
(* Struct with members.  The identity that the current scope has for the   *)
(* tag is used again, so that what was declared before the definition is   *)
(* of its type; the members are visited before the identity gets them.     *)
(* A state of the definition is the scopes, the next identity, the         *)
(* identities with members, and if it is refused.                          *)
(***************************************************************************)
\* The tag is looked up in all scopes.
Begin_Wrong(s, t) ==
    LET id == IF lookupIn(s.context, t) # None THEN lookupIn(s.context, t) ELSE s.next
    IN [s EXCEPT !.context = insertType(@, t, id), !.next = IF id = @ THEN @ + 1 ELSE @,
                 !.id = id, !.ok = @ /\ id \notin s.map]

Begin(s, t) ==
    LET found == s.context[Len(s.context)][t]
        id == IF found # None THEN found ELSE s.next
    IN [s EXCEPT !.context = insertType(@, t, id), !.next = IF id = @ THEN @ + 1 ELSE @,
                 !.id = id, !.ok = @ /\ id \notin s.map]

End(s, id) == [s EXCEPT !.map = @ \cup {id}]

\* The member: none, `struct t m;', or a definition of another structure with m.
Member(s, m) ==
    CASE m.op = "none" -> s
      [] m.op = "member" -> [s EXCEPT !.id = lookupIn(s.context, m.tag)]
      [] m.op = "nested" -> LET b == Begin(s, m.tag) IN End(b, b.id)

\* A definition by itself, or as the type of a typedef that a variable is then declared with.
Define(t, m, op) ==
    LET start == [context |-> typeContext, next |-> nextID, map |-> structMap, id |-> None, ok |-> TRUE]
        b == Begin(start, t)
        i == Member(b, m)
        e == End(i, b.id)
    IN /\ CanAdd
       /\ IF e.ok
          THEN /\ typeContext' = e.context
               /\ nextID' = e.next
               /\ structMap' = e.map
               /\ nodes' = Append(nodes, [op |-> op, tag |-> t, id |-> b.id, member |-> m, memberID |-> i.id])
               /\ variables' = IF op = "typedef"
                               THEN Append(variables, [tag |-> t, id |-> b.id, depth |-> Depth])
                               ELSE variables
               /\ UNCHANGED pc
          ELSE pc' = "rejected" /\ UNCHANGED checker
       /\ UNCHANGED generator

(***************************************************************************)
(* StructAccess and StructPtrAccess: structMap_.at throws for an identity  *)
(* that has no members yet.                                                *)
(***************************************************************************)
Access(v) ==
    /\ CanAdd
    /\ IF variables[v].id \in structMap
       THEN /\ nodes' = Append(nodes, [op |-> "access", tag |-> variables[v].tag, id |-> variables[v].id])
            /\ UNCHANGED pc
       ELSE pc' = "rejected" /\ UNCHANGED nodes
    /\ UNCHANGED <<typeContext, nextID, structMap, variables, generator>>

EnterScope ==
    /\ CanAdd /\ Depth < MaxDepth
    /\ typeContext' = Append(typeContext, NoTags)
    /\ UNCHANGED <<nextID, structMap, nodes, variables, generator, pc>>

\* The variables of the scope are the last ones.
ExitScope ==
    /\ pc = "check" /\ Depth > 1
    /\ typeContext' = SubSeq(typeContext, 1, Depth - 1)
    /\ variables' = SubSeq(variables, 1, Cardinality({v \in DOMAIN variables : variables[v].depth < Depth}))
    /\ UNCHANGED <<nextID, structMap, nodes, generator, pc>>

\* The code generator reads what is at the nodes and the members; the scopes of the type
\* checker, which nothing reads again, are dropped here.
EndOfUnit ==
    /\ pc = "check" /\ Depth = 1
    /\ pc' = "generate"
    /\ typeContext' = <<>> /\ variables' = <<>>
    /\ UNCHANGED <<nextID, structMap, nodes, generator>>

-----------------------------------------------------------------------------
(***************************************************************************)
(* CodeGenModule.  The first identity of a tag has the name of the tag,    *)
(* the next ones the name with a number.  StructType::create gives another *)
(* name to a type when its name is taken, and nothing looks for that one.  *)
(* A type with members has a size if the types of the members have.        *)
(***************************************************************************)
NameOf(g, t, id) ==
    LET at == {i \in DOMAIN g.ids[t] : g.ids[t][i] = id}
        index == IF at = {} THEN Len(g.ids[t]) ELSE (CHOOSE i \in at : TRUE) - 1
    IN IF index = 0 THEN <<t>> ELSE <<t, index>>

Create(g, name, body) ==
    IF name \in DOMAIN g.types THEN g
    ELSE [g EXCEPT !.types = [n \in DOMAIN g.types \cup {name} |->
                                  IF n = name THEN body ELSE g.types[n]]]

\* operator[] makes an empty list for a tag that has none
Listed(g, t) ==
    IF t \in DOMAIN g.ids THEN g
    ELSE [g EXCEPT !.ids = [u \in DOMAIN g.ids \cup {t} |-> IF u = t THEN <<>> ELSE g.ids[u]]]

\* getLLVMType: the state after it, and the type
GetLLVMType(g, t, id) == LET l == Listed(g, t) IN Create(l, NameOf(l, t, id), Opaque)
TypeOf(g, t, id) == g.types[NameOf(g, t, id)]

\* The type of the one member that has a structure type.
MembersAreSized(g, n) ==
    n.member.op # "none" => TypeOf(GetLLVMType(g, n.member.tag, n.memberID), n.member.tag, n.memberID).sized

Definitions(id) == {i \in DOMAIN nodes : nodes[i].op \in {"define", "typedef"} /\ nodes[i].id = id}

\* An identity within a definition, which has members of its own, without structures.
BodyOf(g, id) ==
    IF Definitions(id) = {} THEN [of |-> id, sized |-> TRUE]
    ELSE [of |-> id, sized |-> MembersAreSized(g, nodes[CHOOSE i \in Definitions(id) : TRUE])]

AfterMembers(g, id) ==
    IF Definitions(id) = {} THEN g
    ELSE LET n == nodes[CHOOSE i \in Definitions(id) : TRUE]
         IN IF n.member.op = "none" THEN g ELSE GetLLVMType(g, n.member.tag, n.memberID)

\* Every identity of a tag is put in front of the others.
Register_Wrong(g, t, id) == [Listed(g, t) EXCEPT !.ids[t] = <<id>> \o @]

Register(g, t, id) == [Listed(g, t) EXCEPT !.ids[t] = Append(@, id)]

(***************************************************************************)
(* visit of a Struct, the members of which are not visited.  A tag that    *)
(* only getLLVMType has met has an empty list: the first identity to be    *)
(* put there gets the name with the number 0, which is not the name that   *)
(* is found for it.                                                        *)
(***************************************************************************)
VisitStruct(g, t, id) ==
    IF t \in DOMAIN g.ids /\ \E i \in DOMAIN g.ids[t] : g.ids[t][i] = id THEN g
    ELSE LET r == Register(g, t, id)
             seen == t \in DOMAIN g.ids
             name == IF seen THEN <<t, Len(r.ids[t]) - 1>> ELSE <<t>>
         IN IF id \in structMap THEN Create(AfterMembers(r, id), name, BodyOf(r, id))
            ELSE Create(r, name, Opaque)

\* The code generator at the next node: the type specifier, then the variable or the access.
Visited(n) ==
    LET g == [ids |-> structIDs, types |-> llvmTypes]
    IN IF n.op \in {"forward", "pointer", "object", "define"} THEN VisitStruct(g, n.tag, n.id) ELSE g

Generate ==
    /\ pc = "generate" /\ generated < Len(nodes)
    /\ LET n == nodes[generated + 1]
           uses_n == n.op \in {"object", "typedef", "access"}
           g == IF uses_n THEN GetLLVMType(Visited(n), n.tag, n.id) ELSE Visited(n)
       IN /\ structIDs' = g.ids
          /\ llvmTypes' = g.types
          /\ uses' = IF uses_n
                     THEN uses \cup {[node |-> generated + 1, type |-> TypeOf(g, n.tag, n.id)]}
                     ELSE uses
    /\ generated' = generated + 1
    /\ UNCHANGED <<checker, pc>>

Finish ==
    /\ pc = "generate" /\ generated = Len(nodes)
    /\ pc' = "done"
    /\ UNCHANGED <<checker, generator>>

Stopped == pc \in {"done", "rejected"} /\ UNCHANGED vars

Members == {NoMember} \cup [op : {"member", "nested"}, tag : Tag]

Next ==
    \/ \E t \in Tag : Forward(t)
    \/ \E t \in Tag, op \in {"pointer", "object"} : Variable(t, op)
    \/ \E t \in Tag, m \in Members, op \in {"define", "typedef"} : Define(t, m, op)
    \/ \E v \in DOMAIN variables : Access(v)
    \/ EnterScope \/ ExitScope \/ EndOfUnit
    \/ Generate \/ Finish \/ Stopped

Spec == Init /\ [][Next]_vars

=============================================================================
