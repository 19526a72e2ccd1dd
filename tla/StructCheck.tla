---------------------------- MODULE StructCheck ----------------------------
(***************************************************************************)
(* StructTags beside the rules of C for tags (C99 6.2.1, 6.7.2.3): which   *)
(* structure a tag stands for, and whether it is complete.  The items of a *)
(* program are those that C allows.                                        *)
(***************************************************************************)
EXTENDS StructTags

VARIABLES
    scope,      \* what the tags stand for in C: scopes, innermost last
    structures, \* the number of structures
    complete,   \* the structures that are complete
    meant,      \* the structure of each node
    held,       \* the structure of each variable
    departed,   \* structures that the program does not declare the way the compiler does
    blamed      \* the structures of the item that was refused

cvars == <<scope, structures, complete, meant, held, departed, blamed>>
allvars == <<vars, cvars>>

CheckInit ==
    /\ Init
    /\ scope = <<NoTags>> /\ structures = 0 /\ complete = {} /\ meant = <<>> /\ held = <<>>
    /\ departed = {} /\ blamed = {}

-----------------------------------------------------------------------------
Visible(t) == lookupIn(scope, t)
Here(context, t) == context[Len(context)][t]

\* A tag that a declaration without members declares: in this scope, unless it is there or
\* (for a mention) visible.
Declared(t, isForward) ==
    IF isForward /\ Here(scope, t) # None THEN Here(scope, t)
    ELSE IF ~isForward /\ Visible(t) # None THEN Visible(t)
    ELSE structures + 1

\* The structure a definition is of: the one declared in this scope, or a new one.
Defined(context, count, t) ==
    IF Here(context, t) # None THEN Here(context, t) ELSE count + 1

Grow(s) == IF s > structures THEN s ELSE structures

Refused(set) == blamed' = IF pc' = "rejected" THEN set ELSE blamed

\* A mention that declares a tag: the compiler does not enter it.  `struct t;' in an inner
\* scope: the compiler takes it for the t of the outer scope.
Mention(t, s) ==
    /\ scope' = IF s > structures THEN insertType(scope, t, s) ELSE scope
    /\ departed' = IF s > structures THEN departed \cup {s} ELSE departed

CheckForward(t) ==
    /\ Forward(t)
    /\ LET s == Declared(t, TRUE)
       IN /\ scope' = insertType(scope, t, s)
          /\ structures' = Grow(s)
          /\ departed' = IF s > structures /\ Visible(t) # None THEN departed \cup {s, Visible(t)} ELSE departed
          /\ meant' = Append(meant, s)
    /\ UNCHANGED <<complete, held, blamed>>

CheckVariable(t, op) ==
    /\ op = "object" => Visible(t) \in complete
    /\ Variable(t, op)
    /\ LET s == Declared(t, FALSE)
       IN /\ Mention(t, s)
          /\ structures' = Grow(s)
          /\ meant' = Append(meant, s)
          /\ held' = Append(held, s)
    /\ UNCHANGED <<complete, blamed>>

\* A member has a complete type, which the structure that is being defined is not.
CheckDefine(t, m, op) ==
    LET s == Defined(scope, structures, t)
        context == insertType(scope, t, s)
        inner == CASE m.op = "none" -> None
                   [] m.op = "member" -> lookupIn(context, m.tag)
                   [] m.op = "nested" -> Defined(context, Grow(s), m.tag)
    IN /\ CanAdd /\ s \notin complete
       /\ op = "typedef" => m = NoMember    \* bounds the model
       /\ m.op = "member" => inner \in complete
       /\ m.op = "nested" => m.tag # t /\ inner \notin complete
       /\ Define(t, m, op)
       /\ scope' = IF m.op = "nested" THEN insertType(context, m.tag, inner) ELSE context
       /\ structures' = IF inner > Grow(s) THEN inner ELSE Grow(s)
       /\ complete' = complete \cup {s} \cup (IF m.op = "nested" THEN {inner} ELSE {})
       /\ meant' = Append(meant, s)
       /\ held' = IF op = "typedef" THEN Append(held, s) ELSE held
       /\ Refused({s, inner})
       /\ UNCHANGED departed

\* An access is within a function.
CheckAccess(v) ==
    /\ Depth > 1 /\ held[v] \in complete
    /\ Access(v)
    /\ meant' = Append(meant, held[v])
    /\ Refused({held[v]})
    /\ UNCHANGED <<scope, structures, complete, held, departed>>

CheckEnterScope ==
    /\ EnterScope
    /\ scope' = Append(scope, NoTags)
    /\ UNCHANGED <<structures, complete, meant, held, departed, blamed>>

CheckExitScope ==
    /\ ExitScope
    /\ scope' = SubSeq(scope, 1, Len(scope) - 1)
    /\ held' = SubSeq(held, 1, Len(variables'))
    /\ UNCHANGED <<structures, complete, meant, departed, blamed>>

CheckEndOfUnit ==
    /\ EndOfUnit
    /\ scope' = <<>> /\ held' = <<>>
    /\ UNCHANGED <<structures, complete, meant, departed, blamed>>

CheckNext ==
    \/ \E t \in Tag : CheckForward(t)
    \/ \E t \in Tag, op \in {"pointer", "object"} : CheckVariable(t, op)
    \/ \E t \in Tag, m \in Members, op \in {"define", "typedef"} : CheckDefine(t, m, op)
    \/ \E v \in DOMAIN variables : CheckAccess(v)
    \/ CheckEnterScope
    \/ CheckExitScope
    \/ CheckEndOfUnit
    \/ (Generate \/ Finish \/ Stopped) /\ UNCHANGED cvars

CheckSpec == CheckInit /\ [][CheckNext]_allvars

-----------------------------------------------------------------------------
ID == 1 .. nextID - 1
Names == {<<t>> : t \in Tag} \cup (Tag \X (0 .. MaxItems))

\* Every identity in use has been given out, and only declared variables are in scope.
TypeOK ==
    /\ \A i \in DOMAIN typeContext : typeContext[i] \in [Tag -> {None} \cup ID]
    /\ structMap \subseteq ID
    /\ \A i \in DOMAIN nodes : nodes[i].id \in ID
    /\ \A v \in DOMAIN variables : variables[v].id \in ID /\ variables[v].depth \in 1 .. Depth
    /\ DOMAIN structIDs \subseteq Tag /\ DOMAIN llvmTypes \subseteq Names
    /\ \A n \in DOMAIN llvmTypes : llvmTypes[n] \in [of : {None} \cup ID, sized : BOOLEAN]
    /\ generated \in 0 .. Len(nodes)
    /\ pc \in {"check", "generate", "done", "rejected"}

(***************************************************************************)
(* Two nodes have the same identity in the type checker exactly when they  *)
(* are about the same structure of C.  Not so for a structure that a       *)
(* mention declares, each of which has an identity of its own, and for two *)
(* that share one, since `struct t;' declares the one over the t of an     *)
(* outer scope.                                                            *)
(***************************************************************************)
SameTypeButForDepartures ==
    \A i, j \in DOMAIN nodes :
        {meant[i], meant[j]} \cap departed = {} => (nodes[i].id = nodes[j].id <=> meant[i] = meant[j])

\* No definition or access that C allows is refused, but for those structures.
NothingIsRejectedButForDepartures == pc = "rejected" => blamed \cap departed # {}

IsDefinition(i) == nodes[i].op \in {"define", "typedef"}

\* The tags that have a definition the code generator does not visit: one that is nested in
\* another, or that is the type of a typedef.
Unvisited == {nodes[i].tag : i \in {j \in DOMAIN nodes : nodes[j].op = "typedef"}}
    \cup {nodes[i].member.tag : i \in {j \in DOMAIN nodes : IsDefinition(j) /\ nodes[j].member.op = "nested"}}

\* The tags of members that are met too early: a structure is given its members where it is
\* first declared, and the structure of a member may be declared after that.
Early == {nodes[k].member.tag : k \in {i \in DOMAIN nodes :
              /\ IsDefinition(i) /\ nodes[i].member.op = "member"
              /\ \E j \in 1 .. i - 1 : /\ nodes[j].id = nodes[i].id
                                      /\ \A h \in 1 .. j : nodes[h].id # nodes[i].memberID}}

\* Tags that are neither of the two, nor are those of their members.
FullyVisited(tags) ==
    /\ tags \cap (Unvisited \cup Early) = {}
    /\ \A i \in DOMAIN nodes :
           IsDefinition(i) /\ nodes[i].tag \in tags /\ nodes[i].member.op # "none" =>
               nodes[i].member.tag \in tags

Laid(i) == \E tags \in SUBSET Tag : nodes[i].tag \in tags /\ FullyVisited(tags)

(***************************************************************************)
(* Each allocation and access is generated with the type that was made for *)
(* the identity of its node, and that type has its members; an object of a *)
(* type without them has no size, and LLVM stops at it.  Not so for the    *)
(* tags above.                                                             *)
(***************************************************************************)
UsesAreLaidOutButForDepartures ==
    \A u \in uses : Laid(u.node) => u.type = [of |-> nodes[u.node].id, sized |-> TRUE]

(***************************************************************************)
(* The number that names the type of an identity is its place in a list    *)
(* that grows: a type that was found for an identity once is found for it  *)
(* after any other.                                                        *)
(***************************************************************************)
Found == {<<u.node, NameOf([ids |-> structIDs], nodes[u.node].tag, nodes[u.node].id)>> :
              u \in {w \in uses : Laid(w.node)}}

TypeFoundIsStable == [][pc = "generate" => Found \subseteq Found']_allvars

=============================================================================
