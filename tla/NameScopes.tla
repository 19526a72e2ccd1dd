----------------------------- MODULE NameScopes -----------------------------
(***************************************************************************)
(* What C99 says about the scope of identifiers and tags (6.2.1, 6.8,      *)
(* 6.8.5): the abstract specification of Scopes.  The parameters and the   *)
(* outermost block of a function body share a scope; a for statement is a  *)
(* block of its own; a name that is declared inside a parameter list or a  *)
(* struct is not visible outside it.                                       *)
(***************************************************************************)
EXTENDS Integers, Sequences, FiniteSetsExt

CONSTANTS Key, NoDecl

VARIABLE env   (* the open scopes, innermost last                           *)

Empty == [k \in Key |-> NoDecl]

Meaning(k) ==
  LET found == {i \in 1..Len(env) : env[i][k] # NoDecl}
  IN  IF found = {} THEN NoDecl ELSE env[Max(found)][k]

Open(scopes) == env' = env \o scopes

Close(count) == env' = SubSeq(env, 1, Len(env) - count)

(* The scope of keys declared as d, all at once, in a scope of their own.  *)
Declaring(keys, d) == [k \in Key |-> IF k \in keys THEN d ELSE NoDecl]

(* 6.7p3: no identifier or tag is declared twice in one scope.             *)
Introduce(keys, d) ==
  /\ \A k \in keys : env[Len(env)][k] = NoDecl
  /\ env' = [env EXCEPT ![Len(env)] =
               [k \in Key |-> IF k \in keys THEN d ELSE @[k]]]

=============================================================================
