----------------------------- MODULE ScopeCheck -----------------------------
(***************************************************************************)
(* Scopes and NameScopes over the same program: each step is what the      *)
(* three passes do with an item, together with what the item means in C.   *)
(***************************************************************************)
EXTENDS Scopes

VARIABLES
  env,   (* the scopes of C                                                 *)
  leaks  (* leaks[i + 1]: the declarations the type checker is allowed to   *)
         (* have leaked into the i-th open item, or one around it           *)

C == INSTANCE NameScopes

(* A leak into the innermost open item is one into the items that are      *)
(* opened in it, and it is over when that item ends.                       *)
LeaksHere(leak) == [leaks EXCEPT ![Len(leaks)] = @ \cup leak]

EnterItem(leak) ==
  leaks' = Append(LeaksHere(leak), leaks[Len(leaks)] \cup leak)

LeaveItem == leaks' = SubSeq(leaks, 1, Len(leaks) - 1)

CheckInit == Init /\ env = <<NoScope>> /\ leaks = <<{}>>

CheckNext ==
  \/ \E params \in {{}} \cup {{x} : x \in Id} :
       EnterFnDef(params) /\ C!Open(<<C!Declaring(params, New)>>) /\ EnterItem({})
  \/ ExitFnDef /\ C!Close(1) /\ LeaveItem
  \/ EnterCompoundStmt /\ C!Open(<<NoScope>>) /\ EnterItem({})
  \/ ExitCompoundStmt /\ C!Close(1) /\ LeaveItem
  \/ EnterSwitch /\ C!Open(<<NoScope>>) /\ EnterItem({})
  \/ ExitSwitch /\ C!Close(1) /\ LeaveItem
  \/ \E x \in Id :
       EnterFor(x) /\ C!Open(<<C!Declaring({x}, New), NoScope>>) /\ EnterItem({New})
  \/ ExitFor /\ C!Close(2) /\ LeaveItem
  \/ Return /\ UNCHANGED <<env, leaks>>
  \/ \E x \in Id :
       \/ Declare(x) /\ C!Introduce({x}, New) /\ UNCHANGED leaks
       \/ DeclareTypedef(x) /\ C!Introduce({x}, New) /\ UNCHANGED leaks
       \/ InnerFnDecl(x) /\ UNCHANGED env /\ leaks' = LeaksHere({New})
  \/ \E t \in Tag, x \in Id :
       \/ DefineEnum(t, x) /\ C!Introduce({t, x}, New) /\ UNCHANGED leaks
       \/ DefineEnumInTypedef(t, x) /\ C!Introduce({t, x}, New) /\ UNCHANGED leaks
  \/ \E t \in Tag : ReferToEnum(t) /\ UNCHANGED <<env, leaks>>

CheckSpec == CheckInit /\ [][CheckNext]_<<vars, env, leaks>>

-----------------------------------------------------------------------------
(* Properties                                                              *)

(* Every table is a stack of scopes that is never empty, and there are     *)
(* leaks of every item that is open and of the file.                       *)
TypeOK ==
  /\ decls \in Seq(Decls)
  /\ Len(decls) <= MaxDecls
  /\ frames \in Seq([kind : {"fn", "block", "for", "switch"},
                     skipped : BOOLEAN])
  /\ terminated \in BOOLEAN
  /\ typedefs \subseteq Id
  /\ \A table \in {typeContext, symbolTable, env} :
       /\ table \in Seq([Key -> 0..Len(decls)])
       /\ table # << >>
  /\ leaks \in Seq(SUBSET Nat) /\ Len(leaks) = Len(frames) + 1

DeclaredIn(where, d) == d # NoDecl /\ decls[d].where = where

IsA(kind, d) == d # NoDecl /\ decls[d].kind = kind

(* TypeChecker finds the type of the declaration that is visible in C for  *)
(* every identifier and tag at every point of the program, except that the *)
(* variable of a for statement and the name of a function declarator in    *)
(* another declarator stay visible, in place of what C finds, until the    *)
(* item ends in which the for statement or the declarator stands.          *)
TypesFollowCButForLeaks ==
  \A k \in Key :
    \/ lookupType(k) = C!Meaning(k)
    \/ lookupType(k) \in leaks[Len(leaks)]

(* Wherever the code generator emits code, it binds every object and       *)
(* enumeration constant to the declaration that is visible in C, whatever  *)
(* unreachable items it skipped before, except that a mention of an enum   *)
(* makes its constants visible again and that a typedef hides them.        *)
SymbolsFollowCButForEnums ==
  ~SkipsNext =>
    \A x \in Id :
      \/ symbolTableLookup(x) = C!Meaning(x)
      \/ IsA("const", symbolTableLookup(x))
      \/ DeclaredIn("typedef", C!Meaning(x))
      \/ IsA("typedef", C!Meaning(x))

(* The lexer takes every name that is a typedef name in C for one, in      *)
(* whatever scope it was declared.                                         *)
TypedefNamesAreKnown ==
  \A x \in Id : IsA("typedef", C!Meaning(x)) => x \in typedefs

(* Between functions all three tables are back at file scope.              *)
FileScopeIsRestored ==
  ~InFunction =>
    Len(typeContext) = 1 /\ Len(symbolTable) = 1 /\ Len(env) = 1

=============================================================================
