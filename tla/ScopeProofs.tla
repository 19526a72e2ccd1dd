----------------------------- MODULE ScopeProofs -----------------------------
(***************************************************************************)
(* That the types, the objects and the typedef names which the passes find *)
(* for a name are those of C but for the departures that ScopeCheck names, *)
(* for any names, any number of declarations and any nesting of scopes.    *)
(*                                                                         *)
(* The tables of the passes and the scopes of C do not match one by one:   *)
(* a for statement opens one scope in typeContext, two in C, and none in   *)
(* symbolTable when it is skipped.  The argument keeps, for every item     *)
(* that is open, how high each table was when the item had been entered,   *)
(* and says that the three agree at each of these levels, so that they     *)
(* agree again when the items within have been left.                       *)
(***************************************************************************)
EXTENDS ScopeCheck, SequenceTheorems, WellFoundedInduction, TLAPS

(* What is found for k in the n outermost scopes.                          *)
Within(stack, n, k) ==
  LET found == {i \in 1..n : stack[i][k] # NoDecl}
  IN  IF found = {} THEN NoDecl ELSE stack[Max(found)][k]

(* In place of what t scopes of one stack say of the keys, another says d. *)
Shows(stack2, t2, stack, t, keys, d) ==
  \A k \in Key :
    Within(stack2, t2, k) = IF k \in keys THEN d ELSE Within(stack, t, k)

(* The scopes that a table gets for an item                                *)
Frame        == [kind : {"fn", "block", "for", "switch"}, skipped : BOOLEAN]
TypeScopes   == [f \in Frame |-> IF f.kind = "fn" THEN 2 ELSE 1]
SymbolScopes == [f \in Frame |-> IF f.skipped THEN 0
                                 ELSE IF f.kind \in {"fn", "for"} THEN 2 ELSE 1]
CScopes      == [f \in Frame |-> IF f.kind = "for" THEN 2 ELSE 1]

(* m[i] is the height of a table when the i outermost items are open.      *)
Levels(m, items, scopes, height) ==
  /\ m \in [0..Len(items) -> Nat \ {0}]
  /\ m[0] = 1 /\ m[Len(items)] = height
  /\ \A i \in 1..Len(items) : m[i] = m[i - 1] + scopes[items[i]]
  /\ \A i, j \in 0..Len(items) : i <= j => m[i] <= m[j]

(* The levels below are the same.                                          *)
SameLevels(m2, m) == \A i \in DOMAIN m2 : m2[i] = m[i]

Table(n) == Seq([Key -> 0..n])

(* TypesFollowCButForLeaks and SymbolsFollowCButForEnums, of the outermost *)
(* t or s and c scopes, with the leaks L and in a program of the           *)
(* declarations D.                                                         *)
TypesAgree(L, types, t, scopes, c) ==
  \A k \in Key : \/ Within(types, t, k) = Within(scopes, c, k)
                 \/ Within(types, t, k) \in L

Harmless(D, d, m) ==
  \/ d = m
  \/ d # NoDecl /\ D[d].kind = "const"
  \/ m # NoDecl /\ (D[m].where = "typedef" \/ D[m].kind = "typedef")

SymbolsAgree(D, symbols, s, scopes, c) ==
  \A x \in Id : Harmless(D, Within(symbols, s, x), Within(scopes, c, x))

(* The code generator goes on from the end of the i-th open item.          *)
Visits(i) == IF i < Len(frames) THEN ~frames[i + 1].skipped ELSE ~SkipsNext

Agreement(tl, sl, el) ==
  /\ Levels(tl, frames, TypeScopes, Len(typeContext))
  /\ Levels(sl, frames, SymbolScopes, Len(symbolTable))
  /\ Levels(el, frames, CScopes, Len(env))
  /\ \A i \in 0..Len(frames) :
       /\ TypesAgree(leaks[i + 1], typeContext, tl[i], env, el[i])
       /\ Visits(i) => SymbolsAgree(decls, symbolTable, sl[i], env, el[i])

(* No leak is lost from an item that stays open.                           *)
LeaksGrow ==
  /\ leaks' \in Seq(SUBSET Nat) /\ Len(leaks') = Len(frames') + 1
  /\ \A i \in 0..Len(frames) : i <= Len(frames') => leaks[i + 1] \subseteq leaks'[i + 1]

(* Functions do not nest.  What is in a skipped item is skipped, and the   *)
(* block of the code generator stays terminated meanwhile.                 *)
SkippedItems ==
  /\ \A i \in 1..Len(frames) : frames[i].kind = "fn" <=> i = 1
  /\ \A i \in 1..Len(frames) : frames[i].kind = "fn" => ~frames[i].skipped
  /\ \A i \in 1..Len(frames) : frames[i].skipped => terminated
  /\ \A i, j \in 1..Len(frames) :
       i < j /\ frames[i].skipped => frames[j].skipped
  /\ \A i \in 2..Len(frames) :
       frames[i].skipped /\ ~frames[i - 1].skipped =>
         \A j \in 1..i - 1 : frames[j].kind # "switch"

(* A tag stands for the constants of its enum.                             *)
TagsAreOfEnums ==
  \A i \in 1..Len(typeContext), t \in Tag :
    typeContext[i][t] # NoDecl => decls[typeContext[i][t]].kind = "const"

NamesAreDeclared ==
  \A i \in 1..Len(env), x \in Id :
    env[i][x] # NoDecl => decls[env[i][x]].name = x

TypedefsAreKnown ==
  \A d \in 1..Len(decls) :
    decls[d].kind = "typedef" => decls[d].name \in typedefs

Names == TagsAreOfEnums /\ NamesAreDeclared /\ TypedefsAreKnown

IInv ==
  /\ TypeOK /\ SkippedItems /\ Names
  /\ \E tl, sl, el : Agreement(tl, sl, el)

-----------------------------------------------------------------------------
(* The innermost of some scopes                                            *)

LEMMA LeastOf ==
  ASSUME NEW S \in SUBSET Nat, S # {}
  PROVE  \E m \in S : \A k \in S : m <= k
<1>1. OpToRel(<, Nat) = {pair \in Nat \X Nat : pair[1] < pair[2]}
  BY DEF OpToRel
<1>2. PICK m \in S : \A k \in S : <<k, m>> \notin OpToRel(<, Nat)
  BY NatLessThanWellFounded, WFMin
<1>3. ASSUME NEW k \in S, k < m
      PROVE  FALSE
  <2>1. <<k, m>> \in {pair \in Nat \X Nat : pair[1] < pair[2]}
    BY <1>3
  <2> QED
    BY <1>1, <1>2, <2>1
<1>4. \A k \in S : k \in Nat /\ m \in Nat
  OBVIOUS
<1> QED
  BY <1>3, <1>4

LEMMA MaxIsGreatest ==
  ASSUME NEW n \in Nat, NEW S \in SUBSET (1..n), S # {}
  PROVE  Max(S) \in S /\ \A y \in S : y <= Max(S)
<1> DEFINE T == {n - i : i \in S}
<1>1. T \in SUBSET Nat
  <2>1. \A i \in S : i \in 1..n
    OBVIOUS
  <2>2. \A i \in 1..n : n - i \in Nat
    OBVIOUS
  <2> QED
    BY <2>1, <2>2
<1>2. T # {}
  <2>1. PICK i \in S : TRUE
    OBVIOUS
  <2>2. n - i \in T
    OBVIOUS
  <2> QED
    BY <2>2
<1>3. PICK m \in T : \A k \in T : m <= k
  <2> HIDE DEF T
  <2> QED
    BY <1>1, <1>2, LeastOf
<1>4. PICK x \in S : m = n - x
  BY <1>3
<1>5. \A y \in S : x >= y
  <2>1. x \in 1..n /\ \A y \in S : n - y \in T /\ y \in 1..n
    OBVIOUS
  <2> HIDE DEF T
  <2> QED
    BY <1>3, <1>4, <2>1
<1>6. Max(S) \in S /\ \A y \in S : Max(S) >= y
  BY <1>5 DEF Max
<1> QED
  BY <1>6

(* What is found is the entry of a scope after which there is no other.    *)
LEMMA WithinIsInnermost ==
  ASSUME NEW stack, NEW n \in Nat, NEW k
  PROVE  \/ /\ Within(stack, n, k) = NoDecl
            /\ \A i \in 1..n : stack[i][k] = NoDecl
         \/ \E i \in 1..n :
              /\ Within(stack, n, k) = stack[i][k] /\ stack[i][k] # NoDecl
              /\ \A j \in i + 1..n : stack[j][k] = NoDecl
<1> DEFINE found == {i \in 1..n : stack[i][k] # NoDecl}
<1>1. CASE found = {}
  BY <1>1 DEF Within
<1>2. CASE found # {}
  <2>1. Max(found) \in found /\ \A y \in found : y <= Max(found)
    <3>1. found \in SUBSET (1..n)
      OBVIOUS
    <3> HIDE DEF found
    <3> QED
      BY <1>2, <3>1, MaxIsGreatest
  <2>2. \A j \in Max(found) + 1..n : stack[j][k] = NoDecl
    <3> SUFFICES ASSUME NEW j \in Max(found) + 1..n, stack[j][k] # NoDecl
                 PROVE  FALSE
      OBVIOUS
    <3>1. Max(found) \in 1..n
      BY <2>1
    <3>2. j \in 1..n /\ ~(j <= Max(found))
      BY <3>1
    <3>3. j \in found
      BY <3>2
    <3> QED
      BY <2>1, <3>2, <3>3
  <2>3. Within(stack, n, k) = stack[Max(found)][k]
    BY <1>2 DEF Within
  <2> QED
    BY <2>1, <2>2, <2>3
<1> QED
  BY <1>1, <1>2

LEMMA WithinIs ==
  ASSUME NEW stack, NEW n \in Nat, NEW k, NEW i \in 1..n,
         stack[i][k] # NoDecl, \A j \in i + 1..n : stack[j][k] = NoDecl
  PROVE  Within(stack, n, k) = stack[i][k]
<1>1. PICK h \in 1..n : /\ Within(stack, n, k) = stack[h][k]
                        /\ stack[h][k] # NoDecl
                        /\ \A j \in h + 1..n : stack[j][k] = NoDecl
  BY WithinIsInnermost
<1>2. ~(h < i) /\ ~(i < h)
  BY <1>1
<1>3. h = i
  BY <1>2
<1> QED
  BY <1>1, <1>3

LEMMA ShowsSame ==
  ASSUME NEW stack, NEW stack2, NEW n \in Nat, NEW d,
         \A i \in 1..n : stack2[i] = stack[i]
  PROVE  Shows(stack2, n, stack, n, {}, d)
<1> SUFFICES ASSUME NEW k \in Key
             PROVE  Within(stack2, n, k) = Within(stack, n, k)
  BY DEF Shows
<1>1. {i \in 1..n : stack2[i][k] # NoDecl} = {i \in 1..n : stack[i][k] # NoDecl}
  OBVIOUS
<1>2. CASE \A i \in 1..n : stack[i][k] = NoDecl
  BY <1>2 DEF Within
<1>3. CASE ~ \A i \in 1..n : stack[i][k] = NoDecl
  <2>1. PICK i \in 1..n : /\ Within(stack, n, k) = stack[i][k]
                          /\ stack[i][k] # NoDecl
                          /\ \A j \in i + 1..n : stack[j][k] = NoDecl
    BY <1>3, WithinIsInnermost
  <2>2. /\ stack2[i][k] = stack[i][k]
        /\ \A j \in i + 1..n : stack2[j][k] = NoDecl
    BY <2>1
  <2> QED
    BY <2>1, <2>2, WithinIs
<1> QED
  BY <1>2, <1>3

(* A scope with the keys is entered, or it is empty.                       *)
LEMMA ShowsPush ==
  ASSUME NEW stack, NEW stack2, NEW n \in Nat, NEW d, NEW keys, d # NoDecl,
         \A i \in 1..n : stack2[i] = stack[i],
         \A k \in Key : stack2[n + 1][k] = IF k \in keys THEN d ELSE NoDecl
  PROVE  Shows(stack2, n + 1, stack, n, keys, d)
<1> SUFFICES ASSUME NEW k \in Key
             PROVE  Within(stack2, n + 1, k) =
                      IF k \in keys THEN d ELSE Within(stack, n, k)
  BY DEF Shows
<1>1. CASE k \in keys
  <2>1. stack2[n + 1][k] = d /\ n + 1 \in 1..n + 1 /\ n + 1 \in Nat
    BY <1>1
  <2>2. \A j \in (n + 1) + 1..n + 1 : stack2[j][k] = NoDecl
    OBVIOUS
  <2>3. Within(stack2, n + 1, k) = stack2[n + 1][k]
    BY <2>1, <2>2, WithinIs
  <2> QED
    BY <1>1, <2>1, <2>3
<1>2. CASE k \notin keys
  <2>1. stack2[n + 1][k] = NoDecl /\ n + 1 \in Nat
    BY <1>2
  <2>2. CASE \A i \in 1..n : stack[i][k] = NoDecl
    <3>1. Within(stack, n, k) = NoDecl
      BY <2>2 DEF Within
    <3>2. \A i \in 1..n + 1 : stack2[i][k] = NoDecl
      <4> SUFFICES ASSUME NEW i \in 1..n + 1
                   PROVE  stack2[i][k] = NoDecl
        OBVIOUS
      <4>1. i \in 1..n \/ i = n + 1
        OBVIOUS
      <4> QED
        BY <2>1, <2>2, <4>1
    <3>3. Within(stack2, n + 1, k) = NoDecl
      BY <3>2 DEF Within
    <3> QED
      BY <1>2, <3>1, <3>3
  <2>3. CASE ~ \A i \in 1..n : stack[i][k] = NoDecl
    <3>1. PICK i \in 1..n : /\ Within(stack, n, k) = stack[i][k]
                            /\ stack[i][k] # NoDecl
                            /\ \A j \in i + 1..n : stack[j][k] = NoDecl
      BY <2>3, WithinIsInnermost
    <3>2. stack2[i][k] = stack[i][k] /\ i \in 1..n + 1
      BY <3>1
    <3>3. \A j \in i + 1..n + 1 : stack2[j][k] = NoDecl
      <4> SUFFICES ASSUME NEW j \in i + 1..n + 1
                   PROVE  stack2[j][k] = NoDecl
        OBVIOUS
      <4>1. (j \in i + 1..n /\ j \in 1..n) \/ j = n + 1
        BY <3>1
      <4> QED
        BY <2>1, <3>1, <4>1
    <3>4. Within(stack2, n + 1, k) = stack2[i][k]
      BY <2>1, <3>1, <3>2, <3>3, WithinIs
    <3> QED
      BY <1>2, <3>1, <3>2, <3>4
  <2> QED
    BY <2>2, <2>3
<1> QED
  BY <1>1, <1>2

(* The keys are inserted in the innermost scope.                           *)
LEMMA ShowsPut ==
  ASSUME NEW stack, NEW stack2, NEW n \in Nat \ {0}, NEW d, NEW keys, d # NoDecl,
         \A i \in 1..n - 1 : stack2[i] = stack[i],
         \A k \in Key : stack2[n][k] = IF k \in keys THEN d ELSE stack[n][k]
  PROVE  Shows(stack2, n, stack, n, keys, d)
<1> SUFFICES ASSUME NEW k \in Key
             PROVE  Within(stack2, n, k) =
                      IF k \in keys THEN d ELSE Within(stack, n, k)
  BY DEF Shows
<1>1. CASE k \in keys
  <2>1. stack2[n][k] = d /\ n \in 1..n
    BY <1>1
  <2>2. \A j \in n + 1..n : stack2[j][k] = NoDecl
    OBVIOUS
  <2>3. Within(stack2, n, k) = stack2[n][k]
    BY <2>1, <2>2, WithinIs
  <2> QED
    BY <1>1, <2>1, <2>3
<1>2. CASE k \notin keys
  <2>1. \A i \in 1..n : stack2[i][k] = stack[i][k]
    <3> SUFFICES ASSUME NEW i \in 1..n
                 PROVE  stack2[i][k] = stack[i][k]
      OBVIOUS
    <3>1. i \in 1..n - 1 \/ i = n
      OBVIOUS
    <3> QED
      BY <1>2, <3>1
  <2>2. CASE \A i \in 1..n : stack[i][k] = NoDecl
    <3>1. Within(stack, n, k) = NoDecl /\ Within(stack2, n, k) = NoDecl
      BY <2>1, <2>2 DEF Within
    <3> QED
      BY <1>2, <3>1
  <2>3. CASE ~ \A i \in 1..n : stack[i][k] = NoDecl
    <3>1. PICK i \in 1..n : /\ Within(stack, n, k) = stack[i][k]
                            /\ stack[i][k] # NoDecl
                            /\ \A j \in i + 1..n : stack[j][k] = NoDecl
      BY <2>3, WithinIsInnermost
    <3>2. stack2[i][k] = stack[i][k] /\ \A j \in i + 1..n : stack2[j][k] = NoDecl
      BY <2>1, <3>1
    <3>3. Within(stack2, n, k) = stack2[i][k]
      BY <3>1, <3>2, WithinIs
    <3> QED
      BY <1>2, <3>1, <3>2, <3>3
  <2> QED
    BY <2>2, <2>3
<1> QED
  BY <1>1, <1>2

(* An empty scope above it changes nothing.                                *)
LEMMA ShowsPushEmpty ==
  ASSUME NEW stack, NEW stack2, NEW stack3, NEW n \in Nat, NEW t, NEW d, NEW keys,
         d # NoDecl, Shows(stack2, n, stack, t, keys, d),
         \A i \in 1..n : stack3[i] = stack2[i],
         \A k \in Key : stack3[n + 1][k] = NoDecl
  PROVE  Shows(stack3, n + 1, stack, t, keys, d)
<1>1. Shows(stack3, n + 1, stack2, n, {}, d)
  BY ShowsPush
<1> QED
  BY <1>1 DEF Shows

(* What is found is a declaration of the program, if there is one.         *)
LEMMA WithinIsDeclared ==
  ASSUME NEW n \in Nat, NEW stack \in Table(n), NEW t \in 0..Len(stack), NEW k \in Key
  PROVE  Within(stack, t, k) \in 0..n
<1>1. \A i \in 1..Len(stack) : stack[i] \in [Key -> 0..n]
  BY DEF Table
<1>2. \A i \in 1..t : stack[i][k] \in 0..n
  BY <1>1
<1>3. t \in Nat /\ NoDecl \in 0..n
  BY DEF NoDecl
<1> QED
  BY SMTT(30), <1>2, <1>3, WithinIsInnermost

-----------------------------------------------------------------------------
(* How the tables go on agreeing                                           *)

Grows(D, D2) ==
  /\ Len(D) \in Nat /\ Len(D2) \in Nat /\ Len(D) <= Len(D2)
  /\ \A d \in 1..Len(D) : D2[d] = D[d]

LEMMA TypesGoOnAgreeing ==
  ASSUME NEW L, NEW L2, L \subseteq L2, NEW new,
         NEW types, NEW t, NEW types2, NEW t2, NEW tk,
         NEW scopes, NEW c, NEW scopes2, NEW c2, NEW ck,
         TypesAgree(L, types, t, scopes, c),
         Shows(types2, t2, types, t, tk, new),
         Shows(scopes2, c2, scopes, c, ck, new),
         ck \subseteq tk, ck # tk => new \in L2
  PROVE  TypesAgree(L2, types2, t2, scopes2, c2)
<1> SUFFICES ASSUME NEW k \in Key
             PROVE  \/ Within(types2, t2, k) = Within(scopes2, c2, k)
                    \/ Within(types2, t2, k) \in L2
  BY DEF TypesAgree
<1>1. Within(types2, t2, k) = IF k \in tk THEN new ELSE Within(types, t, k)
  BY DEF Shows
<1>2. Within(scopes2, c2, k) = IF k \in ck THEN new ELSE Within(scopes, c, k)
  BY DEF Shows
<1>3. CASE k \in tk
  BY <1>1, <1>2, <1>3
<1>4. CASE k \notin tk
  <2>1. \/ Within(types, t, k) = Within(scopes, c, k)
        \/ Within(types, t, k) \in L
    BY DEF TypesAgree
  <2> QED
    BY <1>1, <1>2, <1>4, <2>1
<1> QED
  BY <1>3, <1>4

LEMMA SymbolsGoOnAgreeing ==
  ASSUME NEW D, NEW D2, Grows(D, D2), NEW d, NEW new,
         NEW symbols, NEW s, NEW symbols2, NEW s2, NEW sk,
         NEW scopes, NEW c, NEW scopes2, NEW c2, NEW ck,
         \A k \in Key : Within(symbols, s, k) \in 0..Len(D),
         \A k \in Key : Within(scopes, c, k) \in 0..Len(D),
         SymbolsAgree(D, symbols, s, scopes, c),
         Shows(symbols2, s2, symbols, s, sk, d),
         Shows(scopes2, c2, scopes, c, ck, new),
         \A x \in Id : \/ x \in sk <=> x \in ck
                       \/ x \in sk /\ D2[d].kind = "const"
                       \/ x \in ck /\ (D2[new].where = "typedef" \/ D2[new].kind = "typedef"),
         d # NoDecl, new # NoDecl, sk \cap ck # {} => d = new
  PROVE  SymbolsAgree(D2, symbols2, s2, scopes2, c2)
<1> SUFFICES ASSUME NEW x \in Id
             PROVE  Harmless(D2, Within(symbols2, s2, x), Within(scopes2, c2, x))
  BY DEF SymbolsAgree
<1>1. Within(symbols2, s2, x) = IF x \in sk THEN d ELSE Within(symbols, s, x)
  BY DEF Shows, Key
<1>2. Within(scopes2, c2, x) = IF x \in ck THEN new ELSE Within(scopes, c, x)
  BY DEF Shows, Key
<1>3. CASE x \in sk /\ x \in ck
  BY <1>1, <1>2, <1>3 DEF Harmless
<1>4. CASE x \in sk /\ x \notin ck
  BY <1>1, <1>4 DEF Harmless
<1>5. CASE x \notin sk /\ x \in ck
  BY <1>2, <1>5 DEF Harmless
<1>6. CASE x \notin sk /\ x \notin ck
  <2>1. Harmless(D, Within(symbols, s, x), Within(scopes, c, x))
    BY DEF SymbolsAgree
  <2>2. Within(symbols, s, x) \in 0..Len(D) /\ Within(scopes, c, x) \in 0..Len(D)
    BY DEF Key
  <2>3. Harmless(D2, Within(symbols, s, x), Within(scopes, c, x))
    BY <2>1, <2>2 DEF Harmless, Grows, NoDecl
  <2> QED
    BY <1>1, <1>2, <1>6, <2>3
<1> QED
  BY <1>3, <1>4, <1>5, <1>6

(* What is done to a table above a level is not seen at this level.        *)
LEMMA TypesStayAgreed ==
  ASSUME NEW L, NEW L2, L \subseteq L2, NEW types, NEW t \in Nat, NEW types2,
         NEW scopes, NEW c \in Nat, NEW scopes2,
         TypesAgree(L, types, t, scopes, c),
         \A i \in 1..t : types2[i] = types[i],
         \A i \in 1..c : scopes2[i] = scopes[i]
  PROVE  TypesAgree(L2, types2, t, scopes2, c)
<1>1. Shows(types2, t, types, t, {}, 1) /\ Shows(scopes2, c, scopes, c, {}, 1)
  BY ShowsSame
<1>2. {} \subseteq {} /\ ({} # {} => 1 \in L2)
  OBVIOUS
<1> QED
  BY <1>1, <1>2, TypesGoOnAgreeing

LEMMA SymbolsStayAgreed ==
  ASSUME NEW D, NEW D2, Grows(D, D2), NEW symbols, NEW s \in Nat, NEW symbols2,
         NEW scopes, NEW c \in Nat, NEW scopes2,
         \A k \in Key : Within(symbols, s, k) \in 0..Len(D),
         \A k \in Key : Within(scopes, c, k) \in 0..Len(D),
         SymbolsAgree(D, symbols, s, scopes, c),
         \A i \in 1..s : symbols2[i] = symbols[i],
         \A i \in 1..c : scopes2[i] = scopes[i]
  PROVE  SymbolsAgree(D2, symbols2, s, scopes2, c)
<1>1. Shows(symbols2, s, symbols, s, {}, 1) /\ Shows(scopes2, c, scopes, c, {}, 1)
  BY ShowsSame
<1>2. /\ {} \cap {} # {} => 1 = 1
      /\ \A x \in Id : \/ x \in {} <=> x \in {}
                       \/ x \in {} /\ D2[1].kind = "const"
                       \/ x \in {} /\ (D2[1].where = "typedef" \/ D2[1].kind = "typedef")
  OBVIOUS
<1>3. 1 # NoDecl
  BY DEF NoDecl
<1> QED
  BY <1>1, <1>2, <1>3, SymbolsGoOnAgreeing

LEMMA PrefixIs ==
  ASSUME NEW T, NEW s \in Seq(T), NEW n \in 0..Len(s)
  PROVE  /\ SubSeq(s, 1, n) \in Seq(T) /\ Len(SubSeq(s, 1, n)) = n
         /\ \A i \in 1..n : SubSeq(s, 1, n)[i] = s[i]
<1>1. n \in Int /\ 1 \in Int /\ \A i \in 1..n : s[i] \in T
  OBVIOUS
<1>2. /\ SubSeq(s, 1, n) \in Seq(T)
      /\ Len(SubSeq(s, 1, n)) = IF 1 <= n THEN n - 1 + 1 ELSE 0
      /\ \A i \in 1..n - 1 + 1 : SubSeq(s, 1, n)[i] = s[1 + i - 1]
  BY <1>1, SubSeqProperties
<1> QED
  BY <1>2

(* An item is entered.                                                     *)
LEMMA LevelsOfMore ==
  ASSUME NEW items \in Seq(Frame), NEW f \in Frame, NEW scopes \in [Frame -> Nat],
         NEW m, NEW height \in Nat, Levels(m, items, scopes, height),
         NEW height2, height2 = height + scopes[f]
  PROVE  \E m2 : /\ Levels(m2, Append(items, f), scopes, height2)
                 /\ \A i \in 0..Len(items) : m2[i] = m[i]
<1> DEFINE n  == Len(items)
           m2 == [i \in 0..n + 1 |-> IF i <= n THEN m[i] ELSE height + scopes[f]]
<1>1. /\ n \in Nat /\ Len(Append(items, f)) = n + 1
      /\ Append(items, f)[n + 1] = f
      /\ \A i \in 1..n : Append(items, f)[i] = items[i]
  OBVIOUS
<1>2. scopes[f] \in Nat
  OBVIOUS
<1>3. /\ m \in [0..n -> Nat \ {0}] /\ m[0] = 1 /\ m[n] = height
      /\ \A i \in 1..n : m[i] = m[i - 1] + scopes[items[i]]
      /\ \A i, j \in 0..n : i <= j => m[i] <= m[j]
  BY DEF Levels
<1> HIDE DEF n
<1>4. /\ \A i \in 0..n : m2[i] = m[i]
      /\ m2[n + 1] = height + scopes[f]
  BY <1>1
<1>5. m2 \in [0..n + 1 -> Nat \ {0}]
  <2>1. height + scopes[f] \in Nat \ {0}
    BY <1>1, <1>2, <1>3
  <2> QED
    BY <1>1, <1>3, <2>1
<1>6. m2[0] = 1
  BY <1>1, <1>3, <1>4
<1> HIDE DEF m2
<1>7. \A i \in 1..n + 1 : m2[i] = m2[i - 1] + scopes[Append(items, f)[i]]
  <2> SUFFICES ASSUME NEW i \in 1..n + 1
               PROVE  m2[i] = m2[i - 1] + scopes[Append(items, f)[i]]
    OBVIOUS
  <2>1. CASE i \in 1..n
    <3>1. i \in 0..n /\ i - 1 \in 0..n
      BY <1>1, <2>1
    <3>2. m2[i] = m[i] /\ m2[i - 1] = m[i - 1] /\ Append(items, f)[i] = items[i]
      BY <1>1, <1>4, <2>1, <3>1
    <3> QED
      BY <1>3, <2>1, <3>2
  <2>2. CASE i = n + 1
    BY <1>1, <1>3, <1>4, <2>2
  <2> QED
    BY <1>1, <2>1, <2>2
<1>8. \A i, j \in 0..n + 1 : i <= j => m2[i] <= m2[j]
  <2> SUFFICES ASSUME NEW i \in 0..n + 1, NEW j \in 0..n + 1, i <= j
               PROVE  m2[i] <= m2[j]
    OBVIOUS
  <2>1. CASE j \in 0..n
    <3>1. i \in 0..n
      BY <1>1, <2>1
    <3>2. m2[i] = m[i] /\ m2[j] = m[j]
      BY <1>4, <2>1, <3>1
    <3> QED
      BY <1>3, <2>1, <3>1, <3>2
  <2>2. CASE j = n + 1 /\ i \in 0..n
    <3>1. m[i] <= height /\ m[i] \in Nat
      BY <1>1, <1>3, <2>2
    <3> QED
      BY <1>2, <1>4, <2>2, <3>1
  <2>3. CASE j = n + 1 /\ i = n + 1
    BY <1>2, <1>4, <2>3
  <2> QED
    BY <1>1, <2>1, <2>2, <2>3
<1>9. Levels(m2, Append(items, f), scopes, height + scopes[f])
  BY <1>1, <1>4, <1>5, <1>6, <1>7, <1>8 DEF Levels
<1> QED
  BY <1>4, <1>9 DEF n

(* The innermost item is left.                                             *)
LEMMA LevelsOfLess ==
  ASSUME NEW items \in Seq(Frame), Len(items) > 0, NEW scopes \in [Frame -> Nat],
         NEW m, NEW height \in Nat, Levels(m, items, scopes, height),
         NEW f \in Frame, f = items[Len(items)], NEW height2, height2 = height - scopes[f]
  PROVE  \E m2 : /\ Levels(m2, SubSeq(items, 1, Len(items) - 1), scopes, height2)
                 /\ SameLevels(m2, m)
<1> DEFINE n  == Len(items)
           m2 == [i \in 0..n - 1 |-> m[i]]
           less == SubSeq(items, 1, n - 1)
<1>1. /\ n \in Nat \ {0} /\ Len(less) = n - 1 /\ items[n] \in Frame
      /\ \A i \in 1..n - 1 : less[i] = items[i]
  <2>1. n \in Nat \ {0} /\ items[n] \in Frame /\ n - 1 \in 0..Len(items)
    OBVIOUS
  <2> QED
    BY <2>1, PrefixIs
<1>2. scopes[items[n]] \in Nat
  BY <1>1
<1>3. /\ m \in [0..n -> Nat \ {0}] /\ m[0] = 1 /\ m[n] = height
      /\ \A i \in 1..n : m[i] = m[i - 1] + scopes[items[i]]
      /\ \A i, j \in 0..n : i <= j => m[i] <= m[j]
  BY DEF Levels
<1> HIDE DEF n, less
<1>4. \A i \in 0..n - 1 : m2[i] = m[i]
  OBVIOUS
<1>5. m2 \in [0..n - 1 -> Nat \ {0}] /\ m2[0] = 1
  BY SMTT(30), <1>1, <1>3
<1>6. m2[n - 1] = height - scopes[items[n]]
  <2>1. m[n] = m[n - 1] + scopes[items[n]] /\ m[n - 1] \in Nat
    BY <1>1, <1>3
  <2> QED
    BY <1>1, <1>2, <1>3, <2>1
<1> HIDE DEF m2
<1>7. \A i \in 1..n - 1 : m2[i] = m2[i - 1] + scopes[less[i]]
  <2> SUFFICES ASSUME NEW i \in 1..n - 1
               PROVE  m2[i] = m2[i - 1] + scopes[less[i]]
    OBVIOUS
  <2>1. i \in 1..n /\ i \in 0..n - 1 /\ i - 1 \in 0..n - 1
    BY <1>1
  <2>2. m2[i] = m[i] /\ m2[i - 1] = m[i - 1] /\ less[i] = items[i]
    BY <1>1, <1>4, <2>1
  <2> QED
    BY <1>3, <2>1, <2>2
<1>8. \A i, j \in 0..n - 1 : i <= j => m2[i] <= m2[j]
  BY <1>1, <1>3, <1>4
<1>9. Levels(m2, less, scopes, height - scopes[items[n]])
  BY <1>1, <1>5, <1>6, <1>7, <1>8 DEF Levels
<1>10. SameLevels(m2, m)
  BY <1>4, <1>5 DEF SameLevels
<1> QED
  BY <1>9, <1>10 DEF n, less

(* A table after a scope with the keys has been opened in it               *)
Opened(stack2, stack, keys, d) ==
  /\ Len(stack2) = Len(stack) + 1
  /\ \A i \in 1..Len(stack) : stack2[i] = stack[i]
  /\ stack2[Len(stack) + 1] = [k \in Key |-> IF k \in keys THEN d ELSE NoDecl]

(* and after the keys have been inserted in its innermost scope.           *)
Inserted(stack2, stack, keys, d) ==
  /\ Len(stack2) = Len(stack)
  /\ \A i \in 1..Len(stack) - 1 : stack2[i] = stack[i]
  /\ \A k \in Key : stack2[Len(stack)][k] =
                      IF k \in keys THEN d ELSE stack[Len(stack)][k]

LEMMA TableGrows ==
  ASSUME NEW n \in Nat, NEW n2 \in Nat, n <= n2, NEW stack \in Table(n)
  PROVE  stack \in Table(n2)
<1>1. [Key -> 0..n] \subseteq [Key -> 0..n2]
  OBVIOUS
<1> QED
  BY <1>1, SeqMonotonic DEF Table

LEMMA OpenedTable ==
  ASSUME NEW n \in Nat, NEW n2 \in Nat, n <= n2, NEW stack \in Table(n),
         NEW keys, NEW d, keys # {} => d \in 0..n2
  PROVE  LET scope == [k \in Key |-> IF k \in keys THEN d ELSE NoDecl]
         IN  /\ Append(stack, scope) \in Table(n2)
             /\ Opened(Append(stack, scope), stack, keys, d)
<1> DEFINE scope == [k \in Key |-> IF k \in keys THEN d ELSE NoDecl]
<1>1. scope \in [Key -> 0..n2]
  BY DEF NoDecl
<1>2. stack \in Seq([Key -> 0..n2])
  BY TableGrows DEF Table
<1> HIDE DEF scope
<1>3. /\ Append(stack, scope) \in Table(n2)
      /\ Len(Append(stack, scope)) = Len(stack) + 1
      /\ \A i \in 1..Len(stack) : Append(stack, scope)[i] = stack[i]
      /\ Append(stack, scope)[Len(stack) + 1] = scope
  BY <1>1, <1>2, AppendProperties DEF Table
<1> QED
  BY <1>3 DEF Opened, scope

PutIn(stack, keys, d) ==
  [stack EXCEPT ![Len(stack)] = [k \in Key |-> IF k \in keys THEN d ELSE @[k]]]

LEMMA InsertedTable ==
  ASSUME NEW n \in Nat, NEW n2 \in Nat, n <= n2, NEW stack \in Table(n), stack # << >>,
         NEW keys, NEW d \in 0..n2
  PROVE  /\ PutIn(stack, keys, d) \in Table(n2)
         /\ Inserted(PutIn(stack, keys, d), stack, keys, d)
<1> DEFINE stack2 == PutIn(stack, keys, d)
<1>1. stack \in Seq([Key -> 0..n2])
  BY TableGrows DEF Table
<1>2. Len(stack) \in 1..Len(stack) /\ Len(stack) \in Nat
  BY <1>1, EmptySeq, LenProperties
<1>3. stack[Len(stack)] \in [Key -> 0..n2]
  BY <1>1, <1>2, ElementOfSeq
<1> DEFINE top == [k \in Key |-> IF k \in keys THEN d ELSE stack[Len(stack)][k]]
<1>4. top \in [Key -> 0..n2]
  BY <1>3
<1>5. \A k \in Key : top[k] = IF k \in keys THEN d ELSE stack[Len(stack)][k]
  OBVIOUS
<1>6. stack2 = [stack EXCEPT ![Len(stack)] = top]
  BY DEF PutIn
<1> HIDE DEF top, stack2
<1>7. /\ stack2 \in Seq([Key -> 0..n2]) /\ Len(stack2) = Len(stack)
      /\ \A i \in 1..Len(stack) : stack2[i] = IF i = Len(stack) THEN top ELSE stack[i]
  <2> DEFINE S    == [Key -> 0..n2]
             last == Len(stack)
  <2>1. stack \in Seq(S) /\ last \in 1..Len(stack) /\ top \in S
    BY <1>1, <1>2, <1>4
  <2>2. stack2 = [stack EXCEPT ![last] = top]
    BY <1>6
  <2> HIDE DEF S, last
  <2>3. /\ [stack EXCEPT ![last] = top] \in Seq(S)
        /\ Len([stack EXCEPT ![last] = top]) = Len(stack)
        /\ \A i \in 1..Len(stack) :
             [stack EXCEPT ![last] = top][i] = IF i = last THEN top ELSE stack[i]
    BY ONLY <2>1, ExceptSeq
  <2> QED
    BY <2>2, <2>3 DEF S, last
<1>8. \A i \in 1..Len(stack) - 1 : i \in 1..Len(stack) /\ i # Len(stack)
  BY <1>2
<1>9. stack2[Len(stack)] = top
  BY <1>2, <1>7
<1> QED
  BY <1>5, <1>7, <1>8, <1>9 DEF Table, Inserted, stack2

(* Insert is such an insertion of a single key,                            *)
LEMMA InsertOne ==
  ASSUME NEW n \in Nat, NEW stack \in Table(n), stack # << >>, NEW x \in Key, NEW d
  PROVE  Insert(stack, x, d) = PutIn(stack, {x}, d)
<1>1. Len(stack) \in 1..Len(stack)
  BY EmptySeq, LenProperties DEF Table
<1>2. stack[Len(stack)] \in [Key -> 0..n]
  BY <1>1, ElementOfSeq DEF Table
<1>3. [stack[Len(stack)] EXCEPT ![x] = d] =
        [k \in Key |-> IF k \in {x} THEN d ELSE stack[Len(stack)][k]]
  BY <1>2
<1> QED
  BY <1>3 DEF Insert, PutIn

LEMMA InsertTable ==
  ASSUME NEW n \in Nat, NEW n2 \in Nat, n <= n2, NEW stack \in Table(n), stack # << >>,
         NEW x \in Key, NEW d \in 0..n2
  PROVE  /\ Insert(stack, x, d) \in Table(n2)
         /\ Inserted(Insert(stack, x, d), stack, {x}, d)
<1> DEFINE keys == {x}
<1>1. Insert(stack, x, d) = PutIn(stack, keys, d)
  BY InsertOne
<1> HIDE DEF keys
<1>2. PutIn(stack, keys, d) \in Table(n2) /\ Inserted(PutIn(stack, keys, d), stack, keys, d)
  BY InsertedTable
<1> QED
  BY <1>1, <1>2 DEF keys

(* and of two keys if it is done twice.                                    *)
LEMMA InsertTwo ==
  ASSUME NEW n \in Nat, NEW n2 \in Nat, n <= n2, NEW stack \in Table(n), stack # << >>,
         NEW x \in Key, NEW t \in Key, NEW d \in 0..n2
  PROVE  /\ Insert(Insert(stack, x, d), t, d) \in Table(n2)
         /\ Inserted(Insert(Insert(stack, x, d), t, d), stack, {t, x}, d)
<1> DEFINE once  == Insert(stack, x, d)
           twice == Insert(once, t, d)
<1>1. once \in Table(n2) /\ Inserted(once, stack, {x}, d)
  BY InsertTable
<1>2. Len(stack) \in Nat /\ Len(stack) # 0
  BY EmptySeq, LenProperties DEF Table
<1>3. once # << >>
  BY <1>1, <1>2 DEF Inserted
<1> HIDE DEF once
<1>4. twice \in Table(n2) /\ Inserted(twice, once, {t}, d)
  <2>1. n2 <= n2
    OBVIOUS
  <2> QED
    BY <1>1, <1>3, <2>1, InsertTable
<1> HIDE DEF twice
<1>5. Inserted(twice, stack, {t, x}, d)
  BY <1>1, <1>4 DEF Inserted
<1> QED
  BY <1>4, <1>5 DEF once, twice

-----------------------------------------------------------------------------
(* Steps                                                                   *)

LEMMA TypeFacts ==
  ASSUME TypeOK
  PROVE  /\ Len(decls) \in Nat /\ New \in Nat /\ New # NoDecl /\ New = Len(decls) + 1
         /\ frames \in Seq(Frame) /\ Len(frames) \in Nat
         /\ frames # << >> <=> Len(frames) # 0
         /\ \A i \in 1..Len(frames) : frames[i] \in Frame /\ frames[i].skipped \in BOOLEAN
         /\ typeContext \in Table(Len(decls)) /\ Len(typeContext) \in Nat \ {0}
         /\ symbolTable \in Table(Len(decls)) /\ Len(symbolTable) \in Nat \ {0}
         /\ env \in Table(Len(decls)) /\ Len(env) \in Nat \ {0}
         /\ leaks \in Seq(SUBSET Nat) /\ Len(leaks) = Len(frames) + 1
<1>1. /\ decls \in Seq(Decls) /\ frames \in Seq(Frame)
      /\ leaks \in Seq(SUBSET Nat) /\ Len(leaks) = Len(frames) + 1
  BY DEF TypeOK, Frame
<1>2. Len(decls) \in Nat /\ New \in Nat /\ New # NoDecl /\ New = Len(decls) + 1
  BY <1>1 DEF New, NoDecl
<1>3. /\ typeContext \in Table(Len(decls)) /\ typeContext # << >>
      /\ symbolTable \in Table(Len(decls)) /\ symbolTable # << >>
      /\ env \in Table(Len(decls)) /\ env # << >>
  BY DEF TypeOK, Table
<1>4. /\ Len(typeContext) \in Nat \ {0} /\ Len(symbolTable) \in Nat \ {0}
      /\ Len(env) \in Nat \ {0}
  BY <1>3, EmptySeq, LenProperties DEF Table
<1>5. \A i \in 1..Len(frames) : frames[i] \in Frame /\ frames[i].skipped \in BOOLEAN
  <2>1. \A i \in 1..Len(frames) : frames[i] \in Frame
    BY <1>1, ElementOfSeq
  <2>2. \A f \in Frame : f.skipped \in BOOLEAN
    BY DEF Frame
  <2> QED
    BY <2>1, <2>2
<1>6. Len(frames) \in Nat /\ (frames # << >> <=> Len(frames) # 0)
  BY <1>1, EmptySeq, LenProperties
<1> QED
  BY <1>1, <1>2, <1>3, <1>4, <1>5, <1>6

LEMMA LeaksHereAre ==
  ASSUME TypeOK, NEW leak \in SUBSET Nat
  PROVE  LET n == Len(frames)
         IN  /\ LeaksHere(leak) \in Seq(SUBSET Nat) /\ Len(LeaksHere(leak)) = n + 1
             /\ \A i \in 1..n + 1 :
                  LeaksHere(leak)[i] = IF i = n + 1 THEN leaks[i] \cup leak ELSE leaks[i]
<1> DEFINE last == Len(frames) + 1
           S    == SUBSET Nat
           e    == leaks[last] \cup leak
<1>1. last \in 1..last /\ leaks \in Seq(S) /\ Len(leaks) = last
  BY TypeFacts
<1>2. e \in S
  BY <1>1, ElementOfSeq
<1>3. LeaksHere(leak) = [leaks EXCEPT ![last] = e]
  BY <1>1 DEF LeaksHere
<1> HIDE DEF last, S
<1>4. /\ [leaks EXCEPT ![last] = e] \in Seq(S)
      /\ Len([leaks EXCEPT ![last] = e]) = last
      /\ \A i \in 1..last : [leaks EXCEPT ![last] = e][i] = IF i = last THEN e ELSE leaks[i]
  <2>1. last \in 1..Len(leaks)
    BY <1>1
  <2> HIDE DEF e
  <2> QED
    BY ONLY <1>1, <1>2, <2>1, ExceptSeq
<1> QED
  BY <1>3, <1>4 DEF last, S

(* What an item that is entered, one that is left, and a declaration make  *)
(* of the leaks                                                            *)
LEMMA LeaksEntered ==
  ASSUME TypeOK, Len(frames') = Len(frames) + 1, NEW leak \in SUBSET Nat, EnterItem(leak)
  PROVE  /\ LeaksGrow
         /\ leaks[Len(frames) + 1] \subseteq leaks'[Len(frames) + 2]
         /\ leak \subseteq leaks'[Len(frames) + 1]
<1> DEFINE n == Len(frames)
<1>1. n \in Nat /\ leaks \in Seq(SUBSET Nat) /\ Len(leaks) = n + 1
  BY TypeFacts
<1>2. /\ LeaksHere(leak) \in Seq(SUBSET Nat) /\ Len(LeaksHere(leak)) = n + 1
      /\ \A i \in 1..n + 1 :
           LeaksHere(leak)[i] = IF i = n + 1 THEN leaks[i] \cup leak ELSE leaks[i]
  BY LeaksHereAre
<1>3. leaks' = Append(LeaksHere(leak), leaks[n + 1] \cup leak)
  BY <1>1 DEF EnterItem
<1>4. n + 1 \in 1..n + 1 /\ leaks[n + 1] \cup leak \in SUBSET Nat
  <2>1. n + 1 \in 1..n + 1 /\ n + 1 \in 1..Len(leaks)
    BY <1>1
  <2>2. leaks[n + 1] \in SUBSET Nat
    BY <1>1, <2>1, ElementOfSeq
  <2> QED
    BY <2>1, <2>2
<1>5. /\ leaks' \in Seq(SUBSET Nat) /\ Len(leaks') = (n + 1) + 1
      /\ leaks'[(n + 1) + 1] = leaks[n + 1] \cup leak
      /\ \A i \in 1..n + 1 : leaks'[i] = LeaksHere(leak)[i]
  BY <1>2, <1>3, <1>4, AppendProperties
<1>6. \A i \in 0..n : i + 1 \in 1..n + 1
  BY <1>1
<1>7. \A i \in 0..n : leaks[i + 1] \subseteq leaks'[i + 1]
  BY <1>2, <1>5, <1>6
<1>8. (n + 1) + 1 = n + 2
  BY <1>1
<1> QED
  BY <1>2, <1>4, <1>5, <1>7, <1>8 DEF LeaksGrow

LEMMA LeaksLeft ==
  ASSUME TypeOK, frames # << >>, Len(frames') = Len(frames) - 1, LeaveItem
  PROVE  LeaksGrow
<1> DEFINE n == Len(frames)
<1>1. n \in Nat \ {0} /\ leaks \in Seq(SUBSET Nat) /\ Len(leaks) = n + 1
  BY TypeFacts
<1>2. Len(leaks) - 1 = n /\ n \in 0..Len(leaks)
  BY <1>1
<1>3. /\ leaks' \in Seq(SUBSET Nat) /\ Len(leaks') = n
      /\ \A i \in 1..n : leaks'[i] = leaks[i]
  BY <1>1, <1>2, PrefixIs DEF LeaveItem
<1>4. \A i \in 0..n : i <= n - 1 => i + 1 \in 1..n
  BY <1>1
<1>5. Len(leaks') = Len(frames') + 1
  BY <1>1, <1>3
<1> QED
  BY <1>3, <1>4, <1>5 DEF LeaksGrow

LEMMA LeaksDeclared ==
  ASSUME TypeOK, frames' = frames, NEW leak \in SUBSET Nat, leaks' = LeaksHere(leak)
  PROVE  LeaksGrow /\ leak \subseteq leaks'[Len(frames) + 1]
<1> DEFINE n == Len(frames)
<1>1. n \in Nat /\ leaks \in Seq(SUBSET Nat) /\ Len(leaks) = n + 1
  BY TypeFacts
<1>2. /\ leaks' \in Seq(SUBSET Nat) /\ Len(leaks') = n + 1
      /\ \A i \in 1..n + 1 : leaks'[i] = IF i = n + 1 THEN leaks[i] \cup leak ELSE leaks[i]
  BY LeaksHereAre
<1>3. (\A i \in 0..n : i + 1 \in 1..n + 1) /\ n + 1 \in 1..n + 1
  BY <1>1
<1> QED
  BY <1>2, <1>3 DEF LeaksGrow

LEMMA LeaksKept ==
  ASSUME TypeOK, frames' = frames, leaks' = leaks
  PROVE  LeaksGrow
BY TypeFacts DEF LeaksGrow

(* A skipped item is in a terminated block.                                *)
LEMMA SkippingIsTerminated ==
  ASSUME TypeOK, SkippedItems
  PROVE  /\ SkipsNext => terminated
         /\ SkipsNext => InFunction
         /\ \A i \in 1..Len(frames) : frames[i].skipped => Top.skipped /\ Skipping
<1>1. /\ Len(frames) \in Nat /\ (frames # << >> <=> Len(frames) # 0)
      /\ \A i \in 1..Len(frames) : frames[i].skipped \in BOOLEAN
  BY TypeFacts
<1>2. \A i \in 1..Len(frames) : frames[i].skipped => Top.skipped
  BY <1>1 DEF SkippedItems, Top
<1>3. Skipping => terminated
  BY <1>1 DEF SkippedItems, Skipping, InFunction, Top
<1>4. Len(frames) # 0 => InFunction
  BY <1>1 DEF InFunction
<1> QED
  BY <1>1, <1>2, <1>3, <1>4 DEF SkipsNext, Skipping, InFunction

(* What is found in the scopes at a level, and which levels a change at    *)
(* the top of a table does not reach.                                      *)
LEMMA LevelFacts ==
  ASSUME TypeOK, NEW tl, NEW sl, NEW el, Agreement(tl, sl, el)
  PROVE  \A i \in 0..Len(frames) :
           /\ tl[i] \in 1..Len(typeContext) /\ el[i] \in 1..Len(env)
           /\ sl[i] \in 1..Len(symbolTable)
           /\ \A k \in Key : /\ Within(typeContext, tl[i], k) \in 0..Len(decls)
                             /\ Within(symbolTable, sl[i], k) \in 0..Len(decls)
                             /\ Within(env, el[i], k) \in 0..Len(decls)
           /\ i < Len(frames) =>
                /\ tl[i] \in 1..Len(typeContext) - 1 /\ el[i] \in 1..Len(env) - 1
                /\ sl[i] + SymbolScopes[Top] <= Len(symbolTable)
<1> DEFINE n == Len(frames)
<1>1. /\ n \in Nat /\ Len(typeContext) \in Nat /\ Len(symbolTable) \in Nat /\ Len(env) \in Nat
      /\ \A j \in 1..n : frames[j] \in Frame
      /\ typeContext \in Table(Len(decls)) /\ symbolTable \in Table(Len(decls))
      /\ env \in Table(Len(decls)) /\ Len(decls) \in Nat
  BY TypeFacts
<1> SUFFICES ASSUME NEW i \in 0..n
             PROVE  /\ tl[i] \in 1..Len(typeContext) /\ el[i] \in 1..Len(env)
                    /\ sl[i] \in 1..Len(symbolTable)
                    /\ \A k \in Key : /\ Within(typeContext, tl[i], k) \in 0..Len(decls)
                                      /\ Within(symbolTable, sl[i], k) \in 0..Len(decls)
                                      /\ Within(env, el[i], k) \in 0..Len(decls)
                    /\ i < n =>
                         /\ tl[i] \in 1..Len(typeContext) - 1 /\ el[i] \in 1..Len(env) - 1
                         /\ sl[i] + SymbolScopes[Top] <= Len(symbolTable)
  OBVIOUS
<1>2. /\ tl \in [0..n -> Nat \ {0}] /\ tl[n] = Len(typeContext)
      /\ \A j \in 1..n : tl[j] = tl[j - 1] + TypeScopes[frames[j]]
      /\ \A h, j \in 0..n : h <= j => tl[h] <= tl[j]
  BY DEF Agreement, Levels
<1>3. /\ sl \in [0..n -> Nat \ {0}] /\ sl[n] = Len(symbolTable)
      /\ \A j \in 1..n : sl[j] = sl[j - 1] + SymbolScopes[frames[j]]
      /\ \A h, j \in 0..n : h <= j => sl[h] <= sl[j]
  BY DEF Agreement, Levels
<1>4. /\ el \in [0..n -> Nat \ {0}] /\ el[n] = Len(env)
      /\ \A j \in 1..n : el[j] = el[j - 1] + CScopes[frames[j]]
      /\ \A h, j \in 0..n : h <= j => el[h] <= el[j]
  BY DEF Agreement, Levels
<1> HIDE DEF n
<1>5. /\ tl[i] \in 1..Len(typeContext) /\ sl[i] \in 1..Len(symbolTable)
      /\ el[i] \in 1..Len(env)
  <2>1. n \in 0..n /\ i <= n
    BY <1>1
  <2> QED
    BY <1>1, <1>2, <1>3, <1>4, <2>1
<1>6. /\ tl[i] \in 0..Len(typeContext) /\ sl[i] \in 0..Len(symbolTable)
      /\ el[i] \in 0..Len(env)
  BY <1>1, <1>5
<1>7. \A k \in Key : /\ Within(typeContext, tl[i], k) \in 0..Len(decls)
                     /\ Within(symbolTable, sl[i], k) \in 0..Len(decls)
                     /\ Within(env, el[i], k) \in 0..Len(decls)
  BY <1>1, <1>6, WithinIsDeclared
<1>8. ASSUME i < n
      PROVE  /\ tl[i] \in 1..Len(typeContext) - 1 /\ el[i] \in 1..Len(env) - 1
             /\ sl[i] + SymbolScopes[Top] <= Len(symbolTable)
  <2>1. n - 1 \in 0..n /\ i <= n - 1 /\ n \in 1..n
    BY <1>1, <1>8
  <2>2. Top = frames[n] /\ frames[n] \in Frame
    BY <1>1, <2>1 DEF Top, n
  <2>3. /\ TypeScopes[frames[n]] \in {1, 2} /\ CScopes[frames[n]] \in {1, 2}
        /\ SymbolScopes[frames[n]] \in {0, 1, 2}
    BY <2>2 DEF TypeScopes, CScopes, SymbolScopes
  <2>4. /\ tl[n] = tl[n - 1] + TypeScopes[frames[n]] /\ tl[i] <= tl[n - 1]
        /\ tl[n - 1] \in Nat
    BY <1>2, <2>1
  <2>5. /\ sl[n] = sl[n - 1] + SymbolScopes[frames[n]] /\ sl[i] <= sl[n - 1]
        /\ sl[n - 1] \in Nat
    BY <1>3, <2>1
  <2>6. /\ el[n] = el[n - 1] + CScopes[frames[n]] /\ el[i] <= el[n - 1]
        /\ el[n - 1] \in Nat
    BY <1>4, <2>1
  <2>7. tl[i] \in 1..Len(typeContext) - 1
    <3>1. tl[i] \in Nat /\ tl[i] >= 1 /\ tl[n] = Len(typeContext) /\ Len(typeContext) \in Nat
      BY <1>1, <1>2, <1>5
    <3>2. tl[i] + 1 <= Len(typeContext)
      BY ONLY <2>3, <2>4, <3>1
    <3> QED
      BY ONLY <3>1, <3>2
  <2>8. el[i] \in 1..Len(env) - 1
    <3>1. el[i] \in Nat /\ el[i] >= 1 /\ el[n] = Len(env) /\ Len(env) \in Nat
      BY <1>1, <1>4, <1>5
    <3>2. el[i] + 1 <= Len(env)
      BY ONLY <2>3, <2>6, <3>1
    <3> QED
      BY ONLY <3>1, <3>2
  <2>9. sl[i] + SymbolScopes[Top] <= Len(symbolTable)
    <3>1. sl[i] \in Nat /\ sl[n] = Len(symbolTable)
      BY <1>1, <1>3, <1>5
    <3> QED
      BY <1>1, <2>2, <2>3, <2>5, <3>1
  <2> QED
    BY <2>7, <2>8, <2>9
<1> QED
  BY <1>5, <1>7, <1>8

(* An item is entered: at the level below it the type checker may leak the *)
(* keys early, and in the new scopes all three tables find the keys.       *)
LEMMA EnterKeeps ==
  ASSUME TypeOK, SkippedItems, \E tl, sl, el : Agreement(tl, sl, el),
         NEW f \in Frame, frames' = Append(frames, f), f.skipped = SkipsNext,
         f.kind = "fn" <=> frames = << >>, SkipsNext => terminated',
         Grows(decls, decls'), LeaksGrow,
         leaks[Len(frames) + 1] \subseteq leaks'[Len(frames) + 2],
         NEW early, NEW keys, early # {} => New \in leaks'[Len(frames) + 1],
         Len(typeContext') = Len(typeContext) + TypeScopes[f],
         \A i \in 1..Len(typeContext) - 1 : typeContext'[i] = typeContext[i],
         Shows(typeContext', Len(typeContext), typeContext, Len(typeContext), early, New),
         Shows(typeContext', Len(typeContext'), typeContext, Len(typeContext), keys, New),
         Len(symbolTable') = Len(symbolTable) + SymbolScopes[f],
         \A i \in 1..Len(symbolTable) : symbolTable'[i] = symbolTable[i],
         ~f.skipped =>
           Shows(symbolTable', Len(symbolTable'), symbolTable, Len(symbolTable), keys, New),
         Len(env') = Len(env) + CScopes[f],
         \A i \in 1..Len(env) : env'[i] = env[i],
         Shows(env', Len(env'), env, Len(env), keys, New)
  PROVE  SkippedItems' /\ \E tl, sl, el : Agreement(tl, sl, el)'
<1>1. /\ Len(frames) \in Nat /\ New # NoDecl /\ frames \in Seq(Frame)
      /\ frames # << >> <=> Len(frames) # 0
      /\ \A i \in 1..Len(frames) : frames[i] \in Frame /\ frames[i].skipped \in BOOLEAN
      /\ Len(typeContext) \in Nat \ {0} /\ Len(symbolTable) \in Nat \ {0}
      /\ Len(env) \in Nat \ {0}
  BY TypeFacts
<1> DEFINE n == Len(frames)
<1>2. /\ Len(frames') = n + 1 /\ frames'[n + 1] = f
      /\ \A i \in 1..n : frames'[i] = frames[i]
  BY <1>1, AppendProperties
<1>3. /\ SkipsNext => InFunction
      /\ \A i \in 1..n : frames[i].skipped => Top.skipped /\ Skipping
  BY SkippingIsTerminated
<1>4. f.skipped \in BOOLEAN /\ (f.skipped <=> SkipsNext)
  BY DEF Frame
<1>5. \A i \in 1..n : frames[i].skipped => SkipsNext
  BY <1>3 DEF SkipsNext
<1>6. SkippedItems'
  <2>1. \A i \in 1..n + 1 : i \in 1..n \/ i = n + 1
    BY <1>1
  <2>2. \A i \in 1..n + 1 : frames'[i].kind = "fn" <=> i = 1
    <3>1. \A i \in 1..n : frames[i].kind = "fn" <=> i = 1
      BY DEF SkippedItems
    <3>2. f.kind = "fn" <=> n + 1 = 1
      BY <1>1
    <3> QED
      BY <1>1, <1>2, <2>1, <3>1, <3>2
  <2>3. \A i \in 1..n + 1 : frames'[i].kind = "fn" => ~frames'[i].skipped
    <3>1. \A i \in 1..n : frames[i].kind = "fn" => ~frames[i].skipped
      BY DEF SkippedItems
    <3>2. f.kind = "fn" => ~f.skipped
      BY <1>3, <1>4 DEF InFunction
    <3> QED
      BY <1>2, <2>1, <3>1, <3>2
  <2>4. \A i \in 1..n + 1 : frames'[i].skipped => terminated'
    BY <1>2, <1>4, <1>5, <2>1
  <2>5. \A i, j \in 1..n + 1 : i < j /\ frames'[i].skipped => frames'[j].skipped
    <3> SUFFICES ASSUME NEW i \in 1..n + 1, NEW j \in 1..n + 1, i < j, frames'[i].skipped
                 PROVE  frames'[j].skipped
      OBVIOUS
    <3>1. i \in 1..n
      BY <1>1
    <3>2. frames[i].skipped
      BY <1>2, <3>1
    <3>3. CASE j \in 1..n
      BY <1>2, <3>1, <3>2, <3>3 DEF SkippedItems
    <3>4. CASE j = n + 1
      BY <1>2, <1>4, <1>5, <3>1, <3>2, <3>4
    <3> QED
      BY <2>1, <3>3, <3>4
  <2>6. \A i \in 2..n + 1 : frames'[i].skipped /\ ~frames'[i - 1].skipped =>
          \A j \in 1..i - 1 : frames'[j].kind # "switch"
    <3> SUFFICES ASSUME NEW i \in 2..n + 1, frames'[i].skipped, ~frames'[i - 1].skipped,
                        NEW j \in 1..i - 1
                 PROVE  frames'[j].kind # "switch"
      OBVIOUS
    <3>1. i - 1 \in 1..n /\ j \in 1..n
      BY <1>1
    <3>2. frames'[i - 1] = frames[i - 1] /\ frames'[j] = frames[j]
      BY <1>2, <3>1
    <3>3. CASE i \in 1..n
      <4>1. frames'[i] = frames[i] /\ i \in 2..n
        BY <1>2, <3>3
      <4> QED
        BY SMTT(30), <3>2, <4>1 DEF SkippedItems
    <3>4. CASE i = n + 1
      <4>1. SkipsNext /\ ~frames[n].skipped
        BY <1>1, <1>2, <1>4, <3>2, <3>4
      <4>2. ~SwitchOpen
        BY <4>1 DEF SkipsNext, Skipping, Top
      <4> QED
        BY <3>1, <3>2, <4>2 DEF SwitchOpen
    <3>5. i \in 1..n \/ i = n + 1
      BY <1>1
    <3> QED
      BY <3>3, <3>4, <3>5
  <2> QED
    BY <1>2, <2>2, <2>3, <2>4, <2>5, <2>6 DEF SkippedItems
<1>7. PICK tl, sl, el : Agreement(tl, sl, el)
  OBVIOUS
<1>8. /\ TypeScopes \in [Frame -> Nat] /\ SymbolScopes \in [Frame -> Nat]
      /\ CScopes \in [Frame -> Nat]
  BY DEF TypeScopes, SymbolScopes, CScopes
<1>9. PICK tl2 : /\ Levels(tl2, frames', TypeScopes, Len(typeContext'))
                 /\ \A i \in 0..n : tl2[i] = tl[i]
  <2>1. /\ Levels(tl, frames, TypeScopes, Len(typeContext)) /\ Len(typeContext) \in Nat
        /\ frames \in Seq(Frame)
    BY <1>1, <1>7 DEF Agreement
  <2>2. Len(typeContext') = Len(typeContext) + TypeScopes[f] /\ TypeScopes \in [Frame -> Nat]
    BY <1>8
  <2>3. \E m2 : /\ Levels(m2, Append(frames, f), TypeScopes, Len(typeContext'))
                /\ \A i \in 0..Len(frames) : m2[i] = tl[i]
    BY ONLY SMTT(30), f \in Frame, <2>1, <2>2, LevelsOfMore
  <2> QED
    BY <2>3
<1>10. PICK sl2 : /\ Levels(sl2, frames', SymbolScopes, Len(symbolTable'))
                  /\ \A i \in 0..n : sl2[i] = sl[i]
  <2>1. /\ Levels(sl, frames, SymbolScopes, Len(symbolTable)) /\ Len(symbolTable) \in Nat
        /\ frames \in Seq(Frame)
    BY <1>1, <1>7 DEF Agreement
  <2>2. Len(symbolTable') = Len(symbolTable) + SymbolScopes[f] /\ SymbolScopes \in [Frame -> Nat]
    BY <1>8
  <2>3. \E m2 : /\ Levels(m2, Append(frames, f), SymbolScopes, Len(symbolTable'))
                /\ \A i \in 0..Len(frames) : m2[i] = sl[i]
    BY ONLY SMTT(30), f \in Frame, <2>1, <2>2, LevelsOfMore
  <2> QED
    BY <2>3
<1>11. PICK el2 : /\ Levels(el2, frames', CScopes, Len(env'))
                  /\ \A i \in 0..n : el2[i] = el[i]
  <2>1. /\ Levels(el, frames, CScopes, Len(env)) /\ Len(env) \in Nat
        /\ frames \in Seq(Frame)
    BY <1>1, <1>7 DEF Agreement
  <2>2. Len(env') = Len(env) + CScopes[f] /\ CScopes \in [Frame -> Nat]
    BY <1>8
  <2>3. \E m2 : /\ Levels(m2, Append(frames, f), CScopes, Len(env'))
                /\ \A i \in 0..Len(frames) : m2[i] = el[i]
    BY ONLY SMTT(30), f \in Frame, <2>1, <2>2, LevelsOfMore
  <2> QED
    BY <2>3
<1>22. tl2[n + 1] = Len(typeContext') /\ sl2[n + 1] = Len(symbolTable') /\ el2[n + 1] = Len(env')
  BY <1>2, <1>9, <1>10, <1>11 DEF Levels
<1>12. /\ \A i \in 0..n : TypesAgree(leaks[i + 1], typeContext, tl[i], env, el[i])
       /\ \A i \in 0..n : Visits(i) => SymbolsAgree(decls, symbolTable, sl[i], env, el[i])
       /\ tl[n] = Len(typeContext) /\ sl[n] = Len(symbolTable) /\ el[n] = Len(env)
  BY <1>7 DEF Agreement, Levels
<1>13. \A i \in 0..n :
         /\ tl[i] \in 1..Len(typeContext) /\ el[i] \in 1..Len(env)
         /\ sl[i] \in 1..Len(symbolTable)
         /\ \A k \in Key : /\ Within(typeContext, tl[i], k) \in 0..Len(decls)
                           /\ Within(symbolTable, sl[i], k) \in 0..Len(decls)
                           /\ Within(env, el[i], k) \in 0..Len(decls)
         /\ i < n => tl[i] \in 1..Len(typeContext) - 1
  BY <1>7, LevelFacts
<1>14. ASSUME NEW i \in 0..n
       PROVE  /\ tl[i] \in Nat /\ sl[i] \in Nat /\ el[i] \in Nat
              /\ \A j \in 1..el[i] : env'[j] = env[j]
              /\ \A j \in 1..sl[i] : symbolTable'[j] = symbolTable[j]
  <2>1. \A h, m \in Nat : h \in 1..m => 1..h \subseteq 1..m
    OBVIOUS
  <2>2. /\ tl[i] \in 1..Len(typeContext) /\ sl[i] \in 1..Len(symbolTable)
        /\ el[i] \in 1..Len(env)
    BY <1>13
  <2>3. tl[i] \in Nat /\ sl[i] \in Nat /\ el[i] \in Nat
    BY <2>2
  <2>4. 1..sl[i] \subseteq 1..Len(symbolTable) /\ 1..el[i] \subseteq 1..Len(env)
    BY <1>1, <2>1, <2>2, <2>3
  <2> QED
    BY <2>3, <2>4
<1>15. ASSUME NEW i \in 0..n
       PROVE  TypesAgree(leaks'[i + 1], typeContext', tl2[i], env', el2[i])
  <2>1. tl2[i] = tl[i] /\ el2[i] = el[i]
    BY <1>9, <1>11
  <2>2. /\ TypesAgree(leaks[i + 1], typeContext, tl[i], env, el[i])
        /\ leaks[i + 1] \subseteq leaks'[i + 1]
    <3>1. i <= Len(frames')
      BY <1>1, <1>2
    <3> QED
      BY <1>12, <3>1 DEF LeaksGrow
  <2>3. CASE i < n
    <3>1. \A j \in 1..tl[i] : typeContext'[j] = typeContext[j]
      <4>1. tl[i] \in 1..Len(typeContext) - 1
        BY <1>13, <2>3
      <4> QED
        BY <1>1, <4>1
    <3>2. tl[i] \in Nat /\ el[i] \in Nat /\ \A j \in 1..el[i] : env'[j] = env[j]
      BY <1>14
    <3>3. TypesAgree(leaks'[i + 1], typeContext', tl[i], env', el[i])
      BY ONLY <2>2, <3>1, <3>2, TypesStayAgreed
    <3> QED
      BY <2>1, <3>3
  <2>4. CASE i = n
    <3>1. Shows(typeContext', tl[i], typeContext, tl[i], early, New)
      BY <1>12, <2>4
    <3>2. Shows(env', el[i], env, el[i], {}, New)
      BY <1>14, ShowsSame
    <3> DEFINE none == {}
    <3>3. none \subseteq early /\ (none # early => New \in leaks'[i + 1])
      BY <2>4
    <3>4. Shows(env', el[i], env, el[i], none, New)
      BY <3>2
    <3> HIDE DEF none
    <3> QED
      BY ONLY <2>1, <2>2, <3>1, <3>3, <3>4, TypesGoOnAgreeing
  <2> QED
    BY <1>1, <2>3, <2>4
<1>16. ASSUME NEW i \in 0..n, Visits(i)
       PROVE  SymbolsAgree(decls', symbolTable', sl2[i], env', el2[i])
  <2>1. sl2[i] = sl[i] /\ el2[i] = el[i]
    BY <1>10, <1>11
  <2>2. /\ SymbolsAgree(decls, symbolTable, sl[i], env, el[i])
        /\ \A k \in Key : Within(symbolTable, sl[i], k) \in 0..Len(decls)
        /\ \A k \in Key : Within(env, el[i], k) \in 0..Len(decls)
    BY <1>12, <1>13, <1>16
  <2> QED
    BY <1>14, <2>1, <2>2, SymbolsStayAgreed
<1>17. TypesAgree(leaks'[(n + 1) + 1], typeContext', tl2[n + 1], env', el2[n + 1])
  <2>1. n \in 0..n
    BY <1>1
  <2>2. /\ TypesAgree(leaks[n + 1], typeContext, Len(typeContext), env, Len(env))
        /\ leaks[n + 1] \subseteq leaks'[(n + 1) + 1]
    <3>1. (n + 1) + 1 = Len(frames) + 2
      BY <1>1
    <3> QED
      BY <1>12, <2>1, <3>1
  <2>3. keys \subseteq keys /\ (keys # keys => New \in leaks'[(n + 1) + 1])
    OBVIOUS
  <2> QED
    BY <1>22, <2>2, <2>3, TypesGoOnAgreeing
<1>18. ~f.skipped => SymbolsAgree(decls', symbolTable', sl2[n + 1], env', el2[n + 1])
  <2> SUFFICES ASSUME ~f.skipped
               PROVE  SymbolsAgree(decls', symbolTable', sl2[n + 1], env', el2[n + 1])
    OBVIOUS
  <2>1. n \in 0..n /\ Visits(n)
    BY <1>1, <1>4 DEF Visits
  <2>2. /\ SymbolsAgree(decls, symbolTable, Len(symbolTable), env, Len(env))
        /\ \A k \in Key : Within(symbolTable, Len(symbolTable), k) \in 0..Len(decls)
        /\ \A k \in Key : Within(env, Len(env), k) \in 0..Len(decls)
    BY <1>12, <1>13, <2>1
  <2>3. /\ keys \cap keys # {} => New = New
        /\ \A x \in Id :
             \/ x \in keys <=> x \in keys
             \/ x \in keys /\ decls'[New].kind = "const"
             \/ x \in keys /\ (decls'[New].where = "typedef" \/ decls'[New].kind = "typedef")
    OBVIOUS
  <2>4. Shows(symbolTable', Len(symbolTable'), symbolTable, Len(symbolTable), keys, New)
    OBVIOUS
  <2>5. Shows(env', Len(env'), env, Len(env), keys, New) /\ Grows(decls, decls')
    OBVIOUS
  <2> QED
    BY ONLY <1>1, <1>22, <2>2, <2>3, <2>4, <2>5, SymbolsGoOnAgreeing
<1>19. ASSUME NEW i \in 0..n, Visits(i)'
       PROVE  Visits(i)
  <2>1. CASE i < n
    <3>1. i + 1 \in 1..n /\ i < n + 1
      BY <1>1, <2>1
    <3> QED
      BY <1>2, <1>19, <2>1, <3>1 DEF Visits
  <2>2. CASE i = n
    <3>1. i < n + 1
      BY <1>1, <2>2
    <3> QED
      BY <1>1, <1>2, <1>4, <1>19, <2>2, <3>1 DEF Visits
  <2> QED
    BY <1>1, <2>1, <2>2
<1>20. Visits(n + 1)' => ~f.skipped
  <2>1. ~(n + 1 < n + 1) /\ n + 1 # 0
    BY <1>1
  <2>2. frames' # << >>
    BY <1>1, AppendProperties
  <2>3. f.skipped => SkipsNext'
    BY <1>2, <2>2 DEF SkipsNext, Skipping, InFunction, Top
  <2> QED
    BY <1>2, <2>1, <2>3 DEF Visits
<1>21. Agreement(tl2, sl2, el2)'
  <2>1. \A i \in 0..n + 1 : i \in 0..n \/ i = n + 1
    BY <1>1
  <2>2. \A i \in 0..n + 1 : TypesAgree(leaks'[i + 1], typeContext', tl2[i], env', el2[i])
    BY <1>15, <1>17, <2>1
  <2>3. \A i \in 0..n + 1 :
          Visits(i)' => SymbolsAgree(decls', symbolTable', sl2[i], env', el2[i])
    <3> SUFFICES ASSUME NEW i \in 0..n + 1, Visits(i)'
                 PROVE  SymbolsAgree(decls', symbolTable', sl2[i], env', el2[i])
      OBVIOUS
    <3>1. CASE i \in 0..n
      <4>1. Visits(i)
        BY <1>19, <3>1
      <4> QED
        BY <1>16, <3>1, <4>1
    <3>2. CASE i = n + 1
      <4>1. ~f.skipped
        BY <1>20, <3>2 DEF Visits
      <4> QED
        BY ONLY <1>18, <3>2, <4>1
    <3> QED
      BY <2>1, <3>1, <3>2
  <2> QED
    BY <1>2, <1>9, <1>10, <1>11, <2>2, <2>3 DEF Agreement
<1> QED
  BY <1>6, <1>21

(* An item is left: what is below it is as it was when it was entered.     *)
LEMMA LeaveKeeps ==
  ASSUME TypeOK, SkippedItems, \E tl, sl, el : Agreement(tl, sl, el),
         InFunction, frames' = SubSeq(frames, 1, Len(frames) - 1),
         Top.skipped => terminated', decls' = decls, LeaksGrow,
         Len(typeContext') = Len(typeContext) - TypeScopes[Top],
         \A i \in 1..Len(typeContext') : typeContext'[i] = typeContext[i],
         Len(symbolTable') = Len(symbolTable) - SymbolScopes[Top],
         \A i \in 1..Len(symbolTable') : symbolTable'[i] = symbolTable[i],
         Len(env') = Len(env) - CScopes[Top],
         \A i \in 1..Len(env') : env'[i] = env[i]
  PROVE  SkippedItems' /\ \E tl, sl, el : Agreement(tl, sl, el)'
<1> DEFINE n == Len(frames)
<1>1. /\ n \in Nat \ {0} /\ frames \in Seq(Frame) /\ Len(decls) \in Nat
      /\ \A i \in 1..n : frames[i] \in Frame /\ frames[i].skipped \in BOOLEAN
      /\ Len(typeContext) \in Nat \ {0} /\ Len(symbolTable) \in Nat \ {0}
      /\ Len(env) \in Nat \ {0}
  BY TypeFacts DEF InFunction
<1>2. /\ Len(frames') = n - 1
      /\ \A i \in 1..n - 1 : frames'[i] = frames[i]
  <2>1. n - 1 \in 0..Len(frames)
    BY <1>1
  <2> QED
    BY <1>1, <2>1, PrefixIs
<1>3. /\ \A i \in 1..n : frames[i].skipped => Top.skipped /\ Skipping
      /\ Top = frames[n] /\ n \in 1..n /\ Top \in Frame /\ Top.skipped \in BOOLEAN
  BY <1>1, SkippingIsTerminated DEF Top
<1>4. 1..n - 1 \subseteq 1..n /\ \A i \in 2..n - 1 : i - 1 \in 1..n - 1 /\ i \in 2..n
  BY <1>1
<1>5. SkippedItems'
  <2>1. \A i \in 1..n - 1 : frames'[i].kind = "fn" <=> i = 1
    BY <1>2, <1>4 DEF SkippedItems
  <2>2. \A i \in 1..n - 1 : frames'[i].kind = "fn" => ~frames'[i].skipped
    BY <1>2, <1>4 DEF SkippedItems
  <2>3. \A i \in 1..n - 1 : frames'[i].skipped => terminated'
    BY <1>2, <1>3, <1>4
  <2>4. \A i, j \in 1..n - 1 : i < j /\ frames'[i].skipped => frames'[j].skipped
    <3> SUFFICES ASSUME NEW i \in 1..n - 1, NEW j \in 1..n - 1, i < j, frames'[i].skipped
                 PROVE  frames'[j].skipped
      OBVIOUS
    <3>1. i \in 1..n /\ j \in 1..n /\ frames'[i] = frames[i] /\ frames'[j] = frames[j]
      BY <1>2, <1>4
    <3> QED
      BY <3>1 DEF SkippedItems
  <2>5. \A i \in 2..n - 1 : frames'[i].skipped /\ ~frames'[i - 1].skipped =>
          \A j \in 1..i - 1 : frames'[j].kind # "switch"
    <3> SUFFICES ASSUME NEW i \in 2..n - 1, frames'[i].skipped, ~frames'[i - 1].skipped,
                        NEW j \in 1..i - 1
                 PROVE  frames'[j].kind # "switch"
      OBVIOUS
    <3>1. j \in 1..n - 1 /\ i \in 1..n - 1 /\ i \in 2..n /\ i - 1 \in 1..n - 1
      BY <1>1
    <3>2. frames'[j] = frames[j] /\ frames'[i] = frames[i] /\ frames'[i - 1] = frames[i - 1]
      BY <1>2, <3>1
    <3> QED
      BY <3>1, <3>2 DEF SkippedItems
  <2> QED
    BY <1>2, <2>1, <2>2, <2>3, <2>4, <2>5 DEF SkippedItems
<1>6. PICK tl, sl, el : Agreement(tl, sl, el)
  OBVIOUS
<1>7. /\ TypeScopes \in [Frame -> Nat] /\ SymbolScopes \in [Frame -> Nat]
      /\ CScopes \in [Frame -> Nat]
  BY DEF TypeScopes, SymbolScopes, CScopes
<1>8. PICK tl2 : /\ Levels(tl2, frames', TypeScopes, Len(typeContext'))
                 /\ \A i \in 0..n - 1 : tl2[i] = tl[i]
  <2>1. /\ Levels(tl, frames, TypeScopes, Len(typeContext)) /\ Len(typeContext) \in Nat
        /\ frames \in Seq(Frame) /\ Len(frames) > 0
    BY <1>1, <1>6 DEF Agreement
  <2> DEFINE f      == Top
             height == Len(typeContext')
             less   == SubSeq(frames, 1, Len(frames) - 1)
  <2>2. /\ height = Len(typeContext) - TypeScopes[f] /\ TypeScopes \in [Frame -> Nat]
        /\ f \in Frame /\ f = frames[Len(frames)]
    BY <1>3, <1>7
  <2> HIDE DEF f, height
  <2>3. \E m2 : Levels(m2, less, TypeScopes, height) /\ SameLevels(m2, tl)
    BY ONLY <2>1, <2>2, LevelsOfLess
  <2>4. PICK m2 : Levels(m2, frames', TypeScopes, height) /\ SameLevels(m2, tl)
    BY <2>3
  <2>5. DOMAIN m2 = 0..n - 1
    BY <1>2, <2>4 DEF Levels
  <2> QED
    BY <2>4, <2>5 DEF SameLevels, height
<1>9. PICK sl2 : /\ Levels(sl2, frames', SymbolScopes, Len(symbolTable'))
                 /\ \A i \in 0..n - 1 : sl2[i] = sl[i]
  <2>1. /\ Levels(sl, frames, SymbolScopes, Len(symbolTable)) /\ Len(symbolTable) \in Nat
        /\ frames \in Seq(Frame) /\ Len(frames) > 0
    BY <1>1, <1>6 DEF Agreement
  <2> DEFINE f      == Top
             height == Len(symbolTable')
             less   == SubSeq(frames, 1, Len(frames) - 1)
  <2>2. /\ height = Len(symbolTable) - SymbolScopes[f] /\ SymbolScopes \in [Frame -> Nat]
        /\ f \in Frame /\ f = frames[Len(frames)]
    BY <1>3, <1>7
  <2> HIDE DEF f, height
  <2>3. \E m2 : Levels(m2, less, SymbolScopes, height) /\ SameLevels(m2, sl)
    BY ONLY <2>1, <2>2, LevelsOfLess
  <2>4. PICK m2 : Levels(m2, frames', SymbolScopes, height) /\ SameLevels(m2, sl)
    BY <2>3
  <2>5. DOMAIN m2 = 0..n - 1
    BY <1>2, <2>4 DEF Levels
  <2> QED
    BY <2>4, <2>5 DEF SameLevels, height
<1>10. PICK el2 : /\ Levels(el2, frames', CScopes, Len(env'))
                  /\ \A i \in 0..n - 1 : el2[i] = el[i]
  <2>1. /\ Levels(el, frames, CScopes, Len(env)) /\ Len(env) \in Nat
        /\ frames \in Seq(Frame) /\ Len(frames) > 0
    BY <1>1, <1>6 DEF Agreement
  <2> DEFINE f      == Top
             height == Len(env')
             less   == SubSeq(frames, 1, Len(frames) - 1)
  <2>2. /\ height = Len(env) - CScopes[f] /\ CScopes \in [Frame -> Nat]
        /\ f \in Frame /\ f = frames[Len(frames)]
    BY <1>3, <1>7
  <2> HIDE DEF f, height
  <2>3. \E m2 : Levels(m2, less, CScopes, height) /\ SameLevels(m2, el)
    BY ONLY <2>1, <2>2, LevelsOfLess
  <2>4. PICK m2 : Levels(m2, frames', CScopes, height) /\ SameLevels(m2, el)
    BY <2>3
  <2>5. DOMAIN m2 = 0..n - 1
    BY <1>2, <2>4 DEF Levels
  <2> QED
    BY <2>4, <2>5 DEF SameLevels, height
<1>11. ASSUME NEW i \in 0..n - 1
       PROVE  /\ tl[i] \in Nat /\ sl[i] \in Nat /\ el[i] \in Nat
              /\ \A j \in 1..tl[i] : typeContext'[j] = typeContext[j]
              /\ \A j \in 1..sl[i] : symbolTable'[j] = symbolTable[j]
              /\ \A j \in 1..el[i] : env'[j] = env[j]
  <2>1. /\ tl2 \in [0..n - 1 -> Nat \ {0}] /\ tl2[n - 1] = Len(typeContext')
        /\ sl2 \in [0..n - 1 -> Nat \ {0}] /\ sl2[n - 1] = Len(symbolTable')
        /\ el2 \in [0..n - 1 -> Nat \ {0}] /\ el2[n - 1] = Len(env')
        /\ \A h, j \in 0..n - 1 : h <= j => tl2[h] <= tl2[j] /\ sl2[h] <= sl2[j] /\ el2[h] <= el2[j]
    BY <1>2, <1>8, <1>9, <1>10 DEF Levels
  <2>2. i <= n - 1 /\ n - 1 \in 0..n - 1
    BY <1>1
  <2>3. /\ tl2[i] <= Len(typeContext') /\ tl2[i] \in Nat /\ Len(typeContext') \in Nat
        /\ sl2[i] <= Len(symbolTable') /\ sl2[i] \in Nat /\ Len(symbolTable') \in Nat
        /\ el2[i] <= Len(env') /\ el2[i] \in Nat /\ Len(env') \in Nat
    BY ZenonT(40), <2>1, <2>2
  <2>4. tl2[i] = tl[i] /\ sl2[i] = sl[i] /\ el2[i] = el[i]
    BY <1>8, <1>9, <1>10
  <2>5. \A h, m \in Nat : h <= m => 1..h \subseteq 1..m
    OBVIOUS
  <2>6. /\ 1..tl[i] \subseteq 1..Len(typeContext') /\ 1..sl[i] \subseteq 1..Len(symbolTable')
        /\ 1..el[i] \subseteq 1..Len(env')
    BY <2>3, <2>4, <2>5
  <2> QED
    BY <2>3, <2>4, <2>6
<1>12. Grows(decls, decls')
  BY <1>1 DEF Grows
<1>13. ASSUME NEW i \in 0..n - 1
       PROVE  /\ TypesAgree(leaks'[i + 1], typeContext', tl2[i], env', el2[i])
              /\ Visits(i) => SymbolsAgree(decls', symbolTable', sl2[i], env', el2[i])
  <2>1. tl2[i] = tl[i] /\ sl2[i] = sl[i] /\ el2[i] = el[i] /\ i \in 0..n
    BY <1>1, <1>8, <1>9, <1>10
  <2>2. /\ TypesAgree(leaks[i + 1], typeContext, tl[i], env, el[i])
        /\ Visits(i) => SymbolsAgree(decls, symbolTable, sl[i], env, el[i])
    BY <1>6, <2>1 DEF Agreement
  <2>8. leaks[i + 1] \subseteq leaks'[i + 1]
    <3>1. i <= Len(frames')
      BY <1>1, <1>2
    <3> QED
      BY <2>1, <3>1 DEF LeaksGrow
  <2>3. \A k \in Key : /\ Within(typeContext, tl[i], k) \in 0..Len(decls)
                       /\ Within(symbolTable, sl[i], k) \in 0..Len(decls)
                       /\ Within(env, el[i], k) \in 0..Len(decls)
    BY <1>6, <2>1, LevelFacts
  <2>6. /\ tl[i] \in Nat /\ sl[i] \in Nat /\ el[i] \in Nat
        /\ \A j \in 1..tl[i] : typeContext'[j] = typeContext[j]
        /\ \A j \in 1..sl[i] : symbolTable'[j] = symbolTable[j]
        /\ \A j \in 1..el[i] : env'[j] = env[j]
    BY <1>11
  <2>7. /\ \A k \in Key : Within(symbolTable, sl[i], k) \in 0..Len(decls)
        /\ \A k \in Key : Within(env, el[i], k) \in 0..Len(decls)
    BY <2>3
  <2>4. TypesAgree(leaks'[i + 1], typeContext', tl2[i], env', el2[i])
    <3>1. TypesAgree(leaks'[i + 1], typeContext', tl[i], env', el[i])
      BY ONLY <2>2, <2>6, <2>8, TypesStayAgreed
    <3> QED
      BY <2>1, <3>1
  <2>5. ASSUME Visits(i)
        PROVE  SymbolsAgree(decls', symbolTable', sl2[i], env', el2[i])
    <3>1. SymbolsAgree(decls', symbolTable', sl[i], env', el[i])
      BY ONLY <1>12, <2>2, <2>5, <2>6, <2>7, SymbolsStayAgreed
    <3> QED
      BY <2>1, <3>1
  <2> QED
    BY <2>4, <2>5
<1>14. ASSUME NEW i \in 0..n - 1, Visits(i)'
       PROVE  Visits(i)
  <2>1. CASE i < n - 1
    <3>1. i + 1 \in 1..n - 1 /\ i < n
      BY <1>1, <2>1
    <3> QED
      BY <1>2, <1>14, <2>1, <3>1 DEF Visits
  <2>2. CASE i = n - 1
    <3>1. ~SkipsNext'
      BY <1>1, <1>2, <1>14, <2>2 DEF Visits
    <3>2. ~frames[n].skipped
      <4> SUFFICES ASSUME frames[n].skipped
                   PROVE  SkipsNext'
        BY <3>1
      <4>1. n # 1
        BY <1>3 DEF SkippedItems
      <4>2. n - 1 \in 1..n - 1 /\ n \in 2..n
        <5>1. n \in Nat \ {0}
          BY <1>1
        <5> HIDE DEF n
        <5> QED
          BY ONLY <5>1, <4>1
      <4>3. InFunction' /\ Top' = frames[n - 1]
        <5>1. Len(frames') # 0 /\ frames'[n - 1] = frames[n - 1]
          BY <1>2, <4>2
        <5>2. frames' # << >>
          BY <5>1
        <5> QED
          BY <1>2, <5>1, <5>2 DEF InFunction, Top
      <4>4. CASE frames[n - 1].skipped
        <5>1. Skipping'
          BY <4>3, <4>4 DEF Skipping
        <5> QED
          BY <5>1 DEF SkipsNext
      <4>5. CASE ~frames[n - 1].skipped
        <5>1. \A j \in 1..n - 1 : frames[j].kind # "switch"
          BY <4>2, <4>5 DEF SkippedItems
        <5>2. ~SwitchOpen'
          BY <1>2, <5>1 DEF SwitchOpen
        <5> QED
          BY <1>3, <4>3, <5>2 DEF SkipsNext
      <4> QED
        BY <4>4, <4>5
    <3> QED
      BY <1>1, <2>2, <3>2 DEF Visits
  <2> QED
    BY <1>1, <2>1, <2>2
<1>15. Agreement(tl2, sl2, el2)'
  <2>1. \A i \in 0..n - 1 :
          /\ TypesAgree(leaks'[i + 1], typeContext', tl2[i], env', el2[i])
          /\ Visits(i)' => SymbolsAgree(decls', symbolTable', sl2[i], env', el2[i])
    BY <1>13, <1>14
  <2> QED
    BY <1>2, <1>8, <1>9, <1>10, <2>1 DEF Agreement
<1> QED
  BY <1>5, <1>15

LEMMA UnchangedTable ==
  ASSUME NEW stack, NEW stack2, stack2 = stack, NEW d
  PROVE  Inserted(stack2, stack, {}, d)
  BY DEF Inserted

(* Keys are declared in the innermost scopes.  The type checker may take   *)
(* in more of them than C, if the declaration is one that leaks, and the   *)
(* code generator others, if they are harmless.                            *)
LEMMA DeclareKeeps ==
  ASSUME TypeOK, SkippedItems, \E tl, sl, el : Agreement(tl, sl, el),
         frames' = frames, terminated => terminated', Grows(decls, decls'), LeaksGrow,
         NEW tk, NEW ck, ck \subseteq tk, ck # tk => New \in leaks'[Len(frames) + 1],
         Inserted(typeContext', typeContext, tk, New),
         Inserted(env', env, ck, New),
         NEW sk, NEW d, d # NoDecl, sk \cap ck # {} => d = New,
         SkipsNext => symbolTable' = symbolTable,
         ~SkipsNext => Inserted(symbolTable', symbolTable, sk, d),
         ~SkipsNext =>
           \A x \in Id :
             \/ x \in sk <=> x \in ck
             \/ x \in sk /\ decls'[d].kind = "const"
             \/ x \in ck /\ (decls'[New].where = "typedef" \/ decls'[New].kind = "typedef")
  PROVE  SkippedItems' /\ \E tl, sl, el : Agreement(tl, sl, el)'
<1> DEFINE n == Len(frames)
<1>1. /\ n \in Nat /\ New # NoDecl /\ (frames # << >> <=> n # 0)
      /\ \A i \in 1..n : frames[i] \in Frame
      /\ Len(typeContext) \in Nat \ {0} /\ Len(symbolTable) \in Nat \ {0}
      /\ Len(env) \in Nat \ {0}
  BY TypeFacts
<1>2. SkippedItems'
  BY DEF SkippedItems
<1>3. PICK tl, sl, el : Agreement(tl, sl, el)
  OBVIOUS
<1>4. /\ Len(typeContext') = Len(typeContext) /\ Len(symbolTable') = Len(symbolTable)
      /\ Len(env') = Len(env)
      /\ \A j \in 1..Len(typeContext) - 1 : typeContext'[j] = typeContext[j]
      /\ \A j \in 1..Len(symbolTable) - 1 : symbolTable'[j] = symbolTable[j]
      /\ \A j \in 1..Len(env) - 1 : env'[j] = env[j]
  BY <1>1 DEF Inserted
<1>5. SkipsNext => SkipsNext'
  BY DEF SkipsNext, Skipping, InFunction, Top, SwitchOpen
<1>6. \A i \in 0..n : Visits(i)' => Visits(i)
  BY <1>5 DEF Visits
<1>7. /\ tl[n] = Len(typeContext) /\ sl[n] = Len(symbolTable) /\ el[n] = Len(env)
      /\ \A i \in 0..n :
           /\ TypesAgree(leaks[i + 1], typeContext, tl[i], env, el[i])
           /\ leaks[i + 1] \subseteq leaks'[i + 1]
           /\ Visits(i) => SymbolsAgree(decls, symbolTable, sl[i], env, el[i])
  BY <1>1, <1>3 DEF Agreement, Levels, LeaksGrow
<1>8. ASSUME NEW i \in 0..n
      PROVE  /\ tl[i] \in Nat /\ sl[i] \in Nat /\ el[i] \in Nat
             /\ \A k \in Key : Within(typeContext, tl[i], k) \in 0..Len(decls)
             /\ \A k \in Key : Within(symbolTable, sl[i], k) \in 0..Len(decls)
             /\ \A k \in Key : Within(env, el[i], k) \in 0..Len(decls)
             /\ i < n => /\ tl[i] \in 1..Len(typeContext) - 1 /\ el[i] \in 1..Len(env) - 1
                         /\ sl[i] + SymbolScopes[Top] <= Len(symbolTable)
  <2>1. /\ tl[i] \in 1..Len(typeContext) /\ el[i] \in 1..Len(env)
        /\ sl[i] \in 1..Len(symbolTable)
        /\ \A k \in Key : /\ Within(typeContext, tl[i], k) \in 0..Len(decls)
                          /\ Within(symbolTable, sl[i], k) \in 0..Len(decls)
                          /\ Within(env, el[i], k) \in 0..Len(decls)
        /\ i < n => /\ tl[i] \in 1..Len(typeContext) - 1 /\ el[i] \in 1..Len(env) - 1
                    /\ sl[i] + SymbolScopes[Top] <= Len(symbolTable)
    BY <1>3, LevelFacts
  <2> HIDE DEF n
  <2> QED
    BY <2>1
<1>9. ASSUME NEW i \in 0..n, i < n
      PROVE  /\ TypesAgree(leaks'[i + 1], typeContext', tl[i], env', el[i])
             /\ Visits(i) => SymbolsAgree(decls', symbolTable', sl[i], env', el[i])
  <2>1. /\ tl[i] \in Nat /\ sl[i] \in Nat /\ el[i] \in Nat
        /\ \A k \in Key : Within(typeContext, tl[i], k) \in 0..Len(decls)
        /\ \A k \in Key : Within(symbolTable, sl[i], k) \in 0..Len(decls)
        /\ \A k \in Key : Within(env, el[i], k) \in 0..Len(decls)
    BY <1>8
  <2>2. \A h, m \in Nat : h \in 1..m - 1 => 1..h \subseteq 1..m - 1
    OBVIOUS
  <2>3. /\ \A j \in 1..tl[i] : typeContext'[j] = typeContext[j]
        /\ \A j \in 1..el[i] : env'[j] = env[j]
    <3>1. 1..tl[i] \subseteq 1..Len(typeContext) - 1 /\ 1..el[i] \subseteq 1..Len(env) - 1
      BY <1>1, <1>8, <1>9, <2>1, <2>2
    <3> QED
      BY <1>4, <3>1
  <2>4. \A j \in 1..sl[i] : symbolTable'[j] = symbolTable[j]
    <3>1. CASE SkipsNext
      BY <3>1
    <3>2. CASE ~SkipsNext
      <4>1. InFunction /\ n \in 1..n
        BY <1>1, <1>9 DEF InFunction
      <4>2. Top \in Frame /\ ~Top.skipped
        BY <1>1, <3>2, <4>1 DEF SkipsNext, Skipping, Top
      <4>3. SymbolScopes[Top] \in {1, 2}
        BY <4>2 DEF SymbolScopes
      <4>4. sl[i] + SymbolScopes[Top] <= Len(symbolTable)
        BY <1>8, <1>9
      <4>5. 1..sl[i] \subseteq 1..Len(symbolTable) - 1
        BY <1>1, <2>1, <4>3, <4>4
      <4> QED
        BY <1>4, <4>5
    <3> QED
      BY <3>1, <3>2
  <2>5. TypesAgree(leaks'[i + 1], typeContext', tl[i], env', el[i])
    <3>1. /\ TypesAgree(leaks[i + 1], typeContext, tl[i], env, el[i])
          /\ leaks[i + 1] \subseteq leaks'[i + 1]
      BY <1>7
    <3> QED
      BY ONLY <2>1, <2>3, <3>1, TypesStayAgreed
  <2>6. ASSUME Visits(i)
        PROVE  SymbolsAgree(decls', symbolTable', sl[i], env', el[i])
    <3>1. SymbolsAgree(decls, symbolTable, sl[i], env, el[i]) /\ Grows(decls, decls')
      BY <1>7, <2>6
    <3> QED
      BY ONLY <2>1, <2>3, <2>4, <3>1, SymbolsStayAgreed
  <2> QED
    BY <2>5, <2>6
<1>10. Shows(env', Len(env), env, Len(env), ck, New)
  BY <1>1, ShowsPut DEF Inserted
<1>11. TypesAgree(leaks'[n + 1], typeContext', tl[n], env', el[n])
  <2>1. Shows(typeContext', Len(typeContext), typeContext, Len(typeContext), tk, New)
    BY <1>1, ShowsPut DEF Inserted
  <2>2. n \in 0..n
    BY <1>1
  <2>3. /\ TypesAgree(leaks[n + 1], typeContext, Len(typeContext), env, Len(env))
        /\ leaks[n + 1] \subseteq leaks'[n + 1]
    BY <1>7, <2>2
  <2>4. ck \subseteq tk /\ (ck # tk => New \in leaks'[n + 1])
    OBVIOUS
  <2>5. TypesAgree(leaks'[n + 1], typeContext', Len(typeContext), env', Len(env))
    BY ONLY <1>10, <2>1, <2>3, <2>4, TypesGoOnAgreeing
  <2> QED
    BY <1>7, <2>5
<1>12. ASSUME ~SkipsNext
       PROVE  SymbolsAgree(decls', symbolTable', sl[n], env', el[n])
  <2>1. Shows(symbolTable', Len(symbolTable), symbolTable, Len(symbolTable), sk, d)
    BY <1>1, <1>12, ShowsPut DEF Inserted
  <2>2. n \in 0..n /\ Visits(n)
    BY <1>1, <1>12 DEF Visits
  <2>3. /\ SymbolsAgree(decls, symbolTable, Len(symbolTable), env, Len(env))
        /\ \A k \in Key : Within(symbolTable, Len(symbolTable), k) \in 0..Len(decls)
        /\ \A k \in Key : Within(env, Len(env), k) \in 0..Len(decls)
    BY <1>7, <1>8, <2>2
  <2>4. /\ Grows(decls, decls') /\ d # NoDecl /\ New # NoDecl
        /\ sk \cap ck # {} => d = New
        /\ \A x \in Id :
             \/ x \in sk <=> x \in ck
             \/ x \in sk /\ decls'[d].kind = "const"
             \/ x \in ck /\ (decls'[New].where = "typedef" \/ decls'[New].kind = "typedef")
    BY <1>1, <1>12
  <2>5. SymbolsAgree(decls', symbolTable', Len(symbolTable), env', Len(env))
    BY ONLY <1>10, <2>1, <2>3, <2>4, SymbolsGoOnAgreeing
  <2> QED
    BY <1>7, <2>5
<1>13. Agreement(tl, sl, el)'
  <2>1. /\ Levels(tl, frames', TypeScopes, Len(typeContext'))
        /\ Levels(sl, frames', SymbolScopes, Len(symbolTable'))
        /\ Levels(el, frames', CScopes, Len(env'))
    BY <1>3, <1>4 DEF Agreement
  <2>2. ASSUME NEW i \in 0..n
        PROVE  /\ TypesAgree(leaks'[i + 1], typeContext', tl[i], env', el[i])
               /\ Visits(i)' => SymbolsAgree(decls', symbolTable', sl[i], env', el[i])
    <3>1. CASE i < n
      BY <1>6, <1>9, <3>1
    <3>2. CASE i = n
      <4>1. Visits(i) => ~SkipsNext
        BY <1>1, <3>2 DEF Visits
      <4> QED
        BY <1>6, <1>11, <1>12, <3>2, <4>1
    <3> QED
      BY <1>1, <3>1, <3>2
  <2> QED
    BY <2>1, <2>2 DEF Agreement
<1> QED
  BY <1>2, <1>13

-----------------------------------------------------------------------------
(* The actions                                                             *)

(* Nothing is in a table but what was there before and d for the keys.     *)
Extends(stack2, stack, keys, d) ==
  \A i \in 1..Len(stack2), k \in Key :
    stack2[i][k] # NoDecl =>
      \/ i \in 1..Len(stack) /\ stack2[i][k] = stack[i][k]
      \/ k \in keys /\ stack2[i][k] = d

LEMMA OpenedExtends ==
  ASSUME NEW stack, NEW stack2, NEW keys, NEW d, Len(stack) \in Nat,
         Opened(stack2, stack, keys, d)
  PROVE  Extends(stack2, stack, keys, d)
<1> SUFFICES ASSUME NEW i \in 1..Len(stack2), NEW k \in Key, stack2[i][k] # NoDecl
             PROVE  \/ i \in 1..Len(stack) /\ stack2[i][k] = stack[i][k]
                    \/ k \in keys /\ stack2[i][k] = d
  BY DEF Extends
<1>1. i \in 1..Len(stack) \/ i = Len(stack) + 1
  BY DEF Opened
<1>2. CASE i \in 1..Len(stack)
  BY <1>2 DEF Opened
<1>3. CASE i = Len(stack) + 1
  <2>1. stack2[i][k] = IF k \in keys THEN d ELSE NoDecl
    BY <1>3 DEF Opened
  <2> QED
    BY <2>1
<1> QED
  BY <1>1, <1>2, <1>3

LEMMA InsertedExtends ==
  ASSUME NEW stack, NEW stack2, NEW keys, NEW d, Len(stack) \in Nat,
         Inserted(stack2, stack, keys, d)
  PROVE  Extends(stack2, stack, keys, d)
<1> SUFFICES ASSUME NEW i \in 1..Len(stack2), NEW k \in Key, stack2[i][k] # NoDecl
             PROVE  \/ i \in 1..Len(stack) /\ stack2[i][k] = stack[i][k]
                    \/ k \in keys /\ stack2[i][k] = d
  BY DEF Extends
<1>1. i \in 1..Len(stack) /\ (i \in 1..Len(stack) - 1 \/ i = Len(stack))
  BY DEF Inserted
<1>2. CASE i \in 1..Len(stack) - 1
  BY <1>1, <1>2 DEF Inserted
<1>3. CASE i = Len(stack)
  <2>1. stack2[i][k] = IF k \in keys THEN d ELSE stack[i][k]
    BY <1>3 DEF Inserted
  <2> QED
    BY <1>1, <2>1
<1> QED
  BY <1>1, <1>2, <1>3

LEMMA ExtendsTwice ==
  ASSUME NEW stack, NEW stack2, NEW stack3, NEW keys, NEW d,
         Extends(stack2, stack, keys, d),
         \/ Extends(stack3, stack2, keys, d)
         \/ Extends(stack3, stack2, {}, d)
  PROVE  Extends(stack3, stack, keys, d)
  BY DEF Extends

(* A new declaration                                                       *)
LEMMA OneMore ==
  ASSUME TypeOK, Len(decls) < MaxDecls, NEW new \in Decls, decls' = Append(decls, new)
  PROVE  /\ decls' \in Seq(Decls) /\ Len(decls') = Len(decls) + 1
         /\ Len(decls') <= MaxDecls /\ decls'[New] = new
         /\ Grows(decls, decls') /\ New \in 0..Len(decls')
<1>1. decls \in Seq(Decls) /\ Len(decls) \in Nat
  BY DEF TypeOK
<1>2. /\ decls' \in Seq(Decls) /\ Len(decls') = Len(decls) + 1
      /\ \A i \in 1..Len(decls) : decls'[i] = decls[i]
      /\ decls'[Len(decls) + 1] = new
  BY <1>1, AppendProperties
<1>3. Len(decls') <= MaxDecls
  BY <1>1, <1>2, BoundsAreNat
<1> QED
  BY <1>1, <1>2, <1>3 DEF Grows, New

LEMMA NamesKept ==
  ASSUME TypeOK, Names, Grows(decls, decls'), NEW tk, NEW ck,
         Extends(typeContext', typeContext, tk, New), Extends(env', env, ck, New),
         \A t \in Tag : t \in tk => decls'[New].kind = "const",
         \A x \in Id : x \in ck => decls'[New].name = x,
         typedefs \subseteq typedefs',
         \A d \in 1..Len(decls') :
           \/ d \in 1..Len(decls)
           \/ decls'[d].kind = "typedef" => decls'[d].name \in typedefs'
  PROVE  Names'
<1>1. /\ \A i \in 1..Len(typeContext) : typeContext[i] \in [Key -> 0..Len(decls)]
      /\ \A i \in 1..Len(env) : env[i] \in [Key -> 0..Len(decls)]
      /\ Len(decls) \in Nat
  <2>1. typeContext \in Table(Len(decls)) /\ env \in Table(Len(decls)) /\ Len(decls) \in Nat
    BY TypeFacts
  <2> QED
    BY <2>1, ElementOfSeq DEF Table
<1>2. \A d \in 0..Len(decls) : d # NoDecl => decls'[d] = decls[d]
  BY <1>1 DEF Grows, NoDecl
<1>3. TagsAreOfEnums'
  <2> SUFFICES ASSUME NEW i \in 1..Len(typeContext'), NEW t \in Tag,
                      typeContext'[i][t] # NoDecl
               PROVE  decls'[typeContext'[i][t]].kind = "const"
    BY DEF TagsAreOfEnums
  <2>1. t \in Key
    BY DEF Key
  <2>2. CASE i \in 1..Len(typeContext) /\ typeContext'[i][t] = typeContext[i][t]
    <3>1. typeContext[i][t] \in 0..Len(decls)
      BY <1>1, <2>1, <2>2
    <3>2. decls[typeContext[i][t]].kind = "const"
      BY <2>2 DEF Names, TagsAreOfEnums
    <3> QED
      BY <1>2, <2>2, <3>1, <3>2
  <2>3. CASE t \in tk /\ typeContext'[i][t] = New
    BY <2>3
  <2> QED
    BY <2>1, <2>2, <2>3 DEF Extends
<1>4. NamesAreDeclared'
  <2> SUFFICES ASSUME NEW i \in 1..Len(env'), NEW x \in Id, env'[i][x] # NoDecl
               PROVE  decls'[env'[i][x]].name = x
    BY DEF NamesAreDeclared
  <2>1. x \in Key
    BY DEF Key
  <2>2. CASE i \in 1..Len(env) /\ env'[i][x] = env[i][x]
    <3>1. env[i][x] \in 0..Len(decls)
      BY <1>1, <2>1, <2>2
    <3>2. decls[env[i][x]].name = x
      BY <2>2 DEF Names, NamesAreDeclared
    <3> QED
      BY <1>2, <2>2, <3>1, <3>2
  <2>3. CASE x \in ck /\ env'[i][x] = New
    BY <2>3
  <2> QED
    BY <2>1, <2>2, <2>3 DEF Extends
<1>5. TypedefsAreKnown'
  <2> SUFFICES ASSUME NEW d \in 1..Len(decls'), decls'[d].kind = "typedef"
               PROVE  decls'[d].name \in typedefs'
    BY DEF TypedefsAreKnown
  <2>1. CASE d \in 1..Len(decls)
    <3>1. decls'[d] = decls[d]
      BY <2>1 DEF Grows
    <3> QED
      BY <2>1, <3>1 DEF Names, TypedefsAreKnown
  <2> QED
    BY <2>1
<1> QED
  BY <1>3, <1>4, <1>5 DEF Names

LEMMA TypeIs ==
  ASSUME frames' \in Seq(Frame), decls' \in Seq(Decls), Len(decls') <= MaxDecls,
         terminated' \in BOOLEAN, typedefs' \subseteq Id,
         typeContext' \in Table(Len(decls')), Len(typeContext') # 0,
         symbolTable' \in Table(Len(decls')), Len(symbolTable') # 0,
         env' \in Table(Len(decls')), Len(env') # 0, LeaksGrow
  PROVE  TypeOK'
<1>1. typeContext' # << >> /\ symbolTable' # << >> /\ env' # << >>
  OBVIOUS
<1> QED
  BY <1>1 DEF TypeOK, Table, Frame, LeaksGrow

(* A declaration is added: the keys tk, ck and sk get it.                  *)
LEMMA DeclareStep ==
  ASSUME IInv, Len(decls) < MaxDecls, NEW new \in Decls, decls' = Append(decls, new),
         frames' = frames, terminated' = terminated,
         typedefs \subseteq typedefs', typedefs' \subseteq Id,
         new.kind = "typedef" => new.name \in typedefs',
         NEW tk, NEW ck, NEW sk, ck \subseteq tk,
         LeaksGrow, ck # tk => New \in leaks'[Len(frames) + 1],
         \A t \in Tag : t \in tk => new.kind = "const",
         \A x \in Id : x \in ck => new.name = x,
         \A x \in Id : \/ x \in sk <=> x \in ck
                       \/ x \in ck /\ (new.where = "typedef" \/ new.kind = "typedef"),
         typeContext' \in Table(Len(decls')), Inserted(typeContext', typeContext, tk, New),
         env' \in Table(Len(decls')), Inserted(env', env, ck, New),
         symbolTable' \in Table(Len(decls')),
         SkipsNext => symbolTable' = symbolTable,
         ~SkipsNext => Inserted(symbolTable', symbolTable, sk, New)
  PROVE  IInv'
<1>1. TypeOK /\ SkippedItems /\ Names /\ \E tl, sl, el : Agreement(tl, sl, el)
  BY DEF IInv
<1>2. /\ Len(decls) \in Nat /\ New # NoDecl /\ New = Len(decls) + 1
      /\ Len(typeContext) \in Nat \ {0} /\ Len(symbolTable) \in Nat \ {0}
      /\ Len(env) \in Nat \ {0} /\ frames \in Seq(Frame)
  BY <1>1, TypeFacts
<1>3. /\ decls' \in Seq(Decls) /\ Len(decls') = Len(decls) + 1
      /\ Len(decls') <= MaxDecls /\ decls'[New] = new /\ Grows(decls, decls')
  BY <1>1, OneMore
<1>4. /\ Len(typeContext') = Len(typeContext) /\ Len(env') = Len(env)
      /\ Len(symbolTable') = Len(symbolTable)
  BY DEF Inserted
<1>5. TypeOK'
  <2>1. terminated' \in BOOLEAN
    BY <1>1 DEF TypeOK
  <2> QED
    BY <1>2, <1>3, <1>4, <2>1, TypeIs
<1>7. SkippedItems' /\ \E tl, sl, el : Agreement(tl, sl, el)'
  <2>1. /\ frames' = frames /\ (terminated => terminated')
        /\ LeaksGrow /\ ck \subseteq tk /\ (ck # tk => New \in leaks'[Len(frames) + 1])
        /\ Inserted(typeContext', typeContext, tk, New) /\ Inserted(env', env, ck, New)
        /\ New # NoDecl /\ (sk \cap ck # {} => New = New)
        /\ (SkipsNext => symbolTable' = symbolTable)
        /\ (~SkipsNext => Inserted(symbolTable', symbolTable, sk, New))
    BY <1>2
  <2>2. ~SkipsNext =>
          \A x \in Id :
            \/ x \in sk <=> x \in ck
            \/ x \in sk /\ decls'[New].kind = "const"
            \/ x \in ck /\ (decls'[New].where = "typedef" \/ decls'[New].kind = "typedef")
    BY <1>3
  <2> QED
    BY ONLY <1>1, <1>3, <2>1, <2>2, DeclareKeeps
<1>8. Names'
  <2>1. Extends(typeContext', typeContext, tk, New) /\ Extends(env', env, ck, New)
    BY <1>2, InsertedExtends
  <2>2. \A d \in 1..Len(decls') :
          \/ d \in 1..Len(decls)
          \/ decls'[d].kind = "typedef" => decls'[d].name \in typedefs'
    <3>1. \A d \in 1..Len(decls') : d \in 1..Len(decls) \/ d = New
      BY <1>2, <1>3
    <3> QED
      BY <1>3, <3>1
  <2>3. /\ \A t \in Tag : t \in tk => decls'[New].kind = "const"
        /\ \A x \in Id : x \in ck => decls'[New].name = x
    BY <1>3
  <2>4. typedefs \subseteq typedefs'
    OBVIOUS
  <2> QED
    BY ONLY <1>1, <1>3, <2>1, <2>2, <2>3, <2>4, NamesKept
<1> QED
  BY <1>5, <1>7, <1>8 DEF IInv

(* A new object for the keys, or none                                      *)
Declaring(keys) ==
  \/ decls' = decls /\ keys = {}
  \/ \E new \in Decls :
       /\ Len(decls) < MaxDecls /\ decls' = Append(decls, new)
       /\ new.kind # "typedef"
       /\ \A x \in keys : new.name = x

(* An item is entered, with a declaration of the keys or without one;      *)
(* those in early leak.                                                    *)
LEMMA EnterStep ==
  ASSUME IInv, NEW f \in Frame, frames' = Append(frames, f), f.skipped = SkipsNext,
         f.kind = "fn" <=> frames = << >>,
         terminated' \in BOOLEAN, SkipsNext => terminated', typedefs' = typedefs,
         NEW early, NEW keys, early \subseteq keys, keys \subseteq Id,
         Declaring(keys),
         NEW leak \in SUBSET Nat, EnterItem(leak), early # {} => New \in leak,
         typeContext' \in Table(Len(decls')),
         Len(typeContext') = Len(typeContext) + TypeScopes[f],
         \A i \in 1..Len(typeContext) - 1 : typeContext'[i] = typeContext[i],
         Shows(typeContext', Len(typeContext), typeContext, Len(typeContext), early, New),
         Shows(typeContext', Len(typeContext'), typeContext, Len(typeContext), keys, New),
         Extends(typeContext', typeContext, keys, New),
         symbolTable' \in Table(Len(decls')),
         Len(symbolTable') = Len(symbolTable) + SymbolScopes[f],
         \A i \in 1..Len(symbolTable) : symbolTable'[i] = symbolTable[i],
         ~f.skipped =>
           Shows(symbolTable', Len(symbolTable'), symbolTable, Len(symbolTable), keys, New),
         env' \in Table(Len(decls')),
         Len(env') = Len(env) + CScopes[f],
         \A i \in 1..Len(env) : env'[i] = env[i],
         Shows(env', Len(env'), env, Len(env), keys, New),
         Extends(env', env, keys, New)
  PROVE  IInv'
<1>1. TypeOK /\ SkippedItems /\ Names /\ \E tl, sl, el : Agreement(tl, sl, el)
  BY DEF IInv
<1>2. /\ Len(decls) \in Nat /\ New # NoDecl /\ New = Len(decls) + 1
      /\ Len(typeContext) \in Nat \ {0} /\ Len(symbolTable) \in Nat \ {0}
      /\ Len(env) \in Nat \ {0} /\ frames \in Seq(Frame)
  BY <1>1, TypeFacts
<1>3. /\ TypeScopes[f] \in Nat /\ SymbolScopes[f] \in Nat /\ CScopes[f] \in Nat
  BY DEF TypeScopes, SymbolScopes, CScopes
<1>4. /\ decls' \in Seq(Decls) /\ Len(decls') <= MaxDecls /\ Grows(decls, decls')
      /\ \A x \in Id : x \in keys => decls'[New].name = x
      /\ \A d \in 1..Len(decls') :
           d \in 1..Len(decls) \/ decls'[d].kind # "typedef"
  <2>1. CASE decls' = decls /\ keys = {}
    <3>1. decls \in Seq(Decls) /\ Len(decls) <= MaxDecls
      BY <1>1 DEF TypeOK
    <3> QED
      BY <1>2, <2>1, <3>1 DEF Grows
  <2>2. CASE \E new \in Decls :
               /\ Len(decls) < MaxDecls /\ decls' = Append(decls, new)
               /\ new.kind # "typedef"
               /\ \A x \in keys : new.name = x
    <3>1. PICK new \in Decls :
               /\ Len(decls) < MaxDecls /\ decls' = Append(decls, new)
               /\ new.kind # "typedef"
               /\ \A x \in keys : new.name = x
      BY <2>2
    <3>2. /\ decls' \in Seq(Decls) /\ Len(decls') = Len(decls) + 1
          /\ Len(decls') <= MaxDecls /\ decls'[New] = new /\ Grows(decls, decls')
      BY <1>1, <3>1, OneMore
    <3>3. \A d \in 1..Len(decls') : d \in 1..Len(decls) \/ d = New
      BY <1>2, <3>2
    <3> QED
      BY <3>1, <3>2, <3>3
  <2> QED
    BY <2>1, <2>2 DEF Declaring
<1>8. /\ LeaksGrow /\ leaks[Len(frames) + 1] \subseteq leaks'[Len(frames) + 2]
      /\ early # {} => New \in leaks'[Len(frames) + 1]
  <2>1. Len(frames') = Len(frames) + 1
    BY <1>2, AppendProperties
  <2> QED
    BY <1>1, <2>1, LeaksEntered
<1>5. TypeOK'
  <2>1. frames' \in Seq(Frame) /\ typedefs' \subseteq Id
    BY <1>1, <1>2, AppendProperties DEF TypeOK
  <2>2. Len(typeContext') # 0 /\ Len(symbolTable') # 0 /\ Len(env') # 0
    <3>1. \A h \in Nat \ {0}, m \in Nat : h + m # 0
      OBVIOUS
    <3>2. /\ Len(typeContext') = Len(typeContext) + TypeScopes[f]
          /\ Len(symbolTable') = Len(symbolTable) + SymbolScopes[f]
          /\ Len(env') = Len(env) + CScopes[f]
      OBVIOUS
    <3> QED
      BY ONLY <1>2, <1>3, <3>1, <3>2
  <2>3. /\ terminated' \in BOOLEAN /\ typeContext' \in Table(Len(decls'))
        /\ symbolTable' \in Table(Len(decls')) /\ env' \in Table(Len(decls'))
    OBVIOUS
  <2> QED
    BY ONLY <1>4, <1>8, <2>1, <2>2, <2>3, TypeIs
<1>6. SkippedItems' /\ \E tl, sl, el : Agreement(tl, sl, el)'
  BY <1>1, <1>4, <1>8, EnterKeeps
<1>7. Names'
  <2>1. \A t \in Tag : t \in keys => decls'[New].kind = "const"
    BY TagsAreNotIds
  <2>2. /\ Extends(typeContext', typeContext, keys, New) /\ Extends(env', env, keys, New)
        /\ typedefs \subseteq typedefs'
    OBVIOUS
  <2>3. \A d \in 1..Len(decls') :
          \/ d \in 1..Len(decls)
          \/ decls'[d].kind = "typedef" => decls'[d].name \in typedefs'
    BY <1>4
  <2> QED
    BY ONLY <1>1, <1>4, <2>1, <2>2, <2>3, NamesKept
<1> QED
  BY <1>5, <1>6, <1>7 DEF IInv

(* The innermost item has its scopes in every table.                       *)
LEMMA TopHasScopes ==
  ASSUME IInv, InFunction
  PROVE  /\ Top \in Frame /\ Len(frames) \in 1..Len(frames)
         /\ TypeScopes[Top] \in 1..Len(typeContext) - 1
         /\ SymbolScopes[Top] \in 0..Len(symbolTable) - 1
         /\ CScopes[Top] \in 1..Len(env) - 1
<1> DEFINE n == Len(frames)
<1>1. TypeOK /\ \E tl, sl, el : Agreement(tl, sl, el)
  BY DEF IInv
<1>2. /\ n \in Nat \ {0} /\ Len(typeContext) \in Nat /\ Len(symbolTable) \in Nat
      /\ Len(env) \in Nat /\ \A i \in 1..n : frames[i] \in Frame
  BY <1>1, TypeFacts DEF InFunction
<1>3. PICK tl, sl, el : Agreement(tl, sl, el)
  BY <1>1
<1>4. n \in 1..n /\ n - 1 \in 0..n /\ Top = frames[n] /\ frames[n] \in Frame
  BY <1>2 DEF Top
<1>5. /\ TypeScopes[Top] \in {1, 2} /\ CScopes[Top] \in {1, 2}
      /\ SymbolScopes[Top] \in {0, 1, 2}
  BY <1>4 DEF TypeScopes, CScopes, SymbolScopes
<1>6. /\ tl[n - 1] \in Nat \ {0} /\ Len(typeContext) = tl[n - 1] + TypeScopes[Top]
      /\ sl[n - 1] \in Nat \ {0} /\ Len(symbolTable) = sl[n - 1] + SymbolScopes[Top]
      /\ el[n - 1] \in Nat \ {0} /\ Len(env) = el[n - 1] + CScopes[Top]
  BY <1>3, <1>4 DEF Agreement, Levels
<1> HIDE DEF n
<1>7. TypeScopes[Top] \in 1..Len(typeContext) - 1
  BY ONLY SMTT(30), <1>2, <1>5, <1>6
<1>8. SymbolScopes[Top] \in 0..Len(symbolTable) - 1
  BY ONLY <1>2, <1>5, <1>6
<1>9. CScopes[Top] \in 1..Len(env) - 1
  BY ONLY <1>2, <1>5, <1>6
<1> QED
  BY <1>4, <1>7, <1>8, <1>9 DEF n

LEMMA LeaveStep ==
  ASSUME IInv, InFunction, frames' = SubSeq(frames, 1, Len(frames) - 1),
         decls' = decls, typedefs' = typedefs,
         terminated' \in BOOLEAN, Top.skipped => terminated',
         typeContext' = PopN(typeContext, TypeScopes[Top]),
         symbolTable' = IF Skipping THEN symbolTable
                                    ELSE PopN(symbolTable, SymbolScopes[Top]),
         env' = PopN(env, CScopes[Top]), LeaveItem
  PROVE  IInv'
<1>1. TypeOK /\ SkippedItems /\ Names /\ \E tl, sl, el : Agreement(tl, sl, el)
  BY DEF IInv
<1>2. /\ Len(decls) \in Nat /\ frames \in Seq(Frame) /\ Len(frames) \in Nat
      /\ typeContext \in Table(Len(decls)) /\ Len(typeContext) \in Nat
      /\ symbolTable \in Table(Len(decls)) /\ Len(symbolTable) \in Nat
      /\ env \in Table(Len(decls)) /\ Len(env) \in Nat
  BY <1>1, TypeFacts
<1>3. /\ Top \in Frame /\ Len(frames) \in 1..Len(frames)
      /\ TypeScopes[Top] \in 1..Len(typeContext) - 1
      /\ SymbolScopes[Top] \in 0..Len(symbolTable) - 1
      /\ CScopes[Top] \in 1..Len(env) - 1
  BY TopHasScopes
<1>4. /\ typeContext' \in Table(Len(decls))
      /\ Len(typeContext') = Len(typeContext) - TypeScopes[Top]
      /\ \A i \in 1..Len(typeContext') : typeContext'[i] = typeContext[i]
  <2>1. Len(typeContext) - TypeScopes[Top] \in 0..Len(typeContext)
    BY SMTT(30), <1>2, <1>3
  <2> QED
    BY <1>2, <2>1, PrefixIs DEF PopN, Table
<1>5. /\ symbolTable' \in Table(Len(decls))
      /\ Len(symbolTable') = Len(symbolTable) - SymbolScopes[Top]
      /\ \A i \in 1..Len(symbolTable') : symbolTable'[i] = symbolTable[i]
  <2>1. CASE Skipping
    <3>1. SymbolScopes[Top] = 0
      BY <1>3, <2>1 DEF SymbolScopes, Skipping
    <3> QED
      BY <1>2, <2>1, <3>1
  <2>2. CASE ~Skipping
    <3>1. Len(symbolTable) - SymbolScopes[Top] \in 0..Len(symbolTable)
      BY SMTT(30), <1>2, <1>3
    <3> QED
      BY <1>2, <2>2, <3>1, PrefixIs DEF PopN, Table
  <2> QED
    BY <2>1, <2>2
<1>6. /\ env' \in Table(Len(decls)) /\ Len(env') = Len(env) - CScopes[Top]
      /\ \A i \in 1..Len(env') : env'[i] = env[i]
  <2>1. Len(env) - CScopes[Top] \in 0..Len(env)
    BY <1>2, <1>3
  <2> QED
    BY <1>2, <2>1, PrefixIs DEF PopN, Table
<1>10. /\ Len(typeContext') # 0 /\ 1..Len(typeContext') \subseteq 1..Len(typeContext)
       /\ Len(symbolTable') # 0
       /\ Len(env') # 0 /\ 1..Len(env') \subseteq 1..Len(env)
  <2>1. \A h, m \in Nat : m \in 0..h - 1 => h - m # 0 /\ 1..h - m \subseteq 1..h
    OBVIOUS
  <2>2. /\ TypeScopes[Top] \in Nat /\ TypeScopes[Top] \in 0..Len(typeContext) - 1
        /\ SymbolScopes[Top] \in Nat
        /\ CScopes[Top] \in Nat /\ CScopes[Top] \in 0..Len(env) - 1
    BY <1>3
  <2> QED
    BY <1>2, <1>3, <1>4, <1>5, <1>6, <2>1, <2>2
<1>11. frames' \in Seq(Frame) /\ Len(frames') = Len(frames) - 1
  <2>1. Len(frames) - 1 \in 0..Len(frames)
    BY <1>3
  <2> QED
    BY <1>2, <2>1, PrefixIs
<1>12. LeaksGrow
  BY <1>1, <1>11, LeaksLeft DEF InFunction
<1>7. TypeOK'
  <2>3. decls' \in Seq(Decls) /\ Len(decls') <= MaxDecls /\ typedefs' \subseteq Id
    BY <1>1 DEF TypeOK
  <2> QED
    BY <1>4, <1>5, <1>6, <1>10, <1>11, <1>12, <2>3, TypeIs
<1>8. SkippedItems' /\ \E tl, sl, el : Agreement(tl, sl, el)'
  BY <1>1, <1>4, <1>5, <1>6, <1>12, LeaveKeeps
<1>9. Names'
  <2>2. Extends(typeContext', typeContext, {}, New) /\ Extends(env', env, {}, New)
    BY <1>4, <1>6, <1>10 DEF Extends
  <2>3. Grows(decls, decls')
    BY <1>2 DEF Grows
  <2> QED
    BY <1>1, <2>2, <2>3, NamesKept
<1> QED
  BY <1>7, <1>8, <1>9 DEF IInv

LEMMA ConcatIsAppend ==
  ASSUME NEW T, NEW s \in Seq(T), NEW a \in T, NEW b \in T
  PROVE  /\ s \o <<a>> = Append(s, a)
         /\ s \o <<a, b>> = Append(Append(s, a), b)
<1>1. s \o <<a>> = Append(s, a) /\ Append(s, a) \in Seq(T)
  BY AppendIsConcat, AppendProperties
<1>2. <<a, b>> = <<a>> \o <<b>> /\ <<a>> \in Seq(T) /\ <<b>> \in Seq(T)
  <2>1. <<a>> \in Seq(T) /\ <<b>> \in Seq(T) /\ <<a, b>> \in Seq(T)
    OBVIOUS
  <2>2. /\ Len(<<a>>) = 1 /\ <<a>>[1] = a /\ Len(<<b>>) = 1 /\ <<b>>[1] = b
        /\ Len(<<a, b>>) = 2 /\ <<a, b>>[1] = a /\ <<a, b>>[2] = b
    OBVIOUS
  <2>3. /\ <<a>> \o <<b>> \in Seq(T) /\ Len(<<a>> \o <<b>>) = 2
        /\ (<<a>> \o <<b>>)[1] = a /\ (<<a>> \o <<b>>)[2] = b
    BY <2>1, <2>2, ConcatProperties
  <2>4. \A i \in 1..2 : i = 1 \/ i = 2
    OBVIOUS
  <2> QED
    BY <2>1, <2>2, <2>3, <2>4, SeqEqual
<1>3. s \o (<<a>> \o <<b>>) = (s \o <<a>>) \o <<b>>
  BY <1>2, ConcatAssociative
<1>4. Append(s, a) \o <<b>> = Append(Append(s, a), b)
  BY <1>1, AppendIsConcat
<1> QED
  BY <1>1, <1>2, <1>3, <1>4

(* One scope is opened, or an empty one in the scope of the keys.          *)
LEMMA OneScope ==
  ASSUME NEW stack, NEW stack2, Len(stack) \in Nat, NEW keys, NEW d, d # NoDecl,
         Opened(stack2, stack, keys, d)
  PROVE  /\ Len(stack2) = Len(stack) + 1 /\ \A i \in 1..Len(stack) : stack2[i] = stack[i]
         /\ Shows(stack2, Len(stack2), stack, Len(stack), keys, d)
         /\ Extends(stack2, stack, keys, d)
<1>1. /\ Len(stack2) = Len(stack) + 1 /\ \A i \in 1..Len(stack) : stack2[i] = stack[i]
      /\ \A k \in Key : stack2[Len(stack) + 1][k] = IF k \in keys THEN d ELSE NoDecl
  BY DEF Opened
<1>2. Shows(stack2, Len(stack) + 1, stack, Len(stack), keys, d)
  BY <1>1, ShowsPush
<1> QED
  BY <1>1, <1>2, OpenedExtends

LEMMA TwoScopes ==
  ASSUME NEW stack, NEW stack2, NEW stack3, Len(stack) \in Nat, NEW keys, NEW d,
         d # NoDecl, Opened(stack2, stack, keys, d), Opened(stack3, stack2, {}, d)
  PROVE  /\ Len(stack3) = Len(stack) + 2 /\ \A i \in 1..Len(stack) : stack3[i] = stack[i]
         /\ Shows(stack3, Len(stack3), stack, Len(stack), keys, d)
         /\ Extends(stack3, stack, keys, d)
<1>1. /\ Len(stack2) = Len(stack) + 1 /\ \A i \in 1..Len(stack) : stack2[i] = stack[i]
      /\ Shows(stack2, Len(stack2), stack, Len(stack), keys, d)
      /\ Extends(stack2, stack, keys, d)
  BY OneScope
<1>2. /\ Len(stack3) = Len(stack2) + 1 /\ \A i \in 1..Len(stack2) : stack3[i] = stack2[i]
      /\ \A k \in Key : stack3[Len(stack2) + 1][k] = NoDecl
  BY DEF Opened
<1>3. Len(stack2) \in Nat
  BY <1>1
<1>4. Shows(stack3, Len(stack2) + 1, stack, Len(stack), keys, d)
  BY <1>1, <1>2, <1>3, ShowsPushEmpty
<1>5. Extends(stack3, stack, keys, d)
  BY <1>1, <1>3, OpenedExtends, ExtendsTwice
<1>6. \A i \in 1..Len(stack) : i \in 1..Len(stack2)
  BY <1>1
<1> QED
  BY <1>1, <1>2, <1>4, <1>5, <1>6

LEMMA PushTable ==
  ASSUME NEW n \in Nat, NEW stack \in Table(n), NEW d
  PROVE  Push(stack) \in Table(n) /\ Opened(Push(stack), stack, {}, d)
<1>1. NoScope = [k \in Key |-> IF k \in {} THEN d ELSE NoDecl]
  BY DEF NoScope
<1> QED
  BY <1>1, OpenedTable DEF Push

(* A function: two scopes in the passes, the outer one for the parameter,  *)
(* and one in C.                                                           *)
LEMMA EnterFnDefKeeps ==
  ASSUME IInv, NEW params \in {{}} \cup {{x} : x \in Id}, EnterFnDef(params),
         C!Open(<<C!Declaring(params, New)>>), EnterItem({})
  PROVE  IInv'
<1>1. /\ TypeOK /\ Len(decls) \in Nat /\ New # NoDecl /\ New = Len(decls) + 1
      /\ frames \in Seq(Frame)
      /\ typeContext \in Table(Len(decls)) /\ Len(typeContext) \in Nat \ {0}
      /\ symbolTable \in Table(Len(decls)) /\ Len(symbolTable) \in Nat \ {0}
      /\ env \in Table(Len(decls)) /\ Len(env) \in Nat \ {0}
  BY TypeFacts DEF IInv
<1> DEFINE f     == [kind |-> "fn", skipped |-> FALSE]
           scope == [k \in Key |-> IF k \in params THEN New ELSE NoDecl]
<1>2. /\ f \in Frame /\ f.skipped = FALSE /\ f.kind = "fn"
      /\ TypeScopes[f] = 2 /\ SymbolScopes[f] = 2 /\ CScopes[f] = 1
  BY DEF Frame, TypeScopes, SymbolScopes, CScopes
<1>3. /\ frames = << >> /\ ~SkipsNext /\ frames' = Append(frames, f)
      /\ terminated' = FALSE /\ typedefs' = typedefs
  <2>1. /\ frames = << >> /\ ~SkipsNext /\ frames' = <<f>>
        /\ terminated' = FALSE /\ typedefs' = typedefs
    BY DEF EnterFnDef, InFunction, SkipsNext, Skipping
  <2> HIDE DEF f
  <2>2. Append(<< >>, f) = <<f>>
    OBVIOUS
  <2> QED
    BY <2>1, <2>2
<1>4. \/ decls' = decls /\ params = {}
      \/ \E new \in Decls :
           /\ Len(decls) < MaxDecls /\ decls' = Append(decls, new)
           /\ new.kind # "typedef" /\ \A x \in params : new.name = x
  <2>1. CASE params = {}
    BY <2>1 DEF EnterFnDef
  <2>2. CASE params # {}
    <3>1. PICK x \in Id : params = {x}
      BY <2>2
    <3>2. (CHOOSE y \in params : TRUE) = x
      BY <3>1
    <3> DEFINE new == Declaration(x, "object", "item")
    <3>3. new \in Decls /\ new.kind # "typedef" /\ new.name = x
      BY DEF Declaration, Decls
    <3>4. decls' = Append(decls, new) /\ Len(decls) < MaxDecls
      BY <2>2, <3>2 DEF EnterFnDef, CanDeclare
    <3> HIDE DEF new
    <3> QED
      BY <3>1, <3>3, <3>4
  <2> QED
    BY <2>1, <2>2
<1>5. /\ Len(decls') \in Nat /\ Len(decls) <= Len(decls')
      /\ params # {} => New \in 0..Len(decls')
  <2>1. CASE decls' = decls /\ params = {}
    BY <1>1, <2>1
  <2>2. CASE \E new \in Decls : Len(decls) < MaxDecls /\ decls' = Append(decls, new)
    BY <1>1, <2>2, OneMore
  <2> QED
    BY <1>4, <2>1, <2>2
<1>6. ASSUME NEW stack \in Table(Len(decls))
      PROVE  /\ Append(stack, scope) \in Table(Len(decls'))
             /\ Opened(Append(stack, scope), stack, params, New)
             /\ Push(Append(stack, scope)) \in Table(Len(decls'))
             /\ Opened(Push(Append(stack, scope)), Append(stack, scope), {}, New)
  <2>1. /\ Append(stack, scope) \in Table(Len(decls'))
        /\ Opened(Append(stack, scope), stack, params, New)
    <3>1. /\ Len(decls) \in Nat /\ Len(decls') \in Nat /\ Len(decls) <= Len(decls')
          /\ params # {} => New \in 0..Len(decls')
          /\ stack \in Table(Len(decls))
      BY <1>1, <1>5
    <3> QED
      BY ONLY <3>1, OpenedTable
  <2> HIDE DEF scope
  <2> QED
    BY <1>5, <2>1, PushTable
<1>7. /\ typeContext' = Push(Append(typeContext, scope))
      /\ symbolTable' = Push(Append(symbolTable, scope))
  BY DEF EnterFnDef
<1>8. env' = Append(env, scope)
  <2>1. env' = env \o <<scope>>
    BY DEF C!Open, C!Declaring
  <2>2. env \in Seq([Key -> 0..Len(decls')])
    BY <1>1, <1>5, TableGrows DEF Table
  <2>3. scope \in [Key -> 0..Len(decls')]
    BY <1>5 DEF NoDecl
  <2> HIDE DEF scope
  <2> QED
    BY <2>1, <2>2, <2>3, ConcatIsAppend
<1> HIDE DEF scope, f
<1>9. /\ typeContext' \in Table(Len(decls'))
      /\ Len(typeContext') = Len(typeContext) + 2
      /\ \A i \in 1..Len(typeContext) : typeContext'[i] = typeContext[i]
      /\ Shows(typeContext', Len(typeContext'), typeContext, Len(typeContext), params, New)
      /\ Extends(typeContext', typeContext, params, New)
  <2> DEFINE open  == Append(typeContext, scope)
             open2 == Push(open)
  <2>1. /\ Opened(open, typeContext, params, New) /\ Opened(open2, open, {}, New)
        /\ open2 \in Table(Len(decls')) /\ Len(typeContext) \in Nat /\ New # NoDecl
    BY <1>1, <1>6
  <2> HIDE DEF open
  <2>2. typeContext' = open2
    BY <1>7 DEF open
  <2> HIDE DEF open2
  <2> QED
    BY ONLY ZenonT(40), <2>1, <2>2, TwoScopes
<1>10. /\ symbolTable' \in Table(Len(decls'))
       /\ Len(symbolTable') = Len(symbolTable) + 2
       /\ \A i \in 1..Len(symbolTable) : symbolTable'[i] = symbolTable[i]
       /\ Shows(symbolTable', Len(symbolTable'), symbolTable, Len(symbolTable), params, New)
  <2> DEFINE open  == Append(symbolTable, scope)
             open2 == Push(open)
  <2>1. /\ Opened(open, symbolTable, params, New) /\ Opened(open2, open, {}, New)
        /\ open2 \in Table(Len(decls')) /\ Len(symbolTable) \in Nat /\ New # NoDecl
    BY <1>1, <1>6
  <2> HIDE DEF open
  <2>2. symbolTable' = open2
    BY <1>7 DEF open
  <2> HIDE DEF open2
  <2> QED
    BY ONLY ZenonT(40), <2>1, <2>2, TwoScopes
<1>11. /\ env' \in Table(Len(decls')) /\ Len(env') = Len(env) + 1
       /\ \A i \in 1..Len(env) : env'[i] = env[i]
       /\ Shows(env', Len(env'), env, Len(env), params, New)
       /\ Extends(env', env, params, New)
  <2>1. /\ env' \in Table(Len(decls')) /\ Opened(env', env, params, New)
        /\ Len(env) \in Nat /\ New # NoDecl
    BY <1>1, <1>6, <1>8
  <2> QED
    BY ONLY <2>1, OneScope
<1> DEFINE none == {}
<1>12. /\ Shows(typeContext', Len(typeContext), typeContext, Len(typeContext), none, New)
       /\ \A i \in 1..Len(typeContext) - 1 : typeContext'[i] = typeContext[i]
  <2>1. /\ Len(typeContext) \in Nat
        /\ \A i \in 1..Len(typeContext) : typeContext'[i] = typeContext[i]
    BY <1>1, <1>9
  <2>2. \A i \in 1..Len(typeContext) - 1 : i \in 1..Len(typeContext)
    BY <2>1
  <2>3. Shows(typeContext', Len(typeContext), typeContext, Len(typeContext), none, New)
    BY ONLY <2>1, ShowsSame
  <2> QED
    BY <2>1, <2>2, <2>3
<1>13. /\ none \subseteq params /\ params \subseteq Id /\ Declaring(params)
       /\ none \in SUBSET Nat /\ EnterItem(none) /\ (none # {} => New \in none)
  BY <1>4 DEF Declaring
<1> HIDE DEF none
<1>14. f.skipped = SkipsNext
  BY <1>2, <1>3 DEF SkipsNext
<1>15. /\ f \in Frame /\ frames' = Append(frames, f) /\ (f.kind = "fn" <=> frames = << >>)
       /\ terminated' \in BOOLEAN /\ (SkipsNext => terminated') /\ typedefs' = typedefs
  BY <1>2, <1>3
<1>16. /\ Len(typeContext') = Len(typeContext) + TypeScopes[f]
       /\ Len(symbolTable') = Len(symbolTable) + SymbolScopes[f]
       /\ Len(env') = Len(env) + CScopes[f]
  BY <1>2, <1>9, <1>10, <1>11
<1> QED
  BY ONLY IInv, <1>9, <1>10, <1>11, <1>12, <1>13, <1>14, <1>15, <1>16, EnterStep

(* The frame of an item other than a function                              *)
LEMMA FrameOf ==
  ASSUME NEW kind \in {"block", "for", "switch"}, NEW f,
         f = [kind |-> kind, skipped |-> SkipsNext]
  PROVE  /\ f \in Frame /\ f.kind = kind /\ f.kind # "fn" /\ f.skipped = SkipsNext
         /\ TypeScopes[f] = 1
         /\ SymbolScopes[f] = IF SkipsNext THEN 0 ELSE IF kind = "for" THEN 2 ELSE 1
         /\ CScopes[f] = IF kind = "for" THEN 2 ELSE 1
<1>1. SkipsNext \in BOOLEAN
  BY DEF SkipsNext
<1>2. f \in Frame /\ f.kind = kind /\ f.kind # "fn" /\ f.skipped = SkipsNext
  BY <1>1 DEF Frame
<1> QED
  BY <1>2 DEF TypeScopes, SymbolScopes, CScopes

(* A block or a switch: one scope everywhere, unless it is skipped.        *)
LEMMA EnterBlockKeeps ==
  ASSUME IInv, NEW kind \in {"block", "switch"}, InFunction, Enter(kind),
         decls' = decls, typedefs' = typedefs,
         terminated' \in BOOLEAN, SkipsNext => terminated',
         typeContext' = Push(typeContext), Visited(Push(symbolTable)),
         C!Open(<<NoScope>>), EnterItem({})
  PROVE  IInv'
<1>1. /\ TypeOK /\ Len(decls) \in Nat /\ New # NoDecl
      /\ typeContext \in Table(Len(decls)) /\ Len(typeContext) \in Nat \ {0}
      /\ symbolTable \in Table(Len(decls)) /\ Len(symbolTable) \in Nat \ {0}
      /\ env \in Table(Len(decls)) /\ Len(env) \in Nat \ {0}
  BY TypeFacts DEF IInv
<1> DEFINE f    == [kind |-> kind, skipped |-> SkipsNext]
           none == {}
<1>2. /\ f \in Frame /\ f.kind # "fn" /\ f.skipped = SkipsNext
      /\ TypeScopes[f] = 1 /\ CScopes[f] = 1
      /\ SymbolScopes[f] = IF SkipsNext THEN 0 ELSE 1
  <2>1. kind \in {"block", "for", "switch"} /\ kind # "for"
    OBVIOUS
  <2> HIDE DEF f
  <2>2. f = [kind |-> kind, skipped |-> SkipsNext]
    BY DEF f
  <2> QED
    BY ONLY <2>1, <2>2, FrameOf
<1>3. frames' = Append(frames, f) /\ (f.kind = "fn" <=> frames = << >>)
  BY <1>2 DEF Enter, InFunction
<1>4. env' = Push(env)
  <2>1. env' = env \o <<NoScope>>
    BY DEF C!Open
  <2>2. env \in Seq([Key -> 0..Len(decls)]) /\ NoScope \in [Key -> 0..Len(decls)]
    BY <1>1 DEF Table, NoScope, NoDecl
  <2> QED
    BY <2>1, <2>2, ConcatIsAppend DEF Push
<1> HIDE DEF f
<1>5. ASSUME NEW stack \in Table(Len(decls)), Len(stack) \in Nat
      PROVE  /\ Push(stack) \in Table(Len(decls)) /\ Len(Push(stack)) = Len(stack) + 1
             /\ \A i \in 1..Len(stack) : Push(stack)[i] = stack[i]
             /\ Shows(Push(stack), Len(Push(stack)), stack, Len(stack), none, New)
             /\ Extends(Push(stack), stack, none, New)
  <2>1. Push(stack) \in Table(Len(decls)) /\ Opened(Push(stack), stack, none, New)
    BY <1>1, <1>5, PushTable
  <2> HIDE DEF none
  <2> QED
    BY <1>1, <1>5, <2>1, OneScope
<1>6. /\ Shows(typeContext', Len(typeContext), typeContext, Len(typeContext), none, New)
      /\ \A i \in 1..Len(typeContext) - 1 : typeContext'[i] = typeContext[i]
  <2>1. /\ Len(typeContext) \in Nat
        /\ \A i \in 1..Len(typeContext) : typeContext'[i] = typeContext[i]
    BY <1>1, <1>5
  <2>2. \A i \in 1..Len(typeContext) - 1 : i \in 1..Len(typeContext)
    BY <2>1
  <2>3. Shows(typeContext', Len(typeContext), typeContext, Len(typeContext), none, New)
    BY ONLY <2>1, ShowsSame
  <2> QED
    BY <2>1, <2>2, <2>3
<1>7. /\ none \subseteq none /\ none \subseteq Id /\ Declaring(none)
      /\ none \in SUBSET Nat /\ EnterItem(none) /\ (none # {} => New \in none)
  BY DEF Declaring
<1> HIDE DEF none
<1>8. /\ typeContext' \in Table(Len(decls'))
      /\ Len(typeContext') = Len(typeContext) + TypeScopes[f]
      /\ Shows(typeContext', Len(typeContext'), typeContext, Len(typeContext), none, New)
      /\ Extends(typeContext', typeContext, none, New)
  BY <1>1, <1>2, <1>5
<1>9. /\ symbolTable' \in Table(Len(decls'))
      /\ Len(symbolTable') = Len(symbolTable) + SymbolScopes[f]
      /\ \A i \in 1..Len(symbolTable) : symbolTable'[i] = symbolTable[i]
      /\ ~f.skipped =>
           Shows(symbolTable', Len(symbolTable'), symbolTable, Len(symbolTable), none, New)
  BY <1>1, <1>2, <1>5 DEF Visited
<1>10. /\ env' \in Table(Len(decls')) /\ Len(env') = Len(env) + CScopes[f]
       /\ \A i \in 1..Len(env) : env'[i] = env[i]
       /\ Shows(env', Len(env'), env, Len(env), none, New)
       /\ Extends(env', env, none, New)
  BY <1>1, <1>2, <1>4, <1>5
<1>11. /\ IInv /\ terminated' \in BOOLEAN /\ (SkipsNext => terminated')
       /\ typedefs' = typedefs
  OBVIOUS
<1> QED
  BY ONLY <1>2, <1>3, <1>6, <1>7, <1>8, <1>9, <1>10, <1>11, EnterStep

(* A for statement: the type checker puts its variable in the scope around *)
(* it.                                                                     *)
LEMMA EnterForKeeps ==
  ASSUME IInv, NEW x \in Id, EnterFor(x), C!Open(<<C!Declaring({x}, New), NoScope>>),
         EnterItem({New})
  PROVE  IInv'
<1>1. /\ TypeOK /\ SkippedItems /\ Len(decls) \in Nat /\ New # NoDecl
      /\ typeContext \in Table(Len(decls)) /\ Len(typeContext) \in Nat \ {0}
      /\ symbolTable \in Table(Len(decls)) /\ Len(symbolTable) \in Nat \ {0}
      /\ env \in Table(Len(decls)) /\ Len(env) \in Nat \ {0}
      /\ typeContext # << >>
  BY TypeFacts DEF IInv, TypeOK
<1> DEFINE f     == [kind |-> "for", skipped |-> SkipsNext]
           keys  == {x}
           new   == Declaration(x, "object", "for")
           scope == [k \in Key |-> IF k \in keys THEN New ELSE NoDecl]
<1>2. /\ f \in Frame /\ f.kind # "fn" /\ f.skipped = SkipsNext
      /\ TypeScopes[f] = 1 /\ CScopes[f] = 2
      /\ SymbolScopes[f] = IF SkipsNext THEN 0 ELSE 2
  <2> HIDE DEF f
  <2>1. f = [kind |-> "for", skipped |-> SkipsNext]
    BY DEF f
  <2> QED
    BY <2>1, FrameOf
<1>3. /\ frames' = Append(frames, f) /\ (f.kind = "fn" <=> frames = << >>)
      /\ terminated' = (terminated /\ SkipsNext) /\ typedefs' = typedefs
  BY <1>2 DEF EnterFor, Enter, CanEnter, InFunction
<1>4. terminated' \in BOOLEAN /\ (SkipsNext => terminated')
  BY <1>1, <1>3, SkippingIsTerminated
<1>5. /\ new \in Decls /\ Len(decls) < MaxDecls /\ decls' = Append(decls, new)
      /\ new.kind # "typedef" /\ new.where = "for" /\ new.name = x
  BY DEF EnterFor, CanDeclare, Declaration, Decls
<1>6. keys \subseteq keys /\ keys \subseteq Id /\ Declaring(keys) /\ x \in Key
  <2> HIDE DEF new
  <2> QED
    BY <1>5 DEF Declaring, Key
<1> HIDE DEF new
<1>7. /\ Len(decls') \in Nat /\ Len(decls) <= Len(decls') /\ New \in 0..Len(decls')
  BY <1>1, <1>5, OneMore
<1>8. /\ typeContext' = Push(Insert(typeContext, x, New))
      /\ Visited(Push(Insert(Push(symbolTable), x, New)))
  BY DEF EnterFor
<1> HIDE DEF f
<1>9. ASSUME NEW stack \in Table(Len(decls)), stack # << >>
      PROVE  /\ Insert(stack, x, New) \in Table(Len(decls'))
             /\ Inserted(Insert(stack, x, New), stack, keys, New)
  BY <1>1, <1>6, <1>7, <1>9, InsertTable
<1>10. /\ typeContext' \in Table(Len(decls'))
       /\ Len(typeContext') = Len(typeContext) + TypeScopes[f]
       /\ \A i \in 1..Len(typeContext) - 1 : typeContext'[i] = typeContext[i]
       /\ Shows(typeContext', Len(typeContext), typeContext, Len(typeContext), keys, New)
       /\ Shows(typeContext', Len(typeContext'), typeContext, Len(typeContext), keys, New)
       /\ Extends(typeContext', typeContext, keys, New)
  <2> DEFINE put == Insert(typeContext, x, New)
  <2>1. put \in Table(Len(decls')) /\ Inserted(put, typeContext, keys, New)
    BY <1>1, <1>9
  <2> HIDE DEF put, keys
  <2>2. typeContext' \in Table(Len(decls')) /\ Opened(typeContext', put, {}, New)
    BY <1>7, <1>8, <2>1, PushTable DEF put
  <2>3. Len(put) = Len(typeContext) /\ Len(typeContext') = Len(typeContext) + 1
    BY <2>1, <2>2 DEF Inserted, Opened
  <2>4. /\ \A i \in 1..Len(typeContext) : typeContext'[i] = put[i]
        /\ \A k \in Key : typeContext'[Len(typeContext) + 1][k] = NoDecl
    BY <2>2, <2>3 DEF Opened
  <2>5. /\ \A i \in 1..Len(typeContext) - 1 : put[i] = typeContext[i]
        /\ \A k \in Key : put[Len(typeContext)][k] =
                            IF k \in keys THEN New ELSE typeContext[Len(typeContext)][k]
    BY <2>1 DEF Inserted
  <2>6. /\ Len(typeContext) \in 1..Len(typeContext)
        /\ \A i \in 1..Len(typeContext) - 1 : i \in 1..Len(typeContext)
    BY <1>1
  <2>7. /\ \A i \in 1..Len(typeContext) - 1 : typeContext'[i] = typeContext[i]
        /\ \A k \in Key : typeContext'[Len(typeContext)][k] =
                            IF k \in keys THEN New ELSE typeContext[Len(typeContext)][k]
    BY <2>4, <2>5, <2>6
  <2>8. Shows(typeContext', Len(typeContext), typeContext, Len(typeContext), keys, New)
    BY <1>1, <2>7, ShowsPut
  <2>9. Shows(typeContext', Len(typeContext) + 1, typeContext, Len(typeContext), keys, New)
    <3>1. \A i \in 1..Len(typeContext) : typeContext'[i] = typeContext'[i]
      OBVIOUS
    <3>2. Len(typeContext) \in Nat /\ New # NoDecl
      BY <1>1
    <3> QED
      BY ONLY <2>4, <2>8, <3>1, <3>2, ShowsPushEmpty
  <2>10. Extends(typeContext', typeContext, keys, New)
    <3>1. Extends(put, typeContext, keys, New) /\ Extends(typeContext', put, {}, New)
      BY <1>1, <2>1, <2>2, <2>3, InsertedExtends, OpenedExtends
    <3> QED
      BY ONLY <3>1, ExtendsTwice
  <2> QED
    BY <1>2, <2>2, <2>3, <2>7, <2>8, <2>9, <2>10
<1>11. /\ symbolTable' \in Table(Len(decls'))
       /\ Len(symbolTable') = Len(symbolTable) + SymbolScopes[f]
       /\ \A i \in 1..Len(symbolTable) : symbolTable'[i] = symbolTable[i]
       /\ ~f.skipped =>
            Shows(symbolTable', Len(symbolTable'), symbolTable, Len(symbolTable), keys, New)
  <2>1. CASE SkipsNext
    <3>1. symbolTable' = symbolTable /\ f.skipped
      BY <1>2, <1>8, <2>1 DEF Visited
    <3>2. symbolTable' \in Table(Len(decls'))
      BY <1>1, <1>7, <3>1, TableGrows
    <3> QED
      BY <1>1, <1>2, <2>1, <3>1, <3>2
  <2>2. CASE ~SkipsNext
    <3> DEFINE open == Push(symbolTable)
               put  == Insert(open, x, New)
    <3>1. open \in Table(Len(decls)) /\ Opened(open, symbolTable, {}, New)
      BY <1>1, PushTable
    <3> HIDE DEF open
    <3>2. Len(open) = Len(symbolTable) + 1 /\ open # << >>
      BY <1>1, <3>1 DEF Opened
    <3>3. put \in Table(Len(decls')) /\ Inserted(put, open, keys, New)
      BY <1>9, <3>1, <3>2
    <3> HIDE DEF put, keys
    <3>4. symbolTable' \in Table(Len(decls')) /\ Opened(symbolTable', put, {}, New)
      BY <1>7, <1>8, <2>2, <3>3, PushTable DEF Visited, put, open
    <3>5. Len(put) = Len(symbolTable) + 1 /\ Len(symbolTable') = Len(symbolTable) + 2
      BY <1>1, <3>2, <3>3, <3>4 DEF Inserted, Opened
    <3>6. /\ \A i \in 1..Len(symbolTable) : put[i] = symbolTable[i]
          /\ \A k \in Key : put[Len(symbolTable) + 1][k] =
                              IF k \in keys THEN New ELSE NoDecl
      <4>1. /\ \A i \in 1..Len(symbolTable) : open[i] = symbolTable[i]
            /\ \A k \in Key : open[Len(symbolTable) + 1][k] = NoDecl
        BY <3>1 DEF Opened
      <4>2. Len(open) - 1 = Len(symbolTable)
        BY <1>1, <3>2
      <4>3. /\ \A i \in 1..Len(symbolTable) : put[i] = open[i]
            /\ \A k \in Key : put[Len(symbolTable) + 1][k] =
                                IF k \in keys THEN New ELSE open[Len(symbolTable) + 1][k]
        BY <3>2, <3>3, <4>2 DEF Inserted
      <4> QED
        BY <4>1, <4>3
    <3>7. Shows(put, Len(symbolTable) + 1, symbolTable, Len(symbolTable), keys, New)
      BY <1>1, <3>6, ShowsPush
    <3>8. /\ \A i \in 1..Len(symbolTable) + 1 : symbolTable'[i] = put[i]
          /\ \A k \in Key : symbolTable'[(Len(symbolTable) + 1) + 1][k] = NoDecl
      BY <3>4, <3>5 DEF Opened
    <3>9. Shows(symbolTable', (Len(symbolTable) + 1) + 1, symbolTable, Len(symbolTable),
                keys, New)
      <4>1. Len(symbolTable) + 1 \in Nat /\ New # NoDecl
        BY <1>1
      <4> QED
        BY ONLY <3>7, <3>8, <4>1, ShowsPushEmpty
    <3>10. (Len(symbolTable) + 1) + 1 = Len(symbolTable')
      BY <1>1, <3>5
    <3>11. \A i \in 1..Len(symbolTable) : symbolTable'[i] = symbolTable[i]
      <4>1. \A i \in 1..Len(symbolTable) : i \in 1..Len(symbolTable) + 1
        BY <1>1
      <4> QED
        BY <3>6, <3>8, <4>1
    <3> QED
      BY <1>2, <2>2, <3>4, <3>5, <3>9, <3>10, <3>11
  <2> QED
    BY <2>1, <2>2
<1>12. env' = Push(Append(env, scope))
  <2>1. env' = env \o <<scope, NoScope>>
    BY DEF C!Open, C!Declaring
  <2>2. env \in Seq([Key -> 0..Len(decls')])
    BY <1>1, <1>7, TableGrows DEF Table
  <2>3. scope \in [Key -> 0..Len(decls')] /\ NoScope \in [Key -> 0..Len(decls')]
    BY <1>7 DEF NoDecl, NoScope
  <2> HIDE DEF scope
  <2> QED
    BY <2>1, <2>2, <2>3, ConcatIsAppend DEF Push
<1>13. /\ env' \in Table(Len(decls')) /\ Len(env') = Len(env) + CScopes[f]
       /\ \A i \in 1..Len(env) : env'[i] = env[i]
       /\ Shows(env', Len(env'), env, Len(env), keys, New)
       /\ Extends(env', env, keys, New)
  <2> DEFINE open == Append(env, scope)
  <2> HIDE DEF keys
  <2>1. open \in Table(Len(decls')) /\ Opened(open, env, keys, New)
    <3>1. /\ Len(decls) \in Nat /\ Len(decls') \in Nat /\ Len(decls) <= Len(decls')
          /\ keys # {} => New \in 0..Len(decls')
          /\ env \in Table(Len(decls))
      BY <1>1, <1>7
    <3> QED
      BY ONLY <3>1, OpenedTable
  <2> HIDE DEF open
  <2>2. env' \in Table(Len(decls')) /\ Opened(env', open, {}, New)
    BY <1>7, <1>12, <2>1, PushTable DEF open
  <2>3. Len(env) \in Nat /\ New # NoDecl
    BY <1>1
  <2>4. /\ Len(env') = Len(env) + 2 /\ \A i \in 1..Len(env) : env'[i] = env[i]
        /\ Shows(env', Len(env'), env, Len(env), keys, New)
        /\ Extends(env', env, keys, New)
    BY ONLY <2>1, <2>2, <2>3, TwoScopes
  <2> QED
    BY <1>2, <2>2, <2>4
<1> DEFINE leak == {New}
<1>14. IInv /\ leak \in SUBSET Nat /\ EnterItem(leak) /\ (keys # {} => New \in leak)
  BY <1>1, TypeFacts
<1> HIDE DEF keys, leak
<1> QED
  BY ONLY <1>2, <1>3, <1>4, <1>6, <1>10, <1>11, <1>13, <1>14, EnterStep

(* What is entered is left with the same number of scopes.                 *)
LEMMA ExitBlockKeeps ==
  ASSUME IInv, NEW kind \in {"block", "switch"}, Leave(kind),
         decls' = decls, typedefs' = typedefs,
         terminated' \in BOOLEAN, Top.skipped => terminated',
         typeContext' = PopN(typeContext, 1),
         symbolTable' = IF Skipping THEN symbolTable ELSE PopN(symbolTable, 1),
         C!Close(1), LeaveItem
  PROVE  IInv'
<1>1. InFunction /\ Top.kind = kind /\ frames' = SubSeq(frames, 1, Len(frames) - 1)
  BY DEF Leave
<1>2. Top \in Frame
  BY <1>1, TopHasScopes
<1>3. TypeScopes[Top] = 1 /\ CScopes[Top] = 1 /\ (~Skipping => SymbolScopes[Top] = 1)
  BY <1>1, <1>2 DEF TypeScopes, CScopes, SymbolScopes, Skipping
<1>4. env' = PopN(env, CScopes[Top]) /\ typeContext' = PopN(typeContext, TypeScopes[Top])
  BY <1>3 DEF C!Close, PopN
<1>5. symbolTable' = IF Skipping THEN symbolTable
                                 ELSE PopN(symbolTable, SymbolScopes[Top])
  BY <1>3
<1>6. /\ IInv /\ LeaveItem /\ decls' = decls /\ typedefs' = typedefs
      /\ terminated' \in BOOLEAN /\ (Top.skipped => terminated')
  OBVIOUS
<1> QED
  BY ONLY <1>1, <1>4, <1>5, <1>6, LeaveStep

LEMMA ExitForKeeps ==
  ASSUME IInv, ExitFor, C!Close(2), LeaveItem
  PROVE  IInv'
<1>1. /\ InFunction /\ Top.kind = "for" /\ frames' = SubSeq(frames, 1, Len(frames) - 1)
      /\ decls' = decls /\ typedefs' = typedefs
      /\ terminated' = (terminated /\ Skipping)
  BY DEF ExitFor, Leave, FreshBlock
<1>2. Top \in Frame
  BY <1>1, TopHasScopes
<1>3. TypeScopes[Top] = 1 /\ CScopes[Top] = 2 /\ (~Skipping => SymbolScopes[Top] = 2)
  BY <1>1, <1>2 DEF TypeScopes, CScopes, SymbolScopes, Skipping
<1>4. env' = PopN(env, CScopes[Top]) /\ typeContext' = PopN(typeContext, TypeScopes[Top])
  BY <1>3 DEF ExitFor, C!Close, PopN
<1>5. symbolTable' = IF Skipping THEN symbolTable
                                 ELSE PopN(symbolTable, SymbolScopes[Top])
  BY <1>3 DEF ExitFor
<1>6. terminated' \in BOOLEAN /\ (Top.skipped => terminated')
  <2>1. Top = frames[Len(frames)] /\ Len(frames) \in 1..Len(frames)
    BY <1>1, TopHasScopes DEF Top
  <2>2. Top.skipped => Skipping /\ terminated
    BY <1>1, <2>1 DEF IInv, SkippedItems, Skipping
  <2> QED
    BY <1>1, <2>2
<1>7. IInv /\ LeaveItem
  OBVIOUS
<1> QED
  BY ONLY <1>1, <1>4, <1>5, <1>6, <1>7, LeaveStep

LEMMA ExitFnDefKeeps ==
  ASSUME IInv, ExitFnDef, C!Close(1), LeaveItem
  PROVE  IInv'
<1>1. /\ InFunction /\ Top.kind = "fn" /\ frames' = SubSeq(frames, 1, Len(frames) - 1)
      /\ decls' = decls /\ typedefs' = typedefs /\ terminated' = FALSE
  BY DEF ExitFnDef, Leave
<1>2. Top \in Frame /\ Len(frames) \in 1..Len(frames)
  BY <1>1, TopHasScopes
<1>3. ~Top.skipped
  BY <1>1, <1>2 DEF IInv, SkippedItems, Top
<1>4. TypeScopes[Top] = 2 /\ CScopes[Top] = 1 /\ SymbolScopes[Top] = 2
  BY <1>1, <1>2, <1>3 DEF TypeScopes, CScopes, SymbolScopes
<1>5. env' = PopN(env, CScopes[Top]) /\ typeContext' = PopN(typeContext, TypeScopes[Top])
  BY <1>4 DEF ExitFnDef, C!Close, PopN
<1>6. symbolTable' = IF Skipping THEN symbolTable
                                 ELSE PopN(symbolTable, SymbolScopes[Top])
  BY <1>3, <1>4 DEF ExitFnDef, Skipping
<1>7. IInv /\ LeaveItem /\ terminated' \in BOOLEAN /\ (Top.skipped => terminated')
  BY <1>1, <1>3
<1> QED
  BY ONLY <1>1, <1>5, <1>6, <1>7, LeaveStep

(* No table changes but what the code generator makes of an enum.          *)
LEMMA ReturnKeeps ==
  ASSUME IInv, Return, UNCHANGED <<env, leaks>>
  PROVE  IInv'
<1>1. TypeOK /\ SkippedItems /\ Names /\ \E tl, sl, el : Agreement(tl, sl, el)
  BY DEF IInv
<1>2. /\ frames' = frames /\ decls' = decls /\ typedefs' = typedefs
      /\ typeContext' = typeContext /\ symbolTable' = symbolTable /\ env' = env
      /\ terminated' = (terminated \/ ~SkipsNext) /\ leaks' = leaks
  BY DEF Return
<1>3. TypeOK' /\ Names'
  BY <1>1, <1>2 DEF TypeOK, Names, TagsAreOfEnums, NamesAreDeclared, TypedefsAreKnown
<1> DEFINE none == {}
<1>4. /\ none \subseteq none /\ (none # none => New \in leaks'[Len(frames) + 1])
      /\ none \cap none # {} => New = New
      /\ ~SkipsNext =>
           \A x \in Id :
             \/ x \in none <=> x \in none
             \/ x \in none /\ decls'[New].kind = "const"
             \/ x \in none /\ (decls'[New].where = "typedef" \/ decls'[New].kind = "typedef")
  OBVIOUS
<1>5. /\ Inserted(typeContext', typeContext, none, New)
      /\ Inserted(env', env, none, New)
      /\ Inserted(symbolTable', symbolTable, none, New)
  BY <1>2, UnchangedTable
<1> HIDE DEF none
<1>6. /\ Grows(decls, decls') /\ LeaksGrow /\ New # NoDecl /\ (terminated => terminated')
      /\ (SkipsNext => symbolTable' = symbolTable)
      /\ (~SkipsNext => Inserted(symbolTable', symbolTable, none, New))
  <2>1. Grows(decls, decls') /\ New # NoDecl
    BY <1>1, <1>2, TypeFacts DEF Grows
  <2>2. (terminated => terminated') /\ LeaksGrow
    BY <1>1, <1>2, LeaksKept
  <2> QED
    BY <1>2, <1>5, <2>1, <2>2
<1>7. SkippedItems' /\ \E tl, sl, el : Agreement(tl, sl, el)'
  BY ONLY <1>1, <1>2, <1>4, <1>5, <1>6, DeclareKeeps
<1> QED
  BY <1>3, <1>7 DEF IInv

(* What the type checker finds for a tag is a constant of its enum.        *)
LEMMA TagIsConstant ==
  ASSUME TypeOK, TagsAreOfEnums, NEW t \in Tag, lookupType(t) # NoDecl
  PROVE  /\ lookupType(t) \in 1..Len(decls)
         /\ decls[lookupType(t)].kind = "const" /\ decls[lookupType(t)].name \in Id
<1>1. /\ Len(decls) \in Nat /\ typeContext \in Table(Len(decls))
      /\ Len(typeContext) \in Nat
  BY TypeFacts
<1>2. lookupType(t) = Within(typeContext, Len(typeContext), t)
  BY DEF lookupType, Lookup, Within
<1>3. PICK i \in 1..Len(typeContext) :
        Within(typeContext, Len(typeContext), t) = typeContext[i][t]
  BY <1>1, <1>2, WithinIsInnermost
<1>4. lookupType(t) \in 0..Len(decls)
  <2>1. Len(typeContext) \in 0..Len(typeContext) /\ t \in Key
    BY <1>1 DEF Key
  <2> QED
    BY <1>1, <1>2, <2>1, WithinIsDeclared
<1>5. lookupType(t) \in 1..Len(decls)
  BY <1>1, <1>4 DEF NoDecl
<1>6. decls[lookupType(t)] \in Decls
  BY <1>5, ElementOfSeq DEF TypeOK
<1>7. \A new \in Decls : new.name \in Id
  BY DEF Decls
<1> QED
  BY <1>2, <1>3, <1>5, <1>6, <1>7 DEF TagsAreOfEnums

LEMMA ReferToEnumKeeps ==
  ASSUME IInv, NEW t \in Tag, ReferToEnum(t), UNCHANGED <<env, leaks>>
  PROVE  IInv'
<1>1. TypeOK /\ SkippedItems /\ Names /\ \E tl, sl, el : Agreement(tl, sl, el)
  BY DEF IInv
<1>2. /\ frames' = frames /\ decls' = decls /\ typedefs' = typedefs
      /\ typeContext' = typeContext /\ env' = env /\ terminated' = terminated
      /\ leaks' = leaks
  BY DEF ReferToEnum
<1> DEFINE d    == lookupType(t)
           x    == decls[d].name
           none == {}
           one  == {x}
<1>3. d # NoDecl /\ symbolTable' = IF SkipsNext THEN symbolTable ELSE Insert(symbolTable, x, d)
  BY DEF ReferToEnum, Visited
<1>4. d \in 1..Len(decls) /\ decls[d].kind = "const" /\ x \in Id
  BY <1>1, <1>3, TagIsConstant DEF Names
<1> HIDE DEF d, x
<1>5. /\ Len(decls) \in Nat /\ symbolTable \in Table(Len(decls)) /\ symbolTable # << >>
      /\ frames \in Seq(Frame) /\ Grows(decls, decls') /\ New # NoDecl
      /\ typeContext \in Table(Len(decls)) /\ env \in Table(Len(decls))
  BY <1>1, <1>2, TypeFacts DEF Grows, TypeOK
<1>6. /\ Insert(symbolTable, x, d) \in Table(Len(decls))
      /\ Inserted(Insert(symbolTable, x, d), symbolTable, one, d)
  <2>1. x \in Key /\ d \in 0..Len(decls) /\ Len(decls) <= Len(decls)
    BY <1>4, <1>5 DEF Key
  <2> QED
    BY <1>5, <2>1, InsertTable
<1>7. TypeOK'
  <2>1. symbolTable' \in Table(Len(decls')) /\ symbolTable' # << >>
    <3>1. Len(Insert(symbolTable, x, d)) = Len(symbolTable)
      BY <1>6 DEF Inserted
    <3>2. Len(symbolTable) # 0
      BY <1>1, TypeFacts
    <3>3. Insert(symbolTable, x, d) # << >>
      BY <3>1, <3>2
    <3> QED
      BY <1>2, <1>3, <1>5, <1>6, <3>3
  <2> QED
    BY <1>1, <1>2, <2>1 DEF TypeOK, Table
<1>8. Names'
  BY <1>1, <1>2 DEF Names, TagsAreOfEnums, NamesAreDeclared, TypedefsAreKnown
<1>9. /\ none \subseteq none /\ (none # none => New \in leaks'[Len(frames) + 1])
      /\ one \cap none # {} => d = New
      /\ ~SkipsNext =>
           \A y \in Id :
             \/ y \in one <=> y \in none
             \/ y \in one /\ decls'[d].kind = "const"
             \/ y \in none /\ (decls'[New].where = "typedef" \/ decls'[New].kind = "typedef")
  BY <1>2, <1>4
<1>10. /\ Inserted(typeContext', typeContext, none, New)
       /\ Inserted(env', env, none, New)
       /\ (SkipsNext => symbolTable' = symbolTable)
       /\ (~SkipsNext => Inserted(symbolTable', symbolTable, one, d))
  BY <1>2, <1>3, <1>6, UnchangedTable
<1> HIDE DEF none, one
<1>11. SkippedItems' /\ \E tl, sl, el : Agreement(tl, sl, el)'
  <2>1. (terminated => terminated') /\ LeaksGrow
    BY <1>1, <1>2, LeaksKept
  <2> QED
    BY ONLY <1>1, <1>2, <1>3, <1>5, <1>9, <1>10, <2>1, DeclareKeeps
<1> QED
  BY <1>7, <1>8, <1>11 DEF IInv

(* The tables before a declaration, and what it is entered with            *)
LEMMA DeclaringFacts ==
  ASSUME IInv, Len(decls) < MaxDecls, NEW new \in Decls, decls' = Append(decls, new)
  PROVE  /\ Len(decls) \in Nat /\ Len(decls') \in Nat /\ Len(decls) <= Len(decls')
         /\ New \in 0..Len(decls')
         /\ typeContext \in Table(Len(decls)) /\ typeContext # << >>
         /\ symbolTable \in Table(Len(decls)) /\ symbolTable # << >>
         /\ symbolTable \in Table(Len(decls'))
         /\ env \in Table(Len(decls)) /\ env # << >> /\ env \in Table(Len(decls'))
<1>1. /\ Len(decls) \in Nat
      /\ typeContext \in Table(Len(decls)) /\ typeContext # << >>
      /\ symbolTable \in Table(Len(decls)) /\ symbolTable # << >>
      /\ env \in Table(Len(decls)) /\ env # << >>
  BY TypeFacts DEF IInv, TypeOK
<1>2. Len(decls') = Len(decls) + 1 /\ New \in 0..Len(decls')
  BY OneMore DEF IInv
<1>3. Len(decls') \in Nat /\ Len(decls) <= Len(decls')
  BY <1>1, <1>2
<1> QED
  BY <1>1, <1>2, <1>3, TableGrows

LEMMA IntroduceTable ==
  ASSUME IInv, Len(decls) < MaxDecls, NEW new \in Decls, decls' = Append(decls, new),
         NEW keys, C!Introduce(keys, New)
  PROVE  env' \in Table(Len(decls')) /\ Inserted(env', env, keys, New)
<1>1. env' = PutIn(env, keys, New)
  BY DEF C!Introduce, PutIn
<1>2. PutIn(env, keys, New) \in Table(Len(decls')) /\ Inserted(PutIn(env, keys, New), env, keys, New)
  BY DeclaringFacts, InsertedTable
<1> QED
  BY <1>1, <1>2

(* A declaration of a single name, of which the code generator may know    *)
(* nothing, and C neither if it is inside another declarator.              *)
LEMMA DeclareNameKeeps ==
  ASSUME IInv, Len(decls) < MaxDecls, NEW x \in Id, NEW new \in Decls, new.name = x,
         decls' = Append(decls, new), frames' = frames, terminated' = terminated,
         typeContext' = Insert(typeContext, x, New),
         \/ /\ new.kind = "object" /\ new.where = "item" /\ typedefs' = typedefs
            /\ Visited(Insert(symbolTable, x, New)) /\ C!Introduce({x}, New)
            /\ leaks' = leaks
         \/ /\ new.kind = "typedef" /\ typedefs' = typedefs \cup {x}
            /\ symbolTable' = symbolTable /\ C!Introduce({x}, New) /\ leaks' = leaks
         \/ /\ new.kind = "object" /\ new.where = "inner" /\ typedefs' = typedefs
            /\ symbolTable' = symbolTable /\ env' = env /\ leaks' = LeaksHere({New})
  PROVE  IInv'
<1> DEFINE one  == {x}
           none == {}
<1>1. /\ Len(decls) \in Nat /\ Len(decls') \in Nat /\ Len(decls) <= Len(decls')
      /\ New \in 0..Len(decls')
      /\ typeContext \in Table(Len(decls)) /\ typeContext # << >>
      /\ symbolTable \in Table(Len(decls)) /\ symbolTable # << >>
      /\ symbolTable \in Table(Len(decls'))
      /\ env \in Table(Len(decls)) /\ env # << >> /\ env \in Table(Len(decls'))
  BY DeclaringFacts
<1>2. x \in Key /\ x \notin Tag /\ one \subseteq one /\ none \subseteq one
  BY TagsAreNotIds DEF Key
<1>3. /\ typeContext' \in Table(Len(decls')) /\ Inserted(typeContext', typeContext, one, New)
      /\ Insert(symbolTable, x, New) \in Table(Len(decls'))
      /\ Inserted(Insert(symbolTable, x, New), symbolTable, one, New)
  BY <1>1, <1>2, InsertTable
<1>4. typedefs \subseteq Id /\ typedefs \cup {x} \subseteq Id
  BY DEF IInv, TypeOK
<1>5. C!Introduce(one, New) => env' \in Table(Len(decls')) /\ Inserted(env', env, one, New)
  BY IntroduceTable
<1>6. Inserted(symbolTable, symbolTable, none, New) /\ Inserted(env, env, none, New)
  BY UnchangedTable
<1>7. /\ \A t \in Tag : t \in one => new.kind = "const"
      /\ \A y \in Id : y \in one => new.name = y
      /\ \A y \in Id : y \in none => new.name = y
  BY <1>2
<1>8. /\ IInv /\ Len(decls) < MaxDecls /\ new \in Decls /\ decls' = Append(decls, new)
      /\ frames' = frames /\ terminated' = terminated
  OBVIOUS
<1>9. CASE /\ new.kind = "object" /\ new.where = "item" /\ typedefs' = typedefs
           /\ Visited(Insert(symbolTable, x, New)) /\ C!Introduce(one, New)
           /\ leaks' = leaks
  <2>1. /\ typedefs \subseteq typedefs' /\ typedefs' \subseteq Id
        /\ (new.kind = "typedef" => new.name \in typedefs')
        /\ one \subseteq one /\ (one # one => New \in leaks'[Len(frames) + 1])
        /\ \A y \in Id : \/ y \in one <=> y \in one
                         \/ y \in one /\ (new.where = "typedef" \/ new.kind = "typedef")
        /\ LeaksGrow
    BY <1>4, <1>8, <1>9, LeaksKept DEF IInv
  <2>2. env' \in Table(Len(decls')) /\ Inserted(env', env, one, New)
    BY <1>5, <1>9
  <2>3. /\ symbolTable' \in Table(Len(decls'))
        /\ (SkipsNext => symbolTable' = symbolTable)
        /\ (~SkipsNext => Inserted(symbolTable', symbolTable, one, New))
    BY <1>1, <1>3, <1>9 DEF Visited
  <2> HIDE DEF one
  <2> QED
    BY ONLY <1>3, <1>7, <1>8, <2>1, <2>2, <2>3, DeclareStep
<1>10. CASE /\ new.kind = "typedef" /\ typedefs' = typedefs \cup {x}
            /\ symbolTable' = symbolTable /\ C!Introduce(one, New) /\ leaks' = leaks
  <2>1. /\ typedefs \subseteq typedefs' /\ typedefs' \subseteq Id
        /\ (new.kind = "typedef" => new.name \in typedefs')
        /\ one \subseteq one /\ (one # one => New \in leaks'[Len(frames) + 1])
        /\ \A y \in Id : \/ y \in none <=> y \in one
                         \/ y \in one /\ (new.where = "typedef" \/ new.kind = "typedef")
        /\ LeaksGrow
    BY <1>4, <1>8, <1>10, LeaksKept DEF IInv
  <2>2. env' \in Table(Len(decls')) /\ Inserted(env', env, one, New)
    BY <1>5, <1>10
  <2>3. /\ symbolTable' \in Table(Len(decls'))
        /\ (SkipsNext => symbolTable' = symbolTable)
        /\ (~SkipsNext => Inserted(symbolTable', symbolTable, none, New))
    BY <1>1, <1>6, <1>10
  <2> HIDE DEF one, none
  <2> QED
    BY ONLY <1>3, <1>7, <1>8, <2>1, <2>2, <2>3, DeclareStep
<1>11. CASE /\ new.kind = "object" /\ new.where = "inner" /\ typedefs' = typedefs
            /\ symbolTable' = symbolTable /\ env' = env /\ leaks' = LeaksHere({New})
  <2>1. /\ typedefs \subseteq typedefs' /\ typedefs' \subseteq Id
        /\ (new.kind = "typedef" => new.name \in typedefs')
        /\ none \subseteq one
        /\ \A y \in Id : \/ y \in none <=> y \in none
                         \/ y \in none /\ (new.where = "typedef" \/ new.kind = "typedef")
    BY <1>4, <1>11
  <2>4. LeaksGrow /\ (none # one => New \in leaks'[Len(frames) + 1])
    <3> DEFINE leak == {New}
    <3>1. /\ TypeOK /\ frames' = frames /\ leak \in SUBSET Nat /\ New \in leak
          /\ leaks' = LeaksHere(leak)
      BY <1>8, <1>11, TypeFacts DEF IInv
    <3> HIDE DEF leak
    <3>2. LeaksGrow /\ leak \subseteq leaks'[Len(frames) + 1]
      BY ONLY <3>1, LeaksDeclared
    <3> QED
      BY <3>1, <3>2
  <2>2. env' \in Table(Len(decls')) /\ Inserted(env', env, none, New)
    BY <1>1, <1>6, <1>11
  <2>3. /\ symbolTable' \in Table(Len(decls'))
        /\ (SkipsNext => symbolTable' = symbolTable)
        /\ (~SkipsNext => Inserted(symbolTable', symbolTable, none, New))
    BY <1>1, <1>6, <1>11
  <2> HIDE DEF one, none
  <2> QED
    BY ONLY <1>3, <1>7, <1>8, <2>1, <2>2, <2>3, <2>4, DeclareStep
<1> QED
  BY <1>9, <1>10, <1>11

(* An enum: its tag and its constant, the tag in no table of the code      *)
(* generator, and the constant neither if the enum is within a typedef.    *)
LEMMA DefineEnumKeeps ==
  ASSUME IInv, Len(decls) < MaxDecls, NEW x \in Id, NEW t \in Tag, NEW new \in Decls,
         new.name = x, new.kind = "const",
         decls' = Append(decls, new), frames' = frames, terminated' = terminated,
         typedefs' = typedefs, leaks' = leaks,
         typeContext' = Insert(Insert(typeContext, x, New), t, New),
         \/ Visited(Insert(symbolTable, x, New))
         \/ new.where = "typedef" /\ symbolTable' = symbolTable,
         C!Introduce({t, x}, New)
  PROVE  IInv'
<1> DEFINE both == {t, x}
           one  == {x}
           none == {}
<1>1. /\ Len(decls) \in Nat /\ Len(decls') \in Nat /\ Len(decls) <= Len(decls')
      /\ New \in 0..Len(decls')
      /\ typeContext \in Table(Len(decls)) /\ typeContext # << >>
      /\ symbolTable \in Table(Len(decls)) /\ symbolTable # << >>
      /\ symbolTable \in Table(Len(decls'))
  BY DeclaringFacts
<1>2. x \in Key /\ t \in Key /\ t \notin Id /\ x \notin Tag
  BY TagsAreNotIds DEF Key
<1>3. typeContext' \in Table(Len(decls')) /\ Inserted(typeContext', typeContext, both, New)
  BY <1>1, <1>2, InsertTwo
<1>4. /\ Insert(symbolTable, x, New) \in Table(Len(decls'))
      /\ Inserted(Insert(symbolTable, x, New), symbolTable, one, New)
      /\ Inserted(symbolTable, symbolTable, none, New)
  BY <1>1, <1>2, InsertTable, UnchangedTable
<1>5. env' \in Table(Len(decls')) /\ Inserted(env', env, both, New)
  <2> HIDE DEF both
  <2>1. C!Introduce(both, New)
    BY DEF both
  <2> QED
    BY <2>1, IntroduceTable
<1>6. /\ IInv /\ Len(decls) < MaxDecls /\ new \in Decls /\ decls' = Append(decls, new)
      /\ frames' = frames /\ terminated' = terminated
      /\ typedefs \subseteq typedefs' /\ typedefs' \subseteq Id
      /\ (new.kind = "typedef" => new.name \in typedefs')
      /\ both \subseteq both /\ (both # both => New \in leaks'[Len(frames) + 1])
      /\ LeaksGrow
  BY LeaksKept DEF IInv, TypeOK
<1>7. /\ \A u \in Tag : u \in both => new.kind = "const"
      /\ \A y \in Id : y \in both => new.name = y
  BY <1>2
<1>8. CASE Visited(Insert(symbolTable, x, New))
  <2>1. \A y \in Id : \/ y \in one <=> y \in both
                      \/ y \in both /\ (new.where = "typedef" \/ new.kind = "typedef")
    BY <1>2
  <2>2. /\ symbolTable' \in Table(Len(decls'))
        /\ (SkipsNext => symbolTable' = symbolTable)
        /\ (~SkipsNext => Inserted(symbolTable', symbolTable, one, New))
    BY <1>1, <1>4, <1>8 DEF Visited
  <2> HIDE DEF both, one
  <2> QED
    BY ONLY <1>3, <1>5, <1>6, <1>7, <2>1, <2>2, DeclareStep
<1>9. CASE new.where = "typedef" /\ symbolTable' = symbolTable
  <2>1. \A y \in Id : \/ y \in none <=> y \in both
                      \/ y \in both /\ (new.where = "typedef" \/ new.kind = "typedef")
    BY <1>9
  <2>2. /\ symbolTable' \in Table(Len(decls'))
        /\ (SkipsNext => symbolTable' = symbolTable)
        /\ (~SkipsNext => Inserted(symbolTable', symbolTable, none, New))
    BY <1>1, <1>4, <1>9
  <2> HIDE DEF both, none
  <2> QED
    BY ONLY <1>3, <1>5, <1>6, <1>7, <2>1, <2>2, DeclareStep
<1> QED
  BY <1>8, <1>9

-----------------------------------------------------------------------------
(* The invariant                                                           *)

LEMMA InitialIInv == CheckInit => IInv
<1> SUFFICES ASSUME CheckInit
             PROVE  IInv
  OBVIOUS
<1>1. /\ frames = << >> /\ decls = << >> /\ terminated = FALSE /\ typedefs = {}
      /\ typeContext = <<NoScope>> /\ symbolTable = <<NoScope>> /\ env = <<NoScope>>
      /\ leaks = <<{}>>
  BY DEF CheckInit, Init
<1>2. NoScope \in [Key -> 0..0]
  BY DEF NoScope, NoDecl
<1> DEFINE one == <<NoScope>>
<1>3. one \in Seq([Key -> 0..0]) /\ one # << >> /\ Len(one) = 1 /\ one[1] = NoScope
  BY <1>2
<1>4. Len(decls) = 0 /\ Len(frames) = 0 /\ decls \in Seq(Decls)
  BY <1>1
<1>5. TypeOK
  <2>1. frames \in Seq([kind : {"fn", "block", "for", "switch"}, skipped : BOOLEAN])
    BY <1>1
  <2>2. Len(decls) <= MaxDecls
    BY <1>4, BoundsAreNat
  <2> HIDE DEF one
  <2>3. typeContext = one /\ symbolTable = one /\ env = one
    BY <1>1 DEF one
  <2>4. leaks \in Seq(SUBSET Nat) /\ Len(leaks) = Len(frames) + 1
    BY <1>1, <1>4
  <2> QED
    BY <1>1, <1>3, <1>4, <2>1, <2>2, <2>3, <2>4 DEF TypeOK
<1>6. SkippedItems
  BY <1>4 DEF SkippedItems
<1>7. \A k \in Key : NoScope[k] = NoDecl
  BY DEF NoScope
<1>8. Names
  <2>1. /\ \A i \in 1..Len(typeContext), t \in Tag : typeContext[i][t] = NoDecl
        /\ \A i \in 1..Len(env), x \in Id : env[i][x] = NoDecl
    BY <1>1, <1>3, <1>7 DEF Key
  <2> QED
    BY <1>4, <2>1 DEF Names, TagsAreOfEnums, NamesAreDeclared, TypedefsAreKnown
<1> DEFINE level == [i \in 0..0 |-> 1]
<1>9. /\ Levels(level, frames, TypeScopes, Len(typeContext))
      /\ Levels(level, frames, SymbolScopes, Len(symbolTable))
      /\ Levels(level, frames, CScopes, Len(env))
  BY <1>1, <1>3, <1>4 DEF Levels
<1>10. \A k \in Key : Within(one, 1, k) = NoDecl
  <2>1. \A k \in Key : {i \in 1..1 : one[i][k] # NoDecl} = {}
    BY <1>3, <1>7
  <2> QED
    BY <2>1 DEF Within
<1>11. \A i \in 0..Len(frames) :
         /\ TypesAgree(leaks[i + 1], typeContext, level[i], env, level[i])
         /\ SymbolsAgree(decls, symbolTable, level[i], env, level[i])
  <2>1. \A i \in 0..Len(frames) : level[i] = 1
    BY <1>4
  <2> HIDE DEF one, level
  <2>2. typeContext = one /\ symbolTable = one /\ env = one
    BY <1>1 DEF one
  <2>3. /\ \A L : TypesAgree(L, one, 1, one, 1)
        /\ SymbolsAgree(decls, one, 1, one, 1)
    BY <1>10 DEF TypesAgree, SymbolsAgree, Harmless
  <2> QED
    BY <2>1, <2>2, <2>3
<1>12. Agreement(level, level, level)
  BY <1>9, <1>11 DEF Agreement
<1> QED
  BY <1>5, <1>6, <1>8, <1>12 DEF IInv

LEMMA NextKeepsIInv ==
  ASSUME IInv, CheckNext
  PROVE  IInv'
<1>0. TypeOK /\ SkippedItems /\ terminated \in BOOLEAN
  BY DEF IInv, TypeOK
<1>01. /\ SkipsNext => terminated
       /\ InFunction => (Top.skipped => Skipping /\ terminated)
  <2>1. InFunction => Top = frames[Len(frames)] /\ Len(frames) \in 1..Len(frames)
    BY TopHasScopes DEF Top
  <2>2. InFunction => (Top.skipped => Skipping /\ terminated)
    BY <1>0, <2>1 DEF SkippedItems, Skipping
  <2> QED
    BY <1>0, <2>2, SkippingIsTerminated
<1>1. ASSUME NEW params \in {{}} \cup {{x} : x \in Id},
             EnterFnDef(params) /\ C!Open(<<C!Declaring(params, New)>>) /\ EnterItem({})
      PROVE  IInv'
  BY <1>1, EnterFnDefKeeps
<1>2. CASE ExitFnDef /\ C!Close(1) /\ LeaveItem
  BY <1>2, ExitFnDefKeeps
<1>3. CASE EnterCompoundStmt /\ C!Open(<<NoScope>>) /\ EnterItem({})
  BY <1>0, <1>01, <1>3, EnterBlockKeeps DEF EnterCompoundStmt, CanEnter
<1>4. CASE ExitCompoundStmt /\ C!Close(1) /\ LeaveItem
  <2>1. InFunction
    BY <1>4 DEF ExitCompoundStmt, Leave
  <2> QED
    BY <1>0, <1>01, <1>4, <2>1, ExitBlockKeeps DEF ExitCompoundStmt
<1>5. CASE EnterSwitch /\ C!Open(<<NoScope>>) /\ EnterItem({})
  <2>1. terminated' = (terminated \/ ~SkipsNext)
    BY <1>5 DEF EnterSwitch
  <2>2. terminated' \in BOOLEAN /\ (SkipsNext => terminated')
    BY <1>01, <2>1
  <2> QED
    BY <1>5, <2>2, EnterBlockKeeps DEF EnterSwitch, CanEnter
<1>6. CASE ExitSwitch /\ C!Close(1) /\ LeaveItem
  <2>1. InFunction /\ terminated' = (terminated /\ Skipping)
    BY <1>6 DEF ExitSwitch, Leave, FreshBlock
  <2>2. terminated' \in BOOLEAN /\ (Top.skipped => terminated')
    BY <1>01, <2>1
  <2> QED
    BY <1>6, <2>2, ExitBlockKeeps DEF ExitSwitch
<1>7. ASSUME NEW x \in Id,
             EnterFor(x) /\ C!Open(<<C!Declaring({x}, New), NoScope>>) /\ EnterItem({New})
      PROVE  IInv'
  BY <1>7, EnterForKeeps
<1>8. CASE ExitFor /\ C!Close(2) /\ LeaveItem
  BY <1>8, ExitForKeeps
<1>9. CASE Return /\ UNCHANGED <<env, leaks>>
  BY <1>9, ReturnKeeps
<1>10. ASSUME NEW x \in Id, Declare(x) /\ C!Introduce({x}, New) /\ UNCHANGED leaks
       PROVE  IInv'
  <2> DEFINE new == Declaration(x, "object", "item")
  <2>1. new \in Decls /\ new.name = x /\ new.kind = "object" /\ new.where = "item"
    BY DEF Declaration, Decls
  <2>2. /\ Len(decls) < MaxDecls /\ decls' = Append(decls, new)
        /\ frames' = frames /\ terminated' = terminated /\ typedefs' = typedefs
        /\ typeContext' = Insert(typeContext, x, New)
        /\ Visited(Insert(symbolTable, x, New))
    BY <1>10 DEF Declare, CanDeclare
  <2> HIDE DEF new
  <2> QED
    BY <1>10, <2>1, <2>2, DeclareNameKeeps
<1>11. ASSUME NEW x \in Id, DeclareTypedef(x) /\ C!Introduce({x}, New) /\ UNCHANGED leaks
       PROVE  IInv'
  <2> DEFINE new == Declaration(x, "typedef", "item")
  <2>1. new \in Decls /\ new.name = x /\ new.kind = "typedef"
    BY DEF Declaration, Decls
  <2>2. /\ Len(decls) < MaxDecls /\ decls' = Append(decls, new)
        /\ frames' = frames /\ terminated' = terminated /\ typedefs' = typedefs \cup {x}
        /\ typeContext' = Insert(typeContext, x, New) /\ symbolTable' = symbolTable
    BY <1>11 DEF DeclareTypedef, CanDeclare
  <2> HIDE DEF new
  <2> QED
    BY <1>11, <2>1, <2>2, DeclareNameKeeps
<1>12. ASSUME NEW x \in Id, InnerFnDecl(x) /\ UNCHANGED env /\ leaks' = LeaksHere({New})
       PROVE  IInv'
  <2> DEFINE new == Declaration(x, "object", "inner")
  <2>1. new \in Decls /\ new.name = x /\ new.kind = "object" /\ new.where = "inner"
    BY DEF Declaration, Decls
  <2>2. /\ Len(decls) < MaxDecls /\ decls' = Append(decls, new)
        /\ frames' = frames /\ terminated' = terminated /\ typedefs' = typedefs
        /\ typeContext' = Insert(typeContext, x, New) /\ symbolTable' = symbolTable
    BY <1>12 DEF InnerFnDecl, CanDeclare
  <2> HIDE DEF new
  <2> QED
    BY <1>12, <2>1, <2>2, DeclareNameKeeps
<1>13. ASSUME NEW t \in Tag, NEW x \in Id,
              DefineEnum(t, x) /\ C!Introduce({t, x}, New) /\ UNCHANGED leaks
       PROVE  IInv'
  <2> DEFINE new == Declaration(x, "const", "item")
  <2>1. new \in Decls /\ new.name = x /\ new.kind = "const"
    BY DEF Declaration, Decls
  <2>2. /\ Len(decls) < MaxDecls /\ decls' = Append(decls, new)
        /\ frames' = frames /\ terminated' = terminated /\ typedefs' = typedefs
        /\ typeContext' = Insert(Insert(typeContext, x, New), t, New)
        /\ Visited(Insert(symbolTable, x, New))
    BY <1>13 DEF DefineEnum, CanDeclare
  <2> HIDE DEF new
  <2> QED
    BY <1>13, <2>1, <2>2, DefineEnumKeeps
<1>14. ASSUME NEW t \in Tag, NEW x \in Id,
              DefineEnumInTypedef(t, x) /\ C!Introduce({t, x}, New) /\ UNCHANGED leaks
       PROVE  IInv'
  <2> DEFINE new == Declaration(x, "const", "typedef")
  <2>1. new \in Decls /\ new.name = x /\ new.kind = "const" /\ new.where = "typedef"
    BY DEF Declaration, Decls
  <2>2. /\ Len(decls) < MaxDecls /\ decls' = Append(decls, new)
        /\ frames' = frames /\ terminated' = terminated /\ typedefs' = typedefs
        /\ typeContext' = Insert(Insert(typeContext, x, New), t, New)
        /\ symbolTable' = symbolTable
    BY <1>14 DEF DefineEnumInTypedef, CanDeclare
  <2> HIDE DEF new
  <2> QED
    BY <1>14, <2>1, <2>2, DefineEnumKeeps
<1>15. ASSUME NEW t \in Tag, ReferToEnum(t) /\ UNCHANGED <<env, leaks>>
       PROVE  IInv'
  BY <1>15, ReferToEnumKeeps
<1>16. CASE \E x \in Id :
              \/ Declare(x) /\ C!Introduce({x}, New) /\ UNCHANGED leaks
              \/ DeclareTypedef(x) /\ C!Introduce({x}, New) /\ UNCHANGED leaks
              \/ InnerFnDecl(x) /\ UNCHANGED env /\ leaks' = LeaksHere({New})
  BY ONLY <1>10, <1>11, <1>12, <1>16
<1>17. CASE \E t \in Tag, x \in Id :
              \/ DefineEnum(t, x) /\ C!Introduce({t, x}, New) /\ UNCHANGED leaks
              \/ DefineEnumInTypedef(t, x) /\ C!Introduce({t, x}, New) /\ UNCHANGED leaks
  BY ONLY <1>13, <1>14, <1>17
<1>18. CASE \E params \in {{}} \cup {{x} : x \in Id} :
              EnterFnDef(params) /\ C!Open(<<C!Declaring(params, New)>>) /\ EnterItem({})
  BY ONLY <1>1, <1>18
<1>19. CASE \E x \in Id :
              EnterFor(x) /\ C!Open(<<C!Declaring({x}, New), NoScope>>) /\ EnterItem({New})
  BY ONLY <1>7, <1>19
<1>20. CASE \E t \in Tag : ReferToEnum(t) /\ UNCHANGED <<env, leaks>>
  BY ONLY <1>15, <1>20
<1> QED
  BY <1>2, <1>3, <1>4, <1>5, <1>6, <1>8, <1>9, <1>16, <1>17, <1>18, <1>19, <1>20
     DEF CheckNext

LEMMA StutterKeepsIInv ==
  ASSUME IInv, UNCHANGED <<vars, env, leaks>>
  PROVE  IInv'
<1>1. /\ frames' = frames /\ decls' = decls /\ terminated' = terminated
      /\ typedefs' = typedefs /\ typeContext' = typeContext
      /\ symbolTable' = symbolTable /\ env' = env /\ leaks' = leaks
  BY DEF vars
<1>2. TypeOK' /\ SkippedItems' /\ Names'
  <2>1. TypeOK /\ SkippedItems /\ Names
    BY DEF IInv
  <2>2. TypeOK'
    BY <1>1, <2>1 DEF TypeOK
  <2>3. SkippedItems'
    BY <1>1, <2>1 DEF SkippedItems
  <2>4. Names'
    BY <1>1, <2>1 DEF Names, TagsAreOfEnums, NamesAreDeclared, TypedefsAreKnown
  <2> QED
    BY <2>2, <2>3, <2>4
<1>3. PICK tl, sl, el : Agreement(tl, sl, el)
  BY DEF IInv
<1>4. Agreement(tl, sl, el)'
  BY <1>1, <1>3 DEF Agreement, Visits, SkipsNext, Skipping, InFunction, Top, SwitchOpen
<1> QED
  BY <1>2, <1>4 DEF IInv

THEOREM Invariance == CheckSpec => []IInv
<1>1. IInv /\ [CheckNext]_<<vars, env, leaks>> => IInv'
  BY NextKeepsIInv, StutterKeepsIInv
<1> QED
  BY InitialIInv, <1>1, PTL DEF CheckSpec

-----------------------------------------------------------------------------
(* Theorems                                                                *)

LEMMA MeaningIsWithin ==
  ASSUME TypeOK, NEW k \in Key
  PROVE  /\ C!Meaning(k) = Within(env, Len(env), k)
         /\ C!Meaning(k) = NoDecl \/ \E i \in 1..Len(env) :
                                       env[i][k] = C!Meaning(k) /\ env[i][k] # NoDecl
         /\ C!Meaning(k) \in 0..Len(decls)
<1>1. C!Meaning(k) = Within(env, Len(env), k)
  BY DEF C!Meaning, C!Max, Within, Max
<1>2. Len(decls) \in Nat /\ env \in Table(Len(decls)) /\ Len(env) \in Nat
  BY TypeFacts
<1>3. Len(env) \in 0..Len(env)
  BY <1>2
<1> QED
  BY <1>1, <1>2, <1>3, WithinIsInnermost, WithinIsDeclared

(* The levels of all items that are open, and so of the whole tables       *)
LEMMA AgreementAtTop ==
  ASSUME IInv
  PROVE  /\ TypesAgree(leaks[Len(leaks)], typeContext, Len(typeContext), env, Len(env))
         /\ ~SkipsNext => SymbolsAgree(decls, symbolTable, Len(symbolTable), env, Len(env))
         /\ ~InFunction => Len(typeContext) = 1 /\ Len(symbolTable) = 1 /\ Len(env) = 1
<1>1. PICK tl, sl, el : Agreement(tl, sl, el)
  BY DEF IInv
<1>2. /\ Len(frames) \in Nat /\ (frames # << >> <=> Len(frames) # 0)
      /\ Len(leaks) = Len(frames) + 1
  BY TypeFacts DEF IInv
<1>3. /\ tl[Len(frames)] = Len(typeContext) /\ sl[Len(frames)] = Len(symbolTable)
      /\ el[Len(frames)] = Len(env) /\ tl[0] = 1 /\ sl[0] = 1 /\ el[0] = 1
  BY <1>1 DEF Agreement, Levels
<1>4. Len(frames) \in 0..Len(frames) /\ (~SkipsNext => Visits(Len(frames)))
  BY <1>2 DEF Visits
<1>5. /\ TypesAgree(leaks[Len(leaks)], typeContext, tl[Len(frames)], env, el[Len(frames)])
      /\ ~SkipsNext => SymbolsAgree(decls, symbolTable, sl[Len(frames)], env, el[Len(frames)])
  BY <1>1, <1>2, <1>4 DEF Agreement
<1>6. ~InFunction => Len(frames) = 0
  BY <1>2 DEF InFunction
<1> QED
  BY <1>3, <1>5, <1>6

(* Every table of the passes is a non-empty stack of scopes whose entries  *)
(* are declarations of the program, however the items are nested.          *)
THEOREM TypeCorrect == CheckSpec => []TypeOK
<1>1. IInv => TypeOK
  BY DEF IInv
<1> QED
  BY <1>1, Invariance, PTL

(* TypeChecker::lookupType finds the declaration that is visible in C for  *)
(* every identifier and tag of every program, but for the variables of for *)
(* statements and the names of inner function declarators, and for those   *)
(* only until the item ends in which they stand.                           *)
THEOREM TypesAreThoseOfC == CheckSpec => []TypesFollowCButForLeaks
<1>1. ASSUME IInv
      PROVE  TypesFollowCButForLeaks
  <2> SUFFICES ASSUME NEW k \in Key
               PROVE  \/ lookupType(k) = C!Meaning(k)
                      \/ lookupType(k) \in leaks[Len(leaks)]
    BY DEF TypesFollowCButForLeaks
  <2>1. lookupType(k) = Within(typeContext, Len(typeContext), k)
    BY DEF lookupType, Lookup, Within
  <2>2. C!Meaning(k) = Within(env, Len(env), k)
    BY <1>1, MeaningIsWithin DEF IInv
  <2> QED
    BY <1>1, <2>1, <2>2, AgreementAtTop DEF TypesAgree
<1> QED
  BY <1>1, Invariance, PTL

(* Where code is emitted, CodeGenModule::symbolTableLookup finds the       *)
(* declaration that is visible in C, whatever BlockItemList has skipped,   *)
(* but for the constants and typedefs that visitors of enums and typedefs  *)
(* bring back or leave out.                                                *)
THEOREM SymbolsAreThoseOfC == CheckSpec => []SymbolsFollowCButForEnums
<1>1. ASSUME IInv
      PROVE  SymbolsFollowCButForEnums
  <2> SUFFICES ASSUME ~SkipsNext, NEW x \in Id
               PROVE  \/ symbolTableLookup(x) = C!Meaning(x)
                      \/ IsA("const", symbolTableLookup(x))
                      \/ DeclaredIn("typedef", C!Meaning(x))
                      \/ IsA("typedef", C!Meaning(x))
    BY DEF SymbolsFollowCButForEnums
  <2>1. symbolTableLookup(x) = Within(symbolTable, Len(symbolTable), x)
    BY DEF symbolTableLookup, Lookup, Within
  <2>2. C!Meaning(x) = Within(env, Len(env), x)
    BY <1>1, MeaningIsWithin DEF IInv, Key
  <2>3. Harmless(decls, symbolTableLookup(x), C!Meaning(x))
    BY <1>1, <2>1, <2>2, AgreementAtTop DEF SymbolsAgree
  <2> QED
    BY <2>3 DEF Harmless, DeclaredIn, IsA
<1> QED
  BY <1>1, Invariance, PTL

(* The set of typedef names that the parser keeps for the lexer has every  *)
(* name that is a typedef name in C, in whatever scope it was declared.    *)
THEOREM TheLexerKnowsTypedefs == CheckSpec => []TypedefNamesAreKnown
<1>1. ASSUME IInv
      PROVE  TypedefNamesAreKnown
  <2> SUFFICES ASSUME NEW x \in Id, IsA("typedef", C!Meaning(x))
               PROVE  x \in typedefs
    BY DEF TypedefNamesAreKnown
  <2>1. C!Meaning(x) # NoDecl /\ decls[C!Meaning(x)].kind = "typedef"
    BY DEF IsA
  <2>2. /\ \E i \in 1..Len(env) : env[i][x] = C!Meaning(x) /\ env[i][x] # NoDecl
        /\ C!Meaning(x) \in 0..Len(decls)
    BY <1>1, <2>1, MeaningIsWithin DEF IInv, Key
  <2>3. decls[C!Meaning(x)].name = x
    BY <1>1, <2>2 DEF IInv, Names, NamesAreDeclared
  <2>4. C!Meaning(x) \in 1..Len(decls)
    <3>1. Len(decls) \in Nat
      BY <1>1, TypeFacts DEF IInv
    <3> QED
      BY <2>1, <2>2, <3>1 DEF NoDecl
  <2> QED
    BY <1>1, <2>1, <2>3, <2>4 DEF IInv, Names, TypedefsAreKnown
<1> QED
  BY <1>1, Invariance, PTL

(* Every scope that a visitor has pushed is popped again: between          *)
(* functions each table has the scope of the file only.                    *)
THEOREM ScopesAreBalanced == CheckSpec => []FileScopeIsRestored
<1>1. IInv => FileScopeIsRestored
  BY AgreementAtTop DEF FileScopeIsRestored
<1> QED
  BY <1>1, Invariance, PTL

=============================================================================
