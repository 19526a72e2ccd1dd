---------------------------- MODULE StructProofs ----------------------------
(***************************************************************************)
(* That the type checker gives two declarations the same identity exactly  *)
(* when C gives them the same structure, but for the departures that       *)
(* StructCheck names, for any tags, any number of items and any nesting of *)
(* scopes.                                                                 *)
(*                                                                         *)
(* The argument is about pairs of a structure of C and an identity: those  *)
(* of the entries of the two stacks of scopes, of the variables and of the *)
(* nodes.  Every item adds a pair or two, and each pair fits those that    *)
(* are there.                                                              *)
(*                                                                         *)
(* From what the type checker leaves at the nodes it follows that the code *)
(* generator finds for an allocation or an access the type that it made    *)
(* for the identity, for any set of tags that are fully visited: the       *)
(* argument there is about its two tables, the identities of each tag and  *)
(* the types by name.                                                      *)
(***************************************************************************)
EXTENDS StructCheck, SequenceTheorems, FiniteSetTheorems, WellFoundedInduction, TLAPS

Stack(n) == Seq([Tag -> 0..n])

(* The structure that a tag stands for in a scope, and its identity        *)
Entered(context, i) == {t \in Tag : context[i][t] # None}

LivePairs(context, structs) ==
  UNION {{<<structs[i][t], context[i][t]>> : t \in Entered(context, i)} :
             i \in DOMAIN context}

(* The structures of some nodes or variables, and their identities         *)
Pairs(structs, items) == {<<structs[i], items[i].id>> : i \in DOMAIN items}

(* One identity for a structure and one structure for an identity, unless  *)
(* the structure is one of D.                                              *)
Matched(R, D) == \A p, q \in R : p[1] \notin D => (p[1] = q[1] <=> p[2] = q[2])

(* The structures of C are complete, those of M have members.              *)
Completed(R, D, C, M) == \A p \in R : p[1] \notin D => (p[1] \in C <=> p[2] \in M)

GivenOut(R, k, m) == \A p \in R : p[1] \in 1..k /\ p[2] \in 1..m - 1

(* The pairs R are of k structures and of the identities before m.         *)
Related(R, D, k, m, C, M) ==
  /\ k \in Nat /\ m \in Nat \ {0}
  /\ C \subseteq 1..k /\ M \subseteq 1..m - 1
  /\ Matched(R, D) /\ GivenOut(R, k, m) /\ Completed(R, D, C, M)

(* A scope has the tags that it has in C, but for those that a mention     *)
(* declares, which it does only for a tag that is not visible.             *)
Aligned(context, structs, D) ==
  /\ Len(structs) = Len(context) /\ Len(context) > 0
  /\ \A i \in 1..Len(context), t \in Tag :
       /\ context[i][t] # None => structs[i][t] # None
       /\ structs[i][t] # None /\ context[i][t] = None =>
            /\ structs[i][t] \in D
            /\ \A j \in 1..i - 1 : structs[j][t] = None

(* The scopes, and P, the pairs elsewhere                                  *)
Sound(context, structs, P, D, k, m, C, M) ==
  /\ context \in Stack(m - 1) /\ structs \in Stack(k)
  /\ Aligned(context, structs, D)
  /\ Related(LivePairs(context, structs) \cup P, D, k, m, C, M)

Node == [op : {"forward", "pointer", "object", "access"}, tag : Tag, id : Nat]
  \cup [op : {"define", "typedef"}, tag : Tag, id : Nat, member : Members, memberID : Nat]

Entry == [tag : Tag, id : Nat, depth : Nat]

Remembered == Pairs(held, variables) \cup Pairs(meant, nodes)

Checking ==
  /\ Sound(typeContext, scope, Remembered, departed, structures, nextID, complete, structMap)
  /\ nodes \in Seq(Node) /\ meant \in Seq(Nat) /\ Len(meant) = Len(nodes)
  /\ variables \in Seq(Entry) /\ held \in Seq(Nat) /\ Len(held) = Len(variables)

IInv ==
  /\ pc = "check" => Checking
  /\ Matched(Pairs(meant, nodes), departed)
  /\ NothingIsRejectedButForDepartures

-----------------------------------------------------------------------------
(* Pairs that are added                                                    *)

LEMMA FewerPairs ==
  ASSUME NEW R, NEW D, NEW k, NEW m, NEW C, NEW M, NEW R2,
         Related(R, D, k, m, C, M), R2 \subseteq R
  PROVE  Related(R2, D, k, m, C, M)
<1>1. Matched(R2, D)
  BY DEF Related, Matched
<1>2. GivenOut(R2, k, m)
  BY DEF Related, GivenOut
<1>3. Completed(R2, D, C, M)
  BY DEF Related, Completed
<1> QED
  BY <1>1, <1>2, <1>3 DEF Related

LEMMA MoreDepartures ==
  ASSUME NEW R, NEW D, NEW k, NEW m, NEW C, NEW M, NEW D2,
         Related(R, D, k, m, C, M), D \subseteq D2
  PROVE  Related(R, D2, k, m, C, M)
<1>1. Matched(R, D2)
  BY DEF Related, Matched
<1>2. Completed(R, D2, C, M)
  BY DEF Related, Completed
<1> QED
  BY <1>1, <1>2 DEF Related

(* A new structure with a new identity                                     *)
LEMMA NewPair ==
  ASSUME NEW R, NEW D, NEW k, NEW m, NEW C, NEW M, Related(R, D, k, m, C, M)
  PROVE  Related(R \cup {<<k + 1, m>>}, D, k + 1, m + 1, C, M)
<1> DEFINE p == <<k + 1, m>>
<1>1. \A q \in R : q[1] \in 1..k /\ q[2] \in 1..m - 1
  BY DEF Related, GivenOut
<1>2. k \in Nat /\ m \in Nat \ {0}
  BY DEF Related
<1>3. \A q \in R : q[1] # k + 1 /\ q[2] # m
  BY <1>1, <1>2
<1>4. Matched(R \cup {p}, D)
  BY <1>3 DEF Related, Matched
<1>5. GivenOut(R \cup {p}, k + 1, m + 1)
  <2>1. p[1] \in 1..k + 1 /\ p[2] \in 1..(m + 1) - 1
    BY <1>2
  <2>2. \A q \in R : q[1] \in 1..k + 1 /\ q[2] \in 1..(m + 1) - 1
    BY <1>1, <1>2
  <2> QED
    BY <2>1, <2>2 DEF GivenOut
<1>6. C \subseteq 1..k + 1 /\ M \subseteq 1..(m + 1) - 1 /\ k + 1 \notin C /\ m \notin M
  BY <1>2 DEF Related
<1>7. Completed(R \cup {p}, D, C, M)
  BY <1>6 DEF Related, Completed
<1> QED
  BY <1>2, <1>4, <1>5, <1>6, <1>7 DEF Related

(* A structure of D with a new identity                                    *)
LEMMA NewIdentity ==
  ASSUME NEW R, NEW D, NEW k, NEW m, NEW C, NEW M, NEW s \in D,
         Related(R, D, k, m, C, M), s \in 1..k
  PROVE  Related(R \cup {<<s, m>>}, D, k, m + 1, C, M)
<1> DEFINE p == <<s, m>>
<1>1. \A q \in R : q[1] \in 1..k /\ q[2] \in 1..m - 1
  BY DEF Related, GivenOut
<1>2. k \in Nat /\ m \in Nat \ {0}
  BY DEF Related
<1>3. \A q \in R : q[2] # m
  BY <1>1, <1>2
<1>4. Matched(R \cup {p}, D)
  BY <1>3 DEF Related, Matched
<1>5. GivenOut(R \cup {p}, k, m + 1)
  <2>1. p[1] \in 1..k /\ p[2] \in 1..(m + 1) - 1
    BY <1>2
  <2>2. \A q \in R : q[1] \in 1..k /\ q[2] \in 1..(m + 1) - 1
    BY <1>1, <1>2
  <2> QED
    BY <2>1, <2>2 DEF GivenOut
<1>6. M \subseteq 1..(m + 1) - 1
  BY <1>2 DEF Related
<1>7. Completed(R \cup {p}, D, C, M)
  BY DEF Related, Completed
<1> QED
  BY <1>2, <1>4, <1>5, <1>6, <1>7 DEF Related

(* A new structure with the identity of another, both of D                 *)
LEMMA SharedIdentity ==
  ASSUME NEW R, NEW D, NEW k, NEW m, NEW C, NEW M, NEW v \in D, NEW id,
         Related(R, D, k, m, C, M), <<v, id>> \in R, k + 1 \in D
  PROVE  Related(R \cup {<<k + 1, id>>}, D, k + 1, m, C, M)
<1> DEFINE p == <<k + 1, id>>
<1>1. \A q \in R : q[1] \in 1..k /\ q[2] \in 1..m - 1
  BY DEF Related, GivenOut
<1>2. k \in Nat /\ m \in Nat \ {0}
  BY DEF Related
<1>3. \A q \in R : q[1] # k + 1
  BY <1>1, <1>2
<1>4. \A q \in R : q[1] \notin D => q[2] # id
  BY DEF Related, Matched
<1>5. Matched(R \cup {p}, D)
  BY <1>3, <1>4 DEF Related, Matched
<1>6. GivenOut(R \cup {p}, k + 1, m)
  <2>1. p[1] \in 1..k + 1 /\ p[2] \in 1..m - 1
    BY <1>1, <1>2
  <2>2. \A q \in R : q[1] \in 1..k + 1 /\ q[2] \in 1..m - 1
    BY <1>1, <1>2
  <2> QED
    BY <2>1, <2>2 DEF GivenOut
<1>7. C \subseteq 1..k + 1
  BY <1>2 DEF Related
<1>8. Completed(R \cup {p}, D, C, M)
  BY DEF Related, Completed
<1> QED
  BY <1>2, <1>5, <1>6, <1>7, <1>8 DEF Related

LEMMA CompletePair ==
  ASSUME NEW R, NEW D, NEW k, NEW m, NEW C, NEW M, NEW s, NEW id,
         Related(R, D, k, m, C, M), <<s, id>> \in R
  PROVE  Related(R, D, k, m, C \cup {s}, M \cup {id})
<1>1. s \in 1..k /\ id \in 1..m - 1
  BY DEF Related, GivenOut
<1>2. \A p \in R : p[1] \notin D => (p[1] = s <=> p[2] = id)
  BY DEF Related, Matched
<1>3. Completed(R, D, C \cup {s}, M \cup {id})
  BY <1>2 DEF Related, Completed
<1> QED
  BY <1>1, <1>3 DEF Related

-----------------------------------------------------------------------------
(* Sequences of pairs                                                      *)

LEMMA PairsOfAppend ==
  ASSUME NEW ss \in Seq(Nat), NEW T, NEW es \in Seq(T), Len(ss) = Len(es),
         NEW s, NEW e
  PROVE  Pairs(Append(ss, s), Append(es, e)) \subseteq Pairs(ss, es) \cup {<<s, e.id>>}
<1> DEFINE n == Len(es)
<1>1. n \in Nat /\ DOMAIN es = 1..n /\ DOMAIN ss = 1..n
  OBVIOUS
<1>2. DOMAIN Append(es, e) = 1..n + 1
  OBVIOUS
<1>3. \A i \in 1..n : Append(es, e)[i] = es[i] /\ Append(ss, s)[i] = ss[i]
  OBVIOUS
<1>4. Append(es, e)[n + 1] = e /\ Append(ss, s)[n + 1] = s
  OBVIOUS
<1>5. \A i \in 1..n + 1 : i \in 1..n \/ i = n + 1
  BY <1>1
<1> HIDE DEF n
<1> QED
  BY <1>1, <1>2, <1>3, <1>4, <1>5 DEF Pairs

(* A structure whose item was refused                                      *)
LEMMA PairsOfRefused ==
  ASSUME NEW ss \in Seq(Nat), NEW T, NEW es \in Seq(T), Len(ss) = Len(es), NEW s
  PROVE  Pairs(Append(ss, s), es) = Pairs(ss, es)
<1>1. \A i \in DOMAIN es : Append(ss, s)[i] = ss[i]
  OBVIOUS
<1> QED
  BY <1>1 DEF Pairs

LEMMA PairsOfPrefix ==
  ASSUME NEW ss \in Seq(Nat), NEW T, NEW es \in Seq(T), Len(ss) = Len(es),
         NEW n \in 0..Len(es)
  PROVE  /\ Pairs(SubSeq(ss, 1, n), SubSeq(es, 1, n)) \subseteq Pairs(ss, es)
         /\ SubSeq(ss, 1, n) \in Seq(Nat) /\ SubSeq(es, 1, n) \in Seq(T)
         /\ Len(SubSeq(ss, 1, n)) = n /\ Len(SubSeq(es, 1, n)) = n
<1>1. DOMAIN es = 1..Len(es) /\ 1..n \subseteq 1..Len(es)
  OBVIOUS
<1>2. DOMAIN SubSeq(es, 1, n) = 1..n
  OBVIOUS
<1>3. \A i \in 1..n : SubSeq(es, 1, n)[i] = es[i] /\ SubSeq(ss, 1, n)[i] = ss[i]
  OBVIOUS
<1>4. Pairs(SubSeq(ss, 1, n), SubSeq(es, 1, n)) \subseteq Pairs(ss, es)
  BY <1>1, <1>2, <1>3 DEF Pairs
<1>5. SubSeq(ss, 1, n) \in Seq(Nat) /\ SubSeq(es, 1, n) \in Seq(T)
  OBVIOUS
<1> QED
  BY <1>4, <1>5

-----------------------------------------------------------------------------
(* The scopes                                                              *)

LEMMA LivePairsAre ==
  ASSUME NEW n, NEW context \in Stack(n), NEW structs
  PROVE  /\ \A i \in 1..Len(context), t \in Tag :
              context[i][t] # None =>
                <<structs[i][t], context[i][t]>> \in LivePairs(context, structs)
         /\ \A p \in LivePairs(context, structs) :
              \E i \in 1..Len(context), t \in Tag :
                context[i][t] # None /\ p = <<structs[i][t], context[i][t]>>
<1> DEFINE In(i) == {<<structs[i][t], context[i][t]>> : t \in Entered(context, i)}
<1>1. DOMAIN context = 1..Len(context)
  BY DEF Stack
<1>2. \A i \in 1..Len(context), t \in Tag :
        context[i][t] # None =>
          <<structs[i][t], context[i][t]>> \in LivePairs(context, structs)
  <2> SUFFICES ASSUME NEW i \in 1..Len(context), NEW t \in Tag, context[i][t] # None
               PROVE  <<structs[i][t], context[i][t]>> \in LivePairs(context, structs)
    OBVIOUS
  <2>1. <<structs[i][t], context[i][t]>> \in In(i)
    BY DEF Entered
  <2> QED
    BY <1>1, <2>1 DEF LivePairs
<1>3. ASSUME NEW p \in LivePairs(context, structs)
      PROVE  \E i \in 1..Len(context), t \in Tag :
               context[i][t] # None /\ p = <<structs[i][t], context[i][t]>>
  <2>1. PICK i \in 1..Len(context) : p \in In(i)
    BY <1>1 DEF LivePairs
  <2>2. PICK t \in Entered(context, i) : p = <<structs[i][t], context[i][t]>>
    BY <2>1
  <2>3. t \in Tag /\ context[i][t] # None
    BY DEF Entered
  <2> QED
    BY <2>2, <2>3
<1> QED
  BY <1>2, <1>3

LEMMA LeastOf ==
  ASSUME NEW S \in SUBSET Nat, S # {}
  PROVE  \E m \in S : \A k \in S : m <= k
<1>1. OpToRel(<, Nat) = {pair \in Nat \X Nat : pair[1] < pair[2]}
  BY DEF OpToRel
<1>2. PICK m \in S : \A k \in S : <<k, m>> \notin OpToRel(<, Nat)
  BY NatLessThanWellFounded, WFMin
<1>3. ASSUME NEW k \in S, k < m
      PROVE  FALSE
  <2>1. <<k, m>> \in {pair \in Nat \X Nat : pair[1] < pair[2]}
    BY <1>3
  <2> QED
    BY <1>1, <1>2, <2>1
<1>4. \A k \in S : k \in Nat /\ m \in Nat
  OBVIOUS
<1> QED
  BY <1>3, <1>4

LEMMA GreatestOf ==
  ASSUME NEW n \in Nat, NEW S \in SUBSET (1..n), S # {}
  PROVE  \E x \in S : \A y \in S : y <= x
<1> DEFINE T == {n - i : i \in S}
<1>1. T \in SUBSET Nat
  <2>1. \A i \in S : i \in 1..n
    OBVIOUS
  <2>2. \A i \in 1..n : n - i \in Nat
    OBVIOUS
  <2> QED
    BY <2>1, <2>2
<1>2. T # {}
  <2>1. PICK i \in S : TRUE
    OBVIOUS
  <2>2. n - i \in T
    OBVIOUS
  <2> QED
    BY <2>2
<1>3. PICK m \in T : \A k \in T : m <= k
  <2> HIDE DEF T
  <2> QED
    BY <1>1, <1>2, LeastOf
<1>4. PICK x \in S : m = n - x
  BY <1>3
<1>5. x \in 1..n /\ \A y \in S : n - y \in T /\ y \in 1..n
  OBVIOUS
<1>6. \A y \in S : y <= x
  <2> HIDE DEF T
  <2> QED
    BY <1>3, <1>4, <1>5
<1> QED
  BY <1>6

(* What is found for a tag is its entry in the innermost scope that has    *)
(* one.                                                                    *)
LEMMA LookupIsInnermost ==
  ASSUME NEW n, NEW context \in Stack(n), NEW t \in Tag
  PROVE  \/ /\ lookupIn(context, t) = None
            /\ \A i \in 1..Len(context) : context[i][t] = None
         \/ \E i \in 1..Len(context) :
              /\ lookupIn(context, t) = context[i][t] /\ context[i][t] # None
              /\ \A j \in i + 1..Len(context) : context[j][t] = None
<1> DEFINE found == {i \in DOMAIN context : context[i][t] # None}
<1>1. DOMAIN context = 1..Len(context) /\ Len(context) \in Nat
  BY DEF Stack
<1>2. CASE found = {}
  <2>1. lookupIn(context, t) = None
    BY <1>2 DEF lookupIn
  <2> QED
    BY <1>1, <1>2, <2>1
<1>3. CASE found # {}
  <2> DEFINE x == CHOOSE i \in found : \A j \in found : j <= i
  <2>1. found \subseteq 1..Len(context)
    BY <1>1
  <2>2. x \in found /\ \A y \in found : y <= x
    <3>1. \E i \in found : \A j \in found : j <= i
      <4> HIDE DEF found
      <4> QED
        BY <1>1, <1>3, <2>1, GreatestOf
    <3> HIDE DEF found
    <3> QED
      BY <3>1
  <2>3. lookupIn(context, t) = context[x][t]
    BY <1>3 DEF lookupIn
  <2>4. x \in 1..Len(context) /\ context[x][t] # None
    BY <1>1, <2>2
  <2>5. ASSUME NEW j \in x + 1..Len(context), context[j][t] # None
        PROVE  FALSE
    <3>1. j \in 1..Len(context) /\ ~(j <= x)
      BY <2>4
    <3>2. j \in found
      BY <1>1, <2>5, <3>1
    <3> QED
      BY <2>2, <3>1, <3>2
  <2> HIDE DEF x, found
  <2> QED
    BY <2>3, <2>4, <2>5
<1> QED
  BY <1>2, <1>3

LEMMA InsertedType ==
  ASSUME NEW n \in Nat, NEW context \in Stack(n), Len(context) > 0,
         NEW t \in Tag, NEW m \in Nat, n <= m, NEW id \in 0..m
  PROVE  /\ insertType(context, t, id) \in Stack(m)
         /\ Len(insertType(context, t, id)) = Len(context)
         /\ insertType(context, t, id)[Len(context)][t] = id
         /\ \A i \in 1..Len(context), u \in Tag :
              i # Len(context) \/ u # t =>
                insertType(context, t, id)[i][u] = context[i][u]
<1> DEFINE c2 == insertType(context, t, id)
           len == Len(context)
<1>1. len \in Nat \ {0} /\ context \in [1..len -> [Tag -> 0..n]]
  BY DEF Stack
<1>2. 0..n \subseteq 0..m
  OBVIOUS
<1>3. context \in [1..len -> [Tag -> 0..m]]
  <2>1. \A i \in 1..len : context[i] \in [Tag -> 0..m]
    <3> TAKE i \in 1..len
    <3>1. context[i] \in [Tag -> 0..n]
      BY <1>1
    <3> QED
      BY <1>2, <3>1
  <2> QED
    BY <1>1, <2>1
<1>4. c2 = [context EXCEPT ![len] = [context[len] EXCEPT ![t] = id]]
  BY DEF insertType
<1>5. len \in 1..len
  BY <1>1
<1>6. [context[len] EXCEPT ![t] = id] \in [Tag -> 0..m]
  <2>1. context[len] \in [Tag -> 0..m]
    BY <1>3, <1>5
  <2> QED
    BY <2>1
<1>7. c2 \in [1..len -> [Tag -> 0..m]]
  <2> HIDE DEF c2, len
  <2> QED
    BY <1>3, <1>4, <1>5, <1>6
<1>8. c2 \in Seq([Tag -> 0..m]) /\ Len(c2) = len
  <2> HIDE DEF c2, len
  <2> QED
    BY <1>1, <1>7
<1>9. c2[len] = [context[len] EXCEPT ![t] = id] /\ \A i \in 1..len : i # len => c2[i] = context[i]
  <2> HIDE DEF c2, len
  <2> QED
    BY <1>3, <1>4, <1>5
<1>10. context[len] \in [Tag -> 0..m]
  BY <1>3, <1>5
<1>11. c2[len][t] = id /\ \A u \in Tag : u # t => c2[len][u] = context[len][u]
  <2> HIDE DEF c2, len
  <2> QED
    BY <1>9, <1>10
<1> HIDE DEF c2, len
<1> QED
  BY <1>8, <1>9, <1>11 DEF Stack, c2, len

LEMMA InsertedPairs ==
  ASSUME NEW n \in Nat, NEW context \in Stack(n), NEW k \in Nat, NEW structs \in Stack(k),
         Len(structs) = Len(context), Len(context) > 0,
         NEW t \in Tag, NEW id \in Nat, NEW s \in Nat
  PROVE  LivePairs(insertType(context, t, id), insertType(structs, t, s))
           \subseteq LivePairs(context, structs) \cup {<<s, id>>}
<1> DEFINE c2 == insertType(context, t, id)
           s2 == insertType(structs, t, s)
           len == Len(context)
<1>1. PICK m \in Nat : n <= m /\ k <= m /\ id <= m /\ s <= m
  <2> DEFINE m == n + k + id + s
  <2>1. m \in Nat /\ n <= m /\ k <= m /\ id <= m /\ s <= m
    OBVIOUS
  <2> HIDE DEF m
  <2> QED
    BY <2>1
<1>2. id \in 0..m /\ s \in 0..m
  BY <1>1
<1>3. /\ c2 \in Stack(m) /\ Len(c2) = len /\ c2[len][t] = id
      /\ \A i \in 1..len, u \in Tag : i # len \/ u # t => c2[i][u] = context[i][u]
  <2> HIDE DEF c2, len
  <2> QED
    BY <1>1, <1>2, InsertedType DEF c2, len
<1>4. /\ s2[len][t] = s
      /\ \A i \in 1..len, u \in Tag : i # len \/ u # t => s2[i][u] = structs[i][u]
  <2> HIDE DEF s2, len
  <2> QED
    BY <1>1, <1>2, InsertedType DEF s2, len
<1> HIDE DEF c2, s2, len
<1>5. \A p \in LivePairs(c2, s2) :
        \E i \in 1..len, u \in Tag : c2[i][u] # None /\ p = <<s2[i][u], c2[i][u]>>
  BY <1>3, LivePairsAre
<1>6. \A i \in 1..len, u \in Tag :
        context[i][u] # None =>
          <<structs[i][u], context[i][u]>> \in LivePairs(context, structs)
  BY LivePairsAre DEF len
<1>7. ASSUME NEW p \in LivePairs(c2, s2)
      PROVE  p \in LivePairs(context, structs) \cup {<<s, id>>}
  <2>1. PICK i \in 1..len, u \in Tag : c2[i][u] # None /\ p = <<s2[i][u], c2[i][u]>>
    BY <1>5
  <2>2. CASE i = len /\ u = t
    BY <1>3, <1>4, <2>1, <2>2
  <2>3. CASE i # len \/ u # t
    BY <1>3, <1>4, <1>6, <2>1, <2>3
  <2> QED
    BY <2>2, <2>3
<1> QED
  BY <1>7 DEF c2, s2

LEMMA InsertedAligned ==
  ASSUME NEW n \in Nat, NEW context \in Stack(n), NEW k \in Nat, NEW structs \in Stack(k),
         NEW D, NEW D2, D \subseteq D2, Aligned(context, structs, D),
         NEW t \in Tag, NEW id \in Nat \ {0}, NEW s \in Nat \ {0}
  PROVE  Aligned(insertType(context, t, id), insertType(structs, t, s), D2)
<1> DEFINE c2 == insertType(context, t, id)
           s2 == insertType(structs, t, s)
           len == Len(context)
<1>1. PICK m \in Nat : n <= m /\ k <= m /\ id <= m /\ s <= m
  <2> DEFINE m == n + k + id + s
  <2>1. m \in Nat /\ n <= m /\ k <= m /\ id <= m /\ s <= m
    OBVIOUS
  <2> HIDE DEF m
  <2> QED
    BY <2>1
<1>2. id \in 0..m /\ s \in 0..m
  BY <1>1
<1>3. Len(structs) = len /\ len > 0
  BY DEF Aligned
<1>4. /\ Len(c2) = len /\ c2[len][t] = id
      /\ \A i \in 1..len, u \in Tag : i # len \/ u # t => c2[i][u] = context[i][u]
  <2> HIDE DEF c2, len
  <2> QED
    BY <1>1, <1>2, <1>3, InsertedType DEF c2, len
<1>5. /\ Len(s2) = len /\ s2[len][t] = s
      /\ \A i \in 1..len, u \in Tag : i # len \/ u # t => s2[i][u] = structs[i][u]
  <2> HIDE DEF s2, len
  <2> QED
    BY <1>1, <1>2, <1>3, InsertedType DEF s2, len
<1>6. len \in Nat
  BY DEF Stack
<1>7. ASSUME NEW i \in 1..len, NEW u \in Tag
      PROVE  /\ c2[i][u] # None => s2[i][u] # None
             /\ s2[i][u] # None /\ c2[i][u] = None =>
                  s2[i][u] \in D2 /\ \A j \in 1..i - 1 : s2[j][u] = None
  <2>1. CASE i = len /\ u = t
    BY <1>4, <1>5, <2>1 DEF None
  <2>2. CASE i # len \/ u # t
    <3>1. c2[i][u] = context[i][u] /\ s2[i][u] = structs[i][u]
      BY <1>4, <1>5, <2>2
    <3>2. \A j \in 1..i - 1 : j \in 1..len /\ j # len
      BY <1>6
    <3>3. \A j \in 1..i - 1 : s2[j][u] = structs[j][u]
      BY <1>5, <3>2
    <3> HIDE DEF c2, s2
    <3> QED
      BY <3>1, <3>3 DEF Aligned
  <2> QED
    BY <2>1, <2>2
<1> HIDE DEF c2, s2, len
<1> QED
  BY <1>3, <1>4, <1>5, <1>7 DEF Aligned, c2, s2

(* The type checker finds a tag in the scope in which C finds it, where it *)
(* may have no identity.                                                   *)
LEMMA LookupInSameScope ==
  ASSUME NEW n, NEW context \in Stack(n), NEW k, NEW structs \in Stack(k),
         NEW D, Aligned(context, structs, D), NEW t \in Tag
  PROVE  \/ /\ lookupIn(context, t) = None
            /\ lookupIn(structs, t) = None
            /\ \A i \in 1..Len(context) : structs[i][t] = None /\ context[i][t] = None
         \/ \E i \in 1..Len(context) :
              /\ lookupIn(structs, t) = structs[i][t] /\ structs[i][t] # None
              /\ lookupIn(context, t) = context[i][t]
<1> DEFINE l == lookupIn(context, t)
           v == lookupIn(structs, t)
           len == Len(context)
<1>1. len \in Nat /\ Len(structs) = len
  BY DEF Stack, Aligned
<1>2. \A i \in 1..len : structs[i][t] = None => context[i][t] = None
  BY DEF Aligned
<1>3. \/ l = None /\ \A i \in 1..len : context[i][t] = None
      \/ \E i \in 1..len : /\ l = context[i][t] /\ context[i][t] # None
                           /\ \A j \in i + 1..len : context[j][t] = None
  BY LookupIsInnermost
<1>4. CASE v = None /\ \A i \in 1..len : structs[i][t] = None
  <2>1. \A i \in 1..len : context[i][t] = None
    BY <1>2, <1>4
  <2>2. l = None
    BY <1>3, <2>1
  <2> QED
    BY <1>4, <2>1, <2>2
<1>5. ASSUME NEW i \in 1..len, v = structs[i][t], structs[i][t] # None,
             \A j \in i + 1..len : structs[j][t] = None
      PROVE  l = context[i][t]
  <2>1. \A j \in i + 1..len : j \in 1..len
    BY <1>1
  <2>2. \A j \in i + 1..len : context[j][t] = None
    BY <1>2, <1>5, <2>1
  <2>3. CASE context[i][t] # None
    <3>1. PICK h \in 1..len : /\ l = context[h][t] /\ context[h][t] # None
                              /\ \A j \in h + 1..len : context[j][t] = None
      BY <1>3, <2>3
    <3>2. h \notin i + 1..len /\ i \notin h + 1..len
      BY <2>2, <2>3, <3>1
    <3>3. h = i
      BY <1>1, <3>2
    <3> QED
      BY <3>1, <3>3
  <2>4. CASE context[i][t] = None
    <3>1. \A j \in 1..i - 1 : structs[j][t] = None
      BY <1>5, <2>4 DEF Aligned
    <3>2. \A j \in 1..len : j \in 1..i - 1 \/ j = i \/ j \in i + 1..len
      BY <1>1
    <3>3. \A j \in 1..i - 1 : j \in 1..len
      BY <1>1
    <3>4. \A j \in 1..len : context[j][t] = None
      BY <1>2, <2>2, <2>4, <3>1, <3>2, <3>3
    <3> QED
      BY <1>3, <2>4, <3>4
  <2> QED
    BY <2>3, <2>4
<1>6. \/ v = None /\ \A i \in 1..len : structs[i][t] = None
      \/ \E i \in 1..len : /\ v = structs[i][t] /\ structs[i][t] # None
                           /\ \A j \in i + 1..len : structs[j][t] = None
  BY <1>1, LookupIsInnermost
<1> QED
  BY <1>4, <1>5, <1>6

(* What the type checker finds for a tag is the identity of the structure  *)
(* that C finds, or nothing, if a mention declares that one.               *)
LEMMA LookupMatches ==
  ASSUME NEW n, NEW context \in Stack(n), NEW k, NEW structs \in Stack(k),
         NEW D, Aligned(context, structs, D), NEW t \in Tag
  PROVE  \/ /\ lookupIn(context, t) # None
            /\ lookupIn(structs, t) # None
            /\ <<lookupIn(structs, t), lookupIn(context, t)>> \in LivePairs(context, structs)
         \/ /\ lookupIn(context, t) = None
            /\ lookupIn(structs, t) # None
            /\ lookupIn(structs, t) \in D
         \/ /\ lookupIn(context, t) = None
            /\ lookupIn(structs, t) = None
            /\ \A i \in 1..Len(context) : structs[i][t] = None /\ context[i][t] = None
<1>1. ASSUME NEW i \in 1..Len(context),
             lookupIn(structs, t) = structs[i][t], structs[i][t] # None,
             lookupIn(context, t) = context[i][t]
      PROVE  \/ /\ lookupIn(context, t) # None
                /\ <<lookupIn(structs, t), lookupIn(context, t)>> \in LivePairs(context, structs)
             \/ lookupIn(context, t) = None /\ lookupIn(structs, t) \in D
  <2>1. CASE context[i][t] # None
    BY <1>1, <2>1, LivePairsAre
  <2>2. CASE context[i][t] = None
    BY <1>1, <2>2 DEF Aligned
  <2> QED
    BY <2>1, <2>2
<1> QED
  BY <1>1, LookupInSameScope

-----------------------------------------------------------------------------
(* The scopes and the pairs together                                       *)

LEMMA SoundFacts ==
  ASSUME NEW context, NEW structs, NEW P, NEW D, NEW k, NEW m, NEW C, NEW M,
         Sound(context, structs, P, D, k, m, C, M)
  PROVE  /\ k \in Nat /\ m \in Nat \ {0} /\ m - 1 \in Nat
         /\ context \in Stack(m - 1) /\ structs \in Stack(k)
         /\ Len(context) \in Nat \ {0} /\ Len(structs) = Len(context)
         /\ Aligned(context, structs, D)
         /\ Related(LivePairs(context, structs) \cup P, D, k, m, C, M)
         /\ GivenOut(LivePairs(context, structs) \cup P, k, m)
<1>1. k \in Nat /\ m \in Nat \ {0} /\ GivenOut(LivePairs(context, structs) \cup P, k, m)
  BY DEF Sound, Related
<1>2. context \in Stack(m - 1) /\ structs \in Stack(k) /\ Aligned(context, structs, D)
  BY DEF Sound
<1>3. Len(context) \in Nat
  BY <1>2 DEF Stack
<1>4. Len(context) > 0 /\ Len(structs) = Len(context)
  BY <1>2 DEF Aligned
<1> QED
  BY <1>1, <1>2, <1>3, <1>4 DEF Sound

LEMMA SoundFewer ==
  ASSUME NEW context, NEW structs, NEW P, NEW D, NEW k, NEW m, NEW C, NEW M, NEW P2,
         Sound(context, structs, P, D, k, m, C, M), P2 \subseteq P
  PROVE  Sound(context, structs, P2, D, k, m, C, M)
<1>1. LivePairs(context, structs) \cup P2 \subseteq LivePairs(context, structs) \cup P
  OBVIOUS
<1>2. Related(LivePairs(context, structs) \cup P2, D, k, m, C, M)
  BY <1>1, FewerPairs DEF Sound
<1> QED
  BY <1>2 DEF Sound

(* What is found for a tag, and what its scope has, has been given out.    *)
LEMMA LookupTypes ==
  ASSUME NEW n \in Nat, NEW context \in Stack(n), NEW t \in Tag
  PROVE  /\ lookupIn(context, t) \in 0..n
         /\ Len(context) > 0 => Here(context, t) \in 0..n
<1>1. \A i \in 1..Len(context) : context[i][t] \in 0..n
  BY DEF Stack
<1>2. Len(context) \in Nat
  BY DEF Stack
<1>3. lookupIn(context, t) \in 0..n
  BY <1>1, LookupIsInnermost DEF None
<1>4. Len(context) > 0 => Here(context, t) \in 0..n
  BY <1>1, <1>2 DEF Here
<1> QED
  BY <1>3, <1>4

(* A pair for a tag is entered in both scopes.                             *)
LEMMA SoundInserted ==
  ASSUME NEW context, NEW structs, NEW P, NEW D, NEW k, NEW m, NEW C, NEW M,
         Sound(context, structs, P, D, k, m, C, M),
         NEW D2, NEW k2, NEW m2, NEW t \in Tag, NEW s, NEW id,
         k <= k2, m <= m2, D \subseteq D2,
         Related(LivePairs(context, structs) \cup P \cup {<<s, id>>}, D2, k2, m2, C, M)
  PROVE  Sound(insertType(context, t, id), insertType(structs, t, s), P \cup {<<s, id>>},
               D2, k2, m2, C, M)
<1> DEFINE c2 == insertType(context, t, id)
           s2 == insertType(structs, t, s)
           R2 == LivePairs(context, structs) \cup P \cup {<<s, id>>}
<1>1. k2 \in Nat /\ m2 \in Nat \ {0} /\ GivenOut(R2, k2, m2)
  BY DEF Related
<1>2. s \in 1..k2 /\ id \in 1..m2 - 1
  <2>1. <<s, id>> \in R2
    OBVIOUS
  <2>2. <<s, id>>[1] \in 1..k2 /\ <<s, id>>[2] \in 1..m2 - 1
    BY <1>1, <2>1 DEF GivenOut
  <2> QED
    BY <2>2
<1>3. /\ k \in Nat /\ m \in Nat \ {0} /\ m - 1 \in Nat
      /\ context \in Stack(m - 1) /\ structs \in Stack(k)
      /\ Len(context) \in Nat \ {0} /\ Len(structs) = Len(context)
      /\ Aligned(context, structs, D)
  BY ONLY Sound(context, structs, P, D, k, m, C, M), SoundFacts
<1>4. /\ m2 - 1 \in Nat /\ m - 1 <= m2 - 1 /\ id \in 0..m2 - 1 /\ id \in Nat \ {0}
      /\ s \in 0..k2 /\ s \in Nat \ {0}
  BY <1>1, <1>2, <1>3
<1> HIDE DEF c2, s2, R2
<1>5. c2 \in Stack(m2 - 1)
  BY <1>3, <1>4, InsertedType DEF c2
<1>6. s2 \in Stack(k2)
  BY <1>1, <1>3, <1>4, InsertedType DEF s2
<1>7. Aligned(c2, s2, D2)
  BY <1>3, <1>4, InsertedAligned DEF c2, s2
<1>8. LivePairs(c2, s2) \subseteq LivePairs(context, structs) \cup {<<s, id>>}
  BY <1>3, <1>4, InsertedPairs DEF c2, s2
<1>9. LivePairs(c2, s2) \cup (P \cup {<<s, id>>}) \subseteq R2
  BY <1>8 DEF R2
<1>10. Related(LivePairs(c2, s2) \cup (P \cup {<<s, id>>}), D2, k2, m2, C, M)
  <2>1. Related(R2, D2, k2, m2, C, M)
    BY DEF R2
  <2> QED
    BY <1>9, <2>1, FewerPairs
<1> QED
  BY <1>5, <1>6, <1>7, <1>10 DEF Sound, c2, s2

(* A pair for a tag that is not entered                                    *)
LEMMA SoundRemembered ==
  ASSUME NEW context, NEW structs, NEW P, NEW D, NEW k, NEW m, NEW C, NEW M,
         Sound(context, structs, P, D, k, m, C, M),
         NEW m2, NEW s, NEW id, m <= m2,
         Related(LivePairs(context, structs) \cup P \cup {<<s, id>>}, D, k, m2, C, M)
  PROVE  Sound(context, structs, P \cup {<<s, id>>}, D, k, m2, C, M)
<1>1. context \in Stack(m2 - 1)
  <2>1. m2 \in Nat
    BY DEF Related
  <2>2. m \in Nat
    BY ONLY Sound(context, structs, P, D, k, m, C, M), SoundFacts
  <2>3. 0..m - 1 \subseteq 0..m2 - 1
    BY <2>1, <2>2
  <2>4. [Tag -> 0..m - 1] \subseteq [Tag -> 0..m2 - 1]
    BY <2>3
  <2>5. context \in Seq([Tag -> 0..m - 1])
    BY DEF Sound, Stack
  <2> QED
    BY <2>4, <2>5 DEF Stack
<1>2. LivePairs(context, structs) \cup (P \cup {<<s, id>>})
        = LivePairs(context, structs) \cup P \cup {<<s, id>>}
  OBVIOUS
<1> QED
  BY <1>1, <1>2 DEF Sound

(* EnterScope                                                              *)
LEMMA SoundPushed ==
  ASSUME NEW context, NEW structs, NEW P, NEW D, NEW k, NEW m, NEW C, NEW M,
         Sound(context, structs, P, D, k, m, C, M)
  PROVE  Sound(Append(context, NoTags), Append(structs, NoTags), P, D, k, m, C, M)
<1> DEFINE c2 == Append(context, NoTags)
           s2 == Append(structs, NoTags)
           len == Len(context)
<1>1. /\ k \in Nat /\ m - 1 \in Nat /\ len \in Nat \ {0} /\ Len(structs) = len
      /\ context \in Stack(m - 1) /\ structs \in Stack(k)
  BY SoundFacts
<1>2. NoTags \in [Tag -> 0..m - 1] /\ NoTags \in [Tag -> 0..k]
  BY <1>1 DEF NoTags, None
<1>3. c2 \in Stack(m - 1) /\ s2 \in Stack(k) /\ Len(c2) = len + 1 /\ Len(s2) = len + 1
  BY <1>1, <1>2 DEF Stack
<1>4. /\ \A i \in 1..len : c2[i] = context[i] /\ s2[i] = structs[i]
      /\ c2[len + 1] = NoTags /\ s2[len + 1] = NoTags
  BY <1>1 DEF Stack
<1>5. \A t \in Tag : NoTags[t] = None
  BY DEF NoTags
<1>6. \A i \in 1..len + 1 : i \in 1..len \/ i = len + 1
  BY <1>1
<1> HIDE DEF c2, s2, len
<1>7. Aligned(c2, s2, D)
  <2>1. ASSUME NEW i \in 1..len, NEW t \in Tag
        PROVE  /\ c2[i][t] # None => s2[i][t] # None
               /\ s2[i][t] # None /\ c2[i][t] = None =>
                    s2[i][t] \in D /\ \A j \in 1..i - 1 : s2[j][t] = None
    <3>1. \A j \in 1..i - 1 : j \in 1..len
      BY <1>1
    <3>2. \A j \in 1..i - 1 : s2[j][t] = structs[j][t]
      BY <1>4, <3>1
    <3>3. c2[i][t] = context[i][t] /\ s2[i][t] = structs[i][t]
      BY <1>4
    <3>4. Aligned(context, structs, D)
      BY DEF Sound
    <3> QED
      BY <3>2, <3>3, <3>4 DEF Aligned, len
  <2>2. \A t \in Tag : c2[len + 1][t] = None /\ s2[len + 1][t] = None
    BY <1>4, <1>5
  <2>3. Len(s2) = Len(c2) /\ Len(c2) > 0
    BY <1>1, <1>3
  <2> QED
    BY <1>3, <1>6, <2>1, <2>2, <2>3 DEF Aligned
<1>8. LivePairs(c2, s2) \subseteq LivePairs(context, structs)
  <2>1. ASSUME NEW p \in LivePairs(c2, s2)
        PROVE  p \in LivePairs(context, structs)
    <3>1. PICK i \in 1..len + 1, t \in Tag : c2[i][t] # None /\ p = <<s2[i][t], c2[i][t]>>
      BY <1>3, LivePairsAre
    <3>2. i \in 1..len
      BY <1>4, <1>5, <1>6, <3>1
    <3>3. c2[i][t] = context[i][t] /\ s2[i][t] = structs[i][t]
      BY <1>4, <3>2
    <3> QED
      BY <1>1, <3>1, <3>2, <3>3, LivePairsAre DEF len
  <2> QED
    BY <2>1
<1>9. Related(LivePairs(c2, s2) \cup P, D, k, m, C, M)
  <2>1. LivePairs(c2, s2) \cup P \subseteq LivePairs(context, structs) \cup P
    BY <1>8
  <2> QED
    BY <2>1, FewerPairs DEF Sound
<1> QED
  BY <1>3, <1>7, <1>9 DEF Sound, c2, s2

(* ExitScope                                                               *)
LEMMA SoundPopped ==
  ASSUME NEW context, NEW structs, NEW P, NEW D, NEW k, NEW m, NEW C, NEW M,
         Sound(context, structs, P, D, k, m, C, M), Len(context) > 1
  PROVE  Sound(SubSeq(context, 1, Len(context) - 1), SubSeq(structs, 1, Len(structs) - 1),
               P, D, k, m, C, M)
<1> DEFINE len == Len(context) - 1
           c2 == SubSeq(context, 1, len)
           s2 == SubSeq(structs, 1, len)
<1>1. /\ k \in Nat /\ m - 1 \in Nat /\ len \in Nat \ {0} /\ Len(structs) - 1 = len
      /\ Len(context) = len + 1
      /\ context \in Stack(m - 1) /\ structs \in Stack(k)
  <2>1. /\ k \in Nat /\ m - 1 \in Nat /\ Len(context) \in Nat \ {0}
        /\ Len(structs) = Len(context)
        /\ context \in Stack(m - 1) /\ structs \in Stack(k)
    BY ONLY Sound(context, structs, P, D, k, m, C, M), SoundFacts
  <2> QED
    BY <2>1
<1>2. c2 \in Stack(m - 1) /\ s2 \in Stack(k) /\ Len(c2) = len /\ Len(s2) = len
  BY <1>1, SMTT(40) DEF Stack
<1>3. \A i \in 1..len : c2[i] = context[i] /\ s2[i] = structs[i]
  BY <1>1 DEF Stack
<1>4. \A i \in 1..len : i \in 1..Len(context)
  BY <1>1
<1> HIDE DEF c2, s2, len
<1>5. Aligned(c2, s2, D)
  <2>1. ASSUME NEW i \in 1..len, NEW t \in Tag
        PROVE  /\ c2[i][t] # None => s2[i][t] # None
               /\ s2[i][t] # None /\ c2[i][t] = None =>
                    s2[i][t] \in D /\ \A j \in 1..i - 1 : s2[j][t] = None
    <3>1. \A j \in 1..i - 1 : j \in 1..len
      BY <1>1
    <3>2. \A j \in 1..i - 1 : s2[j][t] = structs[j][t]
      BY <1>3, <3>1
    <3>3. c2[i][t] = context[i][t] /\ s2[i][t] = structs[i][t]
      BY <1>3
    <3>4. Aligned(context, structs, D)
      BY DEF Sound
    <3> QED
      BY <1>4, <3>2, <3>3, <3>4 DEF Aligned
  <2>2. Len(s2) = Len(c2) /\ Len(c2) > 0
    BY <1>1, <1>2
  <2> QED
    BY <1>2, <2>1, <2>2 DEF Aligned
<1>6. LivePairs(c2, s2) \subseteq LivePairs(context, structs)
  <2>1. ASSUME NEW p \in LivePairs(c2, s2)
        PROVE  p \in LivePairs(context, structs)
    <3>1. PICK i \in 1..len, t \in Tag : c2[i][t] # None /\ p = <<s2[i][t], c2[i][t]>>
      BY <1>2, LivePairsAre
    <3>2. c2[i][t] = context[i][t] /\ s2[i][t] = structs[i][t]
      BY <1>3
    <3> QED
      BY <1>1, <1>4, <3>1, <3>2, LivePairsAre
  <2> QED
    BY <2>1
<1>7. Related(LivePairs(c2, s2) \cup P, D, k, m, C, M)
  <2>1. LivePairs(c2, s2) \cup P \subseteq LivePairs(context, structs) \cup P
    BY <1>6
  <2> QED
    BY <2>1, FewerPairs DEF Sound
<1>8. Sound(c2, s2, P, D, k, m, C, M)
  BY <1>2, <1>5, <1>7 DEF Sound
<1> QED
  BY <1>1, <1>8 DEF c2, s2, len

(* The identity and the structure that a declaration is of                 *)
Grown(s, k)         == IF s > k THEN s ELSE k
NextAfter(id, next) == IF id = next THEN next + 1 ELSE next

MentionedID(context, next, t) ==
  IF lookupIn(context, t) = None THEN next ELSE lookupIn(context, t)
DefinedID(context, next, t) ==
  IF Here(context, t) # None THEN Here(context, t) ELSE next

MentionedStruct(structs, k, t) ==
  IF lookupIn(structs, t) # None THEN lookupIn(structs, t) ELSE k + 1
DefinedStruct(structs, k, t) ==
  IF Here(structs, t) # None THEN Here(structs, t) ELSE k + 1

(* What `struct t;' and a mention add to the departures                    *)
ForwardDeparts(D, s, k, v) == IF s > k /\ v # None THEN D \cup {s, v} ELSE D
MentionDeparts(D, s, k)    == IF s > k THEN D \cup {s} ELSE D
MentionEnters(structs, s, k, t) == IF s > k THEN insertType(structs, t, s) ELSE structs

LEMMA HereIsFound ==
  ASSUME NEW n, NEW context \in Stack(n), Len(context) > 0, NEW t \in Tag,
         Here(context, t) # None
  PROVE  lookupIn(context, t) = Here(context, t)
<1> DEFINE len == Len(context)
<1>1. len \in Nat \ {0}
  BY DEF Stack
<1>2. len \in 1..len
  BY <1>1
<1>3. PICK i \in 1..len : /\ lookupIn(context, t) = context[i][t]
                          /\ \A j \in i + 1..len : context[j][t] = None
  BY <1>2, LookupIsInnermost DEF Here
<1>4. len \notin i + 1..len
  BY <1>3 DEF Here
<1>5. i = len
  BY <1>1, <1>4
<1> QED
  BY <1>3, <1>5 DEF Here

(* The identity and the structure of a tag that is looked up in all scopes *)
LEMMA MentionedIsSound ==
  ASSUME NEW context, NEW structs, NEW P, NEW D, NEW k, NEW m, NEW C, NEW M,
         Sound(context, structs, P, D, k, m, C, M),
         NEW t \in Tag, lookupIn(structs, t) # None,
         NEW id, id = MentionedID(context, m, t),
         NEW m2, m2 = NextAfter(id, m)
  PROVE  /\ Related(LivePairs(context, structs) \cup P \cup {<<lookupIn(structs, t), id>>},
                    D, k, m2, C, M)
         /\ lookupIn(structs, t) \in 1..k
         /\ m <= m2
<1> USE DEF MentionedID, NextAfter
<1> DEFINE v == lookupIn(structs, t)
           l == lookupIn(context, t)
           R == LivePairs(context, structs) \cup P
<1>1. /\ k \in Nat /\ m \in Nat \ {0} /\ m - 1 \in Nat
      /\ context \in Stack(m - 1) /\ structs \in Stack(k)
      /\ Aligned(context, structs, D) /\ Related(R, D, k, m, C, M)
  BY ONLY Sound(context, structs, P, D, k, m, C, M), SoundFacts DEF R
<1>2. v \in 0..k /\ l \in 0..m - 1
  BY <1>1, LookupTypes
<1>3. v \in 1..k
  BY <1>1, <1>2 DEF None
<1>4. m <= m2
  BY <1>1
<1>5. CASE l # None /\ <<v, l>> \in LivePairs(context, structs)
  <2>1. id = l /\ l # m
    BY <1>1, <1>2, <1>5
  <2>2. R \cup {<<v, id>>} = R /\ m2 = m
    BY <1>5, <2>1
  <2> QED
    BY <1>1, <1>3, <1>4, <2>2
<1>6. CASE l = None /\ v \in D
  <2>1. id = m /\ m2 = m + 1
    BY <1>6
  <2> HIDE DEF v, R, l
  <2>2. Related(R \cup {<<v, m>>}, D, k, m + 1, C, M)
    BY <1>1, <1>3, <1>6, NewIdentity
  <2> QED
    BY <1>3, <1>4, <2>1, <2>2 DEF R, v
<1> QED
  BY <1>1, <1>5, <1>6, LookupMatches

LEMMA ForwardIsSound ==
  ASSUME NEW context, NEW structs, NEW P, NEW D, NEW k, NEW m, NEW C, NEW M,
         Sound(context, structs, P, D, k, m, C, M),
         NEW t \in Tag,
         NEW id, id = MentionedID(context, m, t),
         NEW s, s = DefinedStruct(structs, k, t),
         NEW m2, m2 = NextAfter(id, m),
         NEW k2, k2 = Grown(s, k),
         NEW D2, D2 = ForwardDeparts(D, s, k, lookupIn(structs, t))
  PROVE  Sound(insertType(context, t, id), insertType(structs, t, s), P \cup {<<s, id>>},
               D2, k2, m2, C, M)
<1> USE DEF MentionedID, DefinedStruct, NextAfter, Grown, ForwardDeparts
<1> DEFINE v == lookupIn(structs, t)
           l == lookupIn(context, t)
           R == LivePairs(context, structs) \cup P
<1>1. /\ k \in Nat /\ m \in Nat \ {0} /\ m - 1 \in Nat
      /\ context \in Stack(m - 1) /\ structs \in Stack(k)
      /\ Len(structs) > 0
      /\ Aligned(context, structs, D) /\ Related(R, D, k, m, C, M)
  <2>1. /\ k \in Nat /\ m \in Nat \ {0} /\ m - 1 \in Nat
        /\ context \in Stack(m - 1) /\ structs \in Stack(k)
        /\ Len(context) \in Nat \ {0} /\ Len(structs) = Len(context)
        /\ Aligned(context, structs, D) /\ Related(R, D, k, m, C, M)
    BY ONLY Sound(context, structs, P, D, k, m, C, M), SoundFacts DEF R
  <2> QED
    BY <2>1
<1>2. v \in 0..k /\ l \in 0..m - 1 /\ Here(structs, t) \in 0..k
  BY <1>1, LookupTypes
<1>3. k <= k2 /\ m <= m2 /\ D \subseteq D2
  <2>1. s \in Nat
    BY <1>1, <1>2
  <2> QED
    BY <1>1, <2>1
<1>4. Related(R \cup {<<s, id>>}, D2, k2, m2, C, M)
  <2>1. CASE Here(structs, t) # None
    <3>1. v = Here(structs, t)
      BY <1>1, <2>1, HereIsFound
    <3>2. s = v /\ ~(s > k)
      BY <1>1, <1>2, <2>1, <3>1
    <3>3. k2 = k /\ D2 = D
      BY <3>2
    <3>4. Related(R \cup {<<v, id>>}, D, k, m2, C, M)
      <4>1. lookupIn(structs, t) # None
        BY <2>1, <3>1
      <4> QED
        BY <4>1, MentionedIsSound DEF R, v
    <3> QED
      BY ONLY <3>2, <3>3, <3>4
  <2>2. CASE Here(structs, t) = None /\ v = None
    <3>1. s = k + 1 /\ k2 = k + 1 /\ D2 = D
      BY <1>1, <2>2
    <3>2. l = None
      BY <1>1, <2>2, LookupMatches
    <3>3. id = m /\ m2 = m + 1
      BY <3>2
    <3> HIDE DEF R
    <3>4. Related(R \cup {<<k + 1, m>>}, D, k + 1, m + 1, C, M)
      BY <1>1, NewPair
    <3> QED
      BY ONLY <3>1, <3>3, <3>4
  <2>3. CASE Here(structs, t) = None /\ v # None
    <3>1. s = k + 1 /\ k2 = k + 1
      BY <1>1, <2>3
    <3>2. D2 = D \cup {s, v}
      BY <1>1, <2>3, <3>1
    <3>3. Related(R, D2, k, m, C, M)
      BY <1>1, <3>2, MoreDepartures
    <3>4. CASE l # None /\ <<v, l>> \in LivePairs(context, structs)
      <4>1. id = l /\ m2 = m
        BY <1>1, <1>2, <3>4
      <4>2. <<v, l>> \in R /\ v \in D2 /\ k + 1 \in D2
        BY <3>1, <3>2, <3>4
      <4> HIDE DEF R, v, l
      <4>3. Related(R \cup {<<k + 1, l>>}, D2, k + 1, m, C, M)
        BY <3>3, <4>2, SharedIdentity
      <4> QED
        BY ONLY <3>1, <4>1, <4>3
    <3>5. CASE l = None
      <4>1. id = m /\ m2 = m + 1
        BY <3>5
      <4> HIDE DEF R, v, l
      <4>2. Related(R \cup {<<k + 1, m>>}, D2, k + 1, m + 1, C, M)
        BY <3>3, NewPair
      <4> QED
        BY ONLY <3>1, <4>1, <4>2
    <3> QED
      BY <1>1, <2>3, <3>4, <3>5, LookupMatches
  <2> QED
    BY <2>1, <2>2, <2>3
<1> QED
  BY <1>3, <1>4, SoundInserted

(* A mention of a tag that is not visible declares it in C: the compiler   *)
(* has no entry for it.                                                    *)
LEMMA MentionIsSound ==
  ASSUME NEW context, NEW structs, NEW P, NEW D, NEW k, NEW m, NEW C, NEW M,
         Sound(context, structs, P, D, k, m, C, M),
         NEW t \in Tag,
         NEW id, id = MentionedID(context, m, t),
         NEW s, s = MentionedStruct(structs, k, t),
         NEW m2, m2 = NextAfter(id, m),
         NEW k2, k2 = Grown(s, k),
         NEW D2, D2 = MentionDeparts(D, s, k),
         NEW structs2, structs2 = MentionEnters(structs, s, k, t)
  PROVE  Sound(context, structs2, P \cup {<<s, id>>}, D2, k2, m2, C, M)
<1> USE DEF MentionedID, MentionedStruct, NextAfter, Grown, MentionDeparts,
           MentionEnters
<1> DEFINE v == lookupIn(structs, t)
           l == lookupIn(context, t)
           R == LivePairs(context, structs) \cup P
           len == Len(context)
<1>1. /\ k \in Nat /\ m \in Nat \ {0} /\ m - 1 \in Nat
      /\ context \in Stack(m - 1) /\ structs \in Stack(k)
      /\ len \in Nat \ {0} /\ Len(structs) = len
      /\ Aligned(context, structs, D) /\ Related(R, D, k, m, C, M)
  BY ONLY Sound(context, structs, P, D, k, m, C, M), SoundFacts DEF R, len
<1>2. v \in 0..k /\ l \in 0..m - 1
  BY <1>1, LookupTypes
<1>3. CASE v # None
  <2>1. s = v /\ ~(s > k)
    BY <1>1, <1>2, <1>3
  <2>2. k2 = k /\ D2 = D /\ structs2 = structs
    BY <2>1
  <2>3. Related(R \cup {<<v, id>>}, D, k, m2, C, M) /\ m <= m2
    BY <1>3, MentionedIsSound
  <2>4. Sound(context, structs, P \cup {<<v, id>>}, D, k, m2, C, M)
    <3> HIDE DEF v
    <3> QED
      BY <2>3, SoundRemembered DEF R
  <2> QED
    BY <2>1, <2>2, <2>4
<1>4. CASE v = None
  <2>1. s = k + 1 /\ k2 = k + 1
    BY <1>1, <1>4
  <2>2. D2 = D \cup {s} /\ structs2 = insertType(structs, t, s)
    BY <1>1, <2>1
  <2>3. l = None /\ \A i \in 1..len : structs[i][t] = None /\ context[i][t] = None
    BY <1>1, <1>4, LookupMatches
  <2>4. id = m /\ m2 = m + 1
    BY <2>3
  <2>5. /\ structs2 \in Stack(k2) /\ Len(structs2) = len /\ structs2[len][t] = s
        /\ \A i \in 1..len, u \in Tag : i # len \/ u # t => structs2[i][u] = structs[i][u]
    <3>1. k + 1 \in 0..k + 1 /\ k + 1 \in Nat /\ k <= k + 1 /\ Len(structs) > 0
      BY <1>1
    <3> HIDE DEF len
    <3> QED
      BY <1>1, <2>1, <2>2, <3>1, InsertedType
  <2>6. context \in Stack(m2 - 1)
    <3>1. 0..m - 1 \subseteq 0..m2 - 1
      BY <1>1, <2>4
    <3>2. [Tag -> 0..m - 1] \subseteq [Tag -> 0..m2 - 1]
      BY <3>1
    <3> QED
      BY <1>1, <3>2 DEF Stack
  <2> HIDE DEF len, v, l
  <2>7. Aligned(context, structs2, D2)
    <3>1. ASSUME NEW i \in 1..len, NEW u \in Tag
          PROVE  /\ context[i][u] # None => structs2[i][u] # None
                 /\ structs2[i][u] # None /\ context[i][u] = None =>
                      structs2[i][u] \in D2 /\ \A j \in 1..i - 1 : structs2[j][u] = None
      <4>1. \A j \in 1..i - 1 : j \in 1..len /\ j # len
        BY <1>1
      <4>2. \A j \in 1..i - 1 : structs2[j][u] = structs[j][u]
        BY <2>5, <4>1
      <4>3. CASE i = len /\ u = t
        BY <2>2, <2>3, <2>5, <4>1, <4>2, <4>3
      <4>4. CASE i # len \/ u # t
        <5>1. structs2[i][u] = structs[i][u]
          BY <2>5, <4>4
        <5> QED
          BY <1>1, <2>2, <4>2, <5>1 DEF Aligned, len
      <4> QED
        BY <4>3, <4>4
    <3> QED
      BY <1>1, <2>5, <3>1 DEF Aligned, len
  <2>8. LivePairs(context, structs2) \subseteq LivePairs(context, structs)
    <3>1. ASSUME NEW p \in LivePairs(context, structs2)
          PROVE  p \in LivePairs(context, structs)
      <4>1. PICK i \in 1..len, u \in Tag :
              context[i][u] # None /\ p = <<structs2[i][u], context[i][u]>>
        BY <1>1, LivePairsAre DEF len
      <4>2. u # t
        BY <2>3, <4>1
      <4>3. structs2[i][u] = structs[i][u]
        BY <2>5, <4>2
      <4> QED
        BY <1>1, <4>1, <4>3, LivePairsAre DEF len
    <3> QED
      BY <3>1
  <2>9. Related(LivePairs(context, structs2) \cup (P \cup {<<s, id>>}), D2, k2, m2, C, M)
    <3> HIDE DEF R
    <3>1. Related(R \cup {<<k + 1, m>>}, D, k + 1, m + 1, C, M)
      BY <1>1, NewPair
    <3>2. Related(R \cup {<<k + 1, m>>}, D2, k + 1, m + 1, C, M)
      BY <2>2, <3>1, MoreDepartures
    <3>3. LivePairs(context, structs2) \cup (P \cup {<<s, id>>}) \subseteq R \cup {<<k + 1, m>>}
      BY <2>1, <2>4, <2>8 DEF R
    <3> QED
      BY <2>1, <2>4, <3>2, <3>3, FewerPairs
  <2> QED
    BY <2>5, <2>6, <2>7, <2>9 DEF Sound
<1> QED
  BY <1>3, <1>4

(* A definition in the current scope begins. That it has an identity with  *)
(* members means that it is of a structure which departs.                  *)
LEMMA DefinedIsSound ==
  ASSUME NEW context, NEW structs, NEW P, NEW D, NEW k, NEW m, NEW C, NEW M,
         Sound(context, structs, P, D, k, m, C, M),
         NEW t \in Tag,
         NEW id, id = DefinedID(context, m, t),
         NEW s, s = DefinedStruct(structs, k, t),
         NEW m2, m2 = NextAfter(id, m),
         NEW k2, k2 = Grown(s, k)
  PROVE  /\ Sound(insertType(context, t, id), insertType(structs, t, s), P \cup {<<s, id>>},
                  D, k2, m2, C, M)
         /\ s \in 1..k2
         /\ s \notin C /\ id \in M => s \in D
<1> USE DEF DefinedID, DefinedStruct, NextAfter, Grown
<1> DEFINE v == Here(structs, t)
           l == Here(context, t)
           R == LivePairs(context, structs) \cup P
           len == Len(context)
<1>1. /\ k \in Nat /\ m \in Nat \ {0} /\ m - 1 \in Nat
      /\ context \in Stack(m - 1) /\ structs \in Stack(k)
      /\ len \in Nat \ {0} /\ Len(structs) = len
      /\ Aligned(context, structs, D) /\ Related(R, D, k, m, C, M)
  BY ONLY Sound(context, structs, P, D, k, m, C, M), SoundFacts DEF R, len
<1>2. v \in 0..k /\ l \in 0..m - 1
  BY <1>1, LookupTypes
<1>3. len \in 1..len /\ v = structs[len][t] /\ l = context[len][t]
  BY <1>1 DEF Here
<1>4. k <= k2 /\ m <= m2
  <2>1. s \in Nat
    BY <1>1, <1>2
  <2> QED
    BY <1>1, <2>1
<1>5. Related(R \cup {<<s, id>>}, D, k2, m2, C, M)
  <2>1. CASE l # None
    <3>1. v # None
      BY <1>1, <1>3, <2>1 DEF Aligned
    <3>2. s = v /\ id = l /\ k2 = k /\ m2 = m
      BY <1>1, <1>2, <2>1, <3>1
    <3>3. <<v, l>> \in R
      BY <1>1, <1>3, <2>1, LivePairsAre
    <3>4. R \cup {<<s, id>>} = R
      BY <3>2, <3>3
    <3> QED
      BY ONLY <1>1, <3>2, <3>4
  <2>2. CASE l = None /\ v # None
    <3>1. v \in D
      BY <1>1, <1>3, <2>2 DEF Aligned
    <3>2. s = v /\ id = m /\ k2 = k /\ m2 = m + 1
      BY <1>1, <1>2, <2>2
    <3>3. v \in 1..k
      BY <1>1, <1>2, <2>2 DEF None
    <3> HIDE DEF R, v
    <3>4. Related(R \cup {<<v, m>>}, D, k, m + 1, C, M)
      BY <1>1, <3>1, <3>3, NewIdentity
    <3> QED
      BY ONLY <1>1, <3>2, <3>4
  <2>3. CASE l = None /\ v = None
    <3>1. s = k + 1 /\ id = m /\ k2 = k + 1 /\ m2 = m + 1
      BY <1>1, <2>3
    <3> HIDE DEF R
    <3>2. Related(R \cup {<<k + 1, m>>}, D, k + 1, m + 1, C, M)
      BY <1>1, NewPair
    <3> QED
      BY ONLY <3>1, <3>2
  <2> QED
    BY <2>1, <2>2, <2>3
<1>6. <<s, id>> \in R \cup {<<s, id>>} /\ <<s, id>>[1] = s /\ <<s, id>>[2] = id
  OBVIOUS
<1>7. s \in 1..k2 /\ (s \notin C /\ id \in M => s \in D)
  <2> HIDE DEF R
  <2>1. <<s, id>>[1] \in 1..k2
    BY <1>5, <1>6 DEF Related, GivenOut
  <2>2. <<s, id>>[1] \notin D => (<<s, id>>[1] \in C <=> <<s, id>>[2] \in M)
    BY <1>5, <1>6 DEF Related, Completed
  <2> QED
    BY <1>6, <2>1, <2>2
<1>8. Sound(insertType(context, t, id), insertType(structs, t, s), P \cup {<<s, id>>},
            D, k2, m2, C, M)
  BY <1>4, <1>5, SoundInserted
<1> QED
  BY <1>7, <1>8

(* A definition ends: the structure is complete, its identity has members. *)
LEMMA EndedIsSound ==
  ASSUME NEW context, NEW structs, NEW P, NEW D, NEW k, NEW m, NEW C, NEW M,
         Sound(context, structs, P, D, k, m, C, M),
         NEW s, NEW id, <<s, id>> \in P
  PROVE  Sound(context, structs, P, D, k, m, C \cup {s}, M \cup {id})
<1>1. <<s, id>> \in LivePairs(context, structs) \cup P
  OBVIOUS
<1>2. Related(LivePairs(context, structs) \cup P, D, k, m, C \cup {s}, M \cup {id})
  BY <1>1, CompletePair DEF Sound
<1> QED
  BY <1>2 DEF Sound

-----------------------------------------------------------------------------
(* What a definition does                                                  *)

LEMMA BeginFacts ==
  ASSUME NEW s, NEW context, NEW next, NEW map, NEW id, NEW ok,
         s = [context |-> context, next |-> next, map |-> map, id |-> id, ok |-> ok],
         NEW t, NEW d, d = DefinedID(context, next, t)
  PROVE  Begin(s, t) = [context |-> insertType(context, t, d), next |-> NextAfter(d, next),
                        map |-> map, id |-> d, ok |-> ok /\ d \notin map]
<1>1. s.context = context /\ s.next = next /\ s.map = map
  OBVIOUS
<1>2. Begin(s, t) = [s EXCEPT !.context = insertType(@, t, d), !.next = IF d = @ THEN @ + 1 ELSE @,
                              !.id = d, !.ok = @ /\ d \notin s.map]
  BY <1>1 DEF Begin, DefinedID, Here
<1> QED
  BY <1>1, <1>2 DEF NextAfter

LEMMA EndFacts ==
  ASSUME NEW s, NEW context, NEW next, NEW map, NEW id, NEW ok,
         s = [context |-> context, next |-> next, map |-> map, id |-> id, ok |-> ok],
         NEW d
  PROVE  End(s, d) = [context |-> context, next |-> next, map |-> map \cup {d}, id |-> id, ok |-> ok]
BY DEF End

(* A definition enters the identity d of its tag, then d2, if it has       *)
(* another in it, and is refused if one of them has members already.       *)
LEMMA DefineFacts ==
  ASSUME NEW t \in Tag, NEW m \in Members, NEW op, Define(t, m, op),
         NEW d, d = DefinedID(typeContext, nextID, t),
         NEW c1, c1 = insertType(typeContext, t, d),
         NEW n1, n1 = NextAfter(d, nextID),
         NEW d2, d2 = DefinedID(c1, n1, m.tag)
  PROVE  /\ UNCHANGED generator
         /\ d \in structMap => pc' = "rejected" /\ UNCHANGED checker
         /\ m.op = "nested" /\ d2 \in structMap => pc' = "rejected" /\ UNCHANGED checker
         /\ d \notin structMap /\ (m.op = "nested" => d2 \notin structMap) =>
              /\ pc' = pc
              /\ variables' = IF op = "typedef"
                              THEN Append(variables, [tag |-> t, id |-> d, depth |-> Depth])
                              ELSE variables
              /\ m.op # "nested" =>
                   /\ typeContext' = c1 /\ nextID' = n1 /\ structMap' = structMap \cup {d}
                   /\ \E i : /\ i = IF m.op = "member" THEN lookupIn(c1, m.tag) ELSE d
                             /\ nodes' = Append(nodes, [op |-> op, tag |-> t, id |-> d,
                                                       member |-> m, memberID |-> i])
              /\ m.op = "nested" =>
                   /\ typeContext' = insertType(c1, m.tag, d2) /\ nextID' = NextAfter(d2, n1)
                   /\ structMap' = structMap \cup {d2} \cup {d}
                   /\ nodes' = Append(nodes, [op |-> op, tag |-> t, id |-> d, member |-> m,
                                              memberID |-> d2])
<1> DEFINE start == [context |-> typeContext, next |-> nextID, map |-> structMap,
                     id |-> None, ok |-> TRUE]
           b == Begin(start, t)
           i == Member(b, m)
           e == End(i, b.id)
           ok1 == TRUE /\ d \notin structMap
           ok2 == ok1 /\ d2 \notin structMap
<1>1. b = [context |-> c1, next |-> n1, map |-> structMap, id |-> d,
           ok |-> ok1]
  BY BeginFacts
<1>2. /\ IF e.ok
         THEN /\ typeContext' = e.context
              /\ nextID' = e.next
              /\ structMap' = e.map
              /\ nodes' = Append(nodes, [op |-> op, tag |-> t, id |-> b.id, member |-> m,
                                         memberID |-> i.id])
              /\ variables' = IF op = "typedef"
                              THEN Append(variables, [tag |-> t, id |-> b.id, depth |-> Depth])
                              ELSE variables
              /\ UNCHANGED pc
         ELSE pc' = "rejected" /\ UNCHANGED checker
      /\ UNCHANGED generator
  BY DEF Define
<1>3. b.id = d
  BY <1>1
<1>4. ASSUME m.op # "nested"
      PROVE  /\ e.context = c1 /\ e.next = n1 /\ e.map = structMap \cup {d}
             /\ i.id = IF m.op = "member" THEN lookupIn(c1, m.tag) ELSE d
             /\ e.ok <=> d \notin structMap
  <2>1. m.op \in {"none", "member"}
    BY <1>4 DEF Members, NoMember
  <2>2. i = [context |-> c1, next |-> n1, map |-> structMap, id |-> i.id,
             ok |-> ok1]
        /\ i.id = IF m.op = "member" THEN lookupIn(c1, m.tag) ELSE d
    <3>1. CASE m.op = "none"
      <4>1. i = b
        BY <3>1 DEF Member
      <4> HIDE DEF b, i, ok1
      <4> QED
        BY <1>1, <3>1, <4>1
    <3>2. CASE m.op = "member"
      <4>1. i = [b EXCEPT !.id = lookupIn(b.context, m.tag)]
        BY <3>2 DEF Member
      <4> HIDE DEF b, i, ok1
      <4> QED
        BY <1>1, <3>2, <4>1
    <3> QED
      BY <2>1, <3>1, <3>2
  <2>3. e = [context |-> c1, next |-> n1, map |-> structMap \cup {d}, id |-> i.id,
             ok |-> ok1]
    <3> HIDE DEF b, i, ok1
    <3> QED
      BY <1>3, <2>2, EndFacts
  <2> HIDE DEF b, i, e
  <2> QED
    BY <2>2, <2>3
<1>5. ASSUME m.op = "nested"
      PROVE  /\ e.context = insertType(c1, m.tag, d2) /\ e.next = NextAfter(d2, n1)
             /\ e.map = structMap \cup {d2} \cup {d}
             /\ i.id = d2
             /\ e.ok <=> d \notin structMap /\ d2 \notin structMap
  <2> DEFINE n == Begin(b, m.tag)
             c2 == insertType(c1, m.tag, d2)
             n2 == NextAfter(d2, n1)
  <2>1. n = [context |-> c2, next |-> n2,
             map |-> structMap, id |-> d2,
             ok |-> ok2]
    <3> HIDE DEF b, ok1
    <3> QED
      BY <1>1, BeginFacts DEF ok2
  <2>2. i = End(n, n.id)
    BY <1>5 DEF Member
  <2>3. n.id = d2
    <3> HIDE DEF n
    <3> QED
      BY <2>1
  <2>4. i = [context |-> c2, next |-> n2,
             map |-> structMap \cup {d2}, id |-> d2,
             ok |-> ok2]
    <3> HIDE DEF n, i, ok2, c2, n2
    <3>1. End(n, d2) = [context |-> c2, next |-> n2,
                        map |-> structMap \cup {d2}, id |-> d2, ok |-> ok2]
      BY ONLY <2>1 DEF End
    <3> QED
      BY ONLY <2>2, <2>3, <3>1
  <2>5. e = [context |-> c2, next |-> n2,
             map |-> structMap \cup {d2} \cup {d}, id |-> d2,
             ok |-> ok2]
    <3> HIDE DEF b, i, e, ok2, c2, n2
    <3>1. End(i, d) = [context |-> c2, next |-> n2,
                       map |-> structMap \cup {d2} \cup {d}, id |-> d2, ok |-> ok2]
      BY ONLY <2>4 DEF End
    <3> QED
      BY ONLY <1>3, <3>1 DEF e
  <2> HIDE DEF b, i, e
  <2> QED
    BY <2>4, <2>5
<1> HIDE DEF b, i, e
<1>6. CASE e.ok
  <2>1. d \notin structMap /\ (m.op = "nested" => d2 \notin structMap)
    BY <1>4, <1>5, <1>6
  <2>2. /\ UNCHANGED generator
        /\ pc' = pc
        /\ variables' = IF op = "typedef"
                        THEN Append(variables, [tag |-> t, id |-> d, depth |-> Depth])
                        ELSE variables
    BY <1>2, <1>3, <1>6
  <2>3. /\ typeContext' = e.context /\ nextID' = e.next /\ structMap' = e.map
        /\ nodes' = Append(nodes, [op |-> op, tag |-> t, id |-> d, member |-> m,
                                   memberID |-> i.id])
    BY <1>2, <1>3, <1>6
  <2> QED
    BY <1>4, <1>5, <2>1, <2>2, <2>3
<1>7. CASE ~e.ok
  <2>1. ~(d \notin structMap /\ (m.op = "nested" => d2 \notin structMap))
    BY <1>4, <1>5, <1>7
  <2>2. pc' = "rejected" /\ UNCHANGED checker /\ UNCHANGED generator
    BY <1>2, <1>7
  <2> QED
    BY ONLY <2>1, <2>2
<1> QED
  BY <1>6, <1>7

-----------------------------------------------------------------------------
(* The identities are those of the structures.                             *)

(* What a step of the type checker has to show                             *)
LEMMA StillChecking ==
  ASSUME NEW P, Checking,
         Sound(typeContext', scope', P, departed', structures', nextID', complete', structMap'),
         Remembered' \subseteq P,
         (/\ nodes \in Seq(Node) /\ meant \in Seq(Nat) /\ Len(meant) = Len(nodes)
          /\ variables \in Seq(Entry) /\ held \in Seq(Nat) /\ Len(held) = Len(variables))',
         pc' = pc, pc = "check"
  PROVE  IInv'
<1>1. Sound(typeContext', scope', Remembered', departed', structures', nextID', complete', structMap')
  BY SoundFewer
<1>2. Checking'
  BY <1>1 DEF Checking
<1>3. Matched(Pairs(meant', nodes'), departed')
  <2>1. Matched(LivePairs(typeContext', scope') \cup Remembered', departed')
    BY <1>1 DEF Sound, Related
  <2>2. Pairs(meant', nodes') \subseteq LivePairs(typeContext', scope') \cup Remembered'
    BY DEF Remembered
  <2> HIDE DEF Remembered
  <2> QED
    BY <2>1, <2>2 DEF Matched
<1>4. NothingIsRejectedButForDepartures'
  BY DEF NothingIsRejectedButForDepartures
<1> QED
  BY <1>2, <1>3, <1>4 DEF IInv

LEMMA CheckingFacts ==
  ASSUME Checking
  PROVE  /\ Sound(typeContext, scope, Remembered, departed, structures, nextID, complete, structMap)
         /\ structures \in Nat /\ nextID \in Nat \ {0}
         /\ typeContext \in Stack(nextID - 1) /\ scope \in Stack(structures)
         /\ Depth \in Nat \ {0} /\ Len(scope) = Depth
         /\ nodes \in Seq(Node) /\ meant \in Seq(Nat) /\ Len(meant) = Len(nodes)
         /\ variables \in Seq(Entry) /\ held \in Seq(Nat) /\ Len(held) = Len(variables)
<1>1. Sound(typeContext, scope, Remembered, departed, structures, nextID, complete, structMap)
  BY DEF Checking
<1>2. /\ structures \in Nat /\ nextID \in Nat \ {0}
      /\ typeContext \in Stack(nextID - 1) /\ scope \in Stack(structures)
      /\ Len(typeContext) \in Nat \ {0} /\ Len(scope) = Len(typeContext)
  BY <1>1, SoundFacts
<1> QED
  BY <1>1, <1>2 DEF Checking, Depth

(* One more node                                                           *)
LEMMA NodeAdded ==
  ASSUME Checking, NEW n \in Node, NEW s \in Nat, NEW id, n.id = id,
         nodes' = Append(nodes, n), meant' = Append(meant, s)
  PROVE  /\ (nodes \in Seq(Node) /\ meant \in Seq(Nat) /\ Len(meant) = Len(nodes))'
         /\ Pairs(meant', nodes') \subseteq Pairs(meant, nodes) \cup {<<s, id>>}
<1>1. nodes \in Seq(Node) /\ meant \in Seq(Nat) /\ Len(meant) = Len(nodes)
  BY DEF Checking
<1>2. Pairs(Append(meant, s), Append(nodes, n)) \subseteq Pairs(meant, nodes) \cup {<<s, n.id>>}
  BY <1>1, PairsOfAppend
<1> QED
  BY <1>1, <1>2

(* One more variable                                                       *)
LEMMA VariableAdded ==
  ASSUME Checking, NEW t \in Tag, NEW s \in Nat, NEW id \in Nat,
         variables' = Append(variables, [tag |-> t, id |-> id, depth |-> Depth]),
         held' = Append(held, s)
  PROVE  /\ (variables \in Seq(Entry) /\ held \in Seq(Nat) /\ Len(held) = Len(variables))'
         /\ Pairs(held', variables') \subseteq Pairs(held, variables) \cup {<<s, id>>}
<1> DEFINE v == [tag |-> t, id |-> id, depth |-> Depth]
<1>1. /\ variables \in Seq(Entry) /\ held \in Seq(Nat) /\ Len(held) = Len(variables)
      /\ Depth \in Nat
  BY CheckingFacts
<1>2. v \in Entry /\ v.id = id
  BY <1>1 DEF Entry
<1> HIDE DEF v
<1>3. Pairs(Append(held, s), Append(variables, v)) \subseteq Pairs(held, variables) \cup {<<s, v.id>>}
  BY <1>1, PairsOfAppend
<1> QED
  BY <1>1, <1>2, <1>3 DEF v

LEMMA PlainNode ==
  ASSUME NEW op \in {"forward", "pointer", "object", "access"}, NEW t \in Tag, NEW id \in Nat
  PROVE  /\ [op |-> op, tag |-> t, id |-> id] \in Node
         /\ [op |-> op, tag |-> t, id |-> id].id = id
BY DEF Node

(* Some identity is given to a tag that is mentioned.                      *)
LEMMA MentionedFacts ==
  ASSUME Checking, NEW t \in Tag
  PROVE  /\ Mentioned(t) = MentionedID(typeContext, nextID, t)
         /\ Mentioned(t) \in Nat
<1>1. nextID \in Nat \ {0} /\ typeContext \in Stack(nextID - 1)
  BY CheckingFacts
<1>2. lookupIn(typeContext, t) \in 0..nextID - 1
  BY <1>1, LookupTypes
<1>3. lookupIn(typeContext, t) \in Nat
  BY <1>1, <1>2
<1> QED
  BY <1>1, <1>3 DEF Mentioned, MentionedID

LEMMA DeclaredTypes ==
  ASSUME Checking, NEW t \in Tag
  PROVE  Here(scope, t) \in Nat /\ Visible(t) \in Nat
<1>1. structures \in Nat /\ scope \in Stack(structures) /\ Len(scope) > 0
  <2>1. structures \in Nat /\ scope \in Stack(structures) /\ Depth \in Nat \ {0} /\ Len(scope) = Depth
    BY CheckingFacts
  <2> QED
    BY <2>1
<1>2. Here(scope, t) \in 0..structures /\ Visible(t) \in 0..structures
  BY <1>1, LookupTypes DEF Visible
<1> QED
  BY <1>1, <1>2

LEMMA ForwardKeeps ==
  ASSUME IInv, NEW t \in Tag, CheckForward(t)
  PROVE  IInv'
<1>1. pc = "check" /\ pc' = pc /\ Checking
  BY DEF CheckForward, Forward, CanAdd, IInv
<1>2. PICK s : /\ s = DefinedStruct(scope, structures, t)
               /\ scope' = insertType(scope, t, s)
               /\ structures' = Grown(s, structures)
               /\ departed' = ForwardDeparts(departed, s, structures, lookupIn(scope, t))
               /\ meant' = Append(meant, s)
               /\ complete' = complete /\ held' = held
  BY DEF CheckForward, Grow, Visible, Declared, DefinedStruct, Grown, ForwardDeparts
<1>3. PICK id : /\ id = MentionedID(typeContext, nextID, t)
                /\ id \in Nat
                /\ typeContext' = insertType(typeContext, t, id)
                /\ nextID' = NextAfter(id, nextID)
                /\ nodes' = Append(nodes, [op |-> "forward", tag |-> t, id |-> id])
                /\ structMap' = structMap /\ variables' = variables
  BY <1>1, MentionedFacts DEF CheckForward, Forward, TakeID, NextAfter
<1> DEFINE P == Remembered \cup {<<s, id>>}
<1>4. s \in Nat
  <2>1. structures \in Nat
    BY <1>1, CheckingFacts
  <2> QED
    BY <1>1, <1>2, <2>1, DeclaredTypes DEF DefinedStruct
<1>5. Sound(typeContext', scope', P, departed', structures', nextID', complete', structMap')
  <2>1. Sound(typeContext, scope, Remembered, departed, structures, nextID, complete, structMap)
    BY <1>1, CheckingFacts
  <2>2. Sound(insertType(typeContext, t, id), insertType(scope, t, s), P,
              departed', structures', nextID', complete, structMap)
    BY <1>2, <1>3, <2>1, ForwardIsSound
  <2> QED
    BY <1>2, <1>3, <2>2
<1>6. /\ (nodes \in Seq(Node) /\ meant \in Seq(Nat) /\ Len(meant) = Len(nodes))'
      /\ Pairs(meant', nodes') \subseteq Pairs(meant, nodes) \cup {<<s, id>>}
  BY <1>1, <1>2, <1>3, <1>4, NodeAdded, PlainNode
<1>7. (variables \in Seq(Entry) /\ held \in Seq(Nat) /\ Len(held) = Len(variables))'
  BY <1>1, <1>2, <1>3, CheckingFacts
<1>8. Remembered' \subseteq P
  BY <1>2, <1>3, <1>6 DEF Remembered
<1> HIDE DEF P
<1> QED
  BY <1>1, <1>5, <1>6, <1>7, <1>8, StillChecking

LEMMA VariableKeeps ==
  ASSUME IInv, NEW t \in Tag, NEW op \in {"pointer", "object"}, CheckVariable(t, op)
  PROVE  IInv'
<1>1. pc = "check" /\ pc' = pc /\ Checking
  BY DEF CheckVariable, Variable, CanAdd, IInv
<1>2. PICK s : /\ s = MentionedStruct(scope, structures, t)
               /\ scope' = MentionEnters(scope, s, structures, t)
               /\ departed' = MentionDeparts(departed, s, structures)
               /\ structures' = Grown(s, structures)
               /\ meant' = Append(meant, s) /\ held' = Append(held, s)
               /\ complete' = complete
  BY DEF CheckVariable, Mention, Grow, Visible, Declared, MentionedStruct, Grown,
         MentionDeparts, MentionEnters
<1>3. PICK id : /\ id = MentionedID(typeContext, nextID, t)
                /\ id \in Nat
                /\ typeContext' = typeContext
                /\ nextID' = NextAfter(id, nextID)
                /\ nodes' = Append(nodes, [op |-> op, tag |-> t, id |-> id])
                /\ variables' = Append(variables, [tag |-> t, id |-> id, depth |-> Depth])
                /\ structMap' = structMap
  BY <1>1, MentionedFacts DEF CheckVariable, Variable, TakeID, NextAfter
<1> DEFINE P == Remembered \cup {<<s, id>>}
<1>4. s \in Nat
  <2>1. structures \in Nat
    BY <1>1, CheckingFacts
  <2> QED
    BY <1>1, <1>2, <2>1, DeclaredTypes DEF Visible, MentionedStruct
<1>5. Sound(typeContext', scope', P, departed', structures', nextID', complete', structMap')
  <2>1. Sound(typeContext, scope, Remembered, departed, structures, nextID, complete, structMap)
    BY <1>1, CheckingFacts
  <2>2. Sound(typeContext, scope', P, departed', structures', nextID', complete, structMap)
    BY <1>2, <1>3, <2>1, MentionIsSound
  <2> QED
    BY <1>2, <1>3, <2>2
<1>6. /\ (nodes \in Seq(Node) /\ meant \in Seq(Nat) /\ Len(meant) = Len(nodes))'
      /\ Pairs(meant', nodes') \subseteq Pairs(meant, nodes) \cup {<<s, id>>}
  BY <1>1, <1>2, <1>3, <1>4, NodeAdded, PlainNode
<1>7. /\ (variables \in Seq(Entry) /\ held \in Seq(Nat) /\ Len(held) = Len(variables))'
      /\ Pairs(held', variables') \subseteq Pairs(held, variables) \cup {<<s, id>>}
  BY <1>1, <1>2, <1>3, <1>4, VariableAdded
<1>8. Remembered' \subseteq P
  BY <1>6, <1>7 DEF Remembered
<1> HIDE DEF P
<1> QED
  BY <1>1, <1>5, <1>6, <1>7, <1>8, StillChecking

(* The parts of CheckDefine: s is the structure that is defined, x the one *)
(* of its member.                                                          *)
LEMMA CheckDefineFacts ==
  ASSUME NEW t, NEW m, NEW op, CheckDefine(t, m, op)
  PROVE  /\ Define(t, m, op) /\ pc = "check" /\ (op = "typedef" => m = NoMember)
         /\ \E s, x, context :
              /\ s = DefinedStruct(scope, structures, t) /\ s \notin complete
              /\ context = insertType(scope, t, s)
              /\ m.op = "none" => x = None
              /\ m.op = "member" => x = lookupIn(context, m.tag) /\ x \in complete
              /\ m.op = "nested" => /\ x = DefinedStruct(context, Grown(s, structures), m.tag)
                                    /\ x \notin complete /\ m.tag # t
              /\ scope' = IF m.op = "nested" THEN insertType(context, m.tag, x) ELSE context
              /\ structures' = Grown(x, Grown(s, structures))
              /\ complete' = IF m.op = "nested" THEN complete \cup {s} \cup {x}
                             ELSE complete \cup {s}
              /\ meant' = Append(meant, s)
              /\ held' = IF op = "typedef" THEN Append(held, s) ELSE held
              /\ pc' = "rejected" => blamed' = {s, x}
              /\ departed' = departed
<1> DEFINE s == Defined(scope, structures, t)
           context == insertType(scope, t, s)
           x == CASE m.op = "none" -> None
                  [] m.op = "member" -> lookupIn(context, m.tag)
                  [] m.op = "nested" -> Defined(context, Grow(s), m.tag)
<1>1. /\ CanAdd /\ s \notin complete
      /\ op = "typedef" => m = NoMember
      /\ m.op = "member" => x \in complete
      /\ m.op = "nested" => m.tag # t /\ x \notin complete
      /\ Define(t, m, op)
      /\ scope' = IF m.op = "nested" THEN insertType(context, m.tag, x) ELSE context
      /\ structures' = IF x > Grow(s) THEN x ELSE Grow(s)
      /\ complete' = complete \cup {s} \cup (IF m.op = "nested" THEN {x} ELSE {})
      /\ meant' = Append(meant, s)
      /\ held' = IF op = "typedef" THEN Append(held, s) ELSE held
      /\ Refused({s, x})
      /\ UNCHANGED departed
  BY DEF CheckDefine
<1>2. s = DefinedStruct(scope, structures, t) /\ Grow(s) = Grown(s, structures)
  BY DEF Defined, DefinedStruct, Grow, Grown
<1>3. /\ m.op = "none" => x = None
      /\ m.op = "member" => x = lookupIn(context, m.tag)
      /\ m.op = "nested" => x = Defined(context, Grow(s), m.tag)
  OBVIOUS
<1>4. Defined(context, Grow(s), m.tag) = DefinedStruct(context, Grown(s, structures), m.tag)
  <2> HIDE DEF context, s
  <2> QED
    BY <1>2 DEF Defined, DefinedStruct
<1>5. structures' = Grown(x, Grown(s, structures))
  <2> HIDE DEF x, s
  <2> QED
    BY <1>1, <1>2 DEF Grown
<1>6. context = insertType(scope, t, s)
  OBVIOUS
<1>7. pc' = "rejected" => blamed' = {s, x}
  BY <1>1 DEF Refused
<1> HIDE DEF x, s, context
<1>8. complete' = IF m.op = "nested" THEN complete \cup {s} \cup {x} ELSE complete \cup {s}
  BY <1>1
<1>9. /\ s = DefinedStruct(scope, structures, t) /\ s \notin complete
      /\ context = insertType(scope, t, s)
      /\ m.op = "none" => x = None
      /\ m.op = "member" => x = lookupIn(context, m.tag) /\ x \in complete
      /\ m.op = "nested" => /\ x = DefinedStruct(context, Grown(s, structures), m.tag)
                            /\ x \notin complete /\ m.tag # t
      /\ scope' = IF m.op = "nested" THEN insertType(context, m.tag, x) ELSE context
      /\ structures' = Grown(x, Grown(s, structures))
      /\ complete' = IF m.op = "nested" THEN complete \cup {s} \cup {x}
                     ELSE complete \cup {s}
      /\ meant' = Append(meant, s)
      /\ held' = IF op = "typedef" THEN Append(held, s) ELSE held
      /\ pc' = "rejected" => blamed' = {s, x}
      /\ departed' = departed
  BY ONLY <1>1, <1>2, <1>3, <1>4, <1>5, <1>6, <1>7, <1>8
<1>10. Define(t, m, op) /\ pc = "check" /\ (op = "typedef" => m = NoMember)
  BY <1>1 DEF CanAdd
<1> QED
  BY ONLY <1>9, <1>10, Zenon

LEMMA DefinitionNode ==
  ASSUME NEW op \in {"define", "typedef"}, NEW t \in Tag, NEW id \in Nat, NEW m \in Members,
         NEW i \in Nat
  PROVE  /\ [op |-> op, tag |-> t, id |-> id, member |-> m, memberID |-> i] \in Node
         /\ [op |-> op, tag |-> t, id |-> id, member |-> m, memberID |-> i].id = id
BY DEF Node

LEMMA DefineKeeps ==
  ASSUME IInv, NEW t \in Tag, NEW m \in Members, NEW op \in {"define", "typedef"},
         CheckDefine(t, m, op)
  PROVE  IInv'
<1>1. pc = "check" /\ Define(t, m, op) /\ Checking
  BY CheckDefineFacts DEF IInv
<1>2. PICK s, x, context :
        /\ s = DefinedStruct(scope, structures, t) /\ s \notin complete
        /\ context = insertType(scope, t, s)
        /\ m.op = "none" => x = None
        /\ m.op = "member" => x = lookupIn(context, m.tag)
        /\ m.op = "nested" => /\ x = DefinedStruct(context, Grown(s, structures), m.tag)
                              /\ x \notin complete
        /\ scope' = IF m.op = "nested" THEN insertType(context, m.tag, x) ELSE context
        /\ structures' = Grown(x, Grown(s, structures))
        /\ complete' = IF m.op = "nested" THEN complete \cup {s} \cup {x}
                       ELSE complete \cup {s}
        /\ meant' = Append(meant, s)
        /\ held' = IF op = "typedef" THEN Append(held, s) ELSE held
        /\ pc' = "rejected" => blamed' = {s, x}
        /\ departed' = departed
  BY CheckDefineFacts
<1> DEFINE d == DefinedID(typeContext, nextID, t)
           c1 == insertType(typeContext, t, d)
           n1 == NextAfter(d, nextID)
           k1 == Grown(s, structures)
           d2 == DefinedID(c1, n1, m.tag)
           c2 == insertType(c1, m.tag, d2)
           n2 == NextAfter(d2, n1)
           P1 == Remembered \cup {<<s, d>>}
           P2 == P1 \cup {<<x, d2>>}
           refused == pc' = "rejected" /\ UNCHANGED checker
           variable == [tag |-> t, id |-> d, depth |-> Depth]
           node(i) == [op |-> op, tag |-> t, id |-> d, member |-> m, memberID |-> i]
<1>3. /\ d \in structMap => refused
      /\ m.op = "nested" /\ d2 \in structMap => refused
      /\ d \notin structMap /\ (m.op = "nested" => d2 \notin structMap) =>
           /\ pc' = pc
           /\ variables' = IF op = "typedef" THEN Append(variables, variable) ELSE variables
           /\ m.op # "nested" =>
                /\ typeContext' = c1 /\ nextID' = n1 /\ structMap' = structMap \cup {d}
                /\ \E i : /\ i = IF m.op = "member" THEN lookupIn(c1, m.tag) ELSE d
                          /\ nodes' = Append(nodes, node(i))
           /\ m.op = "nested" =>
                /\ typeContext' = c2 /\ nextID' = n2
                /\ structMap' = structMap \cup {d2} \cup {d}
                /\ nodes' = Append(nodes, node(d2))
  BY <1>1, DefineFacts
<1>4. /\ Sound(c1, context, P1, departed, k1, n1, complete, structMap)
      /\ s \in 1..k1 /\ (d \in structMap => s \in departed)
  <2>1. Sound(typeContext, scope, Remembered, departed, structures, nextID, complete, structMap)
    BY <1>1, CheckingFacts
  <2> HIDE DEF d, k1, n1
  <2> QED
    BY <1>2, <2>1, DefinedIsSound DEF d, k1, n1
<1>5. ASSUME m.op = "nested"
      PROVE  /\ Sound(c2, insertType(context, m.tag, x), P2, departed, Grown(x, k1), n2,
                      complete, structMap)
             /\ d2 \in structMap => x \in departed
  <2>1. m.tag \in Tag
    BY <1>5 DEF Members, NoMember
  <2> HIDE DEF d2, k1, n1, n2, c1, c2, P1
  <2>2. d2 = DefinedID(c1, n1, m.tag) /\ x = DefinedStruct(context, k1, m.tag)
        /\ n2 = NextAfter(d2, n1) /\ x \notin complete
    BY <1>2, <1>5 DEF d2, k1, n2
  <2> QED
    BY <1>4, <2>1, <2>2, DefinedIsSound DEF c2
<1> HIDE DEF d, c1, n1, k1, d2, c2, n2, P1, P2, variable
<1>6. k1 \in Nat /\ n1 \in Nat \ {0} /\ c1 \in Stack(n1 - 1) /\ context \in Stack(k1)
      /\ Len(context) \in Nat \ {0}
  <2>1. k1 \in Nat /\ n1 \in Nat \ {0} /\ c1 \in Stack(n1 - 1) /\ context \in Stack(k1)
        /\ Len(c1) \in Nat \ {0} /\ Len(context) = Len(c1)
    BY <1>4, SoundFacts
  <2> QED
    BY <2>1
<1>7. d \in Nat
  <2>1. <<s, d>> \in LivePairs(c1, context) \cup P1
    BY DEF P1
  <2>2. GivenOut(LivePairs(c1, context) \cup P1, k1, n1)
    BY <1>4, SoundFacts
  <2>3. <<s, d>>[2] \in 1..n1 - 1
    BY <2>1, <2>2 DEF GivenOut
  <2> QED
    BY <1>6, <2>3
<1>8. s \in Nat
  BY <1>4, <1>6
<1>9. CASE refused
  <2>1. {s, x} \cap departed # {}
    <3>1. s \in departed \/ x \in departed
      <4>1. pc' # pc
        BY <1>1, <1>9
      <4>2. d \in structMap \/ (m.op = "nested" /\ d2 \in structMap)
        BY <1>3, <4>1
      <4> QED
        BY <1>4, <1>5, <4>2
    <3> QED
      BY <3>1
  <2>2. pc' = "rejected" /\ nodes' = nodes
    BY <1>9 DEF checker
  <2>3. NothingIsRejectedButForDepartures'
    BY <1>2, <2>1, <2>2 DEF NothingIsRejectedButForDepartures
  <2>4. Pairs(meant', nodes') = Pairs(meant, nodes)
    BY <1>1, <1>2, <1>8, <2>2, CheckingFacts, PairsOfRefused
  <2> QED
    BY <1>2, <2>2, <2>3, <2>4 DEF IInv
<1>10. CASE d \notin structMap /\ (m.op = "nested" => d2 \notin structMap)
  <2>1. pc' = pc
    BY <1>3, <1>10
  <2>2. /\ (variables \in Seq(Entry) /\ held \in Seq(Nat) /\ Len(held) = Len(variables))'
        /\ Pairs(held', variables') \subseteq Pairs(held, variables) \cup {<<s, d>>}
    <3>1. CASE op = "typedef"
      <4>1. variables' = Append(variables, variable) /\ held' = Append(held, s)
        BY <1>2, <1>3, <1>10, <3>1
      <4> QED
        BY <1>1, <1>7, <1>8, <4>1, VariableAdded DEF variable
    <3>2. CASE op # "typedef"
      <4>1. variables' = variables /\ held' = held
        BY <1>2, <1>3, <1>10, <3>2
      <4> QED
        BY <1>1, <4>1, CheckingFacts
    <3> QED
      BY <3>1, <3>2
  <2>3. ASSUME NEW i \in Nat, nodes' = Append(nodes, node(i))
        PROVE  /\ (nodes \in Seq(Node) /\ meant \in Seq(Nat) /\ Len(meant) = Len(nodes))'
               /\ Pairs(meant', nodes') \subseteq Pairs(meant, nodes) \cup {<<s, d>>}
    <3>1. node(i) \in Node /\ node(i).id = d
      BY <1>7, DefinitionNode
    <3> HIDE DEF node
    <3> QED
      BY <1>1, <1>2, <1>7, <1>8, <2>3, <3>1, NodeAdded
  <2>4. CASE m.op # "nested"
    <3>1. PICK i : /\ i = IF m.op = "member" THEN lookupIn(c1, m.tag) ELSE d
                   /\ nodes' = Append(nodes, node(i))
      BY <1>3, <1>10, <2>4
    <3>2. /\ typeContext' = c1 /\ nextID' = n1 /\ structMap' = structMap \cup {d}
          /\ scope' = context /\ complete' = complete \cup {s}
      BY <1>2, <1>3, <1>10, <2>4
    <3>3. m.op = "none" \/ (m.op = "member" /\ m.tag \in Tag)
      BY <2>4 DEF Members, NoMember
    <3>4. structures' = k1
      <4>1. x \in 0..k1
        BY <1>2, <1>6, <3>3, LookupTypes DEF None
      <4> QED
        BY <1>2, <1>6, <4>1 DEF Grown, k1
    <3>5. Sound(typeContext', scope', P1, departed', structures', nextID', complete', structMap')
      <4>1. Sound(c1, context, P1, departed, k1, n1, complete \cup {s}, structMap \cup {d})
        BY <1>4, EndedIsSound DEF P1
      <4> QED
        BY <1>2, <3>2, <3>4, <4>1
    <3>6. i \in Nat
      <4>1. m.op = "member" => lookupIn(c1, m.tag) \in 0..n1 - 1
        BY <1>6, <3>3, LookupTypes
      <4> QED
        BY <1>6, <1>7, <3>1, <4>1
    <3>7. /\ (nodes \in Seq(Node) /\ meant \in Seq(Nat) /\ Len(meant) = Len(nodes))'
          /\ Pairs(meant', nodes') \subseteq Pairs(meant, nodes) \cup {<<s, d>>}
      BY <2>3, <3>1, <3>6
    <3>8. Remembered' \subseteq P1
      BY <2>2, <3>7 DEF Remembered, P1
    <3> QED
      BY <1>1, <2>1, <2>2, <3>5, <3>7, <3>8, StillChecking
  <2>5. CASE m.op = "nested"
    <3>1. /\ typeContext' = c2 /\ nextID' = n2 /\ structMap' = structMap \cup {d2} \cup {d}
          /\ nodes' = Append(nodes, node(d2))
          /\ scope' = insertType(context, m.tag, x) /\ complete' = complete \cup {s} \cup {x}
          /\ structures' = Grown(x, k1)
      BY <1>2, <1>3, <1>10, <2>5 DEF k1
    <3>2. Sound(c2, scope', P2, departed, Grown(x, k1), n2, complete, structMap)
      BY <1>5, <2>5, <3>1
    <3>3. Sound(typeContext', scope', P2, departed', structures', nextID', complete', structMap')
      <4>1. <<x, d2>> \in P2 /\ <<s, d>> \in P2
        BY DEF P1, P2
      <4>2. Sound(c2, scope', P2, departed, Grown(x, k1), n2, complete \cup {x}, structMap \cup {d2})
        BY <3>2, <4>1, EndedIsSound
      <4>3. Sound(c2, scope', P2, departed, Grown(x, k1), n2, complete \cup {x} \cup {s},
                  structMap \cup {d2} \cup {d})
        BY <4>1, <4>2, EndedIsSound
      <4>4. complete' = complete \cup {x} \cup {s}
        BY <3>1
      <4> QED
        BY <1>2, <3>1, <4>3, <4>4
    <3>4. d2 \in Nat
      <4>1. m.tag \in Tag
        BY <2>5 DEF Members, NoMember
      <4>2. Len(c1) > 0
        <5>1. Len(c1) \in Nat \ {0}
          BY <1>4, SoundFacts
        <5> QED
          BY <5>1
      <4>3. n1 - 1 \in Nat /\ Here(c1, m.tag) \in 0..n1 - 1
        BY <1>6, <4>1, <4>2, LookupTypes
      <4>4. Here(c1, m.tag) \in Nat /\ n1 \in Nat
        BY <1>6, <4>3
      <4> QED
        BY <4>4 DEF d2, DefinedID
    <3>5. /\ (nodes \in Seq(Node) /\ meant \in Seq(Nat) /\ Len(meant) = Len(nodes))'
          /\ Pairs(meant', nodes') \subseteq Pairs(meant, nodes) \cup {<<s, d>>}
      BY <2>3, <3>1, <3>4
    <3>6. Remembered' \subseteq P2
      BY <2>2, <3>5 DEF Remembered, P1, P2
    <3> QED
      BY <1>1, <2>1, <2>2, <3>3, <3>5, <3>6, StillChecking
  <2> QED
    BY <2>4, <2>5
<1> QED
  BY <1>3, <1>9, <1>10

LEMMA PairOfVariable ==
  ASSUME Checking, NEW v \in DOMAIN variables
  PROVE  /\ <<held[v], variables[v].id>> \in Remembered
         /\ held[v] \in Nat /\ variables[v].id \in Nat /\ variables[v].tag \in Tag
         /\ held[v] \in complete /\ variables[v].id \notin structMap => held[v] \in departed
<1>1. variables \in Seq(Entry) /\ held \in Seq(Nat) /\ Len(held) = Len(variables)
  BY DEF Checking
<1>2. held[v] \in Nat /\ variables[v] \in Entry
  BY <1>1
<1>3. <<held[v], variables[v].id>> \in Pairs(held, variables)
  BY DEF Pairs
<1>4. <<held[v], variables[v].id>> \in LivePairs(typeContext, scope) \cup Remembered
  BY <1>3 DEF Remembered
<1>5. Completed(LivePairs(typeContext, scope) \cup Remembered, departed, complete, structMap)
  BY DEF Checking, Sound, Related
<1>6. held[v] \in complete /\ variables[v].id \notin structMap => held[v] \in departed
  <2> DEFINE p == <<held[v], variables[v].id>>
  <2>1. p[1] \notin departed => (p[1] \in complete <=> p[2] \in structMap)
    BY <1>4, <1>5 DEF Completed
  <2> QED
    BY <2>1
<1> QED
  BY <1>2, <1>3, <1>6 DEF Remembered, Entry

LEMMA AccessKeeps ==
  ASSUME IInv, NEW v \in DOMAIN variables, CheckAccess(v)
  PROVE  IInv'
<1> DEFINE s == held[v]
           id == variables[v].id
<1>1. pc = "check" /\ Checking
  BY DEF CheckAccess, Access, CanAdd, IInv
<1>2. /\ <<s, id>> \in Remembered /\ s \in Nat /\ id \in Nat /\ variables[v].tag \in Tag
      /\ s \in complete /\ id \notin structMap => s \in departed
  BY <1>1, PairOfVariable
<1>3. /\ typeContext' = typeContext /\ nextID' = nextID /\ structMap' = structMap
      /\ variables' = variables /\ scope' = scope /\ structures' = structures
      /\ complete' = complete /\ held' = held /\ departed' = departed
      /\ meant' = Append(meant, s) /\ s \in complete
  BY DEF CheckAccess, Access
<1>4. CASE id \in structMap
  <2>1. /\ nodes' = Append(nodes, [op |-> "access", tag |-> variables[v].tag, id |-> id])
        /\ pc' = pc
    BY <1>4 DEF CheckAccess, Access
  <2> HIDE DEF s, id
  <2>2. /\ (nodes \in Seq(Node) /\ meant \in Seq(Nat) /\ Len(meant) = Len(nodes))'
        /\ Pairs(meant', nodes') \subseteq Pairs(meant, nodes) \cup {<<s, id>>}
    BY <1>1, <1>2, <1>3, <2>1, NodeAdded, PlainNode
  <2>3. Sound(typeContext', scope', Remembered, departed', structures', nextID', complete', structMap')
    <3>1. Sound(typeContext, scope, Remembered, departed, structures, nextID, complete, structMap)
      BY <1>1, CheckingFacts
    <3> HIDE DEF Remembered
    <3> QED
      BY <1>3, <3>1
  <2>4. Remembered' \subseteq Remembered
    BY <1>2, <1>3, <2>2 DEF Remembered
  <2>5. (variables \in Seq(Entry) /\ held \in Seq(Nat) /\ Len(held) = Len(variables))'
    BY <1>1, <1>3, CheckingFacts
  <2> QED
    BY <1>1, <2>1, <2>2, <2>3, <2>4, <2>5, StillChecking
<1>5. CASE id \notin structMap
  <2>1. pc' = "rejected" /\ nodes' = nodes /\ blamed' = {s}
    BY <1>5 DEF CheckAccess, Access, Refused
  <2>2. NothingIsRejectedButForDepartures'
    BY <1>2, <1>3, <1>5, <2>1 DEF NothingIsRejectedButForDepartures
  <2> HIDE DEF s, id
  <2>3. Pairs(meant', nodes') = Pairs(meant, nodes)
    BY <1>1, <1>2, <1>3, <2>1, CheckingFacts, PairsOfRefused
  <2> QED
    BY <1>3, <2>1, <2>2, <2>3 DEF IInv
<1> QED
  BY <1>4, <1>5

LEMMA EnterScopeKeeps ==
  ASSUME IInv, CheckEnterScope
  PROVE  IInv'
<1>1. /\ pc = "check" /\ pc' = pc /\ Checking
      /\ typeContext' = Append(typeContext, NoTags) /\ scope' = Append(scope, NoTags)
      /\ UNCHANGED <<nextID, structMap, nodes, variables, structures, complete, meant, held,
                     departed>>
  BY DEF CheckEnterScope, EnterScope, CanAdd, IInv
<1>2. Sound(typeContext', scope', Remembered, departed', structures', nextID', complete', structMap')
  <2>1. Sound(typeContext, scope, Remembered, departed, structures, nextID, complete, structMap)
    BY <1>1, CheckingFacts
  <2>2. Sound(Append(typeContext, NoTags), Append(scope, NoTags), Remembered, departed,
              structures, nextID, complete, structMap)
    BY <2>1, SoundPushed
  <2> QED
    BY <1>1, <2>2
<1>3. Remembered' \subseteq Remembered
  BY <1>1 DEF Remembered
<1>4. (/\ nodes \in Seq(Node) /\ meant \in Seq(Nat) /\ Len(meant) = Len(nodes)
       /\ variables \in Seq(Entry) /\ held \in Seq(Nat) /\ Len(held) = Len(variables))'
  BY <1>1, CheckingFacts
<1> QED
  BY <1>1, <1>2, <1>3, <1>4, StillChecking

(* The variables that are left when a scope is left                        *)
LEMMA FewerVariables ==
  ASSUME variables \in Seq(Entry)
  PROVE  Cardinality({v \in DOMAIN variables : variables[v].depth < Depth}) \in 0..Len(variables)
<1> DEFINE S == {v \in DOMAIN variables : variables[v].depth < Depth}
<1>1. DOMAIN variables = 1..Len(variables) /\ Len(variables) \in Nat
  OBVIOUS
<1>2. IsFiniteSet(1..Len(variables)) /\ Cardinality(1..Len(variables)) = Len(variables)
  <2>1. Cardinality(1..Len(variables)) = IF 1 > Len(variables) THEN 0 ELSE Len(variables) - 1 + 1
    BY <1>1, FS_Interval
  <2>2. IsFiniteSet(1..Len(variables))
    BY <1>1, FS_Interval
  <2> QED
    BY ONLY <1>1, <2>1, <2>2
<1>3. S \subseteq 1..Len(variables)
  BY <1>1
<1> HIDE DEF S
<1>4. IsFiniteSet(S) /\ Cardinality(S) <= Len(variables)
  BY <1>2, <1>3, FS_Subset
<1>5. Cardinality(S) \in Nat
  BY <1>4, FS_CardinalityType
<1> QED
  BY <1>1, <1>4, <1>5 DEF S

LEMMA ExitScopeKeeps ==
  ASSUME IInv, CheckExitScope
  PROVE  IInv'
<1> DEFINE n == Cardinality({v \in DOMAIN variables : variables[v].depth < Depth})
<1>1. /\ pc = "check" /\ pc' = pc /\ Checking /\ Len(typeContext) > 1
      /\ typeContext' = SubSeq(typeContext, 1, Len(typeContext) - 1)
      /\ scope' = SubSeq(scope, 1, Len(scope) - 1)
      /\ variables' = SubSeq(variables, 1, n) /\ held' = SubSeq(held, 1, Len(variables'))
      /\ UNCHANGED <<nextID, structMap, nodes, structures, complete, meant, departed>>
  BY DEF CheckExitScope, ExitScope, IInv, Depth
<1>2. /\ nodes \in Seq(Node) /\ meant \in Seq(Nat) /\ Len(meant) = Len(nodes)
      /\ variables \in Seq(Entry) /\ held \in Seq(Nat) /\ Len(held) = Len(variables)
  BY <1>1, CheckingFacts
<1>3. n \in 0..Len(variables)
  BY <1>2, FewerVariables
<1> HIDE DEF n
<1>4. /\ Pairs(SubSeq(held, 1, n), SubSeq(variables, 1, n)) \subseteq Pairs(held, variables)
      /\ SubSeq(held, 1, n) \in Seq(Nat) /\ SubSeq(variables, 1, n) \in Seq(Entry)
      /\ Len(SubSeq(held, 1, n)) = n /\ Len(SubSeq(variables, 1, n)) = n
  BY <1>2, <1>3, PairsOfPrefix
<1>5. variables' = SubSeq(variables, 1, n) /\ held' = SubSeq(held, 1, n)
  BY <1>1, <1>4
<1>6. Sound(typeContext', scope', Remembered, departed', structures', nextID', complete', structMap')
  <2>1. Sound(typeContext, scope, Remembered, departed, structures, nextID, complete, structMap)
    BY <1>1, CheckingFacts
  <2>2. Sound(SubSeq(typeContext, 1, Len(typeContext) - 1), SubSeq(scope, 1, Len(scope) - 1),
              Remembered, departed, structures, nextID, complete, structMap)
    BY <1>1, <2>1, SoundPopped
  <2> QED
    BY <1>1, <2>2
<1>7. Remembered' \subseteq Remembered
  BY <1>1, <1>4, <1>5 DEF Remembered
<1>8. (/\ nodes \in Seq(Node) /\ meant \in Seq(Nat) /\ Len(meant) = Len(nodes)
       /\ variables \in Seq(Entry) /\ held \in Seq(Nat) /\ Len(held) = Len(variables))'
  BY <1>1, <1>2, <1>4, <1>5
<1> QED
  BY <1>1, <1>6, <1>7, <1>8, StillChecking

LEMMA InitHolds ==
  ASSUME CheckInit
  PROVE  IInv
<1>1. /\ typeContext = <<NoTags>> /\ scope = <<NoTags>> /\ nextID = 1 /\ structures = 0
      /\ structMap = {} /\ complete = {} /\ nodes = <<>> /\ variables = <<>>
      /\ meant = <<>> /\ held = <<>> /\ departed = {} /\ pc = "check"
  BY DEF CheckInit, Init
<1>2. Remembered = {}
  BY <1>1 DEF Remembered, Pairs
<1>3. NoTags \in [Tag -> 0..0] /\ \A t \in Tag : NoTags[t] = None
  BY DEF NoTags, None
<1>4. typeContext \in Stack(1 - 1) /\ scope \in Stack(0) /\ Len(typeContext) = 1 /\ Len(scope) = 1
      /\ \A i \in 1..1 : typeContext[i] = NoTags /\ scope[i] = NoTags
  BY <1>1, <1>3 DEF Stack
<1>5. LivePairs(typeContext, scope) = {}
  <2>1. \A p \in LivePairs(typeContext, scope) :
          \E i \in 1..Len(typeContext), t \in Tag :
            typeContext[i][t] # None /\ p = <<scope[i][t], typeContext[i][t]>>
    BY <1>4, LivePairsAre
  <2> QED
    BY <1>3, <1>4, <2>1
<1>6. Aligned(typeContext, scope, departed)
  BY <1>3, <1>4 DEF Aligned
<1>7. Related(LivePairs(typeContext, scope) \cup Remembered, departed, 0, 1, {}, {})
  BY <1>2, <1>5 DEF Related, Matched, GivenOut, Completed
<1>8. Sound(typeContext, scope, Remembered, departed, structures, nextID, complete, structMap)
  BY <1>1, <1>4, <1>6, <1>7 DEF Sound
<1>9. /\ nodes \in Seq(Node) /\ meant \in Seq(Nat) /\ Len(meant) = Len(nodes)
      /\ variables \in Seq(Entry) /\ held \in Seq(Nat) /\ Len(held) = Len(variables)
  BY <1>1
<1>10. Matched(Pairs(meant, nodes), departed)
  BY <1>1 DEF Matched, Pairs
<1>11. NothingIsRejectedButForDepartures
  BY <1>1 DEF NothingIsRejectedButForDepartures
<1> QED
  BY <1>8, <1>9, <1>10, <1>11 DEF IInv, Checking

LEMMA StepKeeps ==
  ASSUME IInv, [CheckNext]_allvars
  PROVE  IInv'
<1>1. CASE \E t \in Tag : CheckForward(t)
  BY <1>1, ForwardKeeps
<1>2. CASE \E t \in Tag, op \in {"pointer", "object"} : CheckVariable(t, op)
  BY <1>2, VariableKeeps
<1>3. CASE \E t \in Tag, m \in Members, op \in {"define", "typedef"} : CheckDefine(t, m, op)
  BY <1>3, DefineKeeps
<1>4. CASE \E v \in DOMAIN variables : CheckAccess(v)
  BY <1>4, AccessKeeps
<1>5. CASE CheckEnterScope
  BY <1>5, EnterScopeKeeps
<1>6. CASE CheckExitScope
  BY <1>6, ExitScopeKeeps
<1>7. CASE CheckEndOfUnit
  <2>1. pc' = "generate" /\ nodes' = nodes /\ meant' = meant /\ departed' = departed
    BY <1>7 DEF CheckEndOfUnit, EndOfUnit
  <2> QED
    BY <2>1 DEF IInv, NothingIsRejectedButForDepartures
<1>8. CASE (Generate \/ Finish) /\ UNCHANGED cvars
  <2>1. /\ pc' \in {"generate", "done"} /\ nodes' = nodes /\ meant' = meant
        /\ departed' = departed
    BY <1>8 DEF Generate, Finish, checker, cvars
  <2> QED
    BY <2>1 DEF IInv, NothingIsRejectedButForDepartures
<1>9. CASE UNCHANGED allvars
  BY <1>9 DEF allvars, vars, checker, generator, cvars, IInv, Checking, Remembered,
              NothingIsRejectedButForDepartures
<1>10. CASE Stopped /\ UNCHANGED cvars
  <2>1. UNCHANGED allvars
    BY <1>10 DEF Stopped, allvars
  <2> QED
    BY <1>9, <2>1
<1> QED
  BY <1>1, <1>2, <1>3, <1>4, <1>5, <1>6, <1>7, <1>8, <1>9, <1>10 DEF CheckNext

THEOREM Invariance == CheckSpec => []IInv
<1>1. CheckInit => IInv
  BY InitHolds
<1>2. IInv /\ [CheckNext]_allvars => IInv'
  BY StepKeeps
<1> QED
  BY <1>1, <1>2, PTL DEF CheckSpec

(* visit of a Struct leaves the same identity at two nodes exactly when    *)
(* they are about the same structure of C, but for structures that a       *)
(* mention declares and those that `struct t;' declares over another.      *)
THEOREM IdentitiesAreThoseOfC == CheckSpec => []SameTypeButForDepartures
<1>1. ASSUME IInv
      PROVE  SameTypeButForDepartures
  <2> SUFFICES ASSUME NEW i \in DOMAIN nodes, NEW j \in DOMAIN nodes,
                      {meant[i], meant[j]} \cap departed = {}
               PROVE  nodes[i].id = nodes[j].id <=> meant[i] = meant[j]
    BY DEF SameTypeButForDepartures
  <2> DEFINE p == <<meant[i], nodes[i].id>>
             q == <<meant[j], nodes[j].id>>
  <2>1. p \in Pairs(meant, nodes) /\ q \in Pairs(meant, nodes)
    BY DEF Pairs
  <2>2. p[1] \notin departed
    OBVIOUS
  <2>3. p[1] = q[1] <=> p[2] = q[2]
    BY <1>1, <2>1, <2>2 DEF IInv, Matched
  <2> QED
    BY <2>3
<1> QED
  BY <1>1, Invariance, PTL

(* The type checker refuses no definition and no access that C allows, but *)
(* for those structures: an identity has its members when the structure is *)
(* complete, and not before.                                               *)
THEOREM DefinitionsAreAccepted == CheckSpec => []NothingIsRejectedButForDepartures
<1>1. IInv => NothingIsRejectedButForDepartures
  BY DEF IInv
<1> QED
  BY <1>1, Invariance, PTL

-----------------------------------------------------------------------------
(***************************************************************************)
(* What the code generator finds                                           *)
(*                                                                         *)
(* An identity has its type of LLVM if a node has registered it before it  *)
(* is asked for.  For that the nodes have to say where each identity that  *)
(* is asked for comes from (NodesAre), which the type checker sees to      *)
(* since its scopes hold nothing else (Sources).                           *)
(***************************************************************************)

(* The node n gives the tag t to the identity id.                          *)
Tags(n, t, id) ==
  \/ n.tag = t /\ n.id = id
  \/ /\ n.op \in {"define", "typedef"} /\ n.member.op = "nested"
     /\ n.member.tag = t /\ n.memberID = id

TaggedBefore(ns, k, t, id) == \E h \in 1..k - 1 : Tags(ns[h], t, id)

(* The identity is that of a variable that one of the first nodes declares *)
DeclaredBefore(ns, k, t, id) ==
  \E j \in 1..k - 1 : /\ ns[j].op \in {"pointer", "object", "typedef"}
                      /\ ns[j].tag = t /\ ns[j].id = id

(* What the code generator relies on: M are the identities with members.   *)
NodeIs(ns, i, M) ==
  /\ ns[i].op \in {"object", "access"} => ns[i].id \in M
  /\ ns[i].op = "access" => DeclaredBefore(ns, i, ns[i].tag, ns[i].id)
  /\ ns[i].op = "typedef" => ns[i].member.op = "none"
  /\ ns[i].op = "define" /\ ns[i].member.op = "member" =>
       /\ ns[i].memberID \in M /\ ns[i].memberID # ns[i].id
       /\ TaggedBefore(ns, i, ns[i].member.tag, ns[i].memberID)

OneTag(ns) ==
  \A t, u, id : TaggedBefore(ns, Len(ns) + 1, t, id) /\ TaggedBefore(ns, Len(ns) + 1, u, id) => t = u

NodesAre(ns, M) ==
  /\ ns \in Seq(Node)
  /\ OneTag(ns)
  /\ \A i \in 1..Len(ns) : NodeIs(ns, i, M)

(* The structures in C have members in M; no two entries are of the same.  *)
Finished(context, structs, C, M) ==
  /\ \A i, j \in 1..Len(structs), t, u \in Tag :
       structs[i][t] # None /\ structs[i][t] = structs[j][u] => i = j /\ t = u
  /\ \A i \in 1..Len(structs), t \in Tag : structs[i][t] \in C => context[i][t] \in M

Entries(context, ns) ==
  \A i \in 1..Len(context), t \in Tag :
    context[i][t] # None => TaggedBefore(ns, Len(ns) + 1, t, context[i][t])

Holders(vs, ns) ==
  \A v \in 1..Len(vs) : DeclaredBefore(ns, Len(ns) + 1, vs[v].tag, vs[v].id)

(* The identities that have a tag are among those before m.                *)
TagsBelow(ns, m) == \A t, id : TaggedBefore(ns, Len(ns) + 1, t, id) => id \in 1..m - 1

Sources ==
  /\ Entries(typeContext, nodes) /\ Holders(variables, nodes) /\ TagsBelow(nodes, nextID)
  /\ Finished(typeContext, scope, complete, structMap)

(* An identity that may be given to a tag: it has it, or is a new one.     *)
MayHave(ns, t, id) ==
  TaggedBefore(ns, Len(ns) + 1, t, id) \/ \A u : ~TaggedBefore(ns, Len(ns) + 1, u, id)

(* All that has a tag or is declared still has or is.                      *)
MoreTagged(ns, ns2) ==
  /\ \A u, x : TaggedBefore(ns, Len(ns) + 1, u, x) => TaggedBefore(ns2, Len(ns2) + 1, u, x)
  /\ \A u, x : DeclaredBefore(ns, Len(ns) + 1, u, x) => DeclaredBefore(ns2, Len(ns2) + 1, u, x)

-----------------------------------------------------------------------------
(* Nodes that are added                                                    *)

LEMMA TaggedByAppend ==
  ASSUME NEW ns \in Seq(Node), NEW n
  PROVE  /\ \A k \in 1..Len(ns) + 1 : \A t, id :
              TaggedBefore(Append(ns, n), k, t, id) <=> TaggedBefore(ns, k, t, id)
         /\ \A k \in 1..Len(ns) + 1 : \A t, id :
              DeclaredBefore(Append(ns, n), k, t, id) <=> DeclaredBefore(ns, k, t, id)
         /\ \A t, id :
              TaggedBefore(Append(ns, n), Len(Append(ns, n)) + 1, t, id) <=>
                TaggedBefore(ns, Len(ns) + 1, t, id) \/ Tags(n, t, id)
         /\ \A t, id :
              DeclaredBefore(Append(ns, n), Len(Append(ns, n)) + 1, t, id) <=>
                \/ DeclaredBefore(ns, Len(ns) + 1, t, id)
                \/ n.op \in {"pointer", "object", "typedef"} /\ n.tag = t /\ n.id = id
<1> DEFINE len == Len(ns)
           ns2 == Append(ns, n)
<1>1. len \in Nat /\ Len(ns2) = len + 1
  OBVIOUS
<1>2. (\A i \in 1..len : ns2[i] = ns[i]) /\ ns2[len + 1] = n
  OBVIOUS
<1> HIDE DEF ns2, len
<1>3. \A k \in 1..len + 1 : \A h \in 1..k - 1 : ns2[h] = ns[h]
  BY <1>1, <1>2
<1>4. (len + 1) - 1 = len /\ ((len + 1) + 1) - 1 = len + 1 /\ len + 1 \in 1..len + 1
  BY <1>1
<1>5. \A i : i \in 1..len + 1 <=> i \in 1..len \/ i = len + 1
  BY <1>1
<1>6. \A k \in 1..len + 1 : \A t, id : TaggedBefore(ns2, k, t, id) <=> TaggedBefore(ns, k, t, id)
  BY <1>3 DEF TaggedBefore
<1>7. \A k \in 1..len + 1 : \A t, id : DeclaredBefore(ns2, k, t, id) <=> DeclaredBefore(ns, k, t, id)
  BY <1>3 DEF DeclaredBefore
<1>8. \A t, id : TaggedBefore(ns2, (len + 1) + 1, t, id) <=>
                   TaggedBefore(ns, len + 1, t, id) \/ Tags(n, t, id)
  BY <1>2, <1>4, <1>5 DEF TaggedBefore
<1>9. \A t, id : DeclaredBefore(ns2, (len + 1) + 1, t, id) <=>
                   \/ DeclaredBefore(ns, len + 1, t, id)
                   \/ n.op \in {"pointer", "object", "typedef"} /\ n.tag = t /\ n.id = id
  BY <1>2, <1>4, <1>5 DEF DeclaredBefore
<1> QED
  BY <1>1, <1>6, <1>7, <1>8, <1>9 DEF ns2, len

(* What a new node has to be                                               *)
LEMMA NodesAreKept ==
  ASSUME NEW ns, NEW M, NodesAre(ns, M), NEW M2, M \subseteq M2, NEW n \in Node,
         \A t, id : Tags(n, t, id) => MayHave(ns, t, id),
         \A t, u, id : Tags(n, t, id) /\ Tags(n, u, id) => t = u,
         n.op \in {"object", "access"} => n.id \in M2,
         n.op = "access" => DeclaredBefore(ns, Len(ns) + 1, n.tag, n.id),
         n.op = "typedef" => n.member.op = "none",
         n.op = "define" /\ n.member.op = "member" =>
           /\ n.memberID \in M2 /\ n.memberID # n.id
           /\ TaggedBefore(ns, Len(ns) + 1, n.member.tag, n.memberID)
  PROVE  NodesAre(Append(ns, n), M2)
<1> DEFINE ns2 == Append(ns, n)
           len == Len(ns)
<1>1. ns \in Seq(Node) /\ len \in Nat
  BY DEF NodesAre
<1>2. ns2 \in Seq(Node) /\ Len(ns2) = len + 1 /\ (\A i \in 1..len : ns2[i] = ns[i]) /\ ns2[len + 1] = n
  BY <1>1
<1>3. /\ \A k \in 1..len + 1 : \A t, id : TaggedBefore(ns2, k, t, id) <=> TaggedBefore(ns, k, t, id)
      /\ \A k \in 1..len + 1 : \A t, id : DeclaredBefore(ns2, k, t, id) <=> DeclaredBefore(ns, k, t, id)
      /\ \A t, id : TaggedBefore(ns2, Len(ns2) + 1, t, id) <=>
                      TaggedBefore(ns, len + 1, t, id) \/ Tags(n, t, id)
  BY <1>1, TaggedByAppend
<1> HIDE DEF ns2
<1>4. OneTag(ns2)
  <2> SUFFICES ASSUME NEW t, NEW u, NEW id, TaggedBefore(ns2, Len(ns2) + 1, t, id),
                      TaggedBefore(ns2, Len(ns2) + 1, u, id)
               PROVE  t = u
    BY DEF OneTag
  <2>1. OneTag(ns)
    BY DEF NodesAre
  <2>2. /\ TaggedBefore(ns, len + 1, t, id) \/ Tags(n, t, id)
        /\ TaggedBefore(ns, len + 1, u, id) \/ Tags(n, u, id)
    BY <1>3
  <2> QED
    BY <2>1, <2>2 DEF OneTag, MayHave
<1>5. ASSUME NEW i \in 1..len
      PROVE  NodeIs(ns2, i, M2)
  <2>1. NodeIs(ns, i, M)
    BY DEF NodesAre
  <2>2. i \in 1..len + 1 /\ ns2[i] = ns[i]
    BY <1>1, <1>2
  <2> QED
    BY <1>3, <2>1, <2>2 DEF NodeIs
<1>6. NodeIs(ns2, len + 1, M2)
  <2>1. len + 1 \in 1..len + 1
    BY <1>1
  <2> QED
    BY <1>2, <1>3, <2>1 DEF NodeIs
<1>7. \A i \in 1..Len(ns2) : i \in 1..len \/ i = len + 1
  BY <1>1, <1>2
<1> QED
  BY <1>2, <1>4, <1>5, <1>6, <1>7 DEF NodesAre, ns2

LEMMA EntriesInserted ==
  ASSUME NEW n \in Nat, NEW context \in Stack(n), Len(context) > 0,
         NEW ns, NEW ns2, NEW t \in Tag, NEW id \in Nat,
         Entries(context, ns),
         MoreTagged(ns, ns2),
         TaggedBefore(ns2, Len(ns2) + 1, t, id)
  PROVE  Entries(insertType(context, t, id), ns2)
<1> DEFINE c2 == insertType(context, t, id)
           len == Len(context)
<1> USE DEF MoreTagged
<1>1. PICK m \in Nat : n <= m /\ id <= m
  <2> DEFINE m == n + id
  <2>1. m \in Nat /\ n <= m /\ id <= m
    OBVIOUS
  <2> HIDE DEF m
  <2> QED
    BY <2>1
<1>2. id \in 0..m
  BY <1>1
<1>3. /\ Len(c2) = len /\ c2[len][t] = id
      /\ \A i \in 1..len, u \in Tag : i # len \/ u # t => c2[i][u] = context[i][u]
  <2> HIDE DEF c2, len
  <2> QED
    BY <1>1, <1>2, InsertedType DEF c2, len
<1> HIDE DEF c2, len
<1>4. ASSUME NEW i \in 1..len, NEW u \in Tag, c2[i][u] # None
      PROVE  TaggedBefore(ns2, Len(ns2) + 1, u, c2[i][u])
  <2>1. CASE i = len /\ u = t
    BY <1>3, <2>1
  <2>2. CASE i # len \/ u # t
    <3>1. c2[i][u] = context[i][u]
      BY <1>3, <2>2
    <3>2. TaggedBefore(ns, Len(ns) + 1, u, context[i][u])
      BY <1>4, <3>1 DEF Entries, len
    <3> QED
      BY <3>1, <3>2
  <2> QED
    BY <2>1, <2>2
<1> QED
  BY <1>3, <1>4 DEF Entries, c2

LEMMA EntriesKept ==
  ASSUME NEW context, NEW ns, NEW ns2, Entries(context, ns),
         MoreTagged(ns, ns2)
  PROVE  Entries(context, ns2)
BY DEF Entries, MoreTagged

(* An entry, and what is looked up, has the tag.                           *)
LEMMA FoundIsTagged ==
  ASSUME NEW n \in Nat, NEW context \in Stack(n), Len(context) > 0, NEW ns,
         Entries(context, ns), NEW t \in Tag
  PROVE  /\ lookupIn(context, t) # None => TaggedBefore(ns, Len(ns) + 1, t, lookupIn(context, t))
         /\ Here(context, t) # None => TaggedBefore(ns, Len(ns) + 1, t, Here(context, t))
<1>1. Len(context) \in 1..Len(context)
  BY DEF Stack
<1>2. lookupIn(context, t) # None =>
        \E i \in 1..Len(context) : lookupIn(context, t) = context[i][t] /\ context[i][t] # None
  BY LookupIsInnermost
<1> QED
  BY <1>1, <1>2 DEF Entries, Here

(* At most the entry of t in the last scope differs.                       *)
SameBut(context, context2, len, t) ==
  \A i \in 1..len, u \in Tag : i # len \/ u # t => context2[i][u] = context[i][u]

(* One entry is changed, to that of a new structure or of the same.        *)
SameOrNew(structs, structs2, len, t) ==
  \/ structs2[len][t] = structs[len][t]
  \/ \A i \in 1..len, u \in Tag : structs[i][u] # structs2[len][t]

LEMMA FinishedChanged ==
  ASSUME NEW context, NEW structs, NEW C, NEW M, Finished(context, structs, C, M),
         NEW context2, NEW structs2, NEW len, Len(structs) = len, Len(structs2) = len,
         NEW t \in Tag, len \in 1..len,
         SameBut(context, context2, len, t), SameBut(structs, structs2, len, t),
         SameOrNew(structs, structs2, len, t),
         structs2[len][t] \in C => context2[len][t] \in M
  PROVE  Finished(context2, structs2, C, M)
<1> USE DEF SameBut, SameOrNew
<1>1. ASSUME NEW i \in 1..len, NEW j \in 1..len, NEW u \in Tag, NEW w \in Tag,
             structs2[i][u] # None, structs2[i][u] = structs2[j][w]
      PROVE  i = j /\ u = w
  <2>1. \A h \in 1..len, x \in Tag : h # len \/ x # t => structs2[h][x] = structs[h][x]
    OBVIOUS
  <2>2. \A h, g \in 1..len, x, y \in Tag :
          structs[h][x] # None /\ structs[h][x] = structs[g][y] => h = g /\ x = y
    BY DEF Finished
  <2>3. CASE structs2[len][t] = structs[len][t]
    <3>1. \A h \in 1..len, x \in Tag : structs2[h][x] = structs[h][x]
      BY <2>1, <2>3
    <3> QED
      BY <1>1, <2>2, <3>1
  <2>4. CASE \A h \in 1..len, x \in Tag : structs[h][x] # structs2[len][t]
    BY <1>1, <2>1, <2>2, <2>4
  <2> QED
    BY <2>3, <2>4
<1>2. ASSUME NEW i \in 1..len, NEW u \in Tag, structs2[i][u] \in C
      PROVE  context2[i][u] \in M
  <2>1. CASE i = len /\ u = t
    BY <1>2, <2>1
  <2>2. CASE i # len \/ u # t
    BY <1>2, <2>2 DEF Finished
  <2> QED
    BY <2>1, <2>2
<1> QED
  BY <1>1, <1>2 DEF Finished

(* The structure of an entry is completed.                                 *)
LEMMA FinishedEnded ==
  ASSUME NEW context, NEW structs, NEW C, NEW M, Finished(context, structs, C, M),
         NEW i \in 1..Len(structs), NEW t \in Tag, structs[i][t] # None
  PROVE  Finished(context, structs, C \cup {structs[i][t]}, M \cup {context[i][t]})
<1>1. ASSUME NEW j \in 1..Len(structs), NEW u \in Tag, structs[j][u] \in C \cup {structs[i][t]}
      PROVE  context[j][u] \in M \cup {context[i][t]}
  <2>1. CASE structs[j][u] \in C
    BY <2>1 DEF Finished
  <2>2. CASE structs[j][u] = structs[i][t]
    <3>1. i = j /\ t = u
      BY <2>2 DEF Finished
    <3> QED
      BY <3>1
  <2> QED
    BY <1>1, <2>1, <2>2
<1> QED
  BY <1>1 DEF Finished

LEMMA FinishedPushed ==
  ASSUME NEW n \in Nat, NEW context \in Stack(n), NEW k \in Nat, NEW structs \in Stack(k),
         Len(structs) = Len(context),
         NEW C, NEW M, None \notin C, Finished(context, structs, C, M)
  PROVE  Finished(Append(context, NoTags), Append(structs, NoTags), C, M)
<1> DEFINE c2 == Append(context, NoTags)
           s2 == Append(structs, NoTags)
           len == Len(structs)
<1>1. len \in Nat /\ Len(s2) = len + 1
  BY DEF Stack
<1>2. /\ \A i \in 1..len : c2[i] = context[i] /\ s2[i] = structs[i]
      /\ s2[len + 1] = NoTags
  BY DEF Stack
<1>3. \A t \in Tag : NoTags[t] = None
  BY DEF NoTags
<1>4. \A i \in 1..len + 1 : i \in 1..len \/ i = len + 1
  BY <1>1
<1> HIDE DEF c2, s2, len
<1>5. \A i, j \in 1..len + 1, t, u \in Tag :
        s2[i][t] # None /\ s2[i][t] = s2[j][u] => i = j /\ t = u
  <2>1. \A i \in 1..len + 1, t \in Tag : s2[i][t] # None => i \in 1..len /\ s2[i][t] = structs[i][t]
    BY <1>2, <1>3, <1>4
  <2>2. \A i, j \in 1..len, t, u \in Tag :
          structs[i][t] # None /\ structs[i][t] = structs[j][u] => i = j /\ t = u
    BY DEF Finished, len
  <2> QED
    BY <2>1, <2>2
<1>6. \A i \in 1..len + 1, t \in Tag : s2[i][t] \in C => c2[i][t] \in M
  <2>1. \A i \in 1..len, t \in Tag : structs[i][t] \in C => context[i][t] \in M
    BY DEF Finished, len
  <2> QED
    BY <1>2, <1>3, <1>4, <2>1
<1> QED
  BY <1>1, <1>5, <1>6 DEF Finished, c2, s2

LEMMA EntriesPushed ==
  ASSUME NEW n \in Nat, NEW context \in Stack(n), NEW ns, Entries(context, ns)
  PROVE  Entries(Append(context, NoTags), ns)
<1> DEFINE c2 == Append(context, NoTags)
           len == Len(context)
<1>1. len \in Nat /\ Len(c2) = len + 1
  BY DEF Stack
<1>2. (\A i \in 1..len : c2[i] = context[i]) /\ c2[len + 1] = NoTags
  BY DEF Stack
<1>3. \A t \in Tag : NoTags[t] = None
  BY DEF NoTags
<1>4. \A i \in 1..len + 1 : i \in 1..len \/ i = len + 1
  BY <1>1
<1> HIDE DEF c2
<1> QED
  BY <1>1, <1>2, <1>3, <1>4 DEF Entries, c2

(* Fewer scopes                                                            *)
LEMMA SourcesPopped ==
  ASSUME NEW n \in Nat, NEW context \in Stack(n), NEW k \in Nat, NEW structs \in Stack(k),
         NEW len \in Nat, Len(context) = len + 1, Len(structs) = len + 1,
         NEW C, NEW M, Finished(context, structs, C, M), NEW ns, Entries(context, ns)
  PROVE  /\ Finished(SubSeq(context, 1, len), SubSeq(structs, 1, len), C, M)
         /\ Entries(SubSeq(context, 1, len), ns)
<1> DEFINE c2 == SubSeq(context, 1, len)
           s2 == SubSeq(structs, 1, len)
<1>1. Len(c2) = len /\ Len(s2) = len
  BY DEF Stack
<1>2. \A i \in 1..len : c2[i] = context[i] /\ s2[i] = structs[i]
  BY DEF Stack
<1>3. \A i \in 1..len : i \in 1..len + 1
  OBVIOUS
<1> HIDE DEF c2, s2
<1>4. Finished(c2, s2, C, M)
  <2>1. \A i, j \in 1..len, t, u \in Tag :
          s2[i][t] # None /\ s2[i][t] = s2[j][u] => i = j /\ t = u
    BY <1>2, <1>3 DEF Finished
  <2>2. \A i \in 1..len, t \in Tag : s2[i][t] \in C => c2[i][t] \in M
    BY <1>2, <1>3 DEF Finished
  <2> QED
    BY <1>1, <2>1, <2>2 DEF Finished
<1>5. Entries(c2, ns)
  BY <1>1, <1>2, <1>3 DEF Entries
<1> QED
  BY <1>4, <1>5 DEF c2, s2

(* A tag that is of a complete structure has an identity with members.     *)
LEMMA FoundIsFinished ==
  ASSUME NEW context, NEW structs, NEW P, NEW D, NEW k, NEW m, NEW C, NEW M,
         Sound(context, structs, P, D, k, m, C, M), Finished(context, structs, C, M),
         NEW t \in Tag, lookupIn(structs, t) \in C
  PROVE  lookupIn(context, t) \in M /\ lookupIn(context, t) # None
<1>1. /\ context \in Stack(m - 1) /\ structs \in Stack(k) /\ Len(structs) = Len(context)
      /\ Aligned(context, structs, D) /\ k \in Nat /\ m \in Nat \ {0}
  BY ONLY Sound(context, structs, P, D, k, m, C, M), SoundFacts
<1>2. C \subseteq 1..k /\ M \subseteq 1..m - 1
  BY DEF Sound, Related
<1>3. None \notin C /\ None \notin M
  BY <1>1, <1>2 DEF None
<1>4. PICK i \in 1..Len(context) : /\ lookupIn(structs, t) = structs[i][t]
                                   /\ lookupIn(context, t) = context[i][t]
  BY <1>1, <1>3, LookupInSameScope
<1>5. context[i][t] \in M
  BY <1>1, <1>4 DEF Finished
<1> QED
  BY <1>3, <1>4, <1>5

(* The identity of a tag is one that was found for it, or the next one.    *)
LEMMA GivenMayHave ==
  ASSUME NEW ns, NEW m0 \in Nat, NEW m \in Nat \ {0}, m0 <= m, TagsBelow(ns, m0),
         NEW t, NEW found \in 0..m - 1,
         found # None => TaggedBefore(ns, Len(ns) + 1, t, found),
         NEW d, d = IF found = None THEN m ELSE found
  PROVE  /\ MayHave(ns, t, d)
         /\ d \in Nat \ {0} /\ d \in 1..NextAfter(d, m) - 1
         /\ NextAfter(d, m) \in Nat /\ m <= NextAfter(d, m)
<1>1. CASE found # None
  <2>1. d = found /\ d # m /\ d \in 1..m - 1
    BY <1>1 DEF None
  <2>2. NextAfter(d, m) = m
    BY <2>1 DEF NextAfter
  <2> QED
    BY <1>1, <2>1, <2>2 DEF MayHave
<1>2. CASE found = None
  <2>1. d = m /\ NextAfter(d, m) = m + 1
    BY <1>2 DEF NextAfter
  <2>2. \A u : ~TaggedBefore(ns, Len(ns) + 1, u, m)
    BY DEF TagsBelow
  <2> QED
    BY <2>1, <2>2 DEF MayHave
<1> QED
  BY <1>1, <1>2

LEMMA PlainTags ==
  ASSUME NEW op \in {"forward", "pointer", "object", "access"}, NEW t \in Tag, NEW id \in Nat,
         NEW n, n = [op |-> op, tag |-> t, id |-> id]
  PROVE  /\ n \in Node /\ n.op = op /\ n.tag = t /\ n.id = id
         /\ \A u, x : Tags(n, u, x) <=> u = t /\ x = id
BY DEF Node, Tags

(* The identities that have been given out, and those with d, are before   *)
(* m2; the nodes that a declaration and a definition add                   *)
GivenNext(m, d, m2) == m <= m2 /\ d \in 1..m2 - 1

PlainAdded(ns, ns2, op, t, id) == ns2 = Append(ns, [op |-> op, tag |-> t, id |-> id])
DefinitionAdded(ns, ns2, op, t, id, m, i) ==
  ns2 = Append(ns, [op |-> op, tag |-> t, id |-> id, member |-> m, memberID |-> i])

(* A plain node is added.                                                  *)
LEMMA PlainSourced ==
  ASSUME NEW ns, NEW M, NodesAre(ns, M), NEW m \in Nat, TagsBelow(ns, m),
         NEW op \in {"forward", "pointer", "object", "access"}, NEW t \in Tag,
         NEW id \in Nat, NEW m2 \in Nat, GivenNext(m, id, m2), MayHave(ns, t, id),
         op \in {"object", "access"} => id \in M,
         op = "access" => DeclaredBefore(ns, Len(ns) + 1, t, id),
         NEW ns2, PlainAdded(ns, ns2, op, t, id)
  PROVE  /\ NodesAre(ns2, M) /\ TagsBelow(ns2, m2)
         /\ TaggedBefore(ns2, Len(ns2) + 1, t, id)
         /\ MoreTagged(ns, ns2)
         /\ op \in {"pointer", "object"} => DeclaredBefore(ns2, Len(ns2) + 1, t, id)
<1> USE DEF GivenNext, PlainAdded, MoreTagged
<1>1. PICK n \in Node : /\ n = [op |-> op, tag |-> t, id |-> id]
                        /\ n.op = op /\ n.tag = t /\ n.id = id
                        /\ \A u, x : Tags(n, u, x) <=> u = t /\ x = id
  BY PlainTags
<1>2. ns2 = Append(ns, n)
  BY <1>1
<1>3. ns \in Seq(Node)
  BY DEF NodesAre
<1>4. /\ \A u, x : TaggedBefore(ns2, Len(ns2) + 1, u, x) <=>
                     TaggedBefore(ns, Len(ns) + 1, u, x) \/ Tags(n, u, x)
      /\ \A u, x : DeclaredBefore(ns2, Len(ns2) + 1, u, x) <=>
                     \/ DeclaredBefore(ns, Len(ns) + 1, u, x)
                     \/ n.op \in {"pointer", "object", "typedef"} /\ n.tag = u /\ n.id = x
  BY ONLY <1>2, <1>3, TaggedByAppend
<1>5. NodesAre(Append(ns, n), M)
  <2>1. \A u, x : Tags(n, u, x) => MayHave(ns, u, x)
    BY <1>1
  <2>2. \A u, w, x : Tags(n, u, x) /\ Tags(n, w, x) => u = w
    BY <1>1
  <2>3. n.op \notin {"define", "typedef"}
    BY <1>1
  <2> QED
    BY <1>1, <2>1, <2>2, <2>3, NodesAreKept
<1>6. TagsBelow(ns2, m2)
  <2>1. \A x : x \in 1..m - 1 => x \in 1..m2 - 1
    OBVIOUS
  <2> QED
    BY <1>1, <1>4, <2>1 DEF TagsBelow
<1> QED
  BY <1>1, <1>2, <1>4, <1>5, <1>6

LEMMA DefinitionTags ==
  ASSUME NEW op \in {"define", "typedef"}, NEW t \in Tag, NEW id \in Nat, NEW mem \in Members,
         NEW i \in Nat,
         NEW n, n = [op |-> op, tag |-> t, id |-> id, member |-> mem, memberID |-> i]
  PROVE  /\ n \in Node /\ n.op = op /\ n.tag = t /\ n.id = id /\ n.member = mem /\ n.memberID = i
         /\ \A u, x : Tags(n, u, x) <=> \/ u = t /\ x = id
                                        \/ mem.op = "nested" /\ u = mem.tag /\ x = i
<1>1. n \in Node /\ n.op = op /\ n.tag = t /\ n.id = id /\ n.member = mem /\ n.memberID = i
  BY DEF Node
<1> QED
  BY <1>1 DEF Tags

(* The identity i of the member of a definition of id                      *)
MemberFits(ns, mem, id, i, m2, M2) ==
  /\ mem.op = "nested" => MayHave(ns, mem.tag, i) /\ i \in 1..m2 - 1 /\ i # id
  /\ mem.op = "member" => i \in M2 /\ i # id /\ TaggedBefore(ns, Len(ns) + 1, mem.tag, i)

(* A definition is added.                                                  *)
LEMMA DefinitionSourced ==
  ASSUME NEW ns, NEW M, NodesAre(ns, M), NEW m \in Nat, TagsBelow(ns, m),
         NEW op \in {"define", "typedef"}, NEW t \in Tag, NEW mem \in Members,
         NEW id \in Nat, NEW i \in Nat, NEW m2 \in Nat, GivenNext(m, id, m2),
         MayHave(ns, t, id), NEW M2, M \subseteq M2,
         op = "typedef" => mem = NoMember,
         MemberFits(ns, mem, id, i, m2, M2),
         NEW ns2, DefinitionAdded(ns, ns2, op, t, id, mem, i)
  PROVE  /\ NodesAre(ns2, M2) /\ TagsBelow(ns2, m2)
         /\ TaggedBefore(ns2, Len(ns2) + 1, t, id)
         /\ mem.op = "nested" => TaggedBefore(ns2, Len(ns2) + 1, mem.tag, i)
         /\ MoreTagged(ns, ns2)
         /\ op = "typedef" => DeclaredBefore(ns2, Len(ns2) + 1, t, id)
<1> USE DEF GivenNext, DefinitionAdded, MoreTagged, MemberFits
<1>1. PICK n \in Node :
        /\ n = [op |-> op, tag |-> t, id |-> id, member |-> mem, memberID |-> i]
        /\ n.op = op /\ n.tag = t /\ n.id = id /\ n.member = mem /\ n.memberID = i
        /\ \A u, x : Tags(n, u, x) <=> \/ u = t /\ x = id
                                       \/ mem.op = "nested" /\ u = mem.tag /\ x = i
  BY DefinitionTags
<1>2. ns2 = Append(ns, n)
  BY <1>1
<1>3. ns \in Seq(Node)
  BY DEF NodesAre
<1>4. /\ \A u, x : TaggedBefore(ns2, Len(ns2) + 1, u, x) <=>
                     TaggedBefore(ns, Len(ns) + 1, u, x) \/ Tags(n, u, x)
      /\ \A u, x : DeclaredBefore(ns2, Len(ns2) + 1, u, x) <=>
                     \/ DeclaredBefore(ns, Len(ns) + 1, u, x)
                     \/ n.op \in {"pointer", "object", "typedef"} /\ n.tag = u /\ n.id = x
  BY ONLY <1>2, <1>3, TaggedByAppend
<1>5. NodesAre(Append(ns, n), M2)
  <2>1. \A u, x : Tags(n, u, x) => MayHave(ns, u, x)
    BY <1>1
  <2>2. \A u, w, x : Tags(n, u, x) /\ Tags(n, w, x) => u = w
    BY <1>1
  <2>3. n.op = "typedef" => n.member.op = "none"
    BY <1>1 DEF NoMember
  <2>4. n.op \notin {"object", "access"}
    BY <1>1
  <2> QED
    BY <1>1, <2>1, <2>2, <2>3, <2>4, NodesAreKept
<1>6. TagsBelow(ns2, m2)
  <2>1. \A x : x \in 1..m - 1 => x \in 1..m2 - 1
    OBVIOUS
  <2> QED
    BY <1>1, <1>4, <2>1 DEF TagsBelow
<1> QED
  BY <1>1, <1>2, <1>4, <1>5, <1>6

(* What the nodes say, and while there are scopes, where it comes from     *)
Sourced == NodesAre(nodes, structMap) /\ (pc = "check" => Sources)

LEMMA SourcedFacts ==
  ASSUME Checking, Sourced, pc = "check"
  PROVE  /\ NodesAre(nodes, structMap) /\ Entries(typeContext, nodes) /\ Holders(variables, nodes)
         /\ TagsBelow(nodes, nextID) /\ Finished(typeContext, scope, complete, structMap)
         /\ Sound(typeContext, scope, Remembered, departed, structures, nextID, complete, structMap)
         /\ structures \in Nat /\ nextID \in Nat \ {0} /\ nextID - 1 \in Nat
         /\ typeContext \in Stack(nextID - 1) /\ scope \in Stack(structures)
         /\ Len(typeContext) \in Nat \ {0} /\ Len(scope) = Len(typeContext)
         /\ Len(typeContext) > 0 /\ Len(scope) > 0
         /\ Len(typeContext) \in 1..Len(typeContext)
         /\ complete \subseteq 1..structures /\ structMap \subseteq 1..nextID - 1
         /\ None \notin complete /\ None \notin structMap
<1>1. Sound(typeContext, scope, Remembered, departed, structures, nextID, complete, structMap)
  BY CheckingFacts
<1>2. /\ structures \in Nat /\ nextID \in Nat \ {0} /\ nextID - 1 \in Nat
      /\ typeContext \in Stack(nextID - 1) /\ scope \in Stack(structures)
      /\ Len(typeContext) \in Nat \ {0} /\ Len(scope) = Len(typeContext)
  BY ONLY <1>1, SoundFacts
<1>3. Len(typeContext) > 0 /\ Len(scope) > 0 /\ Len(typeContext) \in 1..Len(typeContext)
  BY <1>2
<1>4. complete \subseteq 1..structures /\ structMap \subseteq 1..nextID - 1
  BY <1>1 DEF Sound, Related
<1>5. None \notin complete /\ None \notin structMap
  BY <1>2, <1>4 DEF None
<1>6. /\ NodesAre(nodes, structMap) /\ Entries(typeContext, nodes) /\ Holders(variables, nodes)
      /\ TagsBelow(nodes, nextID) /\ Finished(typeContext, scope, complete, structMap)
  BY DEF Sourced, Sources
<1> QED
  BY <1>1, <1>2, <1>3, <1>4, <1>5, <1>6

(* The identity of a tag that is mentioned                                 *)
LEMMA MentionedMayHave ==
  ASSUME Checking, Sourced, pc = "check", NEW t \in Tag,
         NEW d, d = MentionedID(typeContext, nextID, t)
  PROVE  /\ MayHave(nodes, t, d) /\ d \in Nat \ {0} /\ GivenNext(nextID, d, NextAfter(d, nextID))
         /\ NextAfter(d, nextID) \in Nat /\ nextID \in Nat
         /\ Visible(t) \in complete => d \in structMap
<1> DEFINE found == lookupIn(typeContext, t)
<1>1. /\ Entries(typeContext, nodes) /\ TagsBelow(nodes, nextID)
      /\ Finished(typeContext, scope, complete, structMap)
      /\ Sound(typeContext, scope, Remembered, departed, structures, nextID, complete, structMap)
      /\ nextID \in Nat \ {0} /\ nextID - 1 \in Nat
      /\ typeContext \in Stack(nextID - 1) /\ Len(typeContext) > 0
  BY SourcedFacts
<1>2. found \in 0..nextID - 1
  BY <1>1, LookupTypes
<1>3. found # None => TaggedBefore(nodes, Len(nodes) + 1, t, found)
  BY <1>1, FoundIsTagged
<1>4. d = IF found = None THEN nextID ELSE found
  BY DEF MentionedID
<1>5. nextID \in Nat /\ nextID <= nextID
  BY <1>1
<1> HIDE DEF found
<1>6. /\ MayHave(nodes, t, d) /\ d \in Nat \ {0} /\ d \in 1..NextAfter(d, nextID) - 1
      /\ NextAfter(d, nextID) \in Nat /\ nextID <= NextAfter(d, nextID)
  BY ONLY <1>1, <1>2, <1>3, <1>4, <1>5, GivenMayHave
<1>7. Visible(t) \in complete => d \in structMap
  <2>1. ASSUME Visible(t) \in complete
        PROVE  found \in structMap /\ found # None
    BY <1>1, <2>1, FoundIsFinished DEF Visible, found
  <2> QED
    BY <1>4, <2>1
<1> QED
  BY <1>5, <1>6, <1>7 DEF GivenNext

(* A definition enters the identity and the structure of its tag.          *)
LEMMA DefinedFinished ==
  ASSUME NEW context, NEW structs, NEW P, NEW D, NEW k, NEW m, NEW C, NEW M,
         Sound(context, structs, P, D, k, m, C, M), Finished(context, structs, C, M),
         NEW t \in Tag, NEW id, id = DefinedID(context, m, t),
         NEW s, s = DefinedStruct(structs, k, t), s \notin C
  PROVE  /\ Finished(insertType(context, t, id), insertType(structs, t, s), C, M)
         /\ Len(insertType(structs, t, s)) = Len(context)
         /\ Len(insertType(context, t, id)) = Len(context)
         /\ insertType(structs, t, s)[Len(context)][t] = s
         /\ insertType(context, t, id)[Len(context)][t] = id
         /\ SameBut(context, insertType(context, t, id), Len(context), t)
         /\ SameBut(structs, insertType(structs, t, s), Len(context), t)
         /\ s # None
<1> DEFINE len == Len(context)
           c2 == insertType(context, t, id)
           s2 == insertType(structs, t, s)
<1>1. /\ k \in Nat /\ m \in Nat \ {0} /\ m - 1 \in Nat
      /\ context \in Stack(m - 1) /\ structs \in Stack(k)
      /\ len \in Nat \ {0} /\ Len(structs) = len
  BY ONLY Sound(context, structs, P, D, k, m, C, M), SoundFacts DEF len
<1>2. len > 0 /\ len \in 1..len /\ Len(structs) > 0 /\ m \in Nat
  BY <1>1
<1>3. Here(structs, t) \in 0..k /\ Here(context, t) \in 0..m - 1
  BY <1>1, <1>2, LookupTypes
<1>4. s \in 0..k + 1 /\ s # None /\ k + 1 \in Nat /\ k <= k + 1
  BY <1>1, <1>3 DEF DefinedStruct, None
<1>5. id \in 0..m /\ m - 1 <= m
  BY <1>1, <1>3 DEF DefinedID, None
<1>6. /\ Len(s2) = len /\ s2[len][t] = s
      /\ \A i \in 1..len, u \in Tag : i # len \/ u # t => s2[i][u] = structs[i][u]
  <2> HIDE DEF s2, len
  <2> QED
    BY <1>1, <1>2, <1>4, InsertedType DEF s2
<1>7. /\ Len(c2) = len /\ c2[len][t] = id
      /\ \A i \in 1..len, u \in Tag : i # len \/ u # t => c2[i][u] = context[i][u]
  <2> HIDE DEF c2
  <2> QED
    BY <1>1, <1>2, <1>5, InsertedType DEF c2
<1> HIDE DEF c2, s2
<1>8. SameBut(context, c2, len, t) /\ SameBut(structs, s2, len, t)
  BY <1>6, <1>7 DEF SameBut
<1>9. SameOrNew(structs, s2, len, t)
  <2>1. \A i \in 1..len, u \in Tag : structs[i][u] \in 0..k
    BY <1>1 DEF Stack
  <2>2. CASE Here(structs, t) # None
    BY <1>1, <1>6, <2>2 DEF SameOrNew, DefinedStruct, Here
  <2>3. CASE Here(structs, t) = None
    <3>1. s = k + 1
      BY <2>3 DEF DefinedStruct
    <3>2. \A i \in 1..len, u \in Tag : structs[i][u] # s
      BY <1>1, <2>1, <3>1
    <3> QED
      BY <1>6, <3>2 DEF SameOrNew
  <2> QED
    BY <2>2, <2>3
<1>10. s2[len][t] \in C => c2[len][t] \in M
  BY <1>6
<1>11. Finished(context, structs, C, M) /\ t \in Tag
  OBVIOUS
<1>12. Finished(c2, s2, C, M)
  <2> HIDE DEF len
  <2> QED
    BY ONLY <1>1, <1>2, <1>6, <1>8, <1>9, <1>10, <1>11, FinishedChanged
<1> QED
  BY <1>4, <1>6, <1>7, <1>8, <1>12 DEF c2, s2

LEMMA DefinedMayHave ==
  ASSUME NEW n \in Nat, NEW context \in Stack(n), Len(context) > 0, NEW ns, Entries(context, ns),
         NEW m0 \in Nat, NEW m \in Nat \ {0}, n = m - 1, m0 <= m, TagsBelow(ns, m0), NEW t \in Tag,
         NEW d, d = DefinedID(context, m, t)
  PROVE  /\ MayHave(ns, t, d) /\ d \in Nat \ {0} /\ GivenNext(m, d, NextAfter(d, m))
         /\ NextAfter(d, m) \in Nat
<1> DEFINE found == Here(context, t)
<1>1. found \in 0..m - 1
  BY LookupTypes
<1>2. found # None => TaggedBefore(ns, Len(ns) + 1, t, found)
  BY FoundIsTagged
<1>3. d = IF found = None THEN m ELSE found
  BY DEF DefinedID
<1> HIDE DEF found
<1>4. m \in Nat \ {0} /\ m0 \in Nat /\ m0 <= m /\ TagsBelow(ns, m0) /\ t \in Tag
  OBVIOUS
<1> QED
  BY ONLY <1>1, <1>2, <1>3, <1>4, GivenMayHave DEF GivenNext

LEMMA ForwardSourced ==
  ASSUME IInv, Sourced, NEW t \in Tag, CheckForward(t)
  PROVE  Sourced'
<1>1. pc = "check" /\ Checking
  BY DEF CheckForward, Forward, CanAdd, IInv
<1>2. PICK s : /\ s = DefinedStruct(scope, structures, t)
               /\ scope' = insertType(scope, t, s) /\ complete' = complete
  BY DEF CheckForward, Declared, DefinedStruct
<1>3. PICK d : /\ d = MentionedID(typeContext, nextID, t)
               /\ typeContext' = insertType(typeContext, t, d)
               /\ nextID' = NextAfter(d, nextID)
               /\ nodes' = Append(nodes, [op |-> "forward", tag |-> t, id |-> d])
               /\ structMap' = structMap /\ variables' = variables
  BY <1>1, MentionedFacts DEF CheckForward, Forward, TakeID, NextAfter
<1>4. /\ NodesAre(nodes, structMap) /\ Entries(typeContext, nodes) /\ Holders(variables, nodes)
      /\ TagsBelow(nodes, nextID) /\ Finished(typeContext, scope, complete, structMap)
      /\ structures \in Nat /\ nextID - 1 \in Nat
      /\ typeContext \in Stack(nextID - 1) /\ scope \in Stack(structures)
      /\ Len(typeContext) > 0 /\ Len(scope) = Len(typeContext)
      /\ Len(typeContext) \in 1..Len(typeContext)
      /\ complete \subseteq 1..structures
  BY <1>1, SourcedFacts
<1>5. /\ MayHave(nodes, t, d) /\ d \in Nat /\ GivenNext(nextID, d, nextID')
      /\ nextID' \in Nat /\ nextID \in Nat
      /\ Visible(t) \in complete => d \in structMap
  BY <1>1, <1>3, MentionedMayHave
<1>6. /\ NodesAre(nodes', structMap) /\ TagsBelow(nodes', nextID')
      /\ TaggedBefore(nodes', Len(nodes') + 1, t, d)
      /\ MoreTagged(nodes, nodes')
  <2> DEFINE op == "forward"
  <2>1. op \in {"forward", "pointer", "object", "access"} /\ op \notin {"object", "access"} /\ op # "access"
    OBVIOUS
  <2>2. PlainAdded(nodes, nodes', op, t, d)
    BY <1>3 DEF PlainAdded
  <2>3. NodesAre(nodes, structMap) /\ TagsBelow(nodes, nextID)
    BY <1>4
  <2> HIDE DEF op
  <2>4. t \in Tag
    OBVIOUS
  <2>5. /\ NodesAre(nodes', structMap) /\ TagsBelow(nodes', nextID')
        /\ TaggedBefore(nodes', Len(nodes') + 1, t, d)
        /\ MoreTagged(nodes, nodes')
    BY ONLY <2>1, <2>2, <2>3, <2>4, <1>5, PlainSourced
  <2> QED
    BY <1>3, <2>5
<1>7. Entries(typeContext', nodes')
  BY <1>3, <1>4, <1>5, <1>6, EntriesInserted
<1>8. Holders(variables', nodes')
  BY <1>3, <1>4, <1>6 DEF Holders, MoreTagged
<1>9. Finished(typeContext', scope', complete, structMap)
  <2> DEFINE len == Len(typeContext)
  <2>1. PICK m \in Nat : s \in 0..m /\ structures <= m
    <3>1. Here(scope, t) \in 0..structures
      BY <1>4, LookupTypes
    <3>2. s \in 0..structures + 1 /\ structures + 1 \in Nat /\ structures <= structures + 1
      BY <1>2, <1>4, <3>1 DEF DefinedStruct
    <3> QED
      BY <3>2
  <2>2. /\ Len(scope') = len /\ scope'[len][t] = s
        /\ \A i \in 1..len, u \in Tag : i # len \/ u # t => scope'[i][u] = scope[i][u]
    BY <1>2, <1>4, <2>1, InsertedType
  <2>3. PICK m2 \in Nat : d \in 0..m2 /\ nextID - 1 <= m2
    <3>1. d + nextID \in Nat /\ d \in 0..d + nextID /\ nextID - 1 <= d + nextID
      BY <1>5
    <3> QED
      BY <3>1
  <2>4. /\ typeContext'[len][t] = d
        /\ \A i \in 1..len, u \in Tag : i # len \/ u # t => typeContext'[i][u] = typeContext[i][u]
    BY <1>3, <1>4, <2>3, InsertedType
  <2>5. \/ s = scope[len][t]
        \/ s = structures + 1 /\ \A i \in 1..len, u \in Tag : scope[i][u] # s
    <3>1. \A i \in 1..len, u \in Tag : scope[i][u] \in 0..structures
      BY <1>4 DEF Stack
    <3> QED
      BY <1>2, <1>4, <3>1 DEF DefinedStruct, Here
  <2>6. s \in complete => d \in structMap
    <3>1. ASSUME s \in complete
          PROVE  Visible(t) = s
      <4>1. Here(scope, t) # None /\ s = Here(scope, t)
        BY <1>2, <1>4, <3>1 DEF DefinedStruct
      <4>2. Len(scope) > 0
        BY <1>4
      <4> QED
        BY <1>4, <4>1, <4>2, HereIsFound DEF Visible
    <3> QED
      BY <1>5, <3>1
  <2>7. Len(scope) = len /\ Len(scope') = len /\ len \in 1..len
    BY <1>4, <2>2
  <2>8. SameBut(typeContext, typeContext', len, t) /\ SameBut(scope, scope', len, t)
    BY <2>2, <2>4 DEF SameBut
  <2>9. SameOrNew(scope, scope', len, t)
    BY <2>2, <2>5 DEF SameOrNew
  <2>10. scope'[len][t] \in complete => typeContext'[len][t] \in structMap
    BY <2>2, <2>4, <2>6
  <2>11. Finished(typeContext, scope, complete, structMap) /\ t \in Tag
    BY <1>4
  <2> HIDE DEF len
  <2> QED
    BY ONLY <2>7, <2>8, <2>9, <2>10, <2>11, FinishedChanged
<1> QED
  BY <1>2, <1>3, <1>6, <1>7, <1>8, <1>9 DEF Sourced, Sources

LEMMA VariableSourced ==
  ASSUME IInv, Sourced, NEW t \in Tag, NEW op \in {"pointer", "object"}, CheckVariable(t, op)
  PROVE  Sourced'
<1>1. pc = "check" /\ Checking /\ (op = "object" => Visible(t) \in complete)
  BY DEF CheckVariable, Variable, CanAdd, IInv
<1>2. PICK s : /\ s = MentionedStruct(scope, structures, t)
               /\ scope' = MentionEnters(scope, s, structures, t)
               /\ complete' = complete
  BY DEF CheckVariable, Mention, Visible, Declared, MentionedStruct, MentionEnters
<1>3. PICK d : /\ d = MentionedID(typeContext, nextID, t)
               /\ typeContext' = typeContext
               /\ nextID' = NextAfter(d, nextID)
               /\ nodes' = Append(nodes, [op |-> op, tag |-> t, id |-> d])
               /\ variables' = Append(variables, [tag |-> t, id |-> d, depth |-> Depth])
               /\ structMap' = structMap
  BY <1>1, MentionedFacts DEF CheckVariable, Variable, TakeID, NextAfter
<1>4. /\ NodesAre(nodes, structMap) /\ Entries(typeContext, nodes) /\ Holders(variables, nodes)
      /\ TagsBelow(nodes, nextID) /\ Finished(typeContext, scope, complete, structMap)
      /\ structures \in Nat /\ scope \in Stack(structures)
      /\ Len(scope) > 0 /\ Len(scope) = Len(typeContext)
      /\ Len(typeContext) \in 1..Len(typeContext)
      /\ complete \subseteq 1..structures
  BY <1>1, SourcedFacts
<1>5. /\ MayHave(nodes, t, d) /\ d \in Nat /\ GivenNext(nextID, d, nextID')
      /\ nextID' \in Nat /\ nextID \in Nat
      /\ op = "object" => d \in structMap
  BY <1>1, <1>3, MentionedMayHave
<1>6. /\ NodesAre(nodes', structMap) /\ TagsBelow(nodes', nextID')
      /\ MoreTagged(nodes, nodes')
      /\ DeclaredBefore(nodes', Len(nodes') + 1, t, d)
  <2>1. op \in {"forward", "pointer", "object", "access"} /\ op # "access" /\ t \in Tag
    OBVIOUS
  <2>2. PlainAdded(nodes, nodes', op, t, d)
    BY <1>3 DEF PlainAdded
  <2>3. NodesAre(nodes, structMap) /\ TagsBelow(nodes, nextID)
    BY <1>4
  <2>4. op \in {"object", "access"} => d \in structMap
    BY <1>5
  <2>5. op \in {"pointer", "object"}
    OBVIOUS
  <2>6. /\ NodesAre(nodes', structMap) /\ TagsBelow(nodes', nextID')
        /\ MoreTagged(nodes, nodes')
        /\ op \in {"pointer", "object"} => DeclaredBefore(nodes', Len(nodes') + 1, t, d)
    BY ONLY <1>5, <2>1, <2>2, <2>3, <2>4, PlainSourced
  <2> QED
    BY <1>3, <2>5, <2>6
<1>7. Entries(typeContext', nodes')
  BY <1>3, <1>4, <1>6, EntriesKept
<1>8. Holders(variables', nodes')
  <2> DEFINE e == [tag |-> t, id |-> d, depth |-> Depth]
             len == Len(variables)
  <2>1. variables \in Seq(Entry)
    BY <1>1, CheckingFacts
  <2>2. /\ len \in Nat /\ Len(variables') = len + 1
        /\ \A v \in 1..len : variables'[v] = variables[v]
        /\ variables'[len + 1] = e
    BY <1>3, <2>1
  <2>3. e.tag = t /\ e.id = d
    OBVIOUS
  <2> HIDE DEF e, len
  <2>4. \A v \in 1..len + 1 : v \in 1..len \/ v = len + 1
    BY <2>2
  <2>5. \A v \in 1..len : DeclaredBefore(nodes, Len(nodes) + 1, variables[v].tag, variables[v].id)
    BY <1>4 DEF Holders, len
  <2> QED
    BY <1>6, <2>2, <2>3, <2>4, <2>5 DEF Holders, MoreTagged
<1>9. Finished(typeContext, scope', complete, structMap)
  <2> DEFINE len == Len(typeContext)
  <2>1. CASE ~(s > structures)
    BY <1>2, <1>4, <2>1 DEF MentionEnters
  <2>2. CASE s > structures
    <3>1. s = structures + 1
      <4>1. lookupIn(scope, t) \in 0..structures
        BY <1>4, LookupTypes
      <4> QED
        BY <1>2, <1>4, <2>2, <4>1 DEF MentionedStruct
    <3>2. scope' = insertType(scope, t, s)
      BY <1>2, <2>2 DEF MentionEnters
    <3>3. structures + 1 \in Nat /\ structures <= structures + 1 /\ s \in 0..structures + 1
      BY <1>4, <3>1
    <3>4. /\ Len(scope') = len /\ scope'[len][t] = s
          /\ \A i \in 1..len, u \in Tag : i # len \/ u # t => scope'[i][u] = scope[i][u]
      BY <1>4, <3>2, <3>3, InsertedType
    <3>5. \A i \in 1..len, u \in Tag : scope[i][u] # s
      <4>1. \A i \in 1..len, u \in Tag : scope[i][u] \in 0..structures
        BY <1>4 DEF Stack
      <4> QED
        BY <1>4, <3>1, <4>1
    <3>6. s \notin complete
      BY <1>4, <3>1
    <3>7. Len(scope) = len /\ Len(scope') = len /\ len \in 1..len
      BY <1>4, <3>4
    <3>8. SameBut(typeContext, typeContext, len, t) /\ SameBut(scope, scope', len, t)
      BY <3>4 DEF SameBut
    <3>9. scope'[len][t] \in complete => typeContext[len][t] \in structMap
      BY <3>4, <3>6
    <3>10. SameOrNew(scope, scope', len, t)
      BY <3>4, <3>5 DEF SameOrNew
    <3>11. Finished(typeContext, scope, complete, structMap) /\ t \in Tag
      BY <1>4
    <3> HIDE DEF len
    <3> QED
      BY ONLY <3>7, <3>8, <3>9, <3>10, <3>11, FinishedChanged
  <2> QED
    BY <2>1, <2>2
<1> QED
  BY <1>2, <1>3, <1>6, <1>7, <1>8, <1>9 DEF Sourced, Sources

(* The structure of a member is one that was defined before.               *)
LEMMA MemberIsTagged ==
  ASSUME NEW context, NEW structs, NEW P, NEW D, NEW k, NEW m, NEW C, NEW M,
         Sound(context, structs, P, D, k, m, C, M), Finished(context, structs, C, M),
         NEW context0, NEW ns, Entries(context0, ns), NEW t \in Tag, NEW d, d \notin M,
         Len(context0) = Len(context), SameBut(context0, context, Len(context), t),
         context[Len(context)][t] = d,
         NEW u \in Tag, lookupIn(structs, u) \in C,
         NEW i, i = lookupIn(context, u)
  PROVE  i \in M /\ i # d /\ TaggedBefore(ns, Len(ns) + 1, u, i)
<1>1. i \in M /\ i # None
  BY FoundIsFinished
<1>2. context \in Stack(m - 1)
  BY DEF Sound
<1>3. PICK j \in 1..Len(context) : i = context[j][u]
  BY <1>1, <1>2, LookupIsInnermost
<1>4. i # d
  BY <1>1
<1>5. context0[j][u] = i
  BY <1>3, <1>4 DEF SameBut
<1> QED
  BY <1>1, <1>4, <1>5 DEF Entries

LEMMA DefineSourced ==
  ASSUME IInv, Sourced, NEW t \in Tag, NEW m \in Members, NEW op \in {"define", "typedef"},
         CheckDefine(t, m, op)
  PROVE  Sourced'
<1>1. pc = "check" /\ Define(t, m, op) /\ Checking
  BY CheckDefineFacts DEF IInv
<1>1a. /\ op = "typedef" => m = NoMember
       /\ t \in Tag /\ m \in Members /\ op \in {"define", "typedef"}
  BY CheckDefineFacts
<1>2. PICK s, x, context :
        /\ s = DefinedStruct(scope, structures, t) /\ s \notin complete
        /\ context = insertType(scope, t, s)
        /\ m.op = "member" => x = lookupIn(context, m.tag) /\ x \in complete
        /\ m.op = "nested" => /\ x = DefinedStruct(context, Grown(s, structures), m.tag)
                              /\ x \notin complete /\ m.tag # t
        /\ scope' = IF m.op = "nested" THEN insertType(context, m.tag, x) ELSE context
        /\ complete' = IF m.op = "nested" THEN complete \cup {s} \cup {x}
                       ELSE complete \cup {s}
  BY CheckDefineFacts
<1> DEFINE d == DefinedID(typeContext, nextID, t)
           c1 == insertType(typeContext, t, d)
           n1 == NextAfter(d, nextID)
           k1 == Grown(s, structures)
           d2 == DefinedID(c1, n1, m.tag)
           c2 == insertType(c1, m.tag, d2)
           n2 == NextAfter(d2, n1)
           P1 == Remembered \cup {<<s, d>>}
           P2 == P1 \cup {<<x, d2>>}
           refused == pc' = "rejected" /\ UNCHANGED checker
           variable == [tag |-> t, id |-> d, depth |-> Depth]
           node(i) == [op |-> op, tag |-> t, id |-> d, member |-> m, memberID |-> i]
           len == Len(typeContext)
<1>3. /\ d \in structMap => refused
      /\ m.op = "nested" /\ d2 \in structMap => refused
      /\ d \notin structMap /\ (m.op = "nested" => d2 \notin structMap) =>
           /\ pc' = pc
           /\ variables' = IF op = "typedef" THEN Append(variables, variable) ELSE variables
           /\ m.op # "nested" =>
                /\ typeContext' = c1 /\ nextID' = n1 /\ structMap' = structMap \cup {d}
                /\ \E i : /\ i = IF m.op = "member" THEN lookupIn(c1, m.tag) ELSE d
                          /\ nodes' = Append(nodes, node(i))
           /\ m.op = "nested" =>
                /\ typeContext' = c2 /\ nextID' = n2
                /\ structMap' = structMap \cup {d2} \cup {d}
                /\ nodes' = Append(nodes, node(d2))
  BY <1>1, DefineFacts
<1>4. d = DefinedID(typeContext, nextID, t) /\ c1 = insertType(typeContext, t, d)
      /\ n1 = NextAfter(d, nextID) /\ k1 = Grown(s, structures) /\ P1 = Remembered \cup {<<s, d>>}
      /\ d2 = DefinedID(c1, n1, m.tag) /\ c2 = insertType(c1, m.tag, d2) /\ n2 = NextAfter(d2, n1)
  OBVIOUS
<1>5. /\ NodesAre(nodes, structMap) /\ Entries(typeContext, nodes) /\ Holders(variables, nodes)
      /\ TagsBelow(nodes, nextID) /\ Finished(typeContext, scope, complete, structMap)
      /\ Sound(typeContext, scope, Remembered, departed, structures, nextID, complete, structMap)
      /\ nextID \in Nat \ {0} /\ nextID \in Nat /\ nextID - 1 \in Nat
      /\ typeContext \in Stack(nextID - 1) /\ len > 0 /\ len \in 1..len /\ len \in Nat
      /\ Len(scope) = len
  <2> HIDE DEF d, c1, n1, d2, c2, n2, P1, k1
  <2> QED
    BY <1>1, SourcedFacts
<1> HIDE DEF d, c1, n1, k1, d2, c2, n2, P1, P2, variable
<1>6. /\ Sound(c1, context, P1, departed, k1, n1, complete, structMap)
  BY ONLY <1>1a, <1>2, <1>4, <1>5, DefinedIsSound
<1>7. /\ Finished(c1, context, complete, structMap)
      /\ Len(context) = len /\ Len(c1) = len
      /\ context[len][t] = s /\ c1[len][t] = d
      /\ SameBut(typeContext, c1, len, t) /\ SameBut(scope, context, len, t)
      /\ s # None
  BY ONLY <1>1a, <1>2, <1>4, <1>5, DefinedFinished DEF len
<1>8. /\ MayHave(nodes, t, d) /\ d \in Nat \ {0} /\ GivenNext(nextID, d, n1) /\ n1 \in Nat
  <2>1. nextID <= nextID
    BY <1>5
  <2> QED
    BY ONLY <1>1a, <1>4, <1>5, <2>1, DefinedMayHave DEF len
<1>9. /\ n1 \in Nat \ {0} /\ n1 - 1 \in Nat /\ c1 \in Stack(n1 - 1) /\ Len(c1) > 0
  <2>1. n1 \in Nat \ {0} /\ n1 - 1 \in Nat /\ c1 \in Stack(n1 - 1)
    BY ONLY <1>6, SoundFacts
  <2> QED
    BY <1>5, <1>7, <2>1
<1>10. CASE refused
  <2>1. pc' = "rejected" /\ nodes' = nodes /\ structMap' = structMap
    BY <1>10 DEF checker
  <2> QED
    BY <1>5, <2>1 DEF Sourced
<1>11. CASE d \notin structMap /\ (m.op = "nested" => d2 \notin structMap)
  <2>1. /\ variables' = IF op = "typedef" THEN Append(variables, variable) ELSE variables
        /\ pc' = "check"
    BY <1>1, <1>3, <1>11
  <2>2. ASSUME MoreTagged(nodes, nodes'),
               op = "typedef" => DeclaredBefore(nodes', Len(nodes') + 1, t, d)
        PROVE  Holders(variables', nodes')
    <3>1. \A v \in 1..Len(variables) : DeclaredBefore(nodes', Len(nodes') + 1, variables[v].tag, variables[v].id)
      BY <1>5, <2>2 DEF Holders, MoreTagged
    <3>2. CASE op # "typedef"
      BY <2>1, <3>1, <3>2 DEF Holders
    <3>3. CASE op = "typedef"
      <4>1. variables \in Seq(Entry)
        BY <1>1, CheckingFacts
      <4>2. /\ Len(variables) \in Nat /\ Len(variables') = Len(variables) + 1
            /\ \A v \in 1..Len(variables) : variables'[v] = variables[v]
            /\ variables'[Len(variables) + 1] = variable
        BY <2>1, <3>3, <4>1
      <4>3. variable.tag = t /\ variable.id = d
        BY DEF variable
      <4>4. \A v \in 1..Len(variables') : v \in 1..Len(variables) \/ v = Len(variables) + 1
        BY <4>2
      <4>5. DeclaredBefore(nodes', Len(nodes') + 1, t, d)
        BY <2>2, <3>3
      <4> QED
        BY <3>1, <4>2, <4>3, <4>4, <4>5 DEF Holders
    <3> QED
      BY <3>2, <3>3
  <2>3. CASE m.op # "nested"
    <3>1. PICK i : /\ i = IF m.op = "member" THEN lookupIn(c1, m.tag) ELSE d
                   /\ nodes' = Append(nodes, node(i))
      BY <1>3, <1>11, <2>3
    <3>2. /\ typeContext' = c1 /\ nextID' = n1 /\ structMap' = structMap \cup {d}
          /\ scope' = context /\ complete' = complete \cup {s}
      BY <1>2, <1>3, <1>11, <2>3
    <3>3. m.op = "none" \/ (m.op = "member" /\ m.tag \in Tag)
      BY <2>3 DEF Members, NoMember
    <3>4. i \in Nat
      <4>1. m.op = "member" => lookupIn(c1, m.tag) \in 0..n1 - 1
        BY <1>9, <3>3, LookupTypes
      <4> QED
        BY <1>9, <1>8, <3>1, <4>1
    <3>5. m.op = "member" => i \in structMap /\ i # d /\ TaggedBefore(nodes, Len(nodes) + 1, m.tag, i)
      <4>1. ASSUME m.op = "member"
            PROVE  i \in structMap /\ i # d /\ TaggedBefore(nodes, Len(nodes) + 1, m.tag, i)
        <5>1. i = lookupIn(c1, m.tag) /\ lookupIn(context, m.tag) \in complete /\ m.tag \in Tag
          BY <1>2, <3>1, <3>3, <4>1
        <5>2. SameBut(typeContext, c1, Len(c1), t) /\ c1[Len(c1)][t] = d /\ Len(typeContext) = Len(c1)
          BY <1>7
        <5>3. d \notin structMap /\ t \in Tag
          BY <1>11
        <5> QED
          BY ONLY <1>5, <1>6, <1>7, <5>1, <5>2, <5>3, MemberIsTagged
      <4> QED
        BY <4>1
    <3>6. /\ NodesAre(nodes', structMap') /\ TagsBelow(nodes', nextID')
          /\ TaggedBefore(nodes', Len(nodes') + 1, t, d)
          /\ MoreTagged(nodes, nodes')
          /\ op = "typedef" => DeclaredBefore(nodes', Len(nodes') + 1, t, d)
      <4>1. DefinitionAdded(nodes, nodes', op, t, d, m, i)
        BY <3>1 DEF DefinitionAdded
      <4>2. structMap \subseteq structMap' /\ d \in Nat
        BY <1>8, <3>2
      <4>3. MemberFits(nodes, m, d, i, nextID', structMap')
        BY <2>3, <3>5, <4>2 DEF MemberFits
      <4>4. GivenNext(nextID, d, nextID') /\ nextID' \in Nat /\ MayHave(nodes, t, d)
        BY <1>8, <3>2
      <4>5. NodesAre(nodes, structMap) /\ TagsBelow(nodes, nextID) /\ nextID \in Nat
        BY <1>5
      <4> QED
        BY ONLY <1>1a, <2>3, <3>4, <4>1, <4>2, <4>3, <4>4, <4>5, DefinitionSourced
    <3>7. Entries(typeContext', nodes')
      BY <1>1, <1>4, <1>5, <1>8, <3>2, <3>6, EntriesInserted DEF len
    <3>8. Finished(typeContext', scope', complete', structMap')
      <4>1. Finished(c1, context, complete \cup {context[len][t]}, structMap \cup {c1[len][t]})
        <5>1. len \in 1..Len(context) /\ context[len][t] # None
          BY <1>5, <1>7
        <5> HIDE DEF len
        <5> QED
          BY ONLY <1>1a, <1>7, <5>1, FinishedEnded
      <4> QED
        BY <1>7, <3>2, <4>1
    <3> QED
      BY <2>2, <3>6, <3>7, <3>8 DEF Sourced, Sources
  <2>4. CASE m.op = "nested"
    <3> DEFINE context2 == insertType(context, m.tag, x)
    <3>1. /\ typeContext' = c2 /\ nextID' = n2 /\ structMap' = structMap \cup {d2} \cup {d}
          /\ nodes' = Append(nodes, node(d2))
          /\ scope' = context2 /\ complete' = complete \cup {s} \cup {x}
      BY <1>2, <1>3, <1>11, <2>4
    <3>2. m.tag \in Tag /\ m.tag # t
      BY <1>2, <2>4 DEF Members, NoMember
    <3>3. x = DefinedStruct(context, k1, m.tag) /\ x \notin complete
      BY <1>2, <1>4, <2>4
    <3>4. context2 = insertType(context, m.tag, x)
      OBVIOUS
    <3> HIDE DEF context2
    <3>5. /\ Finished(c2, context2, complete, structMap)
          /\ Len(context2) = Len(c1) /\ Len(c2) = Len(c1)
          /\ context2[Len(c1)][m.tag] = x /\ c2[Len(c1)][m.tag] = d2
          /\ SameBut(c1, c2, Len(c1), m.tag) /\ SameBut(context, context2, Len(c1), m.tag)
          /\ x # None
      BY ONLY <1>4, <1>6, <1>7, <3>2, <3>3, <3>4, DefinedFinished
    <3>6. /\ context2[len][m.tag] = x /\ c2[len][m.tag] = d2
          /\ context2[len][t] = s /\ c2[len][t] = d /\ Len(context2) = len
      BY <1>5, <1>7, <3>2, <3>5 DEF SameBut
    <3>7. Here(c1, m.tag) = Here(typeContext, m.tag)
      BY <1>5, <1>7, <3>2 DEF SameBut, Here
    <3>8. /\ MayHave(nodes, m.tag, d2) /\ d2 \in Nat \ {0} /\ GivenNext(n1, d2, n2) /\ n2 \in Nat
      <4>1. Here(typeContext, m.tag) # None =>
              TaggedBefore(nodes, Len(nodes) + 1, m.tag, Here(typeContext, m.tag))
        BY <1>5, <3>2, FoundIsTagged DEF len
      <4>2. Here(c1, m.tag) # None => TaggedBefore(nodes, Len(nodes) + 1, m.tag, Here(c1, m.tag))
        BY <3>7, <4>1
      <4>3. Here(c1, m.tag) \in 0..n1 - 1
        BY <1>9, <3>2, LookupTypes
      <4>4. d2 = IF Here(c1, m.tag) = None THEN n1 ELSE Here(c1, m.tag)
        BY <1>4 DEF DefinedID
      <4>5. nextID <= n1 /\ n1 \in Nat
        BY <1>8, <1>9 DEF GivenNext
      <4> DEFINE found == Here(c1, m.tag)
                 mt == m.tag
      <4>6. /\ found # None => TaggedBefore(nodes, Len(nodes) + 1, mt, found)
            /\ found \in 0..n1 - 1 /\ d2 = IF found = None THEN n1 ELSE found
        BY <4>2, <4>3, <4>4
      <4>7. TagsBelow(nodes, nextID) /\ nextID \in Nat /\ n1 \in Nat \ {0} /\ n2 = NextAfter(d2, n1)
        BY <1>4, <1>5, <1>9
      <4> HIDE DEF found, mt
      <4>8. /\ MayHave(nodes, mt, d2) /\ d2 \in Nat \ {0} /\ d2 \in 1..n2 - 1
            /\ n2 \in Nat /\ n1 <= n2
        BY ONLY <4>5, <4>6, <4>7, GivenMayHave
      <4> QED
        BY <4>8 DEF GivenNext, mt
    <3>9. d2 # d
      <4>1. CASE Here(c1, m.tag) # None
        <5>1. d2 = Here(typeContext, m.tag) /\ Here(typeContext, m.tag) # None
          BY <1>4, <3>7, <4>1 DEF DefinedID
        <5>2. TaggedBefore(nodes, Len(nodes) + 1, m.tag, d2)
          BY <1>5, <3>2, <5>1, FoundIsTagged DEF len
        <5>3. OneTag(nodes)
          BY <1>5 DEF NodesAre
        <5> QED
          BY <1>8, <3>2, <5>2, <5>3 DEF MayHave, OneTag
      <4>2. CASE Here(c1, m.tag) = None
        <5>1. d2 = n1
          BY <1>4, <4>2 DEF DefinedID
        <5> QED
          BY <1>8, <1>9, <5>1 DEF GivenNext
      <4> QED
        BY <4>1, <4>2
    <3>10. /\ NodesAre(nodes', structMap') /\ TagsBelow(nodes', nextID')
           /\ TaggedBefore(nodes', Len(nodes') + 1, t, d)
           /\ TaggedBefore(nodes', Len(nodes') + 1, m.tag, d2)
           /\ MoreTagged(nodes, nodes')
           /\ op = "typedef" => DeclaredBefore(nodes', Len(nodes') + 1, t, d)
      <4>1. DefinitionAdded(nodes, nodes', op, t, d, m, d2)
        BY <3>1 DEF DefinitionAdded
      <4>2. structMap \subseteq structMap' /\ d \in Nat /\ d2 \in Nat
        BY <1>8, <3>1, <3>8
      <4>3. GivenNext(nextID, d, nextID') /\ nextID' \in Nat
        BY <1>5, <1>8, <1>9, <3>1, <3>8 DEF GivenNext
      <4>5. MemberFits(nodes, m, d, d2, nextID', structMap')
        BY <2>4, <3>1, <3>8, <3>9 DEF MemberFits, GivenNext
      <4>4. NodesAre(nodes, structMap) /\ TagsBelow(nodes, nextID) /\ nextID \in Nat
            /\ MayHave(nodes, t, d) /\ MayHave(nodes, m.tag, d2)
        BY <1>5, <1>8, <3>8
      <4> QED
        BY ONLY <1>1a, <2>4, <4>1, <4>2, <4>3, <4>4, <4>5, DefinitionSourced
    <3>11. Entries(typeContext', nodes')
      <4>1. Entries(c1, nodes')
        BY <1>1, <1>4, <1>5, <1>8, <3>10, EntriesInserted DEF len
      <4>2. MoreTagged(nodes', nodes') /\ d2 \in Nat
        BY <3>8 DEF MoreTagged
      <4>3. Entries(c2, nodes')
        BY <1>4, <1>9, <3>2, <3>10, <4>1, <4>2, EntriesInserted
      <4> QED
        BY <3>1, <4>3
    <3>12. Finished(typeContext', scope', complete', structMap')
      <4>1. Finished(c2, context2, complete \cup {s}, structMap \cup {d})
        <5>1. Finished(c2, context2, complete \cup {context2[len][t]}, structMap \cup {c2[len][t]})
          <6>1. len \in 1..Len(context2) /\ context2[len][t] # None
            BY <1>5, <1>7, <3>6
          <6> HIDE DEF len
          <6> QED
            BY ONLY <1>1a, <3>5, <6>1, FinishedEnded
        <5> QED
          BY <3>6, <5>1
      <4>2. Finished(c2, context2, complete \cup {s} \cup {context2[len][m.tag]},
                     structMap \cup {d} \cup {c2[len][m.tag]})
        <5>1. len \in 1..Len(context2) /\ context2[len][m.tag] # None
          BY <1>5, <3>5, <3>6
        <5> HIDE DEF len
        <5> QED
          BY ONLY <3>2, <4>1, <5>1, FinishedEnded
      <4>3. structMap' = structMap \cup {d} \cup {d2}
        BY <3>1
      <4> QED
        BY <3>1, <3>6, <4>2, <4>3
    <3> QED
      BY <2>2, <3>10, <3>11, <3>12 DEF Sourced, Sources
  <2> QED
    BY <2>3, <2>4
<1> QED
  BY <1>3, <1>10, <1>11

LEMMA AccessSourced ==
  ASSUME IInv, Sourced, NEW v \in DOMAIN variables, CheckAccess(v)
  PROVE  Sourced'
<1> DEFINE t == variables[v].tag
           id == variables[v].id
           op == "access"
<1>1. pc = "check" /\ Checking
  BY DEF CheckAccess, Access, CanAdd, IInv
<1>2. /\ typeContext' = typeContext /\ nextID' = nextID /\ structMap' = structMap
      /\ variables' = variables /\ scope' = scope /\ complete' = complete
  BY DEF CheckAccess, Access
<1>3. /\ NodesAre(nodes, structMap) /\ Entries(typeContext, nodes) /\ Holders(variables, nodes)
      /\ TagsBelow(nodes, nextID) /\ Finished(typeContext, scope, complete, structMap)
      /\ nextID \in Nat
  BY <1>1, SourcedFacts
<1>4. CASE id \in structMap
  <2>1. nodes' = Append(nodes, [op |-> op, tag |-> t, id |-> id]) /\ pc' = pc
    BY <1>4 DEF CheckAccess, Access
  <2>2. t \in Tag /\ id \in Nat
    BY <1>1, PairOfVariable
  <2>3. DeclaredBefore(nodes, Len(nodes) + 1, t, id)
    <3>1. variables \in Seq(Entry)
      BY <1>1, CheckingFacts
    <3>2. v \in 1..Len(variables)
      BY <3>1
    <3> QED
      BY <1>3, <3>2 DEF Holders
  <2>4. op \in {"forward", "pointer", "object", "access"} /\ id \in structMap
    BY <1>4
  <2> HIDE DEF t, id, op
  <2>5. TaggedBefore(nodes, Len(nodes) + 1, t, id)
    BY <2>3 DEF DeclaredBefore, TaggedBefore, Tags
  <2>6. MayHave(nodes, t, id) /\ GivenNext(nextID, id, nextID)
    BY <1>3, <2>5 DEF MayHave, GivenNext, TagsBelow
  <2>7. PlainAdded(nodes, nodes', op, t, id)
    BY <2>1 DEF PlainAdded
  <2>8. /\ NodesAre(nodes', structMap) /\ TagsBelow(nodes', nextID)
        /\ MoreTagged(nodes, nodes')
    BY ONLY <1>3, <2>2, <2>3, <2>4, <2>6, <2>7, PlainSourced
  <2>9. Entries(typeContext, nodes') /\ Holders(variables, nodes')
    BY <1>3, <2>8, EntriesKept DEF Holders, MoreTagged
  <2> QED
    BY <1>2, <1>3, <2>8, <2>9 DEF Sourced, Sources
<1>5. CASE id \notin structMap
  <2>1. pc' = "rejected" /\ nodes' = nodes
    BY <1>5 DEF CheckAccess, Access
  <2> QED
    BY <1>2, <1>3, <2>1 DEF Sourced
<1> QED
  BY <1>4, <1>5

LEMMA EnterScopeSourced ==
  ASSUME IInv, Sourced, CheckEnterScope
  PROVE  Sourced'
<1>1. /\ pc = "check" /\ pc' = pc /\ Checking
      /\ typeContext' = Append(typeContext, NoTags) /\ scope' = Append(scope, NoTags)
      /\ UNCHANGED <<nextID, structMap, nodes, variables, complete>>
  BY DEF CheckEnterScope, EnterScope, CanAdd, IInv
<1>2. /\ NodesAre(nodes, structMap) /\ Entries(typeContext, nodes) /\ Holders(variables, nodes)
      /\ TagsBelow(nodes, nextID) /\ Finished(typeContext, scope, complete, structMap)
      /\ structures \in Nat /\ nextID - 1 \in Nat
      /\ typeContext \in Stack(nextID - 1) /\ scope \in Stack(structures)
      /\ Len(scope) = Len(typeContext) /\ None \notin complete
  BY <1>1, SourcedFacts
<1>3. Finished(Append(typeContext, NoTags), Append(scope, NoTags), complete, structMap)
  BY ONLY <1>2, FinishedPushed
<1>4. Entries(Append(typeContext, NoTags), nodes)
  BY ONLY <1>2, EntriesPushed
<1> QED
  BY <1>1, <1>2, <1>3, <1>4 DEF Sourced, Sources

LEMMA ExitScopeSourced ==
  ASSUME IInv, Sourced, CheckExitScope
  PROVE  Sourced'
<1> DEFINE n == Cardinality({v \in DOMAIN variables : variables[v].depth < Depth})
           len == Len(typeContext) - 1
<1>1. /\ pc = "check" /\ pc' = pc /\ Checking /\ Len(typeContext) > 1
      /\ typeContext' = SubSeq(typeContext, 1, Len(typeContext) - 1)
      /\ scope' = SubSeq(scope, 1, Len(scope) - 1)
      /\ variables' = SubSeq(variables, 1, n)
      /\ UNCHANGED <<nextID, structMap, nodes, complete>>
  BY DEF CheckExitScope, ExitScope, IInv, Depth
<1>2. /\ NodesAre(nodes, structMap) /\ Entries(typeContext, nodes) /\ Holders(variables, nodes)
      /\ TagsBelow(nodes, nextID) /\ Finished(typeContext, scope, complete, structMap)
      /\ structures \in Nat /\ nextID - 1 \in Nat
      /\ typeContext \in Stack(nextID - 1) /\ scope \in Stack(structures)
      /\ Len(scope) = Len(typeContext) /\ Len(typeContext) \in Nat \ {0}
  BY <1>1, SourcedFacts
<1>3. variables \in Seq(Entry)
  BY <1>1, CheckingFacts
<1>4. n \in 0..Len(variables)
  BY <1>3, FewerVariables
<1> HIDE DEF n
<1>5. Holders(variables', nodes)
  <2>1. Len(variables') = n /\ \A v \in 1..n : v \in 1..Len(variables) /\ variables'[v] = variables[v]
    BY <1>1, <1>3, <1>4
  <2> QED
    BY <1>2, <2>1 DEF Holders
<1>6. len \in Nat /\ Len(typeContext) = len + 1 /\ Len(scope) = len + 1
  BY <1>2
<1>7. typeContext' = SubSeq(typeContext, 1, len) /\ scope' = SubSeq(scope, 1, len)
  BY <1>1, <1>2
<1> HIDE DEF len
<1>8. /\ Finished(SubSeq(typeContext, 1, len), SubSeq(scope, 1, len), complete, structMap)
      /\ Entries(SubSeq(typeContext, 1, len), nodes)
  BY ONLY <1>2, <1>6, SourcesPopped
<1> QED
  BY <1>1, <1>2, <1>5, <1>7, <1>8 DEF Sourced, Sources

LEMMA InitSourced ==
  ASSUME CheckInit
  PROVE  Sourced
<1>1. /\ typeContext = <<NoTags>> /\ scope = <<NoTags>> /\ nextID = 1
      /\ structMap = {} /\ complete = {} /\ nodes = <<>> /\ variables = <<>>
  BY DEF CheckInit, Init
<1>2. \A t \in Tag : NoTags[t] = None
  BY DEF NoTags
<1>3. \A t, id : ~TaggedBefore(nodes, Len(nodes) + 1, t, id)
  BY <1>1 DEF TaggedBefore
<1>4. NodesAre(nodes, structMap) /\ TagsBelow(nodes, nextID)
  BY <1>1, <1>3 DEF NodesAre, OneTag, TagsBelow
<1>5. Holders(variables, nodes)
  BY <1>1 DEF Holders
<1>6. Len(typeContext) = 1 /\ Len(scope) = 1
      /\ \A i \in 1..1 : typeContext[i] = NoTags /\ scope[i] = NoTags
  BY <1>1
<1>7. Entries(typeContext, nodes) /\ Finished(typeContext, scope, complete, structMap)
  BY <1>1, <1>2, <1>6 DEF Entries, Finished
<1> QED
  BY <1>4, <1>5, <1>7 DEF Sourced, Sources

LEMMA StepSourced ==
  ASSUME IInv, Sourced, [CheckNext]_allvars
  PROVE  Sourced'
<1>1. CASE \E t \in Tag : CheckForward(t)
  BY <1>1, ForwardSourced
<1>2. CASE \E t \in Tag, op \in {"pointer", "object"} : CheckVariable(t, op)
  BY <1>2, VariableSourced
<1>3. CASE \E t \in Tag, m \in Members, op \in {"define", "typedef"} : CheckDefine(t, m, op)
  BY <1>3, DefineSourced
<1>4. CASE \E v \in DOMAIN variables : CheckAccess(v)
  BY <1>4, AccessSourced
<1>5. CASE CheckEnterScope
  BY <1>5, EnterScopeSourced
<1>6. CASE CheckExitScope
  BY <1>6, ExitScopeSourced
<1>7. CASE CheckEndOfUnit
  <2>1. pc' = "generate" /\ nodes' = nodes /\ structMap' = structMap
    BY <1>7 DEF CheckEndOfUnit, EndOfUnit
  <2> QED
    BY <2>1 DEF Sourced
<1>8. CASE (Generate \/ Finish) /\ UNCHANGED cvars
  <2>1. pc' \in {"generate", "done"} /\ nodes' = nodes /\ structMap' = structMap
    BY <1>8 DEF Generate, Finish, checker
  <2> QED
    BY <2>1 DEF Sourced
<1>9. CASE UNCHANGED allvars
  BY <1>9 DEF allvars, vars, checker, generator, cvars, Sourced, Sources
<1>10. CASE Stopped /\ UNCHANGED cvars
  <2>1. UNCHANGED allvars
    BY <1>10 DEF Stopped, allvars
  <2> QED
    BY <1>9, <2>1
<1> QED
  BY <1>1, <1>2, <1>3, <1>4, <1>5, <1>6, <1>7, <1>8, <1>9, <1>10 DEF CheckNext

(* What visit of a Struct leaves at the nodes: an identity is of one tag,  *)
(* an object and an access are of one with members, and a member has the   *)
(* identity that an earlier node gives its tag.                            *)
THEOREM IdentitiesHaveSources == CheckSpec => []Sourced
<1>1. CheckInit => Sourced
  BY InitSourced
<1>2. IInv /\ Sourced /\ [CheckNext]_allvars => Sourced'
  BY StepSourced
<1> QED
  BY <1>1, <1>2, Invariance, PTL DEF CheckSpec

-----------------------------------------------------------------------------
(***************************************************************************)
(* The tables of the code generator: I, the identities of each tag, and T, *)
(* the types by name                                                       *)
(***************************************************************************)
Gen(I, T) == [ids |-> I, types |-> T]

NameAt(t, k) == IF k = 0 THEN <<t>> ELSE <<t, k>>

IsListed(I, t, id) == t \in DOMAIN I /\ \E k \in 1..Len(I[t]) : I[t][k] = id

Made(id) == [of |-> id, sized |-> TRUE]

(* The name of an identity in the list L of its tag, and what operator[],  *)
(* push_back and StructType::create do to the tables                       *)
NameIn(L, t, id) ==
  LET at == {i \in DOMAIN L : L[i] = id}
      index == IF at = {} THEN Len(L) ELSE (CHOOSE i \in at : TRUE) - 1
  IN IF index = 0 THEN <<t>> ELSE <<t, index>>

WithList(I, t) ==
  IF t \in DOMAIN I THEN I
  ELSE [u \in DOMAIN I \cup {t} |-> IF u = t THEN <<>> ELSE I[u]]

Registered(I, t, id) == [WithList(I, t) EXCEPT ![t] = Append(@, id)]

ListIn(I, t) == IF t \in DOMAIN I THEN I[t] ELSE <<>>

WithType(T, name, body) ==
  IF name \in DOMAIN T THEN T
  ELSE [n \in DOMAIN T \cup {name} |-> IF n = name THEN body ELSE T[n]]

(* Nothing is different for the tags X.                                    *)
SameLists(X, I, I2) ==
  \A t \in X : (t \in DOMAIN I2 <=> t \in DOMAIN I) /\ (t \in DOMAIN I => I2[t] = I[t])

SameTypes(X, T, T2) ==
  \A t \in X, k \in Nat :
    /\ NameAt(t, k) \in DOMAIN T2 <=> NameAt(t, k) \in DOMAIN T
    /\ NameAt(t, k) \in DOMAIN T => T2[NameAt(t, k)] = T[NameAt(t, k)]

(* The identity is in its list, and its type is found.                     *)
Named(I, T, t, id) ==
  /\ IsListed(I, t, id) /\ I[t] \in Seq(Nat)
  /\ \A k \in 1..Len(I[t]) : I[t][k] = id => NameAt(t, k - 1) \in DOMAIN T

(* The type that is found is that of the identity, with members.           *)
Built(I, T, t, id) ==
  \A k \in 1..Len(I[t]) : I[t][k] = id => T[NameAt(t, k - 1)] = Made(id)

(* The types of the tags X are those of the lists.                         *)
Tables(X, I, T, M) ==
  /\ \A t \in X : t \in DOMAIN I =>
       /\ I[t] \in Seq(Nat) /\ I[t] # <<>>
       /\ \A k \in 1..Len(I[t]) :
            /\ NameAt(t, k - 1) \in DOMAIN T
            /\ I[t][k] \in M => T[NameAt(t, k - 1)] = Made(I[t][k])
  /\ \A t \in X, k \in Nat : NameAt(t, k) \in DOMAIN T => t \in DOMAIN I /\ k < Len(I[t])

LEMMA NamesDiffer ==
  ASSUME NEW t, NEW k \in Nat
  PROVE  /\ NameAt(t, k)[1] = t
         /\ \A j \in Nat : NameAt(t, j) = NameAt(t, k) => j = k
<1>1. NameAt(t, k)[1] = t
  BY DEF NameAt
<1>2. ASSUME NEW j \in Nat, NameAt(t, j) = NameAt(t, k)
      PROVE  j = k
  <2>1. Len(<<t>>) = 1 /\ Len(<<t, k>>) = 2 /\ Len(<<t, j>>) = 2 /\ <<t, k>>[2] = k /\ <<t, j>>[2] = j
    OBVIOUS
  <2> QED
    BY <1>2, <2>1 DEF NameAt
<1> QED
  BY <1>1, <1>2

LEMMA NameInOther ==
  ASSUME NEW L, NEW t, NEW id
  PROVE  NameIn(L, t, id)[1] = t
<1> DEFINE at == {i \in DOMAIN L : L[i] = id}
           index == IF at = {} THEN Len(L) ELSE (CHOOSE i \in at : TRUE) - 1
<1>1. NameIn(L, t, id) = IF index = 0 THEN <<t>> ELSE <<t, index>>
  BY DEF NameIn
<1> HIDE DEF index
<1> QED
  BY <1>1

LEMMA NameInList ==
  ASSUME NEW L \in Seq(Nat), NEW t, NEW id, \E k \in 1..Len(L) : L[k] = id
  PROVE  \E k \in 1..Len(L) : L[k] = id /\ NameIn(L, t, id) = NameAt(t, k - 1)
<1> DEFINE at == {i \in DOMAIN L : L[i] = id}
           c == CHOOSE i \in at : TRUE
<1>1. at # {}
  OBVIOUS
<1>2. c \in at
  BY <1>1
<1>3. NameIn(L, t, id) = IF c - 1 = 0 THEN <<t>> ELSE <<t, c - 1>>
  BY <1>1 DEF NameIn
<1>4. c \in 1..Len(L) /\ L[c] = id
  BY <1>2
<1> HIDE DEF c
<1> QED
  BY <1>3, <1>4 DEF NameAt

LEMMA WithListFacts ==
  ASSUME NEW I, NEW t
  PROVE  /\ DOMAIN WithList(I, t) = DOMAIN I \cup {t}
         /\ t \notin DOMAIN I => WithList(I, t)[t] = <<>>
         /\ \A u \in DOMAIN I : WithList(I, t)[u] = I[u]
         /\ t \in DOMAIN I => WithList(I, t) = I
BY DEF WithList

LEMMA RegisteredDomain ==
  ASSUME NEW I, NEW t, NEW id
  PROVE  DOMAIN Registered(I, t, id) = DOMAIN I \cup {t}
<1> DEFINE W == WithList(I, t)
<1>1. DOMAIN W = DOMAIN I \cup {t}
  BY WithListFacts
<1>2. Registered(I, t, id) = [W EXCEPT ![t] = Append(@, id)]
  BY DEF Registered
<1> HIDE DEF W
<1> QED
  BY <1>1, <1>2

LEMMA RegisteredList ==
  ASSUME NEW I, NEW t, NEW id
  PROVE  Registered(I, t, id)[t] = Append(ListIn(I, t), id)
<1> DEFINE W == WithList(I, t)
<1>1. /\ DOMAIN W = DOMAIN I \cup {t}
      /\ t \notin DOMAIN I => W[t] = <<>>
      /\ \A u \in DOMAIN I : W[u] = I[u]
  BY WithListFacts
<1>2. Registered(I, t, id) = [W EXCEPT ![t] = Append(@, id)]
  BY DEF Registered
<1>3. W[t] = ListIn(I, t)
  BY <1>1 DEF ListIn
<1> HIDE DEF W
<1> QED
  BY <1>1, <1>2, <1>3

LEMMA RegisteredOthers ==
  ASSUME NEW I, NEW t, NEW id, NEW u \in DOMAIN I, u # t
  PROVE  Registered(I, t, id)[u] = I[u]
<1> DEFINE W == WithList(I, t)
<1>1. DOMAIN W = DOMAIN I \cup {t} /\ W[u] = I[u]
  BY WithListFacts
<1>2. Registered(I, t, id) = [W EXCEPT ![t] = Append(@, id)]
  BY DEF Registered
<1> HIDE DEF W
<1> QED
  BY <1>1, <1>2

LEMMA WithTypeFacts ==
  ASSUME NEW T, NEW name, NEW body
  PROVE  /\ DOMAIN WithType(T, name, body) = DOMAIN T \cup {name}
         /\ name \notin DOMAIN T => WithType(T, name, body)[name] = body
         /\ \A n \in DOMAIN T : WithType(T, name, body)[n] = T[n]
         /\ name \in DOMAIN T => WithType(T, name, body) = T
BY DEF WithType

(* The operators of the code generator in terms of the tables              *)
LEMMA GenFields ==
  ASSUME NEW I, NEW T
  PROVE  /\ Gen(I, T).ids = I /\ Gen(I, T).types = T
         /\ \A J : [Gen(I, T) EXCEPT !.ids = J] = Gen(J, T)
         /\ \A U : [Gen(I, T) EXCEPT !.types = U] = Gen(I, U)
BY DEF Gen

LEMMA ListedIs ==
  ASSUME NEW I, NEW T, NEW t
  PROVE  Listed(Gen(I, T), t) = Gen(WithList(I, t), T)
<1> DEFINE J == [u \in DOMAIN I \cup {t} |-> IF u = t THEN <<>> ELSE I[u]]
<1>1. CASE t \in DOMAIN I
  BY <1>1, GenFields DEF Listed, WithList
<1>2. CASE t \notin DOMAIN I
  <2>1. Listed(Gen(I, T), t) = [Gen(I, T) EXCEPT !.ids = J]
    BY <1>2, GenFields DEF Listed
  <2>2. WithList(I, t) = J
    BY <1>2 DEF WithList
  <2> HIDE DEF J
  <2> QED
    BY <2>1, <2>2, GenFields
<1> QED
  BY <1>1, <1>2

LEMMA RegisterIs ==
  ASSUME NEW I, NEW T, NEW t, NEW id
  PROVE  Register(Gen(I, T), t, id) = Gen(Registered(I, t, id), T)
<1> DEFINE W == WithList(I, t)
           l == Listed(Gen(I, T), t)
<1>1. Register(Gen(I, T), t, id) = [l EXCEPT !.ids[t] = Append(@, id)]
  BY DEF Register
<1>2. l = [ids |-> W, types |-> T]
  BY ListedIs DEF Gen
<1>3. Registered(I, t, id) = [W EXCEPT ![t] = Append(@, id)]
  BY DEF Registered
<1> HIDE DEF W, l
<1> QED
  BY <1>1, <1>2, <1>3 DEF Gen

LEMMA CreateIs ==
  ASSUME NEW I, NEW T, NEW name, NEW body
  PROVE  Create(Gen(I, T), name, body) = Gen(I, WithType(T, name, body))
<1> DEFINE U == [n \in DOMAIN T \cup {name} |-> IF n = name THEN body ELSE T[n]]
<1>1. CASE name \in DOMAIN T
  BY <1>1, GenFields DEF Create, WithType
<1>2. CASE name \notin DOMAIN T
  <2>1. Create(Gen(I, T), name, body) = [Gen(I, T) EXCEPT !.types = U]
    BY <1>2, GenFields DEF Create
  <2>2. WithType(T, name, body) = U
    BY <1>2 DEF WithType
  <2> HIDE DEF U
  <2> QED
    BY <2>1, <2>2, GenFields
<1> QED
  BY <1>1, <1>2

LEMMA NameOfIs ==
  ASSUME NEW I, NEW T, NEW t, NEW id
  PROVE  /\ NameOf(Gen(I, T), t, id) = NameIn(I[t], t, id)
         /\ TypeOf(Gen(I, T), t, id) = T[NameIn(I[t], t, id)]
<1>1. NameOf(Gen(I, T), t, id) = NameIn(I[t], t, id)
  <2>1. Gen(I, T).ids = I
    BY GenFields
  <2> QED
    BY <2>1 DEF NameOf, NameIn
<1> QED
  BY <1>1, GenFields DEF TypeOf

LEMMA GetLLVMTypeIs ==
  ASSUME NEW I, NEW T, NEW t, NEW id
  PROVE  GetLLVMType(Gen(I, T), t, id) =
           Gen(WithList(I, t), WithType(T, NameIn(WithList(I, t)[t], t, id), Opaque))
<1>1. GetLLVMType(Gen(I, T), t, id) =
        Create(Listed(Gen(I, T), t), NameOf(Listed(Gen(I, T), t), t, id), Opaque)
  BY DEF GetLLVMType
<1> QED
  BY <1>1, ListedIs, NameOfIs, CreateIs

-----------------------------------------------------------------------------
(* What is done to the tables                                              *)

(* Each list is as it was or has one more identity, which was not in it.   *)
ListsGrow(X, I, I2) ==
  \A t \in X : t \in DOMAIN I =>
    /\ t \in DOMAIN I2
    /\ \/ I2[t] = I[t]
       \/ \E x : I2[t] = Append(I[t], x) /\ \A k \in 1..Len(I[t]) : I[t][k] # x

LEMMA GetNamed ==
  ASSUME NEW I, NEW T, NEW t, NEW id, Named(I, T, t, id)
  PROVE  /\ GetLLVMType(Gen(I, T), t, id) = Gen(I, T)
         /\ Built(I, T, t, id) => TypeOf(Gen(I, T), t, id) = Made(id)
<1>1. t \in DOMAIN I /\ I[t] \in Seq(Nat) /\ \E k \in 1..Len(I[t]) : I[t][k] = id
  BY DEF Named, IsListed
<1>2. PICK k \in 1..Len(I[t]) : I[t][k] = id /\ NameIn(I[t], t, id) = NameAt(t, k - 1)
  BY <1>1, NameInList
<1>3. NameAt(t, k - 1) \in DOMAIN T
  BY <1>2 DEF Named
<1>4. WithList(I, t) = I /\ WithType(T, NameAt(t, k - 1), Opaque) = T
  <2>1. WithList(I, t) = I
    BY <1>1, WithListFacts
  <2>2. WithType(T, NameAt(t, k - 1), Opaque) = T
    <3> DEFINE name == NameAt(t, k - 1)
    <3>1. name \in DOMAIN T
      BY <1>3
    <3> HIDE DEF name
    <3>2. WithType(T, name, Opaque) = T
      BY <3>1, WithTypeFacts
    <3> QED
      BY <3>2 DEF name
  <2> QED
    BY <2>1, <2>2
<1>5. GetLLVMType(Gen(I, T), t, id) =
        Gen(WithList(I, t), WithType(T, NameIn(WithList(I, t)[t], t, id), Opaque))
      /\ TypeOf(Gen(I, T), t, id) = T[NameIn(I[t], t, id)]
  BY GetLLVMTypeIs, NameOfIs
<1>6. Built(I, T, t, id) => T[NameAt(t, k - 1)] = Made(id)
  BY <1>2 DEF Built
<1> QED
  BY <1>2, <1>4, <1>5, <1>6

LEMMA TypeElsewhere ==
  ASSUME NEW X, NEW T, NEW name, NEW body, name[1] \notin X
  PROVE  SameTypes(X, T, WithType(T, name, body))
<1>1. \A t \in X, k \in Nat : NameAt(t, k) # name
  BY NamesDiffer
<1> DEFINE T2 == WithType(T, name, body)
<1>2. DOMAIN T2 = DOMAIN T \cup {name} /\ \A n \in DOMAIN T : T2[n] = T[n]
  BY ONLY WithTypeFacts, Zenon DEF T2
<1> HIDE DEF T2
<1>3. SameTypes(X, T, T2)
  BY <1>1, <1>2 DEF SameTypes
<1> QED
  BY <1>3 DEF T2

(* A state of the tables in which nothing is different for X               *)
SameAfter(X, I, T, g) ==
  \E I2, T2 : g = Gen(I2, T2) /\ SameLists(X, I, I2) /\ SameTypes(X, T, T2)

LEMMA GetOther ==
  ASSUME NEW X, NEW I, NEW T, NEW t, t \notin X, NEW id
  PROVE  SameAfter(X, I, T, GetLLVMType(Gen(I, T), t, id))
<1> DEFINE I2 == WithList(I, t)
           name == NameIn(I2[t], t, id)
           T2 == WithType(T, name, Opaque)
<1>1. GetLLVMType(Gen(I, T), t, id) = Gen(I2, T2)
  BY GetLLVMTypeIs
<1>2. SameLists(X, I, I2)
  <2>1. DOMAIN I2 = DOMAIN I \cup {t} /\ \A u \in DOMAIN I : I2[u] = I[u]
    BY ONLY WithListFacts, Zenon DEF I2
  <2> HIDE DEF I2
  <2> QED
    BY <2>1 DEF SameLists
<1>3. SameTypes(X, T, T2)
  <2>1. name[1] = t
    BY NameInOther
  <2> HIDE DEF name
  <2> QED
    BY <2>1, TypeElsewhere
<1> HIDE DEF I2, T2
<1> QED
  BY <1>1, <1>2, <1>3 DEF SameAfter

LEMMA SameAgain ==
  ASSUME NEW X, NEW I, NEW T, NEW I1, NEW T1, NEW I2, NEW T2,
         SameLists(X, I, I1), SameTypes(X, T, T1), SameLists(X, I1, I2), SameTypes(X, T1, T2)
  PROVE  SameLists(X, I, I2) /\ SameTypes(X, T, T2)
BY DEF SameLists, SameTypes

LEMMA TablesKept ==
  ASSUME NEW X, NEW I, NEW T, NEW M, Tables(X, I, T, M), NEW I2, NEW T2,
         SameLists(X, I, I2), SameTypes(X, T, T2)
  PROVE  /\ Tables(X, I2, T2, M) /\ ListsGrow(X, I, I2)
         /\ \A t \in X : \A id : IsListed(I, t, id) <=> IsListed(I2, t, id)
<1>1. ASSUME NEW t \in X, t \in DOMAIN I2
      PROVE  /\ I2[t] \in Seq(Nat) /\ I2[t] # <<>>
             /\ \A k \in 1..Len(I2[t]) :
                  /\ NameAt(t, k - 1) \in DOMAIN T2
                  /\ I2[t][k] \in M => T2[NameAt(t, k - 1)] = Made(I2[t][k])
  <2>1. t \in DOMAIN I /\ I2[t] = I[t]
    BY <1>1 DEF SameLists
  <2>2. I[t] \in Seq(Nat) /\ I[t] # <<>>
    BY <2>1 DEF Tables
  <2>3. ASSUME NEW k \in 1..Len(I[t])
        PROVE  /\ NameAt(t, k - 1) \in DOMAIN T2
               /\ I[t][k] \in M => T2[NameAt(t, k - 1)] = Made(I[t][k])
    <3>1. k - 1 \in Nat
      BY <2>2
    <3>2. /\ NameAt(t, k - 1) \in DOMAIN T
          /\ I[t][k] \in M => T[NameAt(t, k - 1)] = Made(I[t][k])
      BY <2>1 DEF Tables
    <3> QED
      BY <3>1, <3>2 DEF SameTypes
  <2> QED
    BY <2>1, <2>2, <2>3
<1>2. \A t \in X, k \in Nat : NameAt(t, k) \in DOMAIN T2 => t \in DOMAIN I2 /\ k < Len(I2[t])
  BY DEF Tables, SameTypes, SameLists
<1>3. ListsGrow(X, I, I2)
  BY DEF ListsGrow, SameLists
<1>4. \A t \in X : \A id : IsListed(I, t, id) <=> IsListed(I2, t, id)
  BY DEF IsListed, SameLists
<1> QED
  BY <1>1, <1>2, <1>3, <1>4 DEF Tables

LEMMA TablesName ==
  ASSUME NEW X, NEW I, NEW T, NEW M, Tables(X, I, T, M), NEW t \in X, NEW id, IsListed(I, t, id)
  PROVE  Named(I, T, t, id) /\ (id \in M => Built(I, T, t, id))
<1>1. t \in DOMAIN I
  BY DEF IsListed
<1> QED
  BY <1>1 DEF Tables, Named, Built

(* Another identity that is registered does not change what is found.      *)
LEMMA OtherRegistered ==
  ASSUME NEW X, NEW I, NEW T, NEW M, Tables(X, I, T, M), NEW u \in X, NEW x, IsListed(I, u, x),
         NEW t, NEW id \in Nat, x # id
  PROVE  /\ Named(Registered(I, t, id), T, u, x)
         /\ x \in M => Built(Registered(I, t, id), T, u, x)
<1> DEFINE J == Registered(I, t, id)
<1>1. DOMAIN J = DOMAIN I \cup {t} /\ J[t] = Append(ListIn(I, t), id)
  <2>1. DOMAIN J = DOMAIN I \cup {t}
    BY RegisteredDomain
  <2>2. J[t] = Append(ListIn(I, t), id)
    BY RegisteredList
  <2> HIDE DEF J
  <2> QED
    BY <2>1, <2>2
<1>2. u \in DOMAIN I
  BY DEF IsListed
<1>3. /\ I[u] \in Seq(Nat)
      /\ \A k \in 1..Len(I[u]) : I[u][k] = x => NameAt(u, k - 1) \in DOMAIN T
      /\ x \in M => \A k \in 1..Len(I[u]) : I[u][k] = x => T[NameAt(u, k - 1)] = Made(x)
      /\ \E k \in 1..Len(I[u]) : I[u][k] = x
  BY TablesName DEF Named, Built, IsListed
<1>4. J[u] = I[u] \/ J[u] = Append(I[u], id)
  <2>1. u # t => J[u] = I[u]
    BY <1>2, RegisteredOthers
  <2> HIDE DEF J
  <2> QED
    BY <1>1, <1>2, <2>1 DEF ListIn
<1> HIDE DEF J
<1>5. /\ J[u] \in Seq(Nat)
      /\ \A k : k \in 1..Len(J[u]) /\ J[u][k] = x <=> k \in 1..Len(I[u]) /\ I[u][k] = x
  <2>1. CASE J[u] = I[u]
    BY <1>3, <2>1
  <2>2. CASE J[u] = Append(I[u], id)
    <3>1. Len(J[u]) = Len(I[u]) + 1 /\ J[u][Len(I[u]) + 1] = id /\ Len(I[u]) \in Nat
          /\ \A k \in 1..Len(I[u]) : J[u][k] = I[u][k]
      BY <1>3, <2>2
    <3>2. \A k : k \in 1..Len(J[u]) <=> k \in 1..Len(I[u]) \/ k = Len(I[u]) + 1
      BY <3>1
    <3>3. J[u] \in Seq(Nat)
      BY <1>3, <2>2
    <3> QED
      BY <3>1, <3>2, <3>3
  <2> QED
    BY <1>4, <2>1, <2>2
<1>6. u \in DOMAIN J
  BY <1>1, <1>2
<1>7. Named(J, T, u, x)
  BY <1>3, <1>5, <1>6 DEF Named, IsListed
<1>8. x \in M => Built(J, T, u, x)
  BY <1>3, <1>5 DEF Built
<1> QED
  BY <1>7, <1>8 DEF J

LEMMA GrownNames ==
  ASSUME NEW X, NEW I, NEW T, NEW M, Tables(X, I, T, M), NEW I2, ListsGrow(X, I, I2),
         NEW t \in X, NEW id, IsListed(I, t, id)
  PROVE  IsListed(I2, t, id) /\ NameIn(I2[t], t, id) = NameIn(I[t], t, id)
<1> DEFINE L == I[t]
           L2 == I2[t]
           at == {i \in DOMAIN L : L[i] = id}
           at2 == {i \in DOMAIN L2 : L2[i] = id}
<1>1. t \in DOMAIN I /\ \E k \in 1..Len(L) : L[k] = id
  BY DEF IsListed
<1>2. L \in Seq(Nat) /\ Len(L) \in Nat
  BY <1>1 DEF Tables
<1>3. /\ t \in DOMAIN I2
      /\ L2 = L \/ \E x : L2 = Append(L, x) /\ \A k \in 1..Len(L) : L[k] # x
  BY <1>1 DEF ListsGrow
<1>4. at2 = at /\ IsListed(I2, t, id)
  <2>1. CASE L2 = L
    BY <1>1, <1>3, <2>1 DEF IsListed
  <2>2. CASE \E x : L2 = Append(L, x) /\ \A k \in 1..Len(L) : L[k] # x
    <3>1. PICK x : L2 = Append(L, x) /\ \A k \in 1..Len(L) : L[k] # x
      BY <2>2
    <3> HIDE DEF L, L2
    <3>2. /\ DOMAIN L = 1..Len(L) /\ DOMAIN L2 = 1..Len(L) + 1 /\ Len(L2) = Len(L) + 1
          /\ L2[Len(L) + 1] = x /\ \A k \in 1..Len(L) : L2[k] = L[k]
      BY <1>2, <3>1
    <3>3. \A k : k \in 1..Len(L) + 1 <=> k \in 1..Len(L) \/ k = Len(L) + 1
      BY <1>2
    <3>4. x # id
      BY <1>1, <3>1
    <3>5. at2 = at
      BY <3>2, <3>3, <3>4
    <3>6. \E k \in 1..Len(L2) : L2[k] = id
      BY <1>1, <3>2, <3>3
    <3> QED
      BY <1>3, <3>5, <3>6 DEF IsListed, L2
  <2> QED
    BY <1>3, <2>1, <2>2
<1>5. at # {}
  BY <1>1, <1>2
<1>6. NameIn(L, t, id) = IF (CHOOSE i \in at : TRUE) - 1 = 0 THEN <<t>>
                         ELSE <<t, (CHOOSE i \in at : TRUE) - 1>>
  BY <1>5 DEF NameIn
<1>7. NameIn(L2, t, id) = IF (CHOOSE i \in at2 : TRUE) - 1 = 0 THEN <<t>>
                          ELSE <<t, (CHOOSE i \in at2 : TRUE) - 1>>
  BY <1>4, <1>5 DEF NameIn
<1> HIDE DEF at, at2
<1>8. NameIn(L2, t, id) = NameIn(L, t, id)
  BY <1>4, <1>6, <1>7
<1> QED
  BY <1>4, <1>8

(* An identity is put in its list, and then its type has its name.         *)
LEMMA TypeRegistered ==
  ASSUME NEW X, NEW I, NEW T, NEW M, Tables(X, I, T, M), NEW t \in X, NEW id \in Nat,
         ~IsListed(I, t, id),
         NEW I2, NEW T1, SameLists(X, Registered(I, t, id), I2), SameTypes(X, T, T1),
         NEW body, id \in M => body = Made(id),
         NEW T2, T2 = WithType(T1, NameAt(t, Len(ListIn(I, t))), body)
  PROVE  Tables(X, I2, T2, M) /\ IsListed(I2, t, id) /\ ListsGrow(X, I, I2)
<1> DEFINE J == Registered(I, t, id)
           L == ListIn(I, t)
           len == Len(L)
           name == NameAt(t, len)
<1>1. DOMAIN J = DOMAIN I \cup {t} /\ J[t] = Append(L, id)
  <2>1. DOMAIN J = DOMAIN I \cup {t}
    BY RegisteredDomain
  <2>2. J[t] = Append(L, id)
    BY RegisteredList
  <2> HIDE DEF J
  <2> QED
    BY <2>1, <2>2
<1>2. \A u \in DOMAIN I : u # t => J[u] = I[u]
  BY RegisteredOthers
<1> HIDE DEF J
<1>3. L \in Seq(Nat) /\ len \in Nat
  BY DEF Tables, ListIn
<1>4. \A u \in X : u \in DOMAIN I2 <=> u \in DOMAIN I \/ u = t
  BY <1>1 DEF SameLists, J
<1>5. I2[t] = Append(L, id)
  BY <1>1 DEF SameLists, J
<1>6. \A u \in X : u \in DOMAIN I /\ u # t => I2[u] = I[u]
  BY <1>1, <1>2 DEF SameLists, J
<1>7. name \notin DOMAIN T
  BY <1>3 DEF Tables, ListIn
<1> HIDE DEF L
<1>8. name \notin DOMAIN T1
  BY <1>3, <1>7 DEF SameTypes
<1>9. /\ DOMAIN T2 = DOMAIN T1 \cup {name} /\ T2[name] = body
      /\ \A n \in DOMAIN T1 : T2[n] = T1[n]
  <2>1. T2 = WithType(T1, name, body)
    BY DEF L
  <2> HIDE DEF name
  <2> QED
    BY <1>8, <2>1 DEF WithType
<1>10. \A u \in X, k \in Nat :
         /\ NameAt(u, k) \in DOMAIN T => NameAt(u, k) \in DOMAIN T2 /\ T2[NameAt(u, k)] = T[NameAt(u, k)]
         /\ NameAt(u, k) \in DOMAIN T2 => NameAt(u, k) \in DOMAIN T \/ (u = t /\ k = len)
  <2>1. \A u \in X, k \in Nat : NameAt(u, k) = name => u = t /\ k = len
    BY <1>3, NamesDiffer
  <2> HIDE DEF name
  <2> QED
    BY <1>9, <2>1 DEF SameTypes
<1>11. /\ Len(I2[t]) = len + 1 /\ I2[t][len + 1] = id /\ I2[t] \in Seq(Nat)
       /\ \A k \in 1..len : I2[t][k] = L[k]
  BY <1>3, <1>5
<1>12. ASSUME NEW u \in X, u \in DOMAIN I2
       PROVE  /\ I2[u] \in Seq(Nat) /\ I2[u] # <<>>
              /\ \A k \in 1..Len(I2[u]) :
                   /\ NameAt(u, k - 1) \in DOMAIN T2
                   /\ I2[u][k] \in M => T2[NameAt(u, k - 1)] = Made(I2[u][k])
  <2>1. CASE u # t
    <3>1. u \in DOMAIN I /\ I2[u] = I[u]
      BY <1>4, <1>6, <1>12, <2>1
    <3>2. I[u] \in Seq(Nat) /\ I[u] # <<>>
      BY <3>1 DEF Tables
    <3>3. ASSUME NEW k \in 1..Len(I[u])
          PROVE  /\ NameAt(u, k - 1) \in DOMAIN T2
                 /\ I[u][k] \in M => T2[NameAt(u, k - 1)] = Made(I[u][k])
      <4>1. k - 1 \in Nat
        BY <3>2
      <4>2. /\ NameAt(u, k - 1) \in DOMAIN T
            /\ I[u][k] \in M => T[NameAt(u, k - 1)] = Made(I[u][k])
        BY <3>1 DEF Tables
      <4> QED
        BY <1>10, <4>1, <4>2
    <3> QED
      BY <3>1, <3>2, <3>3
  <2>2. CASE u = t
    <3>1. I2[t] # <<>>
      BY <1>3, <1>11
    <3>2. ASSUME NEW k \in 1..len
          PROVE  /\ NameAt(t, k - 1) \in DOMAIN T2
                 /\ L[k] \in M => T2[NameAt(t, k - 1)] = Made(L[k])
      <4>1. k - 1 \in Nat
        BY <1>3
      <4>2. t \in DOMAIN I /\ L = I[t]
        BY <1>3 DEF ListIn, L
      <4>3. /\ NameAt(t, k - 1) \in DOMAIN T
            /\ L[k] \in M => T[NameAt(t, k - 1)] = Made(L[k])
        BY <4>2 DEF Tables
      <4> QED
        BY <1>10, <4>1, <4>3
    <3>3. NameAt(t, (len + 1) - 1) \in DOMAIN T2 /\ (id \in M => T2[NameAt(t, (len + 1) - 1)] = Made(id))
      <4>1. NameAt(t, (len + 1) - 1) = name
        BY <1>3
      <4> QED
        BY <1>9, <4>1
    <3>4. \A k \in 1..Len(I2[t]) : k \in 1..len \/ k = len + 1
      BY <1>3, <1>11
    <3> HIDE DEF len
    <3>5. \A k \in 1..Len(I2[t]) :
            /\ NameAt(t, k - 1) \in DOMAIN T2
            /\ I2[t][k] \in M => T2[NameAt(t, k - 1)] = Made(I2[t][k])
      BY <1>11, <3>2, <3>3, <3>4
    <3> QED
      BY <1>11, <2>2, <3>1, <3>5
  <2> QED
    BY <2>1, <2>2
<1>13. \A u \in X, k \in Nat : NameAt(u, k) \in DOMAIN T2 => u \in DOMAIN I2 /\ k < Len(I2[u])
  <2> SUFFICES ASSUME NEW u \in X, NEW k \in Nat, NameAt(u, k) \in DOMAIN T2
               PROVE  u \in DOMAIN I2 /\ k < Len(I2[u])
    OBVIOUS
  <2>1. CASE NameAt(u, k) \in DOMAIN T
    <3>1. u \in DOMAIN I /\ k < Len(I[u])
      BY <2>1 DEF Tables
    <3>2. CASE u = t
      <4>1. len = Len(I[t])
        BY <3>1, <3>2 DEF ListIn, L
      <4> HIDE DEF len
      <4> QED
        BY <1>3, <1>4, <1>11, <3>1, <3>2, <4>1
    <3>3. CASE u # t
      BY <1>4, <1>6, <3>1, <3>3
    <3> QED
      BY <3>2, <3>3
  <2>2. CASE u = t /\ k = len
    BY <1>3, <1>4, <1>11, <2>2
  <2> QED
    BY <1>10, <2>1, <2>2
<1>14. IsListed(I2, t, id)
  <2>1. len + 1 \in 1..Len(I2[t]) /\ t \in DOMAIN I2
    BY <1>3, <1>4, <1>11
  <2> QED
    BY <1>11, <2>1 DEF IsListed
<1>15. ListsGrow(X, I, I2)
  <2> SUFFICES ASSUME NEW u \in X, u \in DOMAIN I
               PROVE  /\ u \in DOMAIN I2
                      /\ \/ I2[u] = I[u]
                         \/ \E x : I2[u] = Append(I[u], x) /\ \A k \in 1..Len(I[u]) : I[u][k] # x
    BY DEF ListsGrow
  <2>1. CASE u = t
    <3>1. I2[u] = Append(I[u], id) /\ \A k \in 1..Len(I[u]) : I[u][k] # id
      BY <1>5, <2>1 DEF IsListed, ListIn, L
    <3> QED
      BY <1>4, <3>1
  <2>2. CASE u # t
    BY <1>4, <1>6, <2>2
  <2> QED
    BY <2>1, <2>2
<1> QED
  BY <1>12, <1>13, <1>14, <1>15 DEF Tables
-----------------------------------------------------------------------------
(* The code generator at a node                                            *)

(* The type specifiers that are visited                                    *)
Specifiers == {"forward", "pointer", "object", "define"}

LEMMA FullyVisitedFacts ==
  ASSUME NodesAre(nodes, structMap), NEW X, FullyVisited(X), NEW i \in 1..Len(nodes)
  PROVE  /\ nodes[i] \in Node /\ NodeIs(nodes, i, structMap)
         /\ nodes[i].tag \in X => nodes[i].op # "typedef"
         /\ IsDefinition(i) /\ nodes[i].member.op = "nested" => nodes[i].member.tag \notin X
         /\ IsDefinition(i) /\ nodes[i].tag \in X /\ nodes[i].member.op # "none" =>
              nodes[i].member.tag \in X
         /\ IsDefinition(i) /\ nodes[i].member.op = "member" /\ nodes[i].member.tag \in X =>
              \A j \in 1..i - 1 : nodes[j].id = nodes[i].id =>
                \E h \in 1..j : nodes[h].id = nodes[i].memberID
<1>1. nodes \in Seq(Node) /\ DOMAIN nodes = 1..Len(nodes) /\ i \in DOMAIN nodes
  BY DEF NodesAre
<1>2. nodes[i] \in Node /\ NodeIs(nodes, i, structMap)
  BY <1>1 DEF NodesAre
<1>3. X \cap (Unvisited \cup Early) = {}
  BY DEF FullyVisited
<1>4. nodes[i].tag \in X => nodes[i].op # "typedef"
  BY <1>1, <1>3 DEF Unvisited
<1>5. IsDefinition(i) /\ nodes[i].member.op = "nested" => nodes[i].member.tag \notin X
  BY <1>1, <1>3 DEF Unvisited
<1>6. IsDefinition(i) /\ nodes[i].tag \in X /\ nodes[i].member.op # "none" =>
        nodes[i].member.tag \in X
  BY <1>1 DEF FullyVisited
<1>7. ASSUME IsDefinition(i), nodes[i].member.op = "member", nodes[i].member.tag \in X,
             NEW j \in 1..i - 1, nodes[j].id = nodes[i].id
      PROVE  \E h \in 1..j : nodes[h].id = nodes[i].memberID
  <2>1. nodes[i].member.tag \notin Early
    BY <1>3, <1>7
  <2> QED
    BY <1>1, <1>7, <2>1 DEF Early
<1> QED
  BY <1>2, <1>4, <1>5, <1>6, <1>7

(* An identity at a node is that of a type specifier that is visited.      *)
LEMMA SeenAs ==
  ASSUME NodesAre(nodes, structMap), NEW X, FullyVisited(X), NEW h \in 1..Len(nodes),
         nodes[h].tag \in X
  PROVE  \E g \in 1..h : /\ nodes[g].op \in Specifiers
                         /\ nodes[g].tag = nodes[h].tag /\ nodes[g].id = nodes[h].id
<1>1. nodes[h] \in Node /\ NodeIs(nodes, h, structMap) /\ nodes[h].op # "typedef"
  BY FullyVisitedFacts
<1>2. nodes[h].op \in Specifiers \cup {"access"}
  BY <1>1 DEF Node, Specifiers
<1>3. Len(nodes) \in Nat /\ h \in 1..h
  BY DEF NodesAre
<1>4. CASE nodes[h].op \in Specifiers
  BY <1>3, <1>4
<1>5. CASE nodes[h].op = "access"
  <2>1. PICK j \in 1..h - 1 : /\ nodes[j].op \in {"pointer", "object", "typedef"}
                              /\ nodes[j].tag = nodes[h].tag /\ nodes[j].id = nodes[h].id
    BY <1>1, <1>5 DEF NodeIs, DeclaredBefore
  <2>2. j \in 1..Len(nodes) /\ j \in 1..h
    BY <1>3
  <2>3. nodes[j].op # "typedef"
    BY <2>1, <2>2, FullyVisitedFacts
  <2> QED
    BY <2>1, <2>2, <2>3 DEF Specifiers
<1> QED
  BY <1>2, <1>4, <1>5

(* The structure of a member is visited before the node j, where the       *)
(* structure with the member is met.                                       *)
LEMMA MemberSeen ==
  ASSUME NodesAre(nodes, structMap), NEW X, FullyVisited(X),
         NEW i \in 1..Len(nodes), IsDefinition(i), nodes[i].member.op = "member",
         nodes[i].member.tag \in X,
         NEW j \in 1..Len(nodes), nodes[j].id = nodes[i].id
  PROVE  /\ nodes[i].memberID \in structMap /\ nodes[i].memberID # nodes[i].id
         /\ \E g \in 1..j - 1 : /\ nodes[g].op \in Specifiers
                                /\ nodes[g].tag = nodes[i].member.tag
                                /\ nodes[g].id = nodes[i].memberID
<1> DEFINE mt == nodes[i].member.tag
           mid == nodes[i].memberID
<1>1. Len(nodes) \in Nat /\ OneTag(nodes)
  BY DEF NodesAre
<1>2. /\ NodeIs(nodes, i, structMap)
      /\ \A k \in 1..i - 1 : nodes[k].id = nodes[i].id => \E h \in 1..k : nodes[h].id = mid
  BY FullyVisitedFacts
<1>3. mid \in structMap /\ mid # nodes[i].id /\ TaggedBefore(nodes, i, mt, mid)
  BY <1>2 DEF NodeIs, IsDefinition
<1>4. TaggedBefore(nodes, Len(nodes) + 1, mt, mid)
  <2>1. \A h \in 1..i - 1 : h \in 1..(Len(nodes) + 1) - 1
    BY <1>1
  <2> QED
    BY <1>3, <2>1 DEF TaggedBefore
<1>5. \E h \in 1..j - 1 : nodes[h].tag = mt /\ nodes[h].id = mid
  <2>1. CASE j < i
    <3>1. j \in 1..i - 1
      BY <1>1, <2>1
    <3>2. PICK h \in 1..j : nodes[h].id = mid
      BY <1>2, <3>1
    <3>3. h # j
      BY <1>3, <3>2
    <3>4. h \in 1..j - 1 /\ h \in 1..(Len(nodes) + 1) - 1
      BY <1>1, <3>3
    <3>5. TaggedBefore(nodes, Len(nodes) + 1, nodes[h].tag, mid)
      BY <3>2, <3>4 DEF TaggedBefore, Tags
    <3>6. nodes[h].tag = mt
      BY <1>1, <1>4, <3>5 DEF OneTag
    <3> QED
      BY <3>2, <3>4, <3>6
  <2>2. CASE i <= j
    <3>1. PICK h \in 1..i - 1 : Tags(nodes[h], mt, mid)
      BY <1>3 DEF TaggedBefore
    <3>2. h \in 1..j - 1 /\ h \in 1..Len(nodes)
      BY <1>1, <2>2
    <3>3. ~(IsDefinition(h) /\ nodes[h].member.op = "nested" /\ nodes[h].member.tag = mt)
      BY <3>2, FullyVisitedFacts
    <3> QED
      BY <3>1, <3>2, <3>3 DEF Tags, IsDefinition
  <2> QED
    BY <1>1, <2>1, <2>2
<1>6. PICK h \in 1..j - 1 : nodes[h].tag = mt /\ nodes[h].id = mid
  BY <1>5
<1>7. h \in 1..Len(nodes)
  BY <1>1
<1>8. PICK g \in 1..h : /\ nodes[g].op \in Specifiers
                        /\ nodes[g].tag = nodes[h].tag /\ nodes[g].id = nodes[h].id
  BY <1>6, <1>7, SeenAs
<1>9. g \in 1..j - 1
  BY <1>1
<1> QED
  BY <1>3, <1>6, <1>8, <1>9

(* The specifiers at the first k nodes have been visited.                  *)
ListedTo(X, I, k) ==
  \A i \in 1..k : nodes[i].op \in Specifiers /\ nodes[i].tag \in X =>
    IsListed(I, nodes[i].tag, nodes[i].id)

(* The types of the members are asked for, which changes nothing for X.    *)
LEMMA MembersVisited ==
  ASSUME NodesAre(nodes, structMap), NEW X, FullyVisited(X),
         NEW I, NEW T, Tables(X, I, T, structMap),
         NEW j \in 1..Len(nodes), ListedTo(X, I, j - 1),
         NEW t, t = nodes[j].tag, NEW id, id = nodes[j].id,
         NEW J, J = Registered(I, t, id)
  PROVE  \E I2, T2 : /\ AfterMembers(Gen(J, T), id) = Gen(I2, T2)
                     /\ SameLists(X, J, I2) /\ SameTypes(X, T, T2)
                     /\ t \in X => BodyOf(Gen(J, T), id) = Made(id)
<1> DEFINE g == Gen(J, T)
           c == CHOOSE i \in Definitions(id) : TRUE
           mt == nodes[c].member.tag
           mid == nodes[c].memberID
<1>1. SameLists(X, J, J) /\ SameTypes(X, T, T)
  BY DEF SameLists, SameTypes
<1>2. CASE Definitions(id) = {}
  <2>1. AfterMembers(g, id) = g /\ BodyOf(g, id) = Made(id)
    BY <1>2 DEF AfterMembers, BodyOf, Made
  <2> QED
    BY <1>1, <2>1
<1>3. CASE Definitions(id) # {}
  <2>1. nodes \in Seq(Node) /\ DOMAIN nodes = 1..Len(nodes) /\ Len(nodes) \in Nat /\ OneTag(nodes)
    BY DEF NodesAre
  <2>2. c \in Definitions(id)
    BY <1>3
  <2>3. /\ c \in 1..Len(nodes) /\ nodes[c].id = id /\ IsDefinition(c)
    BY <2>1, <2>2 DEF Definitions, IsDefinition
  <2>4. AfterMembers(g, id) = IF nodes[c].member.op = "none" THEN g ELSE GetLLVMType(g, mt, mid)
    BY <1>3 DEF AfterMembers
  <2>5. BodyOf(g, id) = [of |-> id, sized |-> MembersAreSized(g, nodes[c])]
    BY <1>3 DEF BodyOf
  <2> HIDE DEF c
  <2>6. nodes[c].tag = t
    <3>1. c \in 1..(Len(nodes) + 1) - 1 /\ j \in 1..(Len(nodes) + 1) - 1
      BY <2>1, <2>3
    <3>2. TaggedBefore(nodes, Len(nodes) + 1, nodes[c].tag, id) /\ TaggedBefore(nodes, Len(nodes) + 1, t, id)
      BY <2>3, <3>1 DEF TaggedBefore, Tags
    <3> QED
      BY <2>1, <3>2 DEF OneTag
  <2>7. CASE nodes[c].member.op = "none"
    <3>1. AfterMembers(g, id) = g
      BY <2>4, <2>7
    <3>2. MembersAreSized(g, nodes[c]) = TRUE
      BY <2>7 DEF MembersAreSized
    <3>3. BodyOf(g, id) = Made(id)
      BY <2>5, <3>2 DEF Made
    <3> QED
      BY <1>1, <3>1, <3>3
  <2>8. CASE nodes[c].member.op # "none" /\ mt \in X
    <3>1. nodes[c] \in Node /\ ~(nodes[c].member.op = "nested")
      BY <2>3, <2>8, FullyVisitedFacts
    <3>2. nodes[c].member \in Members /\ id \in Nat
      BY <2>1, <2>3, <3>1 DEF IsDefinition, Node
    <3>3. nodes[c].member.op = "member"
      BY <2>8, <3>1, <3>2 DEF Members, NoMember
    <3>4. /\ mid \in structMap /\ mid # id
          /\ \E h \in 1..j - 1 : nodes[h].op \in Specifiers /\ nodes[h].tag = mt /\ nodes[h].id = mid
      BY <2>3, <2>8, <3>3, MemberSeen
    <3>5. IsListed(I, mt, mid)
      BY <2>8, <3>4 DEF ListedTo
    <3> HIDE DEF mt, mid
    <3>6. Named(J, T, mt, mid) /\ Built(J, T, mt, mid)
      BY <2>8, <3>2, <3>4, <3>5, OtherRegistered
    <3>7. GetLLVMType(g, mt, mid) = g /\ TypeOf(g, mt, mid) = Made(mid)
      BY <3>6, GetNamed
    <3>8. MembersAreSized(g, nodes[c]) = TRUE
      <4>1. Made(mid).sized = TRUE
        BY DEF Made
      <4> HIDE DEF g
      <4>2. TypeOf(GetLLVMType(g, mt, mid), mt, mid).sized = TRUE
        BY <3>7, <4>1
      <4> QED
        BY <2>8, <4>2 DEF MembersAreSized, mt, mid
    <3>9. BodyOf(g, id) = Made(id)
      BY <2>5, <3>8 DEF Made
    <3>10. AfterMembers(g, id) = g
      BY <2>4, <2>8, <3>7
    <3> QED
      BY <1>1, <3>9, <3>10
  <2>9. CASE nodes[c].member.op # "none" /\ mt \notin X
    <3>1. t \notin X
      BY <2>3, <2>6, <2>9, FullyVisitedFacts
    <3> HIDE DEF mt, mid
    <3>2. PICK I2, T2 : /\ GetLLVMType(g, mt, mid) = Gen(I2, T2)
                        /\ SameLists(X, J, I2) /\ SameTypes(X, T, T2)
      <4>1. SameAfter(X, J, T, GetLLVMType(Gen(J, T), mt, mid))
        BY <2>9, GetOther
      <4> QED
        BY <4>1 DEF SameAfter
    <3>3. AfterMembers(g, id) = Gen(I2, T2)
      BY <2>4, <2>9, <3>2
    <3> QED
      BY <3>1, <3>2, <3>3
  <2> QED
    BY <2>7, <2>8, <2>9
<1> QED
  BY <1>2, <1>3

(* What visit of a Struct makes                                            *)
LEMMA VisitStructIs ==
  ASSUME NEW I, NEW T, NEW t, NEW id, NEW J, J = Registered(I, t, id),
         ~(t \in DOMAIN I /\ \E i \in DOMAIN I[t] : I[t][i] = id),
         NEW name, name = IF t \in DOMAIN I THEN <<t, Len(J[t]) - 1>> ELSE <<t>>
  PROVE  VisitStruct(Gen(I, T), t, id) =
           IF id \in structMap THEN Create(AfterMembers(Gen(J, T), id), name, BodyOf(Gen(J, T), id))
           ELSE Create(Gen(J, T), name, Opaque)
<1>1. Gen(I, T).ids = I /\ Gen(J, T).ids = J
  BY GenFields
<1>2. Register(Gen(I, T), t, id) = Gen(J, T)
  BY RegisterIs
<1> QED
  BY <1>1, <1>2 DEF VisitStruct

LEMMA StructVisited ==
  ASSUME NodesAre(nodes, structMap), NEW X, FullyVisited(X),
         NEW I, NEW T, Tables(X, I, T, structMap),
         NEW j \in 1..Len(nodes), ListedTo(X, I, j - 1),
         NEW t, t = nodes[j].tag, NEW id, id = nodes[j].id
  PROVE  \E I2, T2 : /\ VisitStruct(Gen(I, T), t, id) = Gen(I2, T2)
                     /\ Tables(X, I2, T2, structMap) /\ ListsGrow(X, I, I2)
                     /\ t \in X => IsListed(I2, t, id)
<1> DEFINE g == Gen(I, T)
           J == Registered(I, t, id)
           h == Gen(J, T)
           name == IF t \in DOMAIN I THEN <<t, Len(J[t]) - 1>> ELSE <<t>>
           known == t \in DOMAIN I /\ \E i \in DOMAIN I[t] : I[t][i] = id
<1>1. id \in Nat
  BY DEF NodesAre, Node
<1>2. t \in X => (known <=> IsListed(I, t, id))
  <2>1. ASSUME t \in X, t \in DOMAIN I
        PROVE  DOMAIN I[t] = 1..Len(I[t])
    BY <2>1 DEF Tables
  <2> QED
    BY <2>1 DEF IsListed
<1>3. CASE known
  <2>1. VisitStruct(g, t, id) = g
    BY <1>3, GenFields DEF VisitStruct
  <2>2. ListsGrow(X, I, I)
    BY DEF ListsGrow
  <2> QED
    BY <1>2, <1>3, <2>1, <2>2
<1>4. CASE ~known
  <2>1. VisitStruct(g, t, id) =
          IF id \in structMap THEN Create(AfterMembers(h, id), name, BodyOf(h, id))
          ELSE Create(h, name, Opaque)
    <3> HIDE DEF J, name
    <3> QED
      BY <1>4, VisitStructIs DEF J, name
  <2>2. PICK I2, T1, body :
          /\ VisitStruct(g, t, id) = Gen(I2, WithType(T1, name, body))
          /\ SameLists(X, J, I2) /\ SameTypes(X, T, T1)
          /\ t \in X /\ id \in structMap => body = Made(id)
    <3>1. CASE id \in structMap
      <4> HIDE DEF J, name
      <4>1. PICK I2, T1 : /\ AfterMembers(h, id) = Gen(I2, T1)
                          /\ SameLists(X, J, I2) /\ SameTypes(X, T, T1)
                          /\ t \in X => BodyOf(h, id) = Made(id)
        BY MembersVisited DEF J
      <4>2. VisitStruct(g, t, id) = Gen(I2, WithType(T1, name, BodyOf(h, id)))
        BY <2>1, <3>1, <4>1, CreateIs
      <4> QED
        BY <4>1, <4>2
    <3>2. CASE id \notin structMap
      <4> HIDE DEF J, name
      <4>1. VisitStruct(g, t, id) = Gen(J, WithType(T, name, Opaque))
        BY <2>1, <3>2, CreateIs
      <4>2. SameLists(X, J, J) /\ SameTypes(X, T, T)
        BY DEF SameLists, SameTypes
      <4> QED
        BY <3>2, <4>1, <4>2
    <3> QED
      BY <3>1, <3>2
  <2> DEFINE T2 == WithType(T1, name, body)
  <2>3. CASE t \in X
    <3>1. name = NameAt(t, Len(ListIn(I, t)))
      <4>1. J[t] = Append(ListIn(I, t), id)
        BY RegisteredList
      <4>2. CASE t \in DOMAIN I
        <5>1. ListIn(I, t) \in Seq(Nat) /\ ListIn(I, t) # <<>>
          BY <2>3, <4>2 DEF Tables, ListIn
        <5>2. Len(ListIn(I, t)) \in Nat /\ Len(ListIn(I, t)) # 0
          BY <5>1
        <5>3. Len(J[t]) - 1 = Len(ListIn(I, t))
          BY <4>1, <5>1, <5>2
        <5> HIDE DEF J
        <5> QED
          BY <4>2, <5>2, <5>3 DEF NameAt
      <4>3. CASE t \notin DOMAIN I
        <5>1. Len(ListIn(I, t)) = 0
          BY <4>3 DEF ListIn
        <5> QED
          BY <4>3, <5>1 DEF NameAt
      <4> QED
        BY <4>2, <4>3
    <3>2. T2 = WithType(T1, NameAt(t, Len(ListIn(I, t))), body)
      BY <3>1
    <3>3. ~IsListed(I, t, id) /\ t \in X /\ (id \in structMap => body = Made(id))
      BY <1>2, <1>4, <2>2, <2>3
    <3>4. SameLists(X, Registered(I, t, id), I2) /\ SameTypes(X, T, T1) /\ Tables(X, I, T, structMap)
      BY <2>2
    <3> HIDE DEF T2, name, J
    <3>5. Tables(X, I2, T2, structMap) /\ IsListed(I2, t, id) /\ ListsGrow(X, I, I2)
      BY ONLY <1>1, <3>2, <3>3, <3>4, TypeRegistered
    <3> QED
      BY <2>2, <3>5 DEF T2
  <2>4. CASE t \notin X
    <3>1. name[1] = t
      OBVIOUS
    <3>2. SameLists(X, I, J)
      <4>1. DOMAIN J = DOMAIN I \cup {t}
        BY RegisteredDomain
      <4>2. \A u \in X : u \in DOMAIN I => J[u] = I[u]
        BY <2>4, RegisteredOthers
      <4> HIDE DEF J
      <4> QED
        BY <2>4, <4>1, <4>2 DEF SameLists
    <3> HIDE DEF J, name
    <3>3. SameTypes(X, T1, T2)
      BY <2>4, <3>1, TypeElsewhere
    <3>4. SameLists(X, I, I2) /\ SameTypes(X, T, T2)
      <4> HIDE DEF T2
      <4>1. SameLists(X, I2, I2)
        BY DEF SameLists
      <4>2. SameLists(X, I, I2)
        BY <2>2, <3>2 DEF SameLists
      <4>3. SameTypes(X, T, T2)
        BY <2>2, <3>3 DEF SameTypes
      <4> QED
        BY <4>2, <4>3
    <3> HIDE DEF T2
    <3>5. Tables(X, I2, T2, structMap) /\ ListsGrow(X, I, I2)
      BY <3>4, TablesKept
    <3> QED
      BY <2>2, <2>4, <3>5 DEF T2
  <2> QED
    BY <2>3, <2>4
<1> QED
  BY <1>3, <1>4

(* The type of an allocation or an access                                  *)
LEMMA TypeAsked ==
  ASSUME NodesAre(nodes, structMap), NEW X, FullyVisited(X),
         NEW I, NEW T, Tables(X, I, T, structMap),
         NEW j \in 1..Len(nodes), nodes[j].op \in {"object", "typedef", "access"},
         NEW t, t = nodes[j].tag, NEW id, id = nodes[j].id,
         t \in X => IsListed(I, t, id)
  PROVE  \E I2, T2 : /\ GetLLVMType(Gen(I, T), t, id) = Gen(I2, T2)
                     /\ SameLists(X, I, I2) /\ SameTypes(X, T, T2)
                     /\ t \in X => TypeOf(Gen(I2, T2), t, id) = Made(id)
<1>1. CASE t \in X
  <2>1. id \in structMap
    <3>1. nodes[j].op # "typedef" /\ NodeIs(nodes, j, structMap)
      BY <1>1, FullyVisitedFacts
    <3> QED
      BY <3>1 DEF NodeIs
  <2>2. Named(I, T, t, id) /\ Built(I, T, t, id)
    BY <1>1, <2>1, TablesName
  <2>3. GetLLVMType(Gen(I, T), t, id) = Gen(I, T) /\ TypeOf(Gen(I, T), t, id) = Made(id)
    BY <2>2, GetNamed
  <2>4. SameLists(X, I, I) /\ SameTypes(X, T, T)
    BY DEF SameLists, SameTypes
  <2> QED
    BY <2>3, <2>4
<1>2. CASE t \notin X
  <2>1. SameAfter(X, I, T, GetLLVMType(Gen(I, T), t, id))
    BY <1>2, GetOther
  <2> QED
    BY <1>2, <2>1 DEF SameAfter
<1> QED
  BY <1>1, <1>2
-----------------------------------------------------------------------------
(* Each use has the type that was made for its node.                       *)
UsesLaid(X, I, k, us) ==
  \A u \in us :
    /\ u.node \in 1..k
    /\ nodes[u.node].tag \in X =>
         /\ IsListed(I, nodes[u.node].tag, nodes[u.node].id)
         /\ u.type = Made(nodes[u.node].id)

LaidOut(X, I, T, k, us) ==
  Tables(X, I, T, structMap) /\ ListedTo(X, I, k) /\ UsesLaid(X, I, k, us)

(* What has been generated, for the tags that are fully visited            *)
GInv ==
  /\ pc \in {"check", "rejected", "generate", "done"}
  /\ pc \in {"check", "rejected"} =>
       structIDs = <<>> /\ llvmTypes = <<>> /\ uses = {} /\ generated = 0
  /\ pc \in {"generate", "done"} =>
       /\ generated \in 0..Len(nodes)
       /\ \A X \in SUBSET Tag :
            FullyVisited(X) => LaidOut(X, structIDs, llvmTypes, generated, uses)

LEMMA GrowAndKeep ==
  ASSUME NEW X, NEW I, NEW T, NEW M, Tables(X, I, T, M), NEW I1, NEW T1, ListsGrow(X, I, I1),
         NEW I2, NEW T2, SameLists(X, I1, I2), SameTypes(X, T1, T2), Tables(X, I1, T1, M)
  PROVE  Tables(X, I2, T2, M) /\ ListsGrow(X, I, I2)
<1>1. Tables(X, I2, T2, M)
  BY TablesKept
<1>2. ListsGrow(X, I, I2)
  BY DEF ListsGrow, SameLists
<1> QED
  BY <1>1, <1>2

(* The type specifier at a node, and then what is allocated or accessed    *)
LEMMA NodeVisited ==
  ASSUME NodesAre(nodes, structMap), NEW X, FullyVisited(X),
         NEW I, NEW T, Tables(X, I, T, structMap),
         NEW j \in 1..Len(nodes), ListedTo(X, I, j - 1),
         NEW n, n = nodes[j],
         NEW g, g = IF n.op \in Specifiers THEN VisitStruct(Gen(I, T), n.tag, n.id) ELSE Gen(I, T),
         NEW h, h = IF n.op \in {"object", "typedef", "access"} THEN GetLLVMType(g, n.tag, n.id)
                    ELSE g
  PROVE  \E I2, T2 : /\ h = Gen(I2, T2)
                     /\ Tables(X, I2, T2, structMap) /\ ListsGrow(X, I, I2)
                     /\ n.op \in Specifiers /\ n.tag \in X => IsListed(I2, n.tag, n.id)
                     /\ n.op \in {"object", "typedef", "access"} /\ n.tag \in X =>
                          IsListed(I2, n.tag, n.id) /\ TypeOf(h, n.tag, n.id) = Made(n.id)
<1> DEFINE t == n.tag
           id == n.id
<1>1. t = nodes[j].tag /\ id = nodes[j].id
  OBVIOUS
<1>2. PICK I1, T1 : /\ g = Gen(I1, T1)
                    /\ Tables(X, I1, T1, structMap) /\ ListsGrow(X, I, I1)
                    /\ n.op \in Specifiers /\ t \in X => IsListed(I1, t, id)
  <2>1. CASE n.op \in Specifiers
    <3>1. g = VisitStruct(Gen(I, T), t, id)
      BY <2>1
    <3> HIDE DEF t, id
    <3>2. PICK I1, T1 : /\ VisitStruct(Gen(I, T), t, id) = Gen(I1, T1)
                        /\ Tables(X, I1, T1, structMap) /\ ListsGrow(X, I, I1)
                        /\ t \in X => IsListed(I1, t, id)
      BY <1>1, StructVisited
    <3> QED
      BY <3>1, <3>2
  <2>2. CASE n.op \notin Specifiers
    <3>1. g = Gen(I, T) /\ ListsGrow(X, I, I)
      BY <2>2 DEF ListsGrow
    <3> QED
      BY <2>2, <3>1
  <2> QED
    BY <2>1, <2>2
<1>3. CASE n.op \notin {"object", "typedef", "access"}
  BY <1>2, <1>3
<1>4. CASE n.op \in {"object", "typedef", "access"}
  <2>1. h = GetLLVMType(g, t, id)
    BY <1>4
  <2>2. t \in X => IsListed(I1, t, id)
    <3>1. ASSUME t \in X, n.op \notin Specifiers
          PROVE  IsListed(I1, t, id)
      <4>1. PICK k \in 1..j : /\ nodes[k].op \in Specifiers
                              /\ nodes[k].tag = t /\ nodes[k].id = id
        BY <1>1, <3>1, SeenAs
      <4>2. k # j
        BY <3>1, <4>1
      <4>3. k \in 1..j - 1
        BY <4>2 DEF NodesAre
      <4>4. IsListed(I, t, id)
        BY <3>1, <4>1, <4>3 DEF ListedTo
      <4> HIDE DEF t, id
      <4> QED
        BY <1>2, <3>1, <4>4, GrownNames
    <3> QED
      BY <1>2, <3>1
  <2>3. nodes[j].op \in {"object", "typedef", "access"}
    BY <1>4
  <2> HIDE DEF t, id
  <2>4. PICK I2, T2 : /\ GetLLVMType(Gen(I1, T1), t, id) = Gen(I2, T2)
                      /\ SameLists(X, I1, I2) /\ SameTypes(X, T1, T2)
                      /\ t \in X => TypeOf(Gen(I2, T2), t, id) = Made(id)
    BY <1>1, <1>2, <2>2, <2>3, TypeAsked
  <2>5. h = Gen(I2, T2)
    BY <1>2, <2>1, <2>4
  <2>6. Tables(X, I2, T2, structMap) /\ ListsGrow(X, I, I2)
    BY <1>2, <2>4, GrowAndKeep
  <2>7. t \in X => IsListed(I2, t, id)
    BY <2>2, <2>4 DEF SameLists, IsListed
  <2> QED
    BY <2>4, <2>5, <2>6, <2>7 DEF t, id
<1> QED
  BY <1>3, <1>4

LEMMA GenerateLays ==
  ASSUME Sourced, GInv, Generate, NEW X \in SUBSET Tag, FullyVisited(X)
  PROVE  /\ ListsGrow(X, structIDs, structIDs')
         /\ LaidOut(X, structIDs', llvmTypes', generated', uses')
<1> DEFINE j == generated + 1
           n == nodes[j]
           uses_n == n.op \in {"object", "typedef", "access"}
           v == Visited(n)
           g == IF uses_n THEN GetLLVMType(v, n.tag, n.id) ELSE v
<1>1. /\ pc = "generate" /\ generated < Len(nodes) /\ generated' = j
      /\ structIDs' = g.ids /\ llvmTypes' = g.types
      /\ uses' = IF uses_n THEN uses \cup {[node |-> j, type |-> TypeOf(g, n.tag, n.id)]} ELSE uses
  BY DEF Generate
<1>2. NodesAre(nodes, structMap) /\ Len(nodes) \in Nat
  BY DEF Sourced, NodesAre
<1>3. /\ generated \in 0..Len(nodes)
      /\ Tables(X, structIDs, llvmTypes, structMap) /\ ListedTo(X, structIDs, generated)
      /\ UsesLaid(X, structIDs, generated, uses)
  BY <1>1 DEF GInv, LaidOut
<1>4. generated \in Nat /\ j \in 1..Len(nodes) /\ j - 1 = generated
  BY <1>1, <1>2, <1>3
<1>5. v = IF n.op \in Specifiers THEN VisitStruct(Gen(structIDs, llvmTypes), n.tag, n.id)
          ELSE Gen(structIDs, llvmTypes)
  BY DEF Visited, Gen, Specifiers
<1>6. g = IF n.op \in {"object", "typedef", "access"} THEN GetLLVMType(v, n.tag, n.id) ELSE v
  OBVIOUS
<1>7. n = nodes[j]
  OBVIOUS
<1> HIDE DEF j, n, v, g
<1>8. ListedTo(X, structIDs, j - 1)
  BY <1>3, <1>4
<1>9. PICK I2, T2 : /\ g = Gen(I2, T2)
                    /\ Tables(X, I2, T2, structMap) /\ ListsGrow(X, structIDs, I2)
                    /\ n.op \in Specifiers /\ n.tag \in X => IsListed(I2, n.tag, n.id)
                    /\ n.op \in {"object", "typedef", "access"} /\ n.tag \in X =>
                         IsListed(I2, n.tag, n.id) /\ TypeOf(g, n.tag, n.id) = Made(n.id)
  BY <1>2, <1>3, <1>4, <1>5, <1>6, <1>7, <1>8, NodeVisited
<1>10. structIDs' = I2 /\ llvmTypes' = T2
  BY <1>1, <1>9, GenFields
<1>11. \A t \in X : \A id : IsListed(structIDs, t, id) => IsListed(I2, t, id)
  BY <1>3, <1>9, GrownNames
<1>12. ListedTo(X, I2, j)
  <2>1. \A i \in 1..j : i \in 1..generated \/ i = j
    BY <1>4
  <2> QED
    BY <1>3, <1>7, <1>9, <1>11, <2>1 DEF ListedTo
<1>13. UsesLaid(X, I2, j, uses')
  <2>1. \A u \in uses : /\ u.node \in 1..j
                        /\ nodes[u.node].tag \in X =>
                             /\ IsListed(I2, nodes[u.node].tag, nodes[u.node].id)
                             /\ u.type = Made(nodes[u.node].id)
    <3>1. \A i \in 1..generated : i \in 1..j
      BY <1>4
    <3> QED
      BY <1>3, <1>11, <3>1 DEF UsesLaid
  <2>2. CASE ~uses_n
    BY <1>1, <2>1, <2>2 DEF UsesLaid
  <2>3. CASE uses_n
    <3> DEFINE u == [node |-> j, type |-> TypeOf(g, n.tag, n.id)]
    <3>1. uses' = uses \cup {u}
      BY <1>1, <2>3
    <3>2. u.node = j /\ u.type = TypeOf(g, n.tag, n.id)
      OBVIOUS
    <3>3. j \in 1..j
      BY <1>4
    <3> HIDE DEF u
    <3>4. /\ u.node \in 1..j
          /\ nodes[u.node].tag \in X =>
               /\ IsListed(I2, nodes[u.node].tag, nodes[u.node].id)
               /\ u.type = Made(nodes[u.node].id)
      BY <1>7, <1>9, <2>3, <3>2, <3>3
    <3> QED
      BY <2>1, <3>1, <3>4 DEF UsesLaid
  <2> QED
    BY <2>2, <2>3
<1> QED
  BY <1>1, <1>9, <1>10, <1>12, <1>13 DEF LaidOut

-----------------------------------------------------------------------------
LEMMA FullyVisitedKept ==
  ASSUME nodes' = nodes, NEW X, FullyVisited(X)'
  PROVE  FullyVisited(X)
BY DEF FullyVisited, Unvisited, Early, IsDefinition

(* The tables after a step, with the nodes as they were                    *)
LEMMA GInvNext ==
  ASSUME nodes' = nodes, structMap' = structMap,
         pc' \in {"generate", "done"}, generated' \in 0..Len(nodes),
         \A X \in SUBSET Tag :
           FullyVisited(X) => LaidOut(X, structIDs', llvmTypes', generated', uses')
  PROVE  GInv'
<1>1. ASSUME NEW X \in SUBSET Tag, FullyVisited(X)'
      PROVE  LaidOut(X, structIDs, llvmTypes, generated, uses)'
  <2>1. LaidOut(X, structIDs', llvmTypes', generated', uses')
    BY <1>1, FullyVisitedKept
  <2> QED
    BY <2>1 DEF LaidOut, ListedTo, UsesLaid
<1> QED
  BY <1>1 DEF GInv

LEMMA CheckerStepGenerates ==
  ASSUME GInv, pc = "check", pc' \in {"check", "rejected"}, UNCHANGED generator
  PROVE  GInv'
<1>1. structIDs = <<>> /\ llvmTypes = <<>> /\ uses = {} /\ generated = 0
  BY DEF GInv
<1>2. structIDs' = <<>> /\ llvmTypes' = <<>> /\ uses' = {} /\ generated' = 0
  BY <1>1 DEF generator
<1> QED
  BY <1>2 DEF GInv

(* The tables are empty when the code generator begins.                    *)
LEMMA EndOfUnitGenerates ==
  ASSUME Sourced, GInv, CheckEndOfUnit
  PROVE  GInv'
<1>1. /\ pc = "check" /\ pc' = "generate" /\ nodes' = nodes /\ structMap' = structMap
      /\ UNCHANGED generator
  BY DEF CheckEndOfUnit, EndOfUnit
<1>2. structIDs' = <<>> /\ llvmTypes' = <<>> /\ uses' = {} /\ generated' = 0
  BY <1>1 DEF GInv, generator
<1>3. generated' \in 0..Len(nodes)
  BY <1>2 DEF Sourced, NodesAre
<1>4. ASSUME NEW X \in SUBSET Tag
      PROVE  LaidOut(X, structIDs', llvmTypes', generated', uses')
  <2>1. DOMAIN structIDs' = {} /\ DOMAIN llvmTypes' = {}
    BY <1>2
  <2>2. Tables(X, structIDs', llvmTypes', structMap)
    BY <2>1 DEF Tables
  <2>3. ListedTo(X, structIDs', 0) /\ UsesLaid(X, structIDs', 0, {})
    BY DEF ListedTo, UsesLaid
  <2> QED
    BY <1>2, <2>2, <2>3 DEF LaidOut
<1> QED
  BY <1>1, <1>3, <1>4, GInvNext

LEMMA GenerateGenerates ==
  ASSUME Sourced, GInv, Generate
  PROVE  GInv'
<1>1. /\ pc' = "generate" /\ nodes' = nodes /\ structMap' = structMap
      /\ generated' = generated + 1 /\ generated < Len(nodes) /\ pc = "generate"
  BY DEF Generate, checker
<1>2. generated' \in 0..Len(nodes)
  <2>1. Len(nodes) \in Nat /\ generated \in 0..Len(nodes)
    BY <1>1 DEF Sourced, NodesAre, GInv
  <2> QED
    BY <1>1, <2>1
<1>3. \A X \in SUBSET Tag :
        FullyVisited(X) => LaidOut(X, structIDs', llvmTypes', generated', uses')
  BY GenerateLays
<1> QED
  BY <1>1, <1>2, <1>3, GInvNext

LEMMA StepGenerates ==
  ASSUME Sourced, GInv, [CheckNext]_allvars
  PROVE  GInv'
<1>1. CASE \/ \E t \in Tag : CheckForward(t)
           \/ \E t \in Tag, op \in {"pointer", "object"} : CheckVariable(t, op)
           \/ \E t \in Tag, m \in Members, op \in {"define", "typedef"} : CheckDefine(t, m, op)
           \/ \E v \in DOMAIN variables : CheckAccess(v)
           \/ CheckEnterScope \/ CheckExitScope
  <2> DEFINE Checks == pc = "check" /\ pc' \in {"check", "rejected"} /\ UNCHANGED generator
  <2>1. Checks
    <3>1. ASSUME NEW t \in Tag, CheckForward(t)
          PROVE  Checks
      BY <3>1 DEF CheckForward, Forward, CanAdd
    <3>2. ASSUME NEW t \in Tag, NEW op \in {"pointer", "object"}, CheckVariable(t, op)
          PROVE  Checks
      BY <3>2 DEF CheckVariable, Variable, CanAdd
    <3>3. ASSUME NEW t \in Tag, NEW m \in Members, NEW op \in {"define", "typedef"},
                 CheckDefine(t, m, op)
          PROVE  Checks
      BY <3>3 DEF CheckDefine, Define, CanAdd
    <3>4. ASSUME NEW v \in DOMAIN variables, CheckAccess(v)
          PROVE  Checks
      BY <3>4 DEF CheckAccess, Access, CanAdd
    <3>5. CASE CheckEnterScope \/ CheckExitScope
      BY <3>5 DEF CheckEnterScope, EnterScope, CheckExitScope, ExitScope, CanAdd
    <3> QED
      BY <1>1, <3>1, <3>2, <3>3, <3>4, <3>5
  <2> QED
    BY <2>1, CheckerStepGenerates
<1>2. CASE CheckEndOfUnit
  BY <1>2, EndOfUnitGenerates
<1>3. CASE Generate
  BY <1>3, GenerateGenerates
<1>4. CASE Finish
  <2>1. /\ pc = "generate" /\ pc' = "done" /\ nodes' = nodes /\ structMap' = structMap
        /\ UNCHANGED generator
    BY <1>4 DEF Finish, checker
  <2>2. /\ generated' \in 0..Len(nodes)
        /\ \A X \in SUBSET Tag :
             FullyVisited(X) => LaidOut(X, structIDs', llvmTypes', generated', uses')
    BY <2>1 DEF GInv, generator
  <2> QED
    BY <2>1, <2>2, GInvNext
<1>5. CASE UNCHANGED allvars
  <2>1. pc' = pc /\ nodes' = nodes /\ structMap' = structMap /\ UNCHANGED generator
    BY <1>5 DEF allvars, vars, checker
  <2>2. CASE pc \in {"check", "rejected"}
    BY <2>1, <2>2 DEF GInv, generator
  <2>3. CASE pc \in {"generate", "done"}
    <3>1. /\ generated' \in 0..Len(nodes)
          /\ \A X \in SUBSET Tag :
               FullyVisited(X) => LaidOut(X, structIDs', llvmTypes', generated', uses')
      BY <2>1, <2>3 DEF GInv, generator
    <3> QED
      BY <2>1, <2>3, <3>1, GInvNext
  <2> QED
    BY <2>2, <2>3 DEF GInv
<1>6. CASE Stopped /\ UNCHANGED cvars
  <2>1. UNCHANGED allvars
    BY <1>6 DEF Stopped, allvars
  <2> QED
    BY <1>5, <2>1
<1> QED
  BY <1>1, <1>2, <1>3, <1>4, <1>5, <1>6 DEF CheckNext

(* The tables have the types of what has been generated.                   *)
THEOREM TablesFollowIdentities == CheckSpec => []GInv
<1>1. CheckInit => GInv
  BY DEF CheckInit, Init, GInv
<1>2. Sourced /\ GInv /\ [CheckNext]_allvars => GInv'
  BY StepGenerates
<1> QED
  BY <1>1, <1>2, IdentitiesHaveSources, PTL DEF CheckSpec

(* In the code generator, whatever getLLVMType gives an allocation or an   *)
(* access is the type that visit of a Struct made for the identity of that *)
(* node, and it has members, if the tag is one of those fully visited.     *)
THEOREM UsesAreLaidOut == CheckSpec => []UsesAreLaidOutButForDepartures
<1>1. Sourced /\ GInv => UsesAreLaidOutButForDepartures
  <2> SUFFICES ASSUME Sourced, GInv, NEW u \in uses, Laid(u.node)
               PROVE  u.type = [of |-> nodes[u.node].id, sized |-> TRUE]
    BY DEF UsesAreLaidOutButForDepartures
  <2>1. pc \in {"generate", "done"}
    BY DEF GInv
  <2>2. PICK X \in SUBSET Tag : nodes[u.node].tag \in X /\ FullyVisited(X)
    BY DEF Laid
  <2>3. LaidOut(X, structIDs, llvmTypes, generated, uses)
    BY <2>1, <2>2 DEF GInv
  <2>4. u.type = Made(nodes[u.node].id)
    BY <2>2, <2>3 DEF LaidOut, UsesLaid
  <2> QED
    BY <2>4 DEF Made
<1> QED
  BY <1>1, IdentitiesHaveSources, TablesFollowIdentities, PTL

LEMMA NameOfTables ==
  ASSUME NEW I, NEW t, NEW id
  PROVE  NameOf([ids |-> I], t, id) = NameIn(I[t], t, id)
<1>1. [ids |-> I].ids = I
  OBVIOUS
<1> QED
  BY <1>1 DEF NameOf, NameIn

(* What is found for a use after a step                                    *)
LEMMA FoundAgain ==
  ASSUME Sourced, GInv, pc = "generate", [CheckNext]_allvars, NEW u \in uses, Laid(u.node)
  PROVE  /\ u \in uses' /\ Laid(u.node)'
         /\ nodes' = nodes
         /\ NameOf([ids |-> structIDs'], nodes[u.node].tag, nodes[u.node].id) =
              NameOf([ids |-> structIDs], nodes[u.node].tag, nodes[u.node].id)
<1> DEFINE t == nodes[u.node].tag
           id == nodes[u.node].id
<1>1. Generate \/ Finish \/ UNCHANGED allvars
  BY DEF CheckNext, CheckForward, Forward, CheckVariable, Variable, CheckDefine, CheckAccess, Access,
         CheckEnterScope, EnterScope, CheckExitScope, ExitScope, CheckEndOfUnit, EndOfUnit, CanAdd, Stopped
<1>2. nodes' = nodes /\ uses \subseteq uses'
  <2>1. CASE Generate
    BY <2>1 DEF Generate, checker
  <2>2. CASE Finish \/ UNCHANGED allvars
    BY <2>2 DEF Finish, allvars, vars, checker, generator
  <2> QED
    BY <1>1, <2>1, <2>2
<1>3. Laid(u.node)'
  BY <1>2 DEF Laid, FullyVisited, Unvisited, Early, IsDefinition
<1>4. NameOf([ids |-> structIDs'], t, id) = NameOf([ids |-> structIDs], t, id)
  <2>1. CASE Generate
    <3>1. PICK X \in SUBSET Tag : t \in X /\ FullyVisited(X)
      BY DEF Laid
    <3>2. LaidOut(X, structIDs, llvmTypes, generated, uses)
      BY <3>1 DEF GInv
    <3>3. IsListed(structIDs, t, id) /\ Tables(X, structIDs, llvmTypes, structMap)
      BY <3>1, <3>2 DEF LaidOut, UsesLaid
    <3>4. ListsGrow(X, structIDs, structIDs')
      BY <2>1, <3>1, GenerateLays
    <3> HIDE DEF t, id
    <3>5. NameIn(structIDs'[t], t, id) = NameIn(structIDs[t], t, id)
      BY <3>1, <3>3, <3>4, GrownNames
    <3> QED
      BY <3>5, NameOfTables
  <2>2. CASE Finish \/ UNCHANGED allvars
    <3>1. structIDs' = structIDs
      BY <2>2 DEF Finish, allvars, vars, generator
    <3> QED
      BY <3>1
  <2> QED
    BY <1>1, <2>1, <2>2
<1> QED
  BY <1>2, <1>3, <1>4

(* structIDs_ of the code generator: the name that an identity has in the  *)
(* list of its tag, once an allocation or access was generated with it, is *)
(* its name after every later step.                                        *)
THEOREM FoundTypesAreStable == CheckSpec => TypeFoundIsStable
<1>1. Sourced /\ GInv /\ [CheckNext]_allvars => [pc = "generate" => Found \subseteq Found']_allvars
  <2> SUFFICES ASSUME Sourced, GInv, [CheckNext]_allvars, pc = "generate", NEW f \in Found
               PROVE  f \in Found'
    OBVIOUS
  <2>1. PICK u \in uses : /\ Laid(u.node)
                          /\ f = <<u.node, NameOf([ids |-> structIDs], nodes[u.node].tag, nodes[u.node].id)>>
    BY DEF Found
  <2>2. /\ u \in uses' /\ Laid(u.node)' /\ nodes' = nodes
        /\ NameOf([ids |-> structIDs'], nodes[u.node].tag, nodes[u.node].id) =
             NameOf([ids |-> structIDs], nodes[u.node].tag, nodes[u.node].id)
    BY <2>1, FoundAgain
  <2>3. f = <<u.node, NameOf([ids |-> structIDs'], nodes'[u.node].tag, nodes'[u.node].id)>>
    BY <2>1, <2>2
  <2> QED
    BY <2>2, <2>3 DEF Found, NameOf
<1> QED
  BY <1>1, IdentitiesHaveSources, TablesFollowIdentities, PTL DEF CheckSpec, TypeFoundIsStable

=============================================================================
