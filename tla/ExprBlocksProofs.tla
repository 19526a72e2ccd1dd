-------------------------- MODULE ExprBlocksProofs --------------------------
(***************************************************************************)
(* That every phi names the blocks that branch to it, and that an          *)
(* expression leaves no block behind without a terminator, for expressions *)
(* of any size.                                                            *)
(*                                                                         *)
(* A phi says who branches to its block when all of them have done so.     *)
(* Until then the block is in a local variable of an active visit, empty,  *)
(* and nobody but this visit can name it: the visit holds it.              *)
(***************************************************************************)
EXTENDS ExprBlocks, SequenceTheorems, TLAPS

Value == Nat \X Nat

Instruction ==
  [op : {"call"}, id : Nat] \cup [op : {"+", "<"}, l : Value, r : Value]
    \cup [op : {"icmp", "zext", "ret"}, v : Value] \cup [op : {"br"}, t : Nat]
    \cup [op : {"condbr"}, v : Value, t : Nat, f : Nat]
    \cup [op : {"phi"}, type : {"i1", "int"}, in : Seq([v : Value, b : Nat])]

Code == Seq(Seq(Instruction))

Merging == Logical \cup Ternary
Visit == [kind : BinaryOps \cup Merging, operand : 1..3, lhs : Value,
          lhsBB : Nat, rhsBB : Nat, afterBB : Nat]

(* The instruction i, or one of s, branches to b.                          *)
LeadsTo(i, b) == (i.op = "br" /\ i.t = b) \/ (i.op = "condbr" /\ b \in {i.t, i.f})
Leads(s, b) == \E k \in DOMAIN s : LeadsTo(s[k], b)
Preds(c, b) == {a \in DOMAIN c : Leads(c[a], b)}

(* A sequence of instructions without a terminator, with one at its end    *)
(* only, and without a phi                                                 *)
Open(s)   == \A k \in DOMAIN s : ~IsTerminator(s[k])
Closed(s) == s # << >> /\ \A k \in DOMAIN s : IsTerminator(s[k]) <=> k = Len(s)
NoPhi(s)  == \A k \in DOMAIN s : s[k].op # "phi"
Plain(s)  == Open(s) /\ NoPhi(s)

(* The blocks that a visit has created, and that control has not reached   *)
Held(f) ==
  IF f.kind \in Merging
  THEN (IF f.kind \in Ternary /\ f.operand = 1 THEN {f.lhsBB} ELSE {})
         \cup (IF f.operand < Arity(f.kind) THEN {f.rhsBB, f.afterBB} ELSE {f.afterBB})
  ELSE {}

(* They are empty, and what branches to "after" is what the phi will name, *)
(* but for the block in which the last operand ends.                       *)
VisitOK(f, c, block, ins) ==
  /\ f.operand <= Arity(f.kind)
  /\ \A b \in Held(f) : b \in DOMAIN c /\ b # block /\ c[b] = << >>
  /\ f.kind \in Merging =>
       /\ f.rhsBB # f.afterBB
       /\ Preds(c, f.afterBB) = IF f.operand = Arity(f.kind) THEN {f.lhsBB} ELSE {}
  /\ f.kind \in Ternary /\ f.operand = 1 =>
       f.lhsBB \in ins /\ f.lhsBB # f.rhsBB /\ f.lhsBB # f.afterBB

Typed ==
  /\ code \in Code /\ frames \in Seq(Visit)
  /\ inserted \subseteq Blocks /\ cur \in inserted
  /\ currentValue \in Value /\ isVoid \in BOOLEAN /\ calls \in Nat
  /\ pc \in {"visit", "return", "done"}
  /\ pc = "done" => frames = << >>

Holding(fs, c, block, ins) ==
  /\ \A i \in DOMAIN fs : VisitOK(fs[i], c, block, ins)
  /\ \A i, j \in DOMAIN fs : i # j => Held(fs[i]) \cap Held(fs[j]) = {}

HeldBy(fs) == UNION {Held(fs[i]) : i \in DOMAIN fs}

(* Every block but the one that is written, and those that are held, has   *)
(* its terminator, and is in the function.                                 *)
ClosedBut(fs, c, block, ins) ==
  \A b \in DOMAIN c : b \in HeldBy(fs) \/ (b \in ins /\ (b = block \/ Closed(c[b])))

VisitsHold == Holding(frames, code, cur, inserted)

TargetsExist == \A a \in Blocks, b \in Nat : Leads(code[a], b) => b \in Blocks

BlocksAreClosed ==
  /\ ClosedBut(frames, code, cur, inserted)
  /\ IF pc = "done" THEN Closed(code[cur]) ELSE Open(code[cur])

(* The operands that a visit still has to begin: each of them is a call,   *)
(* as far as it is known.                                                  *)
Ahead(f) == Arity(f.kind) - f.operand

(* m[i] is what the expression would have in calls if only the i outermost *)
(* visits went on: pending with none of them, all of them with all.        *)
Remaining(m, fs, pending, all) ==
  /\ m \in [0..Len(fs) -> {k \in Nat : k >= pending}]
  /\ m[0] = pending /\ m[Len(fs)] = all
  /\ \A i \in 1..Len(fs) : m[i] = m[i - 1] + Ahead(fs[i])

Pending == calls + (IF pc = "visit" THEN 1 ELSE 0)
LeavesAreCounted ==
  leaves \in 1..MaxCalls /\ \E m : Remaining(m, frames, Pending, leaves)

Structure ==
  /\ Typed /\ VisitsHold /\ TargetsExist /\ BlocksAreClosed /\ PhisNamePredecessors

IInv == Structure /\ LeavesAreCounted

(* When the expression has been visited, all that was created is in the    *)
(* function, and every block ends in its only terminator.                  *)
ExpressionIsClosed ==
  pc = "done" => inserted = Blocks /\ \A b \in Blocks : Closed(code[b])

-----------------------------------------------------------------------------
(* Sequences of instructions                                               *)

LEMMA ConcatFacts ==
  ASSUME NEW a \in Seq(Instruction), NEW s \in Seq(Instruction)
  PROVE  /\ a \o s \in Seq(Instruction)
         /\ \A k \in DOMAIN a : k \in DOMAIN (a \o s) /\ (a \o s)[k] = a[k]
         /\ \A b : Leads(a \o s, b) <=> Leads(a, b) \/ Leads(s, b)
         /\ Open(a) /\ Open(s) => Open(a \o s)
         /\ Open(a) /\ Closed(s) => Closed(a \o s)
         /\ NoPhi(s) => \A k \in DOMAIN (a \o s) : (a \o s)[k].op = "phi" => k \in DOMAIN a
         /\ Plain(a) /\ Plain(s) => Plain(a \o s)
<1> DEFINE t == a \o s
<1>1. t \in Seq(Instruction) /\ Len(t) = Len(a) + Len(s)
      /\ Len(a) \in Nat /\ Len(s) \in Nat
  OBVIOUS
<1>2. DOMAIN t = 1..(Len(a) + Len(s)) /\ DOMAIN a = 1..Len(a) /\ DOMAIN s = 1..Len(s)
  BY <1>1
<1>3. /\ \A k \in 1..Len(a) : t[k] = a[k]
      /\ \A k \in 1..Len(s) : t[Len(a) + k] = s[k]
  BY <1>1, ConcatProperties
<1> HIDE DEF t
<1>4. \A k \in DOMAIN a : k \in DOMAIN t /\ t[k] = a[k]
  BY <1>1, <1>2, <1>3
<1>5. \A k \in DOMAIN s : Len(a) + k \in DOMAIN t /\ t[Len(a) + k] = s[k]
  BY <1>1, <1>2, <1>3
<1>6. \A k \in DOMAIN t :
        \/ k \in DOMAIN a /\ t[k] = a[k] /\ k # Len(t) + 1
        \/ \E j \in DOMAIN s : k = Len(a) + j /\ t[k] = s[j]
  <2> SUFFICES ASSUME NEW k \in DOMAIN t, k \notin DOMAIN a
               PROVE  \E j \in DOMAIN s : k = Len(a) + j /\ t[k] = s[j]
    BY <1>1, <1>2, <1>4
  <2>1. k - Len(a) \in DOMAIN s /\ k = Len(a) + (k - Len(a))
    BY <1>1, <1>2
  <2> QED
    BY <1>5, <2>1
<1>7. \A b : Leads(t, b) <=> Leads(a, b) \/ Leads(s, b)
  BY <1>4, <1>5, <1>6 DEF Leads
<1>8. Open(a) /\ Open(s) => Open(t)
  BY <1>6 DEF Open
<1>9. ASSUME Open(a), Closed(s) PROVE Closed(t)
  <2>1. t # << >>
    BY <1>1, <1>2, <1>9 DEF Closed
  <2>2. \A k \in DOMAIN a : k # Len(t)
    <3>1. Len(s) # 0
      BY <1>1, <1>9 DEF Closed
    <3> QED
      BY <1>1, <1>2, <3>1
  <2>3. \A j \in DOMAIN s : j = Len(s) <=> Len(a) + j = Len(t)
    BY <1>1, <1>2
  <2> QED
    BY <1>6, <1>9, <2>1, <2>2, <2>3 DEF Open, Closed
<1>10. NoPhi(s) => \A k \in DOMAIN t : t[k].op = "phi" => k \in DOMAIN a
  BY <1>6 DEF NoPhi
<1>11. NoPhi(a) /\ NoPhi(s) => NoPhi(t)
  BY <1>6 DEF NoPhi
<1> QED
  BY <1>1, <1>4, <1>7, <1>8, <1>9, <1>10, <1>11 DEF t, Plain

(* One instruction                                                         *)
LEMMA SingleFacts ==
  ASSUME NEW i \in Instruction
  PROVE  /\ <<i>> \in Seq(Instruction) /\ <<i>> # << >>
         /\ DOMAIN <<i>> = {1} /\ <<i>>[1] = i
         /\ \A b : Leads(<<i>>, b) <=> LeadsTo(i, b)
         /\ IsTerminator(i) => Closed(<<i>>)
         /\ ~IsTerminator(i) => Open(<<i>>)
         /\ i.op # "phi" => NoPhi(<<i>>)
<1>1. <<i>> \in Seq(Instruction) /\ Len(<<i>>) = 1 /\ <<i>>[1] = i /\ DOMAIN <<i>> = {1} /\ <<i>> # << >>
  OBVIOUS
<1> DEFINE s == <<i>>
<1> HIDE DEF s
<1>2. s \in Seq(Instruction) /\ Len(s) = 1 /\ s[1] = i /\ DOMAIN s = {1} /\ s # << >>
  BY <1>1 DEF s
<1>3. /\ \A b : Leads(s, b) <=> LeadsTo(i, b)
      /\ IsTerminator(i) => Closed(s)
      /\ ~IsTerminator(i) => Open(s)
      /\ i.op # "phi" => NoPhi(s)
  BY <1>2 DEF Leads, Closed, Open, NoPhi
<1> QED
  BY <1>2, <1>3 DEF s

LEMMA EmptyFacts ==
  << >> \in Seq(Instruction) /\ Plain(<< >>) /\ \A b : ~Leads(<< >>, b)
BY DEF Plain, Open, NoPhi, Leads

(* Instructions that end in a terminator                                   *)
LEMMA JumpFacts ==
  ASSUME NEW p \in Seq(Instruction), Plain(p), NEW i \in Instruction, IsTerminator(i)
  PROVE  /\ p \o <<i>> \in Seq(Instruction)
         /\ Closed(p \o <<i>>) /\ NoPhi(p \o <<i>>)
         /\ \A b : Leads(p \o <<i>>, b) <=> LeadsTo(i, b)
<1>1. i.op # "phi"
  BY DEF IsTerminator
<1>2. \A b : ~Leads(p, b)
  BY DEF Plain, Open, IsTerminator, Leads, LeadsTo
<1>3. NoPhi(p \o <<i>>)
  <2>1. \A k \in DOMAIN (p \o <<i>>) : (p \o <<i>>)[k].op = "phi" => k \in DOMAIN p
    BY <1>1, SingleFacts, ConcatFacts
  <2>2. \A k \in DOMAIN p : (p \o <<i>>)[k] = p[k]
    BY SingleFacts, ConcatFacts
  <2> QED
    BY <2>1, <2>2 DEF NoPhi, Plain
<1>4. <<i>> \in Seq(Instruction) /\ Closed(<<i>>) /\ \A b : Leads(<<i>>, b) <=> LeadsTo(i, b)
  BY SingleFacts
<1> QED
  BY <1>2, <1>3, <1>4, ConcatFacts DEF Plain

LEMMA PlainLeadsNowhere ==
  ASSUME NEW s, Open(s)
  PROVE  \A b : ~Leads(s, b)
BY DEF Open, IsTerminator, Leads, LeadsTo

-----------------------------------------------------------------------------
(* The constructors of instructions                                        *)

LEMMA CallFacts ==
  ASSUME NEW n \in Nat
  PROVE  Call(n) \in Instruction /\ ~IsTerminator(Call(n)) /\ Call(n).op # "phi"
BY DEF Call, Instruction, IsTerminator

LEMMA OperatorFacts ==
  ASSUME NEW o \in BinaryOps, NEW l \in Value, NEW r \in Value
  PROVE  /\ Operator(o, l, r) \in Instruction
         /\ ~IsTerminator(Operator(o, l, r)) /\ Operator(o, l, r).op # "phi"
<1>1. o \in {"+", "<"}
  BY BinaryOpsAreKnown
<1>2. Operator(o, l, r) \in [op : {"+", "<"}, l : Value, r : Value]
  BY <1>1 DEF Operator
<1>3. Operator(o, l, r).op = o
  BY DEF Operator
<1> QED
  BY <1>1, <1>2, <1>3 DEF Instruction, IsTerminator

LEMMA UnaryFacts ==
  ASSUME NEW v \in Value
  PROVE  /\ CmpNE0(v) \in Instruction /\ ~IsTerminator(CmpNE0(v)) /\ CmpNE0(v).op # "phi"
         /\ ZExt(v) \in Instruction /\ ~IsTerminator(ZExt(v)) /\ ZExt(v).op # "phi"
         /\ Ret(v) \in Instruction /\ IsTerminator(Ret(v)) /\ \A b : ~LeadsTo(Ret(v), b)
BY DEF CmpNE0, ZExt, Ret, Instruction, IsTerminator, LeadsTo

LEMMA BranchFacts ==
  ASSUME NEW v \in Value, NEW t \in Nat, NEW f \in Nat
  PROVE  /\ CondBr(v, t, f) \in Instruction /\ IsTerminator(CondBr(v, t, f))
         /\ \A b : LeadsTo(CondBr(v, t, f), b) <=> b \in {t, f}
         /\ Br(t) \in Instruction /\ IsTerminator(Br(t))
         /\ \A b : LeadsTo(Br(t), b) <=> b = t
BY DEF CondBr, Br, Instruction, IsTerminator, LeadsTo

LEMMA PhiFacts ==
  ASSUME NEW type \in {"i1", "int"}, NEW l \in Value, NEW lb \in Nat, NEW r \in Value, NEW rb \in Nat
  PROVE  /\ Phi(type, l, lb, r, rb) \in Instruction
         /\ ~IsTerminator(Phi(type, l, lb, r, rb)) /\ Phi(type, l, lb, r, rb).op = "phi"
         /\ Phi(type, l, lb, r, rb).in[1].b = lb /\ Phi(type, l, lb, r, rb).in[2].b = rb
<1>1. <<[v |-> l, b |-> lb], [v |-> r, b |-> rb]>> \in Seq([v : Value, b : Nat])
  OBVIOUS
<1>2. Phi(type, l, lb, r, rb) \in [op : {"phi"}, type : {"i1", "int"}, in : Seq([v : Value, b : Nat])]
  BY <1>1 DEF Phi
<1>3. /\ Phi(type, l, lb, r, rb).op = "phi"
      /\ Phi(type, l, lb, r, rb).in[1].b = lb /\ Phi(type, l, lb, r, rb).in[2].b = rb
  BY DEF Phi
<1> QED
  BY <1>2, <1>3 DEF Instruction, IsTerminator

-----------------------------------------------------------------------------
(* What the conversions emit                                               *)

LEMMA NewIsValue ==
  ASSUME Typed, NEW k \in Nat
  PROVE  New(k) \in Value /\ code[cur] \in Seq(Instruction) /\ cur \in Nat
<1>1. Len(code) \in Nat /\ DOMAIN code = 1..Len(code) /\ cur \in 1..Len(code)
  BY DEF Typed, Code, Blocks
<1>2. code[cur] \in Seq(Instruction) /\ cur \in Nat
  BY <1>1 DEF Typed, Code
<1>3. Len(code[cur]) + k \in Nat
  BY <1>2
<1> QED
  BY <1>2, <1>3 DEF New, Value

LEMMA ConversionFacts ==
  ASSUME Typed, NEW v \in Value, NEW k \in Nat
  PROVE  /\ isNotZero(v).s \in Seq(Instruction) /\ Plain(isNotZero(v).s)
         /\ isNotZero(v).v \in Value
         /\ runCast(v, k).s \in Seq(Instruction) /\ Plain(runCast(v, k).s)
         /\ runCast(v, k).v \in Value
<1>1. New(1) \in Value /\ New(k) \in Value
  BY NewIsValue
<1>2. <<CmpNE0(v)>> \in Seq(Instruction) /\ Plain(<<CmpNE0(v)>>)
  BY UnaryFacts, SingleFacts DEF Plain
<1>3. <<ZExt(v)>> \in Seq(Instruction) /\ Plain(<<ZExt(v)>>)
  BY UnaryFacts, SingleFacts DEF Plain
<1>4. \/ isNotZero(v).s = << >> /\ isNotZero(v).v = v
      \/ isNotZero(v).s = <<CmpNE0(v)>> /\ isNotZero(v).v = New(1)
  BY DEF isNotZero
<1>5. \/ runCast(v, k).s = <<ZExt(v)>> /\ runCast(v, k).v = New(k)
      \/ runCast(v, k).s = << >> /\ runCast(v, k).v = v
  BY DEF runCast
<1> QED
  BY <1>1, <1>2, <1>3, <1>4, <1>5, EmptyFacts

-----------------------------------------------------------------------------
(* What a step does to the blocks: s is put at the end of one, and those   *)
(* in M, which were empty, begin.  Others may be new.                      *)
Extends(c, d, block, s, M) ==
  /\ d \in Code /\ Len(c) <= Len(d) /\ d[block] = c[block] \o s
  /\ \A b \in DOMAIN d : b # block /\ b \notin M =>
       d[b] = IF b \in DOMAIN c THEN c[b] ELSE << >>
  /\ \A b \in M : b \in DOMAIN c /\ b # block /\ c[b] = << >> /\ Open(d[b])

PhisAt(c, b) ==
  \A k \in DOMAIN c[b] : c[b][k].op = "phi" =>
    LET in == c[b][k].in
    IN  k = 1 /\ in[1].b # in[2].b /\ {in[1].b, in[2].b} = Preds(c, b)

LEMMA PredecessorsAre ==
  /\ \A b : Predecessors(b) = Preds(code, b)
  /\ PhisNamePredecessors <=> \A b \in DOMAIN code : PhisAt(code, b)
<1>1. \A b : Predecessors(b) = Preds(code, b)
  BY DEF Predecessors, Preds, Leads, LeadsTo, Blocks
<1>2. PhisNamePredecessors <=> \A b \in DOMAIN code : PhisAt(code, b)
  BY <1>1 DEF PhisNamePredecessors, PhisAt, Blocks
<1> QED
  BY <1>1, <1>2

LEMMA ExtendsDomain ==
  ASSUME NEW c \in Code, NEW d, NEW block \in DOMAIN c, NEW s, NEW M, Extends(c, d, block, s, M)
  PROVE  /\ DOMAIN c = 1..Len(c) /\ DOMAIN d = 1..Len(d) /\ DOMAIN c \subseteq DOMAIN d
         /\ Len(c) \in Nat /\ Len(d) \in Nat
         /\ block \in DOMAIN d /\ block \notin M /\ M \subseteq DOMAIN c
         /\ c[block] \in Seq(Instruction)
<1>1. Len(c) \in Nat /\ Len(d) \in Nat /\ DOMAIN c = 1..Len(c) /\ DOMAIN d = 1..Len(d)
      /\ Len(c) <= Len(d)
  BY DEF Extends, Code
<1>2. DOMAIN c \subseteq DOMAIN d
  BY <1>1
<1>3. c[block] \in Seq(Instruction)
  BY <1>1 DEF Code
<1> QED
  BY <1>1, <1>2, <1>3 DEF Extends

(* Only the block that is written gets new successors.                     *)
LEMMA PredsAfter ==
  ASSUME NEW c \in Code, NEW d, NEW block \in DOMAIN c, NEW s \in Seq(Instruction), NEW M,
         Extends(c, d, block, s, M)
  PROVE  \A b : Preds(d, b) = Preds(c, b) \cup (IF Leads(s, b) THEN {block} ELSE {})
<1>1. /\ DOMAIN c \subseteq DOMAIN d /\ block \in DOMAIN d /\ block \notin M /\ M \subseteq DOMAIN c
      /\ c[block] \in Seq(Instruction)
  BY ExtendsDomain
<1>2. \A b : Leads(d[block], b) <=> Leads(c[block], b) \/ Leads(s, b)
  BY <1>1, ConcatFacts DEF Extends
<1>3. \A a \in M : \A b : ~Leads(d[a], b) /\ ~Leads(c[a], b)
  BY EmptyFacts, PlainLeadsNowhere DEF Extends
<1>4. \A a \in DOMAIN d \ DOMAIN c : \A b : ~Leads(d[a], b)
  BY <1>1, EmptyFacts DEF Extends
<1>5. \A a \in DOMAIN c : a # block /\ a \notin M => d[a] = c[a]
  BY <1>1 DEF Extends
<1> SUFFICES ASSUME NEW b, NEW a
             PROVE  a \in Preds(d, b) <=> a \in Preds(c, b) \/ (a = block /\ Leads(s, b))
  OBVIOUS
<1>6. CASE a = block
  BY <1>1, <1>2, <1>6 DEF Preds
<1>7. CASE a \in M
  BY <1>1, <1>3, <1>7 DEF Preds
<1>8. CASE a \in DOMAIN c /\ a # block /\ a \notin M
  BY <1>1, <1>5, <1>8 DEF Preds
<1>9. CASE a \notin DOMAIN c
  BY <1>1, <1>4, <1>9 DEF Preds
<1> QED
  BY <1>6, <1>7, <1>8, <1>9

LEMMA TargetsAfter ==
  ASSUME NEW c \in Code, NEW d, NEW block \in DOMAIN c, NEW s \in Seq(Instruction), NEW M,
         Extends(c, d, block, s, M),
         \A a \in DOMAIN c, b \in Nat : Leads(c[a], b) => b \in DOMAIN c,
         \A b \in Nat : Leads(s, b) => b \in DOMAIN d
  PROVE  \A a \in DOMAIN d, b \in Nat : Leads(d[a], b) => b \in DOMAIN d
<1>1. DOMAIN c \subseteq DOMAIN d
  BY ExtendsDomain
<1>2. \A b : Preds(d, b) = Preds(c, b) \cup (IF Leads(s, b) THEN {block} ELSE {})
  BY PredsAfter
<1> SUFFICES ASSUME NEW a \in DOMAIN d, NEW b \in Nat, Leads(d[a], b)
             PROVE  b \in DOMAIN d
  OBVIOUS
<1>3. a \in Preds(d, b)
  BY DEF Preds
<1>4. a \in Preds(c, b) \/ Leads(s, b)
  BY <1>2, <1>3
<1> QED
  BY <1>1, <1>4 DEF Preds

(* A phi that is complete stays so: nothing branches to its block anymore. *)
LEMMA PhisAfter ==
  ASSUME NEW c \in Code, NEW d, NEW block \in DOMAIN c, NEW s \in Seq(Instruction), NEW M,
         Extends(c, d, block, s, M), NoPhi(s),
         \A b \in DOMAIN c : PhisAt(c, b),
         \A b \in DOMAIN c : Leads(s, b) => b # block /\ c[b] = << >>
  PROVE  \A b \in DOMAIN d : b \notin M => PhisAt(d, b)
<1>1. /\ DOMAIN c \subseteq DOMAIN d /\ block \in DOMAIN d
      /\ c[block] \in Seq(Instruction)
  BY ExtendsDomain
<1>2. \A b : Preds(d, b) = Preds(c, b) \cup (IF Leads(s, b) THEN {block} ELSE {})
  BY PredsAfter
<1> SUFFICES ASSUME NEW b \in DOMAIN d, b \notin M, NEW k \in DOMAIN d[b], d[b][k].op = "phi"
             PROVE  LET in == d[b][k].in
                    IN  k = 1 /\ in[1].b # in[2].b /\ {in[1].b, in[2].b} = Preds(d, b)
  BY DEF PhisAt
<1>3. b \in DOMAIN c /\ k \in DOMAIN c[b] /\ d[b][k] = c[b][k]
  <2>1. CASE b = block
    <3>1. d[b] = c[b] \o s
      BY <2>1 DEF Extends
    <3>2. k \in DOMAIN c[b]
      BY <1>1, <2>1, <3>1, ConcatFacts
    <3> QED
      BY <1>1, <2>1, <3>1, <3>2, ConcatFacts
  <2>2. CASE b # block
    <3>1. d[b] = IF b \in DOMAIN c THEN c[b] ELSE << >>
      BY <2>2 DEF Extends
    <3>2. b \in DOMAIN c
      <4>1. DOMAIN << >> = {}
        OBVIOUS
      <4> QED
        BY <3>1, <4>1
    <3> QED
      BY <3>1, <3>2
  <2> QED
    BY <2>1, <2>2
<1>4. ~Leads(s, b)
  <2> SUFFICES ASSUME Leads(s, b) PROVE FALSE
    OBVIOUS
  <2>1. c[b] = << >>
    BY <1>3
  <2>2. DOMAIN << >> = {}
    OBVIOUS
  <2> QED
    BY <1>3, <2>1, <2>2
<1>5. Preds(d, b) = Preds(c, b)
  BY <1>2, <1>4
<1> QED
  BY <1>3, <1>5 DEF PhisAt

(* A visit keeps what it holds, if the step neither writes nor branches to *)
(* it.                                                                     *)
LEMMA VisitKept ==
  ASSUME NEW c \in Code, NEW d, NEW block \in DOMAIN c, NEW s \in Seq(Instruction), NEW M,
         Extends(c, d, block, s, M), NEW f \in Visit, NEW ins, NEW ins2, NEW block2,
         VisitOK(f, c, block, ins), ins \subseteq ins2,
         \A b \in Held(f) : ~Leads(s, b) /\ b \notin M /\ b # block2
  PROVE  VisitOK(f, d, block2, ins2)
<1>1. DOMAIN c \subseteq DOMAIN d
  BY ExtendsDomain
<1>2. \A b : Preds(d, b) = Preds(c, b) \cup (IF Leads(s, b) THEN {block} ELSE {})
  BY PredsAfter
<1>3. \A b \in Held(f) : b \in DOMAIN d /\ b # block2 /\ d[b] = << >>
  BY <1>1 DEF VisitOK, Extends
<1>4. f.kind \in Merging => Preds(d, f.afterBB) = Preds(c, f.afterBB)
  <2>1. f.kind \in Merging => f.afterBB \in Held(f)
    BY DEF Held
  <2> QED
    BY <1>2, <2>1
<1> QED
  BY <1>3, <1>4 DEF VisitOK

(* The n outermost visits stay, and there is one more at most.             *)
Outermost(n, fs, gs) ==
  n <= Len(fs) /\ n <= Len(gs) /\ Len(gs) <= n + 1 /\ \A i \in 1..n : gs[i] = fs[i]

(* Only the next visit's blocks are branched to, begun or gone on in.      *)
ReachesOnly(s, M, block, block2, fs, n) ==
  \A b : Leads(s, b) \/ b \in M \/ b = block2 =>
           b = block \/ (n < Len(fs) /\ b \in Held(fs[n + 1]))

(* The one more                                                            *)
NextHolds(n, fs, gs, c, block, ins) ==
  n < Len(gs) => /\ VisitOK(gs[n + 1], c, block, ins)
                 /\ \A i \in 1..n : Held(gs[n + 1]) \cap Held(fs[i]) = {}

(* The visits after a step which leaves the n outermost ones alone, and    *)
(* branches to and goes on in blocks of the next one only                  *)
LEMMA VisitsAfter ==
  ASSUME NEW c \in Code, NEW d, NEW block \in DOMAIN c, NEW s \in Seq(Instruction), NEW M,
         Extends(c, d, block, s, M), NEW ins, NEW ins2, NEW block2, ins \subseteq ins2,
         NEW fs \in Seq(Visit), NEW gs \in Seq(Visit), NEW n \in Nat, Outermost(n, fs, gs),
         Holding(fs, c, block, ins), ReachesOnly(s, M, block, block2, fs, n),
         NextHolds(n, fs, gs, d, block2, ins2)
  PROVE  Holding(gs, d, block2, ins2)
<1> USE DEF Outermost, NextHolds
<1>1. /\ DOMAIN fs = 1..Len(fs) /\ DOMAIN gs = 1..Len(gs) /\ Len(fs) \in Nat /\ Len(gs) \in Nat
      /\ \A i \in 1..Len(fs) : fs[i] \in Visit
  OBVIOUS
<1>2. \A i \in 1..n : i \in DOMAIN fs /\ i \in DOMAIN gs /\ i # n + 1 /\ gs[i] = fs[i]
  BY <1>1
<1>3. \A i \in DOMAIN gs : i \in 1..n \/ (i = n + 1 /\ n < Len(gs))
  BY <1>1
<1>4. n < Len(fs) => n + 1 \in DOMAIN fs
  BY <1>1
<1>5. \A i \in 1..n : \A b \in Held(fs[i]) : ~Leads(s, b) /\ b \notin M /\ b # block2
  <2> SUFFICES ASSUME NEW i \in 1..n, NEW b \in Held(fs[i]), Leads(s, b) \/ b \in M \/ b = block2
               PROVE  FALSE
    OBVIOUS
  <2>1. b # block
    BY <1>2 DEF Holding, VisitOK
  <2>2. n + 1 \in DOMAIN fs /\ b \in Held(fs[n + 1])
    BY <1>4, <2>1 DEF ReachesOnly
  <2> QED
    BY <1>2, <2>2 DEF Holding
<1>6. \A i \in 1..n : VisitOK(gs[i], d, block2, ins2)
  <2> TAKE i \in 1..n
  <2>1. VisitOK(fs[i], c, block, ins) /\ fs[i] \in Visit
    BY <1>1, <1>2 DEF Holding
  <2>2. PICK f \in Visit : f = fs[i]
    BY <2>1
  <2>3. VisitOK(f, c, block, ins) /\ \A b \in Held(f) : ~Leads(s, b) /\ b \notin M /\ b # block2
    BY <1>5, <2>1, <2>2
  <2>4. /\ c \in Code /\ block \in DOMAIN c /\ s \in Seq(Instruction)
        /\ Extends(c, d, block, s, M) /\ ins \subseteq ins2 /\ f \in Visit
    OBVIOUS
  <2>5. VisitOK(f, d, block2, ins2)
    BY ONLY <2>3, <2>4, VisitKept
  <2> QED
    BY <1>2, <2>2, <2>5
<1>7. \A i \in DOMAIN gs : VisitOK(gs[i], d, block2, ins2)
  BY <1>3, <1>6
<1>8. \A i, j \in 1..n : i # j => Held(gs[i]) \cap Held(gs[j]) = {}
  BY <1>2 DEF Holding
<1>9. \A i, j \in DOMAIN gs : i # j => Held(gs[i]) \cap Held(gs[j]) = {}
  BY <1>2, <1>3, <1>8
<1> QED
  BY <1>7, <1>9 DEF Holding

(* The insertion point stays, or the block in which it was is closed.      *)
MovesOn(d, block, ins, block2, ins2) ==
  ins \subseteq ins2 /\ block \in ins /\ block2 \in ins2 /\ (block2 = block \/ Closed(d[block]))

(* What is not held any more is where the builder goes on, and what is new *)
(* is held.                                                                *)
HandsOver(c, d, fs, gs, M, block2) ==
  /\ \A b \in HeldBy(fs) : b \in HeldBy(gs) \/ b = block2
  /\ \A b \in DOMAIN d : b \notin DOMAIN c => b \in HeldBy(gs)
  /\ \A b \in M : b = block2

LEMMA ClosedAfter ==
  ASSUME NEW c \in Code, NEW d, NEW block \in DOMAIN c, NEW s \in Seq(Instruction), NEW M,
         Extends(c, d, block, s, M), NEW ins, NEW ins2, NEW block2, NEW fs, NEW gs,
         ClosedBut(fs, c, block, ins), MovesOn(d, block, ins, block2, ins2),
         HandsOver(c, d, fs, gs, M, block2)
  PROVE  ClosedBut(gs, d, block2, ins2)
<1> SUFFICES ASSUME NEW b \in DOMAIN d, b \notin HeldBy(gs), b # block2
             PROVE  b \in ins2 /\ Closed(d[b])
  BY DEF ClosedBut, MovesOn
<1> USE DEF MovesOn
<1>1. b \in DOMAIN c /\ b \notin HeldBy(fs) /\ b \notin M
  BY DEF HandsOver
<1>2. b \in ins /\ (b = block \/ Closed(c[b]))
  BY <1>1 DEF ClosedBut
<1>3. b # block => d[b] = c[b]
  BY <1>1 DEF Extends
<1> QED
  BY <1>2, <1>3

LEMMA EmitFacts ==
  ASSUME NEW c \in Code, NEW block \in DOMAIN c, NEW s \in Seq(Instruction), NEW n \in Nat, NEW d,
         d = [b \in 1..(Len(c) + n) |->
                IF b = block THEN c[b] \o s ELSE IF b \in DOMAIN c THEN c[b] ELSE << >>]
  PROVE  Extends(c, d, block, s, {}) /\ Len(d) = Len(c) + n /\ DOMAIN d = 1..Len(c) + n
<1>1. Len(c) \in Nat /\ DOMAIN c = 1..Len(c) /\ Len(c) + n \in Nat
      /\ \A b \in DOMAIN c : c[b] \in Seq(Instruction)
  BY DEF Code
<1>2. c[block] \o s \in Seq(Instruction) /\ << >> \in Seq(Instruction)
  BY <1>1, ConcatFacts, EmptyFacts
<1>3. \A b \in 1..(Len(c) + n) : d[b] \in Seq(Instruction)
  BY <1>1, <1>2
<1>4. d \in Code /\ Len(d) = Len(c) + n
  BY <1>1, <1>3 DEF Code
<1>5. block \in 1..(Len(c) + n)
  BY <1>1
<1>6. d[block] = c[block] \o s
  BY <1>5
<1>7. \A b \in DOMAIN d : b # block => d[b] = IF b \in DOMAIN c THEN c[b] ELSE << >>
  OBVIOUS
<1> QED
  BY <1>1, <1>4, <1>6, <1>7 DEF Extends

(* the blocks, when one is ended and another is begun                      *)
Merged(c, block, s, after, t) == [c EXCEPT ![block] = @ \o s, ![after] = t]

LEMMA MergeFacts ==
  ASSUME NEW c \in Code, NEW block \in DOMAIN c, NEW s \in Seq(Instruction), NEW d,
         NEW after \in DOMAIN c, after # block, c[after] = << >>,
         NEW t \in Seq(Instruction), Open(t),
         d = Merged(c, block, s, after, t)
  PROVE  Extends(c, d, block, s, {after}) /\ DOMAIN d = DOMAIN c
<1>1. Len(c) \in Nat /\ DOMAIN c = 1..Len(c)
      /\ \A b \in DOMAIN c : c[b] \in Seq(Instruction)
  BY DEF Code
<1>2. c[block] \o s \in Seq(Instruction)
  BY <1>1, ConcatFacts
<1>3. /\ DOMAIN d = DOMAIN c /\ d[after] = t /\ d[block] = c[block] \o s
      /\ \A b \in DOMAIN c : b # block /\ b # after => d[b] = c[b]
      /\ d = [b \in DOMAIN c |-> d[b]]
  BY DEF Merged
<1>4. \A b \in 1..Len(c) : d[b] \in Seq(Instruction)
  BY <1>1, <1>2, <1>3
<1>5. d \in Code /\ Len(d) = Len(c)
  <2>1. d = [b \in 1..Len(c) |-> d[b]]
    BY <1>1, <1>3
  <2>2. d \in [1..Len(c) -> Seq(Instruction)]
    BY <1>4, <2>1
  <2> QED
    BY <1>1, <1>4, <2>1, <2>2 DEF Code
<1> QED
  BY <1>1, <1>3, <1>5 DEF Extends

-----------------------------------------------------------------------------
(* The stack of visits: one goes on, returns, or begins                    *)

LEMMA StackFacts ==
  ASSUME NEW fs \in Seq(Visit), fs # << >>
  PROVE  LET n == Len(fs) - 1
             below == SubSeq(fs, 1, Len(fs) - 1)
         IN  /\ n \in Nat /\ n < Len(fs) /\ n + 1 = Len(fs) /\ n + 1 \in DOMAIN fs
             /\ DOMAIN fs = 1..n + 1 /\ fs[Len(fs)] \in Visit
             /\ below \in Seq(Visit) /\ Len(below) = n /\ DOMAIN below = 1..n
             /\ \A i \in 1..n : below[i] = fs[i] /\ i \in DOMAIN fs /\ i # n + 1
<1>1. /\ DOMAIN fs = 1..Len(fs) /\ Len(fs) \in Nat /\ Len(fs) # 0
      /\ \A i \in 1..Len(fs) : fs[i] \in Visit
  OBVIOUS
<1>2. /\ Len(fs) - 1 \in Nat /\ Len(fs) - 1 < Len(fs) /\ Len(fs) - 1 + 1 = Len(fs)
      /\ Len(fs) - 1 + 1 \in DOMAIN fs /\ DOMAIN fs = 1..(Len(fs) - 1) + 1
  BY <1>1
<1>3. \A i \in 1..Len(fs) - 1 : fs[i] \in Visit /\ i \in DOMAIN fs /\ i # Len(fs) - 1 + 1
  <2>1. \A l \in Nat : \A i \in 1..l - 1 : i \in 1..l /\ i # l - 1 + 1
    OBVIOUS
  <2> QED
    BY <1>1, <2>1
<1> DEFINE below == SubSeq(fs, 1, Len(fs) - 1)
<1>4. /\ below \in Seq(Visit) /\ Len(below) = Len(fs) - 1
      /\ \A i \in 1..Len(fs) - 1 : below[i] = fs[i]
  <2>1. 1 \in Int /\ Len(fs) - 1 \in Int /\ \A i \in 1..Len(fs) - 1 : fs[i] \in Visit
    <3>1. 1 \in Int /\ \A l \in Nat : l - 1 \in Int
      OBVIOUS
    <3>2. Len(fs) - 1 \in Int
      BY <1>1, <3>1
    <3>3. \A i \in 1..Len(fs) - 1 : fs[i] \in Visit
      BY <1>3
    <3> QED
      BY <3>1, <3>2, <3>3
  <2>2. /\ below \in Seq(Visit)
        /\ Len(below) = IF 1 <= Len(fs) - 1 THEN Len(fs) - 1 - 1 + 1 ELSE 0
        /\ \A i \in 1..Len(fs) - 1 - 1 + 1 : below[i] = fs[1 + i - 1]
    BY <2>1, SubSeqProperties
  <2>3. \A l \in Nat \ {0} :
          /\ l - 1 = IF 1 <= l - 1 THEN l - 1 - 1 + 1 ELSE 0
          /\ \A i \in 1..l - 1 : i \in 1..l - 1 - 1 + 1 /\ 1 + i - 1 = i
    OBVIOUS
  <2>4. Len(fs) \in Nat \ {0}
    BY <1>1
  <2>5. Len(below) = Len(fs) - 1
    BY <2>2, <2>3, <2>4
  <2>6. \A i \in 1..Len(fs) - 1 : i \in 1..Len(fs) - 1 - 1 + 1 /\ 1 + i - 1 = i
    BY <2>3, <2>4
  <2>7. \A i \in 1..Len(fs) - 1 : below[i] = fs[i]
    <3> HIDE DEF below
    <3> QED
      BY <2>2, <2>6
  <2> QED
    BY <2>2, <2>5, <2>7
<1>5. DOMAIN below = 1..Len(fs) - 1
  <2> HIDE DEF below
  <2> QED
    BY <1>4
<1> HIDE DEF below
<1> QED
  BY <1>1, <1>2, <1>3, <1>4, <1>5 DEF below

LEMMA PushFacts ==
  ASSUME NEW fs \in Seq(Visit), NEW g \in Visit
  PROVE  LET gs == Append(fs, g)
         IN  /\ gs \in Seq(Visit) /\ Len(gs) = Len(fs) + 1 /\ Len(fs) \in Nat
             /\ gs[Len(fs) + 1] = g /\ \A i \in 1..Len(fs) : gs[i] = fs[i]
             /\ DOMAIN gs = 1..Len(fs) + 1 /\ DOMAIN fs = 1..Len(fs)
BY AppendProperties

(* What the visits that do not stay have held is held, or given up.        *)
RestHandedOver(n, fs, gs, block) ==
  \A i \in n + 1..Len(fs) : \A b \in Held(fs[i]) : b \in HeldBy(gs) \/ b = block

LEMMA HeldByFacts ==
  ASSUME NEW fs \in Seq(Visit), NEW gs \in Seq(Visit), NEW n \in Nat, Outermost(n, fs, gs),
         NEW block, RestHandedOver(n, fs, gs, block)
  PROVE  \A b \in HeldBy(fs) : b \in HeldBy(gs) \/ b = block
<1> USE DEF Outermost, RestHandedOver
<1> SUFFICES ASSUME NEW b, NEW i \in DOMAIN fs, b \in Held(fs[i])
             PROVE  b \in HeldBy(gs) \/ b = block
  BY DEF HeldBy
<1>1. i \in 1..n \/ i \in n + 1..Len(fs)
  OBVIOUS
<1>2. CASE i \in 1..n
  <2>1. i \in DOMAIN gs /\ gs[i] = fs[i]
    BY <1>2
  <2> QED
    BY <2>1 DEF HeldBy
<1> QED
  BY <1>1, <1>2

(* The visit f branches to what it holds, and goes on in such a block.     *)
StaysWithin(f, s, block, block2) ==
  \A b : Leads(s, b) \/ b = block2 => b = block \/ b \in Held(f)

(* What f no longer holds, as g or at its end, is where the builder goes.  *)
Passes(f, g, block2) ==
  /\ \A b \in Held(g) : b \in Held(f)
  /\ \A b \in Held(f) : b \in Held(g) \/ b = block2
GivesUp(f, M, block2) ==
  (\A b \in M : b = block2) /\ (\A b \in Held(f) : b = block2)

(* Top and Below, of a given stack                                         *)
TopOf(fs)   == fs[Len(fs)]
BelowOf(fs) == SubSeq(fs, 1, Len(fs) - 1)

LEMMA Continues ==
  ASSUME NEW c \in Code, NEW d, NEW block \in DOMAIN c, NEW s \in Seq(Instruction),
         Extends(c, d, block, s, {}), NEW ins, NEW ins2, NEW block2,
         MovesOn(d, block, ins, block2, ins2),
         NEW fs \in Seq(Visit), fs # << >>, NEW g \in Visit, NEW gs,
         gs = Append(BelowOf(fs), g),
         Holding(fs, c, block, ins), ClosedBut(fs, c, block, ins), DOMAIN d = DOMAIN c,
         NEW f, f = TopOf(fs), StaysWithin(f, s, block, block2), Passes(f, g, block2),
         VisitOK(g, d, block2, ins2)
  PROVE  Holding(gs, d, block2, ins2) /\ ClosedBut(gs, d, block2, ins2)
<1> DEFINE n == Len(fs) - 1
<1> DEFINE below == SubSeq(fs, 1, n)
<1>1. /\ n \in Nat /\ n < Len(fs) /\ n <= Len(fs) /\ n + 1 = Len(fs) /\ n + 1 \in DOMAIN fs
      /\ below \in Seq(Visit) /\ Len(below) = n
      /\ \A i \in 1..n : below[i] = fs[i] /\ i \in DOMAIN fs /\ i # n + 1
  BY StackFacts
<1>2. gs = Append(below, g) /\ f = fs[n + 1]
  BY <1>1 DEF BelowOf, TopOf
<1> HIDE DEF n, below
<1>3. /\ gs \in Seq(Visit) /\ Len(gs) = n + 1 /\ gs[n + 1] = g /\ \A i \in 1..n : gs[i] = fs[i]
      /\ DOMAIN gs = 1..n + 1
  BY <1>1, <1>2, PushFacts
<1>4. Outermost(n, fs, gs) /\ n < Len(gs) /\ n + 1 \in DOMAIN gs /\ n \in Nat /\ gs \in Seq(Visit)
  BY <1>1, <1>3 DEF Outermost
<1>5. \A i \in 1..n : Held(g) \cap Held(fs[i]) = {}
  BY <1>1, <1>2 DEF Holding, Passes
<1>6. /\ c \in Code /\ block \in DOMAIN c /\ s \in Seq(Instruction) /\ Extends(c, d, block, s, {})
      /\ ins \subseteq ins2 /\ fs \in Seq(Visit) /\ Holding(fs, c, block, ins)
      /\ ClosedBut(fs, c, block, ins)
  BY DEF MovesOn
<1>7. Holding(gs, d, block2, ins2)
  <2>1. ReachesOnly(s, {}, block, block2, fs, n)
    BY <1>1, <1>2 DEF StaysWithin, ReachesOnly
  <2>2. NextHolds(n, fs, gs, d, block2, ins2)
    BY <1>3, <1>5 DEF NextHolds
  <2> QED
    BY ONLY <1>4, <1>6, <2>1, <2>2, VisitsAfter
<1>8. \A b \in HeldBy(fs) : b \in HeldBy(gs) \/ b = block2
  <2>1. \A i \in n + 1..Len(fs) : i = n + 1
    BY <1>1
  <2>2. Held(g) \subseteq HeldBy(gs)
    BY <1>3, <1>4 DEF HeldBy
  <2>3. RestHandedOver(n, fs, gs, block2)
    BY <1>2, <2>1, <2>2 DEF Passes, RestHandedOver
  <2> QED
    BY ONLY <1>4, <1>6, <2>3, HeldByFacts
<1>9. HandsOver(c, d, fs, gs, {}, block2)
  BY <1>8 DEF HandsOver
<1>10. ClosedBut(gs, d, block2, ins2)
  BY ONLY <1>6, MovesOn(d, block, ins, block2, ins2), <1>9, ClosedAfter
<1> QED
  BY <1>7, <1>10

LEMMA Returning ==
  ASSUME NEW c \in Code, NEW d, NEW block \in DOMAIN c, NEW s \in Seq(Instruction), NEW M,
         Extends(c, d, block, s, M), NEW ins, NEW ins2, NEW block2,
         MovesOn(d, block, ins, block2, ins2),
         NEW fs \in Seq(Visit), fs # << >>, NEW gs, gs = BelowOf(fs),
         Holding(fs, c, block, ins), ClosedBut(fs, c, block, ins), DOMAIN d = DOMAIN c,
         NEW f, f = TopOf(fs), StaysWithin(f, s, block, block2), GivesUp(f, M, block2)
  PROVE  Holding(gs, d, block2, ins2) /\ ClosedBut(gs, d, block2, ins2)
<1> DEFINE n == Len(fs) - 1
<1>1. /\ n \in Nat /\ n < Len(fs) /\ n <= Len(fs) /\ n + 1 = Len(fs) /\ n + 1 \in DOMAIN fs
      /\ gs \in Seq(Visit) /\ Len(gs) = n
      /\ (\A i \in 1..n : gs[i] = fs[i]) /\ f = fs[n + 1]
  BY StackFacts DEF BelowOf, TopOf
<1> HIDE DEF n
<1>2. Outermost(n, fs, gs) /\ ~(n < Len(gs)) /\ n \in Nat /\ gs \in Seq(Visit)
  BY <1>1 DEF Outermost
<1>3. /\ c \in Code /\ block \in DOMAIN c /\ s \in Seq(Instruction) /\ Extends(c, d, block, s, M)
      /\ ins \subseteq ins2 /\ fs \in Seq(Visit) /\ Holding(fs, c, block, ins)
      /\ ClosedBut(fs, c, block, ins)
  BY DEF MovesOn
<1>4. Holding(gs, d, block2, ins2)
  <2>1. ReachesOnly(s, M, block, block2, fs, n)
    BY <1>1 DEF StaysWithin, GivesUp, ReachesOnly
  <2>2. NextHolds(n, fs, gs, d, block2, ins2)
    BY <1>2 DEF NextHolds
  <2> QED
    BY ONLY <1>2, <1>3, <2>1, <2>2, VisitsAfter
<1>5. \A b \in HeldBy(fs) : b \in HeldBy(gs) \/ b = block2
  <2>1. \A i \in n + 1..Len(fs) : i = n + 1
    BY <1>1
  <2>2. RestHandedOver(n, fs, gs, block2)
    BY <1>1, <2>1 DEF GivesUp, RestHandedOver
  <2> QED
    BY ONLY <1>2, <1>3, <2>2, HeldByFacts
<1>6. HandsOver(c, d, fs, gs, M, block2)
  BY <1>5 DEF HandsOver, GivesUp
<1>7. ClosedBut(gs, d, block2, ins2)
  BY ONLY <1>3, MovesOn(d, block, ins, block2, ins2), <1>6, ClosedAfter
<1> QED
  BY <1>4, <1>7

LEMMA Begins ==
  ASSUME NEW c \in Code, NEW d, NEW block \in DOMAIN c, Extends(c, d, block, << >>, {}),
         NEW ins, NEW ins2, MovesOn(d, block, ins, block, ins2),
         NEW fs \in Seq(Visit), NEW g \in Visit, NEW gs, gs = Append(fs, g),
         Holding(fs, c, block, ins), ClosedBut(fs, c, block, ins),
         \A b \in DOMAIN d : b \notin DOMAIN c => b \in Held(g),
         \A b \in Held(g) : b \notin DOMAIN c,
         VisitOK(g, d, block, ins2)
  PROVE  Holding(gs, d, block, ins2) /\ ClosedBut(gs, d, block, ins2)
<1> DEFINE n == Len(fs)
<1>1. /\ gs \in Seq(Visit) /\ Len(gs) = n + 1 /\ n \in Nat
      /\ gs[n + 1] = g /\ \A i \in 1..n : gs[i] = fs[i]
      /\ DOMAIN gs = 1..n + 1 /\ DOMAIN fs = 1..n
  BY PushFacts
<1>2. Outermost(n, fs, gs) /\ n < Len(gs) /\ n + 1 \in DOMAIN gs /\ n \in Nat /\ gs \in Seq(Visit)
  BY <1>1 DEF Outermost
<1>3. \A i \in 1..n : Held(g) \cap Held(fs[i]) = {}
  BY <1>1 DEF Holding, VisitOK
<1> DEFINE s == << >>
<1>4. s \in Seq(Instruction) /\ (\A b : ~Leads(s, b)) /\ Extends(c, d, block, s, {})
  BY EmptyFacts
<1> HIDE DEF s
<1>5. /\ c \in Code /\ block \in DOMAIN c /\ ins \subseteq ins2 /\ fs \in Seq(Visit)
      /\ Holding(fs, c, block, ins) /\ ClosedBut(fs, c, block, ins)
  BY DEF MovesOn
<1>6. RestHandedOver(n, fs, gs, block)
  BY <1>1 DEF RestHandedOver
<1> HIDE DEF n
<1>7. Holding(gs, d, block, ins2)
  <2>1. ReachesOnly(s, {}, block, block, fs, n)
    BY <1>4 DEF ReachesOnly
  <2>2. NextHolds(n, fs, gs, d, block, ins2)
    BY <1>1, <1>3 DEF NextHolds
  <2> QED
    BY ONLY <1>2, <1>4, <1>5, <2>1, <2>2, VisitsAfter
<1>8. \A b \in HeldBy(fs) : b \in HeldBy(gs) \/ b = block
  BY ONLY <1>2, <1>5, <1>6, HeldByFacts
<1>9. Held(g) \subseteq HeldBy(gs)
  BY <1>1, <1>2 DEF HeldBy
<1>10. HandsOver(c, d, fs, gs, {}, block)
  BY <1>8, <1>9 DEF HandsOver
<1>11. ClosedBut(gs, d, block, ins2)
  BY ONLY <1>4, <1>5, MovesOn(d, block, ins, block, ins2), <1>10, ClosedAfter
<1> QED
  BY <1>7, <1>11

LEMMA Stays ==
  ASSUME NEW c \in Code, NEW d, NEW block \in DOMAIN c, NEW s \in Seq(Instruction),
         Extends(c, d, block, s, {}), NEW ins, NEW fs \in Seq(Visit),
         Holding(fs, c, block, ins), ClosedBut(fs, c, block, ins), block \in ins,
         DOMAIN d = DOMAIN c, \A b : ~Leads(s, b)
  PROVE  Holding(fs, d, block, ins) /\ ClosedBut(fs, d, block, ins)
<1> DEFINE n == Len(fs)
<1>1. /\ c \in Code /\ block \in DOMAIN c /\ s \in Seq(Instruction) /\ Extends(c, d, block, s, {})
      /\ ins \subseteq ins /\ fs \in Seq(Visit) /\ Holding(fs, c, block, ins)
      /\ n \in Nat /\ Outermost(n, fs, fs) /\ ClosedBut(fs, c, block, ins)
  BY DEF Outermost
<1>2. ReachesOnly(s, {}, block, block, fs, n)
  BY DEF ReachesOnly
<1>3. NextHolds(n, fs, fs, d, block, ins)
  BY <1>1 DEF NextHolds
<1> HIDE DEF n
<1>4. Holding(fs, d, block, ins)
  BY ONLY <1>1, <1>2, <1>3, VisitsAfter
<1>5. MovesOn(d, block, ins, block, ins)
  BY DEF MovesOn
<1>6. HandsOver(c, d, fs, fs, {}, block)
  BY DEF HandsOver
<1>7. ClosedBut(fs, d, block, ins)
  BY ONLY <1>1, <1>5, <1>6, ClosedAfter
<1> QED
  BY <1>4, <1>7

-----------------------------------------------------------------------------
(* The actions                                                             *)

LEMMA StructureFacts ==
  ASSUME Structure
  PROVE  /\ code \in Code /\ cur \in DOMAIN code /\ cur \in inserted /\ inserted \subseteq DOMAIN code
         /\ Len(code) \in Nat /\ DOMAIN code = 1..Len(code) /\ code[cur] \in Seq(Instruction)
         /\ Holding(frames, code, cur, inserted) /\ ClosedBut(frames, code, cur, inserted)
         /\ \A a \in DOMAIN code, b \in Nat : Leads(code[a], b) => b \in DOMAIN code
         /\ \A b \in DOMAIN code : PhisAt(code, b)
         /\ frames \in Seq(Visit) /\ currentValue \in Value /\ calls \in Nat /\ isVoid \in BOOLEAN
         /\ pc # "done" => Open(code[cur])
<1>1. code \in Code /\ cur \in DOMAIN code /\ cur \in inserted /\ inserted \subseteq DOMAIN code
  BY DEF Structure, Typed, Blocks
<1>2. Len(code) \in Nat /\ DOMAIN code = 1..Len(code) /\ code[cur] \in Seq(Instruction)
  BY <1>1 DEF Code
<1>3. Holding(frames, code, cur, inserted) /\ ClosedBut(frames, code, cur, inserted)
  BY DEF Structure, VisitsHold, BlocksAreClosed
<1>4. \A a \in DOMAIN code, b \in Nat : Leads(code[a], b) => b \in DOMAIN code
  BY DEF Structure, TargetsExist, Blocks
<1>5. \A b \in DOMAIN code : PhisAt(code, b)
  BY PredecessorsAre DEF Structure
<1>6. frames \in Seq(Visit) /\ currentValue \in Value /\ calls \in Nat /\ isVoid \in BOOLEAN
  BY DEF Structure, Typed
<1>7. pc # "done" => Open(code[cur])
  BY DEF Structure, BlocksAreClosed
<1> QED
  BY <1>1, <1>2, <1>3, <1>4, <1>5, <1>6, <1>7

LEMMA StructureAfter ==
  ASSUME Typed', Holding(frames', code', cur', inserted'), ClosedBut(frames', code', cur', inserted'),
         \A a \in DOMAIN code', b \in Nat : Leads(code'[a], b) => b \in DOMAIN code',
         \A b \in DOMAIN code' : PhisAt(code', b),
         pc' = "done" => Closed(code'[cur']), pc' # "done" => Open(code'[cur'])
  PROVE  Structure'
<1>1. VisitsHold' /\ BlocksAreClosed'
  BY DEF VisitsHold, BlocksAreClosed
<1>2. TargetsExist'
  BY DEF TargetsExist, Blocks
<1>3. PhisNamePredecessors'
  <2>1. \A b : Predecessors(b)' = Preds(code', b)
    BY DEF Predecessors, Preds, Leads, LeadsTo, Blocks
  <2> QED
    BY <2>1 DEF PhisNamePredecessors, PhisAt, Blocks
<1> QED
  BY <1>1, <1>2, <1>3 DEF Structure

LEMMA TopFacts ==
  ASSUME Structure, frames # << >>
  PROVE  /\ Top \in Visit /\ VisitOK(Top, code, cur, inserted)
         /\ Top = TopOf(frames) /\ Below = BelowOf(frames) /\ Below \in Seq(Visit)
         /\ \A g \in Visit : Append(Below, g) \in Seq(Visit)
<1>1. frames \in Seq(Visit) /\ Holding(frames, code, cur, inserted)
  BY StructureFacts
<1>2. Len(frames) - 1 + 1 \in DOMAIN frames /\ Len(frames) - 1 + 1 = Len(frames)
      /\ frames[Len(frames)] \in Visit /\ SubSeq(frames, 1, Len(frames) - 1) \in Seq(Visit)
  BY <1>1, StackFacts
<1>3. \A below \in Seq(Visit) : \A g \in Visit : Append(below, g) \in Seq(Visit)
  OBVIOUS
<1> QED
  BY <1>1, <1>2, <1>3 DEF Top, Below, Holding, TopOf, BelowOf

LEMMA NothingWritten ==
  ASSUME NEW c \in Code, NEW block \in DOMAIN c
  PROVE  Extends(c, c, block, << >>, {})
<1>1. c[block] \in Seq(Instruction)
  BY DEF Code
<1>2. c[block] \o << >> = c[block]
  BY <1>1, ConcatEmptySeq
<1>3. Len(c) <= Len(c)
  BY DEF Code
<1> QED
  BY <1>2, <1>3 DEF Extends

(* What is put at the insertion point                                      *)
LEMMA EmitKeeps ==
  ASSUME Structure, pc # "done", NEW s \in Seq(Instruction), NoPhi(s), NEW n \in Nat, Emit(s, n),
         \A b : Leads(s, b) => b \in DOMAIN code /\ b # cur /\ code[b] = << >>
  PROVE  /\ Extends(code, code', cur, s, {}) /\ code' \in Code /\ DOMAIN code' = 1..Len(code) + n
         /\ DOMAIN code \subseteq DOMAIN code'
         /\ \A a \in DOMAIN code', b \in Nat : Leads(code'[a], b) => b \in DOMAIN code'
         /\ \A b \in DOMAIN code' : PhisAt(code', b)
         /\ \A b : Preds(code', b) = Preds(code, b) \cup (IF Leads(s, b) THEN {cur} ELSE {})
         /\ Open(s) => Open(code'[cur])
         /\ Closed(s) => Closed(code'[cur])
<1>1. /\ code \in Code /\ cur \in DOMAIN code /\ code[cur] \in Seq(Instruction) /\ Open(code[cur])
      /\ \A a \in DOMAIN code, b \in Nat : Leads(code[a], b) => b \in DOMAIN code
      /\ \A b \in DOMAIN code : PhisAt(code, b)
  BY StructureFacts
<1>2. Extends(code, code', cur, s, {}) /\ DOMAIN code' = 1..Len(code) + n
  <2>1. code' = [b \in 1..(Len(code) + n) |->
                   IF b = cur THEN code[b] \o s ELSE IF b \in DOMAIN code THEN code[b] ELSE << >>]
    BY DEF Emit
  <2> QED
    BY <1>1, <2>1, EmitFacts
<1>3. DOMAIN code \subseteq DOMAIN code'
  BY <1>1, <1>2, ExtendsDomain
<1>4. \A a \in DOMAIN code', b \in Nat : Leads(code'[a], b) => b \in DOMAIN code'
  <2>1. \A b \in Nat : Leads(s, b) => b \in DOMAIN code'
    BY <1>3
  <2> QED
    BY ONLY <1>1, <1>2, <2>1, s \in Seq(Instruction), TargetsAfter
<1>5. \A b \in DOMAIN code' : PhisAt(code', b)
  <2>1. \A b \in DOMAIN code : Leads(s, b) => b # cur /\ code[b] = << >>
    OBVIOUS
  <2>2. \A b \in DOMAIN code' : b \notin {} => PhisAt(code', b)
    BY ONLY <1>1, <1>2, <2>1, s \in Seq(Instruction), NoPhi(s), PhisAfter
  <2> QED
    BY <2>2
<1>6. \A b : Preds(code', b) = Preds(code, b) \cup (IF Leads(s, b) THEN {cur} ELSE {})
  BY ONLY <1>1, <1>2, s \in Seq(Instruction), PredsAfter
<1>7. code'[cur] = code[cur] \o s /\ code' \in Code
  BY <1>2 DEF Extends
<1>8. (Open(s) => Open(code'[cur])) /\ (Closed(s) => Closed(code'[cur]))
  BY <1>1, <1>7, ConcatFacts
<1> QED
  BY <1>2, <1>3, <1>4, <1>5, <1>6, <1>7, <1>8

LEMMA VisitCallKeeps == Structure /\ VisitCall => Structure'
<1> SUFFICES ASSUME Structure, VisitCall PROVE Structure'
  OBVIOUS
<1> DEFINE s == <<Call(calls + 1)>>
<1>1. /\ code \in Code /\ cur \in DOMAIN code /\ cur \in inserted /\ inserted \subseteq DOMAIN code
      /\ Len(code) \in Nat /\ DOMAIN code = 1..Len(code)
      /\ Holding(frames, code, cur, inserted) /\ ClosedBut(frames, code, cur, inserted)
      /\ frames \in Seq(Visit) /\ calls \in Nat /\ isVoid \in BOOLEAN
  BY StructureFacts
<1>2. calls + 1 \in Nat
  BY <1>1
<1>3. s \in Seq(Instruction) /\ Open(s) /\ NoPhi(s) /\ \A b : ~Leads(s, b)
  BY <1>2, CallFacts, SingleFacts, PlainLeadsNowhere
<1>4. /\ Emit(s, 0) /\ pc # "done" /\ pc' = "return"
      /\ frames' = frames /\ cur' = cur /\ inserted' = inserted /\ isVoid' = isVoid /\ calls' = calls + 1
  BY DEF VisitCall
<1> HIDE DEF s
<1>5. /\ Extends(code, code', cur, s, {}) /\ code' \in Code /\ DOMAIN code' = DOMAIN code
      /\ \A a \in DOMAIN code', b \in Nat : Leads(code'[a], b) => b \in DOMAIN code'
      /\ (\A b \in DOMAIN code' : PhisAt(code', b)) /\ Open(code'[cur])
  <2>1. 0 \in Nat /\ \A b : Leads(s, b) => b \in DOMAIN code /\ b # cur /\ code[b] = << >>
    BY <1>3
  <2>2. DOMAIN code' = 1..Len(code) + 0
    BY ONLY Structure, <1>3, <1>4, <2>1, EmitKeeps
  <2>3. DOMAIN code' = DOMAIN code
    BY <1>1, <2>2
  <2> QED
    BY ONLY Structure, <1>3, <1>4, <2>1, <2>3, EmitKeeps
<1>6. Holding(frames, code', cur, inserted) /\ ClosedBut(frames, code', cur, inserted)
  BY ONLY <1>1, <1>3, <1>5, Stays
<1>7. currentValue' \in Value
  <2>1. New(1) \in Value /\ NoValue \in Value
    BY NewIsValue DEF Structure, NoValue, Value
  <2> QED
    BY <2>1 DEF VisitCall
<1>8. Typed'
  BY <1>1, <1>2, <1>4, <1>5, <1>7 DEF Typed, Blocks
<1> QED
  BY <1>4, <1>5, <1>6, <1>8, StructureAfter

LEMMA EnterBinaryKeeps ==
  ASSUME Structure, NEW op \in BinaryOps, EnterBinary(op)
  PROVE  Structure'
<1> DEFINE g == Frame(op, NoBlock, NoBlock, NoBlock)
<1>1. /\ code \in Code /\ cur \in DOMAIN code /\ cur \in inserted /\ inserted \subseteq DOMAIN code
      /\ Holding(frames, code, cur, inserted) /\ ClosedBut(frames, code, cur, inserted)
      /\ frames \in Seq(Visit) /\ Open(code[cur])
      /\ \A a \in DOMAIN code, b \in Nat : Leads(code[a], b) => b \in DOMAIN code
      /\ \A b \in DOMAIN code : PhisAt(code, b)
  BY StructureFacts DEF EnterBinary, Enter
<1>2. g \in Visit
  BY DEF Frame, Visit, Value, NoValue, NoBlock
<1>3. g.kind \notin Merging /\ g.kind = op /\ g.operand = 1
  BY BinaryOpsAreKnown DEF Frame, Merging, Logical, Ternary
<1>4. Held(g) = {} /\ VisitOK(g, code, cur, inserted)
  BY <1>3 DEF Held, VisitOK, Arity, Merging
<1>5. /\ frames' = Append(frames, g) /\ code' = code /\ inserted' = inserted /\ cur' = cur /\ pc' = pc
      /\ pc = "visit" /\ currentValue' = currentValue /\ calls' = calls /\ isVoid' = isVoid
  BY DEF EnterBinary, Enter
<1> HIDE DEF g
<1>6. Extends(code, code, cur, << >>, {}) /\ MovesOn(code, cur, inserted, cur, inserted)
  BY <1>1, NothingWritten DEF MovesOn
<1>7. /\ \A b \in DOMAIN code : b \notin DOMAIN code => b \in Held(g)
      /\ \A b \in Held(g) : b \notin DOMAIN code
  BY <1>4
<1>8. Holding(frames', code, cur, inserted) /\ ClosedBut(frames', code, cur, inserted)
  BY ONLY <1>1, <1>2, <1>4, <1>5, <1>6, <1>7, Begins
<1>9. Typed'
  BY <1>1, <1>2, <1>5 DEF Typed, Blocks, Structure
<1> QED
  BY <1>1, <1>5, <1>8, <1>9, StructureAfter

(* Blocks that nobody branches to                                          *)
LEMMA NewBlocks ==
  ASSUME Structure, pc # "done", NEW n \in Nat, Emit(<< >>, n)
  PROVE  /\ Extends(code, code', cur, << >>, {}) /\ code' \in Code /\ DOMAIN code' = 1..Len(code) + n
         /\ DOMAIN code \subseteq DOMAIN code'
         /\ \A a \in DOMAIN code', b \in Nat : Leads(code'[a], b) => b \in DOMAIN code'
         /\ \A b \in DOMAIN code' : PhisAt(code', b)
         /\ Open(code'[cur])
         /\ \A b \in DOMAIN code' : b \notin DOMAIN code =>
              b # cur /\ code'[b] = << >> /\ Preds(code', b) = {}
<1>1. /\ cur \in DOMAIN code
      /\ \A a \in DOMAIN code, b \in Nat : Leads(code[a], b) => b \in DOMAIN code
  BY StructureFacts
<1> DEFINE s == << >>
<1>2. s \in Seq(Instruction) /\ Open(s) /\ NoPhi(s) /\ Emit(s, n) /\ s = << >> /\ \A b : ~Leads(s, b)
  BY EmptyFacts DEF Plain
<1> HIDE DEF s
<1>3. \A b : Leads(s, b) => b \in DOMAIN code /\ b # cur /\ code[b] = << >>
  BY <1>2
<1>4. /\ Extends(code, code', cur, s, {}) /\ code' \in Code /\ DOMAIN code' = 1..Len(code) + n
      /\ DOMAIN code \subseteq DOMAIN code'
      /\ \A a \in DOMAIN code', b \in Nat : Leads(code'[a], b) => b \in DOMAIN code'
      /\ \A b \in DOMAIN code' : PhisAt(code', b)
      /\ \A b : Preds(code', b) = Preds(code, b) \cup (IF Leads(s, b) THEN {cur} ELSE {})
      /\ Open(code'[cur])
  BY ONLY Structure, pc # "done", n \in Nat, <1>2, <1>3, EmitKeeps
<1>5. ASSUME NEW b \in DOMAIN code', b \notin DOMAIN code
      PROVE  b # cur /\ code'[b] = << >> /\ Preds(code', b) = {}
  <2>1. b \in Nat
    <3>1. Len(code) + n \in Int
      BY StructureFacts
    <3> QED
      BY <1>4, <1>5, <3>1
  <2>2. Preds(code, b) = {}
    BY <1>1, <1>5, <2>1 DEF Preds
  <2>3. Preds(code', b) = {}
    BY <1>2, <1>4, <2>2
  <2>4. b # cur
    BY <1>1, <1>5
  <2>5. code'[b] = << >>
    BY <1>4, <1>5, <2>4 DEF Extends
  <2> QED
    BY <2>3, <2>4, <2>5
<1> QED
  BY <1>2, <1>4, <1>5

LEMMA EnterLogicalKeeps ==
  ASSUME Structure, NEW op \in Logical, EnterLogical(op)
  PROVE  Structure'
<1> DEFINE g == Frame(op, cur, Len(code) + 1, Len(code) + 2)
<1>1. /\ code \in Code /\ cur \in DOMAIN code /\ cur \in inserted /\ inserted \subseteq DOMAIN code
      /\ Len(code) \in Nat /\ DOMAIN code = 1..Len(code)
      /\ Holding(frames, code, cur, inserted) /\ ClosedBut(frames, code, cur, inserted)
      /\ frames \in Seq(Visit)
  BY StructureFacts
<1>2. /\ frames' = Append(frames, g) /\ Emit(<< >>, 2) /\ inserted' = inserted /\ cur' = cur /\ pc' = pc
      /\ pc = "visit" /\ currentValue' = currentValue /\ calls' = calls /\ isVoid' = isVoid
  BY DEF EnterLogical, Enter
<1>3. /\ Extends(code, code', cur, << >>, {}) /\ code' \in Code /\ DOMAIN code' = 1..Len(code) + 2
      /\ DOMAIN code \subseteq DOMAIN code'
      /\ \A a \in DOMAIN code', b \in Nat : Leads(code'[a], b) => b \in DOMAIN code'
      /\ \A b \in DOMAIN code' : PhisAt(code', b)
      /\ Open(code'[cur])
      /\ \A b \in DOMAIN code' : b \notin DOMAIN code =>
           b # cur /\ code'[b] = << >> /\ Preds(code', b) = {}
  BY <1>2, NewBlocks
<1>4. g \in Visit
  BY <1>1 DEF Frame, Visit, Value, NoValue, Merging
<1>5. /\ g.kind \in Merging /\ g.kind \notin Ternary /\ g.operand = 1 /\ Arity(g.kind) = 2
      /\ g.rhsBB = Len(code) + 1 /\ g.afterBB = Len(code) + 2
  BY DEF Frame, Merging, Logical, Ternary, Arity
<1> HIDE DEF g
<1>6. Held(g) = {Len(code) + 1, Len(code) + 2}
  BY <1>5 DEF Held
<1>7. \A b \in DOMAIN code' : b \notin DOMAIN code => b \in Held(g)
  BY <1>1, <1>3, <1>6
<1>8. \A b \in Held(g) : b \notin DOMAIN code /\ b \in DOMAIN code'
  BY <1>1, <1>3, <1>6
<1>9. VisitOK(g, code', cur, inserted)
  <2>1. \A b \in Held(g) : b \in DOMAIN code' /\ b # cur /\ code'[b] = << >>
    BY <1>3, <1>8
  <2>2. g.rhsBB # g.afterBB
    BY <1>1, <1>5
  <2>3. Preds(code', g.afterBB) = {}
    BY <1>3, <1>5, <1>6, <1>8
  <2> QED
    BY <1>5, <2>1, <2>2, <2>3 DEF VisitOK
<1>10. MovesOn(code', cur, inserted, cur, inserted)
  BY <1>1 DEF MovesOn
<1>11. Holding(frames', code', cur, inserted) /\ ClosedBut(frames', code', cur, inserted)
  BY ONLY <1>1, <1>2, <1>3, <1>4, <1>7, <1>8, <1>9, <1>10, Begins
<1>12. Typed'
  BY <1>1, <1>2, <1>3, <1>4 DEF Typed, Blocks, Structure
<1> QED
  BY <1>2, <1>3, <1>11, <1>12, StructureAfter

LEMMA EnterTernaryKeeps ==
  ASSUME Structure, NEW kind \in Ternary, EnterTernary(kind)
  PROVE  Structure'
<1> DEFINE g == Frame(kind, Len(code) + 1, Len(code) + 2, Len(code) + 3)
<1>1. /\ code \in Code /\ cur \in DOMAIN code /\ cur \in inserted /\ inserted \subseteq DOMAIN code
      /\ Len(code) \in Nat /\ DOMAIN code = 1..Len(code)
      /\ Holding(frames, code, cur, inserted) /\ ClosedBut(frames, code, cur, inserted)
      /\ frames \in Seq(Visit)
  BY StructureFacts
<1>2. /\ frames' = Append(frames, g) /\ Emit(<< >>, 3) /\ inserted' = inserted \cup {Len(code) + 1}
      /\ cur' = cur /\ pc' = pc
      /\ pc = "visit" /\ currentValue' = currentValue /\ calls' = calls /\ isVoid' = isVoid
  BY DEF EnterTernary, Enter
<1>3. /\ Extends(code, code', cur, << >>, {}) /\ code' \in Code /\ DOMAIN code' = 1..Len(code) + 3
      /\ DOMAIN code \subseteq DOMAIN code'
      /\ \A a \in DOMAIN code', b \in Nat : Leads(code'[a], b) => b \in DOMAIN code'
      /\ \A b \in DOMAIN code' : PhisAt(code', b)
      /\ Open(code'[cur])
      /\ \A b \in DOMAIN code' : b \notin DOMAIN code =>
           b # cur /\ code'[b] = << >> /\ Preds(code', b) = {}
  BY <1>2, NewBlocks
<1>4. g \in Visit
  BY <1>1 DEF Frame, Visit, Value, NoValue, Merging
<1>5. /\ g.kind \in Merging /\ g.kind \in Ternary /\ g.operand = 1 /\ Arity(g.kind) = 3
      /\ g.lhsBB = Len(code) + 1 /\ g.rhsBB = Len(code) + 2 /\ g.afterBB = Len(code) + 3
  BY DEF Frame, Merging, Logical, Ternary, Arity
<1> HIDE DEF g
<1>6. Held(g) = {Len(code) + 1, Len(code) + 2, Len(code) + 3}
  BY <1>5 DEF Held
<1>7. \A b \in DOMAIN code' : b \notin DOMAIN code => b \in Held(g)
  BY <1>1, <1>3, <1>6
<1>8. \A b \in Held(g) : b \notin DOMAIN code /\ b \in DOMAIN code'
  BY <1>1, <1>3, <1>6
<1>9. VisitOK(g, code', cur, inserted')
  <2>1. \A b \in Held(g) : b \in DOMAIN code' /\ b # cur /\ code'[b] = << >>
    BY <1>3, <1>8
  <2>2. g.rhsBB # g.afterBB /\ g.lhsBB # g.rhsBB /\ g.lhsBB # g.afterBB /\ g.lhsBB \in inserted'
    BY <1>1, <1>2, <1>5
  <2>3. Preds(code', g.afterBB) = {}
    BY <1>3, <1>5, <1>6, <1>8
  <2> QED
    BY <1>5, <2>1, <2>2, <2>3 DEF VisitOK
<1>10. MovesOn(code', cur, inserted, cur, inserted')
  BY <1>1, <1>2 DEF MovesOn
<1>11. Holding(frames', code', cur, inserted') /\ ClosedBut(frames', code', cur, inserted')
  BY ONLY <1>1, <1>2, <1>3, <1>4, <1>7, <1>8, <1>9, <1>10, Begins
<1>12. Typed'
  <2>1. inserted' \subseteq DOMAIN code' /\ cur' \in inserted'
    BY <1>1, <1>2, <1>3, <1>6, <1>8
  <2> QED
    BY <1>1, <1>2, <1>3, <1>4, <2>1 DEF Typed, Blocks, Structure
<1> QED
  BY <1>2, <1>3, <1>11, <1>12, StructureAfter

(* What a visit keeps when it stores a value                               *)
LEMMA StoreFacts ==
  ASSUME NEW f \in Visit, NEW v \in Value
  PROVE  LET g == [f EXCEPT !.lhs = v]
         IN  g \in Visit /\ g.kind = f.kind /\ g.operand = f.operand
<1>1. [f EXCEPT !.lhs = v] \in Visit
  BY DEF Visit
<1>2. ASSUME NEW g, g = [f EXCEPT !.lhs = v]
      PROVE  g.kind = f.kind /\ g.operand = f.operand
  BY <1>2 DEF Visit
<1> QED
  BY <1>1, <1>2

(* and when it goes on with its next operand                               *)
LEMMA OperandFacts ==
  ASSUME NEW f \in Visit, f.operand < 3
  PROVE  LET g == [f EXCEPT !.operand = @ + 1]
         IN  /\ g \in Visit /\ g.kind = f.kind /\ g.operand = f.operand + 1
             /\ g.lhsBB = f.lhsBB /\ g.rhsBB = f.rhsBB /\ g.afterBB = f.afterBB
<1>1. [f EXCEPT !.operand = @ + 1] \in Visit
  <2>1. f.operand + 1 \in 1..3
    BY DEF Visit
  <2> QED
    BY <2>1 DEF Visit
<1>2. ASSUME NEW g, g = [f EXCEPT !.operand = @ + 1]
      PROVE  /\ g.kind = f.kind /\ g.operand = f.operand + 1
             /\ g.lhsBB = f.lhsBB /\ g.rhsBB = f.rhsBB /\ g.afterBB = f.afterBB
  BY <1>2 DEF Visit
<1> QED
  BY <1>1, <1>2

LEMMA BinaryLhsKeeps == Structure /\ BinaryLhs => Structure'
<1> SUFFICES ASSUME Structure, BinaryLhs PROVE Structure'
  OBVIOUS
<1> DEFINE f == [Top EXCEPT !.lhs = currentValue]
<1> DEFINE g == [f EXCEPT !.operand = @ + 1]
<1>1. /\ code \in Code /\ cur \in DOMAIN code /\ cur \in inserted /\ inserted \subseteq DOMAIN code
      /\ Holding(frames, code, cur, inserted) /\ ClosedBut(frames, code, cur, inserted)
      /\ frames \in Seq(Visit) /\ Open(code[cur]) /\ currentValue \in Value
      /\ \A a \in DOMAIN code, b \in Nat : Leads(code[a], b) => b \in DOMAIN code
      /\ \A b \in DOMAIN code : PhisAt(code, b)
  BY StructureFacts DEF BinaryLhs, Returns
<1>2. /\ frames # << >> /\ Top.kind \in BinaryOps /\ Top.operand = 1
      /\ frames' = Append(Below, g) /\ pc' = "visit" /\ code' = code /\ inserted' = inserted /\ cur' = cur
      /\ currentValue' = currentValue /\ calls' = calls /\ isVoid' = isVoid
  BY DEF BinaryLhs, Returns, NextOperand
<1>3. /\ Top \in Visit /\ Top = TopOf(frames) /\ Below = BelowOf(frames)
      /\ \A h \in Visit : Append(Below, h) \in Seq(Visit)
  BY <1>2, TopFacts
<1>4. g \in Visit /\ g.kind = Top.kind /\ g.operand = 2
  <2>1. f \in Visit /\ f.kind = Top.kind /\ f.operand = 1
    <3>1. f \in Visit
      BY <1>1, <1>3 DEF Visit
    <3>2. f.kind = Top.kind /\ f.operand = Top.operand
      BY <1>3 DEF Visit
    <3> QED
      BY <1>2, <3>1, <3>2
  <2>2. \A h \in Visit : h.operand = 1 => h.operand < 3
    OBVIOUS
  <2> HIDE DEF f
  <2> QED
    BY <2>1, <2>2, OperandFacts
<1> HIDE DEF g
<1>5. g.kind \notin Merging /\ Top.kind \notin Merging
  BY <1>2, <1>4, BinaryOpsAreKnown DEF Merging, Logical, Ternary
<1>6. Held(g) = {} /\ Held(Top) = {} /\ VisitOK(g, code, cur, inserted)
  BY <1>4, <1>5 DEF Held, VisitOK, Arity, Merging
<1>7. Extends(code, code, cur, << >>, {}) /\ MovesOn(code, cur, inserted, cur, inserted)
  BY <1>1, NothingWritten DEF MovesOn
<1>8. Holding(frames', code, cur, inserted) /\ ClosedBut(frames', code, cur, inserted)
  <2> DEFINE s == << >>
  <2>1. s \in Seq(Instruction) /\ Extends(code, code, cur, s, {}) /\ \A b : ~Leads(s, b)
    BY <1>7, EmptyFacts
  <2> HIDE DEF s
  <2>2. /\ frames' = Append(BelowOf(frames), g)
        /\ Top = TopOf(frames) /\ StaysWithin(Top, s, cur, cur) /\ Passes(Top, g, cur)
    BY <1>2, <1>3, <1>6, <2>1 DEF StaysWithin, Passes
  <2>3. /\ code \in Code /\ cur \in DOMAIN code /\ frames \in Seq(Visit) /\ frames # << >>
        /\ g \in Visit /\ VisitOK(g, code, cur, inserted) /\ DOMAIN code = DOMAIN code
        /\ Holding(frames, code, cur, inserted) /\ ClosedBut(frames, code, cur, inserted)
        /\ MovesOn(code, cur, inserted, cur, inserted)
    BY <1>1, <1>2, <1>4, <1>6, <1>7
  <2> QED
    BY ONLY <2>1, <2>2, <2>3, Continues
<1>9. Typed'
  <2> HIDE DEF f
  <2>1. frames' \in Seq(Visit)
    BY <1>2, <1>3, <1>4
  <2>2. calls \in Nat /\ isVoid \in BOOLEAN
    BY StructureFacts
  <2> QED
    BY <1>1, <1>2, <2>1, <2>2 DEF Typed, Blocks
<1> QED
  BY <1>1, <1>2, <1>8, <1>9, StructureAfter

LEMMA BinaryRhsKeeps == Structure /\ BinaryRhs => Structure'
<1> SUFFICES ASSUME Structure, BinaryRhs PROVE Structure'
  OBVIOUS
<1> DEFINE lhs == runCast(Top.lhs, 1)
<1> DEFINE rhs == runCast(currentValue, Len(lhs.s) + 1)
<1> DEFINE s == lhs.s \o rhs.s \o <<Operator(Top.kind, lhs.v, rhs.v)>>
<1>1. /\ code \in Code /\ cur \in DOMAIN code /\ cur \in inserted /\ inserted \subseteq DOMAIN code
      /\ Len(code) \in Nat /\ DOMAIN code = 1..Len(code)
      /\ Holding(frames, code, cur, inserted) /\ ClosedBut(frames, code, cur, inserted)
      /\ frames \in Seq(Visit) /\ currentValue \in Value
  BY StructureFacts
<1>2. /\ frames # << >> /\ Top.kind \in BinaryOps /\ pc = "return" /\ pc' = pc
      /\ Emit(s, 0) /\ frames' = Below /\ currentValue' = New(Len(s))
      /\ inserted' = inserted /\ cur' = cur /\ calls' = calls /\ isVoid' = isVoid
  BY DEF BinaryRhs, Returns, Leave
<1>3. /\ Top \in Visit /\ Top = TopOf(frames) /\ Below = BelowOf(frames)
      /\ Below \in Seq(Visit) /\ Top.lhs \in Value
  BY <1>2, TopFacts DEF Visit
<1>4. Typed
  BY DEF Structure
<1>5. lhs.s \in Seq(Instruction) /\ Plain(lhs.s) /\ lhs.v \in Value
  BY <1>3, <1>4, ConversionFacts
<1>6. rhs.s \in Seq(Instruction) /\ Plain(rhs.s) /\ rhs.v \in Value
  <2>1. Len(lhs.s) + 1 \in Nat
    BY <1>5
  <2> QED
    BY <1>1, <1>4, <2>1, ConversionFacts
<1>7. s \in Seq(Instruction) /\ Plain(s)
  <2> DEFINE o == Operator(Top.kind, lhs.v, rhs.v)
  <2>1. <<o>> \in Seq(Instruction) /\ Plain(<<o>>)
    BY <1>2, <1>5, <1>6, OperatorFacts, SingleFacts DEF Plain
  <2> DEFINE p == lhs.s \o rhs.s
  <2>2. p \in Seq(Instruction) /\ Plain(p)
    BY <1>5, <1>6, ConcatFacts
  <2> HIDE DEF p, o, lhs, rhs
  <2>3. p \o <<o>> \in Seq(Instruction) /\ Plain(p \o <<o>>)
    BY <2>1, <2>2, ConcatFacts
  <2> QED
    BY <2>3 DEF p, o
<1> HIDE DEF s
<1>8. Open(s) /\ NoPhi(s) /\ \A b : ~Leads(s, b)
  BY <1>7, PlainLeadsNowhere DEF Plain
<1>9. /\ Extends(code, code', cur, s, {}) /\ code' \in Code /\ DOMAIN code' = DOMAIN code
      /\ \A a \in DOMAIN code', b \in Nat : Leads(code'[a], b) => b \in DOMAIN code'
      /\ (\A b \in DOMAIN code' : PhisAt(code', b)) /\ Open(code'[cur])
  <2>1. 0 \in Nat /\ pc # "done" /\ \A b : Leads(s, b) => b \in DOMAIN code /\ b # cur /\ code[b] = << >>
    BY <1>2, <1>8
  <2>2. DOMAIN code' = 1..Len(code) + 0
    BY ONLY Structure, <1>2, <1>7, <1>8, <2>1, EmitKeeps
  <2>3. DOMAIN code' = DOMAIN code
    BY <1>1, <2>2
  <2> QED
    BY ONLY Structure, <1>2, <1>7, <1>8, <2>1, <2>3, EmitKeeps
<1>10. Held(Top) = {}
  BY <1>2, BinaryOpsAreKnown DEF Held, Merging, Logical, Ternary
<1>11. Holding(frames', code', cur, inserted) /\ ClosedBut(frames', code', cur, inserted)
  <2>1. /\ frames' = BelowOf(frames)
        /\ Top = TopOf(frames) /\ StaysWithin(Top, s, cur, cur) /\ GivesUp(Top, {}, cur)
    BY <1>2, <1>3, <1>8, <1>10 DEF StaysWithin, GivesUp
  <2>2. MovesOn(code', cur, inserted, cur, inserted)
    BY <1>1 DEF MovesOn
  <2>3. /\ code \in Code /\ cur \in DOMAIN code /\ frames \in Seq(Visit) /\ frames # << >>
        /\ s \in Seq(Instruction) /\ Extends(code, code', cur, s, {}) /\ DOMAIN code' = DOMAIN code
        /\ Holding(frames, code, cur, inserted) /\ ClosedBut(frames, code, cur, inserted)
    BY <1>1, <1>2, <1>7, <1>9
  <2> QED
    BY ONLY <2>1, <2>2, <2>3, Returning
<1>12. currentValue' \in Value
  <2>1. Len(s) \in Nat
    BY <1>7
  <2> QED
    BY <1>2, <1>4, <2>1, NewIsValue
<1>13. Typed'
  BY <1>1, <1>2, <1>3, <1>4, <1>9, <1>12 DEF Typed, Blocks
<1> QED
  BY <1>2, <1>9, <1>11, <1>13, StructureAfter

(* The insertion point goes to a block that the visit has held: the one it *)
(* leaves is closed by a branch to such blocks.                            *)
LEMMA JumpKeeps ==
  ASSUME Structure, frames # << >>, pc = "return", NEW p \in Seq(Instruction), Plain(p),
         NEW i \in Instruction, IsTerminator(i), Emit(p \o <<i>>, 0),
         \A b : LeadsTo(i, b) => b \in Held(Top)
  PROVE  /\ Extends(code, code', cur, p \o <<i>>, {}) /\ code' \in Code /\ DOMAIN code' = DOMAIN code
         /\ p \o <<i>> \in Seq(Instruction)
         /\ \A b : Leads(p \o <<i>>, b) => b \in Held(Top)
         /\ \A a \in DOMAIN code', b \in Nat : Leads(code'[a], b) => b \in DOMAIN code'
         /\ (\A b \in DOMAIN code' : PhisAt(code', b)) /\ Closed(code'[cur])
         /\ \A b : Preds(code', b) = Preds(code, b) \cup (IF LeadsTo(i, b) THEN {cur} ELSE {})
         /\ \A b \in Held(Top) : b \in DOMAIN code' /\ b # cur /\ code'[b] = << >>
<1>1. /\ cur \in DOMAIN code /\ Len(code) \in Nat /\ DOMAIN code = 1..Len(code)
  BY StructureFacts
<1>2. \A b \in Held(Top) : b \in DOMAIN code /\ b # cur /\ code[b] = << >>
  BY TopFacts DEF VisitOK
<1> DEFINE s == p \o <<i>>
<1>4. /\ s \in Seq(Instruction) /\ Closed(s) /\ NoPhi(s)
      /\ \A b : Leads(s, b) <=> LeadsTo(i, b)
  BY JumpFacts
<1>5. Emit(s, 0)
  OBVIOUS
<1> HIDE DEF s
<1>6. \A b : Leads(s, b) => b \in DOMAIN code /\ b # cur /\ code[b] = << >>
  BY <1>2, <1>4
<1>7. pc # "done" /\ 0 \in Nat
  OBVIOUS
<1>8. /\ Extends(code, code', cur, s, {}) /\ code' \in Code /\ DOMAIN code' = 1..Len(code) + 0
      /\ \A a \in DOMAIN code', b \in Nat : Leads(code'[a], b) => b \in DOMAIN code'
      /\ (\A b \in DOMAIN code' : PhisAt(code', b)) /\ Closed(code'[cur])
      /\ \A b : Preds(code', b) = Preds(code, b) \cup (IF Leads(s, b) THEN {cur} ELSE {})
  BY ONLY Structure, <1>4, <1>5, <1>6, <1>7, EmitKeeps
<1>9. DOMAIN code' = DOMAIN code
  BY <1>1, <1>8
<1>10. \A b \in Held(Top) : b \in DOMAIN code' /\ b # cur /\ code'[b] = << >>
  BY <1>2, <1>8, <1>9 DEF Extends
<1> QED
  BY <1>4, <1>8, <1>9, <1>10 DEF s

LEMMA LogicalLhsKeeps == Structure /\ LogicalLhs => Structure'
<1> SUFFICES ASSUME Structure, LogicalLhs PROVE Structure'
  OBVIOUS
<1> DEFINE lhs == isNotZero(currentValue)
<1> DEFINE i == LogicalBranch(Top.kind, lhs.v, Top.rhsBB, Top.afterBB)
<1> DEFINE f == [Top EXCEPT !.lhs = lhs.v, !.lhsBB = cur]
<1> DEFINE g == [f EXCEPT !.operand = @ + 1]
<1>1. /\ code \in Code /\ cur \in DOMAIN code /\ cur \in inserted /\ inserted \subseteq DOMAIN code
      /\ DOMAIN code = 1..Len(code) /\ Len(code) \in Nat
      /\ Holding(frames, code, cur, inserted) /\ ClosedBut(frames, code, cur, inserted)
      /\ frames \in Seq(Visit) /\ currentValue \in Value /\ calls \in Nat /\ isVoid \in BOOLEAN
  BY StructureFacts
<1>2. /\ frames # << >> /\ Top.kind \in Logical /\ Top.operand = 1 /\ pc = "return" /\ pc' = "visit"
      /\ Emit(lhs.s \o <<i>>, 0) /\ frames' = Append(Below, g)
      /\ inserted' = inserted \cup {Top.rhsBB} /\ cur' = Top.rhsBB
      /\ currentValue' = currentValue /\ calls' = calls /\ isVoid' = isVoid
  BY DEF LogicalLhs, Returns, NextOperand
<1>3. /\ Top \in Visit /\ VisitOK(Top, code, cur, inserted) /\ Top = TopOf(frames)
      /\ Below = BelowOf(frames) /\ \A h \in Visit : Append(Below, h) \in Seq(Visit)
  BY <1>2, TopFacts
<1>4. lhs.s \in Seq(Instruction) /\ Plain(lhs.s) /\ lhs.v \in Value
  BY <1>1, ConversionFacts DEF Structure
<1>5. /\ i \in Instruction /\ IsTerminator(i)
      /\ \A b : LeadsTo(i, b) <=> b \in {Top.rhsBB, Top.afterBB}
  <2>1. Top.rhsBB \in Nat /\ Top.afterBB \in Nat
    BY <1>3 DEF Visit
  <2>2. \/ i = CondBr(lhs.v, Top.rhsBB, Top.afterBB)
        \/ i = CondBr(lhs.v, Top.afterBB, Top.rhsBB)
    BY DEF LogicalBranch
  <2> HIDE DEF i, lhs
  <2> QED
    BY <1>4, <2>1, <2>2, BranchFacts
<1>6. cur \in Nat
  BY <1>1
<1>7. /\ f \in Visit /\ f.kind = Top.kind /\ f.operand = 1
      /\ f.lhsBB = cur /\ f.rhsBB = Top.rhsBB /\ f.afterBB = Top.afterBB
  <2> HIDE DEF lhs
  <2>1. f \in Visit
    BY <1>3, <1>4, <1>6 DEF Visit
  <2>2. /\ f.kind = Top.kind /\ f.operand = Top.operand
        /\ f.lhsBB = cur /\ f.rhsBB = Top.rhsBB /\ f.afterBB = Top.afterBB
    BY <1>3 DEF Visit
  <2> QED
    BY <1>2, <2>1, <2>2
<1> HIDE DEF f, i, lhs
<1>8. /\ g \in Visit /\ g.kind = Top.kind /\ g.operand = 2
      /\ g.lhsBB = cur /\ g.rhsBB = Top.rhsBB /\ g.afterBB = Top.afterBB
  <2>1. f.operand < 3 /\ f.operand + 1 = 2
    BY <1>7
  <2> QED
    BY <1>7, <2>1, OperandFacts
<1> HIDE DEF g
<1>9. /\ Top.kind \in Merging /\ Top.kind \notin Ternary /\ Arity(Top.kind) = 2
  BY <1>2 DEF Merging, Logical, Ternary, Arity
<1>10. Held(Top) = {Top.rhsBB, Top.afterBB} /\ Held(g) = {Top.afterBB}
  BY <1>2, <1>8, <1>9 DEF Held
<1>11. Top.rhsBB # Top.afterBB /\ Preds(code, Top.afterBB) = {}
  BY <1>2, <1>3, <1>9 DEF VisitOK
<1> DEFINE s == lhs.s \o <<i>>
<1>12. /\ Extends(code, code', cur, s, {}) /\ code' \in Code /\ DOMAIN code' = DOMAIN code
       /\ s \in Seq(Instruction)
       /\ \A b : Leads(s, b) => b \in Held(Top)
       /\ \A a \in DOMAIN code', b \in Nat : Leads(code'[a], b) => b \in DOMAIN code'
       /\ (\A b \in DOMAIN code' : PhisAt(code', b)) /\ Closed(code'[cur])
       /\ \A b : Preds(code', b) = Preds(code, b) \cup (IF LeadsTo(i, b) THEN {cur} ELSE {})
       /\ \A b \in Held(Top) : b \in DOMAIN code' /\ b # cur /\ code'[b] = << >>
  <2>1. \A b : LeadsTo(i, b) => b \in Held(Top)
    BY <1>5, <1>10
  <2> QED
    BY ONLY Structure, <1>2, <1>4, <1>5, <2>1, JumpKeeps
<1> HIDE DEF s
<1>13. VisitOK(g, code', cur', inserted')
  <2>1. \A b \in Held(g) : b \in DOMAIN code' /\ b # cur' /\ code'[b] = << >>
    BY <1>2, <1>10, <1>11, <1>12
  <2>2. Preds(code', g.afterBB) = {g.lhsBB}
    BY <1>5, <1>8, <1>11, <1>12
  <2> QED
    BY <1>8, <1>9, <1>11, <2>1, <2>2 DEF VisitOK
<1>14. StaysWithin(Top, s, cur, cur') /\ Passes(Top, g, cur')
  BY <1>2, <1>10, <1>12 DEF StaysWithin, Passes
<1>15. MovesOn(code', cur, inserted, cur', inserted')
  BY <1>1, <1>2, <1>12 DEF MovesOn
<1>16. Holding(frames', code', cur', inserted') /\ ClosedBut(frames', code', cur', inserted')
  <2>1. /\ code \in Code /\ cur \in DOMAIN code /\ frames \in Seq(Visit) /\ frames # << >>
        /\ Holding(frames, code, cur, inserted) /\ ClosedBut(frames, code, cur, inserted)
        /\ frames' = Append(BelowOf(frames), g) /\ Top = TopOf(frames) /\ g \in Visit
    BY <1>1, <1>2, <1>3, <1>8
  <2> QED
    BY ONLY <2>1, <1>12, <1>13, <1>14, <1>15, Continues
<1>17. Typed'
  <2>1. frames' \in Seq(Visit)
    BY <1>2, <1>3, <1>8
  <2>2. inserted' \subseteq DOMAIN code' /\ cur' \in inserted'
    BY <1>1, <1>2, <1>10, <1>12
  <2> QED
    BY <1>1, <1>2, <1>12, <2>1, <2>2 DEF Typed, Blocks
<1>18. Open(code'[cur'])
  BY <1>2, <1>10, <1>12, EmptyFacts DEF Plain
<1> QED
  BY <1>2, <1>12, <1>16, <1>17, <1>18, StructureAfter

LEMMA TernaryCondKeeps == Structure /\ TernaryCond => Structure'
<1> SUFFICES ASSUME Structure, TernaryCond PROVE Structure'
  OBVIOUS
<1> DEFINE cond == isNotZero(currentValue)
<1> DEFINE i == CondBr(cond.v, Top.lhsBB, Top.rhsBB)
<1> DEFINE g == [Top EXCEPT !.operand = @ + 1]
<1>1. /\ code \in Code /\ cur \in DOMAIN code /\ cur \in inserted /\ inserted \subseteq DOMAIN code
      /\ Holding(frames, code, cur, inserted) /\ ClosedBut(frames, code, cur, inserted)
      /\ frames \in Seq(Visit) /\ currentValue \in Value /\ calls \in Nat /\ isVoid \in BOOLEAN
  BY StructureFacts
<1>2. /\ frames # << >> /\ Top.kind \in Ternary /\ Top.operand = 1 /\ pc = "return" /\ pc' = "visit"
      /\ Emit(cond.s \o <<i>>, 0) /\ frames' = Append(Below, g)
      /\ inserted' = inserted /\ cur' = Top.lhsBB
      /\ currentValue' = currentValue /\ calls' = calls /\ isVoid' = isVoid
  BY DEF TernaryCond, Returns, NextOperand
<1>3. /\ Top \in Visit /\ VisitOK(Top, code, cur, inserted) /\ Top = TopOf(frames)
      /\ Below = BelowOf(frames) /\ \A h \in Visit : Append(Below, h) \in Seq(Visit)
  BY <1>2, TopFacts
<1>4. cond.s \in Seq(Instruction) /\ Plain(cond.s) /\ cond.v \in Value
  BY <1>1, ConversionFacts DEF Structure
<1>5. /\ i \in Instruction /\ IsTerminator(i)
      /\ \A b : LeadsTo(i, b) <=> b \in {Top.lhsBB, Top.rhsBB}
  <2>1. Top.lhsBB \in Nat /\ Top.rhsBB \in Nat
    BY <1>3 DEF Visit
  <2> HIDE DEF cond
  <2> QED
    BY <1>4, <2>1, BranchFacts
<1> HIDE DEF i, cond
<1>6. /\ g \in Visit /\ g.kind = Top.kind /\ g.operand = 2
      /\ g.lhsBB = Top.lhsBB /\ g.rhsBB = Top.rhsBB /\ g.afterBB = Top.afterBB
  <2>1. Top.operand < 3 /\ Top.operand + 1 = 2
    BY <1>2
  <2> QED
    BY <1>3, <2>1, OperandFacts
<1> HIDE DEF g
<1>7. /\ Top.kind \in Merging /\ Arity(Top.kind) = 3
  BY <1>2 DEF Merging, Logical, Ternary, Arity
<1>8. Held(Top) = {Top.lhsBB, Top.rhsBB, Top.afterBB} /\ Held(g) = {Top.rhsBB, Top.afterBB}
  BY <1>2, <1>6, <1>7 DEF Held
<1>9. /\ Top.rhsBB # Top.afterBB /\ Top.lhsBB # Top.rhsBB /\ Top.lhsBB # Top.afterBB
      /\ Top.lhsBB \in inserted /\ Preds(code, Top.afterBB) = {}
  BY <1>2, <1>3, <1>7 DEF VisitOK
<1> DEFINE s == cond.s \o <<i>>
<1>10. /\ Extends(code, code', cur, s, {}) /\ code' \in Code /\ DOMAIN code' = DOMAIN code
       /\ s \in Seq(Instruction)
       /\ \A b : Leads(s, b) => b \in Held(Top)
       /\ \A a \in DOMAIN code', b \in Nat : Leads(code'[a], b) => b \in DOMAIN code'
       /\ (\A b \in DOMAIN code' : PhisAt(code', b)) /\ Closed(code'[cur])
       /\ \A b : Preds(code', b) = Preds(code, b) \cup (IF LeadsTo(i, b) THEN {cur} ELSE {})
       /\ \A b \in Held(Top) : b \in DOMAIN code' /\ b # cur /\ code'[b] = << >>
  <2>1. \A b : LeadsTo(i, b) => b \in Held(Top)
    BY <1>5, <1>8
  <2> QED
    BY ONLY Structure, <1>2, <1>4, <1>5, <2>1, JumpKeeps
<1> HIDE DEF s
<1>11. VisitOK(g, code', cur', inserted')
  <2>1. \A b \in Held(g) : b \in DOMAIN code' /\ b # cur' /\ code'[b] = << >>
    BY <1>2, <1>8, <1>9, <1>10
  <2>2. Preds(code', g.afterBB) = {}
    BY <1>5, <1>6, <1>9, <1>10
  <2> QED
    BY <1>6, <1>7, <1>9, <2>1, <2>2 DEF VisitOK
<1>12. StaysWithin(Top, s, cur, cur') /\ Passes(Top, g, cur')
  BY <1>2, <1>8, <1>10 DEF StaysWithin, Passes
<1>13. MovesOn(code', cur, inserted, cur', inserted')
  BY <1>1, <1>2, <1>9, <1>10 DEF MovesOn
<1>14. Holding(frames', code', cur', inserted') /\ ClosedBut(frames', code', cur', inserted')
  <2>1. /\ code \in Code /\ cur \in DOMAIN code /\ frames \in Seq(Visit) /\ frames # << >>
        /\ Holding(frames, code, cur, inserted) /\ ClosedBut(frames, code, cur, inserted)
        /\ frames' = Append(BelowOf(frames), g) /\ Top = TopOf(frames) /\ g \in Visit
    BY <1>1, <1>2, <1>3, <1>6
  <2> QED
    BY ONLY <2>1, <1>10, <1>11, <1>12, <1>13, Continues
<1>15. Typed'
  <2>1. frames' \in Seq(Visit)
    BY <1>2, <1>3, <1>6
  <2> QED
    BY <1>1, <1>2, <1>9, <1>10, <2>1 DEF Typed, Blocks
<1>16. Open(code'[cur'])
  BY <1>2, <1>8, <1>10, EmptyFacts DEF Plain
<1> QED
  BY <1>2, <1>10, <1>14, <1>15, <1>16, StructureAfter

(* What the second and the third operand are converted to                  *)
LEMMA BranchConverts ==
  ASSUME Structure
  PROVE  Branch.s \in Seq(Instruction) /\ Plain(Branch.s) /\ Branch.v \in Value
<1>1. currentValue \in Value
  BY StructureFacts
<1>2. NoValue \in Value
  BY DEF NoValue, Value
<1>3. LET v == runCast(currentValue, 1)
      IN  v.s \in Seq(Instruction) /\ Plain(v.s) /\ v.v \in Value
  BY <1>1, ConversionFacts DEF Structure
<1> QED
  BY <1>2, <1>3, EmptyFacts DEF Branch

LEMMA TernaryLhsKeeps == Structure /\ TernaryLhs => Structure'
<1> SUFFICES ASSUME Structure, TernaryLhs PROVE Structure'
  OBVIOUS
<1> DEFINE i == Br(Top.afterBB)
<1> DEFINE f == [Top EXCEPT !.lhs = Branch.v, !.lhsBB = cur]
<1> DEFINE g == [f EXCEPT !.operand = @ + 1]
<1>1. /\ code \in Code /\ cur \in DOMAIN code /\ cur \in inserted /\ inserted \subseteq DOMAIN code
      /\ DOMAIN code = 1..Len(code) /\ Len(code) \in Nat
      /\ Holding(frames, code, cur, inserted) /\ ClosedBut(frames, code, cur, inserted)
      /\ frames \in Seq(Visit) /\ currentValue \in Value /\ calls \in Nat /\ isVoid \in BOOLEAN
  BY StructureFacts
<1>2. /\ frames # << >> /\ Top.kind \in Ternary /\ Top.operand = 2 /\ pc = "return" /\ pc' = "visit"
      /\ Emit(Branch.s \o <<i>>, 0) /\ frames' = Append(Below, g)
      /\ inserted' = inserted \cup {Top.rhsBB} /\ cur' = Top.rhsBB
      /\ currentValue' = currentValue /\ calls' = calls /\ isVoid' = isVoid
  BY DEF TernaryLhs, Returns, NextOperand
<1>3. /\ Top \in Visit /\ VisitOK(Top, code, cur, inserted) /\ Top = TopOf(frames)
      /\ Below = BelowOf(frames) /\ \A h \in Visit : Append(Below, h) \in Seq(Visit)
  BY <1>2, TopFacts
<1>4. Branch.s \in Seq(Instruction) /\ Plain(Branch.s) /\ Branch.v \in Value
  BY BranchConverts
<1>5. i \in Instruction /\ IsTerminator(i) /\ \A b : LeadsTo(i, b) <=> b = Top.afterBB
  <2>1. Top.afterBB \in Nat
    BY <1>3 DEF Visit
  <2> QED
    BY <1>4, <2>1, BranchFacts
<1>6. cur \in Nat
  BY <1>1
<1>7. /\ f \in Visit /\ f.kind = Top.kind /\ f.operand = 2
      /\ f.lhsBB = cur /\ f.rhsBB = Top.rhsBB /\ f.afterBB = Top.afterBB
  <2>1. f \in Visit
    BY <1>3, <1>4, <1>6 DEF Visit
  <2>2. /\ f.kind = Top.kind /\ f.operand = Top.operand
        /\ f.lhsBB = cur /\ f.rhsBB = Top.rhsBB /\ f.afterBB = Top.afterBB
    BY <1>3 DEF Visit
  <2> QED
    BY <1>2, <2>1, <2>2
<1> HIDE DEF f, i
<1>8. /\ g \in Visit /\ g.kind = Top.kind /\ g.operand = 3
      /\ g.lhsBB = cur /\ g.rhsBB = Top.rhsBB /\ g.afterBB = Top.afterBB
  <2>1. f.operand < 3 /\ f.operand + 1 = 3
    BY <1>7
  <2> QED
    BY <1>7, <2>1, OperandFacts
<1> HIDE DEF g
<1>9. /\ Top.kind \in Merging /\ Arity(Top.kind) = 3
  BY <1>2 DEF Merging, Logical, Ternary, Arity
<1>10. Held(Top) = {Top.rhsBB, Top.afterBB} /\ Held(g) = {Top.afterBB}
  BY <1>2, <1>8, <1>9 DEF Held
<1>11. Top.rhsBB # Top.afterBB /\ Preds(code, Top.afterBB) = {}
  BY <1>2, <1>3, <1>9 DEF VisitOK
<1> DEFINE s == Branch.s \o <<i>>
<1>12. /\ Extends(code, code', cur, s, {}) /\ code' \in Code /\ DOMAIN code' = DOMAIN code
       /\ s \in Seq(Instruction)
       /\ \A b : Leads(s, b) => b \in Held(Top)
       /\ \A a \in DOMAIN code', b \in Nat : Leads(code'[a], b) => b \in DOMAIN code'
       /\ (\A b \in DOMAIN code' : PhisAt(code', b)) /\ Closed(code'[cur])
       /\ \A b : Preds(code', b) = Preds(code, b) \cup (IF LeadsTo(i, b) THEN {cur} ELSE {})
       /\ \A b \in Held(Top) : b \in DOMAIN code' /\ b # cur /\ code'[b] = << >>
  <2>1. \A b : LeadsTo(i, b) => b \in Held(Top)
    BY <1>5, <1>10
  <2> QED
    BY ONLY Structure, <1>2, <1>4, <1>5, <2>1, JumpKeeps
<1> HIDE DEF s
<1>13. VisitOK(g, code', cur', inserted')
  <2>1. \A b \in Held(g) : b \in DOMAIN code' /\ b # cur' /\ code'[b] = << >>
    BY <1>2, <1>10, <1>11, <1>12
  <2>2. Preds(code', g.afterBB) = {g.lhsBB}
    BY <1>5, <1>8, <1>11, <1>12
  <2> QED
    BY <1>8, <1>9, <1>11, <2>1, <2>2 DEF VisitOK
<1>14. StaysWithin(Top, s, cur, cur') /\ Passes(Top, g, cur')
  BY <1>2, <1>10, <1>12 DEF StaysWithin, Passes
<1>15. MovesOn(code', cur, inserted, cur', inserted')
  BY <1>1, <1>2, <1>12 DEF MovesOn
<1>16. Holding(frames', code', cur', inserted') /\ ClosedBut(frames', code', cur', inserted')
  <2>1. /\ code \in Code /\ cur \in DOMAIN code /\ frames \in Seq(Visit) /\ frames # << >>
        /\ Holding(frames, code, cur, inserted) /\ ClosedBut(frames, code, cur, inserted)
        /\ frames' = Append(BelowOf(frames), g) /\ Top = TopOf(frames) /\ g \in Visit
    BY <1>1, <1>2, <1>3, <1>8
  <2> QED
    BY ONLY <2>1, <1>12, <1>13, <1>14, <1>15, Continues
<1>17. Typed'
  <2>1. frames' \in Seq(Visit)
    BY <1>2, <1>3, <1>8
  <2>2. inserted' \subseteq DOMAIN code' /\ cur' \in inserted'
    BY <1>1, <1>2, <1>10, <1>12
  <2> QED
    BY <1>1, <1>2, <1>12, <2>1, <2>2 DEF Typed, Blocks
<1>18. Open(code'[cur'])
  BY <1>2, <1>10, <1>12, EmptyFacts DEF Plain
<1> QED
  BY <1>2, <1>12, <1>16, <1>17, <1>18, StructureAfter

(* The last operand branches to the block after, which gets its phi.       *)
LEMMA MergeKeeps ==
  ASSUME Structure, pc = "return", frames # << >>, Top.kind \in Merging,
         Top.operand = Arity(Top.kind), NEW p \in Seq(Instruction), Plain(p),
         NEW t \in Seq(Instruction), Open(t),
         \/ t = << >>
         \/ \E type \in {"i1", "int"}, l, r \in Value : t = <<Phi(type, l, Top.lhsBB, r, cur)>>,
         Merge(p \o <<Br(Top.afterBB)>>, Top.afterBB, t), NEW v \in Value, Leave(v)
  PROVE  Structure'
<1> DEFINE after == Top.afterBB
<1> DEFINE i == Br(after)
<1> DEFINE s == p \o <<i>>
<1>1. /\ code \in Code /\ cur \in DOMAIN code /\ cur \in inserted /\ inserted \subseteq DOMAIN code
      /\ DOMAIN code = 1..Len(code) /\ Len(code) \in Nat
      /\ Holding(frames, code, cur, inserted) /\ ClosedBut(frames, code, cur, inserted)
      /\ frames \in Seq(Visit) /\ calls \in Nat /\ isVoid \in BOOLEAN
      /\ code[cur] \in Seq(Instruction) /\ Open(code[cur])
      /\ \A a \in DOMAIN code, b \in Nat : Leads(code[a], b) => b \in DOMAIN code
      /\ \A b \in DOMAIN code : PhisAt(code, b)
  BY StructureFacts
<1>2. /\ code' = Merged(code, cur, s, after, t)
      /\ inserted' = inserted \cup {after} /\ cur' = after
      /\ frames' = Below /\ currentValue' = v /\ calls' = calls /\ isVoid' = isVoid /\ pc' = pc
  BY DEF Merge, Leave, Merged
<1>3. /\ Top \in Visit /\ VisitOK(Top, code, cur, inserted) /\ Top = TopOf(frames)
      /\ Below = BelowOf(frames) /\ Below \in Seq(Visit)
  BY TopFacts
<1>4. Held(Top) = {after}
  BY DEF Held, Arity
<1>5. after \in DOMAIN code /\ after # cur /\ code[after] = << >> /\ Preds(code, after) = {Top.lhsBB}
  BY <1>3, <1>4 DEF VisitOK
<1>6. Top.lhsBB # cur
  <2>1. ~Leads(code[cur], after)
    BY <1>1, PlainLeadsNowhere
  <2>2. Top.lhsBB \in Preds(code, after)
    BY <1>5
  <2> QED
    BY <2>1, <2>2 DEF Preds
<1>7. after \in Nat /\ Top.lhsBB \in Nat /\ cur \in Nat
  BY <1>1, <1>3 DEF Visit
<1>8. i \in Instruction /\ IsTerminator(i) /\ \A b : LeadsTo(i, b) <=> b = after
  BY <1>7, BranchFacts
<1> HIDE DEF i, after
<1>9. /\ s \in Seq(Instruction) /\ Closed(s) /\ NoPhi(s) /\ \A b : Leads(s, b) <=> b = after
  BY <1>8, JumpFacts
<1> HIDE DEF s
<1>10. Extends(code, code', cur, s, {after}) /\ DOMAIN code' = DOMAIN code /\ code'[after] = t
  <2>1. /\ code \in Code /\ cur \in DOMAIN code /\ s \in Seq(Instruction)
        /\ after \in DOMAIN code /\ after # cur /\ code[after] = << >>
        /\ t \in Seq(Instruction) /\ Open(t) /\ code' = Merged(code, cur, s, after, t)
    BY <1>1, <1>2, <1>5, <1>9
  <2>2. Extends(code, code', cur, s, {after})
    BY ONLY <2>1, MergeFacts
  <2>3. DOMAIN code' = DOMAIN code
    BY ONLY <2>1, MergeFacts
  <2>4. code'[after] = t
    BY ONLY <2>1 DEF Merged
  <2> QED
    BY <2>2, <2>3, <2>4
<1>11. code' \in Code /\ code'[cur] = code[cur] \o s
  BY <1>10 DEF Extends
<1>12. Closed(code'[cur])
  BY <1>1, <1>9, <1>11, ConcatFacts
<1>13. \A b : Preds(code', b) = Preds(code, b) \cup (IF Leads(s, b) THEN {cur} ELSE {})
  BY ONLY <1>1, <1>9, <1>10, PredsAfter
<1>14. \A a \in DOMAIN code', b \in Nat : Leads(code'[a], b) => b \in DOMAIN code'
  <2>1. \A b \in Nat : Leads(s, b) => b \in DOMAIN code'
    BY <1>5, <1>9, <1>10
  <2> QED
    BY ONLY <1>1, <1>9, <1>10, <2>1, TargetsAfter
<1>15. \A b \in DOMAIN code' : b # after => PhisAt(code', b)
  <2>1. \A b \in DOMAIN code : Leads(s, b) => b # cur /\ code[b] = << >>
    BY <1>5, <1>9
  <2>2. \A b \in DOMAIN code' : b \notin {after} => PhisAt(code', b)
    BY ONLY <1>1, <1>9, <1>10, <2>1, PhisAfter
  <2> QED
    BY <2>2
<1>16. PhisAt(code', after)
  <2>1. Preds(code', after) = {Top.lhsBB, cur}
    BY <1>5, <1>9, <1>13
  <2>2. CASE t = << >>
    BY <1>10, <2>2 DEF PhisAt
  <2>3. CASE \E type \in {"i1", "int"}, l, r \in Value : t = <<Phi(type, l, Top.lhsBB, r, cur)>>
    <3>1. PICK type \in {"i1", "int"}, l \in Value, r \in Value : t = <<Phi(type, l, Top.lhsBB, r, cur)>>
      BY <2>3
    <3>2. /\ Phi(type, l, Top.lhsBB, r, cur).in[1].b = Top.lhsBB
          /\ Phi(type, l, Top.lhsBB, r, cur).in[2].b = cur
      BY DEF Phi
    <3>3. \A k \in DOMAIN t : k = 1 /\ t[k] = Phi(type, l, Top.lhsBB, r, cur)
      BY <3>1
    <3> QED
      BY <1>6, <1>10, <2>1, <3>2, <3>3 DEF PhisAt
  <2> QED
    BY <2>2, <2>3
<1>17. \A b \in DOMAIN code' : PhisAt(code', b)
  BY <1>15, <1>16
<1>18. StaysWithin(Top, s, cur, after) /\ GivesUp(Top, {after}, after)
  BY <1>4, <1>9 DEF StaysWithin, GivesUp
<1>19. MovesOn(code', cur, inserted, after, inserted')
  BY <1>1, <1>2, <1>12 DEF MovesOn
<1>20. Holding(frames', code', after, inserted') /\ ClosedBut(frames', code', after, inserted')
  <2>1. frames # << >> /\ frames' = BelowOf(frames) /\ Top = TopOf(frames)
    BY <1>2, <1>3
  <2> QED
    BY ONLY <1>1, <1>9, <1>10, <1>18, <1>19, <2>1, Returning
<1>21. Typed'
  <2>1. inserted' \subseteq DOMAIN code' /\ cur' \in inserted'
    BY <1>1, <1>2, <1>5, <1>10
  <2> QED
    BY <1>1, <1>2, <1>3, <1>11, <2>1 DEF Typed, Blocks
<1>22. Open(code'[cur']) /\ pc' # "done"
  BY <1>2, <1>10
<1> QED
  BY <1>2, <1>14, <1>17, <1>20, <1>21, <1>22, StructureAfter

LEMMA LogicalRhsKeeps == Structure /\ LogicalRhs => Structure'
<1> SUFFICES ASSUME Structure, LogicalRhs PROVE Structure'
  OBVIOUS
<1> DEFINE rhs == isNotZero(currentValue)
<1> DEFINE i == Phi("i1", Top.lhs, Top.lhsBB, rhs.v, cur)
<1>1. Typed /\ currentValue \in Value /\ cur \in Nat
  BY StructureFacts, NewIsValue DEF Structure
<1>2. /\ frames # << >> /\ Top.kind \in Logical /\ Top.operand = 2 /\ pc = "return"
      /\ Merge(rhs.s \o <<Br(Top.afterBB)>>, Top.afterBB, <<i>>)
      /\ Leave(<<Top.afterBB, 1>>)
  BY DEF LogicalRhs, Returns
<1>3. Top \in Visit /\ Top.lhs \in Value /\ Top.lhsBB \in Nat /\ <<Top.afterBB, 1>> \in Value
  <2>1. Top \in Visit
    BY <1>2, TopFacts
  <2> QED
    BY <2>1 DEF Visit, Value
<1>4. Top.kind \in Merging /\ Top.operand = Arity(Top.kind)
  BY <1>2 DEF Merging, Logical, Ternary, Arity
<1>5. rhs.s \in Seq(Instruction) /\ Plain(rhs.s) /\ rhs.v \in Value
  BY <1>1, ConversionFacts
<1> HIDE DEF rhs
<1>6. i \in Instruction /\ ~IsTerminator(i)
  BY <1>1, <1>3, <1>5, PhiFacts
<1>7. <<i>> \in Seq(Instruction) /\ Open(<<i>>)
  BY <1>6, SingleFacts
<1>8. \E type \in {"i1", "int"}, l, r \in Value : <<i>> = <<Phi(type, l, Top.lhsBB, r, cur)>>
  BY <1>3, <1>5
<1> HIDE DEF i
<1> QED
  BY ONLY Structure, <1>2, <1>3, <1>4, <1>5, <1>7, <1>8, MergeKeeps

LEMMA TernaryRhsKeeps == Structure /\ TernaryRhs => Structure'
<1> SUFFICES ASSUME Structure, TernaryRhs PROVE Structure'
  OBVIOUS
<1>1. Typed /\ cur \in Nat
  BY NewIsValue DEF Structure
<1>2. frames # << >> /\ Top.kind \in Ternary /\ Top.operand = 3 /\ pc = "return"
  BY DEF TernaryRhs, Returns
<1>3. Top \in Visit /\ Top.lhs \in Value /\ Top.lhsBB \in Nat /\ <<Top.afterBB, 1>> \in Value
  <2>1. Top \in Visit
    BY <1>2, TopFacts
  <2> QED
    BY <2>1 DEF Visit, Value
<1>4. Top.kind \in Merging /\ Top.operand = Arity(Top.kind)
  BY <1>2 DEF Merging, Logical, Ternary, Arity
<1>5. CASE Top.kind = "void ?:"
  <2> DEFINE p == << >>
  <2> DEFINE t == << >>
  <2>1. /\ p \in Seq(Instruction) /\ Plain(p) /\ t \in Seq(Instruction) /\ Open(t) /\ t = << >>
    BY EmptyFacts DEF Plain
  <2>2. p \o <<Br(Top.afterBB)>> = <<Br(Top.afterBB)>>
    OBVIOUS
  <2>3. Merge(p \o <<Br(Top.afterBB)>>, Top.afterBB, t) /\ Leave(NoValue)
    BY <1>5, <2>2 DEF TernaryRhs
  <2>4. NoValue \in Value
    BY DEF NoValue, Value
  <2> HIDE DEF p, t
  <2> QED
    BY ONLY Structure, <1>2, <1>4, <2>1, <2>3, <2>4, MergeKeeps
<1>6. CASE Top.kind # "void ?:"
  <2> DEFINE i == Phi("int", Top.lhs, Top.lhsBB, Branch.v, cur)
  <2>1. Branch.s \in Seq(Instruction) /\ Plain(Branch.s) /\ Branch.v \in Value
    BY BranchConverts
  <2>2. Merge(Branch.s \o <<Br(Top.afterBB)>>, Top.afterBB, <<i>>) /\ Leave(<<Top.afterBB, 1>>)
    BY <1>6 DEF TernaryRhs
  <2>3. i \in Instruction /\ ~IsTerminator(i)
    BY <1>1, <1>3, <2>1, PhiFacts
  <2>4. <<i>> \in Seq(Instruction) /\ Open(<<i>>)
    BY <2>3, SingleFacts
  <2>5. \E type \in {"i1", "int"}, l, r \in Value : <<i>> = <<Phi(type, l, Top.lhsBB, r, cur)>>
    BY <1>3, <2>1
  <2> HIDE DEF i
  <2> QED
    BY ONLY Structure, <1>2, <1>3, <1>4, <2>1, <2>2, <2>4, <2>5, MergeKeeps
<1> QED
  BY <1>5, <1>6

LEMMA FinishKeeps == Structure /\ Finish => Structure'
<1> SUFFICES ASSUME Structure, Finish PROVE Structure'
  OBVIOUS
<1> DEFINE value == IF isVoid THEN [s |-> << >>, v |-> NoValue] ELSE runCast(currentValue, 1)
<1> DEFINE s == value.s \o <<Ret(value.v)>>
<1>1. /\ code \in Code /\ cur \in DOMAIN code /\ cur \in inserted /\ inserted \subseteq DOMAIN code
      /\ Len(code) \in Nat /\ DOMAIN code = 1..Len(code)
      /\ Holding(frames, code, cur, inserted) /\ ClosedBut(frames, code, cur, inserted)
      /\ frames \in Seq(Visit) /\ currentValue \in Value /\ calls \in Nat /\ isVoid \in BOOLEAN
  BY StructureFacts
<1>2. /\ Emit(s, 0) /\ pc # "done" /\ pc' = "done" /\ frames = << >>
      /\ frames' = frames /\ cur' = cur /\ inserted' = inserted
      /\ currentValue' = currentValue /\ isVoid' = isVoid /\ calls' = calls
  BY DEF Finish
<1>3. value.s \in Seq(Instruction) /\ Plain(value.s) /\ value.v \in Value
  <2>1. LET v == runCast(currentValue, 1)
        IN  v.s \in Seq(Instruction) /\ Plain(v.s) /\ v.v \in Value
    BY <1>1, ConversionFacts DEF Structure
  <2>2. NoValue \in Value
    BY DEF NoValue, Value
  <2> QED
    BY <2>1, <2>2, EmptyFacts
<1> HIDE DEF value
<1>4. s \in Seq(Instruction) /\ Closed(s) /\ NoPhi(s) /\ \A b : ~Leads(s, b)
  <2>1. Ret(value.v) \in Instruction /\ IsTerminator(Ret(value.v)) /\ \A b : ~LeadsTo(Ret(value.v), b)
    BY <1>3, UnaryFacts
  <2> QED
    BY <1>3, <2>1, JumpFacts
<1> HIDE DEF s
<1>5. /\ Extends(code, code', cur, s, {}) /\ code' \in Code /\ DOMAIN code' = DOMAIN code
      /\ \A a \in DOMAIN code', b \in Nat : Leads(code'[a], b) => b \in DOMAIN code'
      /\ (\A b \in DOMAIN code' : PhisAt(code', b)) /\ Closed(code'[cur])
  <2>1. 0 \in Nat /\ \A b : Leads(s, b) => b \in DOMAIN code /\ b # cur /\ code[b] = << >>
    BY <1>4
  <2>2. DOMAIN code' = 1..Len(code) + 0
    BY ONLY Structure, <1>2, <1>4, <2>1, EmitKeeps
  <2>3. DOMAIN code' = DOMAIN code
    BY <1>1, <2>2
  <2> QED
    BY ONLY Structure, <1>2, <1>4, <2>1, <2>3, EmitKeeps
<1>6. Holding(frames, code', cur, inserted) /\ ClosedBut(frames, code', cur, inserted)
  BY ONLY <1>1, <1>4, <1>5, Stays
<1>7. Typed'
  BY <1>1, <1>2, <1>5 DEF Typed, Blocks
<1> QED
  BY <1>2, <1>5, <1>6, <1>7, StructureAfter

(* The function's first block is there, and empty.                         *)
LEMMA InitStructure == Init => Structure
<1> SUFFICES ASSUME Init PROVE Structure
  OBVIOUS
<1>1. /\ code = << << >> >> /\ inserted = {1} /\ cur = 1 /\ frames = << >>
      /\ currentValue = NoValue /\ calls = 0 /\ isVoid \in BOOLEAN /\ pc = "visit"
  BY DEF Init
<1>2. code \in Code /\ DOMAIN code = {1} /\ code[1] = << >>
  <2>1. << >> \in Seq(Instruction)
    BY EmptyFacts
  <2> QED
    BY <1>1, <2>1 DEF Code
<1>3. Typed
  BY <1>1, <1>2 DEF Typed, Blocks, Value, NoValue
<1>4. VisitsHold
  BY <1>1 DEF VisitsHold, Holding
<1>5. TargetsExist
  BY <1>2, EmptyFacts DEF TargetsExist, Blocks
<1>6. BlocksAreClosed
  BY <1>1, <1>2, EmptyFacts DEF BlocksAreClosed, ClosedBut, Plain
<1>7. PhisNamePredecessors
  BY <1>2 DEF PhisNamePredecessors, Blocks
<1> QED
  BY <1>3, <1>4, <1>5, <1>6, <1>7 DEF Structure

LEMMA NextKeeps == Structure /\ [Next]_vars => Structure'
<1> SUFFICES ASSUME Structure, [Next]_vars PROVE Structure'
  OBVIOUS
<1>1. CASE VisitCall
  BY <1>1, VisitCallKeeps
<1>2. CASE \E op \in BinaryOps : EnterBinary(op)
  BY <1>2, EnterBinaryKeeps
<1>3. CASE BinaryLhs
  BY <1>3, BinaryLhsKeeps
<1>4. CASE BinaryRhs
  BY <1>4, BinaryRhsKeeps
<1>5. CASE \E op \in Logical : EnterLogical(op)
  BY <1>5, EnterLogicalKeeps
<1>6. CASE LogicalLhs
  BY <1>6, LogicalLhsKeeps
<1>7. CASE LogicalRhs
  BY <1>7, LogicalRhsKeeps
<1>8. CASE \E kind \in Ternary : EnterTernary(kind)
  BY <1>8, EnterTernaryKeeps
<1>9. CASE TernaryCond
  BY <1>9, TernaryCondKeeps
<1>10. CASE TernaryLhs
  BY <1>10, TernaryLhsKeeps
<1>11. CASE TernaryRhs
  BY <1>11, TernaryRhsKeeps
<1>12. CASE Finish
  BY <1>12, FinishKeeps
<1>13. CASE UNCHANGED vars
  BY <1>13 DEF vars, Structure, Typed, VisitsHold, TargetsExist, BlocksAreClosed,
               PhisNamePredecessors, Predecessors, Blocks
<1> QED
  BY <1>1, <1>2, <1>3, <1>4, <1>5, <1>6, <1>7, <1>8, <1>9, <1>10, <1>11, <1>12, <1>13
     DEF Next, Stopped

-----------------------------------------------------------------------------
(* The calls of the expression: a visit that begins, goes on or returns    *)

LEMMA ArityFacts ==
  \A kind : Arity(kind) \in {2, 3}
BY DEF Arity

LEMMA AheadIsInt ==
  \A f \in Visit : Ahead(f) \in Int
<1> SUFFICES ASSUME NEW f \in Visit PROVE Ahead(f) \in Int
  OBVIOUS
<1>1. \A a, o \in Int : a - o \in Int
  OBVIOUS
<1>2. Arity(f.kind) \in Int
  BY ArityFacts
<1>3. f.operand \in Int
  BY DEF Visit
<1> QED
  BY ONLY <1>1, <1>2, <1>3 DEF Ahead

LEMMA CountPushed ==
  ASSUME NEW fs \in Seq(Visit), NEW g \in Visit, g.operand = 1, NEW pending \in Nat, NEW all \in Nat,
         NEW m, Remaining(m, fs, pending, all)
  PROVE  \E k : Remaining(k, Append(fs, g), pending, all + Arity(g.kind) - 1)
<1> DEFINE n == Len(fs)
<1> DEFINE gs == Append(fs, g)
<1> DEFINE a == Ahead(g)
<1>1. a \in 1..2 /\ a = Arity(g.kind) - 1
  BY ArityFacts DEF Ahead
<1>2. Len(gs) = n + 1 /\ n \in Nat /\ gs[n + 1] = g /\ \A i \in 1..n : gs[i] = fs[i]
  BY PushFacts
<1>3. /\ m \in [0..n -> {k \in Nat : k >= pending}] /\ m[0] = pending /\ m[n] = all
      /\ \A i \in 1..n : m[i] = m[i - 1] + Ahead(fs[i])
  BY DEF Remaining
<1> DEFINE k == [i \in 0..n + 1 |-> IF i = n + 1 THEN all + a ELSE m[i]]
<1> HIDE DEF n, gs, a
<1>4. n + 1 \in 0..n + 1 /\ 0 \in 0..n + 1 /\ 0 # n + 1 /\ n \in 0..n
  BY <1>2
<1>5. k[n + 1] = all + a /\ k[0] = pending
  BY <1>3, <1>4
<1>6. \A i \in 0..n : i \in 0..n + 1 /\ i # n + 1 /\ k[i] = m[i]
  BY <1>2
<1>7. all + a >= pending /\ all + a \in Nat
  <2>1. all >= pending
    BY <1>3, <1>4
  <2> QED
    BY <1>1, <2>1
<1>8. k \in [0..n + 1 -> {j \in Nat : j >= pending}]
  <2>1. \A i \in 0..n + 1 : i = n + 1 \/ i \in 0..n
    BY <1>2
  <2>2. \A i \in 0..n + 1 : (IF i = n + 1 THEN all + a ELSE m[i]) \in {j \in Nat : j >= pending}
    BY <1>3, <1>7, <2>1
  <2> QED
    BY <2>2
<1> HIDE DEF k
<1>9. \A i \in 1..n + 1 : k[i] = k[i - 1] + Ahead(gs[i])
  <2> TAKE i \in 1..n + 1
  <2>1. CASE i = n + 1
    <3>1. i - 1 = n /\ i - 1 \in 0..n
      BY <1>2, <2>1
    <3>2. k[i] = all + a /\ k[i - 1] = all /\ gs[i] = g
      BY <1>2, <1>3, <1>5, <1>6, <2>1, <3>1
    <3> QED
      BY <3>2 DEF a
  <2>2. CASE i \in 1..n
    <3>1. i \in 0..n /\ i - 1 \in 0..n
      BY <1>2, <2>2
    <3>2. k[i] = m[i] /\ k[i - 1] = m[i - 1] /\ gs[i] = fs[i]
      BY <1>2, <1>6, <2>2, <3>1
    <3> QED
      BY <1>3, <2>2, <3>2
  <2> QED
    BY <1>2, <2>1, <2>2
<1>10. Remaining(k, gs, pending, all + a)
  BY <1>2, <1>5, <1>8, <1>9 DEF Remaining
<1>11. all + a = all + Arity(g.kind) - 1
  <2>1. Arity(g.kind) \in Int
    BY ArityFacts
  <2> QED
    BY <1>1, <2>1
<1> QED
  BY <1>10, <1>11 DEF gs

LEMMA CountNext ==
  ASSUME NEW fs \in Seq(Visit), fs # << >>, NEW g \in Visit, NEW f \in Visit, f = TopOf(fs),
         g.kind = f.kind, g.operand = f.operand + 1, g.operand <= Arity(g.kind),
         NEW pending \in Nat, NEW all \in Nat, NEW m, Remaining(m, fs, pending, all)
  PROVE  \E k : Remaining(k, Append(BelowOf(fs), g), pending + 1, all)
<1> DEFINE n == Len(fs) - 1
<1> DEFINE below == SubSeq(fs, 1, n)
<1> DEFINE gs == Append(below, g)
<1>1. /\ n \in Nat /\ n + 1 = Len(fs) /\ below \in Seq(Visit) /\ Len(below) = n
      /\ \A i \in 1..n : below[i] = fs[i]
  BY StackFacts
<1>2. gs = Append(BelowOf(fs), g) /\ f = fs[n + 1]
  BY <1>1 DEF BelowOf, TopOf
<1>3. /\ m \in [0..n + 1 -> {k \in Nat : k >= pending}] /\ m[0] = pending /\ m[n + 1] = all
      /\ \A i \in 1..n + 1 : m[i] = m[i - 1] + Ahead(fs[i])
  BY <1>1 DEF Remaining
<1> HIDE DEF n, below
<1>4. Len(gs) = n + 1 /\ gs[n + 1] = g /\ \A i \in 1..n : gs[i] = fs[i]
  BY <1>1, PushFacts
<1> HIDE DEF gs
<1>5. Ahead(g) \in Nat /\ Ahead(f) = Ahead(g) + 1
  <2>1. \A a \in Nat, o \in Nat : o + 1 <= a => a - (o + 1) \in Nat /\ a - o = a - (o + 1) + 1
    OBVIOUS
  <2>2. Arity(g.kind) \in Nat /\ f.operand \in Nat
    <3>1. f.operand \in 1..3
      BY DEF Visit
    <3>2. Arity(g.kind) \in {2, 3}
      BY ArityFacts
    <3> QED
      BY ONLY <3>1, <3>2
  <2>3. f.operand + 1 <= Arity(g.kind)
    OBVIOUS
  <2>4. Ahead(g) = Arity(g.kind) - (f.operand + 1) /\ Ahead(f) = Arity(g.kind) - f.operand
    BY DEF Ahead
  <2> QED
    BY ONLY <2>1, <2>2, <2>3, <2>4
<1> DEFINE k == [i \in 0..n + 1 |-> IF i = n + 1 THEN all ELSE m[i] + 1]
<1>6. n + 1 \in 1..n + 1 /\ n + 1 \in 0..n + 1 /\ 0 \in 0..n + 1 /\ 0 # n + 1 /\ n \in 0..n + 1
      /\ n # n + 1 /\ n + 1 - 1 = n
  BY <1>1
<1>7. k[n + 1] = all /\ k[0] = pending + 1
  BY <1>3, <1>6
<1>8. \A i \in 0..n : i \in 0..n + 1 /\ i # n + 1 /\ k[i] = m[i] + 1
  BY <1>1
<1>9. all = m[n] + Ahead(f) /\ m[n] \in Nat /\ m[n] >= pending
  BY <1>2, <1>3, <1>6
<1>10. all >= pending + 1
  BY <1>5, <1>9
<1>11. k \in [0..n + 1 -> {j \in Nat : j >= pending + 1}]
  <2>1. \A i \in 0..n + 1 : m[i] \in Nat /\ m[i] >= pending
    BY <1>3
  <2>2. \A i \in 0..n + 1 : (IF i = n + 1 THEN all ELSE m[i] + 1) \in {j \in Nat : j >= pending + 1}
    BY <1>10, <2>1
  <2> QED
    BY <2>2
<1> HIDE DEF k
<1>12. \A i \in 1..n + 1 : k[i] = k[i - 1] + Ahead(gs[i])
  <2> TAKE i \in 1..n + 1
  <2>1. CASE i = n + 1
    <3>1. i - 1 = n /\ i - 1 \in 0..n
      BY <1>1, <2>1
    <3>2. k[i] = all /\ k[i - 1] = m[n] + 1 /\ gs[i] = g
      BY <1>4, <1>7, <1>8, <2>1, <3>1
    <3> QED
      BY <1>5, <1>9, <3>2
  <2>2. CASE i \in 1..n
    <3>1. i \in 0..n /\ i - 1 \in 0..n
      BY <1>1, <2>2
    <3>2. k[i] = m[i] + 1 /\ k[i - 1] = m[i - 1] + 1 /\ gs[i] = fs[i]
      BY <1>4, <1>8, <2>2, <3>1
    <3>3. m[i] = m[i - 1] + Ahead(fs[i]) /\ m[i - 1] \in Nat /\ m[i] \in Nat
      BY <1>3, <1>8, <3>1
    <3>4. fs[i] \in Visit
      <4>1. i \in 1..Len(fs)
        BY <1>1, <2>2
      <4> QED
        BY <4>1
    <3>5. Ahead(fs[i]) \in Int
      BY <3>4, AheadIsInt
    <3> QED
      BY <3>2, <3>3, <3>5
  <2> QED
    BY <1>1, <2>1, <2>2
<1>13. Remaining(k, gs, pending + 1, all)
  BY <1>4, <1>7, <1>11, <1>12 DEF Remaining
<1> QED
  BY <1>2, <1>13

LEMMA CountLeft ==
  ASSUME NEW fs \in Seq(Visit), fs # << >>, NEW f \in Visit, f = TopOf(fs),
         f.operand = Arity(f.kind),
         NEW pending \in Nat, NEW all \in Nat, NEW m, Remaining(m, fs, pending, all)
  PROVE  \E k : Remaining(k, BelowOf(fs), pending, all)
<1> DEFINE n == Len(fs) - 1
<1> DEFINE below == SubSeq(fs, 1, n)
<1>1. /\ n \in Nat /\ n + 1 = Len(fs) /\ below \in Seq(Visit) /\ Len(below) = n
      /\ \A i \in 1..n : below[i] = fs[i]
  BY StackFacts
<1>2. below = BelowOf(fs) /\ f = fs[n + 1]
  BY <1>1 DEF BelowOf, TopOf
<1>3. /\ m \in [0..n + 1 -> {k \in Nat : k >= pending}] /\ m[0] = pending /\ m[n + 1] = all
      /\ \A i \in 1..n + 1 : m[i] = m[i - 1] + Ahead(fs[i])
  BY <1>1 DEF Remaining
<1> HIDE DEF n, below
<1>4. Ahead(f) = 0
  <2>1. Arity(f.kind) \in Nat
    BY ArityFacts
  <2> QED
    BY <2>1 DEF Ahead
<1> DEFINE k == [i \in 0..n |-> m[i]]
<1>5. n + 1 \in 1..n + 1 /\ 0 \in 0..n /\ n \in 0..n /\ n + 1 - 1 = n /\ \A i \in 0..n : i \in 0..n + 1
  BY <1>1
<1>6. m[n] = all
  <2>1. m[n + 1] = m[n] + Ahead(f) /\ m[n] \in Nat
    BY <1>2, <1>3, <1>5
  <2> QED
    BY <1>3, <1>4, <2>1
<1>7. k[0] = pending /\ k[n] = all /\ \A i \in 0..n : k[i] = m[i]
  BY <1>3, <1>5, <1>6
<1>8. k \in [0..n -> {j \in Nat : j >= pending}]
  BY <1>3, <1>5
<1> HIDE DEF k
<1>9. \A i \in 1..n : k[i] = k[i - 1] + Ahead(below[i])
  <2> TAKE i \in 1..n
  <2>1. i \in 0..n /\ i - 1 \in 0..n /\ i \in 1..n + 1
    BY <1>1
  <2> QED
    BY <1>1, <1>3, <1>7, <2>1
<1>10. Remaining(k, below, pending, all)
  BY <1>1, <1>7, <1>8, <1>9 DEF Remaining
<1> QED
  BY <1>2, <1>10

LEMMA PendingIsNat ==
  ASSUME Structure
  PROVE  Pending \in Nat
<1>1. calls \in Nat
  BY StructureFacts
<1> QED
  BY <1>1 DEF Pending

LEMMA CountSame ==
  ASSUME LeavesAreCounted, frames' = frames, leaves' = leaves, Pending' = Pending
  PROVE  LeavesAreCounted'
BY DEF LeavesAreCounted

LEMMA EnterCounts ==
  ASSUME Structure, LeavesAreCounted, NEW g \in Visit, g.operand = 1, Enter(g)
  PROVE  LeavesAreCounted'
<1>1. frames \in Seq(Visit) /\ Pending \in Nat /\ leaves \in Nat
  BY StructureFacts, PendingIsNat DEF LeavesAreCounted
<1>2. PICK m : Remaining(m, frames, Pending, leaves)
  BY DEF LeavesAreCounted
<1>3. \E k : Remaining(k, Append(frames, g), Pending, leaves + Arity(g.kind) - 1)
  BY ONLY <1>1, <1>2, g \in Visit, g.operand = 1, CountPushed
<1>4. /\ leaves' = leaves + Arity(g.kind) - 1 /\ leaves' <= MaxCalls
      /\ frames' = Append(frames, g) /\ Pending' = Pending
  BY DEF Enter, Pending
<1>5. leaves' \in 1..MaxCalls
  <2>1. Arity(g.kind) \in {2, 3} /\ leaves \in 1..MaxCalls
    BY ArityFacts DEF LeavesAreCounted
  <2> QED
    BY <1>4, <2>1, MaxCallsIsNat
<1> QED
  BY <1>3, <1>4, <1>5 DEF LeavesAreCounted

LEMMA NextOperandCounts ==
  ASSUME Structure, LeavesAreCounted, pc = "return", frames # << >>, NEW f \in Visit,
         f.kind = Top.kind, f.operand = Top.operand, f.operand < Arity(f.kind), NextOperand(f)
  PROVE  LeavesAreCounted'
<1> DEFINE g == [f EXCEPT !.operand = @ + 1]
<1>1. frames \in Seq(Visit) /\ calls \in Nat /\ leaves \in Nat
  BY StructureFacts DEF LeavesAreCounted
<1>2. Top \in Visit /\ Top = TopOf(frames) /\ Below = BelowOf(frames)
  BY TopFacts
<1>3. f.operand < 3 /\ f.operand + 1 <= Arity(f.kind)
  <2>1. f.operand \in Nat
    BY DEF Visit
  <2>2. Arity(f.kind) \in {2, 3}
    BY ArityFacts
  <2> QED
    BY <2>1, <2>2
<1>4. /\ frames' = Append(BelowOf(frames), g) /\ calls' = calls /\ leaves' = leaves /\ pc' = "visit"
  BY <1>2 DEF NextOperand
<1>5. g \in Visit /\ g.kind = Top.kind /\ g.operand = Top.operand + 1 /\ g.operand <= Arity(g.kind)
  <2>1. g \in Visit /\ g.kind = f.kind /\ g.operand = f.operand + 1
    BY <1>3, OperandFacts
  <2> QED
    BY <1>3, <2>1
<1> HIDE DEF g
<1>6. PICK m : Remaining(m, frames, calls, leaves)
  <2>1. Pending = calls
    BY <1>1 DEF Pending
  <2> QED
    BY <2>1 DEF LeavesAreCounted
<1>7. \E k : Remaining(k, Append(BelowOf(frames), g), calls + 1, leaves)
  BY ONLY <1>1, <1>2, <1>5, <1>6, frames # << >>, CountNext
<1>8. Pending' = calls + 1
  BY <1>4 DEF Pending
<1> QED
  BY <1>4, <1>7, <1>8 DEF LeavesAreCounted

LEMMA LeaveCounts ==
  ASSUME Structure, LeavesAreCounted, frames # << >>, Top.operand = Arity(Top.kind),
         NEW v, Leave(v)
  PROVE  LeavesAreCounted'
<1>1. frames \in Seq(Visit) /\ Pending \in Nat /\ leaves \in Nat
  BY StructureFacts, PendingIsNat DEF LeavesAreCounted
<1>2. Top \in Visit /\ Top = TopOf(frames) /\ Below = BelowOf(frames)
  BY TopFacts
<1>3. PICK m : Remaining(m, frames, Pending, leaves)
  BY DEF LeavesAreCounted
<1>4. \E k : Remaining(k, BelowOf(frames), Pending, leaves)
  BY ONLY <1>1, <1>2, <1>3, frames # << >>, Top.operand = Arity(Top.kind), CountLeft
<1>5. frames' = BelowOf(frames) /\ leaves' = leaves /\ Pending' = Pending
  BY <1>2 DEF Leave, Pending
<1> QED
  BY <1>4, <1>5 DEF LeavesAreCounted

LEMMA FrameFacts ==
  ASSUME NEW kind \in BinaryOps \cup Merging, NEW l \in Nat, NEW r \in Nat, NEW a \in Nat
  PROVE  Frame(kind, l, r, a) \in Visit /\ Frame(kind, l, r, a).operand = 1
BY DEF Frame, Visit, Value, NoValue

LEMMA LeavesKeep == Structure /\ LeavesAreCounted /\ [Next]_vars => LeavesAreCounted'
<1> SUFFICES ASSUME Structure, LeavesAreCounted, [Next]_vars PROVE LeavesAreCounted'
  OBVIOUS
<1>1. /\ Len(code) \in Nat /\ cur \in Nat /\ currentValue \in Value /\ calls \in Nat
      /\ frames # << >> => Top \in Visit
  <2>1. cur \in 1..Len(code) /\ Len(code) \in Nat /\ currentValue \in Value /\ calls \in Nat
    BY StructureFacts
  <2> QED
    BY <2>1, TopFacts
<1>2. CASE VisitCall
  BY <1>1, <1>2, CountSame DEF VisitCall, Pending
<1>3. ASSUME NEW op \in BinaryOps, EnterBinary(op) PROVE LeavesAreCounted'
  <2>1. Enter(Frame(op, NoBlock, NoBlock, NoBlock))
    BY <1>3 DEF EnterBinary
  <2>2. NoBlock \in Nat
    BY DEF NoBlock
  <2> QED
    BY <2>1, <2>2, FrameFacts, EnterCounts
<1>4. CASE BinaryLhs
  <2> DEFINE f == [Top EXCEPT !.lhs = currentValue]
  <2>1. frames # << >> /\ Top.kind \in BinaryOps /\ Top.operand = 1 /\ NextOperand(f) /\ pc = "return"
    BY <1>4 DEF BinaryLhs, Returns
  <2>2. f \in Visit /\ f.kind = Top.kind /\ f.operand = Top.operand
    BY <1>1, <2>1, StoreFacts
  <2>3. f.operand < Arity(f.kind)
    BY <2>1, <2>2, ArityFacts
  <2> HIDE DEF f
  <2> QED
    BY <2>1, <2>2, <2>3, NextOperandCounts
<1>5. CASE BinaryRhs
  <2>1. frames # << >> /\ Top.kind \in BinaryOps /\ Top.operand = 2 /\ \E v : Leave(v)
    BY <1>5 DEF BinaryRhs, Returns
  <2>2. Arity(Top.kind) = 2
    BY <2>1, BinaryOpsAreKnown DEF Arity, Ternary
  <2> QED
    BY <2>1, <2>2, LeaveCounts
<1>6. ASSUME NEW op \in Logical, EnterLogical(op) PROVE LeavesAreCounted'
  <2>1. Enter(Frame(op, cur, Len(code) + 1, Len(code) + 2))
    BY <1>6 DEF EnterLogical
  <2>2. Len(code) + 1 \in Nat /\ Len(code) + 2 \in Nat /\ op \in BinaryOps \cup Merging
    BY <1>1 DEF Merging
  <2> QED
    BY <1>1, <2>1, <2>2, FrameFacts, EnterCounts
<1>7. CASE LogicalLhs
  <2> DEFINE f == [Top EXCEPT !.lhs = isNotZero(currentValue).v, !.lhsBB = cur]
  <2>1. frames # << >> /\ Top.kind \in Logical /\ Top.operand = 1 /\ NextOperand(f) /\ pc = "return"
    BY <1>7 DEF LogicalLhs, Returns
  <2>2. isNotZero(currentValue).v \in Value
    BY <1>1, ConversionFacts DEF Structure
  <2>3. f \in Visit /\ f.kind = Top.kind /\ f.operand = Top.operand
    <3>1. Top \in Visit /\ cur \in Nat
      BY <1>1, <2>1
    <3>2. PICK v \in Value : f = [Top EXCEPT !.lhs = v, !.lhsBB = cur]
      BY <2>2
    <3> HIDE DEF f
    <3>3. f \in Visit
      BY <3>1, <3>2 DEF Visit
    <3> QED
      BY <3>1, <3>2, <3>3 DEF Visit
  <2>4. f.operand < Arity(f.kind)
    BY <2>1, <2>3, ArityFacts
  <2> HIDE DEF f
  <2> QED
    BY <2>1, <2>3, <2>4, NextOperandCounts
<1>8. CASE LogicalRhs
  <2>1. frames # << >> /\ Top.kind \in Logical /\ Top.operand = 2 /\ \E v : Leave(v)
    BY <1>8 DEF LogicalRhs, Returns
  <2>2. Arity(Top.kind) = 2
    BY <2>1 DEF Arity, Ternary, Logical
  <2> QED
    BY <2>1, <2>2, LeaveCounts
<1>9. ASSUME NEW kind \in Ternary, EnterTernary(kind) PROVE LeavesAreCounted'
  <2>1. Enter(Frame(kind, Len(code) + 1, Len(code) + 2, Len(code) + 3))
    BY <1>9 DEF EnterTernary
  <2>2. /\ Len(code) + 1 \in Nat /\ Len(code) + 2 \in Nat /\ Len(code) + 3 \in Nat
        /\ kind \in BinaryOps \cup Merging
    BY <1>1 DEF Merging
  <2> QED
    BY <1>1, <2>1, <2>2, FrameFacts, EnterCounts
<1>10. CASE TernaryCond
  <2>1. frames # << >> /\ Top.kind \in Ternary /\ Top.operand = 1 /\ NextOperand(Top) /\ pc = "return"
    BY <1>10 DEF TernaryCond, Returns
  <2>2. Top.operand < Arity(Top.kind)
    BY <2>1, ArityFacts
  <2> QED
    BY <1>1, <2>1, <2>2, NextOperandCounts
<1>11. CASE TernaryLhs
  <2> DEFINE f == [Top EXCEPT !.lhs = Branch.v, !.lhsBB = cur]
  <2>1. frames # << >> /\ Top.kind \in Ternary /\ Top.operand = 2 /\ NextOperand(f) /\ pc = "return"
    BY <1>11 DEF TernaryLhs, Returns
  <2>2. Branch.v \in Value
    BY BranchConverts
  <2>3. f \in Visit /\ f.kind = Top.kind /\ f.operand = Top.operand
    <3>1. Top \in Visit /\ cur \in Nat
      BY <1>1, <2>1
    <3>2. PICK v \in Value : f = [Top EXCEPT !.lhs = v, !.lhsBB = cur]
      BY <2>2
    <3> HIDE DEF f
    <3>3. f \in Visit
      BY <3>1, <3>2 DEF Visit
    <3> QED
      BY <3>1, <3>2, <3>3 DEF Visit
  <2>4. f.operand < Arity(f.kind)
    BY <2>1, <2>3 DEF Arity
  <2> HIDE DEF f
  <2> QED
    BY <2>1, <2>3, <2>4, NextOperandCounts
<1>12. CASE TernaryRhs
  <2>1. frames # << >> /\ Top.kind \in Ternary /\ Top.operand = 3 /\ \E v : Leave(v)
    BY <1>12 DEF TernaryRhs, Returns
  <2>2. Arity(Top.kind) = 3
    BY <2>1 DEF Arity
  <2> QED
    BY <2>1, <2>2, LeaveCounts
<1>13. CASE Finish
  BY <1>1, <1>13, CountSame DEF Finish, Pending
<1>14. CASE UNCHANGED vars
  BY <1>14, CountSame DEF vars, Pending
<1> QED
  BY <1>2, <1>3, <1>4, <1>5, <1>6, <1>7, <1>8, <1>9, <1>10, <1>11, <1>12, <1>13, <1>14
     DEF Next, Stopped

-----------------------------------------------------------------------------
(***************************************************************************)
(* The invariant that the theorems rest on.  (Init is the body of a        *)
(* function that is about to return an expression; Next, the visits of its *)
(* operators and calls in CodeGenModule, in any order they can be nested.) *)
(***************************************************************************)
THEOREM Invariance == Spec => []IInv
<1>1. Init => IInv
  <2> SUFFICES ASSUME Init PROVE IInv
    OBVIOUS
  <2>1. frames = << >> /\ Pending = 1 /\ leaves = 1
    BY DEF Init, Pending
  <2>2. leaves \in 1..MaxCalls
    BY <2>1, MaxCallsIsNat
  <2> DEFINE m == [i \in {0} |-> 1]
  <2>3. Len(frames) = 0 /\ 0..0 = {0} /\ 1..0 = {}
    BY <2>1
  <2>4. m \in [{0} -> {k \in Nat : k >= 1}] /\ m[0] = 1
    OBVIOUS
  <2>5. Remaining(m, frames, Pending, leaves)
    BY <2>1, <2>3, <2>4 DEF Remaining
  <2> QED
    BY <2>2, <2>5, InitStructure DEF IInv, LeavesAreCounted
<1>2. IInv /\ [Next]_vars => IInv'
  BY NextKeeps, LeavesKeep DEF IInv
<1> QED
  BY <1>1, <1>2, PTL DEF Spec

LEMMA TypesFollow == IInv => TypeOK
<1> SUFFICES ASSUME IInv PROVE TypeOK
  OBVIOUS
<1>1. /\ cur \in 1..Len(code) /\ Len(code) \in Nat /\ inserted \subseteq Blocks /\ cur \in inserted
      /\ isVoid \in BOOLEAN /\ pc \in {"visit", "return", "done"} /\ frames \in Seq(Visit)
  BY StructureFacts DEF IInv, Structure, Typed
<1>2. Len(code) >= 1
  BY <1>1
<1>3. leaves \in 1..MaxCalls /\ calls <= leaves
  <2>1. PICK m : Remaining(m, frames, Pending, leaves)
    BY DEF IInv, LeavesAreCounted
  <2>2. Len(frames) \in 0..Len(frames)
    BY <1>1
  <2>3. m[Len(frames)] \in {k \in Nat : k >= Pending} /\ m[Len(frames)] = leaves
    BY <2>1, <2>2 DEF Remaining
  <2>4. calls \in Nat
    BY DEF IInv, Structure, Typed
  <2>5. calls <= Pending /\ Pending \in Nat
    BY <2>4 DEF Pending
  <2> QED
    BY <2>3, <2>4, <2>5 DEF IInv, LeavesAreCounted
<1>4. \A i \in DOMAIN frames : frames[i].operand \in 1..Arity(frames[i].kind)
  <2> TAKE i \in DOMAIN frames
  <2>1. frames[i] \in Visit /\ frames[i].operand <= Arity(frames[i].kind)
    <3>1. frames[i] \in Visit
      BY <1>1
    <3>2. Holding(frames, code, cur, inserted)
      BY StructureFacts DEF IInv
    <3> QED
      BY <3>1, <3>2 DEF Holding, VisitOK
  <2>2. PICK f \in Visit : f = frames[i]
    BY <2>1
  <2>3. f.operand \in 1..3 /\ f.operand <= Arity(f.kind)
    BY <2>1, <2>2 DEF Visit
  <2>4. Arity(f.kind) \in {2, 3}
    BY ArityFacts
  <2>5. f.operand \in 1..Arity(f.kind)
    BY <2>3, <2>4
  <2> QED
    BY <2>2, <2>5
<1> QED
  BY <1>1, <1>2, <1>3, <1>4 DEF TypeOK

(***************************************************************************)
(* The builder always has an insertion point, in a block of the function;  *)
(* no visit goes on with an operand that it does not have, and no call is  *)
(* visited that the expression has not.  (CodeGenModule's visits)          *)
(***************************************************************************)
THEOREM TypeCorrect == Spec => []TypeOK
BY Invariance, TypesFollow, PTL

(***************************************************************************)
(* Every phi names the blocks that branch to it, each once, however many   *)
(* blocks its operands are made of.  (visitLogicalOp and TernaryOp, which  *)
(* take the insertion point again after each operand)                      *)
(***************************************************************************)
THEOREM PhisAreRight == Spec => []PhisNamePredecessors
<1>1. IInv => PhisNamePredecessors
  BY DEF IInv, Structure
<1> QED
  BY <1>1, Invariance, PTL

(***************************************************************************)
(* An expression leaves nothing behind: all blocks that its visits created *)
(* are then in the function, and each ends in the one terminator it has.   *)
(* (the blocks "rhs", "lhs" and "after" of visitLogicalOp and TernaryOp)   *)
(***************************************************************************)
THEOREM ExpressionsAreClosed == Spec => []ExpressionIsClosed
<1>1. IInv => ExpressionIsClosed
  <2> SUFFICES ASSUME IInv, pc = "done"
               PROVE  inserted = Blocks /\ \A b \in Blocks : Closed(code[b])
    BY DEF ExpressionIsClosed
  <2>1. frames = << >> /\ inserted \subseteq Blocks
    BY DEF IInv, Structure, Typed
  <2>2. HeldBy(frames) = {}
    BY <2>1 DEF HeldBy
  <2>3. \A b \in Blocks : b \in inserted /\ (b = cur \/ Closed(code[b]))
    BY <2>2 DEF IInv, Structure, BlocksAreClosed, ClosedBut, Blocks
  <2>4. Closed(code[cur])
    BY DEF IInv, Structure, BlocksAreClosed
  <2> QED
    BY <2>1, <2>3, <2>4
<1> QED
  BY <1>1, Invariance, PTL
=============================================================================
