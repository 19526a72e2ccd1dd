------------------------- MODULE ControlFlowProofs -------------------------
(***************************************************************************)
(* Theorems about ControlFlow and FlowCheck, for every value of their      *)
(* constants.                                                              *)
(*                                                                         *)
(* First, that every function is closed.  The inductive invariant says     *)
(* which blocks every open visit method still owes the function.           *)
(*                                                                         *)
(* Then, that breakStack_, continueStack_ and currentSwitch_ are those of  *)
(* the statements that are open, however they nest: what break, continue   *)
(* and the labels of a switch find is what C99 6.8.6 and 6.8.1 mean by the *)
(* innermost statement.  And, from that, that what BlockItemList leaves    *)
(* out is never executed in C.                                             *)
(***************************************************************************)
EXTENDS FlowCheck, FiniteSetTheorems, SequenceTheorems, TLAPS

(* The blocks the open visit of f has created and may still insert ...     *)
Kept(f) ==
  (IF f.kind \in {"do", "for", "then"} THEN {f.next} ELSE {})
    \cup (IF f.kind \in {"list", "case"} THEN {} ELSE {f.exit})

(* ... and those that it will insert whatever comes, so that a branch may  *)
(* already lead there.  The merge block of an if with an else is owed only *)
(* once the first branch has fallen through.                               *)
Owed(f) ==
  (IF f.kind \in {"do", "for", "then"} THEN {f.next} ELSE {})
    \cup (IF f.kind \in {"list", "case", "then"} \/ (f.kind = "else" /\ ~f.flag)
            THEN {} ELSE {f.exit})

Homes == inserted \cup UNION {Owed(frames[i]) : i \in 1..Len(frames)}

(* Every branch in the code c leads into the set of blocks H.              *)
TargetsIn(c, H) ==
  \A b \in Block : \A k \in 1..Len(c[b]) :
    /\ c[b][k].t # NoBlock => c[b][k].t \in H
    /\ c[b][k].f # NoBlock => c[b][k].f \in H

(* Every label of every switch is in H.                                    *)
LabelsIn(c, d, H) ==
  \A s \in SwitchId : c[s] \subseteq H /\ (d[s] # NoBlock => d[s] \in H)

(* How many statements of some kinds are open.                             *)
Height(fs, kinds) == Cardinality({i \in 1..Len(fs) : fs[i].kind \in kinds})

(* The shape of the call stack: it is empty between functions, its bottom  *)
(* is the body of the function, and only its top waits for a child.        *)
StackShape ==
  /\ phase = "global" => frames = << >>
  /\ phase = "body" => /\ frames # << >>
                       /\ frames[1].kind = "list"
                       /\ cur \in inserted
  /\ \A i \in 1..Len(frames) :
       i < Len(frames) => frames[i].kind = "list" \/ frames[i].done

(* Blocks that were never inserted are empty.                              *)
FreshAreEmpty == \A b \in Block : b \notin inserted => code[b] = << >>

(* The kept blocks are still to be inserted, no two visits keep the same   *)
(* one, and the blocks that a visit branches back to are inserted.         *)
FrameBlocks(f, m, ins) ==
  /\ Kept(f) \subseteq (1..m) \ ins
  /\ f.kind \in {"do", "for", "then"} => f.next # f.exit
  /\ f.kind \in {"do", "for", "case"} => f.head \in ins
  /\ f.kind = "while" => f.next \in ins

KeptBlocks ==
  /\ \A i \in 1..Len(frames) : FrameBlocks(frames[i], made, inserted)
  /\ \A i, j \in 1..Len(frames) :
       i # j => Kept(frames[i]) \cap Kept(frames[j]) = {}

(* Everything that can be branched to has a home in the function.          *)
TargetsHaveHomes ==
  /\ TargetsIn(code, Homes)
  /\ \A k \in 1..Len(breakStack) : breakStack[k] \in Homes
  /\ \A k \in 1..Len(continueStack) : continueStack[k] \in Homes
  /\ LabelsIn(cases, dflt, Homes)

(* Only the insertion point of an open function may lack its terminator.   *)
BlocksClosed ==
  \A b \in inserted : b # cur \/ phase = "global" => Terminated(b)

(* The stacks are as high as the loops and switches are deep, so that they *)
(* are empty between functions.                                            *)
StackHeights ==
  /\ Len(breakStack) = Height(frames, Breakable)
  /\ Len(continueStack) = Height(frames, Loops)

(* A child statement starts in an open block, unless a switch is open.     *)
StartsOpen ==
  phase = "body" /\ currentSwitch = NoSwitch
    /\ Top.kind # "list" /\ ~Top.done => ~Terminated(cur)

IInv ==
  /\ TypeOK
  /\ StackShape
  /\ FreshAreEmpty
  /\ KeptBlocks
  /\ TargetsHaveHomes
  /\ BlocksClosed
  /\ StackHeights
  /\ StartsOpen

-----------------------------------------------------------------------------
(* Lemmas about the helpers                                                *)

(* What appending an instruction to block b does.                          *)
LEMMA EmitFacts ==
  ASSUME NEW c \in [Block -> Seq(Instrs)], NEW b \in Block, NEW i \in Instrs
  PROVE  LET d == Emit(c, b, i)
         IN  /\ d \in [Block -> Seq(Instrs)]
             /\ \A x \in Block : x # b => d[x] = c[x]
             /\ d[b] # << >>
             /\ EndsInTerminator(d[b]) <=> IsTerminator(i)
             /\ WellFormed(c[b]) /\ ~EndsInTerminator(c[b]) => WellFormed(d[b])
<1>1. c[b] \in Seq(Instrs)
  OBVIOUS
<1>2. /\ Append(c[b], i) \in Seq(Instrs)
      /\ Append(c[b], i) # << >>
      /\ Len(Append(c[b], i)) = Len(c[b]) + 1
      /\ \A k \in 1..Len(c[b]) : Append(c[b], i)[k] = c[b][k]
      /\ Append(c[b], i)[Len(c[b]) + 1] = i
  BY <1>1, AppendProperties
<1>3. Emit(c, b, i) \in [Block -> Seq(Instrs)]
  BY <1>2 DEF Emit
<1>4. Emit(c, b, i)[b] = Append(c[b], i)
  BY DEF Emit
<1>5. \A x \in Block : x # b => Emit(c, b, i)[x] = c[x]
  BY DEF Emit
<1>6. EndsInTerminator(Append(c[b], i)) <=> IsTerminator(i)
  BY <1>2 DEF EndsInTerminator
<1>7. ASSUME WellFormed(c[b]), ~EndsInTerminator(c[b])
      PROVE  WellFormed(Append(c[b], i))
  <2>1. Len(c[b]) \in Nat /\ (c[b] = << >> => Len(c[b]) = 0)
    BY <1>1, LenProperties, EmptySeq
  <2>2. SUFFICES ASSUME NEW k \in 1..(Len(c[b]) + 1),
                        IsTerminator(Append(c[b], i)[k]), k # Len(c[b]) + 1
                 PROVE  FALSE
    BY <1>2 DEF WellFormed
  <2>3. k \in 1..Len(c[b]) /\ IsTerminator(c[b][k])
    BY <1>2, <2>1, <2>2
  <2>4. k = Len(c[b])
    BY <1>7, <2>3 DEF WellFormed
  <2>5. c[b] # << >>
    BY <2>1, <2>3
  <2> QED
    BY <1>7, <2>3, <2>4, <2>5 DEF EndsInTerminator
<1> QED
  BY <1>2, <1>3, <1>4, <1>5, <1>6, <1>7

(* Branches that lead into H still do, if the new instruction's do.        *)
LEMMA EmitTargets ==
  ASSUME NEW c \in [Block -> Seq(Instrs)], NEW b \in Block, NEW i \in Instrs,
         NEW H, TargetsIn(c, H),
         i.t # NoBlock => i.t \in H,
         i.f # NoBlock => i.f \in H
  PROVE  TargetsIn(Emit(c, b, i), H)
<1>1. c[b] \in Seq(Instrs)
  OBVIOUS
<1>2. /\ Len(Append(c[b], i)) = Len(c[b]) + 1
      /\ \A k \in 1..Len(c[b]) : Append(c[b], i)[k] = c[b][k]
      /\ Append(c[b], i)[Len(c[b]) + 1] = i
      /\ Len(c[b]) \in Nat
  BY <1>1, AppendProperties, LenProperties
<1>3. \A k \in 1..(Len(c[b]) + 1) :
        k \in 1..Len(c[b]) \/ k = Len(c[b]) + 1
  BY <1>2
<1>4. \A x \in Block :
        Emit(c, b, i)[x] = IF x = b THEN Append(c[b], i) ELSE c[x]
  BY DEF Emit
<1> QED
  BY ZenonT(40), <1>2, <1>3, <1>4 DEF TargetsIn

(* What the constructors build.                                            *)
LEMMA EvalFacts ==
  ASSUME NEW id \in Nat, NEW part \in {"", "expr", "init", "test", "step"}
  PROVE  LET i == Eval(id, part)
         IN  /\ i \in Instrs /\ ~IsTerminator(i)
             /\ i.t = NoBlock /\ i.f = NoBlock
BY DEF Eval, Instr, Instrs, IsTerminator

LEMMA BrFacts ==
  ASSUME NEW t \in Block
  PROVE  LET i == Br(t)
         IN  /\ i \in Instrs /\ IsTerminator(i)
             /\ i.t = t /\ i.f = NoBlock
BY DEF Br, Instr, Instrs, IsTerminator

LEMMA CondBrFacts ==
  ASSUME NEW id \in Nat, NEW t \in Block, NEW f \in Block
  PROVE  LET i == CondBr(id, t, f)
         IN  /\ i \in Instrs /\ IsTerminator(i)
             /\ i.t = t /\ i.f = f
BY DEF CondBr, Instr, Instrs, IsTerminator

LEMMA SwitchInstFacts ==
  ASSUME NEW id \in Nat
  PROVE  LET i == SwitchInst(id)
         IN  /\ i \in Instrs /\ IsTerminator(i)
             /\ i.t = NoBlock /\ i.f = NoBlock
BY DEF SwitchInst, Instr, Instrs, IsTerminator

LEMMA RetFacts ==
  /\ Ret \in Instrs /\ IsTerminator(Ret)
  /\ Ret.t = NoBlock /\ Ret.f = NoBlock
BY DEF Ret, Instr, Instrs, IsTerminator

(* Marking the top frame leaves the stack a stack, of the same height,     *)
(* with the same frames below the top.                                     *)
LEMMA AskedFacts ==
  ASSUME frames \in Seq(Frames), frames # << >>
  PROVE  /\ Asked \in Seq(Frames)
         /\ Len(Asked) = Len(frames)
         /\ \A i \in 1..Len(frames) :
              Asked[i] = IF i = Len(frames)
                           THEN [frames[i] EXCEPT !.done = TRUE]
                           ELSE frames[i]
<1> DEFINE top == [frames[Len(frames)] EXCEPT !.done = TRUE]
<1>1. Len(frames) \in Nat \ {0}
  BY EmptySeq
<1>2. frames[Len(frames)] \in Frames
  BY <1>1, ElementOfSeq
<1>3. top \in Frames
  BY <1>2 DEF Frames
<1>4. Asked = [frames EXCEPT ![Len(frames)] = top]
  BY DEF Asked
<1> HIDE DEF top
<1>5. /\ Asked \in Seq(Frames)
      /\ Len(Asked) = Len(frames)
      /\ \A i \in 1..Len(frames) :
           Asked[i] = IF i = Len(frames) THEN top ELSE frames[i]
  BY <1>1, <1>3, <1>4, ExceptSeq
<1> QED
  BY <1>5 DEF top

(* Opening a statement: one more frame on top of the marked ones.          *)
LEMMA OpenFacts ==
  ASSUME frames \in Seq(Frames), frames # << >>, NEW f \in Frames
  PROVE  LET fs == Append(Asked, f)
         IN  /\ fs \in Seq(Frames)
             /\ Len(fs) = Len(frames) + 1
             /\ fs[Len(frames) + 1] = f
             /\ \A i \in 1..Len(frames) :
                  fs[i] = IF i = Len(frames)
                            THEN [frames[i] EXCEPT !.done = TRUE]
                            ELSE frames[i]
BY AskedFacts, AppendProperties, LenProperties

(* Closing a statement: the frames below the top remain.                   *)
LEMMA PopFacts ==
  ASSUME NEW T, NEW s \in Seq(T), s # << >>
  PROVE  /\ Pop(s) \in Seq(T)
         /\ Len(Pop(s)) = Len(s) - 1
         /\ \A i \in 1..(Len(s) - 1) : Pop(s)[i] = s[i]
<1>1. Len(s) \in Nat \ {0}
  BY EmptySeq
<1>2. \A i \in 1..(Len(s) - 1) : s[i] \in T
  BY <1>1, ElementOfSeq
<1> DEFINE k == Len(s) - 1
<1>3. k \in Nat
  BY <1>1
<1> HIDE DEF k
<1>4. /\ SubSeq(s, 1, k) \in Seq(T)
      /\ Len(SubSeq(s, 1, k)) = IF 1 <= k THEN k - 1 + 1 ELSE 0
      /\ \A i \in 1..(k - 1 + 1) : SubSeq(s, 1, k)[i] = s[1 + i - 1]
  <2>1. \A i \in 1..k : s[i] \in T
    BY <1>2 DEF k
  <2> QED
    BY <1>3, <2>1, SubSeqProperties
<1>5. /\ Len(SubSeq(s, 1, k)) = k
      /\ \A i \in 1..k : SubSeq(s, 1, k)[i] = s[i]
  BY <1>3, <1>4
<1> QED
  BY <1>4, <1>5 DEF Pop, k

LEMMA PopType ==
  ASSUME NEW T, NEW s \in Seq(T)
  PROVE  Pop(s) \in Seq(T)
<1>1. CASE s = << >>
  <2>1. Len(s) = 0
    BY <1>1, EmptySeq
  <2> QED
    BY <2>1, SubSeqEmpty, EmptySeq DEF Pop
<1>2. CASE s # << >>
  BY <1>2, PopFacts
<1> QED
  BY <1>1, <1>2

-----------------------------------------------------------------------------
(* What opening, closing and visiting a child do to the call stack.        *)

(* Kept and Owed do not depend on whether the child was visited.           *)
LEMMA DoneFacts ==
  ASSUME NEW f \in Frames
  PROVE  LET g == [f EXCEPT !.done = TRUE]
         IN  /\ g.kind = f.kind /\ g.done
             /\ Kept(g) = Kept(f)
             /\ Owed(g) = Owed(f)
             /\ g.next = f.next /\ g.exit = f.exit /\ g.head = f.head
BY DEF Frames, Kept, Owed

(* The body of an open function is a nonempty stack, and its top a frame.  *)
LEMMA TopFacts ==
  ASSUME TypeOK, StackShape, phase = "body"
  PROVE  /\ frames \in Seq(Frames)
         /\ frames # << >>
         /\ Len(frames) \in Nat \ {0}
         /\ Top \in Frames
         /\ Top = frames[Len(frames)]
         /\ Top.kind # "list" => Len(frames) > 1
         /\ cur \in inserted /\ cur \in Block /\ inserted \subseteq Block
<1>1. frames \in Seq(Frames) /\ frames # << >>
  BY DEF TypeOK, StackShape
<1>2. Len(frames) \in Nat \ {0}
  BY <1>1, EmptySeq
<1>3. Top \in Frames
  BY <1>1, <1>2, ElementOfSeq DEF Top
<1>4. cur \in inserted /\ inserted \subseteq Block
  BY BoundsAreNat DEF StackShape, TypeOK, Block
<1>5. frames[1].kind = "list"
  BY DEF StackShape
<1>6. Top.kind # "list" => Len(frames) > 1
  BY <1>2, <1>5 DEF Top
<1>7. Top = frames[Len(frames)]
  BY DEF Top
<1>8. cur \in Block
  BY <1>4
<1> QED
  BY <1>1, <1>2, <1>3, <1>4, <1>6, <1>7, <1>8

LEMMA OpenFrames ==
  ASSUME TypeOK, StackShape, KeptBlocks, phase = "body", phase' = phase,
         NEW f \in Frames, frames' = Append(Asked, f),
         made' \in Nat, made <= made',
         inserted \subseteq inserted',
         inserted' \subseteq inserted \cup ((made + 1)..made'),
         Kept(f) \subseteq ((made + 1)..made') \ inserted',
         f.kind \in {"do", "for", "then"} => f.next # f.exit,
         f.kind \in {"do", "for", "case"} => f.head \in inserted',
         f.kind = "while" => f.next \in inserted',
         cur' \in inserted'
  PROVE  /\ frames' \in Seq(Frames)
         /\ StackShape'
         /\ KeptBlocks'
         /\ Homes \cup Owed(f) \subseteq Homes'
         /\ Top' = f
<1> DEFINE L == Len(frames)
<1>1. /\ frames \in Seq(Frames) /\ frames # << >>
      /\ L \in Nat \ {0}
  BY TopFacts
<1>2. /\ frames' \in Seq(Frames)
      /\ Len(frames') = L + 1
      /\ frames'[L + 1] = f
      /\ \A i \in 1..L : frames'[i] = IF i = L
                                        THEN [frames[i] EXCEPT !.done = TRUE]
                                        ELSE frames[i]
  BY <1>1, OpenFacts
<1>3. \A i \in 1..L : frames[i] \in Frames
  BY <1>1, ElementOfSeq
<1>4. \A i \in 1..L :
        /\ frames'[i].kind = frames[i].kind
        /\ frames[i].done => frames'[i].done
        /\ Kept(frames'[i]) = Kept(frames[i])
        /\ Owed(frames'[i]) = Owed(frames[i])
        /\ frames'[i].next = frames[i].next
        /\ frames'[i].exit = frames[i].exit
        /\ frames'[i].head = frames[i].head
  <2> SUFFICES ASSUME NEW i \in 1..L
               PROVE  /\ frames'[i].kind = frames[i].kind
                      /\ frames[i].done => frames'[i].done
                      /\ Kept(frames'[i]) = Kept(frames[i])
                      /\ Owed(frames'[i]) = Owed(frames[i])
                      /\ frames'[i].next = frames[i].next
                      /\ frames'[i].exit = frames[i].exit
                      /\ frames'[i].head = frames[i].head
    OBVIOUS
  <2>1. CASE i = L
    <3>1. frames'[i] = [frames[i] EXCEPT !.done = TRUE]
      BY <1>2, <2>1
    <3> QED
      BY <1>3, <3>1, DoneFacts
  <2>2. CASE i # L
    BY <1>2, <2>2
  <2> QED
    BY <2>1, <2>2
<1>5. frames'[L].done
  <2>1. frames'[L] = [frames[L] EXCEPT !.done = TRUE] /\ frames[L] \in Frames
    BY <1>1, <1>2, <1>3
  <2> QED
    BY <2>1, DoneFacts
<1> HIDE DEF L
<1>6. \A i \in 1..(L + 1) : i \in 1..L \/ i = L + 1
  BY <1>1
<1>7. Top' = f
  BY <1>2 DEF Top
<1>8. StackShape'
  <2>1. \A i \in 1..L : i < L => frames[i].kind = "list" \/ frames[i].done
    BY DEF StackShape, L
  <2>2. \A i \in 1..(L + 1) :
          i < L + 1 => frames'[i].kind = "list" \/ frames'[i].done
    <3> SUFFICES ASSUME NEW i \in 1..(L + 1), i < L + 1
                 PROVE  frames'[i].kind = "list" \/ frames'[i].done
      OBVIOUS
    <3>1. CASE i = L
      BY <1>5, <3>1
    <3>2. CASE i # L
      <4>1. i \in 1..L /\ i < L
        BY <1>1, <3>2
      <4> QED
        BY <1>4, <2>1, <4>1
    <3> QED
      BY <3>1, <3>2
  <2>3. frames' # << >> /\ frames'[1].kind = "list"
    <3>1. frames[1].kind = "list" /\ 1 \in 1..L
      BY <1>1 DEF StackShape
    <3>2. Len(frames') # 0
      BY <1>1, <1>2
    <3> QED
      BY <1>2, <1>4, <3>1, <3>2, EmptySeq
  <2> QED
    BY <1>2, <2>2, <2>3 DEF StackShape
<1>9. KeptBlocks'
  <2>1. made \in Nat
    BY BoundsAreNat DEF TypeOK
  <2>2. \A i \in 1..L : FrameBlocks(frames[i], made, inserted)
    BY DEF KeptBlocks, L
  <2>3. \A i \in 1..L : FrameBlocks(frames'[i], made', inserted')
    <3> SUFFICES ASSUME NEW i \in 1..L
                 PROVE  FrameBlocks(frames'[i], made', inserted')
      OBVIOUS
    <3>1. Kept(frames[i]) \subseteq (1..made') \ inserted'
      BY <2>1, <2>2 DEF FrameBlocks
    <3> QED
      BY <1>4, <2>2, <3>1 DEF FrameBlocks
  <2>4. FrameBlocks(f, made', inserted')
    <3>1. Kept(f) \subseteq (1..made') \ inserted'
      BY <2>1
    <3> QED
      BY <3>1 DEF FrameBlocks
  <2>5. \A i \in 1..L : Kept(frames'[i]) \cap Kept(f) = {}
    <3>1. \A i \in 1..L : Kept(frames'[i]) \subseteq 1..made
      BY <1>4, <2>2 DEF FrameBlocks
    <3>2. (1..made) \cap ((made + 1)..made') = {}
      BY <2>1
    <3> QED
      BY <3>1, <3>2
  <2>6. \A i, j \in 1..L : i # j => Kept(frames'[i]) \cap Kept(frames'[j]) = {}
    BY <1>4 DEF KeptBlocks, L
  <2>7. \A i \in 1..(L + 1) : FrameBlocks(frames'[i], made', inserted')
    BY <1>2, <1>6, <2>3, <2>4
  <2>8. \A i, j \in 1..(L + 1) :
          i # j => Kept(frames'[i]) \cap Kept(frames'[j]) = {}
    BY <1>2, <1>6, <2>5, <2>6
  <2> QED
    BY <1>2, <2>7, <2>8 DEF KeptBlocks
<1>10. Homes \cup Owed(f) \subseteq Homes'
  <2>1. L + 1 \in 1..(L + 1) /\ 1..L \subseteq 1..(L + 1)
    BY <1>1
  <2>2. Owed(f) \subseteq Homes'
    BY <1>2, <2>1 DEF Homes
  <2>3. \A i \in 1..L : Owed(frames[i]) \subseteq Homes'
    BY <1>2, <1>4, <2>1 DEF Homes
  <2> QED
    BY <2>2, <2>3 DEF Homes, L
<1> QED
  BY <1>2, <1>7, <1>8, <1>9, <1>10

LEMMA CloseFrames ==
  ASSUME TypeOK, StackShape, KeptBlocks, phase = "body", phase' = phase,
         Len(frames) > 1, frames' = Pop(frames), made' = made,
         inserted \cup Owed(Top) \subseteq inserted',
         inserted' \subseteq inserted \cup Kept(Top),
         cur' \in inserted'
  PROVE  /\ frames' \in Seq(Frames)
         /\ StackShape'
         /\ KeptBlocks'
         /\ Homes \subseteq Homes'
         /\ Top'.kind = "list" \/ Top'.done
<1> DEFINE L == Len(frames)
<1>1. /\ frames \in Seq(Frames) /\ frames # << >>
      /\ L \in Nat /\ L > 1
      /\ Top = frames[L]
  BY TopFacts
<1>2. /\ frames' \in Seq(Frames)
      /\ Len(frames') = L - 1
      /\ \A i \in 1..(L - 1) : frames'[i] = frames[i]
  BY <1>1, PopFacts
<1>3. /\ \A i \in 1..L : i < L => frames[i].kind = "list" \/ frames[i].done
      /\ frames[1].kind = "list"
      /\ \A i \in 1..L : FrameBlocks(frames[i], made, inserted)
      /\ \A i, j \in 1..L : i # j => Kept(frames[i]) \cap Kept(frames[j]) = {}
  BY DEF StackShape, KeptBlocks
<1>4. inserted \subseteq inserted' /\ Owed(Top) \subseteq inserted'
  OBVIOUS
<1> HIDE DEF L
<1>5. /\ \A i \in 1..(L - 1) : i \in 1..L /\ i < L
      /\ L - 1 \in 1..(L - 1) /\ 1 \in 1..(L - 1) /\ L \in 1..L
      /\ \A i \in 1..L : i \in 1..(L - 1) \/ i = L
  BY <1>1
<1>6. StackShape'
  <2>1. frames' # << >>
    BY <1>1, <1>2, EmptySeq
  <2> QED
    BY <1>2, <1>3, <1>5, <2>1 DEF StackShape
<1>7. KeptBlocks'
  <2>1. \A i \in 1..(L - 1) : FrameBlocks(frames[i], made, inserted')
    <3> SUFFICES ASSUME NEW i \in 1..(L - 1)
                 PROVE  FrameBlocks(frames[i], made, inserted')
      OBVIOUS
    <3>1. Kept(frames[i]) \cap Kept(frames[L]) = {}
      BY SMTT(30), <1>3, <1>5
    <3>2. FrameBlocks(frames[i], made, inserted)
      BY <1>3, <1>5
    <3>3. Kept(frames[i]) \subseteq (1..made) \ inserted'
      BY <1>1, <3>1, <3>2 DEF FrameBlocks
    <3> QED
      BY <1>4, <3>2, <3>3 DEF FrameBlocks
  <2>2. \A i, j \in 1..(L - 1) :
          i # j => Kept(frames[i]) \cap Kept(frames[j]) = {}
    BY <1>3, <1>5
  <2> QED
    BY <1>2, <2>1, <2>2 DEF KeptBlocks
<1>8. Homes \subseteq Homes'
  <2>1. inserted' \subseteq Homes'
    BY DEF Homes
  <2>2. \A i \in 1..(L - 1) : Owed(frames[i]) \subseteq Homes'
    BY <1>2 DEF Homes
  <2>3. \A i \in 1..L : Owed(frames[i]) \subseteq Homes'
    BY <1>1, <1>4, <1>5, <2>1, <2>2
  <2> QED
    BY <1>4, <2>1, <2>3 DEF Homes, L
<1>9. Top'.kind = "list" \/ Top'.done
  <2>1. Top' = frames[L - 1]
    BY <1>2, <1>5 DEF Top
  <2> QED
    BY <1>3, <1>5, <2>1
<1> QED
  BY <1>2, <1>6, <1>7, <1>8, <1>9

LEMMA LeafFrames ==
  ASSUME TypeOK, StackShape, KeptBlocks, phase = "body", phase' = phase,
         frames' = Asked, made' = made, inserted' = inserted, cur' = cur
  PROVE  /\ frames' \in Seq(Frames)
         /\ StackShape'
         /\ KeptBlocks'
         /\ Homes \subseteq Homes'
         /\ Top'.kind = "list" \/ Top'.done
<1> DEFINE L == Len(frames)
<1>1. /\ frames \in Seq(Frames) /\ frames # << >>
      /\ L \in Nat \ {0}
      /\ \A i \in 1..L : frames[i] \in Frames
      /\ L \in 1..L
  BY TopFacts, ElementOfSeq
<1>2. /\ frames' \in Seq(Frames)
      /\ Len(frames') = L
      /\ \A i \in 1..L : frames'[i] = IF i = L
                                        THEN [frames[i] EXCEPT !.done = TRUE]
                                        ELSE frames[i]
  BY <1>1, AskedFacts
<1>3. \A i \in 1..L :
        /\ frames'[i].kind = frames[i].kind
        /\ frames[i].done => frames'[i].done
        /\ Kept(frames'[i]) = Kept(frames[i])
        /\ Owed(frames'[i]) = Owed(frames[i])
        /\ frames'[i].next = frames[i].next
        /\ frames'[i].exit = frames[i].exit
        /\ frames'[i].head = frames[i].head
  <2> SUFFICES ASSUME NEW i \in 1..L
               PROVE  /\ frames'[i].kind = frames[i].kind
                      /\ frames[i].done => frames'[i].done
                      /\ Kept(frames'[i]) = Kept(frames[i])
                      /\ Owed(frames'[i]) = Owed(frames[i])
                      /\ frames'[i].next = frames[i].next
                      /\ frames'[i].exit = frames[i].exit
                      /\ frames'[i].head = frames[i].head
    OBVIOUS
  <2>1. CASE i = L
    <3>1. frames'[i] = [frames[i] EXCEPT !.done = TRUE]
      BY <1>2, <2>1
    <3> QED
      BY <1>1, <3>1, DoneFacts
  <2>2. CASE i # L
    BY <1>2, <2>2
  <2> QED
    BY <2>1, <2>2
<1>4. Top'.done
  <2>1. frames'[L] = [frames[L] EXCEPT !.done = TRUE] /\ frames[L] \in Frames
    BY <1>1, <1>2
  <2> QED
    BY <1>2, <2>1, DoneFacts DEF Top
<1>5. /\ \A i \in 1..L : i < L => frames[i].kind = "list" \/ frames[i].done
      /\ frames[1].kind = "list"
      /\ \A i \in 1..L : FrameBlocks(frames[i], made, inserted)
      /\ \A i, j \in 1..L : i # j => Kept(frames[i]) \cap Kept(frames[j]) = {}
      /\ cur \in inserted
  BY DEF StackShape, KeptBlocks
<1> HIDE DEF L
<1>6. StackShape'
  <2>1. frames' # << >> /\ 1 \in 1..L
    BY <1>1, <1>2, EmptySeq
  <2> QED
    BY <1>2, <1>3, <1>5, <2>1 DEF StackShape
<1>7. KeptBlocks'
  <2>1. \A i \in 1..L : FrameBlocks(frames'[i], made, inserted)
    BY <1>3, <1>5 DEF FrameBlocks
  <2>2. \A i, j \in 1..L :
          i # j => Kept(frames'[i]) \cap Kept(frames'[j]) = {}
    BY <1>3, <1>5
  <2> QED
    BY <1>2, <2>1, <2>2 DEF KeptBlocks
<1>8. Homes \subseteq Homes'
  <2>1. \A i \in 1..L : Owed(frames[i]) \subseteq Homes'
    BY <1>2, <1>3 DEF Homes
  <2>2. inserted \subseteq Homes'
    BY DEF Homes
  <2> QED
    BY <2>1, <2>2 DEF Homes, L
<1> QED
  BY <1>2, <1>4, <1>6, <1>7, <1>8

(* How the number of open statements of some kinds changes.                *)
LEMMA HeightFacts ==
  ASSUME NEW fs \in Seq(Frames), NEW K
  PROVE  /\ IsFiniteSet({i \in 1..Len(fs) : fs[i].kind \in K})
         /\ Height(fs, K) \in Nat
<1>1. IsFiniteSet(1..Len(fs))
  BY LenProperties, FS_Interval
<1>2. IsFiniteSet({i \in 1..Len(fs) : fs[i].kind \in K})
  BY <1>1, FS_Subset
<1> QED
  BY <1>2, FS_CardinalityType DEF Height

LEMMA HeightSame ==
  ASSUME NEW fs, NEW gs, Len(gs) = Len(fs), NEW K,
         \A i \in 1..Len(fs) : gs[i].kind \in K <=> fs[i].kind \in K
  PROVE  Height(gs, K) = Height(fs, K)
<1>1. {i \in 1..Len(gs) : gs[i].kind \in K}
        = {i \in 1..Len(fs) : fs[i].kind \in K}
  OBVIOUS
<1> QED
  BY <1>1 DEF Height

LEMMA HeightPush ==
  ASSUME NEW fs \in Seq(Frames), NEW gs \in Seq(Frames), NEW K,
         Len(gs) = Len(fs) + 1,
         \A i \in 1..Len(fs) : gs[i].kind = fs[i].kind
  PROVE  Height(gs, K) = Height(fs, K)
                           + IF gs[Len(gs)].kind \in K THEN 1 ELSE 0
<1> DEFINE L == Len(fs)
           A == {i \in 1..L : fs[i].kind \in K}
           B == {i \in 1..(L + 1) : gs[i].kind \in K}
<1>1. L \in Nat
  BY LenProperties
<1>2. IsFiniteSet(A) /\ Cardinality(A) \in Nat
  BY HeightFacts DEF Height
<1>3. Height(fs, K) = Cardinality(A) /\ Height(gs, K) = Cardinality(B)
  BY DEF Height
<1>4. \A i \in 1..L : gs[i].kind = fs[i].kind
  OBVIOUS
<1>5. Len(gs) = L + 1
  OBVIOUS
<1> HIDE DEF L
<1>6. \A i \in 1..(L + 1) : i \in 1..L \/ i = L + 1
  BY <1>1
<1>7. L + 1 \notin 1..L /\ 1..L \subseteq 1..(L + 1) /\ L + 1 \in 1..(L + 1)
  BY <1>1
<1>8. CASE gs[L + 1].kind \in K
  <2>1. B = A \cup {L + 1}
    BY <1>4, <1>6, <1>7, <1>8
  <2>2. L + 1 \notin A
    BY <1>7
  <2> HIDE DEF A, B
  <2>3. Cardinality(B) = Cardinality(A) + 1
    BY <1>2, <2>1, <2>2, FS_AddElement
  <2> QED
    BY <1>3, <1>5, <1>8, <2>3
<1>9. CASE gs[L + 1].kind \notin K
  <2>1. B = A
    BY <1>4, <1>6, <1>7, <1>9
  <2> HIDE DEF A, B
  <2> QED
    BY <1>2, <1>3, <1>5, <1>9, <2>1
<1> QED
  BY <1>8, <1>9

LEMMA OpenHeight ==
  ASSUME frames \in Seq(Frames), frames # << >>, NEW f \in Frames, NEW K
  PROVE  Height(Append(Asked, f), K)
           = Height(frames, K) + IF f.kind \in K THEN 1 ELSE 0
<1> DEFINE gs == Append(Asked, f)
<1>1. /\ gs \in Seq(Frames)
      /\ Len(gs) = Len(frames) + 1
      /\ gs[Len(gs)] = f
      /\ \A i \in 1..Len(frames) :
           gs[i] = IF i = Len(frames) THEN [frames[i] EXCEPT !.done = TRUE]
                                      ELSE frames[i]
  BY OpenFacts
<1>2. \A i \in 1..Len(frames) : frames[i] \in Frames
  BY ElementOfSeq
<1> HIDE DEF gs
<1>3. \A i \in 1..Len(frames) : gs[i].kind = frames[i].kind
  BY <1>1, <1>2 DEF Frames
<1>4. Height(gs, K) = Height(frames, K)
                        + IF gs[Len(gs)].kind \in K THEN 1 ELSE 0
  BY <1>1, <1>3, HeightPush
<1> QED
  BY <1>1, <1>4 DEF gs

LEMMA CloseHeight ==
  ASSUME frames \in Seq(Frames), frames # << >>, NEW K
  PROVE  Height(frames, K) = Height(Pop(frames), K)
                               + IF Top.kind \in K THEN 1 ELSE 0
<1>1. /\ Pop(frames) \in Seq(Frames)
      /\ Len(Pop(frames)) = Len(frames) - 1
      /\ \A i \in 1..(Len(frames) - 1) : Pop(frames)[i] = frames[i]
  BY PopFacts
<1>2. Len(frames) \in Nat
  BY LenProperties
<1>3. Len(frames) = Len(Pop(frames)) + 1
  BY <1>1, <1>2
<1>4. \A i \in 1..Len(Pop(frames)) : frames[i].kind = Pop(frames)[i].kind
  BY <1>1
<1> QED
  BY <1>1, <1>3, <1>4, HeightPush DEF Top

LEMMA AskedHeight ==
  ASSUME frames \in Seq(Frames), frames # << >>, NEW K
  PROVE  Height(Asked, K) = Height(frames, K)
<1>1. \A i \in 1..Len(frames) : frames[i] \in Frames
  BY ElementOfSeq
<1>2. \A i \in 1..Len(frames) : Asked[i].kind = frames[i].kind
  BY <1>1, AskedFacts DEF Frames
<1> QED
  BY <1>2, AskedFacts, HeightSame

-----------------------------------------------------------------------------
(* The invariant, from what the actions of one shape have in common.       *)

(* The code half of the invariant, for any code.                           *)
CodeInv(c, ins, x) ==
  /\ c \in [Block -> Seq(Instrs)]
  /\ \A b \in Block : b \notin ins => c[b] = << >>
  /\ \A b \in ins : b # x => EndsInTerminator(c[b])

(* A step that opens the visit f.                                          *)
Opens(f) ==
  /\ phase = "body" /\ phase' = phase
  /\ f \in Frames
  /\ frames' = Append(Asked, f)
  /\ n' \in Nat
  /\ made' \in made..MaxBlocks
  /\ inserted \subseteq inserted'
  /\ inserted' \subseteq inserted \cup ((made + 1)..made')
  /\ Kept(f) \subseteq ((made + 1)..made') \ inserted'
  /\ f.kind \in {"do", "for", "then"} => f.next # f.exit
  /\ f.kind \in {"do", "for", "case"} => f.head \in inserted'
  /\ f.kind = "while" => f.next \in inserted'
  /\ cur' \in inserted'
  /\ currentSwitch' = NoSwitch /\ f.kind # "list" =>
       ~EndsInTerminator(code'[cur'])

(* A step that closes the visit at the top.                                *)
Closes ==
  /\ phase = "body" /\ phase' = phase
  /\ Len(frames) > 1
  /\ frames' = Pop(frames)
  /\ n' \in Nat
  /\ made' = made
  /\ inserted \cup Owed(Top) \subseteq inserted'
  /\ inserted' \subseteq inserted \cup Kept(Top)
  /\ cur' \in inserted'

LEMMA OpensFacts ==
  ASSUME IInv, NEW f, Opens(f)
  PROVE  /\ frames' \in Seq(Frames)
         /\ StackShape' /\ KeptBlocks'
         /\ Homes \cup Owed(f) \subseteq Homes'
         /\ Top' = f
         /\ made' \in 0..MaxBlocks /\ inserted' \subseteq 1..made'
         /\ cur' \in Block
         /\ \A K : Height(frames', K)
                     = Height(frames, K) + IF f.kind \in K THEN 1 ELSE 0
<1>1. TypeOK /\ StackShape /\ KeptBlocks
  BY DEF IInv
<1>2. frames \in Seq(Frames) /\ frames # << >>
  BY <1>1, TopFacts DEF Opens
<1>3. /\ made \in Nat /\ made' \in Nat /\ made <= made'
      /\ made' \in 0..MaxBlocks /\ inserted' \subseteq 1..made'
      /\ 1..made' \subseteq Block
  BY <1>1, BoundsAreNat DEF Opens, TypeOK, Block
<1>4. /\ frames' \in Seq(Frames)
      /\ StackShape' /\ KeptBlocks'
      /\ Homes \cup Owed(f) \subseteq Homes'
      /\ Top' = f
  BY <1>1, <1>3, OpenFrames DEF Opens
<1>5. cur' \in Block
  BY <1>3 DEF Opens
<1>6. \A K : Height(frames', K)
               = Height(frames, K) + IF f.kind \in K THEN 1 ELSE 0
  BY <1>2, OpenHeight DEF Opens
<1> QED
  BY <1>3, <1>4, <1>5, <1>6

LEMMA ClosesFacts ==
  ASSUME IInv, Closes
  PROVE  /\ frames' \in Seq(Frames)
         /\ StackShape' /\ KeptBlocks'
         /\ Homes \subseteq Homes'
         /\ Top'.kind = "list" \/ Top'.done
         /\ made' \in 0..MaxBlocks /\ inserted' \subseteq 1..made'
         /\ cur' \in Block
         /\ \A K : Height(frames, K)
                     = Height(frames', K) + IF Top.kind \in K THEN 1 ELSE 0
<1>1. TypeOK /\ StackShape /\ KeptBlocks
  BY DEF IInv
<1>2. /\ frames \in Seq(Frames) /\ frames # << >>
      /\ Top = frames[Len(frames)]
      /\ Len(frames) \in 1..Len(frames)
  BY <1>1, TopFacts DEF Closes
<1>3. Kept(Top) \subseteq 1..made
  BY <1>1, <1>2 DEF KeptBlocks, FrameBlocks
<1>4. /\ made' \in 0..MaxBlocks /\ inserted' \subseteq 1..made'
      /\ 1..made' \subseteq Block
  BY <1>1, <1>3, BoundsAreNat DEF Closes, TypeOK, Block
<1>5. /\ frames' \in Seq(Frames)
      /\ StackShape' /\ KeptBlocks'
      /\ Homes \subseteq Homes'
      /\ Top'.kind = "list" \/ Top'.done
  BY <1>1, CloseFrames DEF Closes
<1>6. cur' \in Block
  BY <1>4 DEF Closes
<1>7. \A K : Height(frames, K)
               = Height(frames', K) + IF Top.kind \in K THEN 1 ELSE 0
  BY <1>2, CloseHeight DEF Closes
<1> QED
  BY <1>4, <1>5, <1>6, <1>7

(* Stacks of blocks that have homes.                                       *)
LEMMA PushHomes ==
  ASSUME NEW s \in Seq(Block), NEW b \in Block, NEW H, NEW J, H \subseteq J,
         b \in J, \A k \in 1..Len(s) : s[k] \in H
  PROVE  LET t == Append(s, b)
         IN  /\ t \in Seq(Block)
             /\ Len(t) = Len(s) + 1
             /\ \A k \in 1..Len(t) : t[k] \in J
<1>1. /\ Append(s, b) \in Seq(Block)
      /\ Len(Append(s, b)) = Len(s) + 1
      /\ \A k \in 1..Len(s) : Append(s, b)[k] = s[k]
      /\ Append(s, b)[Len(s) + 1] = b
      /\ Len(s) \in Nat
  BY AppendProperties, LenProperties
<1>2. \A k \in 1..(Len(s) + 1) : k \in 1..Len(s) \/ k = Len(s) + 1
  BY <1>1
<1> QED
  BY <1>1, <1>2

LEMMA PopHomes ==
  ASSUME NEW s \in Seq(Block), NEW H, NEW J, H \subseteq J,
         \A k \in 1..Len(s) : s[k] \in H, Len(s) >= 1
  PROVE  /\ Pop(s) \in Seq(Block)
         /\ Len(s) = Len(Pop(s)) + 1
         /\ \A k \in 1..Len(Pop(s)) : Pop(s)[k] \in J
<1>1. s # << >> /\ Len(s) \in Nat
  BY EmptySeq, LenProperties
<1>2. /\ Pop(s) \in Seq(Block)
      /\ Len(Pop(s)) = Len(s) - 1
      /\ \A k \in 1..(Len(s) - 1) : Pop(s)[k] = s[k]
  BY <1>1, PopFacts
<1> QED
  BY <1>1, <1>2

LEMMA LabelsMono ==
  ASSUME NEW c, NEW d, NEW H, NEW J, H \subseteq J, LabelsIn(c, d, H)
  PROVE  LabelsIn(c, d, J)
BY DEF LabelsIn

LEMMA TargetsMono ==
  ASSUME NEW c, NEW H, NEW J, H \subseteq J, TargetsIn(c, H)
  PROVE  TargetsIn(c, J)
BY DEF TargetsIn

(* Opening a loop.                                                         *)
LEMMA OpenLoopInv ==
  ASSUME IInv, NEW f, Opens(f), f.kind \in Loops,
         PushLoop(f.exit, f.next), UNCHANGED unchangedByLoop,
         CodeInv(code', inserted', cur'), TargetsIn(code', Homes \cup inserted' \cup Owed(f))
  PROVE  IInv'
<1>1. TypeOK /\ TargetsHaveHomes /\ StackHeights
  BY DEF IInv
<1>2. /\ frames' \in Seq(Frames)
      /\ StackShape' /\ KeptBlocks'
      /\ Homes \cup Owed(f) \subseteq Homes'
      /\ Top' = f
      /\ made' \in 0..MaxBlocks /\ inserted' \subseteq 1..made'
      /\ cur' \in Block
      /\ \A K : Height(frames', K)
                  = Height(frames, K) + IF f.kind \in K THEN 1 ELSE 0
  BY OpensFacts
<1>3. UNCHANGED <<phase, currentSwitch, cases, dflt>>
  BY DEF unchangedByLoop
<1>4. f.kind \in {"while", "do", "for"} /\ f.kind \in Breakable
  BY DEF Loops, Breakable
<1>5. f.exit \in Homes' /\ f.next \in Homes'
  <2>1. f.exit \in Owed(f)
    BY <1>4 DEF Owed
  <2>2. f.next \in Owed(f) \cup inserted'
    BY <1>4 DEF Owed, Opens
  <2>3. inserted' \subseteq Homes'
    BY DEF Homes
  <2> QED
    BY <1>2, <2>1, <2>2, <2>3
<1>6. f.exit \in Block /\ f.next \in Block
  <2>1. f.exit \in Kept(f) /\ f.next \in Kept(f) \cup inserted'
    BY <1>4 DEF Kept, Opens
  <2>2. Kept(f) \subseteq 1..made'
    BY <1>1 DEF Opens, TypeOK
  <2>3. 1..made' \subseteq Block
    BY <1>2, BoundsAreNat DEF Block
  <2> QED
    BY <1>2, <2>1, <2>2, <2>3
<1>7. /\ breakStack' \in Seq(Block)
      /\ Len(breakStack') = Len(breakStack) + 1
      /\ \A k \in 1..Len(breakStack') : breakStack'[k] \in Homes'
  BY <1>1, <1>2, <1>5, <1>6, PushHomes DEF TypeOK, TargetsHaveHomes, PushLoop
<1>8. /\ continueStack' \in Seq(Block)
      /\ Len(continueStack') = Len(continueStack) + 1
      /\ \A k \in 1..Len(continueStack') : continueStack'[k] \in Homes'
  BY <1>1, <1>2, <1>5, <1>6, PushHomes DEF TypeOK, TargetsHaveHomes, PushLoop
<1>9. TypeOK'
  BY <1>1, <1>2, <1>3, <1>7, <1>8 DEF TypeOK, CodeInv, Opens
<1>14. TargetsIn(code', Homes')
  <2>1. inserted' \subseteq Homes'
    BY DEF Homes
  <2>2. Homes \cup inserted' \cup Owed(f) \subseteq Homes'
    BY <1>2, <2>1
  <2> QED
    BY <2>2, TargetsMono
<1>10. TargetsHaveHomes'
  BY <1>14, <1>1, <1>2, <1>3, <1>7, <1>8, LabelsMono DEF TargetsHaveHomes
<1>11. StackHeights'
  BY <1>1, <1>2, <1>4, <1>7, <1>8 DEF StackHeights
<1>12. StartsOpen'
  BY <1>2, <1>4 DEF StartsOpen, Opens, Terminated
<1>13. FreshAreEmpty' /\ BlocksClosed'
  BY DEF CodeInv, FreshAreEmpty, BlocksClosed, Terminated, Opens
<1> QED
  BY <1>2, <1>9, <1>10, <1>11, <1>12, <1>13 DEF IInv

(* Opening a statement that is neither a loop nor a switch.                *)
LEMMA OpenPlainInv ==
  ASSUME IInv, NEW f, Opens(f), f.kind \notin Breakable,
         UNCHANGED unchangedByIf,
         CodeInv(code', inserted', cur'), TargetsIn(code', Homes \cup inserted' \cup Owed(f))
  PROVE  IInv'
<1>1. TypeOK /\ TargetsHaveHomes /\ StackHeights
  BY DEF IInv
<1>2. /\ frames' \in Seq(Frames)
      /\ StackShape' /\ KeptBlocks'
      /\ Homes \cup Owed(f) \subseteq Homes'
      /\ Top' = f
      /\ made' \in 0..MaxBlocks /\ inserted' \subseteq 1..made'
      /\ cur' \in Block
      /\ \A K : Height(frames', K)
                  = Height(frames, K) + IF f.kind \in K THEN 1 ELSE 0
  BY OpensFacts
<1>3. UNCHANGED <<phase, breakStack, continueStack, currentSwitch, cases, dflt>>
  BY DEF unchangedByIf
<1>4. f.kind \notin Loops
  BY DEF Breakable
<1>5. Homes \subseteq Homes'
  BY <1>2
<1>6. TypeOK'
  BY <1>1, <1>2, <1>3 DEF TypeOK, CodeInv, Opens
<1>11. TargetsIn(code', Homes')
  <2>1. inserted' \subseteq Homes'
    BY DEF Homes
  <2>2. Homes \cup inserted' \cup Owed(f) \subseteq Homes'
    BY <1>2, <2>1
  <2> QED
    BY <2>2, TargetsMono
<1>7. TargetsHaveHomes'
  BY <1>11, <1>1, <1>3, <1>5, LabelsMono DEF TargetsHaveHomes
<1>8. StackHeights'
  <2>1. /\ Height(frames, Breakable) \in Nat /\ Height(frames, Loops) \in Nat
    BY <1>1, HeightFacts DEF TypeOK
  <2> QED
    BY <1>1, <1>2, <1>3, <1>4, <2>1 DEF StackHeights
<1>9. StartsOpen'
  BY <1>2 DEF StartsOpen, Opens, Terminated
<1>10. FreshAreEmpty' /\ BlocksClosed'
  BY DEF CodeInv, FreshAreEmpty, BlocksClosed, Terminated, Opens
<1> QED
  BY <1>2, <1>6, <1>7, <1>8, <1>9, <1>10 DEF IInv

(* Closing a loop.                                                         *)
LEMMA CloseLoopInv ==
  ASSUME IInv, Closes, Top.kind \in Loops, PopLoop,
         UNCHANGED unchangedByLoop,
         CodeInv(code', inserted', cur'), TargetsIn(code', Homes)
  PROVE  IInv'
<1>1. TypeOK /\ TargetsHaveHomes /\ StackHeights
  BY DEF IInv
<1>2. /\ frames' \in Seq(Frames)
      /\ StackShape' /\ KeptBlocks'
      /\ Homes \subseteq Homes'
      /\ Top'.kind = "list" \/ Top'.done
      /\ made' \in 0..MaxBlocks /\ inserted' \subseteq 1..made'
      /\ cur' \in Block
      /\ \A K : Height(frames, K)
                  = Height(frames', K) + IF Top.kind \in K THEN 1 ELSE 0
  BY ClosesFacts
<1>3. UNCHANGED <<phase, currentSwitch, cases, dflt>>
  BY DEF unchangedByLoop
<1>4. Top.kind \in Breakable
  BY DEF Breakable
<1>5. /\ Height(frames', Breakable) \in Nat
      /\ Height(frames', Loops) \in Nat
  BY <1>2, HeightFacts
<1>6. /\ Len(breakStack) = Height(frames', Breakable) + 1
      /\ Len(continueStack) = Height(frames', Loops) + 1
  BY <1>1, <1>2, <1>4 DEF StackHeights
<1>7. /\ breakStack' \in Seq(Block)
      /\ Len(breakStack) = Len(breakStack') + 1
      /\ \A k \in 1..Len(breakStack') : breakStack'[k] \in Homes'
  <2>1. Len(breakStack) >= 1
    BY <1>5, <1>6
  <2> QED
    BY <1>1, <1>2, <2>1, PopHomes DEF TypeOK, TargetsHaveHomes, PopLoop
<1>8. /\ continueStack' \in Seq(Block)
      /\ Len(continueStack) = Len(continueStack') + 1
      /\ \A k \in 1..Len(continueStack') : continueStack'[k] \in Homes'
  <2>1. Len(continueStack) >= 1
    BY <1>5, <1>6
  <2> QED
    BY <1>1, <1>2, <2>1, PopHomes DEF TypeOK, TargetsHaveHomes, PopLoop
<1>9. TypeOK'
  BY <1>1, <1>2, <1>3, <1>7, <1>8 DEF TypeOK, CodeInv, Closes
<1>10. TargetsHaveHomes'
  BY TargetsMono, <1>1, <1>2, <1>3, <1>7, <1>8, LabelsMono DEF TargetsHaveHomes
<1>11. StackHeights'
  <2>1. Len(breakStack') \in Nat /\ Len(continueStack') \in Nat
    BY <1>7, <1>8, LenProperties
  <2> QED
    BY <1>5, <1>6, <1>7, <1>8, <2>1 DEF StackHeights
<1>12. StartsOpen'
  BY <1>2 DEF StartsOpen
<1>13. FreshAreEmpty' /\ BlocksClosed'
  BY DEF CodeInv, FreshAreEmpty, BlocksClosed, Terminated, Closes
<1> QED
  BY <1>2, <1>9, <1>10, <1>11, <1>12, <1>13 DEF IInv

(* Closing a statement that is neither a loop nor a switch.                *)
LEMMA ClosePlainInv ==
  ASSUME IInv, Closes, Top.kind \notin Breakable,
         UNCHANGED <<breakStack, continueStack, currentSwitch>>,
         cases' \in [SwitchId -> SUBSET Block],
         dflt' \in [SwitchId -> Block \cup {NoBlock}],
         LabelsIn(cases', dflt', Homes),
         CodeInv(code', inserted', cur'), TargetsIn(code', Homes \cup inserted')
  PROVE  IInv'
<1>1. TypeOK /\ TargetsHaveHomes /\ StackHeights
  BY DEF IInv
<1>2. /\ frames' \in Seq(Frames)
      /\ StackShape' /\ KeptBlocks'
      /\ Homes \subseteq Homes'
      /\ Top'.kind = "list" \/ Top'.done
      /\ made' \in 0..MaxBlocks /\ inserted' \subseteq 1..made'
      /\ cur' \in Block
      /\ \A K : Height(frames, K)
                  = Height(frames', K) + IF Top.kind \in K THEN 1 ELSE 0
  BY ClosesFacts
<1>3. Top.kind \notin Loops
  BY DEF Breakable
<1>4. TypeOK'
  BY <1>1, <1>2 DEF TypeOK, CodeInv, Closes
<1>9. Homes \cup inserted' \subseteq Homes'
  <2>1. inserted' \subseteq Homes'
    BY DEF Homes
  <2> QED
    BY <1>2, <2>1
<1>5. TargetsHaveHomes'
  BY <1>9, TargetsMono, LabelsMono, <1>1, <1>2 DEF TargetsHaveHomes
<1>6. StackHeights'
  <2>1. /\ Height(frames', Breakable) \in Nat /\ Height(frames', Loops) \in Nat
    BY <1>2, HeightFacts
  <2> QED
    BY <1>1, <1>2, <1>3, <2>1 DEF StackHeights
<1>7. StartsOpen'
  BY <1>2 DEF StartsOpen
<1>8. FreshAreEmpty' /\ BlocksClosed'
  BY DEF CodeInv, FreshAreEmpty, BlocksClosed, Terminated, Closes
<1> QED
  BY <1>2, <1>4, <1>5, <1>6, <1>7, <1>8 DEF IInv

-----------------------------------------------------------------------------
(* The code half of the invariant, action by action                        *)

LEMMA EmitIfFacts ==
  ASSUME NEW c \in [Block -> Seq(Instrs)], NEW b \in Block, NEW i \in Instrs,
         NEW cond \in BOOLEAN
  PROVE  LET d == EmitIf(cond, c, b, i)
         IN  /\ d \in [Block -> Seq(Instrs)]
             /\ \A x \in Block : x # b => d[x] = c[x]
             /\ cond => (EndsInTerminator(d[b]) <=> IsTerminator(i))
             /\ ~cond => d = c
BY ZenonT(40), EmitFacts DEF EmitIf

LEMMA EmitIfTargets ==
  ASSUME NEW c \in [Block -> Seq(Instrs)], NEW b \in Block, NEW i \in Instrs,
         NEW H, TargetsIn(c, H), NEW cond \in BOOLEAN,
         i.t # NoBlock => i.t \in H,
         i.f # NoBlock => i.f \in H
  PROVE  TargetsIn(EmitIf(cond, c, b, i), H)
BY EmitTargets DEF EmitIf

LEMMA EmptyIsOpen == ~EndsInTerminator(<< >>)
BY DEF EndsInTerminator

(* The invariant says this of the code.                                    *)
LEMMA CodeFacts ==
  ASSUME IInv, phase = "body"
  PROVE  /\ CodeInv(code, inserted, cur)
         /\ TargetsIn(code, Homes)
         /\ cur \in inserted /\ cur \in Block
         /\ inserted \subseteq 1..made /\ 1..made \subseteq Block
         /\ made \in Nat /\ made <= MaxBlocks /\ n \in Nat
         /\ MaxBlocks \in Nat
<1>1. CodeInv(code, inserted, cur)
  BY DEF IInv, TypeOK, CodeInv, FreshAreEmpty, BlocksClosed, Terminated
<1>2. TargetsIn(code, Homes)
  BY DEF IInv, TargetsHaveHomes
<1>3. cur \in inserted
  BY DEF IInv, StackShape
<1>4. inserted \subseteq 1..made /\ made \in 0..MaxBlocks /\ n \in Nat
  BY DEF IInv, TypeOK
<1>5. 1..made \subseteq Block /\ made \in Nat /\ made <= MaxBlocks
  BY <1>4, BoundsAreNat DEF Block
<1>. QED BY <1>1, <1>2, <1>3, <1>4, <1>5, BoundsAreNat

(* The branch that closes the insertion point, if it is still open.        *)
LEMMA FallThroughFacts ==
  ASSUME IInv, phase = "body", NEW b \in Block, NEW H,
         Homes \subseteq H, b \in H
  PROVE  LET d == FallThrough(b)
         IN  /\ d \in [Block -> Seq(Instrs)]
             /\ \A x \in Block : x # cur => d[x] = code[x]
             /\ EndsInTerminator(d[cur])
             /\ TargetsIn(d, H)
             /\ \A x \in Block : x \notin inserted => d[x] = << >>
             /\ \A x \in inserted : EndsInTerminator(d[x])
<1> DEFINE d == FallThrough(b)
<1>1. /\ CodeInv(code, inserted, cur)
      /\ TargetsIn(code, H)
      /\ cur \in inserted /\ cur \in Block /\ inserted \subseteq Block
  BY CodeFacts, TargetsMono
<1>2. /\ Br(b) \in Instrs /\ Br(b).t = b /\ Br(b).f = NoBlock
      /\ IsTerminator(Br(b))
  BY BrFacts
<1>3. d = EmitIf(~Terminated(cur), code, cur, Br(b))
  BY DEF FallThrough
<1>4. code \in [Block -> Seq(Instrs)]
  BY <1>1 DEF CodeInv
<1>5. TargetsIn(d, H)
  BY <1>1, <1>2, <1>3, <1>4, EmitIfTargets
<1>6. /\ d \in [Block -> Seq(Instrs)]
      /\ \A x \in Block : x # cur => d[x] = code[x]
      /\ EndsInTerminator(d[cur])
  <2>1. CASE Terminated(cur)
    <3>1. d = code
      BY <1>3, <2>1 DEF EmitIf
    <3> QED
      BY <1>4, <2>1, <3>1 DEF Terminated
  <2>2. CASE ~Terminated(cur)
    <3>1. d = Emit(code, cur, Br(b))
      BY <1>3, <2>2 DEF EmitIf
    <3> HIDE DEF d
    <3> QED
      BY SMTT(30), <1>1, <1>2, <1>4, <3>1, EmitFacts
  <2> QED
    BY <2>1, <2>2
<1> HIDE DEF d
<1>7. /\ \A x \in Block : x \notin inserted => d[x] = << >>
      /\ \A x \in inserted : EndsInTerminator(d[x])
  BY <1>1, <1>6 DEF CodeInv
<1> QED
  BY <1>5, <1>6, <1>7 DEF d

(* One emitted instruction each: what it does to the code it is added to.  *)
Emitted(c, d, b, H) ==
  /\ d \in [Block -> Seq(Instrs)]
  /\ \A x \in Block : x # b => d[x] = c[x]
  /\ TargetsIn(d, H)

LEMMA EmitBr ==
  ASSUME NEW c \in [Block -> Seq(Instrs)], NEW b \in Block, NEW to \in Block,
         NEW H, TargetsIn(c, H), to \in H
  PROVE  LET d == Emit(c, b, Br(to))
         IN  Emitted(c, d, b, H) /\ EndsInTerminator(d[b])
<1> DEFINE i == Br(to)
<1>1. i \in Instrs /\ IsTerminator(i) /\ i.t = to /\ i.f = NoBlock
  BY BrFacts
<1> HIDE DEF i
<1>2. TargetsIn(Emit(c, b, i), H)
  BY <1>1, EmitTargets
<1>3. /\ Emit(c, b, i) \in [Block -> Seq(Instrs)]
      /\ \A x \in Block : x # b => Emit(c, b, i)[x] = c[x]
      /\ EndsInTerminator(Emit(c, b, i)[b])
  BY <1>1, EmitFacts
<1> QED
  BY <1>2, <1>3 DEF Emitted, i

LEMMA EmitCondBr ==
  ASSUME NEW c \in [Block -> Seq(Instrs)], NEW b \in Block, NEW id \in Nat,
         NEW t \in Block, NEW f \in Block,
         NEW H, TargetsIn(c, H), t \in H, f \in H
  PROVE  LET d == Emit(c, b, CondBr(id, t, f))
         IN  Emitted(c, d, b, H) /\ EndsInTerminator(d[b])
<1> DEFINE i == CondBr(id, t, f)
<1>1. i \in Instrs /\ IsTerminator(i) /\ i.t = t /\ i.f = f
  BY CondBrFacts
<1> HIDE DEF i
<1>2. TargetsIn(Emit(c, b, i), H)
  BY <1>1, EmitTargets
<1>3. /\ Emit(c, b, i) \in [Block -> Seq(Instrs)]
      /\ \A x \in Block : x # b => Emit(c, b, i)[x] = c[x]
      /\ EndsInTerminator(Emit(c, b, i)[b])
  BY ZenonT(40), <1>1, EmitFacts
<1> QED
  BY <1>2, <1>3 DEF Emitted, i

LEMMA EmitEval ==
  ASSUME NEW c \in [Block -> Seq(Instrs)], NEW b \in Block, NEW id \in Nat,
         NEW part \in {"", "expr", "init", "test", "step"},
         NEW cond \in BOOLEAN, NEW H, TargetsIn(c, H)
  PROVE  LET d == EmitIf(cond, c, b, Eval(id, part))
         IN  /\ Emitted(c, d, b, H)
             /\ EndsInTerminator(d[b]) => EndsInTerminator(c[b])
<1> DEFINE i == Eval(id, part)
<1>1. i \in Instrs /\ ~IsTerminator(i) /\ i.t = NoBlock /\ i.f = NoBlock
  BY EvalFacts
<1> HIDE DEF i
<1>2. CASE cond
  <2>1. TargetsIn(Emit(c, b, i), H)
    BY <1>1, EmitTargets
  <2>2. /\ Emit(c, b, i) \in [Block -> Seq(Instrs)]
        /\ \A x \in Block : x # b => Emit(c, b, i)[x] = c[x]
        /\ ~EndsInTerminator(Emit(c, b, i)[b])
    BY <1>1, EmitFacts
  <2> QED
    BY <1>2, <2>1, <2>2 DEF Emitted, EmitIf, i
<1>3. CASE ~cond
  BY <1>3 DEF Emitted, EmitIf
<1> QED
  BY <1>2, <1>3

LEMMA EmitSwitch ==
  ASSUME NEW c \in [Block -> Seq(Instrs)], NEW b \in Block, NEW id \in Nat,
         NEW H, TargetsIn(c, H)
  PROVE  LET d == Emit(c, b, SwitchInst(id))
         IN  Emitted(c, d, b, H) /\ EndsInTerminator(d[b])
<1> DEFINE i == SwitchInst(id)
<1>1. i \in Instrs /\ IsTerminator(i) /\ i.t = NoBlock /\ i.f = NoBlock
  BY SwitchInstFacts
<1> HIDE DEF i
<1>2. TargetsIn(Emit(c, b, i), H)
  BY <1>1, EmitTargets
<1>3. /\ Emit(c, b, i) \in [Block -> Seq(Instrs)]
      /\ \A x \in Block : x # b => Emit(c, b, i)[x] = c[x]
      /\ EndsInTerminator(Emit(c, b, i)[b])
  BY <1>1, EmitFacts
<1> QED
  BY <1>2, <1>3 DEF Emitted, i

LEMMA EmitRet ==
  ASSUME NEW c \in [Block -> Seq(Instrs)], NEW b \in Block,
         NEW H, TargetsIn(c, H)
  PROVE  LET d == Emit(c, b, Ret)
         IN  Emitted(c, d, b, H) /\ EndsInTerminator(d[b])
<1>1. TargetsIn(Emit(c, b, Ret), H)
  BY RetFacts, EmitTargets
<1>2. /\ Emit(c, b, Ret) \in [Block -> Seq(Instrs)]
      /\ \A x \in Block : x # b => Emit(c, b, Ret)[x] = c[x]
      /\ EndsInTerminator(Emit(c, b, Ret)[b])
  BY RetFacts, EmitFacts
<1> QED
  BY <1>1, <1>2 DEF Emitted

LEMMA WhileEnter ==
  ASSUME IInv, EnterWhile
  PROVE  IInv'
<1> DEFINE loop  == made + 1
           after == made + 2
           cond  == made + 3
           f  == [Frame("while") EXCEPT !.next = cond, !.exit = after]
           H  == Homes \cup inserted' \cup Owed(f)
           c1 == Emit(code, cur, Br(cond))
           c2 == EmitIf(TRUE, c1, cond, Eval(n + 1, "test"))
           c3 == Emit(c2, cond, CondBr(n + 1, loop, after))
<1>1. /\ phase = "body" /\ phase' = phase
      /\ made + 3 <= MaxBlocks
      /\ frames' = Append(Asked, f) /\ n' = n + 1
      /\ made' = made + 3
      /\ inserted' = inserted \cup {cond, loop}
      /\ code' = c3
      /\ cur' = loop
      /\ PushLoop(after, cond)
      /\ UNCHANGED unchangedByLoop
  BY DEF EnterWhile, CanOpen, CanVisit, Open, unchangedByLoop, EmitIf
<1>2. /\ CodeInv(code, inserted, cur)
      /\ TargetsIn(code, Homes)
      /\ cur \in inserted /\ cur \in Block
      /\ inserted \subseteq 1..made /\ made \in Nat /\ n \in Nat
      /\ MaxBlocks \in Nat /\ inserted \subseteq Block
  BY <1>1, CodeFacts
<1>3. /\ loop \in Block /\ after \in Block /\ cond \in Block
      /\ loop \notin inserted /\ after \notin inserted /\ cond \notin inserted
      /\ loop # after /\ loop # cond /\ after # cond
      /\ {loop, after, cond} \subseteq (made + 1)..made'
      /\ made' \in made..MaxBlocks
      /\ n + 1 \in Nat
  BY <1>1, <1>2 DEF Block
<1> HIDE DEF loop, after, cond
<1>4. /\ f \in Frames /\ f.kind = "while"
      /\ f.next = cond /\ f.exit = after
      /\ Kept(f) = {after} /\ Owed(f) = {after}
  BY <1>3 DEF Frame, Frames, FrameKinds, Kept, Owed, NoSwitch
<1> HIDE DEF f
<1>5. Homes \subseteq H /\ {loop, after, cond} \subseteq H
  BY <1>1, <1>4
<1> HIDE DEF H
<1>6. TargetsIn(code, H) /\ code \in [Block -> Seq(Instrs)]
  BY <1>2, <1>5, TargetsMono DEF CodeInv
<1>7. Emitted(code, c1, cur, H) /\ EndsInTerminator(c1[cur])
  BY <1>2, <1>3, <1>5, <1>6, EmitBr
<1> HIDE DEF c1
<1>8. Emitted(c1, c2, cond, H)
  <2>1. c1 \in [Block -> Seq(Instrs)] /\ TargetsIn(c1, H)
    BY <1>7 DEF Emitted
  <2> QED
    BY <1>3, <2>1, EmitEval
<1> HIDE DEF c2
<1>9. Emitted(c2, c3, cond, H) /\ EndsInTerminator(c3[cond])
  BY <1>3, <1>5, <1>8, EmitCondBr DEF Emitted
<1> HIDE DEF c3
<1>10. CodeInv(code', inserted', cur') /\ ~EndsInTerminator(code'[cur'])
  <2>1. \A x \in Block : x # cur /\ x # cond => c3[x] = code[x]
    BY <1>7, <1>8, <1>9 DEF Emitted
  <2>2. EndsInTerminator(c3[cur])
    BY <1>2, <1>3, <1>7, <1>8, <1>9 DEF Emitted
  <2>3. c3[loop] = << >>
    BY <1>2, <1>3, <2>1 DEF CodeInv
  <2>4. \A b \in Block : b \notin inserted' => c3[b] = << >>
    BY <1>1, <1>2, <2>1 DEF CodeInv
  <2>5. \A b \in inserted' : b # loop => EndsInTerminator(c3[b])
    BY <1>1, <1>2, <1>9, <2>1, <2>2 DEF CodeInv
  <2> QED
    BY <1>1, <1>9, <2>3, <2>4, <2>5, EmptyIsOpen DEF CodeInv, Emitted
<1>11. Opens(f)
  BY <1>1, <1>2, <1>3, <1>4, <1>10 DEF Opens
<1>12. TargetsIn(code', Homes \cup inserted' \cup Owed(f))
  BY <1>1, <1>9 DEF Emitted, H
<1> QED
  BY <1>1, <1>4, <1>10, <1>11, <1>12, OpenLoopInv DEF Loops

LEMMA DoEnter ==
  ASSUME IInv, EnterDoWhile
  PROVE  IInv'
<1> DEFINE loop  == made + 1
           after == made + 2
           cond  == made + 3
           f  == [Frame("do") EXCEPT !.head = loop, !.next = cond, !.exit = after]
           H  == Homes \cup inserted' \cup Owed(f)
           c1 == Emit(code, cur, Br(loop))
<1>1. /\ phase = "body" /\ phase' = phase
      /\ made + 3 <= MaxBlocks
      /\ frames' = Append(Asked, f) /\ n' = n + 1
      /\ made' = made + 3
      /\ inserted' = inserted \cup {loop}
      /\ code' = c1
      /\ cur' = loop
      /\ PushLoop(after, cond)
      /\ UNCHANGED unchangedByLoop
  BY DEF EnterDoWhile, CanOpen, CanVisit, Open, unchangedByLoop
<1>2. /\ CodeInv(code, inserted, cur)
      /\ TargetsIn(code, Homes)
      /\ cur \in inserted /\ cur \in Block
      /\ inserted \subseteq 1..made /\ made \in Nat /\ n \in Nat
      /\ MaxBlocks \in Nat /\ inserted \subseteq Block
  BY <1>1, CodeFacts
<1>3. /\ loop \in Block /\ after \in Block /\ cond \in Block
      /\ loop \notin inserted /\ after \notin inserted /\ cond \notin inserted
      /\ loop # after /\ loop # cond /\ after # cond
      /\ {loop, after, cond} \subseteq (made + 1)..made'
      /\ made' \in made..MaxBlocks
      /\ n + 1 \in Nat
  BY <1>1, <1>2 DEF Block
<1> HIDE DEF loop, after, cond
<1>4. /\ f \in Frames /\ f.kind = "do"
      /\ f.head = loop /\ f.next = cond /\ f.exit = after
      /\ Kept(f) = {cond, after}
  BY <1>3 DEF Frame, Frames, FrameKinds, Kept, NoSwitch
<1> HIDE DEF f
<1>5. Homes \subseteq H /\ loop \in H
  BY <1>1
<1> HIDE DEF H
<1>6. TargetsIn(code, H) /\ code \in [Block -> Seq(Instrs)]
  BY <1>2, <1>5, TargetsMono DEF CodeInv
<1>7. Emitted(code, c1, cur, H) /\ EndsInTerminator(c1[cur])
  BY <1>2, <1>3, <1>5, <1>6, EmitBr
<1> HIDE DEF c1
<1>8. CodeInv(code', inserted', cur') /\ ~EndsInTerminator(code'[cur'])
  <2>1. \A x \in Block : x # cur => c1[x] = code[x]
    BY <1>7 DEF Emitted
  <2>2. c1[loop] = << >>
    BY <1>2, <1>3, <2>1 DEF CodeInv
  <2>3. \A b \in Block : b \notin inserted' => c1[b] = << >>
    BY <1>1, <1>2, <2>1 DEF CodeInv
  <2>4. \A b \in inserted' : b # loop => EndsInTerminator(c1[b])
    BY <1>1, <1>2, <1>7, <2>1 DEF CodeInv
  <2> QED
    BY <1>1, <1>7, <2>2, <2>3, <2>4, EmptyIsOpen DEF CodeInv, Emitted
<1>9. Opens(f)
  BY <1>1, <1>2, <1>3, <1>4, <1>8 DEF Opens
<1>10. TargetsIn(code', Homes \cup inserted' \cup Owed(f))
  BY <1>1, <1>7 DEF Emitted, H
<1> QED
  BY <1>1, <1>4, <1>8, <1>9, <1>10, OpenLoopInv DEF Loops

LEMMA ForEnter ==
  ASSUME IInv, NEW init \in BOOLEAN, NEW test \in BOOLEAN, NEW step \in BOOLEAN,
         EnterFor(init, test, step)
  PROVE  IInv'
<1> DEFINE loop   == made + 1
           stepBB == made + 2
           after  == made + 3
           cond   == made + 4
           f  == [Frame("for") EXCEPT !.head = cond, !.next = stepBB,
                                      !.exit = after, !.flag = step]
           H  == Homes \cup inserted' \cup Owed(f)
           c1 == EmitIf(init, code, cur, Eval(n + 1, "init"))
           c2 == Emit(c1, cur, Br(cond))
           c3 == EmitIf(test, c2, cond, Eval(n + 1, "test"))
           c4 == Emit(c3, cond, IF test THEN CondBr(n + 1, loop, after)
                                        ELSE Br(loop))
<1>1. /\ phase = "body" /\ phase' = phase
      /\ made + 4 <= MaxBlocks
      /\ frames' = Append(Asked, f) /\ n' = n + 1
      /\ made' = made + 4
      /\ inserted' = inserted \cup {cond, loop}
      /\ code' = c4
      /\ cur' = loop
      /\ PushLoop(after, stepBB)
      /\ UNCHANGED unchangedByLoop
  BY DEF EnterFor, CanOpen, CanVisit, Open, unchangedByLoop
<1>2. /\ CodeInv(code, inserted, cur)
      /\ TargetsIn(code, Homes)
      /\ cur \in inserted /\ cur \in Block
      /\ inserted \subseteq 1..made /\ made \in Nat /\ n \in Nat
      /\ MaxBlocks \in Nat /\ inserted \subseteq Block
  BY <1>1, CodeFacts
<1>3. /\ loop \in Block /\ after \in Block /\ cond \in Block /\ stepBB \in Block
      /\ loop \notin inserted /\ after \notin inserted /\ cond \notin inserted
      /\ stepBB \notin inserted
      /\ loop # after /\ loop # cond /\ after # cond
      /\ stepBB \notin {loop, after, cond}
      /\ {loop, after, cond, stepBB} \subseteq (made + 1)..made'
      /\ made' \in made..MaxBlocks
      /\ n + 1 \in Nat
  BY <1>1, <1>2 DEF Block
<1> HIDE DEF loop, after, cond, stepBB
<1>4. /\ f \in Frames /\ f.kind = "for"
      /\ f.head = cond /\ f.next = stepBB /\ f.exit = after
      /\ Kept(f) = {stepBB, after} /\ Owed(f) = {stepBB, after}
  BY <1>3 DEF Frame, Frames, FrameKinds, Kept, Owed, NoSwitch
<1> HIDE DEF f
<1>5. Homes \subseteq H /\ {loop, cond, after} \subseteq H
  BY <1>1, <1>4
<1> HIDE DEF H
<1>6. TargetsIn(code, H) /\ code \in [Block -> Seq(Instrs)]
  BY <1>2, <1>5, TargetsMono DEF CodeInv
<1>7. Emitted(code, c1, cur, H)
  BY <1>2, <1>3, <1>6, EmitEval
<1> HIDE DEF c1
<1>8. Emitted(c1, c2, cur, H) /\ EndsInTerminator(c2[cur])
  BY <1>2, <1>3, <1>5, <1>7, EmitBr DEF Emitted
<1> HIDE DEF c2
<1>9. Emitted(c2, c3, cond, H)
  <2>1. c2 \in [Block -> Seq(Instrs)] /\ TargetsIn(c2, H)
    BY <1>8 DEF Emitted
  <2> QED
    BY <1>3, <2>1, EmitEval
<1> HIDE DEF c3
<1>10. Emitted(c3, c4, cond, H) /\ EndsInTerminator(c4[cond])
  <2>1. c3 \in [Block -> Seq(Instrs)] /\ TargetsIn(c3, H)
    BY <1>9 DEF Emitted
  <2>2. CASE test
    <3>1. c4 = Emit(c3, cond, CondBr(n + 1, loop, after))
      BY <2>2
    <3> HIDE DEF c4
    <3> QED
      BY <1>3, <1>5, <2>1, <3>1, EmitCondBr
  <2>3. CASE ~test
    <3>1. c4 = Emit(c3, cond, Br(loop))
      BY <2>3
    <3> HIDE DEF c4
    <3> QED
      BY <1>3, <1>5, <2>1, <3>1, EmitBr
  <2> QED
    BY <2>2, <2>3
<1> HIDE DEF c4
<1>11. CodeInv(code', inserted', cur') /\ ~EndsInTerminator(code'[cur'])
  <2>1. \A x \in Block : x # cur /\ x # cond => c4[x] = code[x]
    BY <1>7, <1>8, <1>9, <1>10 DEF Emitted
  <2>2. EndsInTerminator(c4[cur])
    BY <1>2, <1>3, <1>8, <1>9, <1>10 DEF Emitted
  <2>3. c4[loop] = << >>
    BY <1>2, <1>3, <2>1 DEF CodeInv
  <2>4. \A b \in Block : b \notin inserted' => c4[b] = << >>
    BY <1>1, <1>2, <2>1 DEF CodeInv
  <2>5. \A b \in inserted' : b # loop => EndsInTerminator(c4[b])
    BY <1>1, <1>2, <1>10, <2>1, <2>2 DEF CodeInv
  <2> QED
    BY <1>1, <1>10, <2>3, <2>4, <2>5, EmptyIsOpen DEF CodeInv, Emitted
<1>12. Opens(f)
  BY <1>1, <1>2, <1>3, <1>4, <1>11 DEF Opens
<1>13. TargetsIn(code', Homes \cup inserted' \cup Owed(f))
  BY <1>1, <1>10 DEF Emitted, H
<1> QED
  BY <1>1, <1>4, <1>11, <1>12, <1>13, OpenLoopInv DEF Loops

LEMMA IfEnter ==
  ASSUME IInv, NEW hasElse \in BOOLEAN, EnterIf(hasElse)
  PROVE  IInv'
<1> DEFINE then  == made + 1
           merge == made + 2
           else  == made + 3
           to    == IF hasElse THEN else ELSE merge
           f  == [Frame(IF hasElse THEN "then" ELSE "if")
                    EXCEPT !.next = else, !.exit = merge]
           H  == Homes \cup inserted' \cup Owed(f)
           c1 == EmitIf(TRUE, code, cur, Eval(n + 1, "test"))
           c2 == Emit(c1, cur, CondBr(n + 1, then, to))
<1>1. /\ phase = "body" /\ phase' = phase
      /\ made + 3 <= MaxBlocks
      /\ frames' = Append(Asked, f) /\ n' = n + 1
      /\ made' = made + 3
      /\ inserted' = inserted \cup {then}
      /\ code' = c2
      /\ cur' = then
      /\ UNCHANGED unchangedByIf
  BY DEF EnterIf, CanOpen, CanVisit, Open, unchangedByIf, EmitIf
<1>2. /\ CodeInv(code, inserted, cur)
      /\ TargetsIn(code, Homes)
      /\ cur \in inserted /\ cur \in Block
      /\ inserted \subseteq 1..made /\ made \in Nat /\ n \in Nat
      /\ MaxBlocks \in Nat /\ inserted \subseteq Block
  BY <1>1, CodeFacts
<1>3. /\ then \in Block /\ merge \in Block /\ else \in Block
      /\ then \notin inserted /\ merge \notin inserted /\ else \notin inserted
      /\ then # merge /\ then # else /\ merge # else
      /\ {then, merge, else} \subseteq (made + 1)..made'
      /\ made' \in made..MaxBlocks
      /\ n + 1 \in Nat
  BY <1>1, <1>2 DEF Block
<1> HIDE DEF then, merge, else
<1>4. /\ f \in Frames /\ f.kind = (IF hasElse THEN "then" ELSE "if")
      /\ f.next = else /\ f.exit = merge
  BY <1>3 DEF Frame, Frames, FrameKinds, NoSwitch
<1> HIDE DEF f
<1>5. to \in Block /\ to \in Owed(f) /\ Kept(f) \subseteq {merge, else}
  BY <1>3, <1>4 DEF Kept, Owed
<1> HIDE DEF to
<1>6. Homes \subseteq H /\ {then, to} \subseteq H
  BY <1>1, <1>5
<1> HIDE DEF H
<1>7. TargetsIn(code, H) /\ code \in [Block -> Seq(Instrs)]
  BY <1>2, <1>6, TargetsMono DEF CodeInv
<1>8. Emitted(code, c1, cur, H)
  BY <1>2, <1>3, <1>7, EmitEval
<1> HIDE DEF c1
<1>9. Emitted(c1, c2, cur, H) /\ EndsInTerminator(c2[cur])
  <2>1. c1 \in [Block -> Seq(Instrs)] /\ TargetsIn(c1, H)
    BY <1>8 DEF Emitted
  <2> QED
    BY <1>2, <1>3, <1>5, <1>6, <2>1, EmitCondBr
<1> HIDE DEF c2
<1>10. CodeInv(code', inserted', cur') /\ ~EndsInTerminator(code'[cur'])
  <2>1. \A x \in Block : x # cur => c2[x] = code[x]
    BY <1>8, <1>9 DEF Emitted
  <2>2. c2[then] = << >>
    BY <1>2, <1>3, <2>1 DEF CodeInv
  <2>3. \A b \in Block : b \notin inserted' => c2[b] = << >>
    BY <1>1, <1>2, <2>1 DEF CodeInv
  <2>4. \A b \in inserted' : b # then => EndsInTerminator(c2[b])
    BY <1>1, <1>2, <1>9, <2>1 DEF CodeInv
  <2> QED
    BY <1>1, <1>9, <2>2, <2>3, <2>4, EmptyIsOpen DEF CodeInv, Emitted
<1>11. Opens(f)
  BY <1>1, <1>2, <1>3, <1>4, <1>5, <1>10 DEF Opens
<1>12. TargetsIn(code', Homes \cup inserted' \cup Owed(f))
  BY <1>1, <1>9 DEF Emitted, H
<1>13. f.kind \notin Breakable
  BY <1>4 DEF Breakable, Loops
<1> QED
  BY <1>1, <1>10, <1>11, <1>12, <1>13, OpenPlainInv

LEMMA CaseEnter ==
  ASSUME IInv, NEW isDefault \in BOOLEAN, EnterCase(isDefault)
  PROVE  IInv'
<1> DEFINE caseBB == made + 1
           f  == [Frame("case") EXCEPT !.head = caseBB, !.flag = isDefault]
           H  == Homes \cup inserted' \cup Owed(f)
           c1 == FallThrough(caseBB)
<1>1. /\ phase = "body" /\ phase' = phase
      /\ made + 1 <= MaxBlocks
      /\ frames' = Append(Asked, f) /\ n' = n + 1
      /\ made' = made + 1
      /\ inserted' = inserted \cup {caseBB}
      /\ code' = c1
      /\ cur' = caseBB
      /\ UNCHANGED unchangedByIf
  BY DEF EnterCase, CanOpen, CanVisit, Open, unchangedByIf
<1>2. /\ CodeInv(code, inserted, cur)
      /\ cur \in inserted /\ cur \in Block
      /\ inserted \subseteq 1..made /\ made \in Nat /\ n \in Nat
      /\ MaxBlocks \in Nat /\ inserted \subseteq Block
  BY <1>1, CodeFacts
<1>3. /\ caseBB \in Block /\ caseBB \notin inserted
      /\ caseBB \in (made + 1)..made'
      /\ made' \in made..MaxBlocks
      /\ n + 1 \in Nat
  BY <1>1, <1>2 DEF Block
<1> HIDE DEF caseBB
<1>4. f \in Frames /\ f.kind = "case" /\ f.head = caseBB
  BY <1>3 DEF Frame, Frames, FrameKinds, NoSwitch
<1> HIDE DEF f
<1>5. Kept(f) = {}
  BY <1>4 DEF Kept
<1>6. Homes \subseteq H /\ caseBB \in H
  BY <1>1
<1> HIDE DEF H
<1>7. /\ c1 \in [Block -> Seq(Instrs)]
      /\ \A x \in Block : x # cur => c1[x] = code[x]
      /\ TargetsIn(c1, H)
      /\ \A x \in Block : x \notin inserted => c1[x] = << >>
      /\ \A x \in inserted : EndsInTerminator(c1[x])
  BY <1>1, <1>3, <1>6, FallThroughFacts
<1> HIDE DEF c1
<1>8. CodeInv(code', inserted', cur') /\ ~EndsInTerminator(code'[cur'])
  BY <1>1, <1>3, <1>7, EmptyIsOpen DEF CodeInv
<1>9. Opens(f)
  BY <1>1, <1>2, <1>3, <1>4, <1>5, <1>8 DEF Opens
<1>10. TargetsIn(code', Homes \cup inserted' \cup Owed(f))
  BY <1>1, <1>7 DEF H
<1>11. f.kind \notin Breakable
  BY <1>4 DEF Breakable, Loops
<1> QED
  BY <1>1, <1>8, <1>9, <1>10, <1>11, OpenPlainInv

LEMMA CompoundEnter ==
  ASSUME IInv, EnterCompoundStmt
  PROVE  IInv'
<1> DEFINE f == [Frame("list") EXCEPT !.id = 0]
<1>1. /\ phase = "body" /\ phase' = phase
      /\ frames' = Append(Asked, f) /\ n' = n
      /\ made' = made /\ inserted' = inserted /\ code' = code /\ cur' = cur
      /\ UNCHANGED unchangedByIf
  BY DEF EnterCompoundStmt, CanVisit, unchangedByList, unchangedByIf
<1>2. /\ CodeInv(code, inserted, cur)
      /\ TargetsIn(code, Homes)
      /\ cur \in inserted /\ made \in Nat /\ n \in Nat
      /\ MaxBlocks \in Nat /\ made <= MaxBlocks
  BY <1>1, CodeFacts
<1>3. f \in Frames /\ f.kind = "list"
  BY DEF Frame, Frames, FrameKinds, NoSwitch
<1> HIDE DEF f
<1>4. Kept(f) = {}
  BY <1>3 DEF Kept
<1>5. Opens(f)
  BY <1>1, <1>2, <1>3, <1>4 DEF Opens
<1>6. TargetsIn(code, Homes \cup inserted' \cup Owed(f))
  BY <1>2, TargetsMono
<1>7. f.kind \notin Breakable
  BY <1>3 DEF Breakable, Loops
<1> QED
  BY <1>1, <1>2, <1>5, <1>6, <1>7, OpenPlainInv

(* What the invariant says of the visit at the top.                        *)
LEMMA TopBlocks ==
  ASSUME IInv, phase = "body"
  PROVE  /\ Top \in Frames
         /\ FrameBlocks(Top, made, inserted)
         /\ Kept(Top) \subseteq Block
         /\ Kept(Top) \cap inserted = {}
         /\ Owed(Top) \subseteq Homes /\ inserted \subseteq Homes
         /\ Top.kind # "list" => Len(frames) > 1
<1>1. /\ Top \in Frames /\ Top = frames[Len(frames)]
      /\ Len(frames) \in 1..Len(frames)
      /\ Top.kind # "list" => Len(frames) > 1
  BY TopFacts DEF IInv
<1>2. FrameBlocks(Top, made, inserted)
  BY <1>1 DEF IInv, KeptBlocks
<1>3. 1..made \subseteq Block
  BY CodeFacts
<1>4. Kept(Top) \subseteq Block /\ Kept(Top) \cap inserted = {}
  BY <1>2, <1>3 DEF FrameBlocks
<1>5. Owed(Top) \subseteq Homes /\ inserted \subseteq Homes
  BY <1>1 DEF Homes
<1> QED
  BY <1>1, <1>2, <1>4, <1>5

LEMMA WhileExit ==
  ASSUME IInv, ExitWhile
  PROVE  IInv'
<1> DEFINE cond  == Top.next
           after == Top.exit
           c1    == FallThrough(cond)
<1>1. /\ phase = "body" /\ phase' = phase /\ Top.kind = "while"
      /\ frames' = Pop(frames) /\ n' = n /\ made' = made
      /\ inserted' = inserted \cup {after}
      /\ code' = c1
      /\ cur' = after
      /\ PopLoop
      /\ UNCHANGED unchangedByLoop
  BY DEF ExitWhile, CanClose, Close, unchangedByLoop
<1>2. /\ CodeInv(code, inserted, cur) /\ n \in Nat
      /\ inserted \subseteq Block
  BY <1>1, CodeFacts
<1>3. Kept(Top) = {after} /\ Owed(Top) = {after}
  BY <1>1 DEF Kept, Owed
<1>4. /\ cond \in inserted /\ cond \in Block /\ cond \in Homes
      /\ after \in Block /\ after \notin inserted
      /\ Len(frames) > 1
  BY <1>1, <1>2, <1>3, TopBlocks DEF FrameBlocks
<1> HIDE DEF cond
<1>5. /\ c1 \in [Block -> Seq(Instrs)]
      /\ TargetsIn(c1, Homes)
      /\ \A x \in Block : x \notin inserted => c1[x] = << >>
      /\ \A x \in inserted : EndsInTerminator(c1[x])
  BY <1>1, <1>4, FallThroughFacts
<1> HIDE DEF c1, after
<1>6. CodeInv(code', inserted', cur')
  BY <1>1, <1>5 DEF CodeInv
<1>7. Closes
  BY <1>1, <1>2, <1>3, <1>4 DEF Closes
<1> QED
  BY <1>1, <1>5, <1>6, <1>7, CloseLoopInv DEF Loops

LEMMA DoExit ==
  ASSUME IInv, ExitDoWhile
  PROVE  IInv'
<1> DEFINE loop  == Top.head
           cond  == Top.next
           after == Top.exit
           c1    == FallThrough(cond)
           c2    == EmitIf(TRUE, c1, cond, Eval(Top.id, "test"))
           c3    == Emit(c2, cond, CondBr(Top.id, loop, after))
<1>1. /\ phase = "body" /\ phase' = phase /\ Top.kind = "do"
      /\ frames' = Pop(frames) /\ n' = n /\ made' = made
      /\ inserted' = inserted \cup {cond, after}
      /\ code' = c3
      /\ cur' = after
      /\ PopLoop
      /\ UNCHANGED unchangedByLoop
  BY DEF ExitDoWhile, CanClose, Close, unchangedByLoop, EmitIf
<1>2. /\ CodeInv(code, inserted, cur) /\ n \in Nat
      /\ inserted \subseteq Block /\ cur \in inserted
  BY <1>1, CodeFacts
<1>3. Kept(Top) = {cond, after} /\ Owed(Top) = {cond, after}
  BY <1>1 DEF Kept, Owed
<1>4. /\ {cond, after} \subseteq Block /\ {cond, after} \subseteq Homes
      /\ cond \notin inserted /\ after \notin inserted /\ cond # after
      /\ loop \in inserted /\ loop \in Block /\ loop \in Homes
      /\ Len(frames) > 1 /\ Top.id \in Nat
  BY <1>1, <1>2, <1>3, TopBlocks DEF FrameBlocks, Frames
<1> HIDE DEF cond, after, loop
<1>5. /\ c1 \in [Block -> Seq(Instrs)]
      /\ TargetsIn(c1, Homes)
      /\ \A x \in Block : x \notin inserted => c1[x] = << >>
      /\ \A x \in inserted : EndsInTerminator(c1[x])
  BY <1>1, <1>4, FallThroughFacts
<1> HIDE DEF c1
<1>6. Emitted(c1, c2, cond, Homes)
  BY <1>4, <1>5, EmitEval
<1> HIDE DEF c2
<1>7. Emitted(c2, c3, cond, Homes) /\ EndsInTerminator(c3[cond])
  <2>1. c2 \in [Block -> Seq(Instrs)] /\ TargetsIn(c2, Homes)
    BY <1>6 DEF Emitted
  <2> QED
    BY <1>4, <2>1, EmitCondBr
<1> HIDE DEF c3
<1>8. CodeInv(code', inserted', cur')
  <2>1. \A x \in Block : x # cond => c3[x] = c1[x]
    BY <1>6, <1>7 DEF Emitted
  <2>2. \A x \in inserted : EndsInTerminator(c3[x])
    BY <1>2, <1>4, <1>5, <2>1
  <2> QED
    BY <1>1, <1>5, <1>7, <2>1, <2>2 DEF CodeInv, Emitted
<1>9. Closes
  BY <1>1, <1>2, <1>3, <1>4 DEF Closes
<1>10. TargetsIn(code', Homes)
  BY <1>1, <1>7 DEF Emitted
<1> QED
  BY <1>1, <1>8, <1>9, <1>10, CloseLoopInv DEF Loops

LEMMA ForExit ==
  ASSUME IInv, ExitFor
  PROVE  IInv'
<1> DEFINE cond   == Top.head
           stepBB == Top.next
           after  == Top.exit
           c1     == FallThrough(stepBB)
           c2     == EmitIf(Top.flag, c1, stepBB, Eval(Top.id, "step"))
           c3     == Emit(c2, stepBB, Br(cond))
<1>1. /\ phase = "body" /\ phase' = phase /\ Top.kind = "for"
      /\ frames' = Pop(frames) /\ n' = n /\ made' = made
      /\ inserted' = inserted \cup {stepBB, after}
      /\ code' = c3
      /\ cur' = after
      /\ PopLoop
      /\ UNCHANGED unchangedByLoop
  BY DEF ExitFor, CanClose, Close, unchangedByLoop
<1>2. /\ CodeInv(code, inserted, cur) /\ n \in Nat
      /\ inserted \subseteq Block /\ cur \in inserted
  BY <1>1, CodeFacts
<1>3. Kept(Top) = {stepBB, after} /\ Owed(Top) = {stepBB, after}
  BY <1>1 DEF Kept, Owed
<1>4. /\ {stepBB, after} \subseteq Block /\ {stepBB, after} \subseteq Homes
      /\ stepBB \notin inserted /\ after \notin inserted /\ stepBB # after
      /\ cond \in inserted /\ cond \in Block /\ cond \in Homes
      /\ Len(frames) > 1 /\ Top.id \in Nat /\ Top.flag \in BOOLEAN
  BY <1>1, <1>2, <1>3, TopBlocks DEF FrameBlocks, Frames
<1> HIDE DEF cond, after, stepBB
<1>5. /\ c1 \in [Block -> Seq(Instrs)]
      /\ TargetsIn(c1, Homes)
      /\ \A x \in Block : x \notin inserted => c1[x] = << >>
      /\ \A x \in inserted : EndsInTerminator(c1[x])
  BY <1>1, <1>4, FallThroughFacts
<1> HIDE DEF c1
<1>6. Emitted(c1, c2, stepBB, Homes)
  BY <1>4, <1>5, EmitEval
<1> HIDE DEF c2
<1>7. Emitted(c2, c3, stepBB, Homes) /\ EndsInTerminator(c3[stepBB])
  <2>1. c2 \in [Block -> Seq(Instrs)] /\ TargetsIn(c2, Homes)
    BY <1>6 DEF Emitted
  <2> QED
    BY <1>4, <2>1, EmitBr
<1> HIDE DEF c3
<1>8. CodeInv(code', inserted', cur')
  <2>1. \A x \in Block : x # stepBB => c3[x] = c1[x]
    BY <1>6, <1>7 DEF Emitted
  <2>2. \A x \in inserted : EndsInTerminator(c3[x])
    BY <1>2, <1>4, <1>5, <2>1
  <2> QED
    BY <1>1, <1>5, <1>7, <2>1, <2>2 DEF CodeInv, Emitted
<1>9. Closes
  BY <1>1, <1>2, <1>3, <1>4 DEF Closes
<1>10. TargetsIn(code', Homes)
  BY <1>1, <1>7 DEF Emitted
<1> QED
  BY <1>1, <1>8, <1>9, <1>10, CloseLoopInv DEF Loops

(* The labels of the switches, while they stay as they are.                *)
LEMMA LabelFacts ==
  ASSUME IInv
  PROVE  /\ LabelsIn(cases, dflt, Homes)
         /\ cases \in [SwitchId -> SUBSET Block]
         /\ dflt \in [SwitchId -> Block \cup {NoBlock}]
BY DEF IInv, TypeOK, TargetsHaveHomes

LEMMA IfExit ==
  ASSUME IInv, ExitIf
  PROVE  IInv'
<1> DEFINE merge == Top.exit
           c1    == FallThrough(merge)
<1>1. /\ phase = "body" /\ phase' = phase /\ Top.kind = "if"
      /\ frames' = Pop(frames) /\ n' = n /\ made' = made
      /\ inserted' = inserted \cup {merge}
      /\ code' = c1
      /\ cur' = merge
      /\ UNCHANGED <<breakStack, continueStack, currentSwitch>>
      /\ cases' = cases /\ dflt' = dflt
  BY DEF ExitIf, CanClose, Close, unchangedByIf
<1>2. n \in Nat
  BY <1>1, CodeFacts
<1>3. Kept(Top) = {merge} /\ Owed(Top) = {merge}
  BY <1>1 DEF Kept, Owed
<1>4. merge \in Block /\ merge \in Homes /\ Len(frames) > 1
  BY <1>1, <1>3, TopBlocks
<1> HIDE DEF merge
<1>5. /\ c1 \in [Block -> Seq(Instrs)]
      /\ TargetsIn(c1, Homes \cup inserted')
      /\ \A x \in Block : x \notin inserted => c1[x] = << >>
      /\ \A x \in inserted : EndsInTerminator(c1[x])
  BY <1>1, <1>4, FallThroughFacts
<1> HIDE DEF c1
<1>6. CodeInv(code', inserted', cur')
  BY <1>1, <1>5 DEF CodeInv
<1>7. Closes
  BY <1>1, <1>2, <1>3, <1>4 DEF Closes
<1>8. Top.kind \notin Breakable
  BY <1>1 DEF Breakable, Loops
<1> QED
  BY <1>1, <1>5, <1>6, <1>7, <1>8, LabelFacts, ClosePlainInv

LEMMA ElseExit ==
  ASSUME IInv, ExitElse
  PROVE  IInv'
<1> DEFINE merge == Top.exit
           insertMergeBB == Top.flag \/ ~Terminated(cur)
           c1    == FallThrough(merge)
<1>1. /\ phase = "body" /\ phase' = phase /\ Top.kind = "else"
      /\ frames' = Pop(frames) /\ n' = n /\ made' = made
      /\ inserted' = IF insertMergeBB THEN inserted \cup {merge} ELSE inserted
      /\ code' = c1
      /\ cur' = IF insertMergeBB THEN merge ELSE cur
      /\ UNCHANGED <<breakStack, continueStack, currentSwitch>>
      /\ cases' = cases /\ dflt' = dflt
  BY DEF ExitElse, CanClose, Close, unchangedByIf
<1>2. /\ n \in Nat /\ CodeInv(code, inserted, cur) /\ cur \in inserted
      /\ TargetsIn(code, Homes)
  BY <1>1, CodeFacts
<1>3. Kept(Top) = {merge} /\ Owed(Top) = IF Top.flag THEN {merge} ELSE {}
  BY <1>1 DEF Kept, Owed
<1>4. merge \in Block /\ Len(frames) > 1
  BY <1>1, <1>3, TopBlocks
<1> HIDE DEF merge
<1>5. Top.kind \notin Breakable
  BY <1>1 DEF Breakable, Loops
<1>6. CASE insertMergeBB
  <2>1. inserted' = inserted \cup {merge} /\ cur' = merge
    BY <1>1, <1>6
  <2> DEFINE H == Homes \cup inserted'
  <2>5. Homes \subseteq H /\ merge \in H
    BY <2>1
  <2> HIDE DEF H
  <2>6. /\ c1 \in [Block -> Seq(Instrs)]
        /\ TargetsIn(c1, H)
        /\ \A x \in Block : x \notin inserted => c1[x] = << >>
        /\ \A x \in inserted : EndsInTerminator(c1[x])
    BY <1>1, <1>4, <2>5, FallThroughFacts
  <2>2. /\ c1 \in [Block -> Seq(Instrs)]
        /\ TargetsIn(c1, Homes \cup inserted')
        /\ \A x \in Block : x \notin inserted => c1[x] = << >>
        /\ \A x \in inserted : EndsInTerminator(c1[x])
    BY <2>6 DEF H
  <2> HIDE DEF c1
  <2>3. CodeInv(code', inserted', cur')
    BY <1>1, <2>1, <2>2 DEF CodeInv
  <2>4. Closes
    BY <1>1, <1>2, <1>3, <1>4, <2>1 DEF Closes
  <2> QED
    BY <1>1, <1>5, <2>2, <2>3, <2>4, LabelFacts, ClosePlainInv
<1>7. CASE ~insertMergeBB
  <2>1. inserted' = inserted /\ cur' = cur /\ ~Top.flag /\ Terminated(cur)
    BY <1>1, <1>7
  <2>2. code' = code
    BY <1>1, <2>1 DEF FallThrough, EmitIf
  <2>3. CodeInv(code', inserted', cur')
    BY <1>2, <2>1, <2>2
  <2>4. Closes
    BY <1>1, <1>2, <1>3, <1>4, <2>1 DEF Closes
  <2>5. TargetsIn(code', Homes \cup inserted')
    BY <1>2, <2>2, TargetsMono
  <2> QED
    BY <1>1, <1>5, <2>3, <2>4, <2>5, LabelFacts, ClosePlainInv
<1> QED
  BY <1>6, <1>7

LEMMA CompoundExit ==
  ASSUME IInv, ExitCompoundStmt
  PROVE  IInv'
<1>1. /\ phase = "body" /\ phase' = phase /\ Top.kind = "list"
      /\ Len(frames) > 1
      /\ frames' = Pop(frames) /\ n' = n /\ made' = made
      /\ inserted' = inserted /\ code' = code /\ cur' = cur
      /\ UNCHANGED <<breakStack, continueStack, currentSwitch>>
      /\ cases' = cases /\ dflt' = dflt
  BY DEF ExitCompoundStmt, Close, unchangedByList
<1>2. /\ n \in Nat /\ CodeInv(code, inserted, cur) /\ cur \in inserted
      /\ TargetsIn(code, Homes \cup inserted')
  BY <1>1, CodeFacts, TargetsMono
<1>3. Owed(Top) = {} /\ Top.kind \notin Breakable
  BY <1>1 DEF Owed, Breakable, Loops
<1>4. Closes
  BY <1>1, <1>2, <1>3 DEF Closes
<1> QED
  BY <1>1, <1>2, <1>3, <1>4, LabelFacts, ClosePlainInv

LEMMA CaseExit ==
  ASSUME IInv, ExitCase
  PROVE  IInv'
<1>1. /\ phase = "body" /\ phase' = phase /\ Top.kind = "case"
      /\ frames' = Pop(frames) /\ n' = n /\ made' = made
      /\ inserted' = inserted /\ code' = code /\ cur' = cur
      /\ UNCHANGED <<breakStack, continueStack, currentSwitch>>
      /\ \/ /\ dflt' = [dflt EXCEPT ![currentSwitch] = Top.head]
            /\ cases' = cases
         \/ /\ cases' = [cases EXCEPT ![currentSwitch] = @ \cup {Top.head}]
            /\ dflt' = dflt
  BY DEF ExitCase, CanClose, Close
<1>2. /\ n \in Nat /\ CodeInv(code, inserted, cur) /\ cur \in inserted
      /\ inserted \subseteq Block
      /\ TargetsIn(code, Homes \cup inserted')
  BY <1>1, CodeFacts, TargetsMono
<1>3. Owed(Top) = {} /\ Top.kind \notin Breakable
  BY <1>1 DEF Owed, Breakable, Loops
<1>4. Top.head \in Block /\ Top.head \in Homes /\ Len(frames) > 1
  BY <1>1, <1>2, TopBlocks DEF FrameBlocks
<1>5. /\ LabelsIn(cases, dflt, Homes)
      /\ cases \in [SwitchId -> SUBSET Block]
      /\ dflt \in [SwitchId -> Block \cup {NoBlock}]
  BY LabelFacts
<1>6. /\ LabelsIn(cases', dflt', Homes)
      /\ cases' \in [SwitchId -> SUBSET Block]
      /\ dflt' \in [SwitchId -> Block \cup {NoBlock}]
  BY <1>1, <1>4, <1>5 DEF LabelsIn
<1>7. Closes
  BY <1>1, <1>2, <1>3, <1>4 DEF Closes
<1> QED
  BY <1>1, <1>2, <1>3, <1>6, <1>7, ClosePlainInv

-----------------------------------------------------------------------------
(* The remaining shapes: leaves, switches, the two branches of an if, and  *)
(* the function itself.                                                    *)

(* A visit method without a child adds instructions to the insertion point *)
(* and returns.                                                            *)
LEMMA LeafInv ==
  ASSUME IInv, Leaf, UNCHANGED unchangedByLeaf, Emitted(code, code', cur, Homes)
  PROVE  IInv'
<1>1. /\ phase = "body" /\ phase' = phase
      /\ frames' = Asked /\ n' = n + 1
      /\ made' = made /\ inserted' = inserted /\ cur' = cur
      /\ breakStack' = breakStack /\ continueStack' = continueStack
      /\ currentSwitch' = currentSwitch /\ cases' = cases /\ dflt' = dflt
  BY DEF Leaf, CanVisit, unchangedByLeaf
<1>2. TypeOK /\ StackShape /\ KeptBlocks /\ TargetsHaveHomes /\ StackHeights
      /\ FreshAreEmpty /\ BlocksClosed
  BY DEF IInv
<1>3. /\ frames' \in Seq(Frames)
      /\ StackShape' /\ KeptBlocks'
      /\ Homes \subseteq Homes'
      /\ Top'.kind = "list" \/ Top'.done
  BY <1>1, <1>2, LeafFrames
<1>4. cur \in inserted /\ cur \in Block /\ inserted \subseteq Block
  BY <1>1, CodeFacts
<1>5. /\ code' \in [Block -> Seq(Instrs)]
      /\ \A x \in Block : x # cur => code'[x] = code[x]
      /\ TargetsIn(code', Homes')
  BY <1>3, TargetsMono DEF Emitted
<1>6. TypeOK'
  BY <1>1, <1>2, <1>3, <1>5 DEF TypeOK
<1>7. FreshAreEmpty' /\ BlocksClosed'
  BY <1>1, <1>2, <1>4, <1>5 DEF FreshAreEmpty, BlocksClosed, Terminated
<1>8. TargetsHaveHomes'
  BY <1>1, <1>2, <1>3, <1>5, LabelsMono DEF TargetsHaveHomes
<1>9. StackHeights'
  <2>1. frames \in Seq(Frames) /\ frames # << >>
    BY <1>1, <1>2, TopFacts
  <2> QED
    BY <1>1, <1>2, <2>1, AskedHeight DEF StackHeights
<1>10. StartsOpen'
  BY <1>3 DEF StartsOpen
<1> QED
  BY <1>3, <1>6, <1>7, <1>8, <1>9, <1>10 DEF IInv

LEMMA Leaves ==
  ASSUME IInv,
         \/ \E full \in BOOLEAN : ExprStmt(full)
         \/ Break \/ Continue \/ Return
  PROVE  IInv'
<1>1. Leaf /\ UNCHANGED unchangedByLeaf
  BY DEF ExprStmt, Break, Continue, Return
<1>2. /\ code \in [Block -> Seq(Instrs)] /\ TargetsIn(code, Homes)
      /\ cur \in Block /\ n + 1 \in Nat
  <2>1. phase = "body"
    BY <1>1 DEF Leaf, CanVisit
  <2> QED
    BY <2>1, CodeFacts DEF CodeInv
<1>3. ASSUME NEW full \in BOOLEAN, ExprStmt(full)
      PROVE  Emitted(code, code', cur, Homes)
  <2>1. code' = EmitIf(full, code, cur, Eval(n + 1, "expr"))
    BY <1>3 DEF ExprStmt
  <2> QED
    BY <1>2, <2>1, EmitEval
<1>4. ASSUME NEW s \in Seq(Block), s # << >>,
             \A k \in 1..Len(s) : s[k] \in Homes
      PROVE  s[Len(s)] \in Block /\ s[Len(s)] \in Homes
  <2>1. Len(s) \in 1..Len(s)
    BY <1>4, LenProperties, EmptySeq
  <2> QED
    BY <1>4, <2>1, ElementOfSeq
<1>5. /\ breakStack \in Seq(Block) /\ continueStack \in Seq(Block)
      /\ \A k \in 1..Len(breakStack) : breakStack[k] \in Homes
      /\ \A k \in 1..Len(continueStack) : continueStack[k] \in Homes
  BY DEF IInv, TypeOK, TargetsHaveHomes
<1>6. CASE Break
  <2> DEFINE to == breakStack[Len(breakStack)]
  <2>1. code' = Emit(code, cur, Br(to)) /\ to \in Block /\ to \in Homes
    BY <1>4, <1>5, <1>6 DEF Break
  <2> HIDE DEF to
  <2> QED
    BY <1>2, <2>1, <1>1, EmitBr, LeafInv
<1>7. CASE Continue
  <2> DEFINE to == continueStack[Len(continueStack)]
  <2>1. code' = Emit(code, cur, Br(to)) /\ to \in Block /\ to \in Homes
    BY <1>4, <1>5, <1>7 DEF Continue
  <2> HIDE DEF to
  <2> QED
    BY <1>2, <2>1, <1>1, EmitBr, LeafInv
<1>8. CASE Return
  <2>1. code' = Emit(code, cur, Ret)
    BY <1>8 DEF Return
  <2> QED
    BY <1>1, <1>2, <2>1, EmitRet, LeafInv
<1> QED
  BY <1>1, <1>3, <1>6, <1>7, <1>8, LeafInv

LEMMA SwitchEnter ==
  ASSUME IInv, EnterSwitch
  PROVE  IInv'
<1> DEFINE merge == made + 1
           f  == [Frame("switch") EXCEPT !.exit = merge, !.old = currentSwitch]
           c1 == EmitIf(TRUE, code, cur, Eval(n + 1, "test"))
           c2 == Emit(c1, cur, SwitchInst(n + 1))
<1>1. /\ phase = "body" /\ phase' = phase
      /\ n < MaxStmts
      /\ made + 1 <= MaxBlocks
      /\ frames' = Append(Asked, f) /\ n' = n + 1
      /\ made' = made + 1
      /\ inserted' = inserted /\ cur' = cur
      /\ code' = c2
      /\ dflt' = [dflt EXCEPT ![n + 1] = merge]
      /\ currentSwitch' = n + 1
      /\ breakStack' = Append(breakStack, merge)
      /\ continueStack' = continueStack /\ cases' = cases
  BY DEF EnterSwitch, CanOpen, CanVisit, Open, EmitIf
<1>2. /\ CodeInv(code, inserted, cur)
      /\ TargetsIn(code, Homes)
      /\ cur \in inserted /\ cur \in Block
      /\ inserted \subseteq 1..made /\ made \in Nat /\ n \in Nat
      /\ MaxBlocks \in Nat /\ inserted \subseteq Block
  BY <1>1, CodeFacts
<1>3. /\ merge \in Block /\ merge \notin inserted
      /\ merge \in (made + 1)..made'
      /\ made' \in made..MaxBlocks
      /\ n + 1 \in Nat /\ n + 1 \in SwitchId
  BY <1>1, <1>2, BoundsAreNat DEF Block, SwitchId
<1>4. TypeOK /\ TargetsHaveHomes /\ StackHeights
  BY DEF IInv
<1> HIDE DEF merge
<1>5. f \in Frames /\ f.kind = "switch" /\ f.exit = merge
  BY <1>3, <1>4 DEF Frame, Frames, FrameKinds, NoSwitch, TypeOK
<1> HIDE DEF f
<1>6. Kept(f) = {merge} /\ Owed(f) = {merge}
  BY <1>5 DEF Kept, Owed
<1>7. Emitted(code, c1, cur, Homes)
  BY <1>2, <1>3, EmitEval DEF CodeInv
<1> HIDE DEF c1
<1>8. Emitted(c1, c2, cur, Homes) /\ EndsInTerminator(c2[cur])
  <2>1. c1 \in [Block -> Seq(Instrs)] /\ TargetsIn(c1, Homes)
    BY <1>7 DEF Emitted
  <2> QED
    BY <1>2, <1>3, <2>1, EmitSwitch
<1> HIDE DEF c2
<1>9. CodeInv(code', inserted', cur')
  BY <1>1, <1>2, <1>7, <1>8 DEF CodeInv, Emitted
<1>10. Opens(f)
  BY <1>1, <1>2, <1>3, <1>5, <1>6 DEF Opens, NoSwitch
<1>11. /\ frames' \in Seq(Frames)
       /\ StackShape' /\ KeptBlocks'
       /\ Homes \cup Owed(f) \subseteq Homes'
       /\ Top' = f
       /\ made' \in 0..MaxBlocks /\ inserted' \subseteq 1..made'
       /\ cur' \in Block
       /\ \A K : Height(frames', K)
                   = Height(frames, K) + IF f.kind \in K THEN 1 ELSE 0
  BY <1>10, OpensFacts
<1>12. /\ breakStack' \in Seq(Block)
       /\ Len(breakStack') = Len(breakStack) + 1
       /\ \A k \in 1..Len(breakStack') : breakStack'[k] \in Homes'
  <2>1. merge \in Homes' /\ Homes \subseteq Homes'
    BY <1>6, <1>11
  <2> QED
    BY <1>1, <1>3, <1>4, <2>1, PushHomes DEF TypeOK, TargetsHaveHomes
<1>13. /\ dflt' \in [SwitchId -> Block \cup {NoBlock}]
       /\ LabelsIn(cases', dflt', Homes')
  <2>1. dflt \in [SwitchId -> Block \cup {NoBlock}] /\ LabelsIn(cases, dflt, Homes)
    BY LabelFacts
  <2>2. merge \in Homes' /\ Homes \subseteq Homes'
    BY <1>6, <1>11
  <2>3. \A s \in SwitchId : dflt'[s] = IF s = n + 1 THEN merge ELSE dflt[s]
    BY <1>1, <2>1
  <2>4. LabelsIn(cases, dflt, Homes')
    BY <2>1, <2>2, LabelsMono
  <2> QED
    BY <1>1, <1>3, <2>1, <2>2, <2>3, <2>4 DEF LabelsIn
<1>14. TypeOK'
  BY <1>1, <1>3, <1>4, <1>9, <1>11, <1>12, <1>13 DEF TypeOK, CodeInv
<1>15. TargetsHaveHomes'
  <2>1. TargetsIn(code', Homes')
    <3>1. TargetsIn(code', Homes)
      BY <1>1, <1>8 DEF Emitted
    <3> QED
      BY <3>1, <1>11, TargetsMono
  <2>2. \A k \in 1..Len(continueStack') : continueStack'[k] \in Homes'
    BY <1>1, <1>4, <1>11 DEF TargetsHaveHomes
  <2> QED
    BY <1>12, <1>13, <2>1, <2>2 DEF TargetsHaveHomes
<1>16. StackHeights'
  <2>1. Height(frames, Loops) \in Nat
    BY <1>4, HeightFacts DEF TypeOK
  <2>2. f.kind \in Breakable /\ f.kind \notin Loops
    BY <1>5 DEF Breakable, Loops
  <2> QED
    BY <1>1, <1>4, <1>11, <1>12, <2>1, <2>2 DEF StackHeights
<1>17. StartsOpen'
  BY <1>1, <1>2 DEF StartsOpen, NoSwitch
<1>18. FreshAreEmpty' /\ BlocksClosed'
  BY <1>1, <1>9 DEF CodeInv, FreshAreEmpty, BlocksClosed, Terminated
<1> QED
  BY <1>11, <1>14, <1>15, <1>16, <1>17, <1>18 DEF IInv

LEMMA SwitchExit ==
  ASSUME IInv, ExitSwitch
  PROVE  IInv'
<1> DEFINE merge == Top.exit
           c1    == FallThrough(merge)
<1>1. /\ phase = "body" /\ phase' = phase /\ Top.kind = "switch"
      /\ frames' = Pop(frames) /\ n' = n /\ made' = made
      /\ inserted' = inserted \cup {merge}
      /\ code' = c1
      /\ cur' = merge
      /\ currentSwitch' = Top.old
      /\ breakStack' = Pop(breakStack)
      /\ continueStack' = continueStack
      /\ cases' = cases /\ dflt' = dflt
  BY DEF ExitSwitch, CanClose, Close
<1>2. n \in Nat
  BY <1>1, CodeFacts
<1>3. Kept(Top) = {merge} /\ Owed(Top) = {merge}
  BY <1>1 DEF Kept, Owed
<1>4. /\ merge \in Block /\ merge \in Homes /\ Len(frames) > 1
      /\ Top.old \in SwitchId \cup {NoSwitch}
  BY <1>1, <1>3, TopBlocks DEF Frames
<1> HIDE DEF merge
<1>5. /\ c1 \in [Block -> Seq(Instrs)]
      /\ TargetsIn(c1, Homes)
      /\ \A x \in Block : x \notin inserted => c1[x] = << >>
      /\ \A x \in inserted : EndsInTerminator(c1[x])
  BY <1>1, <1>4, FallThroughFacts
<1> HIDE DEF c1
<1>6. CodeInv(code', inserted', cur')
  BY <1>1, <1>5 DEF CodeInv
<1>7. Closes
  BY <1>1, <1>2, <1>3, <1>4 DEF Closes
<1>8. TypeOK /\ TargetsHaveHomes /\ StackHeights
  BY DEF IInv
<1>9. /\ frames' \in Seq(Frames)
      /\ StackShape' /\ KeptBlocks'
      /\ Homes \subseteq Homes'
      /\ Top'.kind = "list" \/ Top'.done
      /\ made' \in 0..MaxBlocks /\ inserted' \subseteq 1..made'
      /\ cur' \in Block
      /\ \A K : Height(frames, K)
                  = Height(frames', K) + IF Top.kind \in K THEN 1 ELSE 0
  BY <1>7, ClosesFacts
<1>10. Top.kind \in Breakable /\ Top.kind \notin Loops
  BY <1>1 DEF Breakable, Loops
<1>11. Height(frames', Breakable) \in Nat /\ Height(frames', Loops) \in Nat
  BY <1>9, HeightFacts
<1>12. /\ Len(breakStack) = Height(frames', Breakable) + 1
       /\ Len(continueStack) = Height(frames', Loops)
  BY <1>8, <1>9, <1>10, <1>11 DEF StackHeights
<1>13. /\ breakStack' \in Seq(Block)
       /\ Len(breakStack) = Len(breakStack') + 1
       /\ \A k \in 1..Len(breakStack') : breakStack'[k] \in Homes'
  <2>1. Len(breakStack) >= 1
    BY <1>11, <1>12
  <2> QED
    BY <1>1, <1>8, <1>9, <2>1, PopHomes DEF TypeOK, TargetsHaveHomes
<1>14. TypeOK'
  BY <1>1, <1>2, <1>4, <1>6, <1>8, <1>9, <1>13 DEF TypeOK, CodeInv
<1>15. TargetsHaveHomes'
  BY <1>1, <1>5, <1>8, <1>9, <1>13, TargetsMono, LabelsMono
     DEF TargetsHaveHomes
<1>16. StackHeights'
  <2>1. Len(breakStack') \in Nat
    BY <1>13, LenProperties
  <2> QED
    BY <1>1, <1>11, <1>12, <1>13, <2>1 DEF StackHeights
<1>17. StartsOpen'
  BY <1>9 DEF StartsOpen
<1>18. FreshAreEmpty' /\ BlocksClosed'
  BY <1>1, <1>6 DEF CodeInv, FreshAreEmpty, BlocksClosed, Terminated
<1> QED
  BY <1>9, <1>14, <1>15, <1>16, <1>17, <1>18 DEF IInv

LEMMA ElseEnter ==
  ASSUME IInv, ThenToElse
  PROVE  IInv'
<1> DEFINE L == Len(frames)
           merge == Top.exit
           else  == Top.next
           g     == [Top EXCEPT !.kind = "else", !.done = FALSE,
                                !.flag = ~Terminated(cur)]
           c1    == FallThrough(merge)
<1>1. /\ phase = "body" /\ phase' = phase /\ Top.kind = "then"
      /\ frames' = [frames EXCEPT ![L] = g] /\ n' = n /\ made' = made
      /\ inserted' = inserted \cup {else}
      /\ code' = c1
      /\ cur' = else
      /\ breakStack' = breakStack /\ continueStack' = continueStack
      /\ currentSwitch' = currentSwitch /\ cases' = cases /\ dflt' = dflt
  BY DEF ThenToElse, CanClose, unchangedByIf, Top
<1>2. /\ CodeInv(code, inserted, cur) /\ TargetsIn(code, Homes)
      /\ n \in Nat /\ cur \in inserted /\ inserted \subseteq 1..made
      /\ 1..made \subseteq Block
  BY <1>1, CodeFacts
<1>3. Kept(Top) = {else, merge} /\ Owed(Top) = {else}
  BY <1>1 DEF Kept, Owed
<1>4. /\ Top \in Frames
      /\ {else, merge} \subseteq 1..made /\ {else, merge} \subseteq Block
      /\ else \notin inserted /\ merge \notin inserted /\ else # merge
      /\ else \in Homes
      /\ Len(frames) > 1
  BY <1>1, <1>2, <1>3, TopBlocks DEF FrameBlocks
<1>5. /\ g \in Frames /\ g.kind = "else" /\ ~g.done
      /\ g.exit = merge /\ g.flag = ~Terminated(cur)
  BY <1>4 DEF Frames, FrameKinds
<1> HIDE DEF g, merge, else
<1>6. Kept(g) = {merge} /\ Owed(g) = IF g.flag THEN {merge} ELSE {}
  BY <1>5 DEF Kept, Owed
<1>7. /\ frames \in Seq(Frames) /\ L \in Nat \ {0} /\ L \in 1..L
      /\ Top = frames[L]
  BY <1>1, TopFacts DEF IInv
<1>8. /\ frames' \in Seq(Frames) /\ Len(frames') = L
      /\ \A i \in 1..L : frames'[i] = IF i = L THEN g ELSE frames[i]
  BY <1>1, <1>5, <1>7, ExceptSeq
<1>9. /\ TypeOK /\ TargetsHaveHomes /\ StackHeights
      /\ \A i \in 1..L : i < L => frames[i].kind = "list" \/ frames[i].done
      /\ frames[1].kind = "list"
      /\ \A i \in 1..L : FrameBlocks(frames[i], made, inserted)
      /\ \A i, j \in 1..L : i # j => Kept(frames[i]) \cap Kept(frames[j]) = {}
  BY <1>1 DEF IInv, StackShape, KeptBlocks
<1>10. Top' = g
  BY <1>7, <1>8 DEF Top
<1> HIDE DEF L
<1>11. StackShape'
  <2>1. frames' # << >> /\ 1 \in 1..L /\ 1 # L
    BY <1>4, <1>7, <1>8, EmptySeq DEF L
  <2> QED
    BY <1>1, <1>8, <1>9, <2>1 DEF StackShape
<1>12. KeptBlocks'
  <2>1. \A i \in 1..L : i # L => else \notin Kept(frames[i])
    BY <1>3, <1>7, <1>9
  <2>2. \A i \in 1..L : i # L => FrameBlocks(frames[i], made, inserted')
    BY <1>1, <1>9, <2>1 DEF FrameBlocks
  <2>3. FrameBlocks(g, made, inserted')
    BY <1>1, <1>4, <1>5, <1>6 DEF FrameBlocks
  <2>4. \A i \in 1..L : FrameBlocks(frames'[i], made, inserted')
    BY <1>8, <2>2, <2>3
  <2>5. \A i \in 1..L : Kept(frames'[i]) \subseteq Kept(frames[i])
    BY <1>3, <1>6, <1>7, <1>8
  <2>6. \A i, j \in 1..L :
          i # j => Kept(frames'[i]) \cap Kept(frames'[j]) = {}
    BY <1>9, <2>5
  <2> QED
    BY <1>1, <1>8, <2>4, <2>6 DEF KeptBlocks
<1>13. Homes \cup Owed(g) \subseteq Homes'
  <2>1. \A i \in 1..L : Owed(frames'[i]) \subseteq Homes'
    BY <1>8 DEF Homes
  <2>2. inserted' \subseteq Homes'
    BY DEF Homes
  <2>3. \A i \in 1..L : Owed(frames[i]) \subseteq Homes'
    BY <1>1, <1>3, <1>7, <1>8, <2>1, <2>2
  <2>4. Owed(g) \subseteq Homes'
    BY <1>7, <1>8, <2>1
  <2> QED
    BY <1>1, <2>2, <2>3, <2>4 DEF Homes, L
<1>14. /\ c1 \in [Block -> Seq(Instrs)]
       /\ TargetsIn(c1, Homes')
       /\ \A x \in Block : x \notin inserted => c1[x] = << >>
       /\ \A x \in inserted : EndsInTerminator(c1[x])
  <2>1. CASE Terminated(cur)
    <3>1. c1 = code
      BY <2>1 DEF FallThrough, EmitIf
    <3> HIDE DEF c1
    <3>2. TargetsIn(code, Homes')
      BY <1>2, <1>13, TargetsMono
    <3> QED
      BY <1>2, <2>1, <3>1, <3>2 DEF CodeInv, Terminated
  <2>2. CASE ~Terminated(cur)
    <3> DEFINE H == Homes'
    <3>1. Homes \subseteq H /\ merge \in H /\ merge \in Block
      BY <1>4, <1>5, <1>6, <1>13, <2>2
    <3> HIDE DEF H
    <3>2. /\ c1 \in [Block -> Seq(Instrs)]
          /\ TargetsIn(c1, H)
          /\ \A x \in Block : x \notin inserted => c1[x] = << >>
          /\ \A x \in inserted : EndsInTerminator(c1[x])
      BY <1>1, <3>1, FallThroughFacts
    <3> QED
      BY <3>2 DEF H
  <2> QED
    BY <2>1, <2>2
<1> HIDE DEF c1
<1>15. TypeOK'
  BY <1>1, <1>4, <1>8, <1>9, <1>14 DEF TypeOK
<1>16. TargetsHaveHomes'
  BY <1>1, <1>9, <1>13, <1>14, LabelsMono DEF TargetsHaveHomes
<1>17. StackHeights'
  <2>1. \A i \in 1..L :
          /\ frames'[i].kind \in Breakable <=> frames[i].kind \in Breakable
          /\ frames'[i].kind \in Loops <=> frames[i].kind \in Loops
    BY <1>1, <1>5, <1>7, <1>8 DEF Breakable, Loops
  <2>2. /\ Height(frames', Breakable) = Height(frames, Breakable)
        /\ Height(frames', Loops) = Height(frames, Loops)
    BY <1>8, <2>1, HeightSame DEF L
  <2> QED
    BY <1>1, <1>9, <2>2 DEF StackHeights
<1>18. StartsOpen'
  <2>1. ~EndsInTerminator(code'[cur'])
    BY <1>1, <1>4, <1>14, EmptyIsOpen
  <2> QED
    BY <2>1 DEF StartsOpen, Terminated
<1>19. FreshAreEmpty' /\ BlocksClosed'
  BY <1>1, <1>14 DEF FreshAreEmpty, BlocksClosed, Terminated
<1> QED
  BY <1>11, <1>12, <1>15, <1>16, <1>17, <1>18, <1>19 DEF IInv

LEMMA HeightZero ==
  ASSUME NEW fs, NEW K, \A i \in 1..Len(fs) : fs[i].kind \notin K
  PROVE  Height(fs, K) = 0
<1>1. {i \in 1..Len(fs) : fs[i].kind \in K} = {}
  OBVIOUS
<1> QED
  BY <1>1, FS_EmptySet DEF Height

(* Between functions nothing is open.                                      *)
LEMMA Outside ==
  ASSUME IInv, phase = "global"
  PROVE  /\ frames = << >> /\ Len(frames) = 0
         /\ breakStack = << >> /\ continueStack = << >>
         /\ Homes = inserted
<1>1. frames = << >> /\ Len(frames) = 0
  BY EmptySeq DEF IInv, StackShape
<1>2. Height(frames, Breakable) = 0 /\ Height(frames, Loops) = 0
  BY <1>1, HeightZero
<1>3. breakStack = << >> /\ continueStack = << >>
  BY <1>2, EmptySeq DEF IInv, StackHeights, TypeOK
<1>4. Homes = inserted
  BY <1>1 DEF Homes
<1> QED
  BY <1>1, <1>3, <1>4

LEMMA FnEnter ==
  ASSUME IInv, EnterFnDef
  PROVE  IInv'
<1> DEFINE g == [Frame("list") EXCEPT !.id = 0]
<1>1. /\ phase = "global" /\ phase' = "body"
      /\ frames' = <<g>> /\ n' = 0 /\ made' = 1 /\ inserted' = {1}
      /\ code' = [b \in Block |-> << >>]
      /\ cur' = 1
      /\ cases' = [s \in SwitchId |-> {}]
      /\ dflt' = [s \in SwitchId |-> NoBlock]
      /\ breakStack' = breakStack /\ continueStack' = continueStack
      /\ currentSwitch' = currentSwitch
  BY DEF EnterFnDef
<1>2. g \in Frames /\ g.kind = "list"
  BY DEF Frame, Frames, FrameKinds, NoSwitch
<1> HIDE DEF g
<1>3. breakStack = << >> /\ continueStack = << >> /\ TypeOK
  BY <1>1, Outside DEF IInv
<1>4. Len(breakStack) = 0 /\ Len(continueStack) = 0
  BY <1>3
<1>5. /\ frames' \in Seq(Frames) /\ Len(frames') = 1 /\ frames'[1] = g
      /\ frames' # << >>
  BY <1>1, <1>2
<1>6. 1..1 = {1} /\ 1 \in Block /\ 1 \in 0..MaxBlocks
  BY BoundsAreNat DEF Block
<1>7. TypeOK'
  <2>1. << >> \in Seq(Instrs)
    OBVIOUS
  <2>2. code' \in [Block -> Seq(Instrs)]
    BY <1>1, <2>1
  <2> QED
    BY <1>1, <1>3, <1>5, <1>6, <2>2 DEF TypeOK
<1>8. StackShape'
  BY <1>1, <1>2, <1>5 DEF StackShape
<1>9. KeptBlocks'
  <2>1. Kept(g) = {}
    BY <1>2 DEF Kept
  <2>2. FrameBlocks(g, made', inserted')
    BY <1>2, <2>1 DEF FrameBlocks
  <2>3. \A i \in 1..Len(frames') : i = 1 /\ frames'[i] = g
    BY <1>5
  <2> QED
    BY <2>2, <2>3 DEF KeptBlocks
<1>10. TargetsHaveHomes'
  <2>1. \A b \in Block : Len(code'[b]) = 0
    BY <1>1
  <2> QED
    BY <1>1, <1>4, <2>1 DEF TargetsHaveHomes, TargetsIn, LabelsIn
<1>11. StackHeights'
  <2>1. Height(frames', Breakable) = 0 /\ Height(frames', Loops) = 0
    BY <1>2, <1>5, HeightZero DEF Breakable, Loops
  <2> QED
    BY <1>1, <1>4, <2>1 DEF StackHeights
<1>12. StartsOpen'
  BY <1>2, <1>5 DEF StartsOpen, Top
<1>13. FreshAreEmpty' /\ BlocksClosed'
  BY <1>1 DEF FreshAreEmpty, BlocksClosed
<1> QED
  BY <1>7, <1>8, <1>9, <1>10, <1>11, <1>12, <1>13 DEF IInv

LEMMA FnExit ==
  ASSUME IInv, ExitFnDef
  PROVE  IInv'
<1> DEFINE c1 == EmitIf(~Terminated(cur), code, cur, Ret)
<1>1. /\ phase = "body" /\ phase' = "global"
      /\ Len(frames) = 1 /\ frames' = << >>
      /\ code' = c1
      /\ n' = n /\ made' = made /\ inserted' = inserted /\ cur' = cur
      /\ breakStack' = breakStack /\ continueStack' = continueStack
      /\ currentSwitch' = currentSwitch /\ cases' = cases /\ dflt' = dflt
  BY DEF ExitFnDef
<1>2. /\ CodeInv(code, inserted, cur) /\ TargetsIn(code, Homes)
      /\ cur \in inserted /\ cur \in Block /\ inserted \subseteq Block
  BY <1>1, CodeFacts
<1>3. TypeOK /\ TargetsHaveHomes /\ StackHeights /\ frames[1].kind = "list"
  BY <1>1 DEF IInv, StackShape
<1>4. Homes = inserted
  <2>1. \A i \in 1..Len(frames) : Owed(frames[i]) = {}
    BY <1>1, <1>3 DEF Owed
  <2> QED
    BY <2>1 DEF Homes
<1>5. Homes' = inserted' /\ Len(frames') = 0 /\ frames' \in Seq(Frames)
  BY <1>1 DEF Homes
<1>6. /\ c1 \in [Block -> Seq(Instrs)]
      /\ TargetsIn(c1, Homes)
      /\ \A x \in Block : x # cur => c1[x] = code[x]
      /\ EndsInTerminator(c1[cur])
  <2>1. CASE Terminated(cur)
    <3>1. c1 = code
      BY <2>1 DEF EmitIf
    <3> QED
      BY <1>2, <2>1, <3>1 DEF CodeInv, Terminated
  <2>2. CASE ~Terminated(cur)
    <3>1. c1 = Emit(code, cur, Ret)
      BY <2>2 DEF EmitIf
    <3> HIDE DEF c1
    <3>2. Emitted(code, c1, cur, Homes) /\ EndsInTerminator(c1[cur])
      BY <1>2, <3>1, EmitRet DEF CodeInv
    <3> QED
      BY <3>2 DEF Emitted
  <2> QED
    BY <2>1, <2>2
<1> HIDE DEF c1
<1>7. TypeOK'
  BY <1>1, <1>3, <1>5, <1>6 DEF TypeOK
<1>8. StackShape' /\ KeptBlocks' /\ StartsOpen'
  BY <1>1, <1>5 DEF StackShape, KeptBlocks, StartsOpen
<1>9. TargetsHaveHomes'
  BY <1>1, <1>3, <1>4, <1>5, <1>6 DEF TargetsHaveHomes
<1>10. StackHeights'
  <2>1. \A i \in 1..Len(frames) :
          frames[i].kind \notin Breakable /\ frames[i].kind \notin Loops
    BY <1>1, <1>3 DEF Breakable, Loops
  <2>2. Height(frames, Breakable) = 0 /\ Height(frames, Loops) = 0
    BY <2>1, HeightZero
  <2>3. Height(frames', Breakable) = 0 /\ Height(frames', Loops) = 0
    BY <1>5, HeightZero
  <2> QED
    BY <1>1, <1>3, <2>2, <2>3 DEF StackHeights
<1>11. FreshAreEmpty' /\ BlocksClosed'
  BY <1>1, <1>2, <1>6 DEF CodeInv, FreshAreEmpty, BlocksClosed, Terminated
<1> QED
  BY <1>7, <1>8, <1>9, <1>10, <1>11 DEF IInv

-----------------------------------------------------------------------------
(* The invariant                                                           *)

LEMMA InitInv == Init => IInv
<1> SUFFICES ASSUME Init PROVE IInv
  OBVIOUS
<1>1. /\ phase = "global" /\ frames = << >> /\ Len(frames) = 0
      /\ n = 0 /\ made = 0 /\ inserted = {} /\ cur = NoBlock
      /\ breakStack = << >> /\ continueStack = << >>
      /\ Len(breakStack) = 0 /\ Len(continueStack) = 0
      /\ currentSwitch = NoSwitch
      /\ cases = [s \in SwitchId |-> {}] /\ dflt = [s \in SwitchId |-> NoBlock]
  BY DEF Init
<1>2. code \in [Block -> Seq(Instrs)] /\ \A b \in Block : code[b] = << >>
  <2>1. << >> \in Seq(Instrs) /\ code = [b \in Block |-> << >>]
    BY DEF Init
  <2> QED
    BY <2>1
<1>3. TypeOK
  BY <1>1, <1>2, BoundsAreNat DEF TypeOK
<1>4. StackShape /\ KeptBlocks /\ StartsOpen /\ FreshAreEmpty /\ BlocksClosed
  BY <1>1, <1>2
     DEF StackShape, KeptBlocks, StartsOpen, FreshAreEmpty, BlocksClosed
<1>5. TargetsHaveHomes
  <2>1. \A b \in Block : Len(code[b]) = 0
    BY <1>2
  <2> QED
    BY <1>1, <2>1 DEF TargetsHaveHomes, TargetsIn, LabelsIn
<1>6. StackHeights
  <2>1. Height(frames, Breakable) = 0 /\ Height(frames, Loops) = 0
    BY <1>1, HeightZero
  <2> QED
    BY <1>1, <2>1 DEF StackHeights
<1> QED
  BY <1>3, <1>4, <1>5, <1>6 DEF IInv

LEMMA NextInv == IInv /\ [Next]_vars => IInv'
<1> SUFFICES ASSUME IInv, [Next]_vars PROVE IInv'
  OBVIOUS
<1>1. CASE EnterFnDef
  BY <1>1, FnEnter
<1>2. CASE ExitFnDef
  BY <1>2, FnExit
<1>3. CASE (\E full \in BOOLEAN : ExprStmt(full)) \/ Break \/ Continue \/ Return
  BY <1>3, Leaves
<1>4. CASE EnterCompoundStmt \/ ExitCompoundStmt
  BY <1>4, CompoundEnter, CompoundExit
<1>5. CASE EnterWhile \/ ExitWhile
  BY <1>5, WhileEnter, WhileExit
<1>6. CASE EnterDoWhile \/ ExitDoWhile
  BY <1>6, DoEnter, DoExit
<1>7. CASE \E init, test, step \in BOOLEAN : EnterFor(init, test, step)
  BY <1>7, ForEnter
<1>8. CASE ExitFor
  BY <1>8, ForExit
<1>9. CASE \E hasElse \in BOOLEAN : EnterIf(hasElse)
  BY <1>9, IfEnter
<1>10. CASE ExitIf \/ ThenToElse \/ ExitElse
  BY <1>10, IfExit, ElseEnter, ElseExit
<1>11. CASE EnterSwitch \/ ExitSwitch
  BY <1>11, SwitchEnter, SwitchExit
<1>12. CASE \E isDefault \in BOOLEAN : EnterCase(isDefault)
  BY <1>12, CaseEnter
<1>13. CASE ExitCase
  BY <1>13, CaseExit
<1>14. CASE UNCHANGED vars
  <2>1. Homes' = Homes /\ Top' = Top
    BY <1>14 DEF vars, Homes, Top
  <2> QED
    BY <1>14, <2>1
       DEF vars, IInv, TypeOK, StackShape, FreshAreEmpty, KeptBlocks,
           TargetsHaveHomes, BlocksClosed, StackHeights, StartsOpen, Terminated
<1> QED
  BY <1>1, <1>2, <1>3, <1>4, <1>5, <1>6, <1>7, <1>8, <1>9, <1>10, <1>11,
     <1>12, <1>13, <1>14 DEF Next

(* The inductive invariant holds of every behaviour.                       *)
THEOREM Invariant == Spec => []IInv
BY InitInv, NextInv, PTL DEF Spec

(* Every variable always has its type.                                     *)
THEOREM TypeCorrect == Spec => []TypeOK
<1>1. IInv => TypeOK
  BY DEF IInv
<1> QED
  BY <1>1, Invariant, PTL

(* When FnDef returns, every basic block of the function ends in a         *)
(* terminator and every branch leads to a block of the function: what the  *)
(* ignored answer of llvm::verifyFunction would have said.                 *)
THEOREM Closed == Spec => []FunctionIsClosed
<1>1. IInv => FunctionIsClosed
  <2> SUFFICES ASSUME IInv, phase = "global"
               PROVE  /\ \A b \in inserted : Terminated(b)
                      /\ BranchTargets \subseteq inserted
    BY DEF FunctionIsClosed
  <2>1. \A b \in inserted : Terminated(b)
    BY DEF IInv, BlocksClosed
  <2>2. /\ TargetsIn(code, inserted) /\ LabelsIn(cases, dflt, inserted)
        /\ inserted \subseteq Block
    <3>1. Homes = inserted
      BY Outside
    <3> QED
      BY <3>1, BoundsAreNat
         DEF IInv, TargetsHaveHomes, TypeOK, Block
  <2>3. ASSUME NEW b \in inserted, NEW k \in 1..Len(code[b])
        PROVE  Targets(code[b][k]) \subseteq inserted
    BY <2>2, <2>3 DEF Targets, TargetsIn, LabelsIn
  <2> QED
    BY <2>1, <2>3 DEF BranchTargets
<1> QED
  BY <1>1, Invariant, PTL

-----------------------------------------------------------------------------
(* No code after a terminator, while no switch is open                     *)

Keeps(c, d) == \A x \in Block : WellFormed(c[x]) => WellFormed(d[x])

(* An instruction added to a block that is still open.                     *)
LEMMA KeepsEmit ==
  ASSUME NEW c \in [Block -> Seq(Instrs)], NEW b \in Block, NEW i \in Instrs,
         ~EndsInTerminator(c[b])
  PROVE  LET d == Emit(c, b, i)
         IN  /\ d \in [Block -> Seq(Instrs)]
             /\ Keeps(c, d)
             /\ \A x \in Block : x # b => d[x] = c[x]
<1>1. /\ Emit(c, b, i) \in [Block -> Seq(Instrs)]
      /\ \A x \in Block : x # b => Emit(c, b, i)[x] = c[x]
      /\ WellFormed(c[b]) /\ ~EndsInTerminator(c[b])
           => WellFormed(Emit(c, b, i)[b])
  BY EmitFacts
<1>2. Keeps(c, Emit(c, b, i))
  BY <1>1 DEF Keeps
<1> QED
  BY <1>1, <1>2

LEMMA KeepsEval ==
  ASSUME NEW c \in [Block -> Seq(Instrs)], NEW b \in Block, NEW id \in Nat,
         NEW part \in {"", "expr", "init", "test", "step"}, NEW cond \in BOOLEAN,
         ~EndsInTerminator(c[b])
  PROVE  LET d == EmitIf(cond, c, b, Eval(id, part))
         IN  /\ d \in [Block -> Seq(Instrs)]
             /\ Keeps(c, d)
             /\ \A x \in Block : x # b => d[x] = c[x]
             /\ ~EndsInTerminator(d[b])
<1> DEFINE i == Eval(id, part)
<1>1. i \in Instrs /\ ~IsTerminator(i)
  BY EvalFacts
<1> HIDE DEF i
<1>2. /\ Emit(c, b, i) \in [Block -> Seq(Instrs)]
      /\ Keeps(c, Emit(c, b, i))
      /\ \A x \in Block : x # b => Emit(c, b, i)[x] = c[x]
      /\ ~EndsInTerminator(Emit(c, b, i)[b])
  BY <1>1, EmitFacts, KeepsEmit
<1>3. CASE cond
  BY <1>2, <1>3 DEF EmitIf, i
<1>4. CASE ~cond
  BY <1>4 DEF EmitIf, Keeps
<1> QED
  BY <1>3, <1>4

LEMMA KeepsTrans ==
  ASSUME NEW c, NEW d, NEW e, Keeps(c, d), Keeps(d, e)
  PROVE  Keeps(c, e)
BY DEF Keeps

LEMMA KeepsFall ==
  ASSUME IInv, phase = "body", NEW b \in Block
  PROVE  LET d == FallThrough(b)
         IN  /\ d \in [Block -> Seq(Instrs)]
             /\ Keeps(code, d)
             /\ \A x \in Block : x # cur => d[x] = code[x]
<1>1. code \in [Block -> Seq(Instrs)] /\ cur \in Block
  BY CodeFacts DEF CodeInv
<1>2. Br(b) \in Instrs
  BY BrFacts
<1>3. CASE Terminated(cur)
  BY <1>1, <1>3 DEF FallThrough, EmitIf, Keeps
<1>4. CASE ~Terminated(cur)
  <2>1. FallThrough(b) = Emit(code, cur, Br(b)) /\ ~EndsInTerminator(code[cur])
    BY <1>4 DEF FallThrough, EmitIf, Terminated
  <2> QED
    BY SMTT(30), <1>1, <1>2, <2>1, KeepsEmit
<1> QED
  BY <1>3, <1>4

(* Every statement starts in an open block.                                *)
LEMMA VisitStartsOpen ==
  ASSUME IInv, CanVisit, currentSwitch = NoSwitch
  PROVE  /\ phase = "body"
         /\ ~EndsInTerminator(code[cur])
         /\ code \in [Block -> Seq(Instrs)] /\ cur \in Block
         /\ cur \in inserted /\ inserted \subseteq 1..made
         /\ \A b \in Block : b \notin inserted => code[b] = << >>
         /\ made \in Nat /\ n + 1 \in Nat /\ MaxBlocks \in Nat
BY CodeFacts
   DEF CanVisit, ItemVisited, IInv, StartsOpen, Terminated, CodeInv, NoSwitch

(* The statements that only add to the insertion point.                    *)
LEMMA KeepsAtCur ==
  ASSUME IInv, currentSwitch = NoSwitch, CanVisit, NEW i \in Instrs,
         NEW cond \in BOOLEAN, NEW part \in {"", "expr", "init", "test", "step"}
  PROVE  /\ Keeps(code, EmitIf(cond, code, cur, Eval(n + 1, part)))
         /\ Keeps(code, Emit(code, cur, i))
         /\ Keeps(code, Emit(EmitIf(cond, code, cur, Eval(n + 1, part)), cur, i))
<1> DEFINE c1 == EmitIf(cond, code, cur, Eval(n + 1, part))
<1>1. /\ code \in [Block -> Seq(Instrs)] /\ cur \in Block
      /\ ~EndsInTerminator(code[cur]) /\ n + 1 \in Nat
  BY VisitStartsOpen
<1>2. /\ c1 \in [Block -> Seq(Instrs)] /\ Keeps(code, c1)
      /\ ~EndsInTerminator(c1[cur])
  BY ZenonT(40), <1>1, KeepsEval
<1> HIDE DEF c1
<1>3. Keeps(code, Emit(code, cur, i))
  BY <1>1, KeepsEmit
<1>4. Keeps(code, Emit(c1, cur, i))
  BY <1>1, <1>2, KeepsEmit, KeepsTrans
<1> QED
  BY <1>2, <1>3, <1>4 DEF c1

LEMMA LeavesKeep ==
  ASSUME IInv, currentSwitch = NoSwitch,
         \/ \E full \in BOOLEAN : ExprStmt(full)
         \/ Break \/ Continue \/ Return
  PROVE  Keeps(code, code')
<1>1. CanVisit /\ phase = "body"
  BY DEF ExprStmt, Break, Continue, Return, Leaf, CanVisit
<1>2. ASSUME NEW full \in BOOLEAN, ExprStmt(full)
      PROVE  Keeps(code, code')
  <2>1. code' = EmitIf(full, code, cur, Eval(n + 1, "expr"))
    BY <1>2 DEF ExprStmt
  <2> QED
    BY <1>1, <2>1, RetFacts, KeepsAtCur
<1>3. ASSUME NEW s \in Seq(Block), s # << >>
      PROVE  Br(s[Len(s)]) \in Instrs
  <2>1. Len(s) \in 1..Len(s)
    BY <1>3, LenProperties, EmptySeq
  <2>2. s[Len(s)] \in Block
    BY <2>1, ElementOfSeq
  <2> QED
    BY <2>2, BrFacts
<1>4. breakStack \in Seq(Block) /\ continueStack \in Seq(Block)
  BY DEF IInv, TypeOK
<1>5. CASE Break
  <2>1. /\ code' = Emit(code, cur, Br(breakStack[Len(breakStack)]))
        /\ Br(breakStack[Len(breakStack)]) \in Instrs
    BY <1>3, <1>4, <1>5 DEF Break
  <2> QED
    BY <1>1, <2>1, KeepsAtCur
<1>6. CASE Continue
  <2>1. /\ code' = Emit(code, cur, Br(continueStack[Len(continueStack)]))
        /\ Br(continueStack[Len(continueStack)]) \in Instrs
    BY <1>3, <1>4, <1>6 DEF Continue
  <2> QED
    BY <1>1, <2>1, KeepsAtCur
<1>7. CASE Return
  <2>1. code' = Emit(code, cur, Ret) /\ Ret \in Instrs
    BY <1>7, RetFacts DEF Return
  <2> QED
    BY <1>1, <2>1, KeepsAtCur
<1> QED
  BY <1>2, <1>5, <1>6, <1>7

(* The statements that open: two instructions at most go to the insertion  *)
(* point, the others to a fresh block.                                     *)
LEMMA WhileKeeps ==
  ASSUME IInv, currentSwitch = NoSwitch, EnterWhile
  PROVE  Keeps(code, code')
<1> DEFINE loop  == made + 1
           after == made + 2
           cond  == made + 3
           c1 == Emit(code, cur, Br(cond))
           c2 == EmitIf(TRUE, c1, cond, Eval(n + 1, "test"))
           c3 == Emit(c2, cond, CondBr(n + 1, loop, after))
<1>1. CanVisit /\ made + 3 <= MaxBlocks /\ code' = c3
  BY DEF EnterWhile, CanOpen, EmitIf
<1>2. /\ ~EndsInTerminator(code[cur])
      /\ code \in [Block -> Seq(Instrs)] /\ cur \in Block
      /\ cur \in inserted /\ inserted \subseteq 1..made
      /\ \A b \in Block : b \notin inserted => code[b] = << >>
      /\ made \in Nat /\ n + 1 \in Nat /\ MaxBlocks \in Nat
  BY <1>1, VisitStartsOpen
<1>3. /\ loop \in Block /\ after \in Block /\ cond \in Block
      /\ cond \notin inserted /\ cond # cur
  BY <1>1, <1>2 DEF Block
<1> HIDE DEF loop, after, cond
<1>4. Br(cond) \in Instrs /\ CondBr(n + 1, loop, after) \in Instrs
  BY <1>2, <1>3, BrFacts, CondBrFacts
<1>5. /\ c1 \in [Block -> Seq(Instrs)] /\ Keeps(code, c1)
      /\ c1[cond] = code[cond]
  BY <1>2, <1>3, <1>4, KeepsEmit
<1> HIDE DEF c1
<1>6. ~EndsInTerminator(c1[cond])
  BY <1>2, <1>3, <1>5, EmptyIsOpen
<1>7. /\ c2 \in [Block -> Seq(Instrs)] /\ Keeps(c1, c2)
      /\ ~EndsInTerminator(c2[cond])
  BY <1>2, <1>3, <1>5, <1>6, KeepsEval
<1> HIDE DEF c2
<1>8. Keeps(c2, c3)
  BY <1>3, <1>4, <1>7, KeepsEmit
<1> HIDE DEF c3
<1> QED
  BY <1>1, <1>5, <1>7, <1>8, KeepsTrans

LEMMA ForKeeps ==
  ASSUME IInv, currentSwitch = NoSwitch,
         NEW init \in BOOLEAN, NEW test \in BOOLEAN, NEW step \in BOOLEAN,
         EnterFor(init, test, step)
  PROVE  Keeps(code, code')
<1> DEFINE loop  == made + 1
           after == made + 3
           cond  == made + 4
           last  == IF test THEN CondBr(n + 1, loop, after) ELSE Br(loop)
           c1 == EmitIf(init, code, cur, Eval(n + 1, "init"))
           c2 == Emit(c1, cur, Br(cond))
           c3 == EmitIf(test, c2, cond, Eval(n + 1, "test"))
           c4 == Emit(c3, cond, last)
<1>1. CanVisit /\ made + 4 <= MaxBlocks /\ code' = c4
  BY DEF EnterFor, CanOpen
<1>2. /\ ~EndsInTerminator(code[cur])
      /\ code \in [Block -> Seq(Instrs)] /\ cur \in Block
      /\ cur \in inserted /\ inserted \subseteq 1..made
      /\ \A b \in Block : b \notin inserted => code[b] = << >>
      /\ made \in Nat /\ n + 1 \in Nat /\ MaxBlocks \in Nat
  BY <1>1, VisitStartsOpen
<1>3. /\ loop \in Block /\ after \in Block /\ cond \in Block
      /\ cond \notin inserted /\ cond # cur
  BY <1>1, <1>2 DEF Block
<1> HIDE DEF loop, after, cond
<1>4. Br(cond) \in Instrs /\ last \in Instrs
  BY <1>2, <1>3, BrFacts, CondBrFacts
<1> HIDE DEF last
<1>5. /\ c1 \in [Block -> Seq(Instrs)] /\ Keeps(code, c1)
      /\ \A x \in Block : x # cur => c1[x] = code[x]
      /\ ~EndsInTerminator(c1[cur])
  <2>1. /\ ~EndsInTerminator(code[cur]) /\ n + 1 \in Nat
        /\ code \in [Block -> Seq(Instrs)] /\ cur \in Block
    BY <1>2
  <2>2. /\ c1 \in [Block -> Seq(Instrs)] /\ Keeps(code, c1)
        /\ ~EndsInTerminator(c1[cur])
    BY <2>1, KeepsEval
  <2>3. \A x \in Block : x # cur => c1[x] = code[x]
    BY <2>1 DEF EmitIf, Emit
  <2> QED
    BY <2>2, <2>3
<1> HIDE DEF c1
<1>6. /\ c2 \in [Block -> Seq(Instrs)] /\ Keeps(c1, c2)
      /\ \A x \in Block : x # cur => c2[x] = c1[x]
  BY <1>2, <1>4, <1>5, KeepsEmit
<1> HIDE DEF c2
<1>7. ~EndsInTerminator(c2[cond])
  BY <1>2, <1>3, <1>5, <1>6, EmptyIsOpen
<1>8. /\ c3 \in [Block -> Seq(Instrs)] /\ Keeps(c2, c3)
      /\ ~EndsInTerminator(c3[cond])
  BY <1>2, <1>3, <1>6, <1>7, KeepsEval
<1> HIDE DEF c3
<1>9. Keeps(c3, c4)
  BY <1>3, <1>4, <1>8, KeepsEmit
<1> HIDE DEF c4
<1>10. Keeps(code, c2) /\ Keeps(c2, c4)
  BY <1>5, <1>6, <1>8, <1>9, KeepsTrans
<1> QED
  BY <1>1, <1>10, KeepsTrans

(* The other statements that open a visit.                                 *)
LEMMA OpeningsKeep ==
  ASSUME IInv, currentSwitch = NoSwitch,
         \/ EnterDoWhile \/ EnterSwitch
         \/ \E hasElse \in BOOLEAN : EnterIf(hasElse)
  PROVE  Keeps(code, code')
<1>1. CASE EnterDoWhile
  <2>1. CanVisit /\ made + 3 <= MaxBlocks /\ code' = Emit(code, cur, Br(made + 1))
    BY <1>1 DEF EnterDoWhile, CanOpen
  <2>2. made + 1 \in Block
    BY <2>1, VisitStartsOpen DEF Block
  <2> QED
    BY <2>1, <2>2, BrFacts, KeepsAtCur
<1>2. CASE EnterSwitch
  <2> DEFINE i == SwitchInst(n + 1)
  <2>1. /\ CanVisit
        /\ code' = Emit(EmitIf(TRUE, code, cur, Eval(n + 1, "test")), cur, i)
    BY <1>2 DEF EnterSwitch, CanOpen, EmitIf
  <2>2. i \in Instrs
    BY <2>1, VisitStartsOpen, SwitchInstFacts
  <2> HIDE DEF i
  <2> QED
    BY <2>1, <2>2, KeepsAtCur
<1>3. ASSUME NEW hasElse \in BOOLEAN, EnterIf(hasElse)
      PROVE  Keeps(code, code')
  <2> DEFINE to == IF hasElse THEN made + 3 ELSE made + 2
             i  == CondBr(n + 1, made + 1, to)
  <2>1. /\ CanVisit /\ made + 3 <= MaxBlocks
        /\ code' = Emit(EmitIf(TRUE, code, cur, Eval(n + 1, "test")), cur, i)
    BY <1>3 DEF EnterIf, CanOpen, EmitIf
  <2>2. made + 1 \in Block /\ to \in Block /\ n + 1 \in Nat
    BY <2>1, VisitStartsOpen DEF Block
  <2> HIDE DEF to
  <2>3. i \in Instrs
    BY <2>2, CondBrFacts
  <2> HIDE DEF i
  <2> QED
    BY <2>1, <2>3, KeepsAtCur
<1> QED
  BY <1>1, <1>2, <1>3

(* Closing a loop that tests or steps at its end fills in the fresh block. *)
LEMMA TailKeeps ==
  ASSUME IInv, ExitDoWhile \/ ExitFor
  PROVE  Keeps(code, code')
<1>1. /\ phase = "body" /\ Top.kind \in {"do", "for"}
  BY DEF ExitDoWhile, ExitFor, CanClose
<1> DEFINE tail == Top.next
           part == IF ExitDoWhile THEN "test" ELSE "step"
           cond == IF ExitDoWhile THEN TRUE ELSE Top.flag
           last == IF ExitDoWhile THEN CondBr(Top.id, Top.head, Top.exit)
                                  ELSE Br(Top.head)
           c1 == FallThrough(tail)
           c2 == EmitIf(cond, c1, tail, Eval(Top.id, part))
           c3 == Emit(c2, tail, last)
<1>2. code' = c3
  BY DEF ExitDoWhile, ExitFor, EmitIf
<1>3. Kept(Top) = {tail, Top.exit} /\ Owed(Top) = {tail, Top.exit}
  BY <1>1 DEF Kept, Owed
<1>4. /\ tail \in Block /\ Top.exit \in Block /\ tail \notin inserted
      /\ Top.head \in Block /\ Top.id \in Nat /\ Top.flag \in BOOLEAN
      /\ cur \in inserted /\ cur \in Block
      /\ \A b \in Block : b \notin inserted => code[b] = << >>
  BY <1>1, <1>3, TopBlocks, CodeFacts DEF FrameBlocks, Frames, CodeInv
<1>5. last \in Instrs /\ cond \in BOOLEAN /\ part \in {"", "expr", "init", "test", "step"}
  BY <1>4, BrFacts, CondBrFacts
<1> HIDE DEF tail, part, cond, last
<1>6. /\ c1 \in [Block -> Seq(Instrs)] /\ Keeps(code, c1)
      /\ \A x \in Block : x # cur => c1[x] = code[x]
  BY <1>1, <1>4, KeepsFall
<1> HIDE DEF c1
<1>7. ~EndsInTerminator(c1[tail])
  BY <1>4, <1>6, EmptyIsOpen
<1>8. /\ c2 \in [Block -> Seq(Instrs)] /\ Keeps(c1, c2)
      /\ ~EndsInTerminator(c2[tail])
  BY ZenonT(40), <1>4, <1>5, <1>6, <1>7, KeepsEval
<1> HIDE DEF c2
<1>9. Keeps(c2, c3)
  BY <1>4, <1>5, <1>8, KeepsEmit
<1> HIDE DEF c3
<1> QED
  BY <1>2, <1>6, <1>8, <1>9, KeepsTrans

(* Everything else closes the insertion point if it is open, or adds       *)
(* nothing.                                                                *)
LEMMA FallsKeep ==
  ASSUME IInv, ExitWhile \/ ExitIf \/ ThenToElse \/ ExitElse \/ ExitSwitch
  PROVE  Keeps(code, code')
<1>1. /\ phase = "body" /\ Top.kind \in {"while", "if", "then", "else", "switch"}
      /\ code' = FallThrough(IF Top.kind = "while" THEN Top.next ELSE Top.exit)
  BY DEF ExitWhile, ExitIf, ThenToElse, ExitElse, ExitSwitch, CanClose
<1>2. Top.exit \in Block
  <2>1. Top.exit \in Kept(Top)
    BY <1>1 DEF Kept
  <2> QED
    BY <1>1, <2>1, TopBlocks
<1>3. Top.kind = "while" => Top.next \in Block
  BY <1>1, TopBlocks, CodeFacts DEF FrameBlocks
<1> QED
  BY <1>1, <1>2, <1>3, KeepsFall

LEMMA FunctionKeeps ==
  ASSUME IInv, EnterFnDef \/ ExitFnDef
  PROVE  Keeps(code, code')
<1>1. CASE EnterFnDef
  <2>1. \A b \in Block : Len(code'[b]) = 0
    BY <1>1 DEF EnterFnDef
  <2> QED
    BY <2>1 DEF Keeps, WellFormed
<1>2. CASE ExitFnDef
  <2>1. code \in [Block -> Seq(Instrs)] /\ cur \in Block
    BY <1>2, CodeFacts DEF ExitFnDef, CodeInv
  <2>2. CASE Terminated(cur)
    BY <1>2, <2>2 DEF ExitFnDef, EmitIf, Keeps
  <2>3. CASE ~Terminated(cur)
    <3>1. code' = Emit(code, cur, Ret) /\ ~EndsInTerminator(code[cur])
      BY <1>2, <2>3 DEF ExitFnDef, EmitIf, Terminated
    <3> QED
      BY <2>1, <3>1, RetFacts, KeepsEmit
  <2> QED
    BY <2>2, <2>3
<1> QED
  BY <1>1, <1>2

(* The rule of BlockItemList, outside every switch: no step adds an        *)
(* instruction after a terminator.                                         *)
THEOREM NothingAfterTerminator == Spec => NoCodeAfterTerminatorOutsideSwitch
<1> DEFINE Kept1 == \A b \in Block :
                      /\ currentSwitch = NoSwitch
                      /\ WellFormed(code[b])
                      => WellFormed(code'[b])
<1>1. IInv /\ [Next]_vars => [Kept1]_vars
  <2> SUFFICES ASSUME IInv, Next, currentSwitch = NoSwitch
               PROVE  Keeps(code, code')
    BY DEF Keeps
  <2>1. CASE EnterFnDef \/ ExitFnDef
    BY <2>1, FunctionKeeps
  <2>2. CASE (\E full \in BOOLEAN : ExprStmt(full)) \/ Break \/ Continue \/ Return
    BY <2>2, LeavesKeep
  <2>3. CASE EnterCompoundStmt \/ ExitCompoundStmt \/ ExitCase
    BY <2>3
       DEF EnterCompoundStmt, ExitCompoundStmt, ExitCase, unchangedByList, Keeps
  <2>4. CASE EnterWhile
    BY <2>4, WhileKeeps
  <2>5. CASE \E init, test, step \in BOOLEAN : EnterFor(init, test, step)
    BY <2>5, ForKeeps
  <2>6. CASE \/ EnterDoWhile \/ EnterSwitch
             \/ \E hasElse \in BOOLEAN : EnterIf(hasElse)
    BY <2>6, OpeningsKeep
  <2>7. CASE ExitDoWhile \/ ExitFor
    BY <2>7, TailKeeps
  <2>8. CASE ExitWhile \/ ExitIf \/ ThenToElse \/ ExitElse \/ ExitSwitch
    BY <2>8, FallsKeep
  <2>9. CASE \E isDefault \in BOOLEAN : EnterCase(isDefault)
    BY <2>9 DEF EnterCase
  <2> QED
    BY <2>1, <2>2, <2>3, <2>4, <2>5, <2>6, <2>7, <2>8, <2>9 DEF Next
<1> QED
  BY <1>1, Invariant, PTL DEF Spec, NoCodeAfterTerminatorOutsideSwitch

-----------------------------------------------------------------------------
(* The loops and switches that are open                                    *)

(* Depth, of a given call stack                                            *)
Rank(fs, kinds, i) == Cardinality({j \in 1..i : fs[j].kind \in kinds})

(* The stack s has for each statement of these kinds the block that is in  *)
(* its place in blocks.                                                    *)
Mirrors(s, fs, kinds, blocks) ==
  /\ Len(s) = Rank(fs, kinds, Len(fs))
  /\ \A i \in 1..Len(fs) : fs[i].kind \in kinds => s[Rank(fs, kinds, i)] = blocks[i]

Exits(fs) == [i \in 1..Len(fs) |-> fs[i].exit]
Nexts(fs) == [i \in 1..Len(fs) |-> fs[i].next]

(* The switch that the i outermost statements leave a label in             *)
Innermost(fs, i, switch) ==
  \/ switch = NoSwitch /\ \A j \in 1..i : fs[j].kind # "switch"
  \/ \E k \in 1..i : /\ fs[k].kind = "switch" /\ fs[k].id = switch
                     /\ \A j \in k + 1..i : fs[j].kind # "switch"

(* What each of the m outermost statements has saved, if it is a switch,   *)
(* is the switch around it.                                                *)
Remembers(fs, m) ==
  \A i \in 1..m : fs[i].kind = "switch" => Innermost(fs, i - 1, fs[i].old)

SwitchesRemember(fs, switch) ==
  /\ Innermost(fs, Len(fs), switch)
  /\ Remembers(fs, Len(fs))

Context ==
  /\ Mirrors(breakStack, frames, Breakable, Exits(frames))
  /\ Mirrors(continueStack, frames, Loops, Nexts(frames))
  /\ SwitchesRemember(frames, currentSwitch)

-----------------------------------------------------------------------------
(* Counting the statements of some kinds                                   *)

(* What a statement keeps while it is open                                 *)
Alike(f, g) ==
  /\ g.kind \in Breakable \/ f.kind \in Breakable => g.kind = f.kind
  /\ g.exit = f.exit /\ g.next = f.next /\ g.id = f.id /\ g.old = f.old

LEMMA RankFacts ==
  ASSUME NEW fs, NEW K, NEW i \in Nat
  PROVE  /\ Rank(fs, K, i) \in Nat
         /\ Rank(fs, K, 0) = 0
         /\ fs[i + 1].kind \in K => Rank(fs, K, i + 1) = Rank(fs, K, i) + 1
         /\ fs[i + 1].kind \notin K => Rank(fs, K, i + 1) = Rank(fs, K, i)
<1> DEFINE Those(m) == {j \in 1..m : fs[j].kind \in K}
<1>1. IsFiniteSet(Those(i)) /\ Cardinality(Those(i)) \in Nat
  <2>1. IsFiniteSet(1..i)
    BY FS_Interval
  <2>2. IsFiniteSet(Those(i))
    BY <2>1, FS_Subset
  <2> QED
    BY <2>2, FS_CardinalityType
<1>2. Those(0) = {}
  OBVIOUS
<1>3. i + 1 \notin 1..i /\ \A j : j \in 1..i + 1 <=> j \in 1..i \/ j = i + 1
  OBVIOUS
<1>4. Those(i + 1) = IF fs[i + 1].kind \in K THEN Those(i) \cup {i + 1} ELSE Those(i)
  BY <1>3
<1>5. i + 1 \notin Those(i)
  BY <1>3
<1> HIDE DEF Those
<1>6. /\ fs[i + 1].kind \in K => Cardinality(Those(i + 1)) = Cardinality(Those(i)) + 1
      /\ fs[i + 1].kind \notin K => Cardinality(Those(i + 1)) = Cardinality(Those(i))
  <2>1. Cardinality(Those(i) \cup {i + 1}) = Cardinality(Those(i)) + 1
    BY <1>1, <1>5, FS_AddElement
  <2> QED
    BY <1>4, <2>1
<1>7. Cardinality(Those(0)) = 0
  BY <1>2, FS_EmptySet
<1> QED
  BY <1>1, <1>6, <1>7 DEF Rank, Those

LEMMA RankGrows ==
  ASSUME NEW fs, NEW K, NEW i \in Nat, NEW m \in Nat, i <= m
  PROVE  /\ Rank(fs, K, i) <= Rank(fs, K, m)
         /\ i >= 1 /\ fs[i].kind \in K => Rank(fs, K, i) >= 1
<1> DEFINE Those(l) == {j \in 1..l : fs[j].kind \in K}
<1>1. IsFiniteSet(Those(m)) /\ Those(i) \subseteq Those(m)
  <2>1. IsFiniteSet(1..m)
    BY FS_Interval
  <2>2. IsFiniteSet(Those(m))
    BY <2>1, FS_Subset
  <2>3. 1..i \subseteq 1..m
    OBVIOUS
  <2> QED
    BY <2>2, <2>3
<1>2. Cardinality(Those(i)) <= Cardinality(Those(m))
  <2> HIDE DEF Those
  <2> QED
    BY <1>1, FS_Subset
<1>3. ASSUME i >= 1, fs[i].kind \in K PROVE Rank(fs, K, i) >= 1
  <2>1. i - 1 \in Nat /\ i - 1 + 1 = i
    BY <1>3
  <2>2. Rank(fs, K, i - 1) \in Nat /\ Rank(fs, K, i - 1 + 1) = Rank(fs, K, i - 1) + 1
    BY <1>3, <2>1, RankFacts
  <2> QED
    BY <2>1, <2>2
<1> QED
  BY <1>2, <1>3 DEF Rank, Those

SameKinds(fs, gs, K, m) == \A j \in 1..m : gs[j].kind \in K <=> fs[j].kind \in K

LEMMA RankSame ==
  ASSUME NEW fs, NEW gs, NEW K, NEW n1 \in Nat, SameKinds(fs, gs, K, n1)
  PROVE  \A i \in 0..n1 : Rank(gs, K, i) = Rank(fs, K, i)
<1> TAKE i \in 0..n1
<1>1. 1..i \subseteq 1..n1
  OBVIOUS
<1>2. {j \in 1..i : gs[j].kind \in K} = {j \in 1..i : fs[j].kind \in K}
  BY <1>1 DEF SameKinds
<1> QED
  BY <1>2 DEF Rank

LEMMA RankPlace ==
  ASSUME NEW fs, NEW K, NEW m \in Nat, NEW i \in 1..m, fs[i].kind \in K
  PROVE  Rank(fs, K, i) \in 1..Rank(fs, K, m)
<1>1. i \in Nat /\ i <= m /\ i >= 1
  OBVIOUS
<1>2. Rank(fs, K, i) \in Nat /\ Rank(fs, K, m) \in Nat
  BY ONLY <1>1, m \in Nat, RankFacts
<1>3. Rank(fs, K, i) <= Rank(fs, K, m)
  BY ONLY <1>1, m \in Nat, RankGrows
<1>4. Rank(fs, K, i) >= 1
  BY ONLY <1>1, m \in Nat, fs[i].kind \in K, RankGrows
<1> QED
  BY <1>2, <1>3, <1>4

-----------------------------------------------------------------------------
(* The stacks                                                              *)

(* The outermost i statements of both call stacks are the same.            *)
Below(fs, gs, i) == \A j \in 1..i : Alike(fs[j], gs[j])

LEMMA BelowFacts ==
  ASSUME NEW fs, NEW gs, NEW m \in Nat, Below(fs, gs, m), NEW K \in SUBSET Breakable
  PROVE  /\ SameKinds(fs, gs, K, m)
         /\ \A i \in 0..m : Rank(gs, K, i) = Rank(fs, K, i)
<1>1. SameKinds(fs, gs, K, m)
  BY DEF Below, Alike, SameKinds
<1>2. \A i \in 0..m : Rank(gs, K, i) = Rank(fs, K, i)
  BY ONLY m \in Nat, <1>1, RankSame
<1> QED
  BY <1>1, <1>2

SameBlocks(xs, ys, m) == \A i \in 1..m : ys[i] = xs[i]

(* The stack t is s with b on top, if f is of these kinds.                 *)
Pushed(s, t, f, K, b) == t = IF f.kind \in K THEN Append(s, b) ELSE s

(* A statement is opened: its block goes on top, if it is of these kinds.  *)
LEMMA MirrorPush ==
  ASSUME NEW T, NEW s \in Seq(T), NEW K \in SUBSET Breakable,
         NEW fs, NEW gs, NEW blocks, NEW gblocks, NEW m \in Nat,
         Len(fs) = m, Len(gs) = m + 1, Below(fs, gs, m),
         SameBlocks(blocks, gblocks, m),
         Mirrors(s, fs, K, blocks),
         gs[m + 1].kind \in K => gblocks[m + 1] \in T,
         NEW t, Pushed(s, t, gs[m + 1], K, gblocks[m + 1])
  PROVE  Mirrors(t, gs, K, gblocks)
<1> DEFINE r == Rank(fs, K, m)
<1>1. /\ r \in Nat /\ Len(s) = r
      /\ \A i \in 1..m : fs[i].kind \in K => s[Rank(fs, K, i)] = blocks[i]
  BY RankFacts DEF Mirrors
<1>2. /\ \A i \in 1..m : gs[i].kind \in K <=> fs[i].kind \in K
      /\ \A i \in 0..m : Rank(gs, K, i) = Rank(fs, K, i)
  <2>1. SameKinds(fs, gs, K, m) /\ \A i \in 0..m : Rank(gs, K, i) = Rank(fs, K, i)
    BY ONLY m \in Nat, Below(fs, gs, m), K \in SUBSET Breakable, BelowFacts
  <2> QED
    BY <2>1 DEF SameKinds
<1>3. /\ gs[m + 1].kind \in K => Rank(gs, K, m + 1) = r + 1
      /\ gs[m + 1].kind \notin K => Rank(gs, K, m + 1) = r
  <2>1. /\ gs[m + 1].kind \in K => Rank(gs, K, m + 1) = Rank(gs, K, m) + 1
        /\ gs[m + 1].kind \notin K => Rank(gs, K, m + 1) = Rank(gs, K, m)
    BY ONLY m \in Nat, RankFacts
  <2> QED
    BY <1>2, <2>1
<1>4. ASSUME NEW i \in 1..m, fs[i].kind \in K
      PROVE  Rank(fs, K, i) \in 1..r
  BY ONLY m \in Nat, i \in 1..m, <1>4, RankPlace
<1>5. Len(t) = Rank(gs, K, m + 1)
  <2>1. CASE gs[m + 1].kind \in K
    <3>1. t = Append(s, gblocks[m + 1]) /\ gblocks[m + 1] \in T
      BY <2>1 DEF Pushed
    <3>2. Len(t) = Len(s) + 1
      BY ONLY s \in Seq(T), <3>1, AppendProperties
    <3> QED
      BY <1>1, <1>3, <2>1, <3>2
  <2>2. CASE gs[m + 1].kind \notin K
    BY <1>1, <1>3, <2>2 DEF Pushed
  <2> QED
    BY <2>1, <2>2
<1>6. ASSUME NEW i \in 1..m, gs[i].kind \in K
      PROVE  t[Rank(gs, K, i)] = gblocks[i]
  <2>1. fs[i].kind \in K /\ Rank(gs, K, i) = Rank(fs, K, i) /\ gblocks[i] = blocks[i]
    BY <1>2, <1>6 DEF SameBlocks
  <2>2. s[Rank(fs, K, i)] = blocks[i] /\ Rank(fs, K, i) \in 1..r
    BY <1>1, <1>4, <2>1
  <2>3. t[Rank(fs, K, i)] = s[Rank(fs, K, i)]
    BY ONLY s \in Seq(T), gs[m + 1].kind \in K => gblocks[m + 1] \in T,
            Pushed(s, t, gs[m + 1], K, gblocks[m + 1]),
            <1>1, <2>2, AppendProperties DEF Pushed
  <2> QED
    BY <2>1, <2>2, <2>3
<1>7. ASSUME gs[m + 1].kind \in K
      PROVE  t[Rank(gs, K, m + 1)] = gblocks[m + 1]
  <2>1. Rank(gs, K, m + 1) = Len(s) + 1 /\ t = Append(s, gblocks[m + 1])
    BY <1>1, <1>3, <1>7 DEF Pushed
  <2> QED
    BY <1>7, <2>1, AppendProperties
<1>8. ASSUME NEW i \in 1..m + 1, gs[i].kind \in K
      PROVE  t[Rank(gs, K, i)] = gblocks[i]
  <2>1. CASE i \in 1..m
    BY <1>6, <1>8, <2>1
  <2>2. CASE i = m + 1
    BY <1>7, <1>8, <2>2
  <2>3. i \in 1..m \/ i = m + 1
    BY ONLY m \in Nat, i \in 1..m + 1
  <2> QED
    BY ONLY <2>1, <2>2, <2>3
<1> QED
  BY <1>5, <1>8 DEF Mirrors

(* The stack t is s without its top, if f is of these kinds.               *)
Popped(s, t, f, K) == t = IF f.kind \in K THEN Pop(s) ELSE s

(* A statement is closed: its block goes from the top.                     *)
LEMMA MirrorPop ==
  ASSUME NEW T, NEW s \in Seq(T), NEW K \in SUBSET Breakable,
         NEW fs, NEW gs, NEW blocks, NEW gblocks, NEW m \in Nat,
         Len(fs) = m + 1, Len(gs) = m, Below(fs, gs, m),
         SameBlocks(blocks, gblocks, m),
         Mirrors(s, fs, K, blocks),
         NEW t, Popped(s, t, fs[m + 1], K)
  PROVE  Mirrors(t, gs, K, gblocks)
<1> DEFINE r == Rank(fs, K, m)
<1>1. /\ r \in Nat /\ Len(s) = Rank(fs, K, m + 1)
      /\ fs[m + 1].kind \in K => Rank(fs, K, m + 1) = r + 1
      /\ fs[m + 1].kind \notin K => Rank(fs, K, m + 1) = r
  <2>1. /\ r \in Nat
        /\ fs[m + 1].kind \in K => Rank(fs, K, m + 1) = r + 1
        /\ fs[m + 1].kind \notin K => Rank(fs, K, m + 1) = r
    BY ONLY m \in Nat, RankFacts
  <2> QED
    BY <2>1 DEF Mirrors
<1>2. \A i \in 1..m : fs[i].kind \in K => s[Rank(fs, K, i)] = blocks[i]
  BY DEF Mirrors
<1>3. /\ \A i \in 1..m : gs[i].kind \in K <=> fs[i].kind \in K
      /\ \A i \in 0..m : Rank(gs, K, i) = Rank(fs, K, i)
  <2>1. SameKinds(fs, gs, K, m) /\ \A i \in 0..m : Rank(gs, K, i) = Rank(fs, K, i)
    BY ONLY m \in Nat, Below(fs, gs, m), K \in SUBSET Breakable, BelowFacts
  <2> QED
    BY <2>1 DEF SameKinds
<1>4. Len(t) = r /\ \A l \in 1..r : t[l] = s[l]
  <2>1. CASE fs[m + 1].kind \in K
    <3>1. Len(s) = r + 1 /\ t = Pop(s)
      BY <1>1, <2>1 DEF Popped
    <3>2. s # << >>
      BY <1>1, <3>1
    <3> QED
      BY ONLY s \in Seq(T), <1>1, <3>1, <3>2, PopFacts
  <2>2. CASE fs[m + 1].kind \notin K
    BY <1>1, <2>2 DEF Popped
  <2> QED
    BY <2>1, <2>2
<1>5. ASSUME NEW i \in 1..m, gs[i].kind \in K
      PROVE  t[Rank(gs, K, i)] = gblocks[i]
  <2>1. fs[i].kind \in K /\ Rank(gs, K, i) = Rank(fs, K, i) /\ gblocks[i] = blocks[i]
    BY <1>3, <1>5 DEF SameBlocks
  <2>2. Rank(fs, K, i) \in 1..r
    BY ONLY m \in Nat, i \in 1..m, <2>1, RankPlace
  <2> QED
    BY <1>2, <1>4, <2>1, <2>2
<1>6. Rank(gs, K, m) = r
  BY <1>3
<1> QED
  BY <1>4, <1>5, <1>6 DEF Mirrors

LEMMA MirrorSame ==
  ASSUME NEW s, NEW K \in SUBSET Breakable,
         NEW fs, NEW gs, NEW blocks, NEW gblocks, NEW m \in Nat,
         Len(fs) = m, Len(gs) = m, Below(fs, gs, m),
         SameBlocks(blocks, gblocks, m),
         Mirrors(s, fs, K, blocks)
  PROVE  Mirrors(s, gs, K, gblocks)
<1>1. /\ \A i \in 1..m : gs[i].kind \in K <=> fs[i].kind \in K
      /\ \A i \in 0..m : Rank(gs, K, i) = Rank(fs, K, i)
  <2>1. SameKinds(fs, gs, K, m) /\ \A i \in 0..m : Rank(gs, K, i) = Rank(fs, K, i)
    BY ONLY m \in Nat, Below(fs, gs, m), K \in SUBSET Breakable, BelowFacts
  <2> QED
    BY <2>1 DEF SameKinds
<1> QED
  BY <1>1 DEF Mirrors, SameBlocks

-----------------------------------------------------------------------------
(* The switch that is open                                                 *)

LEMMA InnermostSame ==
  ASSUME NEW fs, NEW gs, NEW m \in Nat, Below(fs, gs, m), NEW i \in 0..m,
         NEW switch, Innermost(fs, i, switch)
  PROVE  Innermost(gs, i, switch)
<1>1. /\ \A j \in 1..i : j \in 1..m
      /\ \A k \in 1..i : \A j \in k + 1..i : j \in 1..m
  OBVIOUS
<1>2. \A j \in 1..m : /\ gs[j].kind = "switch" <=> fs[j].kind = "switch"
                      /\ gs[j].id = fs[j].id
  BY DEF Below, Alike, Breakable
<1>3. CASE switch = NoSwitch /\ \A j \in 1..i : fs[j].kind # "switch"
  BY <1>1, <1>2, <1>3 DEF Innermost
<1>4. ASSUME NEW k \in 1..i, fs[k].kind = "switch", fs[k].id = switch,
             \A j \in k + 1..i : fs[j].kind # "switch"
      PROVE  Innermost(gs, i, switch)
  BY <1>1, <1>2, <1>4 DEF Innermost
<1> QED
  BY <1>3, <1>4 DEF Innermost

(* One more statement that is no switch leaves the same switch open ...    *)
LEMMA InnermostPlain ==
  ASSUME NEW fs, NEW i \in Nat, fs[i + 1].kind # "switch", NEW switch
  PROVE  Innermost(fs, i + 1, switch) <=> Innermost(fs, i, switch)
<1>1. /\ \A j : j \in 1..i + 1 <=> j \in 1..i \/ j = i + 1
      /\ \A k \in 1..i : \A j : j \in k + 1..i + 1 <=> j \in k + 1..i \/ j = i + 1
  OBVIOUS
<1>2. ASSUME Innermost(fs, i, switch) PROVE Innermost(fs, i + 1, switch)
  <2>1. CASE switch = NoSwitch /\ \A j \in 1..i : fs[j].kind # "switch"
    BY <1>1, <2>1 DEF Innermost
  <2>2. ASSUME NEW k \in 1..i, fs[k].kind = "switch", fs[k].id = switch,
               \A j \in k + 1..i : fs[j].kind # "switch"
        PROVE  Innermost(fs, i + 1, switch)
    BY <1>1, <2>2 DEF Innermost
  <2> QED
    BY <1>2, <2>1, <2>2 DEF Innermost
<1>3. ASSUME Innermost(fs, i + 1, switch) PROVE Innermost(fs, i, switch)
  <2>1. CASE switch = NoSwitch /\ \A j \in 1..i + 1 : fs[j].kind # "switch"
    BY <1>1, <2>1 DEF Innermost
  <2>2. ASSUME NEW k \in 1..i + 1, fs[k].kind = "switch", fs[k].id = switch,
               \A j \in k + 1..i + 1 : fs[j].kind # "switch"
        PROVE  Innermost(fs, i, switch)
    <3>1. k \in 1..i
      BY <1>1, <2>2
    <3> QED
      BY <1>1, <2>2, <3>1 DEF Innermost
  <2> QED
    BY <1>3, <2>1, <2>2 DEF Innermost
<1> QED
  BY <1>2, <1>3

(* ... and a switch is itself the one.                                     *)
LEMMA InnermostSwitch ==
  ASSUME NEW fs, NEW i \in Nat, fs[i + 1].kind = "switch"
  PROVE  Innermost(fs, i + 1, fs[i + 1].id)
<1>1. i + 1 \in 1..i + 1 /\ \A j \in i + 1 + 1..i + 1 : FALSE
  OBVIOUS
<1> QED
  BY <1>1 DEF Innermost

LEMMA RemembersSame ==
  ASSUME NEW fs, NEW gs, NEW m \in Nat, Below(fs, gs, m), Remembers(fs, m)
  PROVE  Remembers(gs, m)
<1> SUFFICES ASSUME NEW i \in 1..m, gs[i].kind = "switch"
             PROVE  Innermost(gs, i - 1, gs[i].old)
  BY DEF Remembers
<1>1. fs[i].kind = "switch" /\ gs[i].old = fs[i].old
  BY DEF Below, Alike, Breakable
<1>2. Innermost(fs, i - 1, fs[i].old) /\ i - 1 \in 0..m
  BY <1>1 DEF Remembers
<1>3. Innermost(gs, i - 1, fs[i].old)
  BY ONLY m \in Nat, Below(fs, gs, m), <1>2, InnermostSame
<1> QED
  BY <1>1, <1>3

LEMMA RememberSame ==
  ASSUME NEW fs, NEW gs, NEW m \in Nat, Len(fs) = m, Len(gs) = m,
         Below(fs, gs, m), NEW switch, SwitchesRemember(fs, switch)
  PROVE  SwitchesRemember(gs, switch)
<1>1. Innermost(gs, m, switch)
  BY ONLY m \in Nat, Len(fs) = m, Below(fs, gs, m), SwitchesRemember(fs, switch),
          InnermostSame DEF SwitchesRemember
<1>2. Remembers(gs, m)
  BY ONLY m \in Nat, Len(fs) = m, Below(fs, gs, m), SwitchesRemember(fs, switch),
          RemembersSame DEF SwitchesRemember
<1> QED
  BY <1>1, <1>2 DEF SwitchesRemember

LEMMA RememberPush ==
  ASSUME NEW fs, NEW gs, NEW m \in Nat, Len(fs) = m, Len(gs) = m + 1,
         Below(fs, gs, m), NEW switch, SwitchesRemember(fs, switch),
         gs[m + 1].kind = "switch" => gs[m + 1].old = switch,
         NEW next, next = IF gs[m + 1].kind = "switch" THEN gs[m + 1].id ELSE switch
  PROVE  SwitchesRemember(gs, next)
<1>1. Innermost(gs, m, switch)
  BY ONLY m \in Nat, Len(fs) = m, Below(fs, gs, m), SwitchesRemember(fs, switch),
          InnermostSame DEF SwitchesRemember
<1>2. Innermost(gs, m + 1, next)
  BY ONLY m \in Nat, <1>1, InnermostPlain, InnermostSwitch,
          next = IF gs[m + 1].kind = "switch" THEN gs[m + 1].id ELSE switch
<1>3. Remembers(gs, m)
  <2>1. Remembers(fs, m)
    BY DEF SwitchesRemember, Remembers
  <2> QED
    BY ONLY m \in Nat, Below(fs, gs, m), <2>1, RemembersSame
<1>4. gs[m + 1].kind = "switch" => Innermost(gs, m + 1 - 1, gs[m + 1].old)
  BY <1>1
<1>5. \A i \in 1..m + 1 : i \in 1..m \/ i = m + 1
  OBVIOUS
<1> QED
  BY <1>2, <1>3, <1>4, <1>5 DEF SwitchesRemember, Remembers

LEMMA RememberPop ==
  ASSUME NEW fs, NEW gs, NEW m \in Nat, Len(fs) = m + 1, Len(gs) = m,
         Below(fs, gs, m), NEW switch, SwitchesRemember(fs, switch),
         NEW next, next = IF fs[m + 1].kind = "switch" THEN fs[m + 1].old ELSE switch
  PROVE  SwitchesRemember(gs, next)
<1>1. Innermost(fs, m, next)
  <2>1. CASE fs[m + 1].kind = "switch"
    <3>1. m + 1 \in 1..Len(fs) /\ m + 1 - 1 = m
      OBVIOUS
    <3> QED
      BY <2>1, <3>1 DEF SwitchesRemember, Remembers
  <2>2. CASE fs[m + 1].kind # "switch"
    <3>1. Innermost(fs, m + 1, switch) /\ next = switch
      BY <2>2 DEF SwitchesRemember
    <3> QED
      BY ONLY m \in Nat, <2>2, <3>1, InnermostPlain
  <2> QED
    BY <2>1, <2>2
<1>2. Innermost(gs, m, next)
  BY ONLY m \in Nat, Below(fs, gs, m), <1>1, InnermostSame
<1>3. Remembers(gs, m)
  <2>1. Remembers(fs, m)
    BY DEF SwitchesRemember, Remembers
  <2> QED
    BY ONLY m \in Nat, Below(fs, gs, m), <2>1, RemembersSame
<1> QED
  BY <1>2, <1>3 DEF SwitchesRemember

-----------------------------------------------------------------------------
(* The steps                                                               *)

LEMMA ContextParts ==
  ASSUME IInv
  PROVE  /\ breakStack \in Seq(Block) /\ continueStack \in Seq(Block)
         /\ Breakable \in SUBSET Breakable /\ Loops \in SUBSET Breakable
         /\ phase = "body" => /\ Len(frames) \in Nat \ {0}
                              /\ frames \in Seq(Frames) /\ frames # << >>
                              /\ Top \in Frames /\ Top = frames[Len(frames)]
<1>1. phase = "body" => /\ Len(frames) \in Nat \ {0}
                        /\ frames \in Seq(Frames) /\ frames # << >>
                        /\ Top \in Frames /\ Top = frames[Len(frames)]
  BY TopFacts DEF IInv
<1> QED
  BY <1>1 DEF IInv, TypeOK, Breakable, Loops

(* The frames that stay open are those of before.                          *)
LEMMA AskedAlike ==
  ASSUME IInv, phase = "body", NEW gs,
         \A i \in 1..Len(frames) :
           gs[i] = IF i = Len(frames) THEN [frames[i] EXCEPT !.done = TRUE]
                                      ELSE frames[i]
  PROVE  Below(frames, gs, Len(frames))
<1> SUFFICES ASSUME NEW i \in 1..Len(frames) PROVE Alike(frames[i], gs[i])
  BY DEF Below
<1>1. frames[i] \in Frames
  BY ContextParts, ElementOfSeq
<1> QED
  BY <1>1 DEF Alike, Frames

LEMMA BelowItself ==
  ASSUME NEW fs, NEW gs, NEW m, \A i \in 1..m : gs[i] = fs[i]
  PROVE  Below(fs, gs, m)
BY DEF Below, Alike

(* What the stacks hold for the statements that stay open                  *)
LEMMA BelowBlocks ==
  ASSUME NEW fs, NEW gs, NEW m \in Nat, m <= Len(fs), m <= Len(gs),
         Len(fs) \in Nat, Len(gs) \in Nat, Below(fs, gs, m)
  PROVE  /\ SameBlocks(Exits(fs), Exits(gs), m)
         /\ SameBlocks(Nexts(fs), Nexts(gs), m)
BY DEF Below, Alike, Exits, Nexts, SameBlocks

LEMMA PushContext ==
  ASSUME NEW m \in Nat, Len(frames) = m, Len(frames') = m + 1,
         Below(frames, frames', m), Context,
         breakStack \in Seq(Block), continueStack \in Seq(Block),
         NEW f, frames'[m + 1] = f,
         f.kind \in Breakable => f.exit \in Block,
         f.kind \in Loops => f.next \in Block,
         f.kind = "switch" => f.old = currentSwitch,
         breakStack' = IF f.kind \in Breakable THEN Append(breakStack, f.exit)
                                               ELSE breakStack,
         continueStack' = IF f.kind \in Loops THEN Append(continueStack, f.next)
                                              ELSE continueStack,
         currentSwitch' = IF f.kind = "switch" THEN f.id ELSE currentSwitch
  PROVE  Context'
<1>1. /\ SameBlocks(Exits(frames), Exits(frames'), m)
      /\ SameBlocks(Nexts(frames), Nexts(frames'), m)
  BY ONLY m \in Nat, Len(frames) = m, Len(frames') = m + 1,
          Below(frames, frames', m), BelowBlocks
<1>2. Exits(frames')[m + 1] = f.exit /\ Nexts(frames')[m + 1] = f.next
  BY DEF Exits, Nexts
<1>3. Mirrors(breakStack', frames', Breakable, Exits(frames'))
  <2>1. /\ Mirrors(breakStack, frames, Breakable, Exits(frames))
        /\ Breakable \in SUBSET Breakable
        /\ SameBlocks(Exits(frames), Exits(frames'), m)
        /\ frames'[m + 1].kind \in Breakable => Exits(frames')[m + 1] \in Block
    BY <1>1, <1>2 DEF Context
  <2>2. Pushed(breakStack, breakStack', frames'[m + 1], Breakable,
               Exits(frames')[m + 1])
    BY <1>2 DEF Pushed
  <2> QED
    BY ONLY m \in Nat, Len(frames) = m, Len(frames') = m + 1,
            Below(frames, frames', m), breakStack \in Seq(Block),
            <2>1, <2>2, MirrorPush
<1>4. Mirrors(continueStack', frames', Loops, Nexts(frames'))
  <2>1. /\ Mirrors(continueStack, frames, Loops, Nexts(frames))
        /\ Loops \in SUBSET Breakable
        /\ SameBlocks(Nexts(frames), Nexts(frames'), m)
        /\ frames'[m + 1].kind \in Loops => Nexts(frames')[m + 1] \in Block
    BY <1>1, <1>2 DEF Context, Breakable
  <2>2. Pushed(continueStack, continueStack', frames'[m + 1], Loops,
               Nexts(frames')[m + 1])
    BY <1>2 DEF Pushed
  <2> QED
    BY ONLY m \in Nat, Len(frames) = m, Len(frames') = m + 1,
            Below(frames, frames', m), continueStack \in Seq(Block),
            <2>1, <2>2, MirrorPush
<1>5. SwitchesRemember(frames', currentSwitch')
  <2>1. /\ SwitchesRemember(frames, currentSwitch)
        /\ frames'[m + 1].kind = "switch" => frames'[m + 1].old = currentSwitch
        /\ currentSwitch' = IF frames'[m + 1].kind = "switch"
                              THEN frames'[m + 1].id ELSE currentSwitch
    BY DEF Context
  <2> QED
    BY ONLY m \in Nat, Len(frames) = m, Len(frames') = m + 1,
            Below(frames, frames', m), <2>1, RememberPush
<1> QED
  BY <1>3, <1>4, <1>5 DEF Context, Exits, Nexts

LEMMA PopContext ==
  ASSUME NEW m \in Nat, Len(frames) = m + 1, Len(frames') = m,
         Below(frames, frames', m), Context,
         breakStack \in Seq(Block), continueStack \in Seq(Block),
         NEW f, frames[m + 1] = f,
         Popped(breakStack, breakStack', f, Breakable),
         Popped(continueStack, continueStack', f, Loops),
         currentSwitch' = IF f.kind = "switch" THEN f.old ELSE currentSwitch
  PROVE  Context'
<1>1. /\ SameBlocks(Exits(frames), Exits(frames'), m)
      /\ SameBlocks(Nexts(frames), Nexts(frames'), m)
  BY ONLY m \in Nat, Len(frames) = m + 1, Len(frames') = m,
          Below(frames, frames', m), BelowBlocks
<1>2. Mirrors(breakStack', frames', Breakable, Exits(frames'))
  <2>1. /\ Mirrors(breakStack, frames, Breakable, Exits(frames))
        /\ Breakable \in SUBSET Breakable
        /\ Popped(breakStack, breakStack', frames[m + 1], Breakable)
    BY DEF Context
  <2> QED
    BY ONLY m \in Nat, Len(frames) = m + 1, Len(frames') = m,
            Below(frames, frames', m), breakStack \in Seq(Block),
            <1>1, <2>1, MirrorPop
<1>3. Mirrors(continueStack', frames', Loops, Nexts(frames'))
  <2>1. /\ Mirrors(continueStack, frames, Loops, Nexts(frames))
        /\ Loops \in SUBSET Breakable
        /\ Popped(continueStack, continueStack', frames[m + 1], Loops)
    BY DEF Context, Breakable
  <2> QED
    BY ONLY m \in Nat, Len(frames) = m + 1, Len(frames') = m,
            Below(frames, frames', m), continueStack \in Seq(Block),
            <1>1, <2>1, MirrorPop
<1>4. SwitchesRemember(frames', currentSwitch')
  <2>1. /\ SwitchesRemember(frames, currentSwitch)
        /\ currentSwitch' = IF frames[m + 1].kind = "switch"
                              THEN frames[m + 1].old ELSE currentSwitch
    BY DEF Context
  <2> QED
    BY ONLY m \in Nat, Len(frames) = m + 1, Len(frames') = m,
            Below(frames, frames', m), <2>1, RememberPop
<1> QED
  BY <1>2, <1>3, <1>4 DEF Context, Exits, Nexts

LEMMA SameContext ==
  ASSUME NEW m \in Nat, Len(frames) = m, Len(frames') = m,
         Below(frames, frames', m), Context,
         UNCHANGED <<breakStack, continueStack, currentSwitch>>
  PROVE  Context'
<1>1. /\ SameBlocks(Exits(frames), Exits(frames'), m)
      /\ SameBlocks(Nexts(frames), Nexts(frames'), m)
  BY ONLY m \in Nat, Len(frames) = m, Len(frames') = m,
          Below(frames, frames', m), BelowBlocks
<1>2. /\ Mirrors(breakStack, frames, Breakable, Exits(frames))
      /\ Mirrors(continueStack, frames, Loops, Nexts(frames))
      /\ SwitchesRemember(frames, currentSwitch)
      /\ Breakable \in SUBSET Breakable /\ Loops \in SUBSET Breakable
  BY DEF Context, Breakable
<1>3. Mirrors(breakStack, frames', Breakable, Exits(frames'))
  BY ONLY m \in Nat, Len(frames) = m, Len(frames') = m,
          Below(frames, frames', m), <1>1, <1>2, MirrorSame
<1>4. Mirrors(continueStack, frames', Loops, Nexts(frames'))
  BY ONLY m \in Nat, Len(frames) = m, Len(frames') = m,
          Below(frames, frames', m), <1>1, <1>2, MirrorSame
<1>5. SwitchesRemember(frames', currentSwitch)
  BY ONLY m \in Nat, Len(frames) = m, Len(frames') = m,
          Below(frames, frames', m), <1>2, RememberSame
<1> QED
  BY <1>3, <1>4, <1>5 DEF Context, Exits, Nexts

(* A visit descends into a child statement whose frame is f, ...           *)
LEMMA OpenContext ==
  ASSUME IInv, Context, phase = "body", NEW f \in Frames,
         frames' = Append(Asked, f),
         f.kind \in Breakable => f.exit \in Block,
         f.kind \in Loops => f.next \in Block,
         f.kind = "switch" => f.old = currentSwitch,
         breakStack' = IF f.kind \in Breakable THEN Append(breakStack, f.exit)
                                               ELSE breakStack,
         continueStack' = IF f.kind \in Loops THEN Append(continueStack, f.next)
                                              ELSE continueStack,
         currentSwitch' = IF f.kind = "switch" THEN f.id ELSE currentSwitch
  PROVE  Context'
<1> DEFINE m == Len(frames)
<1>1. /\ m \in Nat /\ frames \in Seq(Frames) /\ frames # << >>
      /\ breakStack \in Seq(Block) /\ continueStack \in Seq(Block)
  BY ContextParts
<1>2. /\ Len(frames') = m + 1 /\ frames'[m + 1] = f
      /\ \A i \in 1..m : frames'[i] = IF i = m THEN [frames[i] EXCEPT !.done = TRUE]
                                               ELSE frames[i]
  BY ONLY <1>1, f \in Frames, frames' = Append(Asked, f), OpenFacts
<1>3. Below(frames, frames', m)
  BY <1>2, AskedAlike
<1> HIDE DEF m
<1>4. Len(frames) = m
  BY DEF m
<1> QED
  BY <1>1, <1>2, <1>3, <1>4, PushContext

(* ... returns from it, ...                                                *)
LEMMA CloseContext ==
  ASSUME IInv, Context, phase = "body", frames' = Pop(frames),
         Popped(breakStack, breakStack', Top, Breakable),
         Popped(continueStack, continueStack', Top, Loops),
         currentSwitch' = IF Top.kind = "switch" THEN Top.old ELSE currentSwitch
  PROVE  Context'
<1> DEFINE m == Len(frames) - 1
<1>1. /\ m \in Nat /\ Len(frames) = m + 1 /\ frames[m + 1] = Top
      /\ frames \in Seq(Frames) /\ frames # << >>
      /\ breakStack \in Seq(Block) /\ continueStack \in Seq(Block)
  BY ContextParts
<1>2. Len(frames') = m /\ \A i \in 1..m : frames'[i] = frames[i]
  BY ONLY <1>1, frames' = Pop(frames), PopFacts
<1>3. Below(frames, frames', m)
  BY <1>2, BelowItself
<1> HIDE DEF m
<1> QED
  BY <1>1, <1>2, <1>3, PopContext

(* ... or visits a statement that has no children.                         *)
LEMMA LeafContext ==
  ASSUME IInv, Context, phase = "body", frames' = Asked,
         UNCHANGED <<breakStack, continueStack, currentSwitch>>
  PROVE  Context'
<1>1. Len(frames) \in Nat /\ frames \in Seq(Frames) /\ frames # << >>
  BY ContextParts
<1>2. /\ Len(frames') = Len(frames)
      /\ \A i \in 1..Len(frames) :
           frames'[i] = IF i = Len(frames) THEN [frames[i] EXCEPT !.done = TRUE]
                                           ELSE frames[i]
  BY ONLY <1>1, frames' = Asked, AskedFacts
<1>3. Below(frames, frames', Len(frames))
  BY <1>2, AskedAlike
<1> QED
  BY <1>1, <1>2, <1>3, SameContext

LEMMA FrameType ==
  ASSUME n \in Nat, NEW kind \in FrameKinds
  PROVE  Frame(kind) \in Frames /\ Frame(kind).kind = kind /\ Frame(kind).id = n + 1
BY DEF Frame, Frames, NoSwitch

LEMMA LoopOpens ==
  ASSUME IInv, Context,
         \/ EnterWhile \/ EnterDoWhile
         \/ \E init, test, step \in BOOLEAN : EnterFor(init, test, step)
  PROVE  Context'
<1>1. PICK f : /\ phase = "body" /\ frames' = Append(Asked, f)
               /\ f \in Frames /\ f.kind \in Loops
               /\ f.exit \in Block /\ f.next \in Block
               /\ breakStack' = Append(breakStack, f.exit)
               /\ continueStack' = Append(continueStack, f.next)
               /\ currentSwitch' = currentSwitch
  <2>1. n \in Nat /\ made \in Nat /\ MaxBlocks \in Nat
    BY BoundsAreNat DEF IInv, TypeOK
  <2>2. CASE EnterWhile
    <3> DEFINE f == [Frame("while") EXCEPT !.next = made + 3, !.exit = made + 2]
    <3>1. /\ phase = "body" /\ frames' = Append(Asked, f)
          /\ made + 3 <= MaxBlocks
          /\ breakStack' = Append(breakStack, made + 2)
          /\ continueStack' = Append(continueStack, made + 3)
          /\ currentSwitch' = currentSwitch
      BY <2>2 DEF EnterWhile, CanOpen, CanVisit, Open, PushLoop, unchangedByLoop
    <3>2. made + 3 \in Block /\ made + 2 \in Block
      BY ONLY <2>1, <3>1 DEF Block
    <3>3. /\ f \in Frames /\ f.kind = "while"
          /\ f.next = made + 3 /\ f.exit = made + 2
      <4>1. Frame("while") \in Frames /\ Frame("while").kind = "while"
        BY <2>1, FrameType DEF FrameKinds
      <4> QED
        BY ONLY <3>2, <4>1 DEF Frames
    <3> HIDE DEF f
    <3> QED
      BY <3>1, <3>2, <3>3 DEF Loops
  <2>3. CASE EnterDoWhile
    <3> DEFINE f == [Frame("do") EXCEPT !.head = made + 1, !.next = made + 3,
                                        !.exit = made + 2]
    <3>1. /\ phase = "body" /\ frames' = Append(Asked, f)
          /\ made + 3 <= MaxBlocks
          /\ breakStack' = Append(breakStack, made + 2)
          /\ continueStack' = Append(continueStack, made + 3)
          /\ currentSwitch' = currentSwitch
      BY <2>3 DEF EnterDoWhile, CanOpen, CanVisit, Open, PushLoop, unchangedByLoop
    <3>2. made + 3 \in Block /\ made + 2 \in Block /\ made + 1 \in Block
      BY ONLY <2>1, <3>1 DEF Block
    <3>3. /\ f \in Frames /\ f.kind = "do"
          /\ f.next = made + 3 /\ f.exit = made + 2
      <4>1. Frame("do") \in Frames /\ Frame("do").kind = "do"
        BY <2>1, FrameType DEF FrameKinds
      <4> QED
        BY ONLY <3>2, <4>1 DEF Frames
    <3> HIDE DEF f
    <3> QED
      BY <3>1, <3>2, <3>3 DEF Loops
  <2>4. ASSUME NEW init \in BOOLEAN, NEW test \in BOOLEAN, NEW step \in BOOLEAN,
               EnterFor(init, test, step)
        PROVE  \E f : /\ phase = "body" /\ frames' = Append(Asked, f)
                      /\ f \in Frames /\ f.kind \in Loops
                      /\ f.exit \in Block /\ f.next \in Block
                      /\ breakStack' = Append(breakStack, f.exit)
                      /\ continueStack' = Append(continueStack, f.next)
                      /\ currentSwitch' = currentSwitch
    <3> DEFINE f == [Frame("for") EXCEPT !.head = made + 4, !.next = made + 2,
                                         !.exit = made + 3, !.flag = step]
    <3>1. /\ phase = "body" /\ frames' = Append(Asked, f)
          /\ made + 4 <= MaxBlocks
          /\ breakStack' = Append(breakStack, made + 3)
          /\ continueStack' = Append(continueStack, made + 2)
          /\ currentSwitch' = currentSwitch
      BY <2>4 DEF EnterFor, CanOpen, CanVisit, Open, PushLoop, unchangedByLoop
    <3>2. made + 4 \in Block /\ made + 3 \in Block /\ made + 2 \in Block
      BY ONLY <2>1, <3>1 DEF Block
    <3>3. /\ f \in Frames /\ f.kind = "for"
          /\ f.next = made + 2 /\ f.exit = made + 3
      <4>1. Frame("for") \in Frames /\ Frame("for").kind = "for"
        BY <2>1, FrameType DEF FrameKinds
      <4> QED
        BY ONLY <3>2, <4>1, step \in BOOLEAN DEF Frames
    <3> HIDE DEF f
    <3> QED
      BY <3>1, <3>2, <3>3 DEF Loops
  <2> QED
    BY <2>2, <2>3, <2>4
<1>2. f.kind \in Breakable /\ f.kind # "switch"
  BY <1>1 DEF Loops, Breakable
<1> QED
  BY <1>1, <1>2, OpenContext

LEMMA SwitchOpens ==
  ASSUME IInv, Context, EnterSwitch
  PROVE  Context'
<1> DEFINE f == [Frame("switch") EXCEPT !.exit = made + 1, !.old = currentSwitch]
<1>1. /\ n \in Nat /\ made \in Nat /\ MaxBlocks \in Nat
      /\ currentSwitch \in SwitchId \cup {NoSwitch}
  BY BoundsAreNat DEF IInv, TypeOK
<1>2. /\ phase = "body" /\ frames' = Append(Asked, f)
      /\ made + 1 <= MaxBlocks
      /\ breakStack' = Append(breakStack, made + 1)
      /\ continueStack' = continueStack
      /\ currentSwitch' = n + 1
  BY DEF EnterSwitch, CanOpen, CanVisit, Open
<1>3. made + 1 \in Block
  BY ONLY <1>1, <1>2 DEF Block
<1>4. /\ f \in Frames /\ f.kind = "switch" /\ f.exit = made + 1
      /\ f.old = currentSwitch /\ f.id = n + 1
  BY <1>1, <1>3, FrameType DEF Frames, FrameKinds
<1>5. "switch" \in Breakable /\ "switch" \notin Loops
  BY DEF Breakable, Loops
<1> HIDE DEF f
<1> QED
  BY <1>2, <1>3, <1>4, <1>5, OpenContext

(* A branch, a label or a block opens no loop and no switch.               *)
LEMMA PlainOpens ==
  ASSUME IInv, Context,
         \/ \E hasElse \in BOOLEAN : EnterIf(hasElse)
         \/ \E isDefault \in BOOLEAN : EnterCase(isDefault)
         \/ EnterCompoundStmt
  PROVE  Context'
<1>1. PICK f : /\ phase = "body" /\ frames' = Append(Asked, f)
               /\ f \in Frames /\ f.kind \in {"if", "then", "case", "list"}
               /\ breakStack' = breakStack
               /\ continueStack' = continueStack
               /\ currentSwitch' = currentSwitch
  <2>1. n \in Nat /\ made \in Nat /\ MaxBlocks \in Nat
    BY BoundsAreNat DEF IInv, TypeOK
  <2>2. ASSUME NEW hasElse \in BOOLEAN, EnterIf(hasElse)
        PROVE  \E f : /\ phase = "body" /\ frames' = Append(Asked, f)
                      /\ f \in Frames /\ f.kind \in {"if", "then", "case", "list"}
                      /\ breakStack' = breakStack
                      /\ continueStack' = continueStack
                      /\ currentSwitch' = currentSwitch
    <3> DEFINE kind == IF hasElse THEN "then" ELSE "if"
               f == [Frame(kind) EXCEPT !.next = made + 3, !.exit = made + 2]
    <3>1. /\ phase = "body" /\ frames' = Append(Asked, f)
          /\ made + 3 <= MaxBlocks
          /\ breakStack' = breakStack
          /\ continueStack' = continueStack
          /\ currentSwitch' = currentSwitch
      BY <2>2 DEF EnterIf, CanOpen, CanVisit, Open, unchangedByIf
    <3>2. made + 3 \in Block /\ made + 2 \in Block
      BY ONLY <2>1, <3>1 DEF Block
    <3>3. kind \in {"then", "if"}
      OBVIOUS
    <3> HIDE DEF kind
    <3>4. f \in Frames /\ f.kind = kind
      <4>1. Frame(kind) \in Frames /\ Frame(kind).kind = kind
        BY <2>1, <3>3, FrameType DEF FrameKinds
      <4> QED
        BY <3>2, <4>1 DEF Frames
    <3> HIDE DEF f
    <3> QED
      BY <3>1, <3>3, <3>4
  <2>3. ASSUME NEW isDefault \in BOOLEAN, EnterCase(isDefault)
        PROVE  \E f : /\ phase = "body" /\ frames' = Append(Asked, f)
                      /\ f \in Frames /\ f.kind \in {"if", "then", "case", "list"}
                      /\ breakStack' = breakStack
                      /\ continueStack' = continueStack
                      /\ currentSwitch' = currentSwitch
    <3> DEFINE f == [Frame("case") EXCEPT !.head = made + 1, !.flag = isDefault]
    <3>1. /\ phase = "body" /\ frames' = Append(Asked, f)
          /\ made + 1 <= MaxBlocks
          /\ breakStack' = breakStack
          /\ continueStack' = continueStack
          /\ currentSwitch' = currentSwitch
      BY <2>3 DEF EnterCase, CanOpen, CanVisit, Open
    <3>2. made + 1 \in Block
      BY ONLY <2>1, <3>1 DEF Block
    <3>3. f \in Frames /\ f.kind = "case"
      <4>1. Frame("case") \in Frames /\ Frame("case").kind = "case"
        BY <2>1, FrameType DEF FrameKinds
      <4> QED
        BY ONLY <3>2, <4>1, isDefault \in BOOLEAN DEF Frames
    <3> HIDE DEF f
    <3> QED
      BY <3>1, <3>3
  <2>4. CASE EnterCompoundStmt
    <3> DEFINE f == [Frame("list") EXCEPT !.id = 0]
    <3>1. /\ phase = "body" /\ frames' = Append(Asked, f)
          /\ breakStack' = breakStack
          /\ continueStack' = continueStack
          /\ currentSwitch' = currentSwitch
      BY <2>4 DEF EnterCompoundStmt, CanVisit, unchangedByList
    <3>2. f \in Frames /\ f.kind = "list"
      BY <2>1, FrameType DEF Frames, FrameKinds
    <3> HIDE DEF f
    <3> QED
      BY <3>1, <3>2
  <2> QED
    BY <2>2, <2>3, <2>4
<1>2. f.kind \notin Breakable /\ f.kind \notin Loops /\ f.kind # "switch"
  BY <1>1 DEF Loops, Breakable
<1> QED
  BY <1>1, <1>2, OpenContext

LEMMA Returns ==
  ASSUME IInv, Context,
         \/ ExitWhile \/ ExitDoWhile \/ ExitFor \/ ExitIf \/ ExitElse
         \/ ExitSwitch \/ ExitCase \/ ExitCompoundStmt
  PROVE  Context'
<1>1. phase = "body" /\ frames' = Pop(frames)
  BY DEF ExitWhile, ExitDoWhile, ExitFor, ExitIf, ExitElse, ExitSwitch, ExitCase,
         ExitCompoundStmt, CanClose, Close
<1>2. CASE ExitWhile \/ ExitDoWhile \/ ExitFor
  <2>1. /\ Top.kind \in {"while", "do", "for"} /\ PopLoop
        /\ currentSwitch' = currentSwitch
    BY <1>2 DEF ExitWhile, ExitDoWhile, ExitFor, CanClose, unchangedByLoop
  <2>2. /\ Popped(breakStack, breakStack', Top, Breakable)
        /\ Popped(continueStack, continueStack', Top, Loops)
        /\ Top.kind # "switch"
    BY <2>1 DEF Popped, PopLoop, Breakable, Loops
  <2> QED
    BY <1>1, <2>1, <2>2, CloseContext
<1>3. CASE ExitSwitch
  <2>1. /\ Top.kind = "switch" /\ breakStack' = Pop(breakStack)
        /\ continueStack' = continueStack /\ currentSwitch' = Top.old
    BY <1>3 DEF ExitSwitch, CanClose
  <2>2. /\ Popped(breakStack, breakStack', Top, Breakable)
        /\ Popped(continueStack, continueStack', Top, Loops)
    BY <2>1 DEF Popped, Breakable, Loops
  <2> QED
    BY <1>1, <2>1, <2>2, CloseContext
<1>4. CASE ExitIf \/ ExitElse \/ ExitCase \/ ExitCompoundStmt
  <2>1. /\ Top.kind \in {"if", "else", "case", "list"}
        /\ UNCHANGED <<breakStack, continueStack, currentSwitch>>
    BY <1>4 DEF ExitIf, ExitElse, ExitCase, ExitCompoundStmt, CanClose,
                unchangedByIf, unchangedByList
  <2>2. /\ Popped(breakStack, breakStack', Top, Breakable)
        /\ Popped(continueStack, continueStack', Top, Loops)
        /\ Top.kind # "switch"
    BY <2>1 DEF Popped, Breakable, Loops
  <2> QED
    BY <1>1, <2>1, <2>2, CloseContext
<1> QED
  BY <1>2, <1>3, <1>4

LEMMA LeavesStay ==
  ASSUME IInv, Context,
         (\E full \in BOOLEAN : ExprStmt(full)) \/ Break \/ Continue \/ Return
  PROVE  Context'
<1>1. /\ phase = "body" /\ frames' = Asked
      /\ UNCHANGED <<breakStack, continueStack, currentSwitch>>
  BY DEF ExprStmt, Break, Continue, Return, Leaf, CanVisit, unchangedByLeaf
<1> QED
  BY <1>1, LeafContext

(* The second branch of an if takes the place of the first.                *)
LEMMA ElseStays ==
  ASSUME IInv, Context, ThenToElse
  PROVE  Context'
<1>1. /\ Len(frames) \in Nat \ {0} /\ frames \in Seq(Frames)
      /\ Top \in Frames /\ Top = frames[Len(frames)]
  BY ContextParts DEF ThenToElse, CanClose
<1> DEFINE g == [Top EXCEPT !.kind = "else", !.done = FALSE,
                            !.flag = ~Terminated(cur)]
<1>2. /\ Top.kind = "then"
      /\ frames' = [frames EXCEPT ![Len(frames)] = g]
      /\ UNCHANGED <<breakStack, continueStack, currentSwitch>>
  BY DEF ThenToElse, CanClose, unchangedByIf, Top
<1>3. /\ g.kind = "else" /\ g.exit = Top.exit /\ g.next = Top.next
      /\ g.id = Top.id /\ g.old = Top.old
  BY <1>1 DEF Frames
<1> HIDE DEF g
<1>4. Len(frames') = Len(frames)
  BY <1>1, <1>2
<1>5. Below(frames, frames', Len(frames))
  <2> SUFFICES ASSUME NEW i \in 1..Len(frames) PROVE Alike(frames[i], frames'[i])
    BY DEF Below
  <2>1. CASE i # Len(frames)
    <3>1. frames'[i] = frames[i]
      BY <1>1, <1>2, <2>1
    <3> QED
      BY <3>1 DEF Alike
  <2>2. CASE i = Len(frames)
    <3>1. frames'[i] = g /\ frames[i] = Top
      BY <1>1, <1>2, <2>2
    <3> QED
      BY <1>2, <1>3, <3>1 DEF Alike, Breakable, Loops
  <2> QED
    BY <2>1, <2>2
<1> QED
  BY <1>1, <1>2, <1>4, <1>5, SameContext

(* A function begins and ends with no statement open.                      *)
LEMMA FunctionContext ==
  ASSUME IInv, Context, EnterFnDef \/ ExitFnDef
  PROVE  Context'
<1>1. breakStack \in Seq(Block) /\ continueStack \in Seq(Block)
  BY ContextParts
<1>2. UNCHANGED <<breakStack, continueStack, currentSwitch>>
  BY DEF EnterFnDef, ExitFnDef
<1>3. "list" \notin Breakable /\ "list" \notin Loops
  BY DEF Breakable, Loops
<1>4. Below(frames, frames', 0)
  BY DEF Below
<1>5. CASE EnterFnDef
  <2> DEFINE f == [Frame("list") EXCEPT !.id = 0]
  <2>1. Len(frames) = 0 /\ Len(frames') = 0 + 1 /\ frames'[0 + 1] = f
    BY <1>5 DEF EnterFnDef, IInv, StackShape
  <2>2. f.kind = "list"
    BY DEF Frame
  <2> HIDE DEF f
  <2> QED
    BY <1>1, <1>2, <1>3, <1>4, <2>1, <2>2, PushContext
<1>6. CASE ExitFnDef
  <2>1. Len(frames) = 0 + 1 /\ Len(frames') = 0 /\ frames[0 + 1].kind = "list"
    BY <1>6 DEF ExitFnDef, IInv, StackShape
  <2>2. /\ Popped(breakStack, breakStack', frames[0 + 1], Breakable)
        /\ Popped(continueStack, continueStack', frames[0 + 1], Loops)
    BY <1>2, <1>3, <2>1 DEF Popped
  <2> QED
    BY <1>1, <1>2, <1>4, <2>1, <2>2, PopContext
<1> QED
  BY <1>5, <1>6

LEMMA InitContext == Init => Context
<1> SUFFICES ASSUME Init PROVE Context
  OBVIOUS
<1>1. /\ frames = << >> /\ breakStack = << >> /\ continueStack = << >>
      /\ currentSwitch = NoSwitch /\ Len(<< >>) = 0 /\ 1..0 = {}
  BY DEF Init
<1>2. Rank(<< >>, Breakable, 0) = 0 /\ Rank(<< >>, Loops, 0) = 0
  BY RankFacts
<1> QED
  BY <1>1, <1>2 DEF Context, Mirrors, SwitchesRemember, Remembers, Innermost

LEMMA NextContext == IInv /\ Context /\ [Next]_vars => Context'
<1> SUFFICES ASSUME IInv, Context, [Next]_vars PROVE Context'
  OBVIOUS
<1>1. CASE UNCHANGED vars
  <2>1. UNCHANGED <<frames, breakStack, continueStack, currentSwitch>>
    BY <1>1 DEF vars
  <2>2. Below(frames, frames', Len(frames))
    BY <2>1, BelowItself
  <2>3. Len(frames) \in Nat
    BY LenProperties DEF IInv, TypeOK
  <2> QED
    BY <2>1, <2>2, <2>3, SameContext
<1>2. CASE EnterFnDef \/ ExitFnDef
  BY <1>2, FunctionContext
<1>3. CASE (\E full \in BOOLEAN : ExprStmt(full)) \/ Break \/ Continue \/ Return
  BY <1>3, LeavesStay
<1>4. CASE \/ EnterWhile \/ EnterDoWhile
           \/ \E init, test, step \in BOOLEAN : EnterFor(init, test, step)
  BY <1>4, LoopOpens
<1>5. CASE EnterSwitch
  BY <1>5, SwitchOpens
<1>6. CASE \/ \E hasElse \in BOOLEAN : EnterIf(hasElse)
           \/ \E isDefault \in BOOLEAN : EnterCase(isDefault)
           \/ EnterCompoundStmt
  BY <1>6, PlainOpens
<1>7. CASE ThenToElse
  BY <1>7, ElseStays
<1>8. CASE \/ ExitWhile \/ ExitDoWhile \/ ExitFor \/ ExitIf \/ ExitElse
           \/ ExitSwitch \/ ExitCase \/ ExitCompoundStmt
  BY <1>8, Returns
<1> QED
  BY <1>1, <1>2, <1>3, <1>4, <1>5, <1>6, <1>7, <1>8 DEF Next

LEMMA ContextImplies == IInv /\ Context => ContextMirrorsFrames
<1> SUFFICES ASSUME IInv, Context PROVE ContextMirrorsFrames
  OBVIOUS
<1> DEFINE m == Len(frames)
<1>1. m \in Nat
  BY LenProperties DEF IInv, TypeOK
<1>2. \A kinds, i : Depth(kinds, i) = Rank(frames, kinds, i)
  BY DEF Depth, Rank
<1>3. /\ Len(breakStack) = Depth(Breakable, m)
      /\ Len(continueStack) = Depth(Loops, m)
      /\ \A i \in 1..m :
           /\ frames[i].kind \in Breakable =>
                breakStack[Depth(Breakable, i)] = frames[i].exit
           /\ frames[i].kind \in Loops =>
                continueStack[Depth(Loops, i)] = frames[i].next
  BY <1>2 DEF Context, Mirrors, Exits, Nexts
<1>4. Innermost(frames, m, currentSwitch)
  BY DEF Context, SwitchesRemember
<1>5. CASE currentSwitch = NoSwitch /\ \A j \in 1..m : frames[j].kind # "switch"
  <2>1. {j \in 1..m : frames[j].kind \in {"switch"}} = {}
    BY <1>5
  <2>2. Depth({"switch"}, m) = 0
    BY <2>1, FS_EmptySet DEF Depth
  <2> QED
    BY <1>3, <1>5, <2>2 DEF ContextMirrorsFrames
<1>6. ASSUME NEW k \in 1..m, frames[k].kind = "switch", frames[k].id = currentSwitch,
             \A j \in k + 1..m : frames[j].kind # "switch"
      PROVE  ContextMirrorsFrames
  <2>1. Rank(frames, {"switch"}, m) # 0
    <3>1. frames[k].kind \in {"switch"}
      BY <1>6
    <3>2. Rank(frames, {"switch"}, k) \in 1..Rank(frames, {"switch"}, m)
      BY ONLY <1>1, k \in 1..m, <3>1, RankPlace
    <3> QED
      BY <3>2
  <2>2. Depth({"switch"}, m) # 0
    BY <1>2, <2>1
  <2> QED
    BY <1>3, <1>6, <2>2 DEF ContextMirrorsFrames
<1> QED
  BY <1>4, <1>5, <1>6 DEF Innermost

(* break leads behind the innermost loop or switch, continue into the      *)
(* innermost loop, and a label joins the innermost switch: the ScopeGuards *)
(* of the loops, of the switch and of currentSwitch_ keep the three        *)
(* contexts those of the statements that are open, for every nesting, and  *)
(* leave nothing behind when the function ends.                            *)
THEOREM ContextIsOfOpenStatements == Spec => []ContextMirrorsFrames
<1>1. Init => Context
  BY InitContext
<1>2. IInv /\ Context /\ [Next]_vars => Context'
  BY NextContext
<1>3. IInv /\ Context => ContextMirrorsFrames
  BY ContextImplies
<1> QED
  BY <1>1, <1>2, <1>3, Invariant, PTL DEF Spec

-----------------------------------------------------------------------------
(* What BlockItemList drops                                                *)

(* The statements that are entered in SourceFlow's open.  Braces and       *)
(* labels are not.                                                         *)
Enclosing == Breakable \cup {"if", "then", "else"}

SourceKind(kind) == IF kind \in {"then", "else"} THEN "if" ELSE kind

(* There is no switch among the i outermost statements.                    *)
Free(fs, i) == \A j \in 1..i : fs[j].kind # "switch"

(* The first branch of the i-th statement has not fallen through.          *)
FirstLeft(fs, i) == fs[i].kind = "else" /\ ~fs[i].flag /\ Free(fs, i)

Follows(o, fs, i) ==
  /\ o.kind = SourceKind(fs[i].kind)
  /\ FirstLeft(fs, i) => o.held = {}

(* The statements os that C has open are those of the m outermost frames.  *)
Tracks(os, fs, m) ==
  /\ Len(os) = Rank(fs, Enclosing, m)
  /\ \A i \in 1..m :
       fs[i].kind \in Enclosing => Follows(os[Rank(fs, Enclosing, i)], fs, i)
  /\ \A p \in 1..Len(os) :
       \E i \in 1..m : fs[i].kind \in Enclosing /\ Rank(fs, Enclosing, i) = p

(* 0 is the number of no switch.                                           *)
Numbered(fs) == \A i \in 1..Len(fs) : fs[i].kind = "switch" => fs[i].id # NoSwitch

(* Control gets nowhere behind a terminator, while no switch is open.      *)
DeadEnds ==
  phase = "body" /\ Free(frames, Len(frames)) /\ Terminated(cur) => pend = {}

(* The fields that Enclosed gives a statement                              *)
Fields == {"kind", "id", "back", "brk", "cont", "held", "flag"}

Shaped(o) == o = [x \in Fields |-> o[x]]

Statements(os) ==
  /\ \E T : os \in Seq(T)
  /\ \A p \in 1..Len(os) : Shaped(os[p])

Mirror ==
  /\ Statements(open)
  /\ Tracks(open, frames, Len(frames))
  /\ Numbered(frames)

(* The invariant of the two together                                       *)
Both == IInv /\ Context /\ Mirror /\ DeadEnds

(* The m outermost frames are the same, but for what they have visited.    *)
AlikeFrames(fs, gs, m) ==
  \A j \in 1..m : gs[j].kind = fs[j].kind /\ gs[j].flag = fs[j].flag
                    /\ gs[j].id = fs[j].id

AlikeOpen(os, ps) ==
  /\ Len(ps) = Len(os)
  /\ \A p \in 1..Len(os) : ps[p].kind = os[p].kind /\ ps[p].held = os[p].held

(* ps is os and one more.                                                  *)
Longer(os, ps) ==
  /\ Len(os) \in Nat /\ Len(ps) = Len(os) + 1
  /\ \A p \in 1..Len(os) : ps[p] = os[p]

LEMMA FreeSame ==
  ASSUME NEW fs, NEW gs, NEW m \in Nat, AlikeFrames(fs, gs, m), NEW i \in 0..m
  PROVE  Free(gs, i) <=> Free(fs, i)
<1>1. \A j \in 1..i : j \in 1..m
  OBVIOUS
<1> QED
  BY <1>1 DEF Free, AlikeFrames

LEMMA TracksAlike ==
  ASSUME NEW fs, NEW gs, NEW os, NEW ps, NEW m \in Nat, Tracks(os, fs, m),
         AlikeFrames(fs, gs, m), AlikeOpen(os, ps)
  PROVE  Tracks(ps, gs, m)
<1>1. /\ \A i \in 1..m : gs[i].kind = fs[i].kind
      /\ \A i \in 0..m : Rank(gs, Enclosing, i) = Rank(fs, Enclosing, i)
  <2>1. SameKinds(fs, gs, Enclosing, m)
    BY DEF SameKinds, AlikeFrames
  <2>2. \A i \in 0..m : Rank(gs, Enclosing, i) = Rank(fs, Enclosing, i)
    BY ONLY m \in Nat, <2>1, RankSame
  <2> QED
    BY <2>2 DEF AlikeFrames
<1>2. ASSUME NEW i \in 1..m, gs[i].kind \in Enclosing
      PROVE  Follows(ps[Rank(gs, Enclosing, i)], gs, i)
  <2>1. /\ fs[i].kind \in Enclosing /\ gs[i].kind = fs[i].kind
        /\ Rank(gs, Enclosing, i) = Rank(fs, Enclosing, i)
    BY <1>1, <1>2
  <2>2. Follows(os[Rank(fs, Enclosing, i)], fs, i)
    BY <2>1 DEF Tracks
  <2>3. Rank(fs, Enclosing, i) \in 1..Len(os)
    <3>1. Rank(fs, Enclosing, i) \in 1..Rank(fs, Enclosing, m)
      BY ONLY m \in Nat, i \in 1..m, <2>1, RankPlace
    <3> QED
      BY <3>1 DEF Tracks
  <2>4. /\ ps[Rank(fs, Enclosing, i)].kind = os[Rank(fs, Enclosing, i)].kind
        /\ ps[Rank(fs, Enclosing, i)].held = os[Rank(fs, Enclosing, i)].held
    BY <2>3 DEF AlikeOpen
  <2>5. FirstLeft(gs, i) <=> FirstLeft(fs, i)
    <3>1. Free(gs, i) <=> Free(fs, i)
      BY ONLY m \in Nat, i \in 1..m, AlikeFrames(fs, gs, m), FreeSame
    <3> QED
      BY <3>1 DEF FirstLeft, AlikeFrames
  <2> QED
    BY <2>1, <2>2, <2>4, <2>5 DEF Follows
<1>3. ASSUME NEW p \in 1..Len(ps)
      PROVE  \E i \in 1..m : gs[i].kind \in Enclosing /\ Rank(gs, Enclosing, i) = p
  <2>1. PICK i \in 1..m : fs[i].kind \in Enclosing /\ Rank(fs, Enclosing, i) = p
    BY DEF AlikeOpen, Tracks
  <2> QED
    BY <1>1, <2>1
<1>4. Len(ps) = Rank(gs, Enclosing, m)
  BY <1>1 DEF AlikeOpen, Tracks
<1> QED
  BY <1>2, <1>3, <1>4 DEF Tracks

(* A frame that C does not open changes nothing, ...                       *)
LEMMA TracksPlain ==
  ASSUME NEW fs, NEW os, NEW m \in Nat, fs[m + 1].kind \notin Enclosing
  PROVE  Tracks(os, fs, m) <=> Tracks(os, fs, m + 1)
<1>1. Rank(fs, Enclosing, m + 1) = Rank(fs, Enclosing, m)
  BY RankFacts
<1>2. \A i : i \in 1..m + 1 <=> i \in 1..m \/ i = m + 1
  OBVIOUS
<1> QED
  BY <1>1, <1>2 DEF Tracks

(* ... another one is opened in both ...                                   *)
LEMMA TracksOn ==
  ASSUME NEW fs, NEW os, NEW ps, NEW m \in Nat, fs[m + 1].kind \in Enclosing,
         Tracks(os, fs, m), Longer(os, ps), Follows(ps[Len(ps)], fs, m + 1)
  PROVE  Tracks(ps, fs, m + 1)
<1>1. /\ Rank(fs, Enclosing, m) \in Nat
      /\ Rank(fs, Enclosing, m + 1) = Rank(fs, Enclosing, m) + 1
  BY RankFacts
<1>2. \A i : i \in 1..m + 1 <=> i \in 1..m \/ i = m + 1
  OBVIOUS
<1>3. /\ Len(os) = Rank(fs, Enclosing, m)
      /\ Len(ps) = Rank(fs, Enclosing, m + 1) /\ Len(ps) = Len(os) + 1
  BY <1>1 DEF Tracks, Longer
<1>4. ASSUME NEW i \in 1..m, fs[i].kind \in Enclosing
      PROVE  Follows(ps[Rank(fs, Enclosing, i)], fs, i)
  <2>1. Rank(fs, Enclosing, i) \in 1..Rank(fs, Enclosing, m)
    BY ONLY m \in Nat, i \in 1..m, <1>4, RankPlace
  <2>2. ps[Rank(fs, Enclosing, i)] = os[Rank(fs, Enclosing, i)]
    BY <1>3, <2>1 DEF Longer
  <2> QED
    BY <1>4, <2>2 DEF Tracks
<1>5. Follows(ps[Rank(fs, Enclosing, m + 1)], fs, m + 1)
  BY <1>3
<1>6. ASSUME NEW p \in 1..Len(ps)
      PROVE  \E i \in 1..m + 1 : fs[i].kind \in Enclosing /\ Rank(fs, Enclosing, i) = p
  <2>1. CASE p \in 1..Len(os)
    BY <1>2, <2>1 DEF Tracks
  <2>2. CASE p = Len(os) + 1
    BY <1>2, <1>3, <2>2
  <2> QED
    BY <1>1, <1>3, <2>1, <2>2
<1>7. \A i \in 1..m + 1 :
        fs[i].kind \in Enclosing => Follows(ps[Rank(fs, Enclosing, i)], fs, i)
  BY <1>2, <1>4, <1>5
<1> QED
  BY <1>3, <1>6, <1>7 DEF Tracks

(* ... and closed in both.                                                 *)
LEMMA TracksOff ==
  ASSUME NEW fs, NEW os, NEW ps, NEW m \in Nat, fs[m + 1].kind \in Enclosing,
         Tracks(ps, fs, m + 1), Longer(os, ps)
  PROVE  Tracks(os, fs, m) /\ Follows(ps[Len(ps)], fs, m + 1)
<1>1. /\ Rank(fs, Enclosing, m) \in Nat
      /\ Rank(fs, Enclosing, m + 1) = Rank(fs, Enclosing, m) + 1
  BY RankFacts
<1>2. \A i : i \in 1..m + 1 <=> i \in 1..m \/ i = m + 1
  OBVIOUS
<1>3. /\ Len(os) = Rank(fs, Enclosing, m)
      /\ Len(ps) = Rank(fs, Enclosing, m + 1) /\ Len(ps) = Len(os) + 1
  BY <1>1 DEF Tracks, Longer
<1>4. ASSUME NEW i \in 1..m, fs[i].kind \in Enclosing
      PROVE  Follows(os[Rank(fs, Enclosing, i)], fs, i)
  <2>1. Rank(fs, Enclosing, i) \in 1..Rank(fs, Enclosing, m)
    BY ONLY m \in Nat, i \in 1..m, <1>4, RankPlace
  <2>2. ps[Rank(fs, Enclosing, i)] = os[Rank(fs, Enclosing, i)]
    BY <1>3, <2>1 DEF Longer
  <2>3. Follows(ps[Rank(fs, Enclosing, i)], fs, i)
    BY <1>2, <1>4 DEF Tracks
  <2> QED
    BY <2>2, <2>3
<1>5. Follows(ps[Len(ps)], fs, m + 1)
  BY <1>2, <1>3 DEF Tracks
<1>6. ASSUME NEW p \in 1..Len(os)
      PROVE  \E i \in 1..m : fs[i].kind \in Enclosing /\ Rank(fs, Enclosing, i) = p
  <2>1. p \in 1..Len(ps) /\ p # Len(ps)
    BY <1>1, <1>3
  <2>2. PICK i \in 1..m + 1 : fs[i].kind \in Enclosing /\ Rank(fs, Enclosing, i) = p
    BY <2>1 DEF Tracks
  <2>3. i # m + 1
    BY <1>3, <2>1, <2>2
  <2> QED
    BY <1>2, <2>2, <2>3
<1> QED
  BY <1>3, <1>4, <1>5, <1>6 DEF Tracks

(* How open changes                                                        *)

LEMMA StatementsPush ==
  ASSUME NEW os, Statements(os), NEW o, Shaped(o), NEW ps, ps = Append(os, o)
  PROVE  Statements(ps) /\ Longer(os, ps) /\ ps[Len(ps)] = o
<1>1. PICK T : os \in Seq(T)
  BY DEF Statements
<1> DEFINE U == T \cup {o}
<1>2. /\ ps \in Seq(U) /\ Len(os) \in Nat /\ Len(ps) = Len(os) + 1
      /\ \A p \in 1..Len(os) : ps[p] = os[p]
      /\ ps[Len(os) + 1] = o
  <2>1. os \in Seq(U) /\ o \in U
    BY <1>1, SeqMonotonic
  <2> HIDE DEF U
  <2> QED
    BY ONLY <2>1, ps = Append(os, o), AppendProperties, LenProperties
<1>3. \A p \in 1..Len(ps) : Shaped(ps[p])
  BY <1>2 DEF Statements
<1> QED
  BY <1>2, <1>3 DEF Statements, Longer

LEMMA StatementsPop ==
  ASSUME NEW os, Statements(os), os # << >>, NEW ps, ps = Pop(os)
  PROVE  Statements(ps) /\ Longer(ps, os)
<1>1. PICK T : os \in Seq(T)
  BY DEF Statements
<1>2. /\ ps \in Seq(T) /\ Len(os) \in Nat \ {0} /\ Len(ps) = Len(os) - 1
      /\ \A p \in 1..Len(ps) : ps[p] = os[p]
  BY <1>1, PopFacts, EmptySeq
<1>3. \A p \in 1..Len(ps) : Shaped(ps[p])
  BY <1>2 DEF Statements
<1> QED
  BY <1>2, <1>3 DEF Statements, Longer

(* One of the statements, or none, becomes o.                              *)
Changed(os, ps, i, o) == ps = [os EXCEPT ![i] = o]

Fits(os, i, o) == i \in 1..Len(os) => Shaped(o)

LEMMA StatementsSet ==
  ASSUME NEW os, Statements(os), NEW i, NEW o,
         Fits(os, i, o), NEW ps, Changed(os, ps, i, o)
  PROVE  /\ Statements(ps) /\ Len(ps) = Len(os) /\ Len(os) \in Nat
         /\ \A p \in 1..Len(os) : ps[p] = IF p = i THEN o ELSE os[p]
<1>0. ps = [os EXCEPT ![i] = o]
  BY DEF Changed
<1>1. PICK T : os \in Seq(T)
  BY DEF Statements
<1>2. Len(os) \in Nat /\ DOMAIN os = 1..Len(os)
  BY <1>1, LenProperties
<1>3. CASE i \in 1..Len(os)
  <2> DEFINE U == T \cup {o}
  <2>1. /\ ps \in Seq(U) /\ Len(ps) = Len(os)
        /\ \A p \in 1..Len(os) : ps[p] = IF p = i THEN o ELSE os[p]
    <3>1. os \in Seq(U) /\ o \in U
      BY <1>1, SeqMonotonic
    <3> HIDE DEF U
    <3> QED
      BY ONLY <1>0, <3>1, <1>3, ExceptSeq
  <2>2. \A p \in 1..Len(ps) : Shaped(ps[p])
    BY <1>3, <2>1 DEF Statements, Fits
  <2> QED
    BY <1>2, <2>1, <2>2 DEF Statements
<1>4. CASE i \notin 1..Len(os)
  <2>1. ps = os
    <3>1. os = [p \in 1..Len(os) |-> os[p]]
      BY <1>1, <1>2
    <3> QED
      BY <1>0, <1>2, <1>4, <3>1
  <2> QED
    BY <1>2, <1>4, <2>1
<1> QED
  BY <1>3, <1>4

-----------------------------------------------------------------------------
(* Mirror, from what the steps of one shape have in common                 *)

LEMMA DoneAlike ==
  ASSUME NEW f \in Frames
  PROVE  LET g == [f EXCEPT !.done = TRUE]
         IN  g.kind = f.kind /\ g.flag = f.flag /\ g.id = f.id
BY DEF Frames

LEMMA FramesPush ==
  ASSUME IInv, Context, phase = "body", NEW f \in Frames,
         frames' = Append(Asked, f)
  PROVE  /\ Len(frames) \in Nat /\ Len(frames') = Len(frames) + 1
         /\ frames'[Len(frames) + 1] = f
         /\ AlikeFrames(frames, frames', Len(frames))
<1>1. frames \in Seq(Frames) /\ frames # << >> /\ Len(frames) \in Nat
  BY ContextParts
<1>2. /\ Len(frames') = Len(frames) + 1 /\ frames'[Len(frames) + 1] = f
      /\ \A i \in 1..Len(frames) :
           frames'[i] = IF i = Len(frames) THEN [frames[i] EXCEPT !.done = TRUE]
                                           ELSE frames[i]
  BY ONLY <1>1, f \in Frames, frames' = Append(Asked, f), OpenFacts
<1>3. \A i \in 1..Len(frames) : frames[i] \in Frames
  BY <1>1, ElementOfSeq
<1>4. AlikeFrames(frames, frames', Len(frames))
  <2> SUFFICES ASSUME NEW j \in 1..Len(frames)
               PROVE  /\ frames'[j].kind = frames[j].kind
                      /\ frames'[j].flag = frames[j].flag
                      /\ frames'[j].id = frames[j].id
    BY DEF AlikeFrames
  <2>1. CASE j = Len(frames)
    BY <1>2, <1>3, <2>1, DoneAlike
  <2>2. CASE j # Len(frames)
    BY <1>2, <2>2
  <2> QED
    BY <2>1, <2>2
<1> QED
  BY <1>1, <1>2, <1>4

LEMMA FramesPop ==
  ASSUME IInv, Context, phase = "body", frames' = Pop(frames)
  PROVE  /\ Len(frames') \in Nat /\ Len(frames) = Len(frames') + 1
         /\ frames[Len(frames') + 1] = Top
         /\ AlikeFrames(frames, frames', Len(frames'))
<1>1. /\ Len(frames) - 1 \in Nat /\ Len(frames) = Len(frames) - 1 + 1
      /\ frames[Len(frames) - 1 + 1] = Top
      /\ frames \in Seq(Frames) /\ frames # << >>
  BY ContextParts
<1>2. /\ Len(frames') = Len(frames) - 1
      /\ \A i \in 1..(Len(frames) - 1) : frames'[i] = frames[i]
  <2>1. frames \in Seq(Frames) /\ frames # << >>
    BY <1>1
  <2> QED
    BY ONLY <2>1, frames' = Pop(frames), PopFacts
<1> QED
  BY <1>1, <1>2 DEF AlikeFrames

LEMMA FramesAsked ==
  ASSUME IInv, Context, phase = "body", frames' = Asked
  PROVE  /\ Len(frames) \in Nat /\ Len(frames') = Len(frames)
         /\ AlikeFrames(frames, frames', Len(frames))
<1>1. Len(frames) \in Nat /\ frames \in Seq(Frames) /\ frames # << >>
  BY ContextParts
<1>2. /\ Len(frames') = Len(frames)
      /\ \A i \in 1..Len(frames) :
           frames'[i] = IF i = Len(frames) THEN [frames[i] EXCEPT !.done = TRUE]
                                           ELSE frames[i]
  BY ONLY <1>1, frames' = Asked, AskedFacts
<1>3. \A i \in 1..Len(frames) : frames[i] \in Frames
  BY <1>1, ElementOfSeq
<1> QED
  BY <1>1, <1>2, <1>3, DoneAlike DEF AlikeFrames

LEMMA NumberedBelow ==
  ASSUME NEW fs, NEW gs, NEW m \in Nat, AlikeFrames(fs, gs, m), Numbered(fs),
         Len(fs) \in Nat, m <= Len(fs), Len(gs) = m
  PROVE  Numbered(gs)
BY DEF Numbered, AlikeFrames

LEMMA NumberedOn ==
  ASSUME NEW fs, NEW gs, NEW m \in Nat, AlikeFrames(fs, gs, m), Numbered(fs),
         Len(fs) = m, Len(gs) = m + 1,
         gs[m + 1].kind = "switch" => gs[m + 1].id # NoSwitch
  PROVE  Numbered(gs)
<1>1. \A i \in 1..m + 1 : i \in 1..m \/ i = m + 1
  OBVIOUS
<1> QED
  BY <1>1 DEF Numbered, AlikeFrames

(* C opens a statement with the visit f, ...                               *)
LEMMA BothOpen ==
  ASSUME IInv, Context, Mirror, phase = "body", NEW f \in Frames,
         frames' = Append(Asked, f), f.kind \in Enclosing, f.kind # "else",
         f.kind = "switch" => f.id # NoSwitch,
         NEW o, Shaped(o), o.kind = SourceKind(f.kind), open' = Append(open, o)
  PROVE  Mirror'
<1> DEFINE m == Len(frames)
<1>1. /\ m \in Nat /\ Len(frames') = m + 1 /\ frames'[m + 1] = f
      /\ AlikeFrames(frames, frames', m)
  BY FramesPush
<1>2. Statements(open') /\ Longer(open, open') /\ open'[Len(open')] = o
  BY StatementsPush DEF Mirror
<1> HIDE DEF m
<1>3. Tracks(open, frames, m)
  BY DEF Mirror, m
<1>4. AlikeOpen(open, open)
  BY DEF AlikeOpen
<1>5. Tracks(open, frames', m)
  BY ONLY <1>1, <1>3, <1>4, TracksAlike
<1>6. Follows(open'[Len(open')], frames', m + 1)
  BY <1>1, <1>2 DEF Follows, FirstLeft
<1>7. Tracks(open', frames', m + 1)
  BY ONLY <1>1, <1>2, <1>5, <1>6, f.kind \in Enclosing, TracksOn
<1>8. Numbered(frames')
  <2>1. Numbered(frames) /\ Len(frames) = m
    BY DEF Mirror, m
  <2> QED
    BY ONLY <1>1, <2>1, f.kind = "switch" => f.id # NoSwitch, NumberedOn
<1> QED
  BY <1>1, <1>2, <1>7, <1>8 DEF Mirror

(* ... or opens none, ...                                                  *)
LEMMA OneOpens ==
  ASSUME IInv, Context, Mirror, phase = "body", NEW f \in Frames,
         frames' = Append(Asked, f), f.kind \notin Enclosing,
         Statements(open'), AlikeOpen(open, open')
  PROVE  Mirror'
<1> DEFINE m == Len(frames)
<1>1. /\ m \in Nat /\ Len(frames') = m + 1 /\ frames'[m + 1] = f
      /\ AlikeFrames(frames, frames', m)
  BY FramesPush
<1> HIDE DEF m
<1>2. Tracks(open, frames, m)
  BY DEF Mirror, m
<1>3. Tracks(open', frames', m)
  BY ONLY <1>1, <1>2, AlikeOpen(open, open'), TracksAlike
<1>4. Tracks(open', frames', m + 1)
  BY ONLY <1>1, <1>3, f.kind \notin Enclosing, TracksPlain
<1>5. Numbered(frames')
  <2>1. Numbered(frames) /\ Len(frames) = m
    BY DEF Mirror, m
  <2>2. f.kind # "switch"
    BY DEF Enclosing, Breakable
  <2> QED
    BY ONLY <1>1, <2>1, <2>2, NumberedOn
<1> QED
  BY <1>1, <1>4, <1>5 DEF Mirror

(* ... closes the innermost one, ...                                       *)
LEMMA BothClose ==
  ASSUME IInv, Context, Mirror, phase = "body", frames' = Pop(frames),
         Top.kind \in Enclosing, open # << >>, open' = Pop(open)
  PROVE  /\ Mirror'
         /\ Follows(open[Len(open)], frames, Len(frames))
<1> DEFINE m == Len(frames')
<1>1. /\ m \in Nat /\ Len(frames) = m + 1 /\ frames[m + 1] = Top
      /\ AlikeFrames(frames, frames', m)
  BY FramesPop
<1>2. Statements(open') /\ Longer(open', open)
  BY StatementsPop DEF Mirror
<1> HIDE DEF m
<1>3. Tracks(open, frames, m + 1)
  BY <1>1 DEF Mirror
<1>4. Tracks(open', frames, m) /\ Follows(open[Len(open)], frames, m + 1)
  BY ONLY <1>1, <1>2, <1>3, Top.kind \in Enclosing, TracksOff
<1>5. AlikeOpen(open', open')
  BY DEF AlikeOpen
<1>6. Tracks(open', frames', m)
  BY ONLY <1>1, <1>4, <1>5, TracksAlike
<1>7. Numbered(frames')
  <2>1. Numbered(frames) /\ Len(frames') = m
    BY DEF Mirror, m
  <2> QED
    BY <1>1, <2>1, NumberedBelow
<1> QED
  BY <1>1, <1>2, <1>4, <1>6, <1>7 DEF Mirror, m

(* ... closes none, ...                                                    *)
LEMMA OneCloses ==
  ASSUME IInv, Context, Mirror, phase = "body", frames' = Pop(frames),
         Top.kind \notin Enclosing, open' = open
  PROVE  Mirror'
<1> DEFINE m == Len(frames')
<1>1. /\ m \in Nat /\ Len(frames) = m + 1 /\ frames[m + 1] = Top
      /\ AlikeFrames(frames, frames', m)
  BY FramesPop
<1> HIDE DEF m
<1>2. Tracks(open, frames, m + 1)
  BY <1>1 DEF Mirror
<1>3. Tracks(open, frames, m)
  BY ONLY <1>1, <1>2, Top.kind \notin Enclosing, TracksPlain
<1>4. AlikeOpen(open, open)
  BY DEF AlikeOpen
<1>5. Tracks(open, frames', m)
  BY ONLY <1>1, <1>3, <1>4, TracksAlike
<1>6. Numbered(frames')
  <2>1. Numbered(frames) /\ Len(frames') = m
    BY DEF Mirror, m
  <2> QED
    BY <1>1, <2>1, NumberedBelow
<1> QED
  BY <1>1, <1>5, <1>6 DEF Mirror, m

(* ... or leaves them all open.                                            *)
LEMMA NoneCloses ==
  ASSUME IInv, Context, Mirror, phase = "body", frames' = Asked,
         Statements(open'), AlikeOpen(open, open')
  PROVE  Mirror'
<1> DEFINE m == Len(frames)
<1>1. /\ m \in Nat /\ Len(frames') = m
      /\ AlikeFrames(frames, frames', m)
  BY FramesAsked
<1> HIDE DEF m
<1>2. Tracks(open, frames, m)
  BY DEF Mirror, m
<1>3. Tracks(open', frames', m)
  BY ONLY <1>1, <1>2, AlikeOpen(open, open'), TracksAlike
<1>4. Numbered(frames')
  <2>1. Numbered(frames) /\ Len(frames) = m
    BY DEF Mirror, m
  <2> QED
    BY <1>1, <2>1, NumberedBelow
<1> QED
  BY <1>1, <1>3, <1>4 DEF Mirror

-----------------------------------------------------------------------------
(* Where the insertion point is open                                       *)

LEMMA FreeOutside ==
  ASSUME NEW fs, NEW m, NEW switch, Innermost(fs, m, switch), Free(fs, m)
  PROVE  switch = NoSwitch
BY DEF Innermost, Free

(* What starts a child starts it in an open block.                         *)
LEMMA StartsAlive ==
  ASSUME IInv', Context', Top'.kind # "list", ~Top'.done
  PROVE  DeadEnds'
<1> SUFFICES ASSUME phase' = "body", Free(frames', Len(frames'))
             PROVE  ~Terminated(cur)'
  BY DEF DeadEnds
<1>1. Innermost(frames', Len(frames'), currentSwitch')
  BY DEF Context, SwitchesRemember
<1>2. currentSwitch' = NoSwitch
  BY <1>1, FreeOutside
<1> QED
  BY <1>2 DEF IInv, StartsOpen

LEMMA Elsewhere ==
  ASSUME NEW c, DOMAIN c = Block, NEW b, NEW x \in Block, x # b, NEW i, NEW cond
  PROVE  /\ DOMAIN Emit(c, b, i) = Block /\ Emit(c, b, i)[x] = c[x]
         /\ DOMAIN EmitIf(cond, c, b, i) = Block /\ EmitIf(cond, c, b, i)[x] = c[x]
BY DEF Emit, EmitIf

(* A statement is left for a block that nothing has been put in.           *)
LEMMA ExitAlive ==
  ASSUME IInv, NEW b, b \in {Top.exit}, phase = "body",
         Top.kind \in {"while", "do", "for", "if", "else", "switch"}
  PROVE  /\ b \in Block /\ b # cur /\ code[b] = << >> /\ DOMAIN code = Block
         /\ Top.kind \in Loops => b # Top.next
<1>1. b \in Kept(Top) /\ (Top.kind \in {"do", "for"} => Top.next # b)
  BY TopBlocks DEF Kept, FrameBlocks
<1>2. b \in Block /\ b \notin inserted
  BY <1>1, TopBlocks
<1>3. Top.kind = "while" => Top.next \in inserted
  BY TopBlocks DEF FrameBlocks
<1>4. cur \in inserted /\ code[b] = << >> /\ DOMAIN code = Block
  BY <1>2, CodeFacts DEF CodeInv
<1> QED
  BY <1>1, <1>2, <1>3, <1>4 DEF Loops

LEMMA LeavesAlive ==
  ASSUME IInv, ExitWhile \/ ExitDoWhile \/ ExitFor \/ ExitIf \/ ExitSwitch
  PROVE  DeadEnds'
<1>1. /\ phase = "body" /\ cur' = Top.exit
      /\ Top.kind \in {"while", "do", "for", "if", "switch"}
  BY DEF ExitWhile, ExitDoWhile, ExitFor, ExitIf, ExitSwitch, CanClose
<1> DEFINE b == Top.exit
<1>2. /\ b \in Block /\ b # cur /\ code[b] = << >> /\ DOMAIN code = Block
      /\ Top.kind \in Loops => b # Top.next
  BY <1>1, ExitAlive
<1>3. ASSUME NEW to PROVE DOMAIN FallThrough(to) = Block /\ FallThrough(to)[b] = code[b]
  BY <1>2, Elsewhere DEF FallThrough
<1> HIDE DEF b
<1>4. code'[b] = code[b]
  <2>1. CASE ExitWhile \/ ExitIf \/ ExitSwitch
    BY <1>3, <2>1 DEF ExitWhile, ExitIf, ExitSwitch
  <2>2. CASE ExitDoWhile
    <3> DEFINE c1 == FallThrough(Top.next)
               c2 == Emit(c1, Top.next, Eval(Top.id, "test"))
    <3>1. code' = Emit(c2, Top.next, CondBr(Top.id, Top.head, Top.exit))
      BY <2>2 DEF ExitDoWhile
    <3>2. b # Top.next /\ DOMAIN c1 = Block /\ c1[b] = code[b]
      BY <1>2, <1>3, <2>2 DEF ExitDoWhile, CanClose, Loops
    <3> HIDE DEF c1
    <3>3. DOMAIN c2 = Block /\ c2[b] = code[b]
      BY <1>2, <3>2, Elsewhere
    <3> HIDE DEF c2
    <3>4. Emit(c2, Top.next, CondBr(Top.id, Top.head, Top.exit))[b] = c2[b]
      BY ONLY <1>2, <3>2, <3>3, Elsewhere
    <3> QED
      BY ONLY <3>1, <3>3, <3>4
  <2>3. CASE ExitFor
    <3> DEFINE c1 == FallThrough(Top.next)
               c2 == EmitIf(Top.flag, c1, Top.next, Eval(Top.id, "step"))
    <3>1. code' = Emit(c2, Top.next, Br(Top.head))
      BY <2>3 DEF ExitFor
    <3>2. b # Top.next /\ DOMAIN c1 = Block /\ c1[b] = code[b]
      BY <1>2, <1>3, <2>3 DEF ExitFor, CanClose, Loops
    <3> HIDE DEF c1
    <3>3. DOMAIN c2 = Block /\ c2[b] = code[b]
      BY <1>2, <3>2, Elsewhere
    <3> HIDE DEF c2
    <3>4. Emit(c2, Top.next, Br(Top.head))[b] = c2[b]
      BY ONLY <1>2, <3>2, <3>3, Elsewhere
    <3> QED
      BY ONLY <3>1, <3>3, <3>4
  <2> QED
    BY <2>1, <2>2, <2>3
<1>5. ~EndsInTerminator(code'[cur'])
  BY <1>1, <1>2, <1>4, EmptyIsOpen DEF b
<1> QED
  BY <1>5 DEF DeadEnds, Terminated

-----------------------------------------------------------------------------
(* The steps of both                                                       *)

LEMMA FieldSet ==
  ASSUME NEW e, Shaped(e), NEW x \in Fields, NEW v
  PROVE  LET o == [e EXCEPT ![x] = v]
         IN  Shaped(o) /\ \A y \in Fields : y # x => o[y] = e[y]
<1>1. DOMAIN e = Fields
  BY DEF Shaped
<1> QED
  BY <1>1 DEF Shaped

LEMMA EnclosedShaped ==
  ASSUME NEW kind
  PROVE  Shaped(S!Enclosed(kind)) /\ S!Enclosed(kind).kind = kind
<1> DEFINE e == S!Enclosed(kind)
<1>1. DOMAIN e = Fields /\ e.kind = kind
  BY DEF S!Enclosed, Fields
<1>2. e = [x \in DOMAIN e |-> e[x]]
  BY DEF S!Enclosed
<1> QED
  BY <1>1, <1>2 DEF Shaped

LEMMA TopOpened ==
  ASSUME IInv, Context, IInv', phase = "body", NEW f, frames' = Append(Asked, f)
  PROVE  f \in Frames /\ Top' = f
<1>1. frames \in Seq(Frames) /\ frames # << >>
  BY ContextParts
<1>2. Asked \in Seq(Frames)
  BY <1>1, AskedFacts
<1> DEFINE U == Frames \cup {f}
<1>3. Asked \in Seq(U) /\ f \in U
  BY <1>2, SeqMonotonic
<1> HIDE DEF U
<1>4. Len(frames') = Len(Asked) + 1 /\ frames'[Len(Asked) + 1] = f /\ Len(Asked) \in Nat
  BY ONLY <1>3, frames' = Append(Asked, f), AppendProperties, LenProperties
<1>5. frames' \in Seq(Frames)
  BY DEF IInv, TypeOK
<1>6. frames'[Len(frames')] \in Frames /\ frames'[Len(frames')] = f
  BY <1>4, <1>5, ElementOfSeq
<1> QED
  BY <1>6 DEF Top

(* A statement that C opens too                                            *)
LEMMA Opened ==
  ASSUME Both, IInv', Context', phase = "body",
         NEW f, frames' = Append(Asked, f), f.kind \in Enclosing, f.kind # "else",
         ~f.done, f.id = n + 1,
         NEW o, open' = Append(open, o), Shaped(o), o.kind = SourceKind(f.kind)
  PROVE  Both'
<1>1. f \in Frames /\ Top' = f
  BY TopOpened DEF Both
<1>2. f.id # NoSwitch /\ f.kind # "list"
  <2>1. n \in Nat
    BY DEF Both, IInv, TypeOK
  <2>2. f.kind # "list"
    BY DEF Enclosing, Breakable, Loops
  <2> QED
    BY ONLY <2>1, <2>2, f.id = n + 1 DEF NoSwitch
<1>3. Mirror'
  BY <1>1, <1>2, BothOpen DEF Both
<1>4. DeadEnds'
  BY <1>1, <1>2, StartsAlive
<1> QED
  BY <1>3, <1>4 DEF Both

(* C opens the statement o with the visit f.                               *)
OpensBoth(f, o) ==
  /\ phase = "body" /\ frames' = Append(Asked, f)
  /\ f.kind \in Enclosing /\ f.kind # "else" /\ ~f.done /\ f.id = n + 1
  /\ open' = Append(open, o) /\ Shaped(o) /\ o.kind = SourceKind(f.kind)

LEMMA WhileBoth ==
  ASSUME EnterWhile, S!BeginWhile
  PROVE  \E f, o : OpensBoth(f, o)
<1> DEFINE f == [Frame("while") EXCEPT !.next = made + 3, !.exit = made + 2]
           o == [S!Enclosed("while") EXCEPT !.back = S!Node(n + 1, "test")]
<1>1. phase = "body" /\ frames' = Append(Asked, f)
  BY DEF EnterWhile, CanOpen, CanVisit, Open
<1>2. open' = Append(open, o)
  BY DEF S!BeginWhile, S!Begin
<1>3. f.kind = "while" /\ ~f.done /\ f.id = n + 1
  BY DEF Frame
<1>4. Shaped(o) /\ o.kind = "while"
  BY EnclosedShaped, FieldSet DEF Fields
<1> HIDE DEF f, o
<1>5. OpensBoth(f, o)
  BY <1>1, <1>2, <1>3, <1>4 DEF OpensBoth, Enclosing, Breakable, Loops, SourceKind
<1> QED
  BY <1>5

LEMMA DoBoth ==
  ASSUME EnterDoWhile, S!BeginDo
  PROVE  \E f, o : OpensBoth(f, o)
<1> DEFINE f == [Frame("do") EXCEPT !.head = made + 1, !.next = made + 3,
                                    !.exit = made + 2]
           o == [S!Enclosed("do") EXCEPT !.back = S!Node(n + 1, "head")]
<1>1. phase = "body" /\ frames' = Append(Asked, f)
  BY DEF EnterDoWhile, CanOpen, CanVisit, Open
<1>2. open' = Append(open, o)
  BY DEF S!BeginDo, S!Begin
<1>3. f.kind = "do" /\ ~f.done /\ f.id = n + 1
  BY DEF Frame
<1>4. Shaped(o) /\ o.kind = "do"
  BY EnclosedShaped, FieldSet DEF Fields
<1> HIDE DEF f, o
<1>5. OpensBoth(f, o)
  BY <1>1, <1>2, <1>3, <1>4 DEF OpensBoth, Enclosing, Breakable, Loops, SourceKind
<1> QED
  BY <1>5

LEMMA ForBoth ==
  ASSUME NEW init \in BOOLEAN, NEW test \in BOOLEAN, NEW step \in BOOLEAN,
         EnterFor(init, test, step), S!BeginFor(init, test, step)
  PROVE  \E f, o : OpensBoth(f, o)
<1> DEFINE f == [Frame("for") EXCEPT !.head = made + 4, !.next = made + 2,
                                     !.exit = made + 3, !.flag = step]
           back == S!Node(n + 1, IF test THEN "test" ELSE "head")
           o == [S!Enclosed("for") EXCEPT !.back = back, !.flag = step]
<1>1. phase = "body" /\ frames' = Append(Asked, f)
  BY DEF EnterFor, CanOpen, CanVisit, Open
<1>2. open' = Append(open, o)
  BY DEF S!BeginFor, S!Begin
<1>3. f.kind = "for" /\ ~f.done /\ f.id = n + 1
  BY DEF Frame
<1> HIDE DEF back
<1>4. Shaped(o) /\ o.kind = "for"
  <2> DEFINE d == [S!Enclosed("for") EXCEPT !.back = back]
  <2>1. o = [d EXCEPT !.flag = step]
    OBVIOUS
  <2>2. Shaped(d) /\ d.kind = "for"
    BY EnclosedShaped, FieldSet DEF Fields
  <2> HIDE DEF d, o
  <2> QED
    BY <2>1, <2>2, FieldSet DEF Fields
<1> HIDE DEF f, o
<1>5. OpensBoth(f, o)
  BY <1>1, <1>2, <1>3, <1>4 DEF OpensBoth, Enclosing, Breakable, Loops, SourceKind
<1> QED
  BY <1>5

LEMMA IfBoth ==
  ASSUME NEW hasElse \in BOOLEAN, EnterIf(hasElse), S!BeginIf
  PROVE  \E f, o : OpensBoth(f, o)
<1> DEFINE kind == IF hasElse THEN "then" ELSE "if"
           f == [Frame(kind) EXCEPT !.next = made + 3, !.exit = made + 2]
           held == {S!End(S!Node(n + 1, "test"), "false")}
           o == [S!Enclosed("if") EXCEPT !.held = held]
<1>1. phase = "body" /\ frames' = Append(Asked, f)
  BY DEF EnterIf, CanOpen, CanVisit, Open
<1>2. open' = Append(open, o)
  BY DEF S!BeginIf, S!Begin
<1>3. f.kind \in {"then", "if"} /\ ~f.done /\ f.id = n + 1
  BY DEF Frame
<1> HIDE DEF held
<1>4. Shaped(o) /\ o.kind = "if"
  BY EnclosedShaped, FieldSet DEF Fields
<1> HIDE DEF f, o
<1>5. OpensBoth(f, o)
  BY <1>1, <1>2, <1>3, <1>4 DEF OpensBoth, Enclosing, SourceKind
<1> QED
  BY <1>5

LEMMA SwitchBoth ==
  ASSUME EnterSwitch, S!BeginSwitch
  PROVE  \E f, o : OpensBoth(f, o)
<1> DEFINE f == [Frame("switch") EXCEPT !.exit = made + 1, !.old = currentSwitch]
           o == S!Enclosed("switch")
<1>1. phase = "body" /\ frames' = Append(Asked, f)
  BY DEF EnterSwitch, CanOpen, CanVisit, Open
<1>2. open' = Append(open, o)
  BY DEF S!BeginSwitch, S!Begin
<1>3. f.kind = "switch" /\ ~f.done /\ f.id = n + 1
  BY DEF Frame
<1>4. Shaped(o) /\ o.kind = "switch"
  BY EnclosedShaped
<1> HIDE DEF f, o
<1>5. OpensBoth(f, o)
  BY <1>1, <1>2, <1>3, <1>4 DEF OpensBoth, Enclosing, Breakable, SourceKind
<1> QED
  BY <1>5

LEMMA Opening ==
  ASSUME Both, IInv', Context',
         \/ EnterWhile /\ S!BeginWhile
         \/ EnterDoWhile /\ S!BeginDo
         \/ \E init, test, step \in BOOLEAN :
              EnterFor(init, test, step) /\ S!BeginFor(init, test, step)
         \/ \E hasElse \in BOOLEAN : EnterIf(hasElse) /\ S!BeginIf
         \/ EnterSwitch /\ S!BeginSwitch
  PROVE  Both'
<1>1. PICK f, o : OpensBoth(f, o)
  BY WhileBoth, DoBoth, ForBoth, IfBoth, SwitchBoth
<1> QED
  BY <1>1, Opened DEF OpensBoth

LEMMA LoopsClose ==
  ASSUME Both, IInv', Context',
         \/ ExitWhile /\ S!EndWhile
         \/ ExitDoWhile /\ S!EndDo
         \/ ExitFor /\ S!EndFor
         \/ ExitIf /\ S!EndIf
         \/ ExitSwitch /\ S!EndSwitch
  PROVE  Both'
<1>1. /\ phase = "body" /\ frames' = Pop(frames)
      /\ Top.kind \in {"while", "do", "for", "if", "switch"}
  BY DEF ExitWhile, ExitDoWhile, ExitFor, ExitIf, ExitSwitch, CanClose, Close
<1>2. open # << >> /\ open' = Pop(open)
  BY DEF S!EndWhile, S!EndDo, S!EndFor, S!EndIf, S!EndSwitch, S!Finish, Pop
<1>3. Mirror'
  <2>1. Top.kind \in Enclosing
    BY <1>1 DEF Enclosing, Breakable, Loops
  <2> QED
    BY <1>1, <1>2, <2>1, BothClose DEF Both
<1>4. DeadEnds'
  BY LeavesAlive DEF Both
<1> QED
  BY <1>3, <1>4 DEF Both

(* What is free of switches without the top was with it, unless that is    *)
(* one.                                                                    *)
LEMMA FreePop ==
  ASSUME IInv, Context, phase = "body", frames' = Pop(frames), Top.kind # "switch",
         Free(frames', Len(frames'))
  PROVE  Free(frames, Len(frames))
<1> DEFINE m == Len(frames')
<1>1. /\ m \in Nat /\ Len(frames) = m + 1 /\ frames[m + 1] = Top
      /\ AlikeFrames(frames, frames', m)
  BY FramesPop
<1> HIDE DEF m
<1>2. \A j \in 1..m + 1 : j \in 1..m \/ j = m + 1
  BY ONLY <1>1
<1>3. \A j \in 1..m : frames[j].kind # "switch"
  BY <1>1 DEF Free, AlikeFrames, m
<1> QED
  BY <1>1, <1>2, <1>3 DEF Free

(* Where neither branch falls through, C does not get behind the if, ...   *)
LEMMA ElseCloses ==
  ASSUME Both, IInv', Context', ExitElse, S!EndIf
  PROVE  Both'
<1>1. /\ phase = "body" /\ frames' = Pop(frames) /\ Top.kind = "else"
  BY DEF ExitElse, CanClose, Close
<1>2. open # << >> /\ open' = Pop(open) /\ pend' = pend \cup open[Len(open)].held
  BY DEF S!EndIf, S!Finish, S!Inner, Pop
<1>3. Mirror' /\ Follows(open[Len(open)], frames, Len(frames))
  <2>1. Top.kind \in Enclosing
    BY <1>1 DEF Enclosing
  <2> QED
    BY <1>1, <1>2, <2>1, BothClose DEF Both
<1>4. DeadEnds'
  <2>1. CASE Top.flag \/ ~Terminated(cur)
    <3> DEFINE b == Top.exit
    <3>1. cur' = b /\ code' = FallThrough(b)
      BY <2>1 DEF ExitElse
    <3>2. b \in Block /\ b # cur /\ code[b] = << >> /\ DOMAIN code = Block
      BY <1>1, ExitAlive DEF Both
    <3> HIDE DEF b
    <3>3. code'[b] = << >>
      BY <3>1, <3>2, Elsewhere DEF FallThrough
    <3> QED
      BY <3>1, <3>3, EmptyIsOpen DEF DeadEnds, Terminated
  <2>2. CASE ~Top.flag /\ Terminated(cur)
    <3> SUFFICES ASSUME Free(frames', Len(frames')) PROVE pend' = {}
      BY DEF DeadEnds
    <3>1. Free(frames, Len(frames))
      BY <1>1, FreePop DEF Both
    <3>2. pend = {}
      BY <1>1, <2>2, <3>1 DEF Both, DeadEnds
    <3>3. open[Len(open)].held = {}
      BY <1>1, <1>3, <2>2, <3>1 DEF Follows, FirstLeft, Top
    <3> QED
      BY <1>2, <3>2, <3>3
  <2> QED
    BY <2>1, <2>2
<1> QED
  BY <1>3, <1>4 DEF Both

(* ... and what ends the first branch is held until then.                  *)
LEMMA ElseOpens ==
  ASSUME Both, IInv', Context', ThenToElse, S!BeginElse
  PROVE  Both'
<1> DEFINE g == [Top EXCEPT !.kind = "else", !.done = FALSE, !.flag = ~Terminated(cur)]
           m == Len(frames) - 1
           d == Pop(open)
           o == [open[Len(open)] EXCEPT !.held = pend]
<1>1. /\ phase = "body" /\ Top.kind = "then" /\ Top \in Frames
      /\ frames \in Seq(Frames) /\ m \in Nat /\ Len(frames) = m + 1
      /\ Top = frames[m + 1]
  BY ContextParts DEF ThenToElse, CanClose, Both
<1> HIDE DEF m
<1>2. frames' = [frames EXCEPT ![m + 1] = g]
  <2>1. frames' = [frames EXCEPT ![Len(frames)] = g]
    BY DEF ThenToElse, Top
  <2> QED
    BY <1>1, <2>1
<1>3. g.kind = "else" /\ ~g.done /\ g.id = Top.id /\ (~g.flag => Terminated(cur))
  BY <1>1 DEF Frames
<1>4. /\ open # << >> /\ open[Len(open)].kind = "if"
      /\ open' = [open EXCEPT ![Len(open)] = o]
  BY DEF S!BeginElse, S!Inner
<1> HIDE DEF g
<1>5. /\ Len(frames') = m + 1 /\ frames'[m + 1] = g
      /\ AlikeFrames(frames, frames', m)
  <2>1. m \in Nat /\ Len(frames) = m + 1 /\ frames \in Seq(Frames)
    BY <1>1
  <2>2. DOMAIN frames = 1..m + 1 /\ m + 1 \in 1..m + 1
    BY ONLY <2>1, LenProperties
  <2>3. \A j \in 1..m : j \in 1..m + 1 /\ j # m + 1
    BY ONLY <2>1
  <2>4. /\ DOMAIN frames' = DOMAIN frames /\ frames'[m + 1] = g
        /\ \A j \in 1..m : frames'[j] = frames[j]
    BY ONLY <1>2, <2>2, <2>3
  <2>5. Len(frames') = m + 1
    <3>1. frames' \in Seq(Frames)
      BY DEF IInv, TypeOK
    <3> QED
      BY ONLY <2>1, <2>2, <2>4, <3>1, LenProperties
  <2> QED
    BY <2>4, <2>5 DEF AlikeFrames
<1>6. Statements(d) /\ Longer(d, open)
  BY <1>4, StatementsPop DEF Both, Mirror
<1>7. Shaped(o) /\ o.kind = "if" /\ o.held = pend
  <2>1. Len(open) \in 1..Len(open)
    BY <1>6 DEF Longer
  <2>2. Shaped(open[Len(open)])
    BY <2>1 DEF Both, Mirror, Statements
  <2>3. o.held = pend
    BY <2>2 DEF Shaped, Fields
  <2> QED
    BY <1>4, <2>2, <2>3, FieldSet DEF Fields
<1> HIDE DEF d, o
<1>8. /\ Statements(open') /\ Len(open') = Len(open) /\ Len(open) \in Nat
      /\ \A p \in 1..Len(open) : open'[p] = IF p = Len(open) THEN o ELSE open[p]
  <2>1. Statements(open) /\ Changed(open, open', Len(open), o) /\ Fits(open, Len(open), o)
    BY <1>4, <1>7 DEF Both, Mirror, Changed, Fits
  <2> QED
    BY ONLY <2>1, StatementsSet
<1>9. Longer(d, open') /\ open'[Len(open')] = o
  BY <1>6, <1>8 DEF Longer
<1>10. Tracks(d, frames, m)
  <2>1. Tracks(open, frames, m + 1) /\ frames[m + 1].kind \in Enclosing
    BY <1>1 DEF Both, Mirror, Enclosing
  <2> QED
    BY ONLY <1>1, <1>6, <2>1, TracksOff
<1>11. Tracks(d, frames', m)
  <2>1. AlikeOpen(d, d)
    BY DEF AlikeOpen
  <2> QED
    BY ONLY <1>1, <1>5, <1>10, <2>1, TracksAlike
<1>12. Follows(o, frames', m + 1)
  <2>1. ASSUME FirstLeft(frames', m + 1) PROVE pend = {}
    <3>1. Terminated(cur)
      BY <1>3, <1>5, <2>1 DEF FirstLeft
    <3>2. Free(frames, m + 1)
      <4>1. \A j \in 1..m + 1 : j \in 1..m \/ j = m + 1
        BY ONLY <1>1
      <4>2. \A j \in 1..m : j \in 1..m + 1
        BY ONLY <1>1
      <4> QED
        BY <1>1, <1>5, <2>1, <4>1, <4>2 DEF FirstLeft, Free, AlikeFrames
    <3> QED
      BY <1>1, <3>1, <3>2 DEF Both, DeadEnds
  <2> QED
    BY <1>3, <1>5, <1>7, <2>1 DEF Follows, SourceKind
<1>13. Tracks(open', frames', m + 1)
  <2>1. frames'[m + 1].kind \in Enclosing
    BY <1>3, <1>5 DEF Enclosing
  <2> QED
    BY ONLY <1>1, <1>9, <1>11, <1>12, <2>1, TracksOn
<1>14. Numbered(frames')
  <2>1. \A j \in 1..m + 1 : j \in 1..m \/ j = m + 1
    BY ONLY <1>1
  <2>2. \A j \in 1..m : j \in 1..m + 1
    BY ONLY <1>1
  <2> QED
    BY <1>1, <1>3, <1>5, <2>1, <2>2 DEF Numbered, AlikeFrames, Both, Mirror
<1>15. DeadEnds'
  BY <1>3, <1>5, StartsAlive DEF Top
<1> QED
  BY <1>5, <1>8, <1>13, <1>14, <1>15 DEF Both, Mirror


-----------------------------------------------------------------------------
(* Steps for which C opens and closes nothing                              *)

LEMMA SetAlike ==
  ASSUME NEW os, Statements(os), NEW i, NEW o, NEW ps, Changed(os, ps, i, o),
         i \in 1..Len(os) =>
           Shaped(o) /\ o.kind = os[i].kind /\ o.held = os[i].held
  PROVE  Statements(ps) /\ AlikeOpen(os, ps)
<1>1. Fits(os, i, o)
  BY DEF Fits
<1>2. /\ Statements(ps) /\ Len(ps) = Len(os)
      /\ \A p \in 1..Len(os) : ps[p] = IF p = i THEN o ELSE os[p]
  BY ONLY Statements(os), Changed(os, ps, i, o), <1>1, StatementsSet
<1> QED
  BY <1>2 DEF AlikeOpen

(* A field is set that says nothing of kind and held.                      *)
Field(e, o, x, v) == o = [e EXCEPT ![x] = v]

LEMMA FieldAlike ==
  ASSUME NEW os, Statements(os), NEW i, NEW x \in {"flag", "brk", "cont"}, NEW v,
         NEW o, Field(os[i], o, x, v), NEW ps, Changed(os, ps, i, o)
  PROVE  Statements(ps) /\ AlikeOpen(os, ps)
<1>1. ASSUME i \in 1..Len(os)
      PROVE  Shaped(o) /\ o.kind = os[i].kind /\ o.held = os[i].held
  <2> DEFINE e == os[i]
  <2>1. Shaped(e)
    BY <1>1 DEF Statements
  <2>2. x \in Fields /\ "kind" \in Fields /\ "held" \in Fields /\ x # "kind" /\ x # "held"
    BY DEF Fields
  <2> DEFINE d == [e EXCEPT ![x] = v]
  <2>3. o = d
    BY DEF Field
  <2> HIDE DEF e
  <2>4. Shaped(d) /\ \A y \in Fields : y # x => d[y] = e[y]
    BY ONLY <2>1, <2>2, FieldSet
  <2> HIDE DEF d
  <2> QED
    BY <2>2, <2>3, <2>4 DEF e
<1> QED
  BY <1>1, SetAlike

(* Opening something outside every switch happens outside every switch.    *)
LEMMA FreePush ==
  ASSUME IInv, Context, phase = "body", NEW f \in Frames, frames' = Append(Asked, f),
         Free(frames', Len(frames'))
  PROVE  Free(frames, Len(frames))
<1> DEFINE m == Len(frames)
<1>1. /\ m \in Nat /\ Len(frames') = m + 1
      /\ AlikeFrames(frames, frames', m)
  BY FramesPush
<1> HIDE DEF m
<1>2. \A j \in 1..m : j \in 1..m + 1
  BY ONLY <1>1
<1> QED
  BY <1>1, <1>2 DEF Free, AlikeFrames, m

LEMMA LabelBoth ==
  ASSUME Both, IInv', Context', NEW isDefault \in BOOLEAN,
         EnterCase(isDefault), S!Label(isDefault)
  PROVE  Both'
<1> DEFINE f == [Frame("case") EXCEPT !.head = made + 1, !.flag = isDefault]
           i == S!Innermost({"switch"})
           v == open[i].flag \/ isDefault
           o == [open[i] EXCEPT !.flag = v]
<1>1. phase = "body" /\ frames' = Append(Asked, f)
  BY DEF EnterCase, CanOpen, CanVisit, Open
<1>2. f.kind = "case" /\ ~f.done
  BY DEF Frame
<1>3. Changed(open, open', i, o)
  <2>1. open' = [open EXCEPT ![i].flag = @ \/ isDefault]
    BY DEF S!Label
  <2> HIDE DEF i
  <2> QED
    BY <2>1 DEF Changed
<1>4. Field(open[i], o, "flag", v)
  BY DEF Field
<1> HIDE DEF f, i, v, o
<1>5. f \in Frames /\ Top' = f
  BY <1>1, TopOpened DEF Both
<1>6. Statements(open') /\ AlikeOpen(open, open')
  <2>1. Statements(open)
    BY DEF Both, Mirror
  <2> QED
    BY ONLY <1>3, <1>4, <2>1, FieldAlike
<1>7. Mirror'
  <2>1. f.kind \notin Enclosing
    BY <1>2 DEF Enclosing, Breakable, Loops
  <2> QED
    BY <1>1, <1>5, <1>6, <2>1, OneOpens DEF Both
<1>8. DeadEnds'
  BY <1>2, <1>5, StartsAlive
<1> QED
  BY <1>7, <1>8 DEF Both

(* Braces, and the end of a label's statement                              *)
LEMMA BraceBoth ==
  ASSUME Both, IInv', Context', UNCHANGED source,
         EnterCompoundStmt \/ ExitCompoundStmt \/ ExitCase
  PROVE  Both'
<1>1. /\ phase = "body" /\ UNCHANGED <<open, pend, code, cur>>
  BY DEF EnterCompoundStmt, ExitCompoundStmt, ExitCase, CanVisit, CanClose, source,
         unchangedByList
<1>2. Statements(open') /\ AlikeOpen(open, open')
  BY <1>1 DEF Both, Mirror, AlikeOpen
<1>3. ASSUME Free(frames', Len(frames')) => Free(frames, Len(frames)) PROVE DeadEnds'
  BY <1>1, <1>3 DEF Both, DeadEnds, Terminated
<1>4. CASE EnterCompoundStmt
  <2> DEFINE f == [Frame("list") EXCEPT !.id = 0]
  <2>1. frames' = Append(Asked, f)
    BY <1>4 DEF EnterCompoundStmt
  <2>2. f.kind \notin Enclosing
    BY DEF Frame, Enclosing, Breakable, Loops
  <2> HIDE DEF f
  <2>3. f \in Frames
    BY <1>1, <2>1, TopOpened DEF Both
  <2>4. Mirror'
    BY <1>1, <1>2, <2>1, <2>2, <2>3, OneOpens DEF Both
  <2>5. DeadEnds'
    BY <1>1, <1>3, <2>1, <2>3, FreePush DEF Both
  <2> QED
    BY <2>4, <2>5 DEF Both
<1>5. CASE ExitCompoundStmt \/ ExitCase
  <2>1. frames' = Pop(frames) /\ Top.kind \in {"list", "case"}
    BY <1>5 DEF ExitCompoundStmt, ExitCase, CanClose, Close
  <2>2. Top.kind \notin Enclosing /\ Top.kind # "switch"
    BY <2>1 DEF Enclosing, Breakable, Loops
  <2>3. Mirror'
    BY <1>1, <2>1, <2>2, OneCloses DEF Both
  <2>4. DeadEnds'
    BY <1>1, <1>3, <2>1, <2>2, FreePop DEF Both
  <2> QED
    BY <2>3, <2>4 DEF Both
<1> QED
  BY <1>4, <1>5

(* break and continue leave what arrives with a statement, and nothing     *)
(* goes on.                                                                *)
LEMMA JumpOpen ==
  ASSUME Both,
         \/ Break /\ S!BreakOut
         \/ Continue /\ S!ContinueLoop
         \/ Return /\ S!ReturnFromFn
  PROVE  Statements(open') /\ AlikeOpen(open, open') /\ pend' = {}
<1>1. Statements(open)
  BY DEF Both, Mirror
<1>2. CASE S!BreakOut
  <2> DEFINE i == S!Innermost({"while", "do", "for", "switch"})
             v == open[i].brk \cup pend
             o == [open[i] EXCEPT !.brk = v]
  <2>1. Changed(open, open', i, o)
    <3>1. open' = [open EXCEPT ![i].brk = @ \cup pend]
      BY <1>2 DEF S!BreakOut
    <3> HIDE DEF i
    <3> QED
      BY <3>1 DEF Changed
  <2>2. Field(open[i], o, "brk", v)
    BY DEF Field
  <2> HIDE DEF i, v, o
  <2>3. Statements(open') /\ AlikeOpen(open, open')
    BY ONLY <1>1, <2>1, <2>2, FieldAlike
  <2> QED
    BY <1>2, <2>3 DEF S!BreakOut
<1>3. CASE S!ContinueLoop
  <2> DEFINE i == S!Innermost({"while", "do", "for"})
             v == open[i].cont \cup pend
             o == [open[i] EXCEPT !.cont = v]
  <2>1. Changed(open, open', i, o)
    <3>1. open' = [open EXCEPT ![i].cont = @ \cup pend]
      BY <1>3 DEF S!ContinueLoop
    <3> HIDE DEF i
    <3> QED
      BY <3>1 DEF Changed
  <2>2. Field(open[i], o, "cont", v)
    BY DEF Field
  <2> HIDE DEF i, v, o
  <2>3. Statements(open') /\ AlikeOpen(open, open')
    BY ONLY <1>1, <2>1, <2>2, FieldAlike
  <2> QED
    BY <1>3, <2>3 DEF S!ContinueLoop
<1>4. CASE S!ReturnFromFn
  BY <1>1, <1>4 DEF S!ReturnFromFn, AlikeOpen
<1> QED
  BY <1>2, <1>3, <1>4

LEMMA JumpsBoth ==
  ASSUME Both, IInv', Context',
         \/ Break /\ S!BreakOut
         \/ Continue /\ S!ContinueLoop
         \/ Return /\ S!ReturnFromFn
  PROVE  Both'
<1>1. phase = "body" /\ frames' = Asked
  BY DEF Break, Continue, Return, Leaf, CanVisit
<1>2. Statements(open') /\ AlikeOpen(open, open') /\ pend' = {}
  BY JumpOpen
<1>3. Mirror'
  BY <1>1, <1>2, NoneCloses DEF Both
<1> QED
  BY <1>2, <1>3 DEF Both, DeadEnds

(* An expression is something new to arrive at, in a block that it leaves  *)
(* open.                                                                   *)
LEMMA ExpressionBoth ==
  ASSUME Both, IInv', Context', NEW full \in BOOLEAN, ExprStmt(full),
         S!Expression(full)
  PROVE  Both'
<1>1. /\ phase = "body" /\ frames' = Asked /\ cur' = cur /\ open' = open
      /\ code' = EmitIf(full, code, cur, Eval(n + 1, "expr"))
  BY DEF ExprStmt, Leaf, CanVisit, unchangedByLeaf, S!Expression
<1>2. Mirror'
  <2>1. Statements(open') /\ AlikeOpen(open, open')
    BY <1>1 DEF Both, Mirror, AlikeOpen
  <2> QED
    BY <1>1, <2>1, NoneCloses DEF Both
<1>3. CASE full
  <2>1. code \in [Block -> Seq(Instrs)] /\ n \in Nat /\ cur \in Block
    BY <1>1, CodeFacts DEF Both, IInv, TypeOK
  <2> DEFINE i == Eval(n + 1, "expr")
  <2>2. i \in Instrs /\ ~IsTerminator(i)
    <3>1. n + 1 \in Nat
      BY <2>1
    <3> QED
      BY Zenon, <3>1, EvalFacts
  <2> HIDE DEF i
  <2>3. code' = Emit(code, cur, i)
    BY <1>1, <1>3 DEF EmitIf, i
  <2>4. ~EndsInTerminator(code'[cur])
    BY <2>1, <2>2, <2>3, EmitFacts
  <2> QED
    BY <1>1, <1>2, <2>4 DEF Both, DeadEnds, Terminated
<1>4. CASE ~full
  <2>1. code' = code /\ pend' = pend
    BY <1>1, <1>4 DEF EmitIf, S!Expression
  <2>2. Free(frames', Len(frames')) => Free(frames, Len(frames))
    <3>1. /\ Len(frames) \in Nat /\ Len(frames') = Len(frames)
          /\ AlikeFrames(frames, frames', Len(frames))
      BY <1>1, FramesAsked DEF Both
    <3> QED
      BY <3>1 DEF Free, AlikeFrames
  <2> QED
    BY <1>1, <1>2, <2>1, <2>2 DEF Both, DeadEnds, Terminated
<1> QED
  BY <1>3, <1>4

LEMMA NothingOpen ==
  ASSUME NEW fs
  PROVE  Statements(<< >>) /\ Tracks(<< >>, fs, 0)
<1>1. << >> \in Seq(Nat) /\ Len(<< >>) = 0 /\ 1..0 = {}
  OBVIOUS
<1>2. Rank(fs, Enclosing, 0) = 0
  BY RankFacts
<1> QED
  BY <1>1, <1>2 DEF Statements, Tracks

LEMMA FunctionBoth ==
  ASSUME Both, IInv', Context',
         \/ EnterFnDef /\ S!EnterFn
         \/ ExitFnDef /\ S!ExitFn
  PROVE  Both'
<1>1. CASE EnterFnDef /\ S!EnterFn
  <2> DEFINE f == [Frame("list") EXCEPT !.id = 0]
  <2>1. frames' = <<f>> /\ open' = << >> /\ cur' = 1 /\ code' = [b \in Block |-> << >>]
    BY <1>1 DEF EnterFnDef, S!EnterFn
  <2>2. f.kind = "list"
    BY DEF Frame
  <2> HIDE DEF f
  <2>3. Len(frames') = 0 + 1 /\ frames'[0 + 1] = f
    BY <2>1
  <2>4. f.kind \notin Enclosing /\ f.kind # "switch"
    BY <2>2 DEF Enclosing, Breakable, Loops
  <2>5. Tracks(open', frames', 0 + 1)
    <3>1. Tracks(open', frames', 0) /\ frames'[0 + 1].kind \notin Enclosing /\ 0 \in Nat
      BY <2>1, <2>3, <2>4, NothingOpen
    <3> QED
      BY ONLY <3>1, TracksPlain
  <2>6. Mirror'
    <3>1. \A j \in 1..0 + 1 : j = 0 + 1
      OBVIOUS
    <3>2. Numbered(frames')
      BY <2>3, <2>4, <3>1 DEF Numbered
    <3> QED
      BY <2>1, <2>3, <2>5, <3>2, NothingOpen DEF Mirror
  <2>7. DeadEnds'
    <3>1. 1 \in Block
      BY BoundsAreNat DEF Block
    <3>2. ~Terminated(cur)'
      BY <2>1, <3>1, EmptyIsOpen DEF Terminated
    <3> QED
      BY <3>2 DEF DeadEnds
  <2> QED
    BY <2>6, <2>7 DEF Both
<1>2. CASE ExitFnDef /\ S!ExitFn
  <2>1. frames' = << >> /\ open' = << >> /\ phase' = "global" /\ Len(<< >>) = 0
    BY <1>2 DEF ExitFnDef, S!ExitFn
  <2>2. Mirror'
    BY <2>1, NothingOpen DEF Mirror, Numbered
  <2> QED
    BY <2>1, <2>2 DEF Both, DeadEnds
<1> QED
  BY <1>1, <1>2

-----------------------------------------------------------------------------
LEMMA InitBoth == CheckInit => Both
<1> SUFFICES ASSUME CheckInit PROVE Both
  OBVIOUS
<1>1. Init /\ open = << >> /\ pend = {}
  BY DEF CheckInit
<1>2. IInv /\ Context
  BY <1>1, InitInv, InitContext
<1>3. frames = << >> /\ Len(<< >>) = 0
  BY <1>1 DEF Init
<1> QED
  BY <1>1, <1>2, <1>3, NothingOpen DEF Both, Mirror, Numbered, DeadEnds

LEMMA NextBoth == Both /\ [CheckNext]_checkVars => Both'
<1> SUFFICES ASSUME Both, [CheckNext]_checkVars PROVE Both'
  OBVIOUS
<1>1. IInv' /\ Context'
  <2>1. [Next]_vars
    BY DEF CheckNext, Next, checkVars
  <2> QED
    BY <2>1, NextInv, NextContext DEF Both
<1>2. CASE UNCHANGED checkVars
  <2>1. UNCHANGED <<phase, frames, code, cur, open, pend>>
    BY <1>2 DEF checkVars, vars, source
  <2> QED
    BY <1>1, <2>1 DEF Both, Mirror, DeadEnds, Terminated
<1>3. CASE \/ EnterFnDef /\ S!EnterFn
           \/ ExitFnDef /\ S!ExitFn
  BY <1>1, <1>3, FunctionBoth
<1>4. CASE \E full \in BOOLEAN : ExprStmt(full) /\ S!Expression(full)
  BY <1>1, <1>4, ExpressionBoth
<1>5. CASE \/ Break /\ S!BreakOut
           \/ Continue /\ S!ContinueLoop
           \/ Return /\ S!ReturnFromFn
  BY <1>1, <1>5, JumpsBoth
<1>6. CASE \/ EnterCompoundStmt /\ UNCHANGED source
           \/ ExitCompoundStmt /\ UNCHANGED source
           \/ ExitCase /\ UNCHANGED source
  BY <1>1, <1>6, BraceBoth
<1>7. CASE \/ EnterWhile /\ S!BeginWhile
           \/ EnterDoWhile /\ S!BeginDo
           \/ \E init, test, step \in BOOLEAN :
                EnterFor(init, test, step) /\ S!BeginFor(init, test, step)
           \/ \E hasElse \in BOOLEAN : EnterIf(hasElse) /\ S!BeginIf
           \/ EnterSwitch /\ S!BeginSwitch
  BY <1>1, <1>7, Opening
<1>8. CASE \/ ExitWhile /\ S!EndWhile
           \/ ExitDoWhile /\ S!EndDo
           \/ ExitFor /\ S!EndFor
           \/ ExitIf /\ S!EndIf
           \/ ExitSwitch /\ S!EndSwitch
  BY <1>1, <1>8, LoopsClose
<1>9. CASE ThenToElse /\ S!BeginElse
  BY <1>1, <1>9, ElseOpens
<1>10. CASE ExitElse /\ S!EndIf
  BY <1>1, <1>10, ElseCloses
<1>11. CASE \E isDefault \in BOOLEAN : EnterCase(isDefault) /\ S!Label(isDefault)
  BY <1>1, <1>11, LabelBoth
<1> QED
  BY <1>2, <1>3, <1>4, <1>5, <1>6, <1>7, <1>8, <1>9, <1>10, <1>11 DEF CheckNext

LEMMA BothImplies == Both => DroppedItemsAreDead
<1> SUFFICES ASSUME Both, phase = "body", Top.kind = "list", ~ItemVisited
             PROVE  pend = {} /\ ~S!Within({"switch"})
  BY DEF DroppedItemsAreDead
<1>1. Terminated(cur) /\ currentSwitch = NoSwitch
  BY DEF ItemVisited
<1>2. Free(frames, Len(frames))
  <2>1. Innermost(frames, Len(frames), NoSwitch)
    BY <1>1 DEF Both, Context, SwitchesRemember
  <2> QED
    BY <2>1 DEF Innermost, Free, Both, Mirror, Numbered
<1>3. pend = {}
  BY <1>1, <1>2 DEF Both, DeadEnds
<1>4. ASSUME NEW p \in 1..Len(open), open[p].kind = "switch" PROVE FALSE
  <2>1. Tracks(open, frames, Len(frames))
    BY DEF Both, Mirror
  <2>2. PICK i \in 1..Len(frames) :
          frames[i].kind \in Enclosing /\ Rank(frames, Enclosing, i) = p
    BY <2>1 DEF Tracks
  <2>3. Follows(open[p], frames, i)
    BY <2>1, <2>2 DEF Tracks
  <2>4. frames[i].kind = "switch"
    BY <1>4, <2>3 DEF Follows, SourceKind
  <2> QED
    BY <1>2, <2>4 DEF Free
<1>5. ~S!Within({"switch"})
  BY <1>4 DEF S!Within
<1> QED
  BY <1>3, <1>5

(* BlockItemList leaves out only what C never executes: where it would     *)
(* drop the next item, the ends that SourceFlow, the flow of control of    *)
(* C99 6.8, has for this point are none, and no switch is open whose       *)
(* labels could be among the items.  So it is for every nesting of loops,  *)
(* branches, switches and jumps.                                           *)
THEOREM DroppedAreDead == CheckSpec => []DroppedItemsAreDead
<1>1. CheckInit => Both
  BY InitBoth
<1>2. Both /\ [CheckNext]_checkVars => Both'
  BY NextBoth
<1>3. Both => DroppedItemsAreDead
  BY BothImplies
<1> QED
  BY <1>1, <1>2, <1>3, PTL DEF CheckSpec
=============================================================================
