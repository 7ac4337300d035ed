--------------------------- MODULE DumpCFGPathProofs ---------------------------
(***************************************************************************)
(* The cfg-path pass is correct for every function: the by-value search of *)
(* hasPath decides reachability, so the lines printed are the ones         *)
(* CFGPathReport promises; and what count-li prints about loops in the     *)
(* same run of opt agrees with them.                                       *)
(***************************************************************************)
EXTENDS OptAnalyses, SequenceTheorems, FiniteSetTheorems, WellFoundedInduction,
        TLAPS

--------------------------------------------------------------------------------
(* Facts about control-flow graphs. *)

LEMMA SuccsAreBlocks ==
  ASSUME NEW f, IsCFG(f), NEW b \in Blocks(f)
  PROVE  /\ Len(f.succ[b]) \in Nat
         /\ \A k \in 1..Len(f.succ[b]) : f.succ[b][k] \in Blocks(f)
         /\ Succs(f, b) \subseteq Blocks(f)
<1>1. f.succ[b] \in Seq(Blocks(f))
  BY DEF IsCFG
<1>2. QED
  BY <1>1, ElementOfSeq, LenProperties DEF Succs

LEMMA ReachesSelf ==
  ASSUME NEW f, NEW a
  PROVE  Reaches(f, a, a)
BY DEF Reaches

(* Reachability extends along an edge.                                     *)
LEMMA ReachesStep ==
  ASSUME NEW f, NEW a, NEW b \in Blocks(f), NEW c \in Succs(f, b),
         Reaches(f, a, b)
  PROVE  Reaches(f, a, c)
BY DEF Reaches, ClosedBut

(* With nothing to avoid, a dead end is a block that does not reach t.     *)
LEMMA DeadEndIsUnreachable ==
  ASSUME NEW f, NEW a, NEW t, DeadEnd(f, a, {}, t)
  PROVE  ~ Reaches(f, a, t)
BY DEF Reaches, DeadEnd

(* If every successor of b is in V or b, or a dead end once b is avoided   *)
(* too, then b is a dead end for V: the union of the successors' closed    *)
(* sets and {b} is left only into V.                                       *)
LEMMA DeadEndOfSuccessors ==
  ASSUME NEW f, IsCFG(f), NEW b \in Blocks(f), NEW V, NEW t, b # t,
         \A s \in Succs(f, b) :
           s \in V \cup {b} \/ DeadEnd(f, s, V \cup {b}, t)
  PROVE  DeadEnd(f, b, V, t)
<1> DEFINE Sets == {S \in SUBSET Blocks(f) :
                      t \notin S /\ ClosedBut(f, S, V \cup {b})}
           U    == (UNION Sets) \cup {b}
<1>1. U \in SUBSET Blocks(f) /\ b \in U /\ t \notin U
  OBVIOUS
<1>2. Succs(f, b) \subseteq U \cup V
  BY DEF DeadEnd
<1>3. ASSUME NEW x \in UNION Sets
      PROVE  Succs(f, x) \subseteq U \cup V
  <2>1. PICK S \in Sets : x \in S
    BY <1>3
  <2>2. Succs(f, x) \subseteq S \cup V \cup {b}
    BY <2>1 DEF ClosedBut
  <2>3. QED
    BY <2>1, <2>2
<1>4. ClosedBut(f, U, V)
  BY <1>2, <1>3 DEF ClosedBut
<1>5. QED
  BY <1>1, <1>4 DEF DeadEnd

--------------------------------------------------------------------------------
(* Facts about the stack of activations. *)

(* Removing the last element of a sequence keeps the others.               *)
LEMMA BelowProperties ==
  ASSUME NEW S, NEW s \in Seq(S), s # <<>>
  PROVE  LET below == SubSeq(s, 1, Len(s) - 1) IN
           /\ Len(s) \in Nat \ {0}
           /\ below \in Seq(S)
           /\ Len(below) = Len(s) - 1
           /\ \A k \in 1..(Len(s) - 1) : below[k] = s[k]
           /\ below = <<>> => Len(s) = 1
<1>1. Len(s) \in Nat \ {0}
  BY EmptySeq
<1>2. \A k \in 1..(Len(s) - 1) : s[k] \in S
  BY <1>1, ElementOfSeq
<1> DEFINE n == Len(s) - 1
           below == SubSeq(s, 1, n)
<1>3. n \in Nat /\ n = Len(s) - 1
  BY <1>1
<1> HIDE DEF n
<1>4. /\ below \in Seq(S)
      /\ Len(below) = IF 1 <= n THEN n - 1 + 1 ELSE 0
      /\ \A k \in 1..(n - 1 + 1) : below[k] = s[1 + k - 1]
  BY <1>2, <1>3, SubSeqProperties
<1> HIDE DEF below
<1>5. Len(below) = n
  BY <1>3, <1>4
<1>6. \A k \in 1..n : below[k] = s[k]
  BY <1>3, <1>4
<1>7. below = <<>> => Len(s) = 1
  BY <1>3, <1>4, <1>5, EmptySeq
<1>8. QED
  BY <1>1, <1>3, <1>4, <1>5, <1>6, <1>7 DEF below, n

(* Replacing the last element by e changes nothing below it.               *)
LEMMA ReplaceLast ==
  ASSUME NEW S, NEW s \in Seq(S), s # <<>>, NEW e \in S
  PROVE  LET t == Append(SubSeq(s, 1, Len(s) - 1), e) IN
           /\ t \in Seq(S)
           /\ Len(t) = Len(s)
           /\ t # <<>>
           /\ \A k \in 1..(Len(s) - 1) : t[k] = s[k]
           /\ t[Len(s)] = e
<1> DEFINE below == SubSeq(s, 1, Len(s) - 1)
           t == Append(below, e)
<1>1. /\ Len(s) \in Nat \ {0}
      /\ below \in Seq(S)
      /\ Len(below) = Len(s) - 1
      /\ \A k \in 1..(Len(s) - 1) : below[k] = s[k]
  BY BelowProperties
<1> HIDE DEF below
<1>2. /\ t \in Seq(S)
      /\ t # <<>>
      /\ Len(t) = Len(below) + 1
      /\ \A k \in 1..Len(below) : t[k] = below[k]
      /\ t[Len(below) + 1] = e
  BY <1>1, AppendProperties
<1>3. QED
  BY <1>1, <1>2 DEF below

(* The block under B1 and B2 while a line is under way.                    *)
LEMMA BlockAt ==
  ASSUME NEW f, IsCFG(f), NEW k \in 1..Len(f.blocks)
  PROVE  f.blocks[k] \in Blocks(f)
BY DEF Blocks

LEMMA BlockCount ==
  ASSUME NEW f, IsCFG(f)
  PROVE  Len(f.blocks) \in Nat \ {0}
BY EmptySeq DEF IsCFG

(* What the type invariant says of the activation that is running.         *)
LEMMA TopProperties ==
  ASSUME TypeOK, frames # <<>>
  PROVE  /\ Len(frames) \in Nat \ {0}
         /\ Top \in Frame
         /\ Top.bb1 \in Blocks(F)
         /\ Top.visited \in SUBSET Blocks(F)
         /\ Top.pi \in Nat \ {0}
         /\ Len(F.succ[Top.bb1]) \in Nat
         /\ \A k \in 1..Len(F.succ[Top.bb1]) :
              F.succ[Top.bb1][k] \in Blocks(F)
<1>1. Len(frames) \in Nat \ {0}
  BY EmptySeq DEF TypeOK
<1>2. Top \in Frame
  BY <1>1, ElementOfSeq DEF TypeOK, Top
<1>3. /\ Top.bb1 \in Blocks(F)
      /\ Top.visited \in SUBSET Blocks(F)
      /\ Top.pi \in Nat \ {0}
  BY <1>2 DEF Frame
<1>4. QED
  BY <1>1, <1>2, <1>3, SuccsAreBlocks DEF TypeOK

(* Advancing a successor iterator changes nothing else of an activation.   *)
LEMMA AdvanceProperties ==
  ASSUME NEW frame \in Frame
  PROVE  /\ Advance(frame) \in Frame
         /\ Advance(frame).bb1 = frame.bb1
         /\ Advance(frame).visited = frame.visited
         /\ Advance(frame).pi = frame.pi + 1
BY DEF Advance, Frame

--------------------------------------------------------------------------------
(* Every variable keeps its type. *)

LEMMA TypeInit == Init => TypeOK
<1> SUFFICES ASSUME Init PROVE TypeOK
  OBVIOUS
<1>1. IsCFG(F)
  BY FunctionsAssumption DEF Init
<1>2. Len(F.blocks) \in Nat \ {0}
  BY <1>1, BlockCount
<1>3. /\ frames \in Seq(Frame)
      /\ lines \in Seq(SUBSET Blocks(F))
      /\ Len(lines) = i - 1
  BY EmptySeq DEF Init
<1>4. /\ i \in 1..Len(F.blocks) + 1
      /\ j \in 1..Len(F.blocks) + 1
  BY <1>2 DEF Init
<1>5. /\ visited \in SUBSET Blocks(F)
      /\ line \in SUBSET Blocks(F)
      /\ ret \in BOOLEAN
      /\ pc \in {"pair", "succ", "return", "done"}
  BY DEF Init
<1>6. QED
  BY <1>1, <1>3, <1>4, <1>5 DEF TypeOK

LEMMA TypeNext == TypeOK /\ QueryInProgress /\ [Next]_vars => TypeOK'
<1> SUFFICES ASSUME TypeOK, QueryInProgress, [Next]_vars
             PROVE  TypeOK'
  OBVIOUS
<1> USE DEF TypeOK
<1>1. Len(F.blocks) \in Nat \ {0}
  BY BlockCount
<1>2. ASSUME NEW b \in Blocks(F), NEW V \in SUBSET Blocks(F),
             NEW below \in Seq(Frame), Call(b, V, below)
      PROVE  /\ frames' \in Seq(Frame)
             /\ ret' \in BOOLEAN
             /\ pc' \in {"return", "succ"}
  <2>1. [bb1 |-> b, visited |-> V \cup {b}, pi |-> 1] \in Frame
    BY DEF Frame
  <2>2. QED
    BY <1>2, <2>1, AppendProperties DEF Call
<1>3. CASE SkipSelf
  BY <1>1, <1>3 DEF SkipSelf, Frame
<1>4. CASE Query
  <2>1. B1 \in Blocks(F)
    BY <1>4, BlockAt DEF Query, B1
  <2>2. QED
    BY <1>2, <1>4, <2>1, EmptySeq DEF Query, Frame
<1>5. CASE Answer
  <2>1. frames # <<>>
    BY <1>5 DEF Answer, QueryInProgress
  <2>2. i <= Len(F.blocks) /\ j <= Len(F.blocks)
    BY <2>1 DEF QueryInProgress
  <2>3. B2 \in Blocks(F)
    BY <2>2, BlockAt DEF B2
  <2>4. QED
    BY <1>1, <1>5, <2>2, <2>3, EmptySeq DEF Answer, Frame
<1>6. CASE EndLine
  BY <1>1, <1>6, AppendProperties DEF EndLine, Frame
<1>7. CASE Finish
  BY <1>7 DEF Finish, Frame
<1>8. CASE SkipVisited
  <2>1. frames # <<>>
    BY <1>8 DEF SkipVisited, MoreSuccessors, QueryInProgress
  <2>2. Advance(Top) \in Frame
    BY <2>1, TopProperties, AdvanceProperties
  <2>3. frames' \in Seq(Frame)
    BY <1>8, <2>1, <2>2, ReplaceLast DEF SkipVisited, Below
  <2>4. QED
    BY <1>8, <2>3 DEF SkipVisited, Frame
<1>9. CASE Descend
  <2>1. frames # <<>>
    BY <1>9 DEF Descend, MoreSuccessors, QueryInProgress
  <2>2. Successor \in Blocks(F) /\ Top.visited \in SUBSET Blocks(F)
    BY <1>9, <2>1, TopProperties DEF Descend, MoreSuccessors, Successor
  <2>3. QED
    BY <1>2, <1>9, <2>2 DEF Descend, Frame
<1>10. CASE Exhausted
  BY <1>10 DEF Exhausted, Frame
<1>11. CASE ReturnTrue
  <2>1. frames # <<>>
    BY <1>11 DEF ReturnTrue, QueryInProgress
  <2>2. frames' \in Seq(Frame)
    BY <1>11, <2>1, BelowProperties DEF ReturnTrue, Below
  <2>3. QED
    BY <1>11, <2>2 DEF ReturnTrue, Frame
<1>12. CASE ReturnFalse
  <2>1. frames # <<>>
    BY <1>12 DEF ReturnFalse, QueryInProgress
  <2>2. Below \in Seq(Frame) /\ Len(frames) - 1 \in 1..Len(Below)
    BY <1>12, <2>1, BelowProperties DEF ReturnFalse, Below
  <2>3. Advance(Below[Len(frames) - 1]) \in Frame
    BY <2>2, ElementOfSeq, AdvanceProperties
  <2>4. frames' \in Seq(Frame)
    BY <1>12, <2>2, <2>3, ExceptSeq DEF ReturnFalse
  <2>5. QED
    BY <1>12, <2>4 DEF ReturnFalse, Frame
<1>13. CASE UNCHANGED vars
  BY <1>13 DEF vars, Frame
<1>14. QED
  BY <1>3, <1>4, <1>5, <1>6, <1>7, <1>8, <1>9, <1>10, <1>11, <1>12, <1>13
     DEF Next, Done

--------------------------------------------------------------------------------
(* The steps of traversePath: the stack is empty before or after them. *)

(* What the invariant says beyond the types.                               *)
Claims == /\ StackIsSimplePath
          /\ PassedOverIsDeadEnd
          /\ ReturnedValueRight
          /\ QueryInProgress
          /\ LineSoFar

LEMMA EmptyStackClaims ==
  ASSUME frames' = <<>>, visited' = {}, pc' \in {"pair", "done"}
  PROVE  /\ StackIsSimplePath'
         /\ PassedOverIsDeadEnd'
         /\ ReturnedValueRight'
BY EmptySeq DEF StackIsSimplePath, PassedOverIsDeadEnd, ReturnedValueRight

LEMMA SkipSelfStep == IInv /\ SkipSelf => Claims'
<1> SUFFICES ASSUME IInv, SkipSelf PROVE Claims'
  OBVIOUS
<1> USE DEF IInv, SkipSelf
<1>1. /\ frames = <<>> /\ visited = {}
      /\ frames' = frames /\ visited' = visited /\ pc' = pc
  BY DEF QueryInProgress
<1>2. QueryInProgress'
  BY <1>1, EmptySeq DEF QueryInProgress
<1>3. LineSoFar'
  <2>1. j \in Nat /\ j >= 1
    BY DEF TypeOK
  <2>2. 1..(j' - 1) = 1..(j - 1) \cup {j}
    BY <2>1
  <2>3. B1' = B1 /\ B1 = F.blocks[j]
    BY DEF B1, B2
  <2>4. QED
    BY <2>2, <2>3 DEF LineSoFar
<1>4. QED
  BY <1>1, <1>2, <1>3, EmptyStackClaims DEF Claims

LEMMA AnswerStep == IInv /\ Answer => Claims'
<1> SUFFICES ASSUME IInv, Answer PROVE Claims'
  OBVIOUS
<1> USE DEF IInv, Answer
<1>1. frames # <<>> /\ visited = {} /\ visited' = visited
  BY EmptySeq DEF QueryInProgress
<1>2. Top.bb1 = B1
  BY DEF StackIsSimplePath, Top
<1>3. ret <=> Reaches(F, B1, B2)
  BY <1>1, <1>2, DeadEndIsUnreachable DEF ReturnedValueRight, CallerVisited
<1>4. LineSoFar'
  <2>1. j \in Nat /\ j >= 1
    BY DEF TypeOK
  <2>2. 1..(j' - 1) = 1..(j - 1) \cup {j}
    BY <2>1
  <2>3. B1' = B1 /\ B2 = F.blocks[j] /\ B1 # B2 /\ B2 \in Blocks(F)
    BY <1>1, <2>1, BlockAt DEF B1, B2, QueryInProgress, TypeOK
  <2>4. line' = IF Reaches(F, B1, B2) THEN line \cup {B2} ELSE line
    BY <1>3
  <2>5. QED
    BY <2>2, <2>3, <2>4 DEF LineSoFar
<1>5. QueryInProgress'
  BY <1>1, EmptySeq DEF QueryInProgress
<1>6. QED
  BY <1>1, <1>4, <1>5, EmptyStackClaims DEF Claims

LEMMA EndLineStep == IInv /\ EndLine => Claims'
<1> SUFFICES ASSUME IInv, EndLine PROVE Claims'
  OBVIOUS
<1> USE DEF IInv, EndLine
<1>1. frames' = <<>> /\ pc' = "pair"
  BY DEF QueryInProgress
<1>2. QueryInProgress'
  BY <1>1, EmptySeq DEF QueryInProgress
<1>3. LineSoFar'
  BY DEF LineSoFar
<1>4. QED
  BY <1>1, <1>2, <1>3, EmptyStackClaims DEF Claims

LEMMA FinishStep == IInv /\ Finish => Claims'
<1> SUFFICES ASSUME IInv, Finish PROVE Claims'
  OBVIOUS
<1> USE DEF IInv, Finish
<1>1. frames' = <<>> /\ visited' = {} /\ pc' = "done"
  BY DEF QueryInProgress
<1>2. i' = Len(F'.blocks) + 1
  BY BlockCount DEF TypeOK
<1>3. QueryInProgress'
  BY <1>1, <1>2, EmptySeq DEF QueryInProgress
<1>4. LineSoFar'
  BY DEF LineSoFar, B1
<1>5. QED
  BY <1>1, <1>3, <1>4, EmptyStackClaims DEF Claims

--------------------------------------------------------------------------------
(* The steps of hasPath. *)

LEMMA QueryStep == IInv /\ Query => Claims'
<1> SUFFICES ASSUME IInv, Query PROVE Claims'
  OBVIOUS
<1> USE DEF IInv, Query
<1> DEFINE e == [bb1 |-> B1, visited |-> visited \cup {B1}, pi |-> 1]
<1>1. /\ visited = {} /\ visited' = {}
      /\ B1' = B1 /\ B2' = B2 /\ B1 # B2
      /\ pc' = "succ"
  BY DEF QueryInProgress, Call, B1, B2
<1>2. frames' = <<e>>
  BY DEF Call
<1>3. /\ Len(frames') = 1
      /\ frames'[1] = e
      /\ e.bb1 = B1 /\ e.visited = {B1} /\ e.pi = 1
  BY <1>1, <1>2
<1> HIDE DEF e
<1>4. StackIsSimplePath'
  BY <1>1, <1>3 DEF StackIsSimplePath, CallerVisited
<1>5. PassedOverIsDeadEnd'
  BY <1>3 DEF PassedOverIsDeadEnd
<1>6. ReturnedValueRight'
  BY <1>1 DEF ReturnedValueRight
<1>7. QueryInProgress'
  <2>1. B1 \in Blocks(F) /\ Reaches(F, B1, B1)
    BY BlockAt, ReachesSelf DEF B1, TypeOK
  <2>2. Len(F.succ[B1]) \in Nat
    BY <2>1, SuccsAreBlocks DEF TypeOK
  <2>3. \A k \in 1..Len(frames') :
          /\ Reaches(F, B1, frames'[k].bb1)
          /\ frames'[k].pi <= Len(F.succ[frames'[k].bb1]) + 1
          /\ frames'[k].bb1 # B2
    BY <1>1, <1>3, <2>1, <2>2
  <2>4. frames' # <<>>
    BY <1>2
  <2>5. QED
    BY <1>1, <2>3, <2>4 DEF QueryInProgress
<1>8. LineSoFar'
  BY <1>1 DEF LineSoFar
<1>9. QED
  BY <1>4, <1>5, <1>6, <1>7, <1>8 DEF Claims

(* The activation that runs, as the invariant describes it.                *)
LEMMA TopClaims ==
  ASSUME IInv, frames # <<>>
  PROVE  /\ visited = {} /\ B1 # B2
         /\ i <= Len(F.blocks) /\ j <= Len(F.blocks)
         /\ Reaches(F, B1, Top.bb1)
         /\ Top.bb1 \in Top.visited
         /\ Top.visited = CallerVisited(Len(frames)) \cup {Top.bb1}
         /\ Top.pi <= Len(F.succ[Top.bb1]) + 1
         /\ Top.bb1 = B2 => pc = "return" /\ ret
<1>1. Len(frames) \in 1..Len(frames)
  BY TopProperties DEF IInv
<1>2. QED
  BY <1>1 DEF IInv, StackIsSimplePath, QueryInProgress, Top

LEMMA SkipVisitedStep == IInv /\ SkipVisited => Claims'
<1> SUFFICES ASSUME IInv, SkipVisited PROVE Claims'
  OBVIOUS
<1> DEFINE n == Len(frames)
           e == Advance(Top)
<1>1. /\ frames # <<>>
      /\ TypeOK
      /\ pc = "succ" /\ pc' = "succ"
      /\ F' = F /\ i' = i /\ j' = j /\ line' = line
      /\ B1' = B1 /\ B2' = B2 /\ visited' = visited
  BY DEF IInv, SkipVisited, MoreSuccessors, QueryInProgress, B1, B2
<1>2. /\ n \in Nat \ {0}
      /\ Top.pi \in Nat \ {0} /\ Len(F.succ[Top.bb1]) \in Nat
      /\ e \in Frame
      /\ e.bb1 = Top.bb1 /\ e.visited = Top.visited /\ e.pi = Top.pi + 1
  BY <1>1, TopProperties, AdvanceProperties
<1>3. /\ frames' # <<>>
      /\ Len(frames') = n
      /\ \A k \in 1..(n - 1) : frames'[k] = frames[k]
      /\ frames'[n] = e
  BY <1>1, <1>2, ReplaceLast, SMTT(30) DEF TypeOK, Below, SkipVisited
<1>4. frames[n] = Top /\ n = Len(frames)
  BY DEF Top
<1>5. /\ \A k \in 1..n : \A m \in 1..(frames[k].pi - 1) :
           LET s == F.succ[frames[k].bb1][m] IN
             s \in frames[k].visited \/ DeadEnd(F, s, frames[k].visited, B2)
      /\ Successor = F.succ[Top.bb1][Top.pi]
      /\ Successor \in Top.visited
      /\ Top.pi <= Len(F.succ[Top.bb1])
  BY DEF IInv, PassedOverIsDeadEnd, Successor, SkipVisited, MoreSuccessors
<1> HIDE DEF n, e
<1>6. \A k \in 1..n : /\ frames'[k].bb1 = frames[k].bb1
                      /\ frames'[k].visited = frames[k].visited
                      /\ k # n => frames'[k].pi = frames[k].pi
  BY <1>2, <1>3, <1>4
<1>7. StackIsSimplePath'
  <2> SUFFICES ASSUME NEW k \in 1..n
               PROVE  /\ frames[k].bb1 \notin CallerVisited(k)'
                      /\ frames[k].visited =
                           CallerVisited(k)' \cup {frames[k].bb1}
                      /\ k = 1 => frames[k].bb1 = B1
                      /\ k > 1 =>
                           LET caller == frames[k - 1] IN
                             /\ caller.pi <= Len(F.succ[caller.bb1])
                             /\ frames[k].bb1 = F.succ[caller.bb1][caller.pi]
    <3>1. \A k \in 1..n : k > 1 => frames'[k - 1] = frames[k - 1]
      BY <1>2, <1>3
    <3>2. QED
      BY <1>1, <1>3, <1>6, <3>1 DEF StackIsSimplePath
  <2>1. CallerVisited(k)' = CallerVisited(k)
    <3>1. CASE k = 1
      BY <1>1, <3>1 DEF CallerVisited
    <3>2. CASE k # 1
      <4>1. k - 1 \in 1..(n - 1)
        BY <1>2, <3>2
      <4>2. QED
        BY <1>3, <3>2, <4>1 DEF CallerVisited
    <3>3. QED
      BY <3>1, <3>2
  <2>2. QED
    BY <1>4, <2>1 DEF IInv, StackIsSimplePath
<1>8. PassedOverIsDeadEnd'
  <2> SUFFICES ASSUME NEW k \in 1..n, NEW m \in 1..(frames'[k].pi - 1)
               PROVE  LET s == F.succ[frames[k].bb1][m] IN
                        \/ s \in frames[k].visited
                        \/ DeadEnd(F, s, frames[k].visited, B2)
    BY <1>1, <1>3, <1>6 DEF PassedOverIsDeadEnd
  <2>1. CASE k # n
    BY <1>5, <1>6, <2>1
  <2>2. CASE k = n /\ m # Top.pi
    <3>1. m \in 1..(frames[k].pi - 1)
      BY <1>2, <1>3, <1>4, <2>2
    <3>2. QED
      BY <1>5, <3>1
  <2>3. CASE k = n /\ m = Top.pi
    BY <1>4, <1>5, <2>3
  <2>4. QED
    BY <2>1, <2>2, <2>3
<1>9. ReturnedValueRight'
  BY <1>1 DEF ReturnedValueRight
<1>10. QueryInProgress'
  <2>1. /\ QueryInProgress
        /\ \A k \in 1..n :
             /\ Reaches(F, B1, frames[k].bb1)
             /\ frames[k].pi <= Len(F.succ[frames[k].bb1]) + 1
             /\ frames[k].bb1 # B2
    BY <1>1, <1>4 DEF IInv, QueryInProgress
  <2>2. e.pi <= Len(F.succ[e.bb1]) + 1
    BY <1>2, <1>5
  <2>3. \A k \in 1..n :
          /\ Reaches(F, B1, frames'[k].bb1)
          /\ frames'[k].pi <= Len(F.succ[frames'[k].bb1]) + 1
          /\ frames'[k].bb1 # B2
    BY <1>3, <1>6, <2>1, <2>2
  <2>4. QED
    BY <1>1, <1>3, <2>1, <2>3 DEF QueryInProgress
<1>11. LineSoFar'
  BY <1>1 DEF IInv, LineSoFar
<1>12. QED
  BY <1>7, <1>8, <1>9, <1>10, <1>11 DEF Claims

LEMMA DescendStep == IInv /\ Descend => Claims'
<1> SUFFICES ASSUME IInv, Descend PROVE Claims'
  OBVIOUS
<1> DEFINE n == Len(frames)
           e == [bb1 |-> Successor,
                 visited |-> Top.visited \cup {Successor}, pi |-> 1]
<1>1. /\ frames # <<>>
      /\ TypeOK
      /\ pc = "succ" /\ pc' = IF Successor = B2 THEN "return" ELSE "succ"
      /\ ret' = (Successor = B2)
      /\ F' = F /\ i' = i /\ j' = j /\ line' = line
      /\ B1' = B1 /\ B2' = B2 /\ visited' = visited
  BY DEF IInv, Descend, Call, MoreSuccessors, QueryInProgress, B1, B2
<1>2. /\ n \in Nat \ {0}
      /\ Top.pi \in 1..Len(F.succ[Top.bb1])
      /\ Successor = F.succ[Top.bb1][Top.pi]
      /\ Successor \notin Top.visited
      /\ Successor \in Blocks(F)
      /\ Successor \in Succs(F, Top.bb1)
      /\ 1 <= Len(F.succ[Successor]) + 1
  <2>1. /\ Top.pi \in 1..Len(F.succ[Top.bb1])
        /\ Successor \in Blocks(F)
    BY <1>1, TopProperties DEF Descend, MoreSuccessors, Successor
  <2>2. Len(F.succ[Successor]) \in Nat
    BY <1>1, <2>1, SuccsAreBlocks DEF TypeOK
  <2>3. 1 <= Len(F.succ[Successor]) + 1
    BY <2>2
  <2>4. QED
    BY <1>1, <2>1, <2>3, TopProperties
       DEF TypeOK, Descend, Successor, Succs
<1>3. e.bb1 = Successor /\ e.visited = Top.visited \cup {Successor} /\ e.pi = 1
  OBVIOUS
<1>4. /\ frames' # <<>>
      /\ Len(frames') = n + 1
      /\ \A k \in 1..n : frames'[k] = frames[k]
      /\ frames'[n + 1] = e
  <2>1. e \in Frame
    BY <1>1, <1>2, TopProperties DEF Frame
  <2>2. frames' = Append(frames, e)
    BY DEF Descend, Call
  <2>3. QED
    BY <1>1, <2>1, <2>2, AppendProperties DEF TypeOK
<1>5. frames[n] = Top /\ n = Len(frames) /\ 1..(n + 1) = 1..n \cup {n + 1}
  BY <1>2 DEF Top
<1>6. /\ Reaches(F, B1, Top.bb1)
      /\ Top.bb1 \in Blocks(F)
  BY <1>1, TopClaims, TopProperties
<1> HIDE DEF n, e
<1>7. \A k \in 1..n : CallerVisited(k)' = CallerVisited(k)
  BY <1>1, <1>2, <1>4 DEF CallerVisited
<1>8. \A k : k = n + 1 => CallerVisited(k)' = Top.visited
  BY <1>2, <1>4, <1>5 DEF CallerVisited
<1>9. StackIsSimplePath'
  <2>1. ASSUME NEW k \in 1..n
        PROVE  /\ frames'[k].bb1 \notin CallerVisited(k)'
               /\ frames'[k].visited = CallerVisited(k)' \cup {frames'[k].bb1}
               /\ k = 1 => frames'[k].bb1 = B1
               /\ k > 1 =>
                    LET caller == frames'[k - 1] IN
                      /\ caller.pi <= Len(F.succ[caller.bb1])
                      /\ frames'[k].bb1 = F.succ[caller.bb1][caller.pi]
    <3>1. k > 1 => frames'[k - 1] = frames[k - 1]
      BY <1>2, <1>4
    <3>2. QED
      BY <1>4, <1>5, <1>7, <3>1 DEF IInv, StackIsSimplePath
  <2>2. ASSUME NEW k, k = n + 1
        PROVE  /\ frames'[k].bb1 \notin CallerVisited(k)'
               /\ frames'[k].visited = CallerVisited(k)' \cup {frames'[k].bb1}
               /\ k # 1
               /\ LET caller == frames'[k - 1] IN
                    /\ caller.pi <= Len(F.succ[caller.bb1])
                    /\ frames'[k].bb1 = F.succ[caller.bb1][caller.pi]
    <3>1. k # 1 /\ k - 1 = n /\ CallerVisited(k)' = Top.visited
      BY <1>2, <1>8, <2>2
    <3>2. frames'[k] = e /\ frames'[k - 1] = Top
      BY <1>2, <1>4, <1>5, <2>2, <3>1
    <3>3. QED
      BY <1>2, <1>3, <3>1, <3>2
  <2>3. \A k \in 1..(n + 1) : k \in 1..n \/ k = n + 1
    BY <1>5
  <2>4. QED
    BY <1>1, <1>4, <2>1, <2>2, <2>3 DEF StackIsSimplePath
<1>10. PassedOverIsDeadEnd'
  <2>1. 1..(frames'[n + 1].pi - 1) = {}
    BY <1>3, <1>4
  <2>2. QED
    BY <1>1, <1>4, <1>5, <2>1 DEF IInv, PassedOverIsDeadEnd
<1>11. Reaches(F, B1, Successor)
  BY <1>2, <1>6, ReachesStep
<1>12. ReturnedValueRight'
  BY <1>1, <1>11 DEF ReturnedValueRight
<1>13. QueryInProgress'
  <2>1. ASSUME NEW k \in 1..(n + 1)
        PROVE  /\ Reaches(F, B1, frames'[k].bb1)
               /\ frames'[k].pi <= Len(F.succ[frames'[k].bb1]) + 1
               /\ frames'[k].bb1 = B2 => pc' = "return" /\ ret'
    <3>1. CASE k = n + 1
      <4>1. frames'[k].bb1 = Successor /\ frames'[k].pi = 1
        BY <1>3, <1>4, <3>1
      <4>2. Successor = B2 => pc' = "return" /\ ret'
        BY <1>1
      <4>3. QED
        BY <1>2, <1>11, <4>1, <4>2, Zenon
    <3>2. CASE k \in 1..n
      BY <1>1, <1>4, <1>5, <3>2 DEF IInv, QueryInProgress
    <3>3. QED
      BY <1>5, <3>1, <3>2
  <2>2. QED
    BY <1>1, <1>4, <2>1 DEF IInv, QueryInProgress
<1>14. LineSoFar'
  BY <1>1 DEF IInv, LineSoFar
<1>15. QED
  BY <1>9, <1>10, <1>12, <1>13, <1>14 DEF Claims

(* Leaving the loop of hasPath: every successor has been passed over, so   *)
(* the block is a dead end for its caller.                                 *)
LEMMA ExhaustedStep == IInv /\ Exhausted => Claims'
<1> SUFFICES ASSUME IInv, Exhausted PROVE Claims'
  OBVIOUS
<1> DEFINE n == Len(frames)
<1>1. /\ frames # <<>>
      /\ TypeOK
      /\ pc = "succ" /\ pc' = "return" /\ ret' = FALSE
      /\ Top.pi > Len(F.succ[Top.bb1])
      /\ F' = F /\ i' = i /\ j' = j /\ line' = line /\ frames' = frames
      /\ B1' = B1 /\ B2' = B2 /\ visited' = visited
  <2>1. frames # <<>> /\ TypeOK
    BY DEF IInv, Exhausted, QueryInProgress
  <2>2. QED
    BY <2>1, TopProperties DEF Exhausted, MoreSuccessors, B1, B2
<1>2. StackIsSimplePath' /\ PassedOverIsDeadEnd' /\ LineSoFar'
  BY <1>1 DEF IInv, StackIsSimplePath, PassedOverIsDeadEnd, LineSoFar,
              CallerVisited
<1>3. QueryInProgress'
  BY <1>1 DEF IInv, QueryInProgress
<1>4. DeadEnd(F, Top.bb1, CallerVisited(n), B2)
  <2>1. /\ n \in 1..Len(frames) /\ frames[n] = Top
        /\ Top.bb1 \in Blocks(F)
        /\ Top.pi = Len(F.succ[Top.bb1]) + 1
        /\ Top.bb1 # B2
        /\ Top.visited = CallerVisited(n) \cup {Top.bb1}
        /\ Len(F.succ[Top.bb1]) \in Nat
    BY <1>1, TopProperties, TopClaims DEF Top
  <2>2. \A m \in 1..Len(F.succ[Top.bb1]) :
          LET s == F.succ[Top.bb1][m] IN
            s \in Top.visited \/ DeadEnd(F, s, Top.visited, B2)
    <3>1. 1..Len(F.succ[Top.bb1]) = 1..(frames[n].pi - 1)
      BY <2>1
    <3>2. QED
      BY <2>1, <3>1 DEF IInv, PassedOverIsDeadEnd
  <2>3. \A s \in Succs(F, Top.bb1) :
          \/ s \in CallerVisited(n) \cup {Top.bb1}
          \/ DeadEnd(F, s, CallerVisited(n) \cup {Top.bb1}, B2)
    BY <2>1, <2>2 DEF Succs
  <2>4. QED
    BY <1>1, <2>1, <2>3, DeadEndOfSuccessors DEF TypeOK
<1>5. ReturnedValueRight'
  BY <1>1, <1>4 DEF ReturnedValueRight, CallerVisited, Top
<1>6. QED
  BY <1>2, <1>3, <1>5 DEF Claims

LEMMA CallerPosition ==
  ASSUME NEW n \in Nat, n > 1
  PROVE  /\ n - 1 \in Nat \ {0}
         /\ n # 1
         /\ n \in 1..n /\ n - 1 \in 1..n /\ n - 1 \in 1..(n - 1)
         /\ 1..(n - 1) \subseteq 1..n
OBVIOUS

LEMMA ReturnTrueStep == IInv /\ ReturnTrue => Claims'
<1> SUFFICES ASSUME IInv, ReturnTrue PROVE Claims'
  OBVIOUS
<1> DEFINE n == Len(frames) - 1
<1>1. /\ frames # <<>>
      /\ TypeOK
      /\ n \in Nat \ {0}
      /\ pc = "return" /\ pc' = "return" /\ ret /\ ret'
      /\ F' = F /\ i' = i /\ j' = j /\ line' = line
      /\ B1' = B1 /\ B2' = B2 /\ visited' = visited
  <2>1. frames # <<>> /\ TypeOK
    BY DEF IInv, ReturnTrue, QueryInProgress
  <2>2. Len(frames) \in Nat
    BY <2>1, TopProperties
  <2>3. n \in Nat \ {0}
    BY <2>2, CallerPosition DEF ReturnTrue
  <2>4. QED
    BY <2>1, <2>3 DEF ReturnTrue, B1, B2
<1>2. /\ frames' # <<>>
      /\ Len(frames') = n
      /\ \A k \in 1..n : frames'[k] = frames[k]
  BY <1>1, BelowProperties, EmptySeq DEF TypeOK, Below, ReturnTrue
<1>3. 1..n \subseteq 1..Len(frames)
  BY <1>1
<1> HIDE DEF n
<1>4. StackIsSimplePath'
  <2>1. \A k \in 1..n : CallerVisited(k)' = CallerVisited(k)
    BY <1>1, <1>2 DEF CallerVisited
  <2>2. \A k \in 1..n : k > 1 => frames'[k - 1] = frames[k - 1]
    BY <1>1, <1>2
  <2>3. QED
    BY <1>1, <1>2, <1>3, <2>1, <2>2, SMTT(30) DEF IInv, StackIsSimplePath
<1>5. PassedOverIsDeadEnd'
  BY <1>1, <1>2, <1>3 DEF IInv, PassedOverIsDeadEnd
<1>6. ReturnedValueRight'
  BY <1>1 DEF IInv, ReturnedValueRight
<1>7. QueryInProgress'
  BY <1>1, <1>2, <1>3 DEF IInv, QueryInProgress
<1>8. LineSoFar'
  BY <1>1 DEF IInv, LineSoFar
<1>9. QED
  BY <1>4, <1>5, <1>6, <1>7, <1>8 DEF Claims

(* A recursive call answered FALSE: its block joins the successors its     *)
(* caller has passed over.                                                 *)
LEMMA ReturnFalseStep == IInv /\ ReturnFalse => Claims'
<1> SUFFICES ASSUME IInv, ReturnFalse PROVE Claims'
  OBVIOUS
<1> DEFINE n == Len(frames) - 1
           caller == frames[n]
           e == Advance(caller)
<1>1. /\ frames # <<>>
      /\ TypeOK
      /\ n \in Nat \ {0}
      /\ Len(frames) \in 1..Len(frames) /\ Len(frames) # 1
      /\ n \in 1..Len(frames) /\ n \in 1..n
      /\ 1..n \subseteq 1..Len(frames)
      /\ pc = "return" /\ pc' = "succ" /\ ~ ret
      /\ F' = F /\ i' = i /\ j' = j /\ line' = line
      /\ B1' = B1 /\ B2' = B2 /\ visited' = visited
  <2>1. frames # <<>> /\ TypeOK
    BY DEF IInv, ReturnFalse, QueryInProgress
  <2>2. Len(frames) \in Nat
    BY <2>1, TopProperties
  <2>3. /\ n \in Nat \ {0}
        /\ Len(frames) \in 1..Len(frames) /\ Len(frames) # 1
        /\ n \in 1..Len(frames) /\ n \in 1..n
        /\ 1..n \subseteq 1..Len(frames)
    BY <2>2, CallerPosition DEF ReturnFalse
  <2>4. QED
    BY <2>1, <2>3 DEF ReturnFalse, B1, B2
<1>2. /\ caller \in Frame
      /\ caller.pi \in Nat \ {0}
      /\ e \in Frame
      /\ e.bb1 = caller.bb1
      /\ e.visited = caller.visited
      /\ e.pi = caller.pi + 1
  <2>1. caller \in Frame
    BY <1>1, ElementOfSeq DEF TypeOK
  <2>2. QED
    BY <2>1, AdvanceProperties DEF Frame
<1>3. /\ frames' # <<>>
      /\ Len(frames') = n
      /\ \A k \in 1..n : k # n => frames'[k] = frames[k]
      /\ frames'[n] = e
  <2>1. /\ Below \in Seq(Frame)
        /\ Len(Below) = n
        /\ \A k \in 1..n : Below[k] = frames[k]
    BY <1>1, BelowProperties DEF TypeOK, Below
  <2>2. frames' = [Below EXCEPT ![n] = e]
    <3>1. Below[n] = caller
      BY <1>1, <2>1
    <3>2. frames' = [Below EXCEPT ![n] = Advance(Below[n])]
      BY DEF ReturnFalse
    <3>3. QED
      BY <3>1, <3>2
  <2>3. /\ Len(frames') = n
        /\ \A k \in 1..n : k # n => frames'[k] = Below[k]
        /\ frames'[n] = e
    BY <1>1, <1>2, <2>1, <2>2, ExceptSeq
  <2>4. QED
    BY <1>1, <2>1, <2>3, EmptySeq
<1>4. /\ 1..n \subseteq 1..Len(frames)
      /\ n \in 1..Len(frames)
      /\ frames[n] = caller
  BY <1>1
(* What the callee's FALSE says of the successor its caller looks at.      *)
<1>5. /\ caller.pi <= Len(F.succ[caller.bb1])
      /\ DeadEnd(F, F.succ[caller.bb1][caller.pi], caller.visited, B2)
  <2>1. /\ Len(frames) \in 1..Len(frames) /\ Len(frames) > 1
        /\ Len(frames) # 1
        /\ Top = frames[Len(frames)]
    BY <1>1 DEF ReturnFalse, Top
  <2>2. /\ caller.pi <= Len(F.succ[caller.bb1])
        /\ Top.bb1 = F.succ[caller.bb1][caller.pi]
    BY <2>1 DEF IInv, StackIsSimplePath
  <2>3. CallerVisited(Len(frames)) = caller.visited
    BY <2>1 DEF CallerVisited
  <2>4. DeadEnd(F, Top.bb1, CallerVisited(Len(frames)), B2)
    BY <1>1 DEF IInv, ReturnedValueRight
  <2>5. QED
    BY <2>2, <2>3, <2>4
<1> HIDE DEF n, caller, e
<1>6. \A k \in 1..n : /\ frames'[k].bb1 = frames[k].bb1
                      /\ frames'[k].visited = frames[k].visited
                      /\ k # n => frames'[k].pi = frames[k].pi
  BY <1>1, <1>2, <1>3, <1>4
<1>7. StackIsSimplePath'
  <2>1. ASSUME NEW k \in 1..n
        PROVE  /\ CallerVisited(k)' = CallerVisited(k)
               /\ k > 1 => frames'[k - 1] = frames[k - 1]
    <3>1. CASE k = 1
      BY <1>1, <3>1 DEF CallerVisited
    <3>2. CASE k # 1
      <4>1. k - 1 \in 1..n /\ k - 1 # n /\ k > 1
        BY <1>1, <3>2
      <4>2. QED
        BY <1>3, <3>2, <4>1 DEF CallerVisited
    <3>3. QED
      BY <3>1, <3>2
  <2>2. ASSUME NEW k \in 1..n
        PROVE  /\ frames[k].bb1 \notin CallerVisited(k)
               /\ frames[k].visited = CallerVisited(k) \cup {frames[k].bb1}
               /\ k = 1 => frames[k].bb1 = B1
               /\ k > 1 => LET below == frames[k - 1] IN
                             /\ below.pi <= Len(F.succ[below.bb1])
                             /\ frames[k].bb1 = F.succ[below.bb1][below.pi]
    BY <1>4 DEF IInv, StackIsSimplePath
  <2>3. QED
    BY <1>1, <1>3, <1>6, <2>1, <2>2 DEF StackIsSimplePath
<1>8. PassedOverIsDeadEnd'
  <2> SUFFICES ASSUME NEW k \in 1..n, NEW m \in 1..(frames'[k].pi - 1)
               PROVE  LET s == F.succ[frames[k].bb1][m] IN
                        \/ s \in frames[k].visited
                        \/ DeadEnd(F, s, frames[k].visited, B2)
    BY <1>1, <1>3, <1>6 DEF PassedOverIsDeadEnd
  <2>1. CASE k = n /\ m = caller.pi
    BY <1>4, <1>5, <2>1
  <2>2. CASE k # n \/ m # caller.pi
    <3>1. m \in 1..(frames[k].pi - 1)
      BY <1>2, <1>3, <1>4, <1>6, <2>2
    <3>2. QED
      BY <1>4, <3>1 DEF IInv, PassedOverIsDeadEnd
  <2>3. QED
    BY <2>1, <2>2
<1>9. ReturnedValueRight'
  BY <1>1 DEF ReturnedValueRight
<1>10. QueryInProgress'
  <2>1. ASSUME NEW k \in 1..n
        PROVE  /\ Reaches(F, B1, frames'[k].bb1)
               /\ frames'[k].pi <= Len(F.succ[frames'[k].bb1]) + 1
               /\ frames'[k].bb1 # B2
    <3>1. Reaches(F, B1, frames[k].bb1) /\ frames[k].bb1 # B2
      BY <1>1, <1>4 DEF IInv, QueryInProgress
    <3>2. frames[k].pi <= Len(F.succ[frames[k].bb1]) + 1
      BY <1>4 DEF IInv, QueryInProgress
    <3>3. e.pi <= Len(F.succ[caller.bb1]) + 1
      <4>1. caller.bb1 \in Blocks(F)
        BY <1>2 DEF Frame
      <4>2. Len(F.succ[caller.bb1]) \in Nat
        BY <1>1, <4>1, SuccsAreBlocks DEF TypeOK
      <4>3. QED
        BY <1>2, <1>5, <4>2
    <3>4. QED
      BY <1>3, <1>4, <1>6, <3>1, <3>2, <3>3
  <2>2. QED
    BY <1>1, <1>3, <2>1 DEF IInv, QueryInProgress
<1>11. LineSoFar'
  BY <1>1 DEF IInv, LineSoFar
<1>12. QED
  BY <1>7, <1>8, <1>9, <1>10, <1>11 DEF Claims

--------------------------------------------------------------------------------
(* The invariant holds of every reachable state. *)

LEMMA IInvInit == Init => IInv
<1> SUFFICES ASSUME Init PROVE IInv
  OBVIOUS
<1>1. TypeOK
  BY TypeInit
<1>2. frames = <<>> /\ visited = {} /\ pc = "pair" /\ j = 1 /\ line = {}
  BY DEF Init
<1>3. StackIsSimplePath /\ PassedOverIsDeadEnd /\ ReturnedValueRight
  BY <1>2, EmptySeq DEF StackIsSimplePath, PassedOverIsDeadEnd,
                        ReturnedValueRight
<1>4. QueryInProgress
  BY <1>2, EmptySeq DEF QueryInProgress
<1>5. LineSoFar
  BY <1>2 DEF LineSoFar
<1>6. QED
  BY <1>1, <1>3, <1>4, <1>5 DEF IInv

LEMMA StutterStep == IInv /\ UNCHANGED vars => Claims'
BY DEF vars, IInv, Claims, StackIsSimplePath, PassedOverIsDeadEnd,
       ReturnedValueRight, QueryInProgress, LineSoFar, CallerVisited,
       B1, B2, Top

LEMMA IInvNext == IInv /\ [Next]_vars => IInv'
<1> SUFFICES ASSUME IInv, [Next]_vars PROVE IInv'
  OBVIOUS
<1>1. TypeOK'
  BY TypeNext DEF IInv
<1>2. Claims'
  BY SkipSelfStep, QueryStep, AnswerStep, EndLineStep, FinishStep,
     SkipVisitedStep, DescendStep, ExhaustedStep, ReturnTrueStep,
     ReturnFalseStep, StutterStep
     DEF Next, Done
<1>3. QED
  BY <1>1, <1>2 DEF IInv, Claims

(* What holds of the recursion of hasPath at every step: the stack, what   *)
(* each activation has passed over, the value returned and the line so far.*)
THEOREM SearchInvariant == Spec => []IInv
BY IInvInit, IInvNext, PTL DEF Spec

(* Every variable of the pass has its type in every reachable state.       *)
THEOREM TypeCorrect == Spec => []TypeOK
<1>1. IInv => TypeOK
  BY DEF IInv
<1>2. QED
  BY <1>1, IInvInit, IInvNext, PTL DEF Spec

(* The search is on a simple path whatever the graph: each activation of   *)
(* hasPath owns its caller's visited blocks and its own, new one.          *)
THEOREM SearchIsOnSimplePath == Spec => []StackIsSimplePath
<1>1. IInv => StackIsSimplePath
  BY DEF IInv
<1>2. QED
  BY <1>1, IInvInit, IInvNext, PTL DEF Spec

(* Losing what the callees visited loses no path: a successor passed over  *)
(* leads to B2 only through blocks the activation has visited itself.      *)
THEOREM NoPathIsLost == Spec => []PassedOverIsDeadEnd
<1>1. IInv => PassedOverIsDeadEnd
  BY DEF IInv
<1>2. QED
  BY <1>1, IInvInit, IInvNext, PTL DEF Spec

(* What hasPath returns is right at every depth of the recursion.          *)
THEOREM AnswersAreRight == Spec => []ReturnedValueRight
<1>1. IInv => ReturnedValueRight
  BY DEF IInv
<1>2. QED
  BY <1>1, IInvInit, IInvNext, PTL DEF Spec

--------------------------------------------------------------------------------
(* The pass implements CFGPathReport. *)

LEMMA ReportInit == Init => Report!Init
BY DEF Init, Report!Init

(* The end of a line prints the blocks that B1 reaches; nothing else the   *)
(* pass does is visible to its reader.                                     *)
LEMMA ReportNext ==
  IInv /\ [Next]_vars => [Report!PrintLine]_<<F, lines>>
<1> SUFFICES ASSUME IInv, [Next]_vars
             PROVE  [Report!PrintLine]_<<F, lines>>
  OBVIOUS
<1>1. CASE EndLine
  <2>1. /\ i \in 1..Len(F.blocks)
        /\ Len(F.blocks) \in Nat \ {0}
        /\ j = Len(F.blocks) + 1
        /\ Len(lines) = i - 1
    <3>1. Len(F.blocks) \in Nat \ {0}
      BY BlockCount DEF IInv, TypeOK
    <3>2. /\ i \in 1..Len(F.blocks) + 1
          /\ j \in 1..Len(F.blocks) + 1
          /\ Len(lines) = i - 1
      BY DEF IInv, TypeOK
    <3>3. i <= Len(F.blocks) /\ j > Len(F.blocks)
      BY <1>1 DEF EndLine
    <3>4. QED
      BY <3>1, <3>2, <3>3
  <2>2. 1..(j - 1) = 1..Len(F.blocks) /\ Len(lines) + 1 = i
    BY <2>1
  <2>3. line = {b \in Blocks(F) : b # B1 /\ Reaches(F, B1, b)}
    BY <2>1, <2>2 DEF IInv, LineSoFar, Blocks
  <2>4. line = Report!ReachableOthers(F.blocks[Len(lines) + 1])
    BY <2>2, <2>3 DEF Report!ReachableOthers, Report!Blocks, Report!Reaches,
                      Report!ClosedBut, Report!Succs, Blocks, Reaches,
                      ClosedBut, Succs, B1
  <2>5. Len(lines) < Len(F.blocks)
    BY <2>1
  <2>6. QED
    BY <1>1, <2>4, <2>5 DEF EndLine, Report!PrintLine
<1>2. CASE UNCHANGED <<F, lines>>
  BY <1>2
<1>3. QED
  BY <1>1, <1>2 DEF Next, vars, Done, SkipSelf, Query, Answer, Finish,
                    SkipVisited, Descend, Exhausted, ReturnTrue, ReturnFalse

(* For every function, the pass prints for each block exactly the other    *)
(* blocks that can be reached from it, in the order of the block list.     *)
THEOREM PassImplementsReport == Spec => ImplementsReport
<1>1. Init => Report!Init
  BY ReportInit
<1>2. IInv /\ [Next]_vars => [Report!PrintLine]_<<F, lines>>
  BY ReportNext
<1>3. QED
  BY <1>1, <1>2, IInvInit, IInvNext, PTL
     DEF Spec, ImplementsReport, Report!Spec

--------------------------------------------------------------------------------
(* count-li next to cfg-path: what is printed about loops and paths agrees. *)

(* What is known of natural loops: L gives per header the blocks of its    *)
(* loop, each on a cycle with the header, and no block branches to itself  *)
(* where there is no loop.                                                 *)
NaturalLoops(f, L) ==
  /\ DOMAIN L \subseteq Blocks(f)
  /\ \A h \in DOMAIN L :
       /\ L[h] \subseteq Blocks(f)
       /\ \A b \in L[h] : Reaches(f, h, b) /\ Reaches(f, b, h)
  /\ DOMAIN L = {} =>
       \A b \in Blocks(f) : Reaches(f, f.blocks[1], b) => b \notin Succs(f, b)

(* What reaches a latch l of h without passing h reaches h.                *)
LEMMA BackToHeader ==
  ASSUME NEW f, NEW h \in Blocks(f), NEW l \in Blocks(f), NEW b \in Blocks(f),
         h \in Succs(f, l), ~ DeadEnd(f, b, {h}, l)
  PROVE  Reaches(f, b, h)
<1> SUFFICES ASSUME NEW S \in SUBSET Blocks(f), b \in S, ClosedBut(f, S, {})
             PROVE  h \in S
  BY DEF Reaches
<1>1. ClosedBut(f, S, {h})
  BY DEF ClosedBut
<1>2. l \in S
  BY <1>1 DEF DeadEnd
<1>3. QED
  BY <1>2 DEF ClosedBut

(* A header that dominates its latch reaches all of its loop: the blocks   *)
(* before it on the way from the entry are left only into it.              *)
LEMMA FromHeader ==
  ASSUME NEW f, IsCFG(f), NEW h \in Blocks(f), NEW l \in Blocks(f),
         NEW b \in Blocks(f), Reaches(f, f.blocks[1], b), b # h,
         h \in Succs(f, l), ~ DeadEnd(f, b, {h}, l),
         l = h \/ h = f.blocks[1] \/ DeadEnd(f, f.blocks[1], {h}, l)
  PROVE  Reaches(f, h, b)
<1>1. l # h
  <2> SUFFICES ASSUME l = h PROVE FALSE
    OBVIOUS
  <2> DEFINE S == Blocks(f) \ {h}
  <2>1. S \in SUBSET Blocks(f) /\ b \in S /\ l \notin S
    OBVIOUS
  <2>2. ClosedBut(f, S, {h})
    BY SuccsAreBlocks DEF ClosedBut
  <2>3. QED
    BY <2>1, <2>2 DEF DeadEnd
<1>2. h # f.blocks[1]
  BY DEF IsCFG
<1>3. PICK S \in SUBSET Blocks(f) :
        f.blocks[1] \in S /\ l \notin S /\ ClosedBut(f, S, {h})
  BY <1>1, <1>2 DEF DeadEnd
<1>4. b \notin S
  BY <1>3 DEF DeadEnd
<1>5. ASSUME NEW T \in SUBSET Blocks(f), h \in T, ClosedBut(f, T, {})
      PROVE  b \in T
  <2>1. ClosedBut(f, S \cup T, {})
    BY <1>3, <1>5 DEF ClosedBut
  <2>2. b \in S \cup T
    BY <1>3, <2>1 DEF Reaches
  <2>3. QED
    BY <1>4, <2>2
<1>6. QED
  BY <1>5 DEF Reaches

(* CountLI's words for graphs are those of CFG.                            *)
LEMMA SameGraph ==
  /\ \A f : Loops!Blocks(f) = Blocks(f)
  /\ \A f, b : Loops!Succs(f, b) = Succs(f, b)
  /\ \A f, a, b : Loops!Reaches(f, a, b) <=> Reaches(f, a, b)
  /\ \A f, n, V, t : Loops!DeadEnd(f, n, V, t) <=> DeadEnd(f, n, V, t)
BY DEF Loops!Blocks, Blocks, Loops!Succs, Succs, Loops!Reaches, Reaches,
       Loops!DeadEnd, DeadEnd, Loops!ClosedBut, ClosedBut

LEMMA LoopInfoIsNatural ==
  ASSUME IsCFG(F)
  PROVE  NaturalLoops(F, Loops!LoopInfo)
<1> DEFINE e == F.blocks[1]
           R == Loops!Reachable
           Latches == [h \in R |-> {p \in R : /\ h \in Loops!Succs(F, p)
                                              /\ Loops!Dominates(h, p)}]
           Headers == {h \in R : Latches[h] # {}}
           L == [h \in Headers |->
                  {h} \cup {b \in R : \E l \in Latches[h] : ~ Loops!DeadEnd(F, b, {h}, l)}]
<1>1. Loops!LoopInfo = L
  BY DEF Loops!LoopInfo
<1>2. R = {b \in Blocks(F) : Reaches(F, e, b)}
  BY SameGraph DEF Loops!Reachable, Loops!Entry
<1>3. \A h \in R : \A p \in Latches[h] :
        /\ p \in R /\ h \in Succs(F, p)
        /\ h = p \/ h = e \/ DeadEnd(F, e, {h}, p)
  BY SameGraph DEF Loops!Dominates, Loops!Entry
<1>4. \A h, p \in R : h \in Succs(F, p) /\ h = p => p \in Latches[h]
  BY SameGraph DEF Loops!Dominates
<1> HIDE DEF R, Latches
<1>5. DOMAIN L = Headers /\ Headers \subseteq R
  OBVIOUS
<1>6. ASSUME NEW h \in Headers
      PROVE  /\ L[h] \subseteq Blocks(F)
             /\ \A b \in L[h] : Reaches(F, h, b) /\ Reaches(F, b, h)
  <2>1. h \in R /\ h \in Blocks(F)
    BY <1>2
  <2>2. L[h] = {h} \cup {b \in R : \E l \in Latches[h] : ~ Loops!DeadEnd(F, b, {h}, l)}
    OBVIOUS
  <2>3. ASSUME NEW b \in L[h], b # h
        PROVE  Reaches(F, h, b) /\ Reaches(F, b, h)
    <3>1. PICK l \in Latches[h] : b \in R /\ ~ DeadEnd(F, b, {h}, l)
      BY <2>2, <2>3, SameGraph
    <3>2. QED
      BY <1>2, <1>3, <2>1, <2>3, <3>1, BackToHeader, FromHeader
  <2>4. QED
    BY <1>2, <2>1, <2>2, <2>3, ReachesSelf
<1>7. ASSUME DOMAIN L = {}, NEW b \in Blocks(F), Reaches(F, e, b)
      PROVE  b \notin Succs(F, b)
  BY <1>2, <1>4, <1>5, <1>7
<1>8. QED
  BY <1>1, <1>2, <1>5, <1>6, <1>7 DEF NaturalLoops

(* A block in a loop has an innermost one: some loop has fewest blocks.    *)
LEMMA InnermostExists ==
  ASSUME IsCFG(F), NaturalLoops(F, LI), NEW b, Loops!HeadersOf(b) # {}
  PROVE  Loops!InnermostHeader(b) \in Loops!HeadersOf(b)
<1> DEFINE H == Loops!HeadersOf(b)
           T == {Loops!Cardinality(LI[h]) : h \in H}
<1>1. IsFiniteSet(Blocks(F))
  BY DEF IsCFG, IsFiniteSet, Blocks
<1>2. ASSUME NEW h \in H
      PROVE  Loops!Cardinality(LI[h]) \in Nat
  <2>1. LI[h] \in SUBSET Blocks(F)
    BY DEF NaturalLoops, Loops!HeadersOf
  <2>2. IsFiniteSet(LI[h])
    BY <1>1, <2>1, FS_Subset
  <2>3. Cardinality(LI[h]) \in Nat
    BY <2>2, FS_CardinalityType
  <2>4. Loops!Cardinality(LI[h]) = Cardinality(LI[h])
    BY DEF Loops!Cardinality, Cardinality
  <2>5. QED
    BY <2>3, <2>4
<1>3. T \subseteq Nat /\ T # {}
  BY <1>2
<1>4. IsWellFoundedOn(OpToRel(<, Nat), Nat)
  BY NatLessThanWellFounded
<1>5. PICK n \in T : \A m \in T : ~ (<<m, n>> \in OpToRel(<, Nat))
  BY <1>3, <1>4, WFMin, Zenon
<1>6. \A m \in T : n <= m
  <2> HIDE DEF T
  <2>1. \A m \in T : n \in Nat /\ m \in Nat /\ ~ (m < n)
    BY <1>3, <1>5 DEF OpToRel
  <2>2. QED
    BY <2>1
<1>7. PICK h \in H : Loops!Cardinality(LI[h]) = n
  BY <1>5
<1>8. \A g \in H : Loops!Cardinality(LI[h]) <= Loops!Cardinality(LI[g])
  BY <1>6, <1>7
<1>9. QED
  BY <1>7, <1>8 DEF Loops!InnermostHeader

(* What count-li may print for a block: a preheader is alone, another      *)
(* block, and leads over a header that is on a cycle with the block.       *)
PreheaderRight(f, b, p) ==
  LET h == f.succ[p][1] IN
  /\ p # b
  /\ h \in Blocks(f)
  /\ Reaches(f, p, b) /\ Reaches(f, h, b) /\ Reaches(f, b, h)

RightLines(f) ==
  {r \in [block : Blocks(f), pred : SUBSET Blocks(f), preheader : SUBSET Blocks(f)] :
     \A p \in r.preheader :
       r.preheader = {p} /\ PreheaderRight(f, r.block, p)}

LEMMA EdgeFirst ==
  ASSUME NEW f, NEW a, NEW b, NEW p \in Blocks(f), b \in Succs(f, p), Reaches(f, b, a)
  PROVE  Reaches(f, p, a)
BY DEF Reaches, ClosedBut

LEMMA LinesForRight ==
  ASSUME IsCFG(F), NaturalLoops(F, LI), NEW b \in Blocks(F)
  PROVE  Loops!LinesFor(b) \in RightLines(F)
<1>1. CASE Loops!HeadersOf(b) = {}
  BY <1>1 DEF Loops!LinesFor, RightLines
<1>2. CASE Loops!HeadersOf(b) # {}
  <2>1. PICK h : h = Loops!InnermostHeader(b)
    OBVIOUS
  <2>2. h \in DOMAIN LI /\ b \in LI[h]
    BY <1>2, <2>1, InnermostExists DEF Loops!HeadersOf
  <2>3. h \in Blocks(F) /\ Reaches(F, h, b) /\ Reaches(F, b, h)
    BY <2>2 DEF NaturalLoops
  <2>4. PICK P : P = Loops!Preheaders(h)
    OBVIOUS
  <2>5. ASSUME NEW p \in P
        PROVE  P = {p} /\ PreheaderRight(F, b, p) /\ p \in Blocks(F)
    <3>1. /\ p \in Blocks(F) /\ p \notin LI[h] /\ h \in Succs(F, p)
          /\ Loops!Outside(h) = {p} /\ F.succ[p] = <<h>>
      BY <2>4, SameGraph DEF Loops!Preheaders, Loops!Outside
    <3>2. P = {p}
      BY <2>4, <3>1 DEF Loops!Preheaders
    <3>3. Reaches(F, p, b)
      BY <2>3, <3>1, EdgeFirst
    <3>4. F.succ[p][1] = h
      BY <3>1
    <3>5. QED
      BY <2>2, <2>3, <3>1, <3>2, <3>3, <3>4 DEF PreheaderRight
  <2>6. Loops!LinesFor(b) = [block |-> b, pred |-> P, preheader |-> P]
    BY <1>2, <2>1, <2>4 DEF Loops!LinesFor
  <2>7. P \subseteq Blocks(F)
    BY <2>5
  <2>8. QED
    BY <2>5, <2>6, <2>7 DEF RightLines
<1>3. QED
  BY <1>1, <1>2

(* What the two passes of one opt have printed.                            *)
LoopsSoFar ==
  /\ counting \in {"required", "running", "done"}
  /\ blockAt \in Nat \ {0}
  /\ counting # "required" => NaturalLoops(F, LI)
  /\ report \in Seq(RightLines(F))
  /\ noLoop \in BOOLEAN
  /\ noLoop =>
       \A b \in Blocks(F) : Reaches(F, F.blocks[1], b) => b \notin Succs(F, b)

LinesSoFar ==
  \A k \in 1..Len(lines) : lines[k] = Report!ReachableOthers(F.blocks[k])

OptInv == IInv /\ LoopsSoFar /\ LinesSoFar

LEMMA OptInitInv == OptInit => OptInv
<1> SUFFICES ASSUME OptInit PROVE OptInv
  OBVIOUS
<1>1. IInv
  BY IInvInit DEF OptInit
<1>2. lines = <<>> /\ Loops!CountInit
  BY DEF OptInit, Init
<1>3. LoopsSoFar
  <2>1. report = <<>> /\ blockAt = 1 /\ noLoop = FALSE /\ counting = "required"
    BY <1>2 DEF Loops!CountInit
  <2>2. report \in Seq(RightLines(F))
    BY <2>1
  <2>3. noLoop = FALSE /\ blockAt \in Nat \ {0}
    BY <2>1
  <2>4. ~ noLoop /\ noLoop \in BOOLEAN
    BY <2>3, Zenon
  <2>5. QED
    BY <2>1, <2>2, <2>3, <2>4, Zenon DEF LoopsSoFar
<1>4. LinesSoFar
  BY <1>2 DEF LinesSoFar
<1>5. QED
  BY <1>1, <1>3, <1>4 DEF OptInv

LEMMA OptIsSearch == [OptNext]_optVars => [Next]_vars
BY DEF OptNext, optVars, CountLIStep, CFGPathStep, vars, searchVars, Loops!CountNext,
       Loops!Analysis, Loops!NoLoopInside, Loops!Block, Loops!BlocksDone

(* The function stays: no step of a pass changes it.                       *)
LEMMA FunctionStays == [Next]_vars => F' = F
BY DEF Next, vars, Done, SkipSelf, Query, Answer, EndLine, Finish, SkipVisited, Descend,
       Exhausted, ReturnTrue, ReturnFalse

LEMMA LinesNext ==
  ASSUME IInv, LinesSoFar, [Next]_vars
  PROVE  LinesSoFar'
<1>1. F' = F
  BY FunctionStays
<1>2. \A b : Report!ReachableOthers(b)' = Report!ReachableOthers(b)
  BY <1>1 DEF Report!ReachableOthers, Report!Blocks, Report!Reaches, Report!ClosedBut,
              Report!Succs
<1>3. CASE UNCHANGED lines
  BY <1>1, <1>2, <1>3 DEF LinesSoFar
<1>4. CASE Report!PrintLine
  <2>1. lines \in Seq(SUBSET Blocks(F)) /\ Len(lines) \in Nat
    BY DEF IInv, TypeOK
  <2>2. lines' = Append(lines, Report!ReachableOthers(F.blocks[Len(lines) + 1]))
    BY <1>4 DEF Report!PrintLine
  <2>3. /\ Len(lines') = Len(lines) + 1
        /\ \A k \in 1..Len(lines) : lines'[k] = lines[k]
        /\ lines'[Len(lines) + 1] = Report!ReachableOthers(F.blocks[Len(lines) + 1])
    BY <2>1, <2>2
  <2>4. ASSUME NEW k \in 1..Len(lines')
        PROVE  lines'[k] = Report!ReachableOthers(F.blocks[k])
    BY <2>1, <2>3 DEF LinesSoFar
  <2>5. QED
    BY <1>1, <1>2, <2>4 DEF LinesSoFar
<1>5. QED
  BY <1>3, <1>4, ReportNext

LEMMA LoopsNext ==
  ASSUME IInv, LoopsSoFar, [OptNext]_optVars
  PROVE  LoopsSoFar'
<1>1. F' = F /\ IsCFG(F)
  BY OptIsSearch, FunctionStays DEF IInv, TypeOK
<1>2. RightLines(F)' = RightLines(F)
  BY <1>1, Zenon
<1>3. CASE UNCHANGED countVars
  BY <1>1, <1>2, <1>3 DEF LoopsSoFar, countVars
<1>4. CASE Loops!Analysis
  BY <1>1, <1>2, <1>4, LoopInfoIsNatural DEF LoopsSoFar, Loops!Analysis
<1>5. CASE Loops!NoLoopInside
  BY <1>1, <1>2, <1>5 DEF LoopsSoFar, Loops!NoLoopInside, NaturalLoops
<1>6. CASE Loops!Block
  <2>1. blockAt \in 1..Len(F.blocks) /\ counting = "running"
    BY <1>1, <1>6, BlockCount DEF Loops!Block, LoopsSoFar
  <2>2. F.blocks[blockAt] \in Blocks(F)
    BY <1>1, <2>1, BlockAt
  <2>3. Loops!LinesFor(F.blocks[blockAt]) \in RightLines(F)
    BY <1>1, <2>1, <2>2, LinesForRight DEF LoopsSoFar
  <2>4. report' \in Seq(RightLines(F))
    BY <1>6, <2>3, AppendProperties DEF LoopsSoFar, Loops!Block
  <2>5. QED
    BY <1>1, <1>2, <1>6, <2>4 DEF LoopsSoFar, Loops!Block
<1>7. CASE Loops!BlocksDone
  BY <1>1, <1>2, <1>7 DEF LoopsSoFar, Loops!BlocksDone
<1>8. QED
  BY <1>3, <1>4, <1>5, <1>6, <1>7
     DEF OptNext, optVars, CountLIStep, CFGPathStep, Loops!CountNext

LEMMA OptInvNext == OptInv /\ [OptNext]_optVars => OptInv'
BY OptIsSearch, IInvNext, LinesNext, LoopsNext DEF OptInv

(* The line of a block, once all are out.                                  *)
LEMMA LineOfBlock ==
  ASSUME OptInv, pc = "done", NEW a \in Blocks(F), NEW b \in Blocks(F), a # b,
         Reaches(F, a, b)
  PROVE  b \in LineOf(a)
<1>1. IsCFG(F) /\ Len(lines) = Len(F.blocks)
  <2>1. /\ IsCFG(F) /\ i = Len(F.blocks) + 1 /\ Len(lines) = i - 1
    BY DEF OptInv, IInv, TypeOK, QueryInProgress
  <2>2. QED
    BY <2>1, BlockCount
<1>2. PICK k \in 1..Len(F.blocks) : k = CHOOSE m \in 1..Len(F.blocks) : F.blocks[m] = a
  BY DEF Blocks
<1>3. F.blocks[k] = a
  BY <1>2 DEF Blocks
<1>4. LineOf(a) = Report!ReachableOthers(a)
  BY <1>1, <1>2, <1>3 DEF LineOf, OptInv, LinesSoFar
<1>5. QED
  BY <1>4 DEF Report!ReachableOthers, Report!Blocks, Blocks, Report!Reaches, Reaches,
              Report!ClosedBut, ClosedBut, Report!Succs, Succs

(* What count-li says about loops and what cfg-path says about paths never *)
(* contradict each other, whatever the function.                           *)
THEOREM AnalysesAgree == OptSpec => []LoopsAgreeWithPaths
<1>1. OptInv => LoopsAgreeWithPaths
  <2> SUFFICES ASSUME OptInv, pc = "done" PROVE LoopsAgreeWithPaths
    BY DEF LoopsAgreeWithPaths
  <2>1. ASSUME NEW k \in DOMAIN report, NEW p \in report[k].preheader
        PROVE  LET b == report[k].block
                   header == F.succ[p][1]
               IN  /\ report[k].preheader = {p} /\ p # b
                   /\ b \in LineOf(p)
                   /\ b # header => b \in LineOf(header) /\ header \in LineOf(b)
    <3>1. report[k] \in RightLines(F)
      BY ElementOfSeq DEF OptInv, LoopsSoFar
    <3>2. PICK r \in RightLines(F) : r = report[k]
      BY <3>1
    <3>3. PICK h : h = F.succ[p][1]
      OBVIOUS
    <3>4. /\ r.block \in Blocks(F) /\ p \in Blocks(F) /\ h \in Blocks(F)
          /\ r.preheader = {p} /\ p # r.block
          /\ Reaches(F, p, r.block) /\ Reaches(F, h, r.block) /\ Reaches(F, r.block, h)
      BY <2>1, <3>2, <3>3 DEF RightLines, PreheaderRight
    <3>5. r.block \in LineOf(p)
      BY <3>4, LineOfBlock
    <3>6. r.block # h => r.block \in LineOf(h) /\ h \in LineOf(r.block)
      BY <3>4, LineOfBlock
    <3>7. QED
      BY <3>2, <3>3, <3>4, <3>5, <3>6
  <2>2. noLoop => \A b \in Blocks(F) : Reaches(F, F.blocks[1], b) => b \notin Succs(F, b)
    BY DEF OptInv, LoopsSoFar
  <2>3. QED
    BY <2>1, <2>2 DEF LoopsAgreeWithPaths
<1>2. QED
  BY <1>1, OptInitInv, OptInvNext, PTL DEF OptSpec

================================================================================
