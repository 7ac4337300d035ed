------------------------------ MODULE LLUtilsProofs ----------------------------
(***************************************************************************)
(* Proofs about the queries of LLUtils, for all types, values, functions   *)
(* and constants and either build.  First isIntegerRelatedType: it answers *)
(* for the whole type, also in a table in which structs hold each other    *)
(* (which LLVM forbids; then the recursion does not end, but it never      *)
(* answers wrongly).  Then the queries about pointers and the two walks.   *)
(***************************************************************************)
EXTENDS LLUtils, TLAPS


LEMMA TableFacts ==
  ASSUME table \in TypeTables, NEW t \in Types
  PROVE  /\ Kind(t) \in Kinds
         /\ Elems(t) \in Seq(Types)
         /\ \A k \in 1..Len(Elems(t)) : Elems(t)[k] \in Types
         /\ Kind(t) = "array" => Len(Elems(t)) = 1
<1>1. IsTable(table)
  BY TablesAssumption
<1>2. Elems(t) \in Seq(Types) /\ Kind(t) \in Kinds
  BY <1>1 DEF IsTable, Types, Elems, Kind
<1>3. Kind(t) = "array" => Len(Elems(t)) = 1
  BY <1>1 DEF IsTable, Types, Elems, Kind
<1>4. QED
  BY <1>2, <1>3

(* The related types are together what a related type needs: so being      *)
(* related can be unfolded once, through members and no further.           *)
LEMMA RelatedUnfolds ==
  ASSUME table \in TypeTables, NEW t \in Types
  PROVE  Related(t) <=>
           \/ Kind(t) = "integer"
           \/ Kind(t) = "pointer" /\ Kind(Elems(t)[1]) = "integer"
           \/ /\ Aggregate(t)
              /\ \A k \in 1..Len(Elems(t)) : Related(Elems(t)[k])
<1> DEFINE R == {s \in Types : Related(s)}
<1>1. ASSUME NEW S \in SUBSET Types, \A s \in S : Supported(s, S)
      PROVE  S \subseteq R
  BY <1>1 DEF Related
<1>2. ASSUME NEW s \in R PROVE Supported(s, R)
  <2>1. PICK S \in SUBSET Types : s \in S /\ \A x \in S : Supported(x, S)
    BY DEF Related
  <2>2. Supported(s, S) /\ S \subseteq R
    BY <1>1, <2>1
  <2>3. QED
    BY <2>2 DEF Supported
<1>3. Related(t) => Supported(t, R)
  BY <1>2
<1>4. ASSUME Supported(t, R) PROVE Related(t)
  <2> DEFINE Q == R \cup {t}
  <2>1. \A x \in Q : Supported(x, Q)
    BY <1>2, <1>4 DEF Supported
  <2>2. Q \in SUBSET Types /\ t \in Q
    OBVIOUS
  <2> HIDE DEF Q
  <2>3. QED
    BY <2>1, <2>2 DEF Related
<1>5. \A k \in 1..Len(Elems(t)) : Elems(t)[k] \in R <=> Related(Elems(t)[k])
  BY TableFacts
<1> HIDE DEF R
<1>6. QED
  BY <1>3, <1>4, <1>5 DEF Supported

(* What is related does not depend on the activations.                     *)
LEMMA RelatedStable ==
  ASSUME table' = table
  PROVE  /\ Types' = Types
         /\ \A t : /\ Related(t)' <=> Related(t)
                   /\ Kind(t)' = Kind(t)
                   /\ Elems(t)' = Elems(t)
                   /\ Aggregate(t)' <=> Aggregate(t)
BY DEF Related, Supported, Types, Kind, Elems, Aggregate

LEMMA InitIInv == Init => IInv
<1> SUFFICES ASSUME Init PROVE IInv
  OBVIOUS
<1>1. StackOK
  <2>1. frames = <<>> /\ frames \in Seq(Frame) /\ Len(frames) = 0
    BY DEF Init
  <2>2. table \in TypeTables /\ root \in Types /\ ret \in BOOLEAN /\ pc = "idle"
    BY DEF Init
  <2>3. (1..Len(frames) - 1) = {} /\ (1..Len(frames)) = {}
    BY <2>1
  <2>4. frames = <<>> <=> pc \in {"idle", "done"}
    BY <2>1, <2>2
  <2>5. QED
    BY <2>1, <2>2, <2>3, <2>4 DEF StackOK
<1>2. PassedOverAreRelated
  BY DEF Init, PassedOverAreRelated
<1>3. ReturnedIsRight /\ AnswerIsRight
  BY DEF Init, ReturnedIsRight, AnswerIsRight
<1>4. QED
  BY <1>1, <1>2, <1>3 DEF IInv

(* The activation on top, when there is one.                               *)
LEMMA TopFacts ==
  ASSUME StackOK, frames # <<>>
  PROVE  /\ Len(frames) \in Nat \ {0}
         /\ Top \in Frame
         /\ Top.ty \in Types /\ Top.i \in Nat \ {0}
         /\ \A k \in 1..Len(frames) :
              frames[k] \in Frame /\ frames[k].ty \in Types /\ frames[k].i \in Nat \ {0}
<1>1. frames \in Seq(Frame) /\ Len(frames) \in Nat \ {0}
  BY DEF StackOK
<1>2. \A k \in 1..Len(frames) : frames[k] \in Frame
  BY <1>1
<1>3. QED
  BY <1>1, <1>2 DEF Frame, Top

(* A new activation, for the root or for the member its caller looks at.   *)
LEMMA CallKeepsIInv ==
  ASSUME IInv, NEW t \in Types, Call(t), UNCHANGED <<table, root, ret>>,
         frames = <<>> => t = root,
         frames # <<>> => /\ Aggregate(Top.ty)
                          /\ Top.i <= Len(Elems(Top.ty))
                          /\ t = Elems(Top.ty)[Top.i]
  PROVE  IInv'
<1> DEFINE f == [ty |-> t, i |-> 1]
<1> USE DEF IInv
<1>1. /\ frames \in Seq(Frame) /\ f \in Frame /\ frames' = Append(frames, f)
      /\ pc' = "look"
  BY DEF Call, StackOK, Frame
<1>2. /\ Len(frames') = Len(frames) + 1 /\ Len(frames) \in Nat
      /\ frames' \in Seq(Frame)
      /\ \A k \in 1..Len(frames) : frames'[k] = frames[k]
      /\ frames'[Len(frames) + 1] = f
  BY <1>1
<1> HIDE DEF f
<1>3. f.ty = t /\ f.i = 1
  BY DEF f
<1>4. StackOK'
  <2>1. /\ table' \in TypeTables /\ root' \in Types' /\ ret' \in BOOLEAN
        /\ Frame' = Frame /\ frames' # <<>>
    <3>1. Types' = Types
      BY RelatedStable
    <3>2. table' \in TypeTables /\ root' \in Types' /\ ret' \in BOOLEAN
      BY <3>1 DEF StackOK
    <3>3. Frame' = Frame
      BY <3>1 DEF Frame
    <3>4. frames' # <<>>
      BY <1>2
    <3>5. QED
      BY <3>2, <3>3, <3>4
  <2>2. frames'[1].ty = root'
    <3>1. CASE frames = <<>>
      BY <1>2, <1>3, <3>1
    <3>2. CASE frames # <<>>
      BY <1>1, <1>2, <3>2, TopFacts DEF StackOK
    <3>3. QED
      BY <3>1, <3>2
  <2>3. \A k \in 1..Len(frames') - 1 :
          /\ Aggregate(frames'[k].ty)
          /\ frames'[k].i <= Len(Elems(frames'[k].ty))
          /\ frames'[k + 1].ty = Elems(frames'[k].ty)[frames'[k].i]
    <3> TAKE k \in 1..Len(frames') - 1
    <3>1. CASE k = Len(frames)
      <4>1. frames # <<>> /\ frames'[k] = Top /\ frames'[k + 1] = f
        BY <1>1, <1>2, <3>1 DEF Top
      <4>2. QED
        BY <1>3, <4>1
    <3>2. CASE k \in 1..Len(frames) - 1
      BY <1>2, <3>2 DEF StackOK
    <3>3. QED
      BY <1>2, <3>1, <3>2
  <2>4. \A k \in 1..Len(frames') : Kind(frames'[k].ty) = "array" => frames'[k].i = 1
    <3> TAKE k \in 1..Len(frames')
    <3>1. CASE k = Len(frames) + 1
      BY <1>2, <1>3, <3>1
    <3>2. CASE k \in 1..Len(frames)
      BY <1>2, <3>2 DEF StackOK
    <3>3. QED
      BY <1>2, <3>1, <3>2
  <2>5. QED
    BY <1>1, <1>2, <2>1, <2>2, <2>3, <2>4, RelatedStable, SMTT(30) DEF StackOK
<1>5. PassedOverAreRelated'
  <2>1. \A k \in 1..Len(frames') : \A m \in 1..frames'[k].i - 1 :
          m <= Len(Elems(frames'[k].ty)) /\ Related(Elems(frames'[k].ty)[m])
    <3> TAKE k \in 1..Len(frames')
    <3>1. CASE k = Len(frames) + 1
      BY <1>2, <1>3, <3>1
    <3>2. CASE k \in 1..Len(frames)
      BY <1>2, <3>2 DEF PassedOverAreRelated
    <3>3. QED
      BY <1>2, <3>1, <3>2
  <2>2. QED
    BY <2>1, RelatedStable DEF PassedOverAreRelated
<1>6. ReturnedIsRight' /\ AnswerIsRight'
  BY <1>1 DEF ReturnedIsRight, AnswerIsRight
<1>7. QED
  BY <1>4, <1>5, <1>6

(* A value returned for the type on top.                                   *)
LEMMA ReturnKeepsIInv ==
  ASSUME IInv, pc = "look", NEW value \in BOOLEAN, Return(value),
         value <=> Related(Top.ty), UNCHANGED <<table, root, frames>>
  PROVE  IInv'
<1> USE DEF IInv
<1>1. pc' = "return" /\ ret' = value /\ frames # <<>>
  BY DEF Return, StackOK
<1>2. StackOK'
  BY <1>1, RelatedStable DEF StackOK, Frame
<1>3. PassedOverAreRelated'
  BY RelatedStable DEF PassedOverAreRelated
<1>4. ReturnedIsRight' /\ AnswerIsRight'
  BY <1>1, RelatedStable DEF ReturnedIsRight, AnswerIsRight, Top
<1>5. QED
  BY <1>2, <1>3, <1>4

(* The activation on top is over; its caller goes on as `caller`.          *)
LEMMA PopFacts ==
  ASSUME StackOK, Len(frames) > 1
  PROVE  /\ Len(frames) - 1 \in Nat \ {0}
         /\ Below \in Seq(Frame) /\ Len(Below) = Len(frames) - 1
         /\ \A k \in 1..Len(frames) - 1 : Below[k] = frames[k]
         /\ Caller = frames[Len(frames) - 1] /\ Caller \in Frame
         /\ Caller.ty \in Types /\ Caller.i \in Nat \ {0}
         /\ Aggregate(Caller.ty)
         /\ Caller.i <= Len(Elems(Caller.ty))
         /\ Top.ty = Elems(Caller.ty)[Caller.i]
         /\ Kind(Caller.ty) = "array" => Caller.i = 1
<1>1. frames \in Seq(Frame) /\ Len(frames) \in Nat
  BY DEF StackOK
<1>2. Len(frames) - 1 \in 1..Len(frames) - 1 /\ Len(frames) - 1 \in 1..Len(frames)
  BY <1>1
<1>3. /\ Below \in Seq(Frame) /\ Len(Below) = Len(frames) - 1
      /\ \A k \in 1..Len(frames) - 1 : Below[k] = frames[k]
  BY <1>1 DEF Below
<1>4. /\ Aggregate(Caller.ty)
      /\ Caller.i <= Len(Elems(Caller.ty))
      /\ Top.ty = Elems(Caller.ty)[Caller.i]
      /\ Kind(Caller.ty) = "array" => Caller.i = 1
  BY <1>1, <1>2 DEF StackOK, Caller, Top
<1>5. Caller = frames[Len(frames) - 1] /\ Caller \in Frame
  BY <1>1, <1>2 DEF Caller
<1>6. Caller.ty \in Types /\ Caller.i \in Nat \ {0}
  BY <1>5 DEF Frame
<1>7. QED
  BY <1>1, <1>2, <1>3, <1>4, <1>5, <1>6

LEMMA PassUpKeepsIInv ==
  ASSUME IInv, PassUp
  PROVE  IInv'
<1> USE DEF IInv
<1>1. /\ pc = "return" /\ pc' = "return" /\ Len(frames) > 1 /\ frames' = Below
      /\ Kind(Caller.ty) = "array" \/ ~ ret
      /\ UNCHANGED <<table, root, ret>>
  BY DEF PassUp
<1>2. table \in TypeTables /\ Len(frames) \in Nat
  BY DEF StackOK
<1>3. StackOK'
  <2>1. Len(frames') = Len(frames) - 1 /\ Len(frames') >= 1
    BY <1>1, <1>2, PopFacts
  <2>2. /\ frames' \in Seq(Frame) /\ frames' # <<>>
        /\ \A k \in 1..Len(frames') : frames'[k] = frames[k]
    BY <1>1, <2>1, PopFacts
  <2>3. Types' = Types /\ Frame' = Frame
    BY <1>1, RelatedStable DEF Frame
  <2>4. \A k \in 1..Len(frames') : k \in 1..Len(frames) - 1 /\ k \in 1..Len(frames)
    BY <1>2, <2>1
  <2>5. /\ frames'[1].ty = root'
        /\ \A k \in 1..Len(frames') - 1 :
             /\ Aggregate(frames'[k].ty)
             /\ frames'[k].i <= Len(Elems(frames'[k].ty))
             /\ frames'[k + 1].ty = Elems(frames'[k].ty)[frames'[k].i]
        /\ \A k \in 1..Len(frames') :
             Kind(frames'[k].ty) = "array" => frames'[k].i = 1
    <3>1. frames'[1] = frames[1] /\ frames # <<>> /\ root' = root
      BY <1>1, <1>2, <2>1, <2>2
    <3>2. \A k \in 1..Len(frames') - 1 :
            /\ k \in 1..Len(frames) - 1
            /\ frames'[k] = frames[k] /\ frames'[k + 1] = frames[k + 1]
      BY <1>2, <2>1, <2>2
    <3>3. QED
      BY <2>2, <2>4, <3>1, <3>2 DEF StackOK
  <2>6. table' \in TypeTables /\ root' \in Types' /\ ret' \in BOOLEAN
    BY <1>1, <2>3 DEF StackOK
  <2>7. QED
    BY <1>1, <2>2, <2>3, <2>5, <2>6, RelatedStable DEF StackOK
<1>4. PassedOverAreRelated'
  <2>1. \A k \in 1..Len(frames') : k \in 1..Len(frames) /\ frames'[k] = frames[k]
    BY <1>1, <1>2, PopFacts
  <2>2. QED
    BY <1>1, <2>1, RelatedStable DEF PassedOverAreRelated
<1>5. ReturnedIsRight'
  <2>1. ret <=> Related(Elems(Caller.ty)[Caller.i])
    BY <1>1, PopFacts DEF ReturnedIsRight
  <2>2. Caller.i \in 1..Len(Elems(Caller.ty))
    BY <1>1, PopFacts
  <2>3. ret <=> Related(Caller.ty)
    <3>1. Related(Caller.ty) =>
            \A k \in 1..Len(Elems(Caller.ty)) : Related(Elems(Caller.ty)[k])
      BY <1>1, <1>2, PopFacts, RelatedUnfolds DEF Aggregate
    <3>2. CASE ~ ret
      BY <2>1, <2>2, <3>1, <3>2
    <3>3. CASE ret
      <4>1. Kind(Caller.ty) = "array" /\ Caller.i = 1
        BY <1>1, <3>3, PopFacts
      <4>2. Len(Elems(Caller.ty)) = 1
        BY <1>1, <1>2, <4>1, PopFacts, TableFacts
      <4>3. \A k \in 1..Len(Elems(Caller.ty)) : Related(Elems(Caller.ty)[k])
        BY <2>1, <3>3, <4>1, <4>2
      <4>4. QED
        BY <1>1, <1>2, <3>3, <4>3, PopFacts, RelatedUnfolds
    <3>4. QED
      BY <3>2, <3>3
  <2>4. Top' = Caller
    BY <1>1, <1>2, PopFacts DEF Top
  <2>5. QED
    BY <1>1, <2>3, <2>4, RelatedStable DEF ReturnedIsRight
<1>6. AnswerIsRight'
  BY <1>1 DEF AnswerIsRight
<1>7. QED
  BY <1>3, <1>4, <1>5, <1>6

LEMMA NextMemberKeepsIInv ==
  ASSUME IInv, NextMember
  PROVE  IInv'
<1> USE DEF IInv
<1> DEFINE n == Len(frames) - 1
           f == [Caller EXCEPT !.i = @ + 1]
<1>1. /\ pc = "return" /\ pc' = "look" /\ Len(frames) > 1 /\ ret
      /\ Kind(Caller.ty) = "struct"
      /\ frames' = [Below EXCEPT ![n].i = @ + 1]
      /\ UNCHANGED <<table, root, ret>>
  BY DEF NextMember
<1>2. table \in TypeTables /\ Len(frames) \in Nat
  BY DEF StackOK
<1>3. f \in Frame /\ f.ty = Caller.ty /\ f.i = Caller.i + 1
  <2>1. Caller \in [ty : Types, i : Nat \ {0}]
    BY <1>1, PopFacts DEF Frame
  <2>2. f.ty = Caller.ty /\ f.i = Caller.i + 1
    BY <2>1
  <2>3. f \in [ty : Types, i : Nat \ {0}]
    BY <2>1
  <2>4. QED
    BY <2>2, <2>3 DEF Frame
<1>4. /\ frames' \in Seq(Frame) /\ Len(frames') = n
      /\ frames'[n] = f
      /\ \A k \in 1..n - 1 : frames'[k] = frames[k]
  <2>1. n \in 1..Len(Below) /\ Below[n] = Caller
    BY <1>1, <1>2, PopFacts
  <2>2. frames' = [Below EXCEPT ![n] = f]
    BY <1>1, <2>1
  <2> HIDE DEF f
  <2>3. frames' \in Seq(Frame) /\ Len(frames') = Len(Below) /\ frames'[n] = f
    BY <1>1, <1>3, <2>1, <2>2, PopFacts
  <2>4. \A k \in 1..n - 1 : frames'[k] = Below[k]
    BY <1>1, <1>2, <2>2, PopFacts
  <2>5. QED
    BY <1>1, <1>2, <2>3, <2>4, PopFacts
<1>5. n \in Nat \ {0}
  BY <1>1, PopFacts
<1> HIDE DEF f, n
<1>6. StackOK'
  <2>1. Types' = Types /\ Frame' = Frame
    BY <1>1, RelatedStable DEF Frame
  <2>2. \A k \in 1..n : frames'[k].ty = frames[k].ty
    BY <1>1, <1>3, <1>4, PopFacts DEF n
  <2>3. frames'[1].ty = root' /\ frames' # <<>>
    BY <1>1, <1>4, <1>5, <2>2 DEF StackOK
  <2>4. \A k \in 1..n - 1 :
          /\ Aggregate(frames'[k].ty)
          /\ frames'[k].i <= Len(Elems(frames'[k].ty))
          /\ frames'[k + 1].ty = Elems(frames'[k].ty)[frames'[k].i]
    <3>1. \A k \in 1..n - 1 :
            /\ k \in 1..Len(frames) - 1
            /\ frames'[k] = frames[k] /\ frames'[k + 1].ty = frames[k + 1].ty
      <4>1. \A k \in 1..n - 1 : k \in 1..n /\ k + 1 \in 1..n
        BY <1>5
      <4>2. \A k \in 1..n - 1 : k \in 1..Len(frames) - 1
        BY <1>2, <1>5 DEF n
      <4>3. QED
        BY <1>4, <2>2, <4>1, <4>2
    <3>2. QED
      BY <3>1 DEF StackOK
  <2>5. \A k \in 1..n : Kind(frames'[k].ty) = "array" => frames'[k].i = 1
    <3> TAKE k \in 1..n
    <3>1. CASE k = n
      BY <1>1, <1>3, <1>4, <3>1
    <3>2. CASE k # n
      <4>1. k \in 1..n - 1
        BY <1>5, <3>2
      <4>2. k \in 1..Len(frames)
        BY <1>2, <1>5 DEF n
      <4>3. QED
        BY <1>4, <4>1, <4>2 DEF StackOK
    <3>3. QED
      BY <3>1, <3>2
  <2>6. table' \in TypeTables /\ root' \in Types' /\ ret' \in BOOLEAN
    BY <1>1, <2>1 DEF StackOK
  <2>7. QED
    BY <1>1, <1>4, <2>1, <2>3, <2>4, <2>5, <2>6, RelatedStable DEF StackOK
<1>7. PassedOverAreRelated'
  <2>1. \A k \in 1..n : \A m \in 1..frames'[k].i - 1 :
          m <= Len(Elems(frames'[k].ty)) /\ Related(Elems(frames'[k].ty)[m])
    <3> TAKE k \in 1..n
    <3> TAKE m \in 1..frames'[k].i - 1
    <3>1. CASE k # n
      BY <1>2, <1>4, <1>5, <3>1 DEF PassedOverAreRelated, n
    <3>2. CASE k = n
      <4>1. frames'[k].ty = Caller.ty /\ m \in 1..Caller.i
        BY <1>1, <1>3, <1>4, <3>2, PopFacts
      <4>2. CASE m = Caller.i
        BY <1>1, <4>1, <4>2, PopFacts DEF ReturnedIsRight
      <4>3. CASE m \in 1..Caller.i - 1
        <5>1. n \in 1..Len(frames) /\ frames[n] = Caller
          BY <1>1, <1>2, <1>5, PopFacts DEF n
        <5>2. QED
          BY <4>1, <4>3, <5>1 DEF PassedOverAreRelated
      <4>4. QED
        BY <1>1, <4>1, <4>2, <4>3, PopFacts
    <3>3. QED
      BY <3>1, <3>2
  <2>2. QED
    BY <1>1, <1>4, <2>1, RelatedStable DEF PassedOverAreRelated
<1>8. ReturnedIsRight' /\ AnswerIsRight'
  BY <1>1 DEF ReturnedIsRight, AnswerIsRight
<1>9. QED
  BY <1>6, <1>7, <1>8

LEMMA NextIInv ==
  ASSUME IInv, [Next]_vars
  PROVE  IInv'
<1> USE DEF IInv
<1>0. table \in TypeTables /\ root \in Types
  BY DEF StackOK
<1>1. CASE Ask
  <2>1. frames = <<>>
    BY <1>1 DEF Ask, StackOK
  <2>2. QED
    BY <1>0, <1>1, <2>1, CallKeepsIInv DEF Ask
<1>2. ASSUME pc = "look"
      PROVE  frames # <<>> /\ Top.ty \in Types /\ Top.i \in Nat \ {0}
  BY <1>2, TopFacts DEF StackOK
<1>3. CASE Pointer
  <2>1. Related(Top.ty) <=> Kind(Elems(Top.ty)[1]) = "integer"
    BY <1>0, <1>2, <1>3, RelatedUnfolds DEF Pointer, Aggregate
  <2>2. QED
    BY <1>3, <2>1, ReturnKeepsIInv DEF Pointer
<1>4. CASE Leaf
  <2>1. Related(Top.ty) <=> Kind(Top.ty) = "integer"
    BY <1>0, <1>2, <1>4, RelatedUnfolds DEF Leaf, Aggregate
  <2>2. QED
    BY <1>4, <2>1, ReturnKeepsIInv DEF Leaf
<1>5. CASE Element
  <2>1. Elems(Top.ty)[Top.i] \in Types
    BY <1>0, <1>2, <1>5, TableFacts DEF Element
  <2>2. QED
    BY <1>2, <1>5, <2>1, CallKeepsIInv DEF Element
<1>6. CASE AllMembers
  <2>1. \A k \in 1..Len(Elems(Top.ty)) : Related(Elems(Top.ty)[k])
    <3>1. Len(Elems(Top.ty)) \in Nat
      BY <1>0, <1>2, <1>6, TableFacts DEF AllMembers
    <3>2. Len(frames) \in 1..Len(frames)
      BY <1>2, <1>6, TopFacts DEF AllMembers
    <3>3. \A m \in 1..Top.i - 1 : Related(Elems(Top.ty)[m])
      BY <3>2 DEF PassedOverAreRelated, Top
    <3>4. \A k \in 1..Len(Elems(Top.ty)) : k \in 1..Top.i - 1
      BY <1>2, <1>6, <3>1 DEF AllMembers
    <3>5. QED
      BY <3>3, <3>4
  <2>2. Related(Top.ty)
    BY <1>0, <1>2, <1>6, <2>1, RelatedUnfolds DEF AllMembers, Aggregate
  <2>3. QED
    BY <1>6, <2>2, ReturnKeepsIInv DEF AllMembers
<1>7. CASE Answer
  <2>1. Len(frames) = 1 /\ frames \in Seq(Frame) /\ pc = "return"
    BY <1>7 DEF Answer, StackOK
  <2>2. frames # <<>> /\ Top.ty = root
    BY <2>1 DEF StackOK, Top
  <2>3. ret <=> Related(root)
    BY <2>1, <2>2 DEF ReturnedIsRight
  <2>4. /\ frames' = <<>> /\ frames' \in Seq(Frame) /\ Len(frames') = 0
        /\ pc' = "done" /\ UNCHANGED <<table, root, ret>>
    BY <1>7 DEF Answer
  <2>5. /\ table' \in TypeTables /\ root' \in Types' /\ ret' \in BOOLEAN
        /\ Frame' = Frame
    <3>1. Types' = Types
      BY <2>4, RelatedStable
    <3>2. QED
      BY <2>4, <3>1 DEF StackOK, Frame
  <2>6. (1..Len(frames') - 1) = {} /\ (1..Len(frames')) = {}
    BY <2>4
  <2>7. frames' = <<>> <=> pc' \in {"idle", "done"}
    BY <2>4
  <2>8. StackOK'
    BY <2>4, <2>5, <2>6, <2>7 DEF StackOK
  <2>9. PassedOverAreRelated' /\ ReturnedIsRight'
    BY <2>4, <2>6 DEF PassedOverAreRelated, ReturnedIsRight
  <2>10. AnswerIsRight'
    BY <2>3, <2>4, RelatedStable DEF AnswerIsRight
  <2>11. QED
    BY <2>8, <2>9, <2>10
<1>8. CASE UNCHANGED vars
  <2>1. UNCHANGED <<table, root, frames, ret, pc>>
    BY <1>8 DEF vars
  <2>2. Types' = Types /\ Frame' = Frame /\ Top' = Top
    BY <2>1, RelatedStable DEF Frame, Top
  <2>3. StackOK'
    BY <2>1, <2>2, RelatedStable DEF StackOK
  <2>4. PassedOverAreRelated'
    BY <2>1, RelatedStable DEF PassedOverAreRelated
  <2>5. ReturnedIsRight' /\ AnswerIsRight'
    BY <2>1, <2>2, RelatedStable DEF ReturnedIsRight, AnswerIsRight
  <2>6. QED
    BY <2>3, <2>4, <2>5
<1>9. QED
  BY <1>1, <1>3, <1>4, <1>5, <1>6, <1>7, <1>8, PassUpKeepsIInv,
     NextMemberKeepsIInv DEF Next

(* The inductive invariant, of every context of types.                     *)
THEOREM RecursionInvariant == Spec => []IInv
BY InitIInv, NextIInv, PTL DEF Spec

(* isIntegerRelatedType answers TRUE exactly for what is made of integers  *)
(* and pointers to integers, however deep structs and arrays nest, and     *)
(* although it stops at pointers and at the first member that is not.      *)
THEOREM AnswersForTheWholeType == Spec => []AnswerIsRight
<1>1. IInv => AnswerIsRight
  BY DEF IInv
<1>2. QED
  BY <1>1, RecursionInvariant, PTL

--------------------------------------------------------------------------------
(* One question after the other *)

(* A client asks isIntegerRelatedType the way its module says.             *)
LEMMA UtilsRefines ==
  /\ UtilsInit => Init
  /\ [UtilsNext]_utilsVars => [Next]_vars
<1>1. UtilsInit => Init
  BY DEF UtilsInit
<1>2. [UtilsNext]_utilsVars => [Next]_vars
  BY DEF UtilsNext, utilsVars, ValueQuery, IsGlobalPointerInit, isInst_mem_ops,
     callToVoidFunction, getCalleeFnType, is_inlineAsm_withSideEffect,
     getFunctionEntry, IsPointerManipulation, Strip, Stripped, Collect, NextBlock,
     Collected, PositionQuery, isLocalToFunction, isIntegerRelatedType, Answered,
     YesOrNo, Say, GivePointee, PointeeOf
<1>3. QED
  BY <1>1, <1>2

(* The queries of a library about types: whatever else a client asks, what *)
(* isIntegerRelatedType answers is right.                                  *)
THEOREM AnswersClients == UtilsSpec => []AnswerIsRight
<1>1. UtilsSpec => Spec
  BY UtilsRefines, PTL DEF UtilsSpec, Spec
<1>2. QED
  BY <1>1, AnswersForTheWholeType, PTL

(* The question stays; what it is about is of its kind.                    *)
Asked ==
  /\ question.op \in {"isPointerValue", "isPointerToPointerValue", "getPointedType"}
       => About \in Values
  /\ question.op = "isPointerManipulation" => About \in Instructions
  /\ question.op = "getAssertCallSite" => About \in Bodies

(* What has been answered is what the query computes.                      *)
Computed ==
  answer # "none" =>
    /\ question.op = "isPointerValue" =>
         answer = IF isPointerValue(About) THEN "yes" ELSE "no"
    /\ question.op = "isPointerToPointerValue" =>
         answer \in isPointerToPointerValue(About)
    /\ question.op = "getPointedType" =>
         IF IsPointer(Pointed(About))
         THEN answer = "type" /\ result = Pointee(Pointed(About))
         ELSE answer = "dies" \/ (~ Asserts /\ result = Garbage)
    /\ question.op = "isPointerManipulation" =>
         answer = isPointerManipulation(About)

(* What has been stripped was not to be kept.                              *)
StrippedSoFar ==
  question.op = "elimConstExpr" =>
    /\ at \in {1} \X (Nat \ {0})
    /\ Asserts => \A k \in 1..at[2] - 1 : About[k] \in Strippable
    /\ answer = "value" => Kept(About[at[2]])

(* What has been collected is what lies behind.                            *)
CollectedSoFar ==
  question.op = "getAssertCallSite" =>
    /\ at \in (Nat \ {0}) \X (Nat \ {0})
    /\ found \in Seq((Nat \ {0}) \X (Nat \ {0}))
    /\ {found[k] : k \in DOMAIN found} = {p \in AssertSites(About) : Before(p, at)}
    /\ \A k, m \in DOMAIN found : k < m => Before(found[k], found[m])
    /\ answer = "list" => at[1] > Len(About)

ListIsOfSites == answer = "list" => question.op = "getAssertCallSite"

UtilsInv == Asked /\ Computed /\ StrippedSoFar /\ CollectedSoFar /\ ListIsOfSites

USE DEF About

LEMMA UtilsInvInit == UtilsInit => UtilsInv
<1> SUFFICES ASSUME UtilsInit PROVE UtilsInv
  OBVIOUS
<1>1. answer = "none" /\ at = <<1, 1>> /\ found = <<>>
  BY DEF UtilsInit
<1>2. question = [op |-> "isIntegerRelatedType", about |-> <<>>]
      \/ question \in Questions
  BY DEF UtilsInit
<1>3. Asked
  <2>1. CASE question = [op |-> "isIntegerRelatedType", about |-> <<>>]
    BY <2>1 DEF Asked
  <2>2. CASE question \in Questions
    BY <2>2 DEF Asked, Questions, ValueOps, CallOps
  <2>3. QED
    BY <1>2, <2>1, <2>2
<1>4. Computed /\ ListIsOfSites
  BY <1>1 DEF Computed, ListIsOfSites
<1>5. StrippedSoFar
  BY <1>1 DEF StrippedSoFar
<1>6. CollectedSoFar
  <2> SUFFICES ASSUME question.op = "getAssertCallSite" PROVE CollectedSoFar
    BY DEF CollectedSoFar
  <2>1. {p \in AssertSites(About) : Before(p, at)} = {}
    <3>1. SUFFICES ASSUME NEW p \in AssertSites(About) PROVE ~ Before(p, <<1, 1>>)
      BY <1>1
    <3>2. /\ DOMAIN About \subseteq Nat \ {0}
          /\ \A b \in DOMAIN About : DOMAIN About[b] \subseteq Nat \ {0}
      <4>1. About \in Seq(Seq(STRING))
        BY <1>3, BodiesAssumption DEF Asked
      <4>2. QED
        BY <4>1
    <3>3. p[1] \in Nat \ {0} /\ p[2] \in Nat \ {0}
      BY <3>2 DEF AssertSites
    <3>4. QED
      BY <3>3 DEF Before
  <2>2. DOMAIN found = {} /\ found \in Seq((Nat \ {0}) \X (Nat \ {0}))
    BY <1>1
  <2>3. {found[k] : k \in DOMAIN found} = {}
    BY <2>2
  <2>4. \A k, m \in DOMAIN found : k < m => Before(found[k], found[m])
    BY <2>2
  <2>5. at \in (Nat \ {0}) \X (Nat \ {0})
    BY <1>1
  <2>6. QED
    BY <1>1, <2>1, <2>2, <2>3, <2>4, <2>5 DEF CollectedSoFar
<1>7. QED
  BY <1>3, <1>4, <1>5, <1>6 DEF UtilsInv

(* A step that gives another answer than the list leaves the walks alone.  *)
LEMMA JustSaid ==
  ASSUME UtilsInv, NEW word, Say(word), Computed',
         question.op # "elimConstExpr", question.op # "getAssertCallSite",
         word # "list"
  PROVE  UtilsInv'
<1>1. UNCHANGED <<question, at, found, result>> /\ answer' = word
  BY DEF Say
<1>2. Asked' /\ StrippedSoFar' /\ CollectedSoFar' /\ ListIsOfSites'
  BY <1>1 DEF UtilsInv, Asked, StrippedSoFar, CollectedSoFar, ListIsOfSites
<1>3. QED
  BY <1>2 DEF UtilsInv

(* The question is another than the four about pointers.                   *)
LEMMA OtherQuestion ==
  ASSUME question' = question,
         question.op \notin {"isPointerValue", "isPointerToPointerValue",
                             "getPointedType", "isPointerManipulation"}
  PROVE  Computed'
BY DEF Computed

LEMMA ValueQueryStep ==
  ASSUME UtilsInv, ValueQuery
  PROVE  UtilsInv'
<1>1. CASE Pending("isTrivialPointer") \/ Pending("isConstantValue")
  <2>1. Say("yes") \/ Say("no")
    BY <1>1 DEF ValueQuery, Pending, YesOrNo
  <2>2. Computed'
    BY <1>1, <2>1, OtherQuestion DEF Pending, Say
  <2>3. QED
    BY <1>1, <2>1, <2>2, JustSaid DEF Pending
<1>2. CASE Pending("isPointerValue")
  <2>1. Say(IF isPointerValue(About) THEN "yes" ELSE "no")
    BY <1>2 DEF ValueQuery, Pending, YesOrNo
  <2>2. Computed'
    BY <1>2, <2>1 DEF Pending, Say, Computed
  <2>3. QED
    BY <1>2, <2>1, <2>2, JustSaid DEF Pending
<1>3. CASE Pending("isPointerToPointerValue")
  <2>1. PICK word \in isPointerToPointerValue(About) : Say(word)
    BY <1>3 DEF ValueQuery, Pending, YesOrNo
  <2>2. Computed'
    BY <1>3, <2>1 DEF Pending, Say, Computed
  <2>3. word # "list"
    BY DEF isPointerToPointerValue, Undefined
  <2>4. QED
    BY <1>3, <2>1, <2>2, <2>3, JustSaid DEF Pending
<1>4. CASE Pending("getPointedType")
  <2>1. GivePointee(Pointed(About))
    BY <1>4 DEF ValueQuery, Pending, YesOrNo
  <2>2. UNCHANGED <<question, at, found>> /\ answer' \in {"type", "dies"}
    BY <2>1 DEF GivePointee, PointeeOf, Say
  <2>3. Computed'
    BY <1>4, <2>1, <2>2 DEF Pending, Computed, GivePointee, PointeeOf, Say
  <2>4. Asked' /\ StrippedSoFar' /\ CollectedSoFar' /\ ListIsOfSites'
    BY <1>4, <2>2 DEF Pending, UtilsInv, Asked, StrippedSoFar, CollectedSoFar,
       ListIsOfSites
  <2>5. QED
    BY <2>3, <2>4 DEF UtilsInv
<1>5. QED
  BY <1>1, <1>2, <1>3, <1>4 DEF ValueQuery

LEMMA StripStep ==
  ASSUME UtilsInv, Strip \/ Stripped
  PROVE  UtilsInv'
<1>1. /\ question.op = "elimConstExpr" /\ question' = question
      /\ answer = "none" /\ found' = found
  BY DEF Strip, Stripped, Pending, Say
<1>2. /\ at \in {1} \X (Nat \ {0})
      /\ Asserts => \A k \in 1..at[2] - 1 : About[k] \in Strippable
  BY <1>1 DEF UtilsInv, StrippedSoFar
<1>3. Asked' /\ Computed' /\ CollectedSoFar'
  BY <1>1, OtherQuestion DEF UtilsInv, Asked, CollectedSoFar
<1>4. StrippedSoFar' /\ ListIsOfSites'
  <2>1. CASE Stripped
    <3>1. at' = at /\ answer' = "value" /\ Kept(About[at[2]])
      BY <2>1 DEF Stripped, Say
    <3>2. QED
      BY <1>1, <1>2, <3>1 DEF StrippedSoFar, ListIsOfSites
  <2>2. CASE Strip /\ answer' = "dies" /\ at' = at
    BY <1>1, <1>2, <2>2 DEF StrippedSoFar, ListIsOfSites
  <2>3. CASE Strip /\ ~ (answer' = "dies" /\ at' = at)
    <3>1. /\ at' = <<1, at[2] + 1>> /\ answer' = answer
          /\ Asserts => About[at[2]] \in Strippable
      BY <2>3 DEF Strip
    <3>2. at' \in {1} \X (Nat \ {0}) /\ at'[2] - 1 = at[2] /\ at[2] \in Nat \ {0}
      BY <1>2, <3>1
    <3>3. Asserts => \A k \in 1..at[2] : About[k] \in Strippable
      BY <1>2, <3>1, <3>2
    <3>4. QED
      BY <1>1, <3>1, <3>2, <3>3 DEF StrippedSoFar, ListIsOfSites
  <2>4. QED
    BY <2>1, <2>2, <2>3
<1>5. QED
  BY <1>3, <1>4 DEF UtilsInv

(* The positions of a body, and those before the next one.                 *)
LEMMA SitesAre ==
  ASSUME NEW body \in Bodies
  PROVE  /\ Len(body) \in Nat
         /\ \A b \in 1..Len(body) : Len(body[b]) \in Nat
         /\ \A p : p \in AssertSites(body) <=>
              \E b \in 1..Len(body) : \E n \in 1..Len(body[b]) :
                p = <<b, n>> /\ body[b][n] = "__assert_fail"
<1>1. body \in Seq(Seq(STRING))
  BY BodiesAssumption
<1>2. Len(body) \in Nat /\ DOMAIN body = 1..Len(body)
  BY <1>1
<1>3. \A b \in 1..Len(body) :
        Len(body[b]) \in Nat /\ DOMAIN body[b] = 1..Len(body[b])
  BY <1>1
<1>4. ASSUME NEW p
      PROVE  p \in AssertSites(body) <=>
              \E b \in 1..Len(body) : \E n \in 1..Len(body[b]) :
                p = <<b, n>> /\ body[b][n] = "__assert_fail"
  BY <1>2, <1>3 DEF AssertSites
<1>5. QED
  BY <1>2, <1>3, <1>4

LEMMA CollectStep ==
  ASSUME UtilsInv, Collect \/ NextBlock \/ Collected
  PROVE  UtilsInv'
<1>1. /\ question.op = "getAssertCallSite" /\ question' = question
      /\ answer = "none" /\ About \in Bodies
  BY DEF UtilsInv, Asked, Collect, NextBlock, Collected, Pending, Say
<1>2. PICK body \in Bodies : body = About
  BY <1>1
<1>3. PICK b, n \in Nat \ {0} : at = <<b, n>>
  BY <1>1 DEF UtilsInv, CollectedSoFar
<1>4. /\ found \in Seq((Nat \ {0}) \X (Nat \ {0}))
      /\ {found[k] : k \in DOMAIN found} = {p \in AssertSites(body) : Before(p, at)}
      /\ \A k, m \in DOMAIN found : k < m => Before(found[k], found[m])
  BY <1>1, <1>2 DEF UtilsInv, CollectedSoFar
<1>5. Asked' /\ Computed' /\ StrippedSoFar'
  BY <1>1, OtherQuestion DEF UtilsInv, Asked, StrippedSoFar
<1>6. ListIsOfSites'
  BY <1>1 DEF ListIsOfSites
<1>7. InBody <=> b <= Len(body)
  BY <1>2, <1>3 DEF InBody
<1>8. InBlock <=> b <= Len(body) /\ n <= Len(body[b])
  BY <1>2, <1>3, <1>7 DEF InBlock
<1>9. CollectedSoFar'
  <2>1. CASE Collected
    <3>1. at' = at /\ found' = found /\ b > Len(body)
      BY <1>7, <2>1, SitesAre DEF Collected, Say
    <3>2. QED
      BY <1>1, <1>2, <1>3, <1>4, <3>1 DEF CollectedSoFar
  <2>2. CASE NextBlock
    <3>1. /\ at' = <<b + 1, 1>> /\ found' = found /\ answer' = "none"
          /\ b <= Len(body) /\ ~ (n <= Len(body[b]))
      BY <1>1, <1>3, <1>7, <1>8, <2>2 DEF NextBlock
    <3>2. ASSUME NEW p \in AssertSites(body)
          PROVE  Before(p, at') <=> Before(p, at)
      <4>0. PICK c \in 1..Len(body) : \E i \in 1..Len(body[c]) : p = <<c, i>>
        BY SitesAre
      <4>1. PICK i \in 1..Len(body[c]) : p = <<c, i>>
        BY <4>0
      <4>2. Len(body) \in Nat /\ Len(body[c]) \in Nat /\ Len(body[b]) \in Nat
        BY <3>1, SitesAre
      <4>3. Before(p, at') <=> c < b + 1
        BY <3>1, <4>1, <4>2 DEF Before
      <4>4. Before(p, at) <=> c < b \/ (c = b /\ i < n)
        BY <1>3, <4>1 DEF Before
      <4>5. c = b => i < n
        BY <3>1, <4>1, <4>2
      <4>6. QED
        BY <4>1, <4>2, <4>3, <4>4, <4>5
    <3>3. {p \in AssertSites(body) : Before(p, at')} =
            {p \in AssertSites(body) : Before(p, at)}
      BY <3>2
    <3>4. at' \in (Nat \ {0}) \X (Nat \ {0})
      BY <3>1
    <3>5. QED
      BY <1>1, <1>2, <1>4, <3>1, <3>3, <3>4 DEF CollectedSoFar
  <2>3. CASE Collect
    <3>1. /\ at' = <<b, n + 1>> /\ answer' = "none"
          /\ b \in 1..Len(body) /\ n \in 1..Len(body[b])
          /\ found' = IF body[b][n] = "__assert_fail" THEN Append(found, at)
                      ELSE found
      BY <1>1, <1>2, <1>3, <1>8, <2>3, SitesAre DEF Collect
    <3>2. ASSUME NEW p \in AssertSites(body)
          PROVE  Before(p, at') <=> Before(p, at) \/ p = at
      <4>0. PICK c \in 1..Len(body) : \E i \in 1..Len(body[c]) : p = <<c, i>>
        BY SitesAre
      <4>1. PICK i \in 1..Len(body[c]) : p = <<c, i>>
        BY <4>0
      <4>2. Before(p, at') <=> c < b \/ (c = b /\ i < n + 1)
        BY <3>1, <4>1 DEF Before
      <4>3. Before(p, at) <=> c < b \/ (c = b /\ i < n)
        BY <1>3, <4>1 DEF Before
      <4>4. p = at <=> c = b /\ i = n
        BY <1>3, <4>1
      <4>5. i \in Nat
        BY <4>1, SitesAre
      <4>6. QED
        BY <4>2, <4>3, <4>4, <4>5
    <3>3. at \in AssertSites(body) <=> body[b][n] = "__assert_fail"
      BY <1>3, <3>1, SitesAre
    <3>4. at' \in (Nat \ {0}) \X (Nat \ {0}) /\ at \in (Nat \ {0}) \X (Nat \ {0})
      BY <1>3, <3>1
    <3>5. CASE body[b][n] # "__assert_fail"
      <4>1. {p \in AssertSites(body) : Before(p, at')} =
              {p \in AssertSites(body) : Before(p, at)}
        BY <3>2, <3>3, <3>5
      <4>2. QED
        BY <1>1, <1>2, <1>4, <3>1, <3>4, <3>5, <4>1 DEF CollectedSoFar
    <3>6. CASE body[b][n] = "__assert_fail"
      <4>1. {p \in AssertSites(body) : Before(p, at')} =
              {p \in AssertSites(body) : Before(p, at)} \cup {at}
        BY <3>2, <3>3, <3>6
      <4>2. /\ found' = Append(found, at) /\ Len(found) \in Nat
            /\ found' \in Seq((Nat \ {0}) \X (Nat \ {0}))
            /\ DOMAIN found = 1..Len(found) /\ DOMAIN found' = 1..Len(found) + 1
            /\ \A k \in 1..Len(found) : found'[k] = found[k]
            /\ found'[Len(found) + 1] = at
        BY <1>4, <3>1, <3>4, <3>6
      <4>3. {found'[k] : k \in DOMAIN found'} = {found[k] : k \in DOMAIN found} \cup {at}
        <5>1. \A x : (\E k \in 1..Len(found) + 1 : x = found'[k]) <=>
                    (\E k \in 1..Len(found) : x = found[k]) \/ x = at
          <6>1. \A x : (\E k \in 1..Len(found) : x = found[k]) =>
                      \E k \in 1..Len(found) + 1 : x = found'[k]
            BY <4>2
          <6>2. Len(found) + 1 \in 1..Len(found) + 1
            BY <4>2
          <6>3. \A k \in 1..Len(found) + 1 : k = Len(found) + 1 \/ k \in 1..Len(found)
            BY <4>2
          <6>4. QED
            BY <4>2, <6>1, <6>2, <6>3
        <5>2. DOMAIN found' = 1..Len(found) + 1 /\ DOMAIN found = 1..Len(found)
          BY <4>2
        <5>3. \A x : x \in {found'[k] : k \in DOMAIN found'} <=>
                    x \in {found[k] : k \in DOMAIN found} \cup {at}
          BY <5>1, <5>2, Zenon
        <5>4. QED
          BY <5>3
      <4>4. ASSUME NEW k \in DOMAIN found', NEW m \in DOMAIN found', k < m
            PROVE  Before(found'[k], found'[m])
        <5>1. CASE m = Len(found) + 1
          <6>1. k \in DOMAIN found /\ found'[k] = found[k] /\ found'[m] = at
            BY <4>2, <4>4, <5>1
          <6>2. found[k] \in {p \in AssertSites(body) : Before(p, at)}
            BY <1>4, <6>1
          <6>3. QED
            BY <6>1, <6>2
        <5>2. CASE m # Len(found) + 1
          BY <1>4, <4>2, <4>4, <5>2
        <5>3. QED
          BY <5>1, <5>2
      <4>5. QED
        BY <1>1, <1>2, <1>4, <3>1, <3>4, <4>1, <4>2, <4>3, <4>4 DEF CollectedSoFar
    <3>7. QED
      BY <3>5, <3>6
  <2>4. QED
    BY <2>1, <2>2, <2>3
<1>10. QED
  BY <1>5, <1>6, <1>9 DEF UtilsInv

(* The queries that the invariant says nothing of.                         *)
LEMMA OtherStep ==
  ASSUME UtilsInv,
         \/ IsGlobalPointerInit \/ isInst_mem_ops \/ callToVoidFunction
         \/ getCalleeFnType \/ is_inlineAsm_withSideEffect \/ getFunctionEntry
         \/ PositionQuery \/ isLocalToFunction \/ isIntegerRelatedType
  PROVE  UtilsInv'
<1>1. /\ question' = question /\ at' = at /\ found' = found /\ result' = result
      /\ answer' \in {"none", "yes", "no", "value", "dies"}
      /\ question.op \notin {"isPointerValue", "isPointerToPointerValue",
           "getPointedType", "isPointerManipulation", "elimConstExpr",
           "getAssertCallSite"}
  BY DEF IsGlobalPointerInit, isInst_mem_ops, callToVoidFunction, getCalleeFnType,
     is_inlineAsm_withSideEffect, getFunctionEntry, PositionQuery,
     isLocalToFunction, isIntegerRelatedType, YesOrNo, Say, Pending, Undefined
<1>2. Computed'
  BY <1>1, OtherQuestion
<1>3. Asked' /\ StrippedSoFar' /\ CollectedSoFar' /\ ListIsOfSites'
  BY <1>1 DEF UtilsInv, Asked, StrippedSoFar, CollectedSoFar, ListIsOfSites
<1>4. QED
  BY <1>2, <1>3 DEF UtilsInv

(* What has been asked and answered is what the code computes, and the two *)
(* walks have seen what lies behind them.                                  *)
THEOREM UtilsInvariant == UtilsSpec => []UtilsInv
<1>1. UtilsInv /\ [UtilsNext]_utilsVars => UtilsInv'
  <2> SUFFICES ASSUME UtilsInv, [UtilsNext]_utilsVars PROVE UtilsInv'
    OBVIOUS
  <2>1. CASE IsPointerManipulation
    <3>1. /\ Say(isPointerManipulation(About))
          /\ question.op = "isPointerManipulation"
      BY <2>1 DEF IsPointerManipulation, Pending
    <3>2. isPointerManipulation(About) # "list"
      BY DEF isPointerManipulation
    <3>3. Computed'
      BY <3>1 DEF Computed, Say
    <3>4. QED
      BY <3>1, <3>2, <3>3, JustSaid
  <2>2. CASE Answered \/ UNCHANGED utilsVars
    <3>1. question' = question /\ at' = at /\ found' = found /\ answer' = answer
          /\ result' = result
      BY <2>2 DEF Answered, utilsVars
    <3>2. QED
      BY <3>1 DEF UtilsInv, Asked, Computed, StrippedSoFar, CollectedSoFar,
         ListIsOfSites
  <2>3. QED
    BY <2>1, <2>2, ValueQueryStep, StripStep, CollectStep, OtherStep DEF UtilsNext
<1>2. QED
  BY <1>1, UtilsInvInit, PTL DEF UtilsSpec

(* isPointerValue, isPointerToPointerValue and getPointedType speak of the *)
(* same type, whether or not the value names a variable by its address.    *)
THEOREM PointersAgree == UtilsSpec => []PointerQueriesAgree
<1>1. ASSUME NEW v \in Values
      PROVE  /\ Pointed(v) = Denoted(v)
             /\ isPointerValue(v) <=> Denoted(v).stars > 0
             /\ Denoted(v).stars \in Nat
             /\ Pointee(Denoted(v)).stars = Denoted(v).stars - 1
  <2>1. /\ v.ty \in [base : {v.ty.base}, stars : Nat]
        /\ v.class \in Addressed => v.ty.stars > 0
    BY ValuesAssumption DEF IsType
  <2>2. Pointed(v) = Denoted(v) /\ (isPointerValue(v) <=> Denoted(v).stars > 0)
    BY DEF Pointed, Denoted, isPointerValue, isTrivialPointer, Addressed, IsPointer
  <2>3. Denoted(v) \in [base : {v.ty.base}, stars : Nat]
    BY <2>1 DEF Denoted, Pointee
  <2>4. QED
    BY <2>2, <2>3 DEF Pointee
<1>2. ASSUME UtilsInv PROVE PointerQueriesAgree
  <2> SUFFICES ASSUME answer # "none",
                      question.op \in {"isPointerValue", "isPointerToPointerValue",
                                       "getPointedType"}
               PROVE  PointerQueriesAgree
    BY DEF PointerQueriesAgree
  <2>1. About \in Values
    BY <1>2 DEF UtilsInv, Asked
  <2>2. CASE question.op = "isPointerValue"
    BY <1>1, <1>2, <2>1, <2>2 DEF UtilsInv, Computed, PointerQueriesAgree
  <2>3. CASE question.op = "isPointerToPointerValue"
    <3>1. answer = IF Denoted(About).stars > 1 THEN "yes" ELSE "no"
      BY <1>1, <1>2, <2>1, <2>3 DEF UtilsInv, Computed, isPointerToPointerValue, IsPointer
    <3>2. QED
      BY <2>3, <3>1 DEF PointerQueriesAgree
  <2>4. CASE question.op = "getPointedType"
    BY <1>1, <1>2, <2>1, <2>4 DEF UtilsInv, Computed, PointerQueriesAgree, IsPointer
  <2>5. QED
    BY <2>2, <2>3, <2>4
<1>3. QED
  BY <1>2, UtilsInvariant, PTL

(* isPointerManipulation never falls through to FALSE for an instruction   *)
(* whose result is a pointer.                                              *)
THEOREM NeverDenied == UtilsSpec => []PointerNeverDenied
<1>1. ASSUME UtilsInv PROVE PointerNeverDenied
  <2> SUFFICES ASSUME question.op = "isPointerManipulation", answer = "no",
                      About.class \notin {"alloca", "call"}
               PROVE  ~ IsPointer(About.ty)
    BY DEF PointerNeverDenied
  <2>1. About \in Instructions /\ isPointerManipulation(About) = "no"
    BY <1>1 DEF UtilsInv, Asked, Computed
  <2>2. /\ About.class \notin {"GlobalVariable", "Function"}
        /\ About.class = "insertvalue" => About.ty.stars = 0
    BY <2>1, InstructionsAssumption
  <2>3. ~ Manipulates(About) /\ (About.class \in Decided \/ ~ isPointerValue(About))
    BY <2>1 DEF isPointerManipulation
  <2>4. isPointerValue(About) <=> IsPointer(About.ty)
    BY <2>2 DEF isPointerValue, isTrivialPointer
  <2>5. CASE About.class = "insertvalue"
    BY <2>2, <2>5 DEF IsPointer
  <2>6. CASE About.class # "insertvalue"
    BY <2>3, <2>4, <2>6 DEF Manipulates, Decided
  <2>7. QED
    BY <2>5, <2>6
<1>2. QED
  BY <1>1, UtilsInvariant, PTL

(* elimConstExpr strips address computations and conversions only, however *)
(* deep the constant, and stops at what computes or is the object.         *)
THEOREM KeepsObject == UtilsSpec => []ElimKeepsObject
<1>1. ASSUME UtilsInv PROVE ElimKeepsObject
  BY <1>1 DEF UtilsInv, StrippedSoFar, ElimKeepsObject, Kept, Strippable
<1>2. QED
  BY <1>1, UtilsInvariant, PTL

(* getAssertCallSite returns the calls of __assert_fail of any function,   *)
(* each once and in order.                                                 *)
THEOREM SitesExact == UtilsSpec => []AssertSitesExact
<1>1. ASSUME UtilsInv PROVE AssertSitesExact
  <2> SUFFICES ASSUME answer = "list" PROVE AssertSitesExact
    BY DEF AssertSitesExact
  <2>1. question.op = "getAssertCallSite" /\ About \in Bodies
    BY <1>1 DEF UtilsInv, ListIsOfSites, Asked
  <2>2. /\ {found[k] : k \in DOMAIN found} = {p \in AssertSites(About) : Before(p, at)}
        /\ \A k, m \in DOMAIN found : k < m => Before(found[k], found[m])
        /\ at[1] > Len(About) /\ at[1] \in Nat
    BY <1>1, <2>1 DEF UtilsInv, CollectedSoFar
  <2>3. ASSUME NEW p \in AssertSites(About) PROVE Before(p, at)
    <3>1. PICK body \in Bodies : body = About
      BY <2>1
    <3>2. PICK b \in 1..Len(body) : \E n \in 1..Len(body[b]) : p = <<b, n>>
      BY <2>3, <3>1, SitesAre
    <3>3. Len(body) \in Nat /\ p[1] = b
      BY <3>2, SitesAre
    <3>4. QED
      BY <2>2, <3>1, <3>2, <3>3 DEF Before
  <2>4. QED
    BY <2>2, <2>3 DEF AssertSitesExact
<1>2. QED
  BY <1>1, UtilsInvariant, PTL

================================================================================
