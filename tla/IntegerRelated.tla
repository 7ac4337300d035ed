----------------------------- MODULE IntegerRelated ----------------------------
(***************************************************************************)
(* isIntegerRelatedType (lib/mybase/LLUtils.cc): is a type an integer, a   *)
(* pointer to one, or a struct or array of such, to any depth.  The        *)
(* recursion goes through structs and arrays and stops at pointers, so a   *)
(* struct that refers to itself ends it.  Its activations are the elements *)
(* of `frames`.                                                            *)
(***************************************************************************)
EXTENDS Naturals, Sequences

CONSTANT TypeTables   \* the types of a context, per context

(* A type has a kind and the types it is made of: the members of a struct, *)
(* none if it has no body, the element type of an array, what a (typed)    *)
(* pointer points to.                                                      *)
Kinds == {"integer", "pointer", "struct", "array", "other"}

IsTable(T) ==
  /\ T.kind \in [DOMAIN T.kind -> Kinds]
  /\ T.elems \in [DOMAIN T.kind -> Seq(DOMAIN T.kind)]
  /\ \A t \in DOMAIN T.kind :
       T.kind[t] \in {"pointer", "array"} => Len(T.elems[t]) = 1

ASSUME TablesAssumption == \A T \in TypeTables : IsTable(T)

VARIABLES
  table, root,   \* the types, and the one that is asked about
  frames,        \* activations: their ty, and the loop variable i
  ret,           \* the value the last activation returned
  pc             \* idle, look: into the type on top, return, done

vars == <<table, root, frames, ret, pc>>

Types == DOMAIN table.kind
Kind(t) == table.kind[t]
Elems(t) == table.elems[t]
Aggregate(t) == Kind(t) \in {"struct", "array"}

Top == frames[Len(frames)]
Below == SubSeq(frames, 1, Len(frames) - 1)
Caller == frames[Len(frames) - 1]

Init ==
  /\ table \in TypeTables
  /\ root \in Types
  /\ frames = <<>>
  /\ ret = FALSE
  /\ pc = "idle"

Call(t) ==
  /\ frames' = Append(frames, [ty |-> t, i |-> 1])
  /\ pc' = "look"

Return(value) ==
  /\ ret' = value
  /\ pc' = "return"

Ask ==
  /\ pc = "idle"
  /\ Call(root)
  /\ UNCHANGED <<table, root, ret>>

Pointer ==
  /\ pc = "look" /\ Kind(Top.ty) = "pointer"
  /\ Return(Kind(Elems(Top.ty)[1]) = "integer")
  /\ UNCHANGED <<table, root, frames>>

Leaf ==
  /\ pc = "look" /\ Kind(Top.ty) \in {"integer", "other"}
  /\ Return(Kind(Top.ty) = "integer")
  /\ UNCHANGED <<table, root, frames>>

(* The next member of a struct, or the element type of an array.           *)
Element ==
  /\ pc = "look" /\ Aggregate(Top.ty)
  /\ Top.i <= Len(Elems(Top.ty))
  /\ Call(Elems(Top.ty)[Top.i])
  /\ UNCHANGED <<table, root, ret>>

AllMembers ==
  /\ pc = "look" /\ Kind(Top.ty) = "struct"
  /\ Top.i > Len(Elems(Top.ty))
  /\ Return(TRUE)
  /\ UNCHANGED <<table, root, frames>>

(* An array returns what it was told, a struct only that a member is not.  *)
PassUp ==
  /\ pc = "return" /\ Len(frames) > 1
  /\ Kind(Caller.ty) = "array" \/ ~ ret
  /\ frames' = Below
  /\ UNCHANGED <<table, root, ret, pc>>

(* Mutant: the loop is not advanced.                                       *)
NextMemberStuck ==
  /\ pc = "return" /\ Len(frames) > 1
  /\ Kind(Caller.ty) = "struct" /\ ret
  /\ frames' = Below
  /\ pc' = "look"
  /\ UNCHANGED <<table, root, ret>>

(* Mutant: the first member decides.                                       *)
NextMemberNever ==
  /\ pc = "return" /\ Len(frames) > 1
  /\ Kind(Caller.ty) = "struct" /\ ret
  /\ frames' = Below
  /\ UNCHANGED <<table, root, ret, pc>>

NextMember ==
  /\ pc = "return" /\ Len(frames) > 1
  /\ Kind(Caller.ty) = "struct" /\ ret
  /\ frames' = [Below EXCEPT ![Len(frames) - 1].i = @ + 1]
  /\ pc' = "look"
  /\ UNCHANGED <<table, root, ret>>

Answer ==
  /\ pc = "return" /\ Len(frames) = 1
  /\ frames' = <<>>
  /\ pc' = "done"
  /\ UNCHANGED <<table, root, ret>>

Next ==
  \/ Ask \/ Pointer \/ Leaf \/ Element \/ AllMembers
  \/ PassUp \/ NextMember \/ Answer

Spec == Init /\ [][Next]_vars

--------------------------------------------------------------------------------
(* S needs nothing outside itself to consist of integers, pointers to      *)
(* integers, and structs and arrays of these.                              *)
Supported(t, S) ==
  \/ Kind(t) = "integer"
  \/ Kind(t) = "pointer" /\ Kind(Elems(t)[1]) = "integer"
  \/ Aggregate(t) /\ \A k \in 1..Len(Elems(t)) : Elems(t)[k] \in S

Related(t) == \E S \in SUBSET Types : t \in S /\ \A s \in S : Supported(s, S)

(* What is answered is whether the type is made of integers and pointers   *)
(* to integers only: returning at the first member that is not, and never  *)
(* looking into what a pointer points to, answers for the whole type.      *)
AnswerIsRight == pc = "done" => (ret <=> Related(root))

(* Every variable has its type, and each activation runs for the member    *)
(* its caller is looking at.                                               *)
Frame == [ty : Types, i : Nat \ {0}]

StackOK ==
  /\ table \in TypeTables
  /\ root \in Types
  /\ frames \in Seq(Frame)
  /\ ret \in BOOLEAN
  /\ pc \in {"idle", "look", "return", "done"}
  /\ frames = <<>> <=> pc \in {"idle", "done"}
  /\ frames # <<>> => frames[1].ty = root
  /\ \A k \in 1..Len(frames) - 1 :
       /\ Aggregate(frames[k].ty)
       /\ frames[k].i <= Len(Elems(frames[k].ty))
       /\ frames[k + 1].ty = Elems(frames[k].ty)[frames[k].i]
  /\ \A k \in 1..Len(frames) : Kind(frames[k].ty) = "array" => frames[k].i = 1

(* The members a struct has passed over are related to integers, whatever  *)
(* their own recursion looked at.                                          *)
PassedOverAreRelated ==
  \A k \in 1..Len(frames) : \A m \in 1..frames[k].i - 1 :
    m <= Len(Elems(frames[k].ty)) /\ Related(Elems(frames[k].ty)[m])

ReturnedIsRight == pc = "return" => (ret <=> Related(Top.ty))

(* The inductive invariant.                                                *)
IInv == StackOK /\ PassedOverAreRelated /\ ReturnedIsRight /\ AnswerIsRight

================================================================================
