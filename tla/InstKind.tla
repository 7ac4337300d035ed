-------------------------------- MODULE InstKind -------------------------------
(***************************************************************************)
(* printInstKind (lib/mybase/LLDump.cc): the classes of an instruction,    *)
(* general ones first, by a table of isa<> tests inside while (true).  A   *)
(* class is printed when its row is met; a row that stops also leaves the  *)
(* loop.  Only abort() in rbscope_diagnostics keeps an instruction no row  *)
(* stops at from going round for ever.                                     *)
(***************************************************************************)
EXTENDS Naturals, Sequences, FiniteSets, SequencesExt

CONSTANTS
  Parent,        \* per class of llvm::Instruction, the class it derives from
  Instructions   \* [class, asm]: the class itself, is it inline assembly

VARIABLES
  inst,     \* I
  at,       \* the next row
  printed,  \* what the line shows
  pc        \* loop, done, aborted

vars == <<inst, at, printed, pc>>

(* Every class below llvm::Instruction that isa<> accepts for an           *)
(* instruction of class c: none lies deeper than MemCpyInlineInst, whose   *)
(* fifth ancestor is CallInst.                                             *)
WithParents(S) == S \cup {Parent[c] : c \in S}
Classes(c) ==
  WithParents(WithParents(WithParents(WithParents(WithParents({c})))))

Stop(class) == [class |-> class, stops |-> TRUE]
Go(class)   == [class |-> class, stops |-> FALSE]
Stops(names) == [k \in DOMAIN names |-> Stop(names[k])]

Casts == <<"BitCastInst", "FPExtInst", "FPToSIInst", "FPToUIInst",
           "FPTruncInst", "IntToPtrInst", "PtrToIntInst", "SExtInst",
           "SIToFPInst", "TruncInst", "UIToFPInst", "ZExtInst">>

FirstRows == <<Stop("BinaryOperator"), Go("CallInst")>>

(* Mutant: the group of the memory intrinsics after its members.           *)
CallRowsSwapped ==
  <<Go("IntrinsicInst"), Go("DbgInfoIntrinsic"),
    Stop("DbgValueInst"), Stop("DbgDeclareInst"),
    Go("MemSetInst"), Go("MemIntrinsic"),
    Stop("MemTransferInst"), Stop("MemCpyInst"),
    Stop("VACopyInst"), Stop("VAEndInst"), Stop("VAStartInst")>>

CallRows ==
  <<Go("IntrinsicInst"), Go("DbgInfoIntrinsic"),
    Stop("DbgValueInst"), Stop("DbgDeclareInst"),
    Go("MemIntrinsic"), Go("MemSetInst"),
    Stop("MemTransferInst"), Stop("MemCpyInst"),
    Stop("VACopyInst"), Stop("VAEndInst"), Stop("VAStartInst")>>

(* Mutant: the comparisons do not stop.                                    *)
OtherRowsRunOn ==
  <<Go("CmpInst"), Go("ICmpInst"), Go("FCmpInst")>>
  \o Stops(<<"ExtractElementInst", "GetElementPtrInst", "InsertValueInst",
             "PHINode", "SelectInst", "ShuffleVectorInst", "StoreInst",
             "BranchInst", "IndirectBrInst", "InvokeInst", "ReturnInst",
             "SwitchInst", "UnreachableInst">>)
  \o <<Go("UnaryInstruction"), Stop("AllocaInst"), Stop("CastInst")>>
  \o Stops(Casts)
  \o Stops(<<"ExtractValueInst", "LoadInst", "VAArgInst">>)

OtherRows ==
  <<Go("CmpInst"), Stop("ICmpInst"), Stop("FCmpInst")>>
  \o Stops(<<"ExtractElementInst", "GetElementPtrInst", "InsertValueInst",
             "PHINode", "SelectInst", "ShuffleVectorInst", "StoreInst",
             "BranchInst", "IndirectBrInst", "InvokeInst", "ReturnInst",
             "SwitchInst", "UnreachableInst">>)
  \o <<Go("UnaryInstruction"), Stop("AllocaInst"), Stop("CastInst")>>
  \o Stops(Casts)
  \o Stops(<<"ExtractValueInst", "LoadInst", "VAArgInst">>)

Isa(class) == class \in Classes(inst.class)

(* The rows I meets: those for calls stand in a branch of their own, that  *)
(* no call leaves for the rest and that inline assembly does not enter.    *)
Rows ==
  IF ~ Isa("CallInst") THEN FirstRows \o OtherRows
  ELSE IF inst.asm THEN FirstRows
  ELSE FirstRows \o CallRows

Init ==
  /\ inst \in Instructions
  /\ at = 1 /\ printed = <<>> /\ pc = "loop"

PassOver ==
  /\ pc = "loop" /\ at <= Len(Rows)
  /\ ~ Isa(Rows[at].class)
  /\ at' = at + 1
  /\ UNCHANGED <<inst, printed, pc>>

PrintClass ==
  /\ pc = "loop" /\ at <= Len(Rows)
  /\ Isa(Rows[at].class)
  /\ printed' = Append(printed, Rows[at].class)
  /\ at' = at + 1
  /\ pc' = IF Rows[at].stops THEN "done" ELSE "loop"
  /\ UNCHANGED inst

(* A call that no row stopped at.                                          *)
PlainCall ==
  /\ pc = "loop" /\ at > Len(Rows)
  /\ Isa("CallInst")
  /\ printed' = Append(printed, IF inst.asm THEN "InlineAsm"
                                ELSE "[Simple CallInst]")
  /\ pc' = "done"
  /\ UNCHANGED <<inst, at>>

(* rbscope_diagnostics: LOG and WARN return, ERROR and FATAL abort.        *)
Aborts(level) == level \in {"ERROR", "FATAL"}

Unknown ==
  /\ pc = "loop" /\ at > Len(Rows)
  /\ ~ Isa("CallInst")
  /\ IF Aborts("FATAL") THEN pc' = "aborted" /\ at' = at
                        ELSE pc' = "loop" /\ at' = 1
  /\ UNCHANGED <<inst, printed>>

Stopped == pc # "loop" /\ UNCHANGED vars

Next == PassOver \/ PrintClass \/ PlainCall \/ Unknown \/ Stopped

Spec == Init /\ [][Next]_vars

--------------------------------------------------------------------------------
Markers == {"InlineAsm", "[Simple CallInst]"}
Listed == {r.class : r \in ToSet(FirstRows \o CallRows \o OtherRows)}
Groups == {"CmpInst", "UnaryInstruction"}   \* rows that only lead a group

(* A line `A <-- B` is printed for a B that derives from A: each class is  *)
(* followed by one of its subclasses or by the marker of a call.           *)
ChainDescends ==
  \A k \in 1..(Len(printed) - 1) :
    IF printed[k + 1] \in Markers THEN "CallInst" \in Classes(printed[k])
    ELSE printed[k] \in Classes(printed[k + 1])

(* The table gives up only on instructions it has no name for: a class     *)
(* that has a row, or derives from one that has, is never fatal, unless    *)
(* that row only leads a group.                                            *)
ListedNeverAborts ==
  pc = "aborted" => Classes(inst.class) \cap (Listed \ Groups) = {}

================================================================================
