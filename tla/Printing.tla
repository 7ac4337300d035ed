-------------------------------- MODULE Printing -------------------------------
(***************************************************************************)
(* Whoever writes what it finds in a module: a client calls printInstKind  *)
(* or prettyPrint, opt runs DumpConsts, a user runs ir_dump.  They share   *)
(* the terminal, which none of them may leave coloured, and each may end   *)
(* the process, so that what it was called for stays half printed.         *)
(***************************************************************************)
EXTENDS Naturals, Sequences, SequencesExt

CONSTANTS
  Parent, Instructions,         \* as in InstKind
  PrintedValues, MaxUnsigned,   \* as in PrettyPrint
  DumpedModules, Asserts,       \* as in DumpConsts
  Inputs                        \* as in IRDump

ASSUME MaxUnsignedAssumption == MaxUnsigned \in Nat \ {0}

ASSUME ModulesAssumption ==
  \A m \in DumpedModules : m \in Seq(Seq(Seq(Seq(STRING))))

(* "Constant" stands for every value that prettyPrint does not single out. *)
ASSUME ValuesAssumption ==
  \A v \in PrintedValues :
    /\ v.class \in {"null", "GlobalVariable", "GlobalAlias", "Function",
                   "BasicBlock", "Instruction", "Argument", "Constant"}
    /\ v.breaks \in Nat /\ v.fnBreaks \in Nat

VARIABLES
  call,   \* what is called: printInstKind, prettyPrint, DumpConsts, ir_dump
  inst, kindAt, printed, kindPc,                                  \* InstKind
  V, startLine, endLine, asked, section, newlines, color, step,   \* PrettyPrint
  M, place, out, dumping,                                         \* DumpConsts
  input, fun, par, blk, ins, lines, pc, status                    \* IRDump

Kind   == INSTANCE InstKind WITH at <- kindAt, pc <- kindPc
Pretty == INSTANCE PrettyPrint
Consts == INSTANCE DumpConsts
Dump   == INSTANCE IRDump WITH
            f <- fun, p <- par, b <- blk, k <- ins, out <- lines

ASSUME InputsAssumption == \A D \in Inputs : Dump!WellFormed(D)

(* Of the classes that printInstKind tests, which derive from which.  An   *)
(* instruction may be of any other class at most six below Instruction.    *)
Intrinsics == {"DbgInfoIntrinsic", "DbgValueInst", "DbgDeclareInst",
               "MemIntrinsic", "MemSetInst", "MemTransferInst", "MemCpyInst",
               "VACopyInst", "VAEndInst", "VAStartInst"}

Derives(b, a) ==
  \/ a = b
  \/ a = "CallInst" /\ b \in Intrinsics \cup {"IntrinsicInst"}
  \/ a = "IntrinsicInst" /\ b \in Intrinsics
  \/ a = "DbgInfoIntrinsic" /\ b \in {"DbgValueInst", "DbgDeclareInst"}
  \/ a = "MemIntrinsic" /\ b \in {"MemSetInst", "MemTransferInst", "MemCpyInst"}
  \/ a = "MemTransferInst" /\ b = "MemCpyInst"
  \/ a = "CmpInst" /\ b \in {"ICmpInst", "FCmpInst"}
  \/ a = "UnaryInstruction" /\ \/ b \in {"AllocaInst", "CastInst", "LoadInst"}
                               \/ b \in {"ExtractValueInst", "VAArgInst"}
                               \/ b \in ToSet(Kind!Casts)
  \/ a = "CastInst" /\ b \in ToSet(Kind!Casts)

ASSUME HierarchyAssumption ==
  /\ Parent["Instruction"] = "Instruction"
  /\ \A i \in Instructions : "Instruction" \in Kind!Classes(Parent[i.class])
  /\ \A a, b \in Kind!Listed : a \in Kind!Classes(b) <=> Derives(b, a)

kindVars == <<inst, kindAt, printed, kindPc>>
prettyVars == <<V, startLine, endLine, asked, section, newlines, color, step>>
dumpVars == <<M, place, out, dumping>>
toolVars == <<input, fun, par, blk, ins, lines, pc, status>>
vars == <<call, kindVars, prettyVars, dumpVars, toolVars>>

(* The components that are not called rest in any one of their states.     *)
KindRests   == inst = (CHOOSE i \in Instructions : TRUE) /\ Kind!Init
PrettyRests == /\ V = (CHOOSE v \in PrintedValues : TRUE)
               /\ startLine = 0 /\ endLine = 0 /\ Pretty!PrettyInit
ConstsRest  == M = (CHOOSE m \in DumpedModules : TRUE) /\ Consts!DumpInit

ToolRests   == input = (CHOOSE m \in Inputs : TRUE) /\ Dump!Init

Init ==
  \/ call = "printInstKind" /\ Kind!Init /\ PrettyRests /\ ConstsRest /\ ToolRests
  \/ /\ call = "prettyPrint"
     /\ KindRests /\ Pretty!PrettyInit /\ ConstsRest /\ ToolRests
  \/ call = "DumpConsts" /\ KindRests /\ PrettyRests /\ Consts!DumpInit /\ ToolRests
  \/ call = "ir_dump" /\ KindRests /\ PrettyRests /\ ConstsRest /\ Dump!Init

Over ==
  \/ call = "printInstKind" /\ kindPc # "loop"
  \/ call = "prettyPrint" /\ step \in {"returned", "died"}
  \/ call = "DumpConsts" /\ dumping # "run"
  \/ call = "ir_dump" /\ pc = "over"

PrintInstKind ==
  /\ call = "printInstKind" /\ ~ Over /\ Kind!Next
  /\ UNCHANGED <<call, prettyVars, dumpVars, toolVars>>

PrettyPrintStep ==
  /\ call = "prettyPrint" /\ Pretty!PrettyNext
  /\ UNCHANGED <<call, kindVars, dumpVars, toolVars>>

DumpConstsStep ==
  /\ call = "DumpConsts" /\ Consts!DumpNext
  /\ UNCHANGED <<call, kindVars, prettyVars, toolVars>>

IRDumpStep ==
  /\ call = "ir_dump" /\ ~ Over /\ Dump!Next
  /\ UNCHANGED <<call, kindVars, prettyVars, dumpVars>>

Stopped == Over /\ UNCHANGED vars

Next == PrintInstKind \/ PrettyPrintStep \/ DumpConstsStep \/ IRDumpStep \/ Stopped

Spec == Init /\ [][Next]_vars

(* Each call is one sequential computation.                                *)
FairSpec == Spec /\ WF_vars(Next)

--------------------------------------------------------------------------------
(* A line `A <-- B` of printInstKind is printed for a B that derives from A.*)
ChainDescends == Kind!ChainDescends

(* printInstKind gives up only on instructions it has no name for.         *)
ListedNeverAborts == Kind!ListedNeverAborts

(* prettyPrint hands the terminal back in its own colour unless it dies    *)
(* looking up the function of a detached instruction or argument.          *)
ColorComesBack == Pretty!ColorComesBack

(* prettyPrint writes as many line ends as it was asked for, those of the  *)
(* text it prints, and one more where nothing can follow, but for the      *)
(* largest number after a variable.                                        *)
LinesAsAsked == Pretty!LinesAsAsked

(* DumpConsts prints the full listing up to where a constant ends it.      *)
ConstsListed == Consts!ConstsListed

(* Whatever ends ir_dump, what it has printed is a start of the listing.   *)
OutputIsPrefix == Dump!OutputIsPrefix

(* ir_dump returns 0 if and only if it has dumped the whole module.        *)
ZeroMeansAll == Dump!ZeroMeansAll

(* ir_dump dies only on what its helpers do not know.                      *)
DiesOnlyOnUnsupported == Dump!DiesOnlyOnUnsupported

(* Every call returns or ends the process: the while (true) of             *)
(* printInstKind, the counted-down unsigneds, the nested loops.            *)
EveryCallEnds == <>Over

================================================================================
