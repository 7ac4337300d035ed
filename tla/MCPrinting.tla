-------------------------------- MODULE MCPrinting ------------------------------
(***************************************************************************)
(* The classes of llvm::Instruction, with the class each derives from:     *)
(* those printInstKind tests and those it does not.  "Instruction" stands  *)
(* for the root; CallBase and DbgVariableIntrinsic are passed over.  Then  *)
(* values of every class, and modules for DumpConsts and for ir_dump.      *)
(***************************************************************************)
EXTENDS Printing, TLC

Under(parent, names) == [c \in names |-> parent]

MCParent ==
  Under("Instruction",
        {"Instruction", "BinaryOperator", "CallInst", "CmpInst",
         "ExtractElementInst", "InsertElementInst", "GetElementPtrInst",
         "InsertValueInst", "PHINode", "SelectInst", "ShuffleVectorInst",
         "StoreInst", "BranchInst", "IndirectBrInst", "InvokeInst",
         "CallBrInst", "ReturnInst", "SwitchInst", "UnreachableInst",
         "UnaryInstruction", "AtomicRMWInst", "AtomicCmpXchgInst",
         "FenceInst", "LandingPadInst", "ResumeInst"})
  @@ Under("CallInst", {"IntrinsicInst"})
  @@ Under("IntrinsicInst", {"DbgInfoIntrinsic", "MemIntrinsic", "VACopyInst",
                             "VAEndInst", "VAStartInst"})
  @@ Under("DbgInfoIntrinsic", {"DbgValueInst", "DbgDeclareInst",
                                "DbgLabelInst"})
  @@ Under("MemIntrinsic", {"MemSetInst", "MemTransferInst"})
  @@ Under("MemTransferInst", {"MemCpyInst", "MemMoveInst"})
  @@ Under("MemCpyInst", {"MemCpyInlineInst"})
  @@ Under("CmpInst", {"ICmpInst", "FCmpInst"})
  @@ Under("UnaryInstruction", {"AllocaInst", "CastInst", "ExtractValueInst",
                                "LoadInst", "VAArgInst", "FreezeInst",
                                "UnaryOperator"})
  @@ Under("CastInst",
           {"BitCastInst", "FPExtInst", "FPToSIInst", "FPToUIInst",
            "FPTruncInst", "IntToPtrInst", "PtrToIntInst", "SExtInst",
            "SIToFPInst", "TruncInst", "UIToFPInst", "ZExtInst",
            "AddrSpaceCastInst"})

(* The classes that have instructions of their own.                        *)
Abstract == {"Instruction", "CmpInst", "UnaryInstruction", "CastInst",
             "DbgInfoIntrinsic", "MemIntrinsic", "MemTransferInst"}

MCInstructions ==
  [class : DOMAIN MCParent \ Abstract, asm : {FALSE}]
  \cup {[class |-> "CallInst", asm |-> TRUE]}

(* A name may hold a line end; a switch has one per case and two more.     *)
MCPrintedValues ==
  [class : {"GlobalVariable", "GlobalAlias", "Function", "BasicBlock", "Constant"},
   named : BOOLEAN, attached : {TRUE}, breaks : {0, 1}, fnBreaks : {0}]
  \cup [class : {"Instruction"}, named : {FALSE}, attached : BOOLEAN,
         breaks : {0, 3}, fnBreaks : {0, 1}]
  \cup [class : {"Argument"}, named : {FALSE}, attached : BOOLEAN,
         breaks : {0}, fnBreaks : {0, 1}]
  \cup {[class |-> "null", named |-> FALSE, attached |-> FALSE,
          breaks |-> 0, fnBreaks |-> 0]}

OperandClasses ==
  {"local", "GlobalValue", "ConstantInt", "ConstantFP", "ConstantPointerNull",
   "ConstantTokenNone", "UndefValue", "UndefPointer", "ConstantExpr",
   "ConstantDataArray",
   "ConstantStruct", "ConstantArray", "ConstantAggregateZero",
   "ConstantVector", "ConstantDataVector", "BlockAddress"}

OneInstr(instr) == << << <<instr>> >> >>
Few == {"local", "ConstantInt", "ConstantStruct", "ConstantVector"}
Instrs == BoundedSeq(Few, 1)

(* Any one instruction of up to two operands; a declaration and a function *)
(* of two blocks, with two instructions in the first.                      *)
MCDumpedModules ==
  {OneInstr(instr) : instr \in BoundedSeq(OperandClasses, 2)}
  \cup {<< <<>>, << <<x, y>>, <<z>> >> >> : x, y, z \in Instrs}
  \cup {<<>>}

(* Modules for ir_dump: a function of no, one or two blocks of up to two   *)
(* instructions of every kind, alone or around a declaration, with types   *)
(* that getTypeStr knows and one that it does not.                         *)
Kinds == {"alloca", "gep", "phi", "call", "indirect", "asm", "other"}

Blocks == {<<x>> : x \in Kinds} \cup {<<x, y>> : x, y \in Kinds}

Bodies == {<<>>} \cup {<<x>> : x \in Blocks}
          \cup {<<x, y>> : x, y \in Blocks}

Func(ret, params, blocks) == [ret |-> ret, params |-> params, blocks |-> blocks]

Types == {"Integer", "FixedVector"}
Signatures ==
  {Func(r, q, <<<<"other">>>>) :
     r \in Types, q \in {<<>>} \cup {<<x, y>> : x, y \in Types}}
Declared == Func("Void", <<"Pointer">>, <<>>)

Parse(funcs) == [file |-> "parsed", funcs |-> funcs]

MCInputs ==
  {[file |-> x, funcs |-> <<>>] : x \in {"none", "unreadable", "parsed"}}
  \cup {Parse(<<Func("Integer", <<>>, body)>>) : body \in Bodies}
  \cup {Parse(<<Declared, g, g>>) : g \in Signatures}
  \cup {Parse(<<Func("Void", <<>>, <<x>>), Declared,
                Func("Void", <<>>, <<x>>)>>) : x \in Blocks}

================================================================================
