------------------------------- MODULE DumpConsts ------------------------------
(***************************************************************************)
(* The DumpConsts pass (lib/snippets/DumpConsts.cc): every instruction of  *)
(* the module, and under it each operand that is a constant, named if it   *)
(* is a global and else described by dumpConst.  Constants have no name,   *)
(* yet three of the descriptions ask for it.                               *)
(***************************************************************************)
EXTENDS Naturals, Sequences, SequencesExt

CONSTANTS
  DumpedModules,   \* sequences of functions, of blocks, of instructions,
                   \* each the sequence of the classes of its operands
  Asserts          \* whether the pass is built with assertions

VARIABLES
  M,         \* the module
  place,     \* the iterators: function, block, instruction, operand;
             \* operand 0: the instruction is yet to be printed
  out,       \* the pieces of output: what, and is the line ended with it
  dumping    \* run, done, died

dumpVars == <<M, place, out, dumping>>

fn == place[1]
bb == place[2]
ins == place[3]
op == place[4]

InFunction == fn <= Len(M)
InBlock == InFunction /\ bb <= Len(M[fn])
InInstr == InBlock /\ ins <= Len(M[fn][bb])
Operands == M[fn][bb][ins]
InOperands == InInstr /\ op \in 1..Len(Operands)
Operand == Operands[op]

Line(what)  == [what |-> what, ended |-> TRUE]
Piece(what) == [what |-> what, ended |-> FALSE]

DumpInit ==
  /\ M \in DumpedModules
  /\ place = <<1, 1, 1, 0>>
  /\ out = <<>>
  /\ dumping = "run"

Go(pieces, next) ==
  /\ out' = out \o pieces
  /\ place' = next
  /\ UNCHANGED <<M, dumping>>

NextOperand == <<fn, bb, ins, op + 1>>

Instruction ==
  /\ dumping = "run" /\ InInstr /\ op = 0
  /\ Go(<<Line(<<"INST", fn, bb, ins>>)>>, NextOperand)

(* Mutant: an operand that is no constant is skipped before ++i.           *)
NoConstantStuck ==
  /\ dumping = "run" /\ InOperands /\ Operand = "local"
  /\ Go(<<>>, place)

NoConstant ==
  /\ dumping = "run" /\ InOperands /\ Operand = "local"
  /\ Go(<<>>, NextOperand)

(* GlobalValue: not handed to dumpConst, whose last branch is thus dead.   *)
Global ==
  /\ dumping = "run" /\ InOperands /\ Operand = "GlobalValue"
  /\ Go(<<Line(<<"CONST", op - 1>>)>>, NextOperand)

(* dumpConst, in the order of its dyn_casts (the classes are disjoint).    *)
(* "UndefPointer" stands for an UndefValue of pointer type, "UndefValue"   *)
(* for one of another type.                                                *)
Described == {"ConstantInt", "ConstantFP", "ConstantPointerNull",
              "ConstantTokenNone", "UndefPointer", "UndefValue", "ConstantExpr"}
Unended == {"ConstantDataArray", "ConstantStruct"}

(* Describing a struct or data array prints the null pointer that is its   *)
(* name, and does not end the line.                                        *)
Description(class) ==
  IF class \in Unended THEN Piece(<<class>>) ELSE Line(<<class>>)

(* getPointerAlignment asserts a pointer type, which these have not.       *)
NoPointers == {"ConstantTokenNone", "UndefValue"}

Describe ==
  /\ dumping = "run" /\ InOperands
  /\ Operand \in Described \cup Unended
  /\ ~ (Asserts /\ Operand \in NoPointers)
  /\ Go(<<Line(<<"CONST", op - 1>>), Description(Operand)>>, NextOperand)

Undescribed ==
  {"ConstantAggregateZero", "ConstantVector", "ConstantDataVector",
   "BlockAddress"}

(* What is written of an operand that ends the process.  Where the         *)
(* assertion fails the description may have been begun: the order in which *)
(* the parts of the expression are evaluated depends on the language       *)
(* version.                                                                *)
Begun ==
  {<<Line(<<"CONST", op - 1>>)>>} \cup
  IF Operand \in NoPointers
  THEN {<<Line(<<"CONST", op - 1>>), Piece(<<Operand>>)>>} ELSE {}

(* A constant array is asked for the key of its null name, with assertions *)
(* what is no pointer for its alignment.  A constant of any other class    *)
(* meets llvm_unreachable, which without assertions may also do nothing.   *)
Fatal ==
  /\ dumping = "run" /\ InOperands
  /\ Operand \in {"ConstantArray"} \cup Undescribed
                  \cup IF Asserts THEN NoPointers ELSE {}
  /\ \/ /\ \E begun \in Begun : out' = out \o begun
        /\ dumping' = "died"
        /\ UNCHANGED <<M, place>>
     \/ /\ Operand \in Undescribed /\ ~ Asserts
        /\ Go(<<Line(<<"CONST", op - 1>>)>>, NextOperand)

(* Mutant: the loop over the blocks ends with the first instruction.       *)
EndOperandsAndBlock ==
  /\ dumping = "run" /\ InInstr /\ op > Len(Operands)
  /\ Go(<<>>, <<fn, bb + 1, 1, 0>>)

EndOperands ==
  /\ dumping = "run" /\ InInstr /\ op > Len(Operands)
  /\ Go(<<>>, <<fn, bb, ins + 1, 0>>)

EndBlock ==
  /\ dumping = "run" /\ InBlock /\ ~ InInstr
  /\ Go(<<>>, <<fn, bb + 1, 1, 0>>)

EndFunction ==
  /\ dumping = "run" /\ InFunction /\ ~ InBlock
  /\ Go(<<>>, <<fn + 1, 1, 1, 0>>)

EndModule ==
  /\ dumping = "run" /\ ~ InFunction
  /\ dumping' = "done"
  /\ UNCHANGED <<M, place, out>>

DumpNext ==
  \/ Instruction \/ NoConstant \/ Global \/ Describe \/ Fatal
  \/ EndOperands \/ EndBlock \/ EndFunction \/ EndModule

--------------------------------------------------------------------------------
(* The full listing: what a reader of the pass expects.                    *)
OperandLines(class, k) ==
  CASE class = "local"       -> <<>>
    [] class \in Described \cup Unended ->
         <<<<"CONST", k - 1>>, <<class>>>>
    [] OTHER                 -> <<<<"CONST", k - 1>>>>

InstrLines(f, b, i) ==
  <<<<"INST", f, b, i>>>>
  \o FlattenSeq([k \in DOMAIN M[f][b][i] |-> OperandLines(M[f][b][i][k], k)])

BlockLines(f, b) ==
  FlattenSeq([i \in DOMAIN M[f][b] |-> InstrLines(f, b, i)])

FunctionLines(f) == FlattenSeq([b \in DOMAIN M[f] |-> BlockLines(f, b)])

Listing == FlattenSeq([f \in DOMAIN M |-> FunctionLines(f)])

Whats == [k \in DOMAIN out |-> out[k].what]

(* The output is the listing up to where the pass stopped: all of it when  *)
(* it was not stopped by a constant, and then no instruction has an        *)
(* operand that ends the process.                                          *)
Deadly ==
  {"ConstantArray"} \cup IF Asserts THEN Undescribed \cup NoPointers ELSE {}

ConstsListed ==
  /\ IsPrefix(Whats, Listing)
  /\ dumping = "done" =>
       /\ Whats = Listing
       /\ \A f \in DOMAIN M : \A b \in DOMAIN M[f] : \A i \in DOMAIN M[f][b] :
            ToSet(M[f][b][i]) \cap Deadly = {}

================================================================================
