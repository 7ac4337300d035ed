--------------------------------- MODULE IRDump --------------------------------
(***************************************************************************)
(* The ir_dump tool (tools/dump/Dump.cc): main parses the IR file it is    *)
(* given and runs DumpModulePass, which walks functions, blocks and        *)
(* instructions and prints as it goes; getTypeStr and getValueStr          *)
(* (lib/mybase/LLDump.cc) end the process on what they do not know.  A     *)
(* line of the output is the position of what it is about.                 *)
(***************************************************************************)
EXTENDS Naturals, Sequences, SequencesExt

CONSTANT Inputs   \* command lines: file is none, unreadable or parsed; funcs
                  \* are the functions of the module that is parsed

(* What a module is made of: per function the kind of its type's result,   *)
(* those of its parameters, and the kinds of instruction of each block.    *)
WellFormed(M) ==
  M.funcs \in Seq([ret : STRING, params : Seq(STRING),
                   blocks : Seq(Seq(STRING))])

VARIABLES
  input,     \* the command line
  f, p, b, k,\* positions: function, parameter, block, instruction
  out,       \* the lines printed
  pc,        \* main, func, params, blocks, insts, detail, over
  status     \* running; 0 or 1, exited; abort: died

vars == <<input, f, p, b, k, out, pc, status>>

Parsed == input.file = "parsed"

(* The kinds of type that getTypeStr has a case for.                       *)
KnownTypes ==
  {"Void", "Float", "Double", "X86_FP80", "FP128", "PPC_FP128", "Label",
   "Metadata", "X86_MMX", "Integer", "Function", "Struct", "Array",
   "Pointer", "Half"}

(* What getValueStr has a case for: never an instruction.                  *)
KnownValues == {"Argument", "BasicBlock", "Constant", "InlineAsm"}

Init ==
  /\ input \in Inputs
  /\ f = 1 /\ p = 1 /\ b = 1 /\ k = 1
  /\ out = <<>>
  /\ pc = "main"
  /\ status = "running"

F == input.funcs[f]
B == F.blocks[b]
I == B[k]

PrintLine(what) == out' = Append(out, what)
Goto(label) == pc' = label
Exit(s) == pc' = "over" /\ status' = s

(* Usage, or the diagnostic of the parser: exit(1).                        *)
Refuse ==
  /\ pc = "main"
  /\ ~ Parsed
  /\ Exit("1")
  /\ UNCHANGED <<input, f, p, b, k, out>>

RunPass ==
  /\ pc = "main"
  /\ Parsed
  /\ Goto("func")
  /\ UNCHANGED <<input, f, p, b, k, out, status>>

(* runOnFunc and _dumpFnTy: the banner, then the type of what F returns.   *)
BeginFunction ==
  /\ pc = "func" /\ f <= Len(input.funcs)
  /\ PrintLine(<<"func", f>>)
  /\ IF F.ret \in KnownTypes THEN Goto("params") /\ UNCHANGED status
                             ELSE Exit("abort")
  /\ UNCHANGED <<input, f, p, b, k>>

Parameter ==
  /\ pc = "params" /\ p <= Len(F.params)
  /\ PrintLine(<<"param", f, p>>)
  /\ IF F.params[p] \in KnownTypes THEN p' = p + 1 /\ UNCHANGED <<pc, status>>
                                   ELSE Exit("abort") /\ UNCHANGED p
  /\ UNCHANGED <<input, f, b, k>>

(* dumpGVInfo.                                                             *)
Linkage ==
  /\ pc = "params" /\ p > Len(F.params)
  /\ PrintLine(<<"linkage", f>>)
  /\ p' = 1
  /\ Goto("blocks")
  /\ UNCHANGED <<input, f, b, k, status>>

BeginBlock ==
  /\ pc = "blocks" /\ b <= Len(F.blocks)
  /\ PrintLine(<<"block", f, b>>)
  /\ Goto("insts")
  /\ UNCHANGED <<input, f, p, b, k, status>>

(* Mutant: the block loop is left with the position where it was.          *)
EndFunctionKeepsBlock ==
  /\ pc = "blocks" /\ b > Len(F.blocks)
  /\ f' = f + 1
  /\ Goto("func")
  /\ UNCHANGED <<input, p, b, k, out, status>>

EndFunction ==
  /\ pc = "blocks" /\ b > Len(F.blocks)
  /\ f' = f + 1 /\ b' = 1
  /\ Goto("func")
  /\ UNCHANGED <<input, p, k, out, status>>

Instruction ==
  /\ pc = "insts" /\ k <= Len(B)
  /\ PrintLine(<<"inst", f, b, k>>)
  /\ Goto("detail")
  /\ UNCHANGED <<input, f, p, b, k, status>>

EndBlock ==
  /\ pc = "insts" /\ k > Len(B)
  /\ b' = b + 1 /\ k' = 1
  /\ Goto("blocks")
  /\ UNCHANGED <<input, f, p, out, status>>

NextInstruction == k' = k + 1 /\ Goto("insts") /\ UNCHANGED status

(* Instructions of which nothing more is said.                             *)
NoDetail ==
  /\ pc = "detail" /\ I \notin {"alloca", "gep", "phi", "call", "indirect", "asm"}
  /\ NextInstruction
  /\ UNCHANGED <<input, f, p, b, out>>

(* Mutant: getValueStr of the alloca as well.                              *)
AllocaValueString ==
  /\ pc = "detail" /\ I = "alloca"
  /\ Exit("abort")
  /\ UNCHANGED <<input, f, p, b, k, out>>

Alloca ==
  /\ pc = "detail" /\ I = "alloca"
  /\ PrintLine(<<"detail", f, b, k>>)
  /\ NextInstruction
  /\ UNCHANGED <<input, f, p, b>>

(* getValueStr of the getelementptr or the phi itself, before a word of    *)
(* the detail is out.                                                      *)
ValueString ==
  /\ pc = "detail" /\ I \in {"gep", "phi"}
  /\ IF "Instruction" \in KnownValues
     THEN PrintLine(<<"detail", f, b, k>>) /\ NextInstruction
     ELSE Exit("abort") /\ UNCHANGED <<k, out>>
  /\ UNCHANGED <<input, f, p, b>>

(* getCalledFunction is null for a call through a pointer and for inline   *)
(* assembly alike, and dyn_cast<InlineAsm> reads through it; a function    *)
(* called directly is never an InlineAsm.                                  *)
CalledFunction == IF I = "call" THEN "Function" ELSE "null"

(* Mutant: dyn_cast_or_null.                                               *)
CallOrNull ==
  /\ pc = "detail" /\ I \in {"call", "indirect", "asm"}
  /\ IF CalledFunction = "null" THEN UNCHANGED out
                                ELSE PrintLine(<<"detail", f, b, k>>)
  /\ NextInstruction
  /\ UNCHANGED <<input, f, p, b>>

Call ==
  /\ pc = "detail" /\ I \in {"call", "indirect", "asm"}
  /\ IF CalledFunction = "null"
     THEN Exit("abort") /\ UNCHANGED <<k, out>>
     ELSE PrintLine(<<"detail", f, b, k>>) /\ NextInstruction
  /\ UNCHANGED <<input, f, p, b>>

(* The titles of the other globals and of the metadata, with nothing under *)
(* them; then main returns 0.                                              *)
Globals ==
  /\ pc = "func" /\ f > Len(input.funcs)
  /\ PrintLine(<<"globals">>)
  /\ Exit("0")
  /\ UNCHANGED <<input, f, p, b, k>>

Over == pc = "over" /\ UNCHANGED vars

Next ==
  \/ Refuse \/ RunPass
  \/ BeginFunction \/ Parameter \/ Linkage \/ EndFunction
  \/ BeginBlock \/ EndBlock \/ Instruction
  \/ NoDetail \/ Alloca \/ ValueString \/ Call
  \/ Globals \/ Over

Spec == Init /\ [][Next]_vars

--------------------------------------------------------------------------------
(* What a complete dump of module M holds, and in which order.             *)
ListInst(M, m, n, l) ==
  <<<<"inst", m, n, l>>>>
  \o (IF M.funcs[m].blocks[n][l] \in {"alloca", "gep", "phi", "call",
                                      "indirect", "asm"}
      THEN <<<<"detail", m, n, l>>>> ELSE <<>>)

ListBlock(M, m, n) ==
  <<<<"block", m, n>>>>
  \o FlattenSeq([l \in DOMAIN M.funcs[m].blocks[n] |-> ListInst(M, m, n, l)])

ListFunction(M, m) ==
  <<<<"func", m>>>>
  \o [q \in DOMAIN M.funcs[m].params |-> <<"param", m, q>>]
  \o <<<<"linkage", m>>>>
  \o FlattenSeq([n \in DOMAIN M.funcs[m].blocks |-> ListBlock(M, m, n)])

Listing(M) ==
  FlattenSeq([m \in DOMAIN M.funcs |-> ListFunction(M, m)]) \o <<<<"globals">>>>

(* Whatever ends the dump, what is out is the listing up to there: nothing *)
(* is skipped, repeated or out of order.                                   *)
OutputIsPrefix ==
  Parsed => IsPrefix(out, Listing(input))

(* The exit status tells a caller the truth: 0 if and only if the whole    *)
(* module has been dumped.                                                 *)
ZeroMeansAll ==
  pc = "over" =>
    (status = "0" <=> /\ Parsed
                      /\ out = Listing(input))

(* Only modules with a type, an address computation, a phi or a call the   *)
(* dump cannot handle make it die.                                         *)
Harmless(M) ==
  \A m \in DOMAIN M.funcs :
    /\ {M.funcs[m].ret} \cup ToSet(M.funcs[m].params) \subseteq KnownTypes
    /\ \A n \in DOMAIN M.funcs[m].blocks :
         {"gep", "phi", "indirect", "asm"}
           \cap ToSet(M.funcs[m].blocks[n]) = {}

DiesOnlyOnUnsupported ==
  status = "abort" => ~ Harmless(input)

================================================================================
