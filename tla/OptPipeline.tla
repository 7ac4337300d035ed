------------------------------- MODULE OptPipeline -----------------------------
(***************************************************************************)
(* `opt` running posix-main and count-bb over one module, in a given order *)
(* and possibly more than once.  A pass starts when the one before it is   *)
(* done and works on the module that one left.                             *)
(***************************************************************************)
EXTENDS IR, FiniteSets

CONSTANTS
  Modules,    \* the modules opt may be given
  Pipelines,  \* sequences of "posix-main" and "count-bb"
  Asserts     \* whether the passes are built with assertions

ASSUME ModulesAssumption == \A M \in Modules : IsModule(M, STRING) /\ Verifies(M)
ASSUME PipelinesAssumption ==
  Pipelines \subseteq Seq({"posix-main", "count-bb"})

VARIABLES
  ir, input, fn, bb, pc,   \* as in CountExecBB and POSIXMain
  source,                  \* the module opt was given
  passes, at               \* the pipeline, and the position of the pass in it

passVars == <<ir, input, fn, bb, pc>>
vars == <<passVars, source, passes, at>>

Count == INSTANCE CountExecBB
Posix == INSTANCE POSIXMain

Init ==
  /\ source \in Modules
  /\ ir = source /\ input = source
  /\ fn = 1 /\ bb = 1
  /\ pc = "done"
  /\ passes \in Pipelines
  /\ at = 0

(* The next pass is called on the module; its loops start at the front.    *)
StartPass ==
  /\ pc = "done"
  /\ at < Len(passes)
  /\ at' = at + 1
  /\ input' = ir
  /\ fn' = 1 /\ bb' = 1
  /\ pc' = IF passes[at + 1] = "count-bb" THEN "setup" ELSE "posix"
  /\ UNCHANGED <<ir, source, passes>>

CountStep == Count!Next /\ UNCHANGED <<source, passes, at>>
PosixStep == Posix!Next /\ UNCHANGED <<input, fn, bb, source, passes, at>>

Finished == pc = "done" /\ at = Len(passes)
Stopped == (Finished \/ pc = "failed") /\ UNCHANGED vars

Next == StartPass \/ CountStep \/ PosixStep \/ Stopped

Spec == Init /\ [][Next]_vars

(* opt is one sequential computation.                                      *)
FairSpec == Spec /\ WF_vars(Next)

--------------------------------------------------------------------------------
Runs(pass) == Cardinality({k \in 1..at : passes[k] = pass})

(* Names count-bb uses without asking whether the module has them already. *)
NoReservedName(M) ==
  {"setupAtExit", "bbCounter", "bbCounter.1"} \cap Symbols(M) = {}

(* A sequence of instructions n times over.                                *)
Times(n, code) ==
  [k \in 1..(n * Len(code)) |-> code[((k - 1) % Len(code)) + 1]]

(* What count-bb should make of a block: its own code, and n times the     *)
(* counting code before the terminator; at its head the registrations, of  *)
(* which only the first block of main has any.                             *)
Registration == <<Instr("atexit", "setupAtExit")>>
Counting ==
  <<Instr("load", "bbCounter"), Instr("add", ""), Instr("store", "bbCounter")>>

CountedBlock(block, registrations, n) ==
  Times(registrations, Registration)
  \o SubSeq(block, 1, Len(block) - 1)
  \o Times(n, Counting)
  \o <<block[Len(block)]>>

RegisteredIn(name, m, n) == IF name = "main" /\ m = 1 THEN n ELSE 0

(* Whatever the order of the passes and of the functions, each block of    *)
(* the program is counted once per run of count-bb: no function is missed, *)
(* the one posix-main appends while the list is walked included, and       *)
(* nothing else of it changes.                                             *)
EveryBlockCountedOncePerRun ==
  Finished /\ NoReservedName(source) =>
    \A name \in FunctionNames(source) :
      /\ name \in FunctionNames(ir)
      /\ LET old == Named(source, name).blocks
             new == Named(ir, name).blocks
         IN  /\ Len(new) = Len(old)
             /\ \A m \in DOMAIN old :
                  new[m] = CountedBlock(old[m],
                                        RegisteredIn(name, m, Runs("count-bb")),
                                        Runs("count-bb"))

(* The handler prints the variable that the blocks increment, and is not   *)
(* counted itself.                                                         *)
HandlerPrintsTheCounter ==
  Finished /\ Runs("count-bb") > 0 =>
    Named(ir, "setupAtExit").blocks[1] =
      <<Instr("load", "bbCounter"), Instr("printf", ""), Ret("void")>>

HandlerPrintsTheCounterIfNotReserved ==
  NoReservedName(source) => HandlerPrintsTheCounter

(* A comment of runOnBasicBlock on the variable it gets by name: "the value *)
(* is default to 0".                                                       *)
CounterStartsAtZero ==
  Finished /\ Runs("count-bb") > 0 => ir.gvars["bbCounter"].init = 0

(* posix-main gives a main that returns nothing an int to return.          *)
MainIsVoid(M) ==
  "main" \in FunctionNames(M) /\ Named(M, "main").sig = "void()"

(* What opt writes is a module that verifies, with the one main that the   *)
(* pipeline calls for, unless the program's returned nothing, or had two   *)
(* parameters of other types: posix-main takes that for a posix main when  *)
(* assertions are off.                                                     *)
OutputVerifies ==
  Finished /\ ~ MainIsVoid(source) =>
    /\ Verifies(ir)
    /\ /\ Runs("posix-main") > 0
       /\ "main" \in FunctionNames(source)
       /\ Named(source, "main").sig \notin Posix!OtherTwoParameters
       => Named(ir, "main").sig = "int(int,char**)"

(* opt comes to an end on every module: the loops of count-bb do not run   *)
(* after the functions and blocks the passes add.                          *)
Terminates == <>(Finished \/ pc = "failed")

================================================================================
