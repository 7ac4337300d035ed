------------------------------- MODULE CountExecBB -----------------------------
(***************************************************************************)
(* The count-bb pass (lib/snippets/CountExecBB.cc).  setup creates the     *)
(* counter, the function that prints it and the call of atexit at the head *)
(* of main; then every block of every function but that one receives a     *)
(* load, an add and a store of the variable NAMED bbCounter before its     *)
(* terminator.                                                             *)
(***************************************************************************)
EXTENDS IR

CONSTANT Modules   \* the modules the pass may be given

VARIABLES
  ir,       \* the module
  input,    \* the module as the pass received it
  fn, bb,   \* positions of F and B in the loops of runOnModule
  pc        \* setup; blocks: in the loops; done; failed: the tool has died

vars == <<ir, input, fn, bb, pc>>

k_atexitCallStr == "setupAtExit"
bbCounterStr    == "bbCounter"
I64Zero == [type |-> "i64", local |-> FALSE, init |-> 0]

(* A new GlobalVariable whose name is taken gets the next free suffix: one *)
(* of the FreshNames, or another that is no symbol either.                 *)
FreshNames == <<bbCounterStr, "bbCounter.1", "bbCounter.2">>
FreshName(M) ==
  LET Free == {k \in DOMAIN FreshNames : FreshNames[k] \notin Symbols(M)}
  IN  IF Free = {}
      THEN CHOOSE name :
             name \notin Symbols(M) \cup {k_atexitCallStr, "atexit", "printf"}
      ELSE FreshNames[CHOOSE k \in Free : \A m \in Free : k <= m]

Init ==
  /\ ir \in Modules
  /\ input = ir
  /\ fn = 1 /\ bb = 1
  /\ pc = "setup"

--------------------------------------------------------------------------------
(* setup *)

(* Without a main the pass calls exit(1).                                  *)
NoMain ==
  /\ pc = "setup"
  /\ "main" \notin FunctionNames(ir)
  /\ pc' = "failed"
  /\ UNCHANGED <<ir, input, fn, bb>>

(* main has a first instruction to insert before, and the three functions  *)
(* can be had with the types the pass gives them; otherwise a cast<> or a  *)
(* front() of an empty list ends the tool.                                 *)
CanSetup ==
  /\ Named(ir, "main").blocks # <<>>
  /\ MayGetOrInsert(ir, k_atexitCallStr, "void()")
  /\ MayGetOrInsert(ir, "atexit", "int(void())")
  /\ MayGetOrInsert(ir, "printf", "int(char*,...)")

SetupDies ==
  /\ pc = "setup"
  /\ "main" \in FunctionNames(ir)
  /\ ~ CanSetup
  /\ pc' = "failed"
  /\ UNCHANGED <<ir, input, fn, bb>>

AddCounter(M, counter) ==
  [M EXCEPT !.gvars = [g \in DOMAIN @ \cup {counter} |->
                         IF g = counter THEN I64Zero ELSE @[g]]]

(* Mutants: the call goes to the end of the block, or nowhere.             *)
RegisterInMainLate(M) ==
  [M EXCEPT !.funcs[Position(M, "main")].blocks[1] =
     InsertBefore(@, Len(@), <<Instr("atexit", k_atexitCallStr)>>)]
RegisterNowhere(M) == M

(* The call atexit(setupAtExit) goes before the first instruction of main. *)
RegisterInMain(M) ==
  [M EXCEPT !.funcs[Position(M, "main")].blocks[1] =
     InsertBefore(@, 1, <<Instr("atexit", k_atexitCallStr)>>)]

(* create_atexitCall appends the printing block to setupAtExit.            *)
create_atexitCall(M, counter) ==
  [GetOrInsert(M, "printf", "int(char*,...)")
     EXCEPT !.funcs[Position(M, k_atexitCallStr)].blocks =
       Append(@, <<Instr("load", counter), Instr("printf", ""), Ret("void")>>)]

Setup ==
  /\ pc = "setup"
  /\ "main" \in FunctionNames(ir)
  /\ CanSetup
  /\ LET counter == FreshName(ir)
         M1 == AddCounter(ir, counter)
         M2 == GetOrInsert(M1, k_atexitCallStr, "void()")
         M3 == GetOrInsert(M2, "atexit", "int(void())")
         M4 == RegisterInMain(M3)
     IN  ir' = create_atexitCall(M4, counter)
  /\ pc' = "blocks"
  /\ UNCHANGED <<input, fn, bb>>

--------------------------------------------------------------------------------
(* runOnModule *)

InLoop == pc = "blocks" /\ fn <= Len(ir.funcs)
F == ir.funcs[fn]

(* Mutant: setupAtExit is instrumented like any other function.            *)
SkippedNever == FALSE

Skipped == F.name = k_atexitCallStr

(* Mutants: the block iterator is not reset, or the function iterator is   *)
(* not advanced past a skipped function.                                   *)
SkipFunctionKeepsB ==
  /\ InLoop
  /\ Skipped \/ bb > Len(F.blocks)
  /\ fn' = fn + 1
  /\ UNCHANGED <<ir, input, bb, pc>>
SkipFunctionContinue ==
  /\ InLoop
  /\ Skipped \/ bb > Len(F.blocks)
  /\ fn' = IF Skipped THEN fn ELSE fn + 1
  /\ bb' = 1
  /\ UNCHANGED <<ir, input, pc>>

SkipFunction ==
  /\ InLoop
  /\ Skipped \/ bb > Len(F.blocks)
  /\ fn' = fn + 1 /\ bb' = 1
  /\ UNCHANGED <<ir, input, pc>>

(* getGlobalVariable finds variables that are not local to the module; the *)
(* add needs an i64.                                                       *)
CounterFound ==
  /\ bbCounterStr \in DOMAIN ir.gvars
  /\ ~ ir.gvars[bbCounterStr].local
  /\ ir.gvars[bbCounterStr].type = "i64"

(* Mutants: the store before the add, the code inserted twice.             *)
CountingCodeSwapped ==
  <<Instr("load", bbCounterStr), Instr("store", bbCounterStr), Instr("add", "")>>
CountingCodeTwice ==
  <<Instr("load", bbCounterStr), Instr("add", ""), Instr("store", bbCounterStr),
    Instr("load", bbCounterStr), Instr("add", ""), Instr("store", bbCounterStr)>>

CountingCode ==
  <<Instr("load", bbCounterStr), Instr("add", ""), Instr("store", bbCounterStr)>>

(* Mutant: the code goes to the end of the block, after the terminator.    *)
RunOnBasicBlockAtEnd ==
  /\ InLoop /\ ~ Skipped /\ bb <= Len(F.blocks)
  /\ CounterFound
  /\ ir' = [ir EXCEPT !.funcs[fn].blocks[bb] = @ \o CountingCode]
  /\ bb' = bb + 1
  /\ UNCHANGED <<input, fn, pc>>

RunOnBasicBlock ==
  /\ InLoop /\ ~ Skipped /\ bb <= Len(F.blocks)
  /\ CounterFound
  /\ ir' = [ir EXCEPT !.funcs[fn].blocks[bb] =
              InsertBefore(@, Len(@), CountingCode)]
  /\ bb' = bb + 1
  /\ UNCHANGED <<input, fn, pc>>

(* The assertion on the counter fails, or the add gets an operand of       *)
(* another type (a build without assertions makes a module of it that the  *)
(* verifier of opt rejects).                                               *)
RunOnBasicBlockDies ==
  /\ InLoop /\ ~ Skipped /\ bb <= Len(F.blocks)
  /\ ~ CounterFound
  /\ pc' = "failed"
  /\ UNCHANGED <<ir, input, fn, bb>>

Finish ==
  /\ pc = "blocks" /\ fn > Len(ir.funcs)
  /\ pc' = "done"
  /\ UNCHANGED <<ir, input, fn, bb>>

Next ==
  \/ NoMain \/ SetupDies \/ Setup
  \/ SkipFunction \/ RunOnBasicBlock \/ RunOnBasicBlockDies \/ Finish

Spec == Init /\ [][Next]_vars

================================================================================
