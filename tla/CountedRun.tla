-------------------------------- MODULE CountedRun -----------------------------
(***************************************************************************)
(* End to end: opt runs its passes over a program, and if the module that  *)
(* comes out verifies the program runs.  What the handler of count-bb      *)
(* prints is compared with the blocks that were executed.                  *)
(***************************************************************************)
EXTENDS OptPipeline, ProgramRun

(* What is compiled is a whole program: its main, its constructors and     *)
(* what it calls have bodies, and no name is reserved.  A library function *)
(* it calls, and a load, store or print of its own, is work.               *)
Defines(M, name) ==
  name \in FunctionNames(M) /\ Named(M, name).blocks # <<>>

OwnOps ==
  {"work", "call", "spawn", "join", "atexit", "exit", "br", "ret"}

IsProgram(M) ==
  /\ NoReservedName(M)
  /\ Defines(M, "main")
  /\ M.ctors \in Seq(STRING)
  /\ \A k \in DOMAIN M.ctors : Defines(M, M.ctors[k])
  /\ \A ins \in Calls(M) : Defines(M, ins.sym)
  /\ \A ins \in Instrs(M) :
       ins.op \in OwnOps /\ (ins.op = "br" => ins.to # {})

ASSUME ProgramsAssumption == \A M \in Modules : IsProgram(M)

allVars == <<vars, runVars>>

WholeInit == Init /\ RunInit

Compile == (StartPass \/ CountStep \/ PosixStep) /\ UNCHANGED runVars

Execute ==
  /\ Finished /\ Verifies(ir)
  /\ Start(ir) \/ ExitStep \/ \E t \in Threads : ThreadStep(t)
  /\ UNCHANGED vars

Broken == Finished /\ ~ Verifies(ir)

Over ==
  /\ pc = "failed" \/ proc = "dead" \/ Broken
  /\ UNCHANGED allVars

WholeNext == Compile \/ Execute \/ Over

WholeSpec == WholeInit /\ [][WholeNext]_allVars

(* opt is one computation; the scheduler of the process starves no thread. *)
ThreadRuns(t) ==
  /\ Finished /\ Verifies(ir)
  /\ ThreadStep(t)
  /\ UNCHANGED vars

ExitRuns ==
  /\ Finished /\ Verifies(ir)
  /\ Start(ir) \/ ExitStep
  /\ UNCHANGED vars

FairWholeSpec ==
  /\ WholeSpec
  /\ WF_allVars(Compile)
  /\ WF_allVars(ExitRuns)
  /\ \A t \in Threads : WF_allVars(ThreadRuns(t))

--------------------------------------------------------------------------------
Weight == Cardinality({k \in DOMAIN passes : passes[k] = "count-bb"})

(* Stores of the counter that thread t has made in the block it is in.     *)
StoredAhead(t) ==
  IF stack[t] = <<>> THEN 0
  ELSE Cardinality({n \in 1..(TopOf(t).ip - 1) : BlockOf(t)[n].op = "store"})

(* There is no counter unless count-bb ran.                                *)
Counter == IF proc = "off" \/ Weight = 0 THEN 0 ELSE mem["bbCounter"]

Sequential(M) == \A ins \in Instrs(M) : ins.op # "spawn"

(* With one thread the counter is exact at every instruction: it is the    *)
(* number of completed blocks, plus the stores of the block under way.     *)
CounterIsExact ==
  Sequential(source) =>
    Counter = (Weight * completed + StoredAhead(MainThread)) % 2^CounterBits

(* No interleaving of threads makes the counter exceed the blocks that     *)
(* have begun, however many updates are lost; so no report does.           *)
NeverOvercounts ==
  /\ Counter <= Weight * entered
  /\ \A k \in DOMAIN reports : reports[k].shown <= Weight * reports[k].entered

(* The handler is registered before main does anything: while main is on   *)
(* the stack with its entry begun, or once it is over, the report is       *)
(* pending, being printed or printed.                                      *)
ReportIsArmed ==
  /\ armed <= Len(reports)
       + Cardinality({k \in DOMAIN handlers : handlers[k] = "setupAtExit"})
       + Cardinality({t \in Threads :
                        stack[t] # <<>> /\ TopOf(t).fn = "setupAtExit"})
  /\ \A t \in Threads : \A k \in DOMAIN stack[t] :
       LET fr == stack[t][k] IN
         fr.fn = "main" /\ (fr.bb > 1 \/ fr.ip > Weight) => armed >= Weight

(* A program of one thread that never calls exit, whose constructors       *)
(* neither register handlers nor call what could, and whose main is called *)
(* by the start-up code alone.                                             *)
LeavesByReturn(M) ==
  /\ \A ins \in Instrs(M) : ins.op \notin {"exit", "spawn"}
  /\ \A ins \in Calls(M) : ins.sym # "main"
  /\ \A k \in DOMAIN M.ctors :
       /\ M.ctors[k] # "main"
       /\ \A ins \in InstrsOf(Named(M, M.ctors[k])) :
            ins.op \notin {"atexit", "call"}

(* When the process of such a program is over, each report stands for the  *)
(* whole run: every block that was begun, those of constructors and of     *)
(* other handlers included.                                                *)
WholeRunReported ==
  proc = "dead" /\ LeavesByReturn(source) =>
    /\ Len(reports) = armed
    /\ armed >= Weight
    /\ \A k \in DOMAIN reports :
         reports[k].shown = Shown((Weight * entered) % 2^CounterBits)

(* The pass's description: the count shown is that of executed blocks.     *)
ReportsExecutedBlocks ==
  \A k \in DOMAIN reports : reports[k].shown = Weight * reports[k].entered

(* What a thread has under way: the instruction before the next one tells. *)
UnderWay(t) ==
  IF stack[t] = <<>> \/ TopOf(t).ip = 1 THEN "idle"
  ELSE CASE BlockOf(t)[TopOf(t).ip - 1].op = "load" -> "loaded"
         [] BlockOf(t)[TopOf(t).ip - 1].op = "add" -> "added"
         [] OTHER -> "idle"

(* The program of many blocks, calls and handlers that count-bb has        *)
(* instrumented implements the counting protocol, whose guarantees for any *)
(* number of threads are theorems of CountProtocolProofs.                  *)
Protocol == INSTANCE CountProtocol WITH
  Modulus  <- 2^CounterBits,
  counter  <- Counter,
  reg      <- [t \in Threads |->
                 IF UnderWay(t) = "idle" THEN 0 ELSE TopOf(t).reg],
  at       <- [t \in Threads |-> UnderWay(t)],
  stores   <- stores,
  reported <- [k \in DOMAIN reports |-> reports[k].shown]
ImplementsProtocol == Protocol!Spec

(* A program whose loops end is reported on, unless opt failed on it.      *)
EventuallyReports == <>(pc = "failed" \/ Broken \/ reports # <<>>)

================================================================================
