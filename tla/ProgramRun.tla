-------------------------------- MODULE ProgramRun -----------------------------
(***************************************************************************)
(* A compiled module running as a process.  None of this is the            *)
(* repository's code: it is what the instructions that count-bb inserts    *)
(* (load, add, store, the call of atexit, printf) do when the program      *)
(* around them runs, with the C library's exit and atexit.  A step is one  *)
(* instruction of one thread.                                              *)
(***************************************************************************)
EXTENDS IR, Integers, FiniteSets, SequencesExt

CONSTANTS
  Threads, MainThread,  \* the threads the process may have
  CounterBits,          \* width of an i64
  PrintBits,            \* width of the int that printf's %d takes
  MaxChoices            \* bound: branches decided freely; later ones leave
                        \* every loop, to their last successor

ASSUME ThreadsAssumption == MainThread \in Threads
ASSUME BitsAssumption ==
  /\ CounterBits \in Nat \ {0}
  /\ PrintBits \in Nat \ {0}
(* What follows from that; the provers know powers of numbers only.        *)
ASSUME PowersAssumption ==
  /\ 2^CounterBits \in Nat \ {0, 1}
  /\ 2^PrintBits \in Nat \ {0, 1}
ASSUME MaxChoicesAssumption == MaxChoices \in Nat

VARIABLES
  code,        \* the program image: the module it was compiled from
  proc,        \* off, running, exiting, dead
  stack,       \* per thread: fn, block bb, next instruction ip, register reg
  mem,         \* the global variables
  handlers,    \* the functions registered with atexit
  exiter,      \* the thread that runs them
  choices,     \* free choices made so far
  entered,     \* ghost: blocks begun, those of setupAtExit left out
  completed,   \* ghost: blocks that reached their terminator
  armed,       \* ghost: registrations of setupAtExit
  stores,      \* ghost: stores carried out
  reports      \* ghost: what printf showed, and the ghosts at that time

runVars == <<code, proc, stack, mem, handlers, exiter, choices,
             entered, completed, armed, stores, reports>>

RunInit ==
  /\ code = <<>>
  /\ proc = "off"
  /\ stack = [t \in Threads |-> <<>>]
  /\ mem = <<>>
  /\ handlers = <<>>
  /\ exiter = MainThread
  /\ choices = 0
  /\ entered = 0 /\ completed = 0 /\ armed = 0 /\ stores = 0
  /\ reports = <<>>

--------------------------------------------------------------------------------
Frame(name) == [fn |-> name, bb |-> 1, ip |-> 1, reg |-> 0]
TopOf(t)    == Last(stack[t])
BlockOf(t)  == Named(code, TopOf(t).fn).blocks[TopOf(t).bb]
Code(t)     == BlockOf(t)[TopOf(t).ip]
Counted(t)  == TopOf(t).fn # "setupAtExit"

(* Thread t is at an instruction op, whose execution begins a block when   *)
(* it is the block's first.                                                *)
At(t, op) ==
  /\ proc \in {"running", "exiting"}
  /\ stack[t] # <<>>
  /\ Code(t).op = op
  /\ entered' = entered + (IF TopOf(t).ip = 1 /\ Counted(t) THEN 1 ELSE 0)

GoTo(t, frame) == stack' = [stack EXCEPT ![t] = Append(Front(@), frame)]
Step(t)        == GoTo(t, [TopOf(t) EXCEPT !.ip = @ + 1])
StepWith(t, v) == GoTo(t, [TopOf(t) EXCEPT !.ip = @ + 1, !.reg = v])

(* The process starts: constructors run before main.                       *)
Start(image) ==
  /\ proc = "off"
  /\ code' = image
  /\ proc' = "running"
  /\ mem' = [g \in DOMAIN image.gvars |-> image.gvars[g].init]
  /\ stack' = [stack EXCEPT ![MainThread] =
                 <<Frame("main")>>
                 \o [k \in 1..Len(image.ctors) |-> Frame(Reverse(image.ctors)[k])]]
  /\ UNCHANGED <<handlers, exiter, choices, entered, completed, armed, stores,
                 reports>>

Work(t) ==
  /\ At(t, "work")
  /\ Step(t)
  /\ UNCHANGED <<code, proc, mem, handlers, exiter, choices, completed, armed,
                 stores, reports>>

(* A call runs the callee on top of the caller.                            *)
CallFn(t) ==
  /\ At(t, "call")
  /\ stack' = [stack EXCEPT ![t] =
                 Append(Front(@), [TopOf(t) EXCEPT !.ip = @ + 1])
                 \o <<Frame(Code(t).sym)>>]
  /\ UNCHANGED <<code, proc, mem, handlers, exiter, choices, completed, armed,
                 stores, reports>>

(* A thread between two handlers is still in exit.                         *)
Ended(u) == stack[u] = <<>> /\ (proc = "exiting" => u # exiter)

Spawn(t) ==
  /\ At(t, "spawn")
  /\ \E u \in Threads \ {MainThread} :
       /\ Ended(u)
       /\ stack' = [stack EXCEPT
                      ![t] = Append(Front(@), [TopOf(t) EXCEPT !.ip = @ + 1]),
                      ![u] = <<Frame(Code(t).sym)>>]
  /\ UNCHANGED <<code, proc, mem, handlers, exiter, choices, completed, armed,
                 stores, reports>>

Join(t) ==
  /\ At(t, "join")
  /\ \A u \in Threads \ {t} : Ended(u)
  /\ Step(t)
  /\ UNCHANGED <<code, proc, mem, handlers, exiter, choices, completed, armed,
                 stores, reports>>

AtExit(t) ==
  /\ At(t, "atexit")
  /\ handlers' = Append(handlers, Code(t).sym)
  /\ armed' = armed + (IF Code(t).sym = "setupAtExit" THEN 1 ELSE 0)
  /\ Step(t)
  /\ UNCHANGED <<code, proc, mem, exiter, choices, completed, stores, reports>>

Load(t) ==
  /\ At(t, "load")
  /\ StepWith(t, mem[Code(t).sym])
  /\ UNCHANGED <<code, proc, mem, handlers, exiter, choices, completed, armed,
                 stores, reports>>

Add(t) ==
  /\ At(t, "add")
  /\ StepWith(t, (TopOf(t).reg + 1) % 2^CounterBits)
  /\ UNCHANGED <<code, proc, mem, handlers, exiter, choices, completed, armed,
                 stores, reports>>

Store(t) ==
  /\ At(t, "store")
  /\ mem' = [mem EXCEPT ![Code(t).sym] = TopOf(t).reg]
  /\ stores' = stores + 1
  /\ Step(t)
  /\ UNCHANGED <<code, proc, handlers, exiter, choices, completed, armed,
                 reports>>

(* %d takes the low bits of its argument as a signed number.               *)
Shown(v) ==
  LET low == v % 2^PrintBits
  IN  IF 2 * low >= 2^PrintBits THEN low - 2^PrintBits ELSE low

Printf(t) ==
  /\ At(t, "printf")
  /\ reports' = Append(reports, [shown |-> Shown(TopOf(t).reg),
                                 entered |-> entered, completed |-> completed])
  /\ Step(t)
  /\ UNCHANGED <<code, proc, mem, handlers, exiter, choices, completed, armed,
                 stores>>

--------------------------------------------------------------------------------
(* Terminators *)

Complete(t) == completed' = completed + (IF Counted(t) THEN 1 ELSE 0)

Branch(t) ==
  /\ At(t, "br")
  /\ Complete(t)
  /\ LET to == Code(t).to IN
       \E s \in IF choices < MaxChoices THEN to
               ELSE {last \in to : \A other \in to : other <= last} :
         /\ choices' = IF Cardinality(to) > 1 /\ choices < MaxChoices
                       THEN choices + 1 ELSE choices
         /\ GoTo(t, [fn |-> TopOf(t).fn, bb |-> s, ip |-> 1, reg |-> 0])
  /\ UNCHANGED <<code, proc, mem, handlers, exiter, armed, stores, reports>>

(* When main returns to the start-up code, that calls exit.                *)
Return(t) ==
  /\ At(t, "ret")
  /\ Complete(t)
  /\ stack' = [stack EXCEPT ![t] = Front(@)]
  /\ IF proc = "running" /\ t = MainThread /\ Len(stack[t]) = 1
     THEN proc' = "exiting" /\ exiter' = t
     ELSE UNCHANGED <<proc, exiter>>
  /\ UNCHANGED <<code, mem, handlers, choices, armed, stores, reports>>

(* exit: the frames of the caller are left where they are, for ever.       *)
Exit(t) ==
  /\ At(t, "exit")
  /\ proc = "running"
  /\ proc' = "exiting" /\ exiter' = t
  /\ stack' = [stack EXCEPT ![t] = <<>>]
  /\ UNCHANGED <<code, mem, handlers, choices, completed, armed, stores,
                 reports>>

(* The handlers run last in, first out; then the process ends, whatever    *)
(* its other threads are doing.                                            *)
RunHandler ==
  /\ proc = "exiting" /\ stack[exiter] = <<>> /\ handlers # <<>>
  /\ stack' = [stack EXCEPT ![exiter] = <<Frame(Last(handlers))>>]
  /\ handlers' = Front(handlers)
  /\ UNCHANGED <<code, proc, mem, exiter, choices, entered, completed, armed,
                 stores, reports>>

Die ==
  /\ proc = "exiting" /\ stack[exiter] = <<>> /\ handlers = <<>>
  /\ proc' = "dead"
  /\ UNCHANGED <<code, stack, mem, handlers, exiter, choices, entered,
                 completed, armed, stores, reports>>

ThreadStep(t) ==
  \/ Work(t) \/ CallFn(t) \/ Spawn(t) \/ Join(t) \/ AtExit(t)
  \/ Load(t) \/ Add(t) \/ Store(t) \/ Printf(t)
  \/ Branch(t) \/ Return(t) \/ Exit(t)

ExitStep == RunHandler \/ Die

================================================================================
