# A verification project for snippets_llvm

The repository is a collection of LLVM snippets: module and function passes for `opt`,
a stand-alone tool that dumps an IR file, a small library of helpers, and two scripts
that drive `clang`, `opt` and `dot` over fixtures. This directory holds TLA+ models of
the parts that have behaviour of their own, the TLC runs that check them, and the
proofs that TLAPS checks. Paths below are relative to the repository's sources;
`PROJECT.json` maps each definition to the lines it models.

## 1. Inventory

| part | code | state it keeps | operations |
|---|---|---|---|
| cfg-path pass | `lib/snippets/DumpCFGPath.cc` | the recursion of `hasPath`, a visited set per activation | `traversePath`, `hasPath` |
| count-li pass | `lib/snippets/CountLI.cc` | position in the block list, what is printed | `runOnFunction` |
| count-bb pass | `lib/snippets/CountExecBB.cc` | the module it rewrites | `setup`, `create_atexitCall`, `runOnBasicBlock`, `runOnModule` |
| the program count-bb has instrumented | the code it inserts | `bbCounter`, the exit handlers, the threads | load/add/store, `atexit`, `printf` |
| posix-main pass | `lib/snippets/POSIXMain.cc` | the module it rewrites | `POSIXizeMain` |
| DumpConsts pass | `lib/snippets/DumpConsts.cc` | positions of four loops, output so far | `runOnModule`, `dumpConst` |
| ir_dump tool | `tools/dump/Dump.cc`, `lib/mybase/LLDump.cc` | positions in the module, output so far, exit status | `main`, `runOnModule/Func/BasicBlock`, `getTypeStr`, `getValueStr` |
| printInstKind, rbscope_diagnostics | `lib/mybase/LLDump.cc`, `include/LLDump.hh` | position in the table, the line | the `INST_KIND_DUMP` rows |
| prettyPrint | `lib/mybase/LLDump.cc`, `include/LLDump.hh` | the terminal's colour, two unsigned counters | `WITH_COLOR`, the two line loops |
| LLUtils | `lib/mybase/LLUtils.cc` | none between calls; the recursion of `isIntegerRelatedType`, two walks | eighteen queries about values, types, calls and positions |
| FLOW script | `res/FLOW/run.py` | `.dot` and `.pdf` files with their times | isfile, getmtime, remove, dot |
| passes script | `res/passes/run.py` | `.ll` files of three stages | clean, clang, opt, opt, remove |
| misc, templates, Common, fixtures | `tools/misc`, `lib/templates`, `lib/mybase/Common.cc`, `res` | none | demonstrations |

How the parts meet. `opt` runs passes one after the other: count-bb and posix-main over
one module that each finds as the other left it, in either order and possibly twice;
count-li and cfg-path over a function neither changes, so that their outputs must agree.
What count-bb writes is executed later, by a process whose threads, exits and handlers
the pass does not see; pass and process share one variable, found by its *name*.
printInstKind, prettyPrint and DumpConsts share the error stream and the terminal.
ir_dump links the helper library, whose functions may end the process. The scripts share
the file system with editors and with other runs of themselves.

What is hard. cfg-path: the visited set travels by value, so correctness depends on the
whole recursion stack. count-li: a preheader is a property of paths, printed without
looking at one. count-bb: looping over a list that setup extends, names that may be
taken, and at run time races, early exits, recursion into `main`, other handlers and the
width of the number. posix-main: erasing a function that is still used. LLUtils: a
recursion over types that may contain themselves, three queries that each treat the
address of a variable in their own way, a chain of conditions that falls through to a
fatal error, a null callee. prettyPrint: dying between a change of colour and its reset,
an unsigned that is incremented and then counted down. DumpConsts: constants have no
names, and their names are dereferenced. Scripts: edits during a drawing, coarse clocks,
interruptions, overlapping runs, relative names that mean other files elsewhere,
commands whose failure goes unnoticed or that are not installed. The list with
lines is `hazards` in `PROJECT.json`.

What makes each part correct. cfg-path prints for each block exactly the other blocks
reachable from it. count-li prints as preheader a block that leads to the loop and is not
in it. count-bb gives each block of the program, and no other, one increment before its
terminator, and registers one handler that shows the sum. posix-main yields a valid
module with a two-parameter main. ir_dump and DumpConsts print a prefix of the full
listing; ir_dump exits with 0 exactly when it is complete. printInstKind ends, and
names every class it has a row for. prettyPrint hands the terminal back uncoloured and
writes the lines asked for. The queries of LLUtils agree with each other and answer for
the whole type, expression or function. After a run of either script the outputs show
the present source.

## 2. Modules

| module | models | state -> code |
|---|---|---|
| `CFG` | `succ_begin`/block list | graphs; `Reaches`, `DeadEnd` by closed sets, without recursion |
| `CFGPathReport` | what cfg-path promises | one line per block |
| `DumpCFGPath` | the cfg-path pass | `i`,`j` the loops of traversePath; `frames` the activations of hasPath with their own `visited` and `pi`; `ret` the value returned |
| `CountLI` | the count-li pass | `blockAt` the iterator, `report` the blocks printed with their preheaders; `LI` is LLVM's LoopInfo (external), defined from the graph |
| `OptAnalyses` | `opt -count-li -cfg-path` | composes the two over the same function |
| `IR` | `llvm::Module` as the passes use it (external) | functions, blocks, instructions, globals, the verifier |
| `CountExecBB` | the count-bb pass | `fn`,`bb` the iterators of runOnModule; `ir` the module |
| `POSIXMain` | the posix-main pass | one action per way through `POSIXizeMain` |
| `OptPipeline` | `opt` with a list of passes | composes the two by `INSTANCE` over the same `ir` and `pc` |
| `ProgramRun` | a process running a module (external) | call stacks, memory, handlers; one instruction per step |
| `CountedRun` | opt, then the process | composes `OptPipeline` and `ProgramRun` |
| `CountProtocol` | the inserted instructions alone | per thread idle, loaded, added; the counter; any number of threads |
| `ExecCount` | what count-bb promises | a number of executed blocks, and reports of it |
| `IRDump` | the dump tool | positions of the three loops, `out`, `status` |
| `InstKind` | printInstKind | the table as sequences of rows, `at` the row |
| `PrettyPrint` | prettyPrint | `section` the WITH_COLOR under way, `color` of the terminal, both counters; line ends in the text of the value (a switch has several) are data of it |
| `DumpConsts` | the DumpConsts pass | `place` its four iterators, `out` the pieces written |
| `Printing` | a call of one of these four | composes them, each with its own variables and a terminal to hand back |
| `IntegerRelated` | isIntegerRelatedType | `frames` the activations with their loop variable |
| `LLUtils` | all queries of the library | `question`, `answer`, `at` and `found` of the walks; extends `IntegerRelated` |
| `FlowRun` | FLOW script | one step per file operation; a file is a directory and a name, `cwd` the directory a run was started in, `mtime` the first of the two times compared, `drawn` the version dot has read; `setting` which files there are, who runs the script, whether dot is installed |
| `PassesRun` | passes script | the version each `.ll` file is of, in two directories |

`MC*` modules hold the inputs TLC runs on, `*Proofs` modules the theorems (section 5).
In every module the definitions named in a comment "Mutant:" are wrong variants, no part
of the specification: substituted for the definition that follows they make a property
fail, which shows that it says something about that definition.

Refinements. `DumpCFGPath` implements `CFGPathReport` (checked and proved). `CountedRun`,
with its blocks, calls, handlers and threads, implements `CountProtocol`
(`ImplementsProtocol`, checked); `CountProtocol` with one thread implements `ExecCount`
(proved), and for more threads its upper bound is proved.

Choices worth knowing:

* `IR` keeps of an instruction its kind, one symbol and, for branches, its successors. A
  pass's effect on other instructions is that there is none, and
  `EveryBlockCountedOncePerRun` compares whole blocks.
* An assertion or a `cast<>` that fails, `front()` of an empty list, a null dereference
  and `report_fatal_error` end the process (`failed`, `abort`, `dies`, `died`). The
  constant `Asserts` says whether assertions are compiled in. Without them a use of an
  erased object may also go well, `llvm_unreachable` do nothing, and a `cast` of
  LLUtils that should fail answer anything (`Undefined`, `Garbage`). `printing` and
  `opt_passes` run a build without assertions, `counted_run` and `lib_queries` one with;
  the theorems hold of both.
* `ProgramRun` executes loads and stores of different threads in any interleaving, each
  atomically. Torn or cached accesses, which a data race would also allow, could only
  lose more updates; `NeverOvercounts` is claimed for this memory.
* A spawned thread is one call stack; `exit` leaves the other threads running while the
  handlers run, and they may be cut off anywhere.
* A type in `LLUtils` is a base type under stars; in `IntegerRelated` a context is a table
  of types, so that a struct may refer to itself. Pointers are typed, as in the LLVM
  the code is written for.
* A value of prettyPrint is its class, whether it has a name and a function, and how many
  line ends are in what is printed of either; a constant
  of DumpConsts is its class (an undefined value of pointer type being one by itself); a nested constant of elimConstExpr is the list of what its
  first operands are.
* `unsigned` is 0..`MaxUnsigned`, the counter 0..`Modulus` - 1.
* The clock of `FlowRun` stands still over many steps, as file times do.
* Ghost variables no guard reads: `raced` and `edited` in `FlowRun`, `edited` in
  `PassesRun`, `asked` in `PrettyPrint`, `stores` and `reported` in `CountProtocol`,
  `entered`, `completed`, `armed`, `stores` and `reports` in `ProgramRun`.

## 3. Runs

| run | shows | bounds |
|---|---|---|
| `cfg_path` | the search is right, keeps to simple paths, ends, implements `CFGPathReport`; its inductive invariant; what count-li prints agrees with it | every graph of 3 blocks with up to 2 successors (repeats included), of 4 blocks up to order, the two graphs of `res/FLOW` |
| `opt_passes` | each block counted once per run of the pass; the handler prints the right variable; output verifies; opt ends (all but the last proved as well) | main and one function in both orders, declared, with 1 or 2 blocks, calling each other or themselves, 4 signatures, taken names; 5 pipelines |
| `counted_run` | the counter is exact after every instruction of one thread and never too large with more; the report is armed before anything of main and is of the whole run when main is left by return; implements `CountProtocol`; a report comes | 9 programs, two of them with threads that are joined or detached, 4 pipelines, 3-bit counter so that it wraps, at most 8 free branches |
| `lost_update`, `truncated_report`, `uncounted_exit` | *violations* of the pass's description | one program each |
| `own_counter` | *violation* of a comment of runOnBasicBlock | as `opt_passes` |
| `printing` | chains go from class to subclass; no listed class is fatal; colour and lines of prettyPrint; the listing of DumpConsts; the output of ir_dump is a start of its listing, status 0 means all of it, it dies only where it has to; every call ends | an instruction of each class; a value of each class, named or not, attached or not, of one line or more, with every pair of line counts up to `MaxUnsigned` = 3; every pair of operand classes, two-block functions; for ir_dump all functions of up to 2 blocks of 2 instructions of 7 kinds, signatures with an unknown type |
| `lib_queries` | the type recursion answers for the whole type; the pointer queries agree; no pointer is denied; walks keep the object and find the call sites, all and only those, in order; every question ends | values and instructions of every class and type up to three stars; constants nested up to three deep; functions of up to two blocks of two calls; tables of five types with self-reference |
| `callee_type` | *violation* of the comment on the second branch of getCalleeFnType | as `lib_queries` |
| `flow` | outdated drawings are noticed; after a run alone everything in the directory it was started in is right, and it crashes for two reasons only; it settles; with two overlapping, right again and again | five settings: one run at a time over 2 files; two over 1 file; one over 1 file with a `.dot`, or just a pdf, of that name in the other directory; one without dot; 2 edits, 3 ticks, 1 interruption |
| `passes_run` | nothing stale is read; the end tells the truth, with commands that fail or are not installed | 3 runs, 2 edits |

Why the bounds are enough. Three blocks give every shape of cycle, diamond and dead
branch a two-way search meets, four add a nesting of two and loops with preheaders; and
`cfg_path` is backed by proofs for all sizes. Two blocks per function and two functions
put the iterators of runOnModule on every boundary, and `opt_passes` too has its safety
proved for all sizes. A 3-bit counter wraps within a run,
a two-bit unsigned at its increment. Two ticks separate "same time" from "later". Three
stars are one more than any query of LLUtils looks through. Five types hold a struct
that reaches itself through a pointer, next to a sibling that is no integer. Constants
named `Max...` bound clocks, edits, branches and starts; after the last edit `FlowRun`
still has a tick left, so that drawings can become newer than their sources. `passes_run`
may stop (no more starts), hence its `CHECK_DEADLOCK FALSE`; all other specifications
say where they stop.

What the violations mean. The count is exact for one thread at every instruction
(`CounterIsExact`), yet "executed" blocks are not always counted: updates of racing
threads are lost, a block left by `exit` never reaches its counting code (hence the
condition of `WholeRunReported`), and `%d` shows the low half of the i64. A program that has a
`bbCounter` of its own gets *that* one incremented, while the handler prints the renamed
one. getCalleeFnType has a branch for function pointers, but dereferences their null
callee on the way to it.

What else the models showed. posix-main makes of a `void main()` an int main that returns
nothing, which the verifier rejects: `OutputVerifies` is stated for the other programs
(the run has void mains too). Two overlapping runs of the FLOW script can go on for ever
removing the drawing the other has just made (`EventuallyFresh` holds for one run at a time only;
`RepeatedlyFresh` is what is left for two), and the second can crash in getmtime.
A drawing that an edit overtook, or that was cut short, may be newer than its source and
pass for right until the next edit (`raced`). Started from another directory the script
looks its names up there: it draws what it finds, and a pdf whose `.dot` is not there
ends it in getmtime, which nothing catches. Where dot is not installed the old pdf is
removed before the call raises. The passes script removes files of the current directory
by names listed elsewhere. ir_dump cannot get past a
getelementptr, a phi, an indirect call or inline assembly, so `_dump_InlineASM` and the
body of `_dump_PHINode` are never executed. The rows of printInstKind for the single
casts and for MemCpyInst are never reached. `is_inlineAsm_withSideEffect` can never say
yes. DumpConsts dies on a constant array, with assertions on a token or an undefined value
that is no pointer as well, does not end the line of a struct or data
array, and never reaches the last branch of dumpConst. prettyPrint asked for the largest
number of lines after a variable writes none of them, and of a detached instruction it
dies with the terminal coloured.

## 4. Fairness

`cfg_path`, `opt_passes`, `printing`, `lib_queries`: one sequential computation,
`WF(Next)`. `counted_run`: opt is one computation; the process has weak fairness per
thread (a preemptive scheduler starves none) and for the start and the exit sequence;
loops end because free branches are bounded. `flow`: weak fairness of the clock and of
the steps of a run under way; strong fairness of `ListHere`, since someone keeps running
the script in its directory - that is the use it has. The other runs check safety only
and assume none; neither does any theorem.

## 5. Proofs

| module | theorems | assumes |
|---|---|---|
| `DumpCFGPathProofs` | `SearchInvariant`, `TypeCorrect`, `SearchIsOnSimplePath`, `NoPathIsLost`, `AnswersAreRight`, `PassImplementsReport`; `AnalysesAgree` | graphs are well formed, the entry has no predecessor (`FunctionsAssumption`) |
| `OptPipelineProofs` | `PipelineInvariant`, `BlocksAreCounted`, `HandlerPrints`, `OutputIsAModule` | opt is given modules that verify (`ModulesAssumption`) and a sequence of the two passes (`PipelinesAssumption`) |
| `LLUtilsProofs` | `RecursionInvariant`, `AnswersForTheWholeType`, `AnswersClients`; `UtilsInvariant`, `PointersAgree`, `NeverDenied`, `KeepsObject`, `SitesExact` | tables are well formed: arrays and pointers have one element type (`TablesAssumption`); variables and functions are named by addresses and are no instructions, insertvalue yields an aggregate (`ValuesAssumption`, `InstructionsAssumption`); functions are sequences of blocks (`BodiesAssumption`) |
| `CountProtocolProofs` | `TypeCorrect`, `NeverOvercountsByRaces`, `SerialThreadsLoseNothing`, `AloneImplementsPromise` | the counter has a bit at least (`HasWidth`, a hypothesis of each); the last: one thread |
| `CountedRunProofs` | `RunInvariant`, `ReportsAreArmed`, `ProgramImplementsProtocol`, `RacesNeverOvercount`, `OneThreadIsExact`, `ReportsAreOfTheWholeRun` | as `OptPipelineProofs`; what is compiled is a whole program: main, the constructors and what is called have bodies, no name is taken (`ProgramsAssumption`); an i64 and an int have a bit at least, of which 2^n > 1 is stated separately, since the provers know powers of numbers only (`BitsAssumption`, `PowersAssumption`) |
| `FlowRunProofs` | `OutdatedIsNoticed`, `AloneCrashesOnlyWithoutSource`, `AloneRunsRefresh` | there are a file and finitely many runners, and every listed file has its `.dot` at home (`SettingsAssumption`) |
| `PassesRunProofs` | `CleanedIsEnough`, `EndIsTruthful` | nothing |
| `PrintingProofs` | `TerminalHandedBack`, `LinesComeOut`, `ConstantsAreListed`; `DumpIsPrefix`, `StatusTellsAll`, `DumpDiesOnlyOnUnsupported`; `ChainsDescend`, `ListedAreNamed` | unsigned holds 1 (`MaxUnsignedAssumption`), the classes of values (`ValuesAssumption`), modules are functions of blocks of instructions of operands (`ModulesAssumption`); those ir_dump is given are functions with types and blocks (`InputsAssumption`); of the classes that printInstKind tests, those derive from each other that do in LLVM's headers, no class being more than six below Instruction (`HierarchyAssumption`) |

*The search of cfg-path.* That FALSE excludes every path is not inductive for a single
activation: it is relative to the blocks the caller had visited, and these sets differ
per activation. `IInv` therefore states, for every activation on the stack, that its set
is its caller's plus its own block (`StackIsSimplePath`), and that each successor already
passed over is a dead end relative to that set (`PassedOverIsDeadEnd`).
"DeadEnd(F,n,V,t)" is "some set holds n, not t, and is left only into V". When the loop of
an activation for b is exhausted, the union of these sets with b is closed but for the
caller's set (lemma `DeadEndOfSuccessors`), which is the caller's claim about b. At the
bottom of the stack V is empty and a dead end is unreachability
(`DeadEndIsUnreachable`). TRUE comes from `ReachesStep` along the stack.
`QueryInProgress` ties the stack to the program counter, `LineSoFar` the line to the
answers; the refinement then needs only `EndLine`. There is a lemma per action.

*opt with count-bb and posix-main.* `EveryBlockCountedOncePerRun` speaks of the end; while
count-bb walks, some blocks have one counting code more than others. `IInv` therefore says
it of every step: a block that lies behind the iterators (`Behind`) has as many as there
were runs, one ahead has one fewer (`Countings`), while the registrations at the head of
main have been there since setup (`Setups`). What makes this inductive:

* Functions are told apart by their names (`ModuleOK`), so a change at one position of the
  list is a change of one function; appending `setupAtExit`, `atexit`, `printf` or the new
  main never disturbs a position that has been passed, and posix-main, which moves main to
  the end, runs when no iterator is under way. Each pass maps a module to a module
  (`SetupMakes`, `CountedIs`, `PosixizedMakes`), over the names of the program and of the passes.
* The algebra of a counted block: code put before the terminator of a block with n
  counting codes gives one with n + 1 (`CountedMore`), put at its head one registration more.
* The first setup finds its names free, later ones find the function of the first, append
  another block to it and leave its first block alone (`HandlerSoFar`).
* The verifier accepts what it accepted with such code inserted, since that code has no
  terminator, calls functions that exist and leaves the last instruction last
  (`SplicedVerifies`); `MainSoFar` gives the type of main for each way through POSIXizeMain.

*The recursion of isIntegerRelatedType.* What an answer should be is defined without
recursion: a type is related to integers if some set of types holds it and supports each
of its members. Unions of such sets are such sets, so the members an activation has
passed over (`PassedOverAreRelated`) give the struct its set when the loop is exhausted.
Early return is right because one unsupported member excludes every set. `StackOK` ties
each activation to the member its caller looks at. A client that asks other questions
leaves all this alone, so that the answer carries over (`UtilsRefines`, `AnswersClients`).

*The queries of LLUtils.* `Computed` ties an answer to the conditions of the query; the three
pointer queries, each written in its own way in the code, are then shown to say the same
of a value of any class and type, which needs that addresses are pointers. `NeverDenied`
goes through the branches that return in any case: none is of a class that yields a pointer
it has not looked at. The two walks have invariants of their own: everything stripped so far was
strippable, at any depth of nesting (`StrippedSoFar`); what has been collected are the sites
before the place reached, in increasing order (`CollectedSoFar`), where the place moves over
the blocks of a function of any size.

*The counting protocol.* The counter alone says nothing about a register loaded long ago;
`NeverAhead` bounds each thread's register by the stores, and plus one after the add, so
that a store keeps the counter under the number of stores. With no two threads between
load and store (`OneAtATime`, proved to hold of one thread and assumed of more) the
register under way is what the stores make it (`ExactRegisters`), and the counter is the number
of stores modulo its width. The refinement maps a store to an executed block and the
printing to a report.

*The instrumented program.* `PipelineInvariant` says what opt leaves; lemma `Image` reads from it
what can be executed (`CodeOK`): in every block the terminator is last and nothing else is one,
load, add and store stand together, after everything of the program's own, as often as
count-bb ran, and the entry of main begins with the registrations. `RunInv` then says of the
process, for any program and any number of threads:

* `FramesOK`: every activation of every stack stands at an instruction of a block that exists,
  holds a word of the counter while it is between load and store, waits at a call unless it
  is the top, and, being of main, has paid for the registrations it is past (`MainArms`).
  setupAtExit is run by the thread in exit alone, and calls nothing.
* `ReportsOwed`: what was registered is still a handler, or being run up to its printf, or
  reported. The code in between (`Owed`) is what the property itself cannot say, since a
  handler that has printed is on the stack until it returns.

`ReportIsArmed` follows. For the refinement a thread has under way what stands before its next
instruction (`Doing`): `StoppedAt` and `SteppedTo` say that this fits the instruction it is at
and the one it has executed, so that loads, adds, stores and reports of the program are those
of the protocol and everything else (calls, terminators, threads, handlers, exit, the whole of
opt) is not seen. The theorems of `CountProtocolProofs` hold of the program from there on (`Laws`).

What bounds the counter is that nothing is stored that was not begun. The sum over threads
and activations is put as one finite set: the stores that activations are still to make in
blocks they have begun (`ToCome`). `StoresBound` says that stores made and to come are
together at most Weight for each block begun. A store takes one element away, a block that begins
brings Weight of them (`TokensMove`), `exit` may only drop some. With `NeverAhead` of the
protocol the counter, and what is printed, are below the stores.

With one thread nothing is lost: `Alone` says that no other thread has a stack and that the
stores are Weight for each block *completed* and those made in the block under way. A caller
waits with none made, since counting code comes behind every call (`StoresBeforeIs`), which is why
one activation is enough and recursion, constructors, handlers and `exit` are no exception;
a terminator finds all of them made. `SerialThreadsLoseNothing`'s step lemma does the rest.

That a report is of the whole run is a matter of order. `Orderly` says, of a program that main
leaves by return: main is at the bottom of the stack, once; setupAtExit was registered before
anything but constructors ran (`RegisteredEarly`), hence stands before every other handler
(`SetupsFirst`), hence runs when nothing is left that could begin a block (`SetupsLast`).
The blocks begun are then those completed and those unfinished on the stack (`Unfinished`), which
are none when setupAtExit prints, so that the exact counter is the number of blocks begun, and
stays so until the end. `ReportsOwed` has the other half of the equation: no report is missing.

*The FLOW script.* `StaleIsNoticed` needs that nothing bears a time of the future
(`NothingFromTheFuture`) and what dot has read is what is drawn. For a run that is alone
`Settled` states which files of its list are dealt with at each step of the script, in the
directory it was started in, and `RunnerOK` that the pdf compared is there and so, at home,
is its `.dot`; that no file goes away but by a run of the script is `SourcesStay`.

*The passes script.* `FilesSoFar` gives, per command, the files that can be where the
script lies: whatever fails, each has the version of the source unless it was edited.

*count-li next to cfg-path.* `AnalysesAgree` is about natural loops of any graph.
`FromHeader` is its centre: the blocks from which the latch can only be reached through the
header separate the entry from the latch, so what is in the loop is not among them, and the
header reaches it (`BackToHeader` is the way back). `InnermostExists` picks a smallest loop.
`LoopsSoFar` says what that makes of each printed preheader, `LinesSoFar` that the lines of
cfg-path are those of `CFGPathReport`; the search invariant carries over, since each step of
the composition is a step of the search or leaves it alone (`OptIsSearch`).

*prettyPrint.* `LinesSoFar` and `ColorSoFar` give lines and colour per step of the call;
`Printing` adds that the components not called rest.

*DumpConsts and ir_dump.* Both walk a module with nested iterators, and what they should have
printed is a fold inside a fold. `FirstOf(s, n)` is what FlattenSeq gives of the first n of s;
that it grows by s[n], has the type of its parts and starts the whole
(`FirstOfNext`, `FirstOfType`, `FirstOfContinues`) is proved by an induction that is a minimal
counterexample, since the numbers are well founded (`Induction`). The invariants then give
the output at every place of the iterators, as what the functions, the blocks, the
instructions and the operands before it say (`OutAt` in `ConstsOK`; `AtFunc`, `AtParam`,
`AtBlock`, `AtInst`, `AtDetail` in `Where`). There is a lemma for every move: the end of an
inner loop is the same output seen from the next place of the outer one. Where a walk dies it is inside
an instruction, a parameter or the head of a function, and `InTheMiddle` makes that, level by
level, a start of the listing. `ConstsOK` also holds that no operand passed is one that ends
the process (`NoDeadlyBefore`), which the property claims of the whole module only at the end.

*printInstKind.* The hierarchy is arbitrary but for the classes the table names
(`HierarchyAssumption`): LLVM may have any others, anywhere, as it has from version to
version. The ancestors of a class form a chain (`Comparable`), so the last class printed and the
next one are related; the table never has a class before one it derives from (`Table`, built up
part by part with `JoinedTable`), so it is the last one that is above. `KindOK` adds that
no row passed was met and stops, which at the end of the table leaves only classes
without a row: for calls, whose table is another one, by `CallsBelow`.

Only model-checked, and why: all liveness, since temporal properties under fairness are outside
what the prover does. Every safety invariant of a passing run is a theorem.

## 6. Not modelled

* misc: a tour of LLVM's containers, commented out of the build; templates: skeletons
  that do nothing; Common: one library call; the C fixtures: inputs.
* `dumpPassKind`, `ppName`, `printInstArgType`: called by nobody. `InstTypeStr` cuts a class
  name out of a macro argument; the row itself stands in `InstKind`.
* Of LLUtils: `getTypeSize` (data layout), `geti8StrVal` (the format string as data),
  `visitBB` (a template nobody instantiates), `getFn_exit` (returns null).
* `setPreservesAll` in posix-main: the pass manager's analyses are not in the model. The
  string of getTypeStr that ir_dump drops: text. The time the search of cfg-path takes.
* Text, names of blocks and metadata are abstracted throughout.

## 7. Plan

Done: cfg-path and count-li; count-bb, posix-main, opt and the instrumented program, with
the protocol between them; ir_dump, printInstKind, prettyPrint, DumpConsts; LLUtils; both
scripts; the theorems above.

Left: nothing of the safety properties.
