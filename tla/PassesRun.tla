-------------------------------- MODULE PassesRun ------------------------------
(***************************************************************************)
(* res/passes/run.py: clean the directory of .ll and .bc files, then       *)
(* compile a C file with clang, mem2reg its IR with opt, run the passes    *)
(* asked for with opt again, and remove the first IR file.  The script     *)
(* lists the directory it LIES in and uses names relative to the one it is *)
(* STARTED in; it does not look at the exit status of what it calls.  It   *)
(* is run time and again, the source edited in between and meanwhile, and  *)
(* may be interrupted at any command.                                      *)
(***************************************************************************)
EXTENDS Naturals, FiniteSets

CONSTANTS
  MaxEdits,   \* bound: edits of the source
  MaxStarts   \* bound: runs of the script

VARIABLES
  version,   \* of the C source
  edits, starts,
  home,      \* the .ll files where the script lies: the version they are of
  away,      \* the same in another directory, with a copy of the source
  cwd,       \* where this run was started
  listed,    \* what listdir found and is still to be removed
  pc,        \* idle, options, clean, clang, mem2reg, opt, remove, crashed
  edited     \* ghost: the source was edited during this run

quiet == <<version, edits, starts, cwd, edited>>   \* no command changes these
vars == <<version, edits, starts, home, away, cwd, listed, pc, edited>>

Names == {"ir", "mem2reg_ir", "opt_ir"}
None == [x \in {} |-> 0]

Here == IF cwd = "home" THEN home ELSE away

(* The files of the directory the run was started in become fs.            *)
SetHere(fs) ==
  IF cwd = "home" THEN home' = fs /\ UNCHANGED away
                  ELSE away' = fs /\ UNCHANGED home

Without(fs, x) == [y \in DOMAIN fs \ {x} |-> fs[y]]
With(fs, x, v) == [y \in DOMAIN fs \cup {x} |-> IF y = x THEN v ELSE fs[y]]

Init ==
  /\ version = 1
  /\ edits = 0 /\ starts = 0
  /\ home = None /\ away = None
  /\ cwd = "home"
  /\ listed = {}
  /\ pc = "idle"
  /\ edited = FALSE

Edit ==
  /\ edits < MaxEdits
  /\ edits' = edits + 1
  /\ version' = version + 1
  /\ edited' = TRUE
  /\ UNCHANGED <<starts, home, away, cwd, listed, pc>>

Start ==
  /\ pc \in {"idle", "crashed"} /\ starts < MaxStarts
  /\ starts' = starts + 1
  /\ cwd' \in {"home", "away"}
  /\ edited' = FALSE
  /\ pc' = "options"
  /\ UNCHANGED <<version, edits, home, away, listed>>

(* Fewer than two arguments: usage.  No argument ends in .c: src is        *)
(* unbound.  Otherwise the directory of the script is listed.              *)
Options ==
  /\ pc = "options"
  /\ \/ pc' = "idle" /\ UNCHANGED listed
     \/ pc' = "crashed" /\ UNCHANGED listed
     \/ pc' = "clean" /\ listed' = DOMAIN home
  /\ UNCHANGED <<quiet, home, away>>

(* Mutant: only what opt has written is removed.                           *)
CleanOptOnly ==
  /\ pc = "clean"
  /\ \E x \in listed :
       /\ listed' = listed \ {x}
       /\ IF x # "opt_ir" THEN UNCHANGED <<home, away, pc>>
          ELSE IF x \in DOMAIN Here
          THEN SetHere(Without(Here, x)) /\ UNCHANGED pc
          ELSE pc' = "crashed" /\ UNCHANGED <<home, away>>
  /\ UNCHANGED quiet

(* os.remove of the next name, in the directory the run was started in;    *)
(* nothing catches the error when there is no such file.                   *)
Clean ==
  /\ pc = "clean"
  /\ \E x \in listed :
       /\ listed' = listed \ {x}
       /\ IF x \in DOMAIN Here
          THEN SetHere(Without(Here, x)) /\ UNCHANGED pc
          ELSE pc' = "crashed" /\ UNCHANGED <<home, away>>
  /\ UNCHANGED quiet

CleanDone ==
  /\ pc = "clean" /\ listed = {}
  /\ pc' = "clang"
  /\ UNCHANGED <<quiet, home, away, listed>>

(* A command that fails leaves its output file as it was, or removes it.   *)
Fails(to) == UNCHANGED <<home, away>> \/ SetHere(Without(Here, to))

Clang ==
  /\ pc = "clang"
  /\ pc' = "mem2reg"
  /\ SetHere(With(Here, "ir", version)) \/ Fails("ir")
  /\ UNCHANGED <<quiet, listed>>

OptFromTo(from, to) ==
  \/ from \in DOMAIN Here /\ SetHere(With(Here, to, Here[from]))
  \/ Fails(to)

Mem2Reg ==
  /\ pc = "mem2reg"
  /\ pc' = "opt"
  /\ OptFromTo("ir", "mem2reg_ir")
  /\ UNCHANGED <<quiet, listed>>

Opt ==
  /\ pc = "opt"
  /\ pc' = "remove"
  /\ OptFromTo("mem2reg_ir", "opt_ir")
  /\ UNCHANGED <<quiet, listed>>

(* No such program: subprocess.call raises, and nothing catches it.        *)
NotFound ==
  /\ pc \in {"clang", "mem2reg", "opt"}
  /\ pc' = "crashed"
  /\ UNCHANGED <<quiet, home, away, listed>>

(* Mutant: the last command is taken for granted.                          *)
RemoveIfThere ==
  /\ pc = "remove"
  /\ home' = Without(home, "ir")
  /\ pc' = "idle"
  /\ UNCHANGED <<quiet, away, listed>>

(* The IR file is removed from the directory of the script.                *)
RemoveIR ==
  /\ pc = "remove"
  /\ IF "ir" \in DOMAIN home
     THEN home' = Without(home, "ir") /\ pc' = "idle"
     ELSE pc' = "crashed" /\ UNCHANGED home
  /\ UNCHANGED <<quiet, away, listed>>

Interrupt ==
  /\ pc \notin {"idle", "crashed"}
  /\ pc' = "idle"
  /\ listed' = {}
  /\ UNCHANGED <<quiet, home, away>>

Next ==
  \/ Edit \/ Start \/ Options \/ Clean \/ CleanDone
  \/ Clang \/ Mem2Reg \/ Opt \/ NotFound \/ RemoveIR \/ Interrupt

Spec == Init /\ [][Next]_vars

--------------------------------------------------------------------------------
Compiling == {"clang", "mem2reg", "opt", "remove"}

(* What opt reads was compiled in this run: whatever an earlier run left,  *)
(* finished, failed or interrupted, is gone before clang is called - if    *)
(* the script is started where it lies.                                    *)
NothingStale ==
  pc \in Compiling /\ cwd = "home" /\ ~ edited =>
    \A x \in DOMAIN home : home[x] = version

(* A run that gets to its last command where the script lies tells the     *)
(* truth: a traceback there means that it has produced nothing, and        *)
(* nothing older is left either; without one, the source was compiled, the *)
(* first IR file is gone and each file that is there, if any of mem2reg or *)
(* opt is, is of the present source.                                       *)
EndTellsTheTruth ==
  [][RemoveIR /\ cwd = "home" =>
       /\ pc' = "crashed" => home' = None
       /\ pc' = "idle" => "ir" \in DOMAIN home /\ "ir" \notin DOMAIN home'
       /\ ~ edited => \A x \in DOMAIN home' : home'[x] = version]_vars

================================================================================
