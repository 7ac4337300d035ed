--------------------------------- MODULE FlowRun -------------------------------
(***************************************************************************)
(* res/FLOW/run.py: redraw the pdf of every .dot file that is newer than   *)
(* its pdf, or as old.  The script is run now and again, by one user or    *)
(* more at a time, while the .dot files are being edited; a run may be     *)
(* interrupted, and dot may reject a file or not be installed.  The names  *)
(* the script lists are those of its own directory, home, but they are     *)
(* relative: started from another directory it looks for them there.       *)
(* Every file operation is a step.                                         *)
(***************************************************************************)
EXTENDS Naturals, FiniteSets

CONSTANTS
  Settings,   \* the names of the .dot files in home, which of them either
              \* directory holds a .dot and an old pdf of, whether dot is
              \* installed, and who runs the script: a single runner starts
              \* no two runs that overlap
  MaxTime,    \* bound: ticks of the clock that stamps files
  MaxEdits,   \* bound: edits of .dot files
  MaxStops    \* bound: interruptions

Home == "home"
Directories == {Home, "away"}

ASSUME SettingsAssumption ==
  \A s \in Settings :
    /\ s.names # {} /\ s.runners # {} /\ IsFiniteSet(s.runners)
    /\ {Home} \X s.names \subseteq s.sources
    /\ s.installed \in BOOLEAN

VARIABLES
  setting,   \* the one of Settings
  now,       \* the clock of the file system, coarser than the steps
  edits,     \* edits made so far
  stops,     \* interruptions so far
  dot,       \* per file: version and time of the .dot; valid for dot or not
  pdf,       \* per file: version drawn and time; NoPdf: there is none
  pc,        \* per runner: idle, next, stat, compare, remove, draw, drawing,
             \* crashed
  cwd,       \* per runner: the directory the script was started in
  todo,      \* per runner: what listdir returned and is left to do, as the
             \* files the names mean in cwd
  file,      \* per runner: f
  mtime,     \* per runner: what the first getmtime returned, or 0
  drawn,     \* per runner: the version the dot under way has read, or 0
  raced,     \* ghost: files with a drawing that was overtaken by an edit,
             \* or cut short, and not edited since
  edited     \* ghost: files edited since the last List

scriptVars == <<pc, cwd, todo, file, mtime, drawn>>
vars == <<setting, now, edits, stops, dot, pdf, scriptVars, raced, edited>>

(* A file is a directory and a name.                                       *)
At(d) == {d} \X setting.names
Files == Directories \X setting.names
Runners == setting.runners

(* Version 0 stands for a pdf that does not show any version whole.        *)
NoPdf == [version |-> 0, time |-> 0, exists |-> FALSE]
OldPdf == [version |-> 0, time |-> 0, exists |-> TRUE]

Pdf(v) == [version |-> v, time |-> now, exists |-> TRUE]

NoDot == [version |-> 0, time |-> 0, valid |-> FALSE, exists |-> FALSE]

AnyFile == CHOOSE f \in Files : TRUE

Init ==
  /\ setting \in Settings
  /\ now = 1
  /\ edits = 0 /\ stops = 0
  /\ dot = [f \in Files |->
              IF f \in setting.sources
              THEN [version |-> 1, time |-> 1, valid |-> TRUE, exists |-> TRUE]
              ELSE NoDot]
  /\ pdf = [f \in Files |-> IF f \in setting.drawings THEN OldPdf ELSE NoPdf]
  /\ pc = [r \in Runners |-> "idle"]
  /\ cwd = [r \in Runners |-> Home]
  /\ todo = [r \in Runners |-> {}]
  /\ file = [r \in Runners |-> AnyFile]
  /\ mtime = [r \in Runners |-> 0]
  /\ drawn = [r \in Runners |-> 0]
  /\ raced = {} /\ edited = {}

Goto(r, label) == pc' = [pc EXCEPT ![r] = label]

(* The variables of the process go with it.                                *)
Leave(r) ==
  /\ Goto(r, "idle")
  /\ cwd' = [cwd EXCEPT ![r] = Home]
  /\ todo' = [todo EXCEPT ![r] = {}]
  /\ file' = [file EXCEPT ![r] = AnyFile]
  /\ mtime' = [mtime EXCEPT ![r] = 0]
  /\ drawn' = [drawn EXCEPT ![r] = 0]

--------------------------------------------------------------------------------
(* The surroundings of the script *)

Tick ==
  /\ now < MaxTime
  /\ now' = now + 1
  /\ UNCHANGED <<setting, edits, stops, dot, pdf, scriptVars, raced, edited>>

(* An edit writes the next version; the user may leave a mistake in it.    *)
(* The clock goes on after the last one.                                   *)
Edit(f) ==
  /\ edits < MaxEdits /\ now < MaxTime /\ dot[f].exists
  /\ edits' = edits + 1
  /\ \E valid \in BOOLEAN :
       dot' = [dot EXCEPT ![f] = [version |-> @.version + 1, time |-> now,
                                  valid |-> valid, exists |-> TRUE]]
  /\ edited' = edited \cup {f}
  /\ raced' = raced \ {f}
  /\ UNCHANGED <<setting, now, stops, pdf, scriptVars>>

--------------------------------------------------------------------------------
(* The script *)

World == <<setting, now, edits, stops, dot>>

(* listdir of the directory the script lies in, wherever it was started;   *)
(* the order of the names is not specified.                                *)
List(r) ==
  /\ pc[r] \in {"idle", "crashed"}
  /\ \E d \in Directories :
       cwd' = [cwd EXCEPT ![r] = d] /\ todo' = [todo EXCEPT ![r] = At(d)]
  /\ edited' = {}
  /\ Goto(r, "next")
  /\ UNCHANGED <<World, pdf, file, mtime, drawn, raced>>

(* Mutant: the times are compared whether or not there is a pdf.           *)
IsFileUnasked(r) ==
  /\ pc[r] = "next"
  /\ \E f \in todo[r] :
       /\ file' = [file EXCEPT ![r] = f]
       /\ todo' = [todo EXCEPT ![r] = @ \ {f}]
       /\ Goto(r, "stat")
  /\ UNCHANGED <<World, pdf, cwd, mtime, drawn, raced, edited>>

(* The next file; isfile looks whether it has a pdf.                       *)
IsFile(r) ==
  /\ pc[r] = "next"
  /\ \E f \in todo[r] :
       /\ file' = [file EXCEPT ![r] = f]
       /\ todo' = [todo EXCEPT ![r] = @ \ {f}]
       /\ Goto(r, IF pdf[f].exists THEN "stat" ELSE "remove")
  /\ UNCHANGED <<World, pdf, cwd, mtime, drawn, raced, edited>>

Finish(r) ==
  /\ pc[r] = "next" /\ todo[r] = {}
  /\ Leave(r)
  /\ UNCHANGED <<World, pdf, raced, edited>>

(* getmtime(f) raises when the current directory has no such .dot, and     *)
(* nothing catches that.                                                   *)
Stat(r) ==
  /\ pc[r] = "stat"
  /\ IF dot[file[r]].exists
     THEN Goto(r, "compare") /\ mtime' = [mtime EXCEPT ![r] = dot[file[r]].time]
     ELSE Goto(r, "crashed") /\ UNCHANGED mtime
  /\ UNCHANGED <<World, pdf, cwd, todo, file, drawn, raced, edited>>

(* Mutant: a drawing as old as its source counts as fresh.                 *)
OutOfDateStrictly(time, f) == time > pdf[f].time

OutOfDate(time, f) == time >= pdf[f].time

(* Mutant: the pdf is compared the other way round.                        *)
CompareSwapped(r) ==
  /\ pc[r] = "compare"
  /\ Goto(r, IF OutOfDate(mtime[r], file[r]) THEN "next" ELSE "remove")
  /\ mtime' = [mtime EXCEPT ![r] = 0]
  /\ UNCHANGED <<World, pdf, cwd, todo, file, drawn, raced, edited>>

(* getmtime(pdf) raises too when the pdf has gone.                         *)
Compare(r) ==
  /\ pc[r] = "compare"
  /\ Goto(r, IF ~ pdf[file[r]].exists THEN "crashed"
             ELSE IF OutOfDate(mtime[r], file[r]) THEN "remove" ELSE "next")
  /\ mtime' = [mtime EXCEPT ![r] = 0]
  /\ UNCHANGED <<World, pdf, cwd, todo, file, drawn, raced, edited>>

(* Mutant: the old drawing is left in its place.                           *)
RemoveNothing(r) ==
  /\ pc[r] = "remove"
  /\ Goto(r, "draw")
  /\ UNCHANGED <<World, pdf, cwd, todo, file, mtime, drawn, raced, edited>>

(* os.remove, whose OSError is caught.                                     *)
Remove(r) ==
  /\ pc[r] = "remove"
  /\ pdf' = [pdf EXCEPT ![file[r]] = NoPdf]
  /\ raced' = raced \ {file[r]}
  /\ Goto(r, "draw")
  /\ UNCHANGED <<World, cwd, todo, file, mtime, drawn, edited>>

(* subprocess.call raises when dot is not installed.  dot reads its input; *)
(* it writes nothing when it cannot open or parse it, and the script does  *)
(* not look at its exit status.                                            *)
Read(r) ==
  /\ pc[r] = "draw"
  /\ LET f == file[r] IN
     \/ ~ setting.installed /\ Goto(r, "crashed") /\ UNCHANGED drawn
     \/ /\ setting.installed /\ dot[f].exists /\ dot[f].valid
        /\ Goto(r, "drawing") /\ drawn' = [drawn EXCEPT ![r] = dot[f].version]
     \/ /\ setting.installed /\ ~ (dot[f].exists /\ dot[f].valid)
        /\ Goto(r, "next") /\ UNCHANGED drawn
  /\ UNCHANGED <<World, pdf, cwd, todo, file, mtime, raced, edited>>

(* dot has written the pdf, and the script goes on.                        *)
Write(r) ==
  /\ pc[r] = "drawing"
  /\ pdf' = [pdf EXCEPT ![file[r]] = Pdf(drawn[r])]
  /\ raced' = IF drawn[r] = dot[file[r]].version THEN raced \ {file[r]}
              ELSE raced \cup {file[r]}
  /\ Goto(r, "next")
  /\ drawn' = [drawn EXCEPT ![r] = 0]
  /\ UNCHANGED <<World, cwd, todo, file, mtime, edited>>

(* The user stops the script, and dot with it, which may have part of the  *)
(* pdf written.                                                            *)
Interrupt(r) ==
  /\ stops < MaxStops /\ pc[r] \notin {"idle", "crashed"}
  /\ stops' = stops + 1
  /\ IF pc[r] = "drawing"
     THEN /\ pdf' = [pdf EXCEPT ![file[r]] = Pdf(0)]
          /\ raced' = raced \cup {file[r]}
     ELSE UNCHANGED <<pdf, raced>>
  /\ Leave(r)
  /\ UNCHANGED <<setting, now, edits, dot, edited>>

Step(r) ==
  \/ List(r) \/ IsFile(r) \/ Finish(r) \/ Stat(r) \/ Compare(r)
  \/ Remove(r) \/ Read(r) \/ Write(r)

Next ==
  \/ Tick
  \/ \E f \in Files : Edit(f)
  \/ \E r \in Runners : Step(r) \/ Interrupt(r)

Spec == Init /\ [][Next]_vars

(* Someone keeps running the script, in its directory too, and time passes.*)
ListHere(r) == List(r) /\ cwd'[r] = Home
FairSpec ==
  /\ Spec
  /\ WF_vars(Tick)
  /\ \A r \in UNION {s.runners : s \in Settings} :
       /\ WF_vars(r \in Runners /\ Step(r))
       /\ SF_vars(r \in Runners /\ ListHere(r))

--------------------------------------------------------------------------------
OneAtATime == Cardinality(Runners) = 1

(* The comparison with >= notices every outdated pdf, also one whose       *)
(* source was edited within the tick in which it was drawn - unless the    *)
(* edit came while dot was drawing, or dot was stopped: then the pdf may   *)
(* be the newer file, but not beyond the next edit.                        *)
StaleIsNoticed ==
  \A f \in Files \ raced :
    dot[f].exists /\ pdf[f].exists /\ pdf[f].version # dot[f].version =>
      OutOfDate(dot[f].time, f)

(* With one run at a time: when it is over, each file of the directory it  *)
(* was started in that was not edited meanwhile has the drawing of its     *)
(* present version, or, if dot rejects that, no drawing at all, however    *)
(* and wherever the runs before it ended.                                  *)
FreshAfterRun ==
  [][OneAtATime => \A r \in Runners : Finish(r) =>
       \A f \in At(cwd[r]) \ (edited \cup raced) :
         /\ dot[f].valid => pdf[f].exists
         /\ pdf[f].exists => pdf[f].version = dot[f].version]_vars

(* With one run at a time: the script dies of nothing but a drawing whose  *)
(* .dot the current directory lacks, which it leaves alone, or for want of *)
(* dot.  A pdf found by isfile is there for getmtime and a .dot that is    *)
(* listed at home is found.                                                *)
CrashesOnlyWithoutSource ==
  OneAtATime => \A r \in Runners :
    pc[r] = "crashed" =>
      \/ ~ setting.installed
      \/ /\ cwd[r] # Home
         /\ pdf[file[r]].exists /\ ~ dot[file[r]].exists

(* With one run at a time and dot installed: once the edits are over every *)
(* drawing at home becomes and stays right, but for the raced ones: no     *)
(* file is redrawn for ever, and no run from elsewhere spoils one.         *)
Fresh(f) == dot[f].valid => pdf[f].version = dot[f].version
EventuallyFresh ==
  <>[](OneAtATime /\ setting.installed => \A f \in At(Home) \ raced : Fresh(f))

(* Runs that overlap can go on removing the drawing the other has just     *)
(* made, and crash when they look for it; still, with dot installed, each  *)
(* file at home is right again and again.                                  *)
RepeatedlyFresh ==
  \A n \in UNION {s.names : s \in Settings} :
    []<>(n \in setting.names /\ setting.installed =>
           <<Home, n>> \in raced \/ Fresh(<<Home, n>>))

================================================================================
