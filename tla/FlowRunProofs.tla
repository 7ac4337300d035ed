------------------------------ MODULE FlowRunProofs ----------------------------
(***************************************************************************)
(* That comparing times with >= notices every outdated drawing does not    *)
(* depend on how many files there are, who runs the script, how runs       *)
(* overlap, how coarse the clock is or how often a run is interrupted.     *)
(***************************************************************************)
EXTENDS FlowRun, FiniteSetTheorems, TLAPS

Sources  == [version : Nat, time : Nat, valid : BOOLEAN, exists : BOOLEAN]
Drawings == [version : Nat, time : Nat, exists : BOOLEAN]

TypeOK ==
  /\ setting \in Settings
  /\ now \in Nat
  /\ dot \in [Files -> Sources]
  /\ pdf \in [Files -> Drawings]
  /\ todo \in [Runners -> SUBSET Files]
  /\ cwd \in [Runners -> Directories]
  /\ file \in [Runners -> Files]
  /\ mtime \in [Runners -> Nat]
  /\ drawn \in [Runners -> Nat]
  /\ DOMAIN pc = Runners

(* No file is from the future: what makes an edit at least as new as any   *)
(* drawing there is.                                                       *)
NothingFromTheFuture ==
  \A f \in Files : dot[f].time <= now /\ pdf[f].time <= now

IInv == TypeOK /\ NothingFromTheFuture /\ StaleIsNoticed

LEMMA FilesThere ==
  ASSUME setting \in Settings
  PROVE  Files # {} /\ \A d \in Directories : At(d) \subseteq Files
<1>1. PICK n : n \in setting.names
  BY SettingsAssumption
<1>2. <<Home, n>> \in Files
  BY <1>1 DEF Files, Directories
<1>3. QED
  BY <1>2 DEF Files, At

(* What the process leaves behind when it ends or is stopped.              *)
LEMMA LeaveType ==
  ASSUME TypeOK, NEW r \in Runners, Leave(r)
  PROVE  /\ DOMAIN pc' = Runners /\ pc'[r] = "idle"
         /\ todo' \in [Runners -> SUBSET Files]
         /\ cwd' \in [Runners -> Directories]
         /\ file' \in [Runners -> Files]
         /\ mtime' \in [Runners -> Nat]
         /\ drawn' \in [Runners -> Nat]
<1>1. AnyFile \in Files
  BY FilesThere DEF TypeOK, AnyFile
<1>2. Home \in Directories
  BY DEF Directories
<1>3. QED
  BY <1>1, <1>2 DEF TypeOK, Leave, Goto

LEMMA InitIInv == Init => IInv
<1> SUFFICES ASSUME Init PROVE IInv
  OBVIOUS
<1>1. TypeOK
  <2>1. setting \in Settings /\ now \in Nat /\ DOMAIN pc = Runners
    BY DEF Init
  <2>2. dot \in [Files -> Sources]
    BY DEF Init, Sources, NoDot
  <2>3. pdf \in [Files -> Drawings]
    BY DEF Init, Drawings, NoPdf, OldPdf
  <2>4. AnyFile \in Files
    BY FilesThere DEF Init, AnyFile
  <2>5. file \in [Runners -> Files] /\ todo \in [Runners -> SUBSET Files]
    BY <2>4 DEF Init
  <2>6. drawn \in [Runners -> Nat] /\ mtime \in [Runners -> Nat]
    BY DEF Init
  <2>7. cwd \in [Runners -> Directories]
    BY DEF Init, Directories
  <2>8. QED
    BY <2>1, <2>2, <2>3, <2>5, <2>6, <2>7 DEF TypeOK
<1>2. NothingFromTheFuture
  BY DEF Init, NothingFromTheFuture, NoPdf, OldPdf, NoDot
<1>3. StaleIsNoticed
  BY DEF Init, StaleIsNoticed, NoPdf, OldPdf, NoDot, OutOfDate
<1>4. QED
  BY <1>1, <1>2, <1>3 DEF IInv

(* Steps that touch neither sources nor drawings, and forget no race.      *)
LEMMA BystanderStep ==
  ASSUME IInv, UNCHANGED <<setting, dot, pdf, raced>>,
         now' \in Nat, now' >= now, TypeOK'
  PROVE  IInv'
<1>1. Files' = Files
  BY DEF Files
<1>2. NothingFromTheFuture'
  BY <1>1 DEF IInv, TypeOK, NothingFromTheFuture, Sources, Drawings
<1>3. StaleIsNoticed'
  BY <1>1 DEF IInv, StaleIsNoticed, OutOfDate
<1>4. QED
  BY <1>2, <1>3 DEF IInv

(* A drawing comes or goes.                                                *)
LEMMA DrawingStep ==
  ASSUME IInv, NEW f \in Files, NEW d \in Drawings, d.time <= now,
         UNCHANGED <<setting, dot, now>>,
         pdf' = [pdf EXCEPT ![f] = d], raced \ {f} \subseteq raced',
         d.exists /\ d.version # dot[f].version => f \in raced',
         TypeOK'
  PROVE  IInv'
<1>1. Files' = Files
  BY DEF Files
<1>2. \A g \in Files : pdf'[g] = IF g = f THEN d ELSE pdf[g]
  BY DEF IInv, TypeOK
<1>3. NothingFromTheFuture'
  BY <1>1, <1>2 DEF IInv, NothingFromTheFuture
<1>4. StaleIsNoticed'
  BY <1>1, <1>2 DEF IInv, StaleIsNoticed, OutOfDate
<1>5. QED
  BY <1>3, <1>4 DEF IInv

LEMMA EditStep ==
  ASSUME IInv, NEW f \in Files, Edit(f)
  PROVE  IInv'
<1>1. Files' = Files /\ Runners' = Runners
  BY DEF Edit, Files, Runners
<1>2. PICK valid \in BOOLEAN :
        dot' = [dot EXCEPT ![f] = [version |-> @.version + 1, time |-> now,
                                   valid |-> valid, exists |-> TRUE]]
  BY DEF Edit
<1>3. /\ dot'[f].time = now
      /\ \A g \in Files \ {f} : dot'[g] = dot[g]
      /\ dot' \in [Files -> Sources]
  BY <1>2 DEF IInv, TypeOK, Sources
<1>4. TypeOK'
  BY <1>1, <1>3 DEF IInv, TypeOK, Edit, scriptVars
<1>5. NothingFromTheFuture'
  BY <1>1, <1>3 DEF IInv, NothingFromTheFuture, TypeOK, Edit
<1>6. StaleIsNoticed'
  BY <1>1, <1>3 DEF IInv, StaleIsNoticed, NothingFromTheFuture, OutOfDate, Edit
<1>7. QED
  BY <1>4, <1>5, <1>6 DEF IInv

LEMMA StepKeepsIInv ==
  ASSUME IInv, NEW r \in Runners, Step(r) \/ Interrupt(r)
  PROVE  IInv'
<1> USE DEF IInv
<1>0. TypeOK /\ file[r] \in Files /\ drawn[r] \in Nat /\ now \in Nat
  BY DEF TypeOK
<1>1. CASE List(r)
  <2>1. PICK d \in Directories : /\ cwd' = [cwd EXCEPT ![r] = d]
                                 /\ todo' = [todo EXCEPT ![r] = At(d)]
    BY <1>1 DEF List
  <2>2. /\ UNCHANGED <<World, pdf, file, mtime, drawn, raced>>
        /\ pc' = [pc EXCEPT ![r] = "next"]
    BY <1>1 DEF List, Goto
  <2>3. At(d) \subseteq Files
    BY <2>1, FilesThere DEF TypeOK
  <2>4. TypeOK'
    BY <1>0, <2>1, <2>2, <2>3 DEF TypeOK, World, Files, Runners
  <2>5. QED
    BY <1>0, <2>2, <2>4, BystanderStep DEF World
<1>2. CASE IsFile(r)
  <2>1. PICK f \in todo[r] :
          /\ file' = [file EXCEPT ![r] = f]
          /\ todo' = [todo EXCEPT ![r] = @ \ {f}]
          /\ DOMAIN pc' = DOMAIN pc
    BY <1>2 DEF IsFile, Goto
  <2>2. UNCHANGED <<World, pdf, cwd, mtime, drawn, raced, edited>>
    BY <1>2 DEF IsFile
  <2>3. f \in Files
    BY <2>1 DEF TypeOK
  <2>4. TypeOK'
    BY <1>0, <2>1, <2>2, <2>3 DEF TypeOK, World, Files, Runners
  <2>5. QED
    BY <1>0, <2>2, <2>4, BystanderStep DEF World
<1>3. CASE Stat(r) \/ Compare(r) \/ Read(r)
  <2>1. /\ UNCHANGED <<World, pdf, cwd, todo, file, raced>>
        /\ DOMAIN pc' = DOMAIN pc
    BY <1>3 DEF Stat, Compare, Read, Goto
  <2>2. drawn' \in [Runners -> Nat]
    BY <1>0, <1>3 DEF Stat, Compare, Read, TypeOK, Sources
  <2>3. mtime' \in [Runners -> Nat]
    BY <1>0, <1>3 DEF Stat, Compare, Read, TypeOK, Sources
  <2>4. TypeOK'
    BY <1>0, <2>1, <2>2, <2>3 DEF TypeOK, World, Files, Runners
  <2>5. QED
    BY <1>0, <2>1, <2>4, BystanderStep DEF World
<1>4. CASE Remove(r)
  <2>1. /\ UNCHANGED <<World, cwd, todo, file, mtime, drawn>>
        /\ DOMAIN pc' = DOMAIN pc
        /\ pdf' = [pdf EXCEPT ![file[r]] = NoPdf]
        /\ raced' = raced \ {file[r]}
    BY <1>4 DEF Remove, Goto
  <2>2. NoPdf \in Drawings /\ NoPdf.time <= now /\ ~ NoPdf.exists
    BY <1>0 DEF NoPdf, Drawings
  <2>3. TypeOK'
    BY <1>0, <2>1, <2>2 DEF TypeOK, World, Files, Runners
  <2>4. QED
    BY <1>0, <2>1, <2>2, <2>3, DrawingStep DEF World
<1>5. CASE Write(r)
  <2>1. /\ UNCHANGED <<World, cwd, todo, file, mtime>>
        /\ DOMAIN pc' = DOMAIN pc
        /\ pdf' = [pdf EXCEPT ![file[r]] = Pdf(drawn[r])]
        /\ drawn' = [drawn EXCEPT ![r] = 0]
        /\ raced' = IF drawn[r] = dot[file[r]].version THEN raced \ {file[r]}
                    ELSE raced \cup {file[r]}
    BY <1>5 DEF Write, Goto
  <2>2. /\ Pdf(drawn[r]) \in Drawings /\ Pdf(drawn[r]).time <= now
        /\ Pdf(drawn[r]).version = drawn[r]
    BY <1>0 DEF Pdf, Drawings
  <2>3. TypeOK'
    BY <1>0, <2>1, <2>2 DEF TypeOK, World, Files, Runners
  <2>4. /\ raced \ {file[r]} \subseteq raced'
        /\ drawn[r] # dot[file[r]].version => file[r] \in raced'
    BY <2>1
  <2>5. QED
    BY <1>0, <2>1, <2>2, <2>3, <2>4, DrawingStep DEF World
<1>6. CASE Interrupt(r)
  <2>1. UNCHANGED <<setting, now, dot>> /\ Leave(r)
    BY <1>6 DEF Interrupt
  <2>2. Pdf(0) \in Drawings /\ Pdf(0).time <= now
    BY <1>0 DEF Pdf, Drawings
  <2>3. CASE pc[r] = "drawing"
    <3>1. pdf' = [pdf EXCEPT ![file[r]] = Pdf(0)] /\ raced' = raced \cup {file[r]}
      BY <1>6, <2>3 DEF Interrupt
    <3>2. TypeOK'
      BY <1>0, <2>1, <2>2, <3>1, LeaveType DEF TypeOK, Files, Runners
    <3>3. QED
      BY <1>0, <2>1, <2>2, <3>1, <3>2, DrawingStep
  <2>4. CASE pc[r] # "drawing"
    <3>1. UNCHANGED <<pdf, raced>>
      BY <1>6, <2>4 DEF Interrupt
    <3>2. TypeOK'
      BY <1>0, <2>1, <3>1, LeaveType DEF TypeOK, Files, Runners
    <3>3. QED
      BY <1>0, <2>1, <3>1, <3>2, BystanderStep
  <2>5. QED
    BY <2>3, <2>4
<1>7. CASE Finish(r)
  <2>1. UNCHANGED <<World, pdf, raced>> /\ Leave(r)
    BY <1>7 DEF Finish
  <2>2. TypeOK'
    BY <1>0, <2>1, LeaveType DEF TypeOK, World, Files, Runners
  <2>3. QED
    BY <1>0, <2>1, <2>2, BystanderStep DEF World
<1>8. QED
  BY <1>1, <1>2, <1>3, <1>4, <1>5, <1>6, <1>7 DEF Step

LEMMA NextIInv ==
  ASSUME IInv, [Next]_vars
  PROVE  IInv'
<1>1. CASE Tick
  <2>1. TypeOK'
    BY <1>1 DEF Tick, IInv, TypeOK, scriptVars, Files, Runners
  <2>2. QED
    BY <1>1, <2>1, BystanderStep DEF Tick, IInv, TypeOK
<1>2. ASSUME NEW f \in Files, Edit(f) PROVE IInv'
  BY <1>2, EditStep
<1>3. ASSUME NEW r \in Runners, Step(r) \/ Interrupt(r) PROVE IInv'
  BY <1>3, StepKeepsIInv
<1>4. CASE UNCHANGED vars
  <2>1. TypeOK'
    BY <1>4 DEF vars, IInv, TypeOK, scriptVars, Files, Runners
  <2>2. QED
    BY <1>4, <2>1, BystanderStep DEF vars, IInv, TypeOK
<1>5. QED
  BY <1>1, <1>2, <1>3, <1>4 DEF Next

(* A drawing that does not show its source is as old as the source or      *)
(* older, unless dot was overtaken by an edit or cut short: so the next    *)
(* run sees it, for any files, runners, clock and interleaving.            *)
THEOREM OutdatedIsNoticed == Spec => []StaleIsNoticed
<1>1. Spec => []IInv
  BY InitIInv, NextIInv, PTL DEF Spec
<1>2. IInv => StaleIsNoticed
  BY DEF IInv
<1>3. QED
  BY <1>1, <1>2, PTL

--------------------------------------------------------------------------------
(* One run at a time.  What FreshAfterRun says of all files at the end, a  *)
(* run keeps true of those it has dealt with: all but what it has still to *)
(* do and the one it is at.                                                *)
Settled(f) ==
  f \notin edited \cup raced =>
    /\ dot[f].valid => pdf[f].exists
    /\ pdf[f].exists => pdf[f].version = dot[f].version

DealtWith(r) ==
  /\ pc[r] = "next" => \A f \in At(cwd[r]) \ todo[r] : Settled(f)
  /\ pc[r] \in {"stat", "compare", "remove", "draw", "drawing"} =>
       \A f \in At(cwd[r]) \ (todo[r] \cup {file[r]}) : Settled(f)

(* What a run knows of the file it is at.                                  *)
AtFile(r) ==
  /\ pc[r] \in {"stat", "compare"} => pdf[file[r]].exists
  /\ pc[r] = "compare" =>
       /\ dot[file[r]].exists
       /\ mtime[r] = dot[file[r]].time \/ file[r] \in edited
  /\ pc[r] = "draw" => ~ pdf[file[r]].exists

(* Its files are those of the directory it was started in.                 *)
InCwd(r) ==
  /\ todo[r] \subseteq At(cwd[r])
  /\ pc[r] \in {"stat", "compare", "remove", "draw", "drawing", "crashed"} =>
       file[r] \in At(cwd[r])

CrashedForCause(r) ==
  pc[r] = "crashed" =>
    ~ setting.installed \/ (pdf[file[r]].exists /\ ~ dot[file[r]].exists)

RunnerOK(r) == DealtWith(r) /\ AtFile(r) /\ InCwd(r) /\ CrashedForCause(r)

(* The .dot files listed at home are there, and those that are there are   *)
(* the only ones dot could read.                                           *)
SourcesStay ==
  /\ \A f \in At(Home) : dot[f].exists
  /\ \A f \in Files : ~ dot[f].exists => ~ dot[f].valid

SingleRun == SourcesStay /\ (OneAtATime => \A r \in Runners : RunnerOK(r))

LEMMA Alone ==
  ASSUME setting \in Settings, OneAtATime, NEW r \in Runners, NEW q \in Runners
  PROVE  q = r
<1>1. IsFiniteSet(Runners)
  BY SettingsAssumption DEF Runners
<1>2. PICK x : Runners = {x}
  BY <1>1, FS_Singleton DEF OneAtATime
<1>3. QED
  BY <1>2

LEMMA InitSingleRun == Init => SingleRun
<1> SUFFICES ASSUME Init PROVE SingleRun
  OBVIOUS
<1>1. setting \in Settings /\ At(Home) \subseteq setting.sources
  BY SettingsAssumption DEF Init, At
<1>2. At(Home) \subseteq Files
  BY <1>1, FilesThere DEF Directories
<1>3. \A f \in Files : dot[f].exists <=> f \in setting.sources
  BY DEF Init, NoDot
<1>4. \A f \in Files : ~ dot[f].exists => ~ dot[f].valid
  BY DEF Init, NoDot
<1>5. SourcesStay
  BY <1>1, <1>2, <1>3, <1>4 DEF SourcesStay
<1>6. \A r \in Runners : RunnerOK(r)
  BY DEF Init, RunnerOK, DealtWith, AtFile, InCwd, CrashedForCause
<1>7. QED
  BY <1>5, <1>6 DEF SingleRun

LEMMA NextSourcesStay ==
  ASSUME IInv, SourcesStay, [Next]_vars
  PROVE  SourcesStay'
<1>1. setting' = setting
  BY DEF Next, vars, Tick, Edit, Step, List, IsFile, Finish, Stat, Compare, Remove,
         Read, Write, Interrupt, World
<1>2. CASE dot' = dot
  BY <1>1, <1>2 DEF SourcesStay, At, Files
<1>3. ASSUME NEW f \in Files, Edit(f) PROVE SourcesStay'
  <2>1. /\ dot'[f].exists
        /\ \A g \in Files \ {f} : dot'[g] = dot[g]
    BY <1>3 DEF Edit, IInv, TypeOK
  <2>2. At(Home) \subseteq Files
    BY FilesThere DEF IInv, TypeOK, Directories
  <2>3. QED
    BY <1>1, <2>1, <2>2 DEF SourcesStay, At, Files
<1>4. QED
  BY <1>2, <1>3 DEF Next, vars, Tick, Step, List, IsFile, Finish, Stat, Compare,
     Remove, Read, Write, Interrupt, World

(* An edit can disturb nobody: the file counts as edited from then on.     *)
LEMMA EditKeepsRunnerOK ==
  ASSUME IInv, NEW f \in Files, Edit(f), NEW r \in Runners, RunnerOK(r)
  PROVE  RunnerOK(r)'
<1>1. /\ UNCHANGED <<setting, pdf, pc, cwd, todo, file, mtime>>
      /\ edited' = edited \cup {f} /\ raced' = raced \ {f}
      /\ \A g \in Files \ {f} : dot'[g] = dot[g]
      /\ dot[f].exists /\ dot'[f].exists
  BY DEF Edit, scriptVars, IInv, TypeOK
<1>2. ASSUME NEW g \in Files, Settled(g) PROVE Settled(g)'
  BY <1>1, <1>2 DEF Settled
<1>3. file[r] \in Files /\ At(cwd[r]) \subseteq Files
  BY FilesThere DEF IInv, TypeOK
<1>4. DealtWith(r)'
  BY <1>1, <1>2, <1>3 DEF RunnerOK, DealtWith, At
<1>5. AtFile(r)'
  BY <1>1, <1>3 DEF RunnerOK, AtFile
<1>6. InCwd(r)'
  BY <1>1 DEF RunnerOK, InCwd, At
<1>7. CrashedForCause(r)'
  BY <1>1, <1>3 DEF RunnerOK, CrashedForCause
<1>8. QED
  BY <1>4, <1>5, <1>6, <1>7 DEF RunnerOK

(* The run goes on to its next file, the one it was at being settled.      *)
LEMMA Onward ==
  ASSUME NEW r \in Runners, RunnerOK(r), pc'[r] = "next",
         UNCHANGED <<setting, todo, cwd>>,
         \A f \in At(cwd[r]) \ todo[r] : Settled(f)'
  PROVE  RunnerOK(r)'
BY DEF RunnerOK, DealtWith, AtFile, InCwd, CrashedForCause, At

(* The run stays at its file, or stops there.                              *)
LEMMA AtTheSame ==
  ASSUME NEW r \in Runners, RunnerOK(r),
         UNCHANGED <<setting, todo, cwd, file>>,
         pc[r] \in {"stat", "compare", "remove", "draw", "drawing"},
         pc'[r] \in {"stat", "compare", "remove", "draw", "drawing", "crashed"},
         \A f \in At(cwd[r]) \ (todo[r] \cup {file[r]}) : Settled(f)',
         AtFile(r)', CrashedForCause(r)'
  PROVE  RunnerOK(r)'
<1>1. DealtWith(r)'
  BY DEF DealtWith, At
<1>2. InCwd(r)'
  BY DEF RunnerOK, InCwd, At
<1>3. QED
  BY <1>1, <1>2 DEF RunnerOK

LEMMA StepKeepsRunnerOK ==
  ASSUME IInv, SourcesStay, OneAtATime,
         NEW r \in Runners, RunnerOK(r), Step(r) \/ Interrupt(r)
  PROVE  RunnerOK(r)'
<1>0. /\ file[r] \in Files /\ DOMAIN pc = Runners /\ todo[r] \subseteq Files
      /\ DOMAIN cwd = Runners /\ DOMAIN mtime = Runners
      /\ todo \in [Runners -> SUBSET Files] /\ file \in [Runners -> Files]
      /\ pdf \in [Files -> Drawings]
      /\ At(cwd[r]) \subseteq Files
  BY FilesThere DEF IInv, TypeOK
<1>1. CASE List(r)
  <2>1. /\ pc'[r] = "next" /\ todo'[r] = At(cwd'[r]) /\ setting' = setting
    BY <1>0, <1>1 DEF List, Goto, World
  <2>2. QED
    BY <2>1 DEF RunnerOK, DealtWith, AtFile, InCwd, CrashedForCause, At
<1>2. CASE IsFile(r)
  <2>1. PICK f \in todo[r] :
          /\ file' = [file EXCEPT ![r] = f]
          /\ todo' = [todo EXCEPT ![r] = @ \ {f}]
          /\ Goto(r, IF pdf[f].exists THEN "stat" ELSE "remove")
    BY <1>2 DEF IsFile
  <2>2. UNCHANGED <<setting, dot, pdf, cwd, raced, edited>> /\ pc[r] = "next"
    BY <1>2 DEF IsFile, World
  <2>3. file'[r] = f /\ todo'[r] \cup {f} = todo[r] /\ todo'[r] \subseteq todo[r]
    BY <1>0, <2>1
  <2>4. pc'[r] = IF pdf[f].exists THEN "stat" ELSE "remove"
    BY <1>0, <2>1, <2>2 DEF Goto
  <2>5. \A g \in At(cwd[r]) \ todo[r] : Settled(g)'
    BY <2>2 DEF RunnerOK, DealtWith, Settled
  <2>6. f \in At(cwd[r]) /\ todo'[r] \subseteq At(cwd[r])
    BY <2>1, <2>3 DEF RunnerOK, InCwd
  <2>7. DealtWith(r)'
    BY <2>2, <2>3, <2>4, <2>5 DEF DealtWith, At
  <2>8. AtFile(r)' /\ CrashedForCause(r)'
    BY <2>2, <2>3, <2>4 DEF AtFile, CrashedForCause
  <2>9. InCwd(r)'
    BY <2>2, <2>3, <2>6 DEF InCwd, At
  <2>10. QED
    BY <2>7, <2>8, <2>9 DEF RunnerOK
<1>3. CASE Finish(r) \/ Interrupt(r)
  <2>1. pc'[r] = "idle" /\ todo'[r] = {}
    BY <1>0, <1>3 DEF Finish, Interrupt, Leave, Goto
  <2>2. QED
    BY <2>1 DEF RunnerOK, DealtWith, AtFile, InCwd, CrashedForCause
<1>4. CASE Stat(r)
  <2>1. /\ UNCHANGED <<setting, dot, pdf, cwd, todo, file, raced, edited>>
        /\ pc[r] = "stat" /\ pdf[file[r]].exists
        /\ pc'[r] = IF dot[file[r]].exists THEN "compare" ELSE "crashed"
        /\ dot[file[r]].exists => mtime'[r] = dot[file[r]].time
    BY <1>0, <1>4 DEF Stat, Goto, World, RunnerOK, AtFile
  <2>2. \A f \in At(cwd[r]) \ (todo[r] \cup {file[r]}) : Settled(f)'
    BY <2>1 DEF RunnerOK, DealtWith, Settled
  <2>3. AtFile(r)' /\ CrashedForCause(r)'
    BY <2>1 DEF AtFile, CrashedForCause
  <2>4. QED
    BY <2>1, <2>2, <2>3, AtTheSame
<1>5. CASE Compare(r)
  <2>1. /\ UNCHANGED <<setting, dot, pdf, cwd, todo, file, raced, edited>>
        /\ pc[r] = "compare" /\ pdf[file[r]].exists /\ dot[file[r]].exists
        /\ pc'[r] = IF OutOfDate(mtime[r], file[r]) THEN "remove" ELSE "next"
        /\ mtime[r] = dot[file[r]].time \/ file[r] \in edited
    BY <1>0, <1>5 DEF Compare, Goto, World, RunnerOK, AtFile
  <2>2. \A f \in At(cwd[r]) \ (todo[r] \cup {file[r]}) : Settled(f)'
    BY <2>1 DEF RunnerOK, DealtWith, Settled
  <2>3. CASE OutOfDate(mtime[r], file[r])
    <3>1. AtFile(r)' /\ CrashedForCause(r)'
      BY <2>1, <2>3 DEF AtFile, CrashedForCause
    <3>2. QED
      BY <2>1, <2>2, <2>3, <3>1, AtTheSame
  <2>4. CASE ~ OutOfDate(mtime[r], file[r])
    <3>1. Settled(file[r])'
      BY <1>0, <2>1, <2>4 DEF IInv, StaleIsNoticed, Settled
    <3>2. QED
      BY <2>1, <2>2, <2>4, <3>1, Onward
  <2>5. QED
    BY <2>3, <2>4
<1>6. CASE Remove(r)
  <2>1. /\ UNCHANGED <<setting, dot, cwd, todo, file, edited>>
        /\ pc[r] = "remove" /\ pc'[r] = "draw"
        /\ pdf' = [pdf EXCEPT ![file[r]] = NoPdf]
        /\ raced' = raced \ {file[r]}
    BY <1>0, <1>6 DEF Remove, Goto, World
  <2>2. ~ pdf'[file[r]].exists
    BY <1>0, <2>1 DEF NoPdf
  <2>3. \A f \in At(cwd[r]) \ (todo[r] \cup {file[r]}) : Settled(f)'
    BY <1>0, <2>1 DEF RunnerOK, DealtWith, Settled
  <2>4. AtFile(r)' /\ CrashedForCause(r)'
    BY <2>1, <2>2 DEF AtFile, CrashedForCause
  <2>5. QED
    BY <2>1, <2>3, <2>4, AtTheSame
<1>7. CASE Read(r)
  <2>1. /\ UNCHANGED <<setting, dot, pdf, cwd, todo, file, raced, edited>>
        /\ pc[r] = "draw" /\ ~ pdf[file[r]].exists
        /\ \/ ~ setting.installed /\ pc'[r] = "crashed"
           \/ pc'[r] = "drawing"
           \/ /\ ~ (dot[file[r]].exists /\ dot[file[r]].valid)
              /\ pc'[r] = "next"
    BY <1>0, <1>7 DEF Read, Goto, World, RunnerOK, AtFile
  <2>2. \A f \in At(cwd[r]) \ (todo[r] \cup {file[r]}) : Settled(f)'
    BY <2>1 DEF RunnerOK, DealtWith, Settled
  <2>3. CASE pc'[r] # "next"
    <3>1. AtFile(r)' /\ CrashedForCause(r)'
      BY <2>1, <2>3 DEF AtFile, CrashedForCause
    <3>2. QED
      BY <2>1, <2>2, <2>3, <3>1, AtTheSame
  <2>4. CASE pc'[r] = "next"
    <3>1. ~ dot[file[r]].valid
      BY <1>0, <2>1, <2>4 DEF SourcesStay
    <3>2. Settled(file[r])'
      BY <2>1, <3>1 DEF Settled
    <3>3. QED
      BY <2>1, <2>2, <2>4, <3>2, Onward
  <2>5. QED
    BY <2>3, <2>4
<1>8. CASE Write(r)
  <2>1. /\ UNCHANGED <<setting, dot, cwd, todo, file, edited>>
        /\ pc[r] = "drawing" /\ pc'[r] = "next"
        /\ pdf' = [pdf EXCEPT ![file[r]] = Pdf(drawn[r])]
        /\ raced' = IF drawn[r] = dot[file[r]].version THEN raced \ {file[r]}
                    ELSE raced \cup {file[r]}
    BY <1>0, <1>8 DEF Write, Goto, World
  <2>2. \A f \in At(cwd[r]) \ (todo[r] \cup {file[r]}) : Settled(f)'
    BY <1>0, <2>1 DEF RunnerOK, DealtWith, Settled
  <2>3. Settled(file[r])'
    BY <1>0, <2>1 DEF Settled, Pdf
  <2>4. QED
    BY <2>1, <2>2, <2>3, Onward
<1>9. QED
  BY <1>1, <1>2, <1>3, <1>4, <1>5, <1>6, <1>7, <1>8 DEF Step

LEMMA NextSingleRun ==
  ASSUME IInv, SingleRun, [Next]_vars
  PROVE  SingleRun'
<1>1. Runners' = Runners
  BY DEF Next, vars, Tick, Edit, Step, List, IsFile, Finish, Stat, Compare, Remove,
         Read, Write, Interrupt, World, Runners
<1>2. SourcesStay'
  BY NextSourcesStay DEF SingleRun
<1>3. SUFFICES ASSUME OneAtATime, NEW q \in Runners PROVE RunnerOK(q)'
  BY <1>1, <1>2 DEF SingleRun, OneAtATime
<1>4. RunnerOK(q) /\ setting \in Settings /\ SourcesStay
  BY <1>3 DEF SingleRun, IInv, TypeOK
<1>5. CASE Tick \/ UNCHANGED vars
  <2>1. UNCHANGED <<setting, dot, pdf, scriptVars, raced, edited>>
    BY <1>5 DEF Tick, vars
  <2>2. DealtWith(q)'
    BY <1>4, <2>1 DEF scriptVars, RunnerOK, DealtWith, Settled, At
  <2>3. AtFile(q)' /\ InCwd(q)' /\ CrashedForCause(q)'
    BY <1>4, <2>1 DEF scriptVars, RunnerOK, AtFile, InCwd, CrashedForCause, At
  <2>4. QED
    BY <2>2, <2>3 DEF RunnerOK
<1>6. ASSUME NEW f \in Files, Edit(f) PROVE RunnerOK(q)'
  BY <1>4, <1>6, EditKeepsRunnerOK
<1>7. ASSUME NEW r \in Runners, Step(r) \/ Interrupt(r) PROVE RunnerOK(q)'
  <2>1. q = r
    BY <1>3, <1>4, Alone
  <2>2. RunnerOK(r)'
    BY <1>3, <1>4, <1>7, <2>1, StepKeepsRunnerOK
  <2>3. QED
    BY <2>1, <2>2
<1>8. QED
  BY <1>5, <1>6, <1>7 DEF Next

LEMMA Invariance == Spec => [](IInv /\ SingleRun)
<1>1. Init => IInv /\ SingleRun
  BY InitIInv, InitSingleRun
<1>2. IInv /\ SingleRun /\ [Next]_vars => (IInv /\ SingleRun)'
  BY NextIInv, NextSingleRun
<1>3. QED
  BY <1>1, <1>2, PTL DEF Spec

(* The check of a pdf and the uses of the two times are three calls, yet a *)
(* run that is alone dies of none of them but where the directory it was   *)
(* started in has the drawing and not the .dot, or dot is not installed.   *)
THEOREM AloneCrashesOnlyWithoutSource == Spec => []CrashesOnlyWithoutSource
<1>1. ASSUME IInv, SingleRun, OneAtATime, NEW r \in Runners, pc[r] = "crashed",
             setting.installed
      PROVE  cwd[r] # Home /\ pdf[file[r]].exists /\ ~ dot[file[r]].exists
  <2>1. RunnerOK(r) /\ SourcesStay
    BY <1>1 DEF SingleRun
  <2>2. pdf[file[r]].exists /\ ~ dot[file[r]].exists /\ file[r] \in At(cwd[r])
    BY <1>1, <2>1 DEF RunnerOK, CrashedForCause, InCwd
  <2>3. cwd[r] # Home
    BY <2>1, <2>2 DEF SourcesStay
  <2>4. QED
    BY <2>2, <2>3
<1>2. IInv /\ SingleRun => CrashesOnlyWithoutSource
  BY <1>1 DEF CrashesOnlyWithoutSource
<1>3. QED
  BY <1>2, Invariance, PTL

(* A run that is alone leaves the right drawing, or none, of every file of *)
(* the directory it was started in that nobody touched meanwhile, for any  *)
(* directories and any history.                                            *)
THEOREM AloneRunsRefresh == Spec => FreshAfterRun
<1>1. ASSUME IInv, SingleRun, OneAtATime, NEW r \in Runners, Finish(r)
      PROVE  \A f \in At(cwd[r]) \ (edited \cup raced) :
               /\ dot[f].valid => pdf[f].exists
               /\ pdf[f].exists => pdf[f].version = dot[f].version
  BY <1>1 DEF SingleRun, RunnerOK, DealtWith, Settled, Finish
<1>2. ASSUME IInv, SingleRun, [Next]_vars
      PROVE  [OneAtATime => \A r \in Runners : Finish(r) =>
                \A f \in At(cwd[r]) \ (edited \cup raced) :
                  /\ dot[f].valid => pdf[f].exists
                  /\ pdf[f].exists => pdf[f].version = dot[f].version]_vars
  BY <1>1, <1>2
<1>3. QED
  BY <1>2, Invariance, PTL DEF Spec, FreshAfterRun

================================================================================
