----------------------------- MODULE PassesRunProofs ---------------------------
(***************************************************************************)
(* Started where it lies, res/passes/run.py never lets a command read what *)
(* an earlier run has left, however often it is run, edited under or       *)
(* interrupted, and whichever of its commands fail.                        *)
(***************************************************************************)
EXTENDS PassesRun, TLAPS

IsFunction(fs) == fs = [x \in DOMAIN fs |-> fs[x]]

TypeOK == IsFunction(home) /\ cwd \in {"home", "away"}

(* What is left to remove covers every file there is; each command may     *)
(* only have been the first to write its output, from that of the one      *)
(* before it.                                                              *)
FilesSoFar ==
  /\ pc = "clean"   => DOMAIN home \subseteq listed
  /\ pc = "clang"   => DOMAIN home = {}
  /\ pc = "mem2reg" => DOMAIN home \subseteq {"ir"}
  /\ pc = "opt"     => /\ DOMAIN home \subseteq {"ir", "mem2reg_ir"}
                       /\ "mem2reg_ir" \in DOMAIN home => "ir" \in DOMAIN home
  /\ pc = "remove"  => (DOMAIN home # {} => "ir" \in DOMAIN home)

IInv == TypeOK /\ (cwd = "home" => FilesSoFar) /\ NothingStale

LEMMA WithoutFile ==
  ASSUME NEW fs, NEW x
  PROVE  /\ IsFunction(Without(fs, x))
         /\ DOMAIN Without(fs, x) = DOMAIN fs \ {x}
         /\ \A y \in DOMAIN fs \ {x} : Without(fs, x)[y] = fs[y]
BY DEF Without, IsFunction

LEMMA WithFile ==
  ASSUME NEW fs, NEW x, NEW v
  PROVE  /\ IsFunction(With(fs, x, v))
         /\ DOMAIN With(fs, x, v) = DOMAIN fs \cup {x}
         /\ \A y \in DOMAIN fs \cup {x} :
              With(fs, x, v)[y] = IF y = x THEN v ELSE fs[y]
BY DEF With, IsFunction

(* What the two do to the present files.                                   *)
LEMMA HomeWithout ==
  ASSUME NEW x, home' = Without(home, x)
  PROVE  /\ IsFunction(home')
         /\ DOMAIN home' = DOMAIN home \ {x}
         /\ \A y \in DOMAIN home' : home'[y] = home[y]
BY WithoutFile

LEMMA HomeWith ==
  ASSUME NEW x, NEW v, home' = With(home, x, v)
  PROVE  /\ IsFunction(home')
         /\ DOMAIN home' = DOMAIN home \cup {x}
         /\ \A y \in DOMAIN home' : home'[y] = IF y = x THEN v ELSE home[y]
<1>1. DOMAIN home' = DOMAIN home \cup {x} /\ IsFunction(home')
  BY WithFile
<1>2. ASSUME NEW y \in DOMAIN home \cup {x}
      PROVE  home'[y] = IF y = x THEN v ELSE home[y]
  BY DEF With
<1>3. QED
  BY <1>1, <1>2

(* A command either writes `to`, leaves everything as it is, or removes it.*)
LEMMA FailedCommand ==
  ASSUME cwd = "home", NEW to, Fails(to)
  PROVE  home' = home \/ home' = Without(home, to)
BY DEF Fails, SetHere, Here

LEMMA OptCommand ==
  ASSUME cwd = "home", NEW from, NEW to, OptFromTo(from, to)
  PROVE  \/ from \in DOMAIN home /\ home' = With(home, to, home[from])
         \/ home' = home
         \/ home' = Without(home, to)
<1>1. CASE from \in DOMAIN Here /\ SetHere(With(Here, to, Here[from]))
  BY <1>1 DEF SetHere, Here
<1>2. CASE Fails(to)
  BY <1>2, FailedCommand
<1>3. QED
  BY <1>1, <1>2 DEF OptFromTo

(* From elsewhere the files where the script lies change only at its end.  *)
LEMMA HomeStays ==
  ASSUME cwd \in {"home", "away"}, cwd # "home",
         Clean \/ Clang \/ Mem2Reg \/ Opt
  PROVE  home' = home
<1>1. cwd = "away"
  OBVIOUS
<1>2. QED
  BY <1>1 DEF Clean, Clang, Mem2Reg, Opt, OptFromTo, Fails, SetHere

LEMMA InitIInv == Init => IInv
BY DEF Init, IInv, TypeOK, FilesSoFar, NothingStale, Compiling, None, IsFunction

LEMMA ClangStep ==
  ASSUME IInv, Clang
  PROVE  IInv'
<1> USE DEF IInv
<1>1. UNCHANGED <<version, cwd, edited>> /\ pc = "clang" /\ pc' = "mem2reg"
  BY DEF Clang, quiet
<1>2. CASE cwd # "home"
  <2>1. home' = home
    BY <1>2, HomeStays DEF TypeOK
  <2>2. QED
    BY <1>1, <1>2, <2>1 DEF TypeOK, NothingStale
<1>3. CASE cwd = "home"
  <2>1. DOMAIN home = {}
    BY <1>1, <1>3 DEF FilesSoFar
  <2>2. \/ home' = With(home, "ir", version)
        \/ home' = home \/ home' = Without(home, "ir")
    BY <1>3, FailedCommand DEF Clang, SetHere, Here
  <2>3. /\ IsFunction(home') /\ DOMAIN home' \subseteq {"ir"}
        /\ \A x \in DOMAIN home' : home'[x] = version
    BY <2>1, <2>2, HomeWith, HomeWithout, ZenonT(40) DEF TypeOK
  <2>4. QED
    BY <1>1, <1>3, <2>3 DEF TypeOK, FilesSoFar, NothingStale
<1>4. QED
  BY <1>2, <1>3

LEMMA Mem2RegStep ==
  ASSUME IInv, Mem2Reg
  PROVE  IInv'
<1> USE DEF IInv
<1>1. UNCHANGED <<version, cwd, edited>> /\ pc = "mem2reg" /\ pc' = "opt"
  BY DEF Mem2Reg, quiet
<1>2. CASE cwd # "home"
  <2>1. home' = home
    BY <1>2, HomeStays DEF TypeOK
  <2>2. QED
    BY <1>1, <1>2, <2>1 DEF TypeOK, NothingStale
<1>3. CASE cwd = "home"
  <2>1. DOMAIN home \subseteq {"ir"}
    BY <1>1, <1>3 DEF FilesSoFar
  <2>2. \/ "ir" \in DOMAIN home /\ home' = With(home, "mem2reg_ir", home["ir"])
        \/ home' = home \/ home' = Without(home, "mem2reg_ir")
    BY <1>3, OptCommand DEF Mem2Reg
  <2>3. /\ IsFunction(home') /\ DOMAIN home' \subseteq {"ir", "mem2reg_ir"}
        /\ "mem2reg_ir" \in DOMAIN home' => "ir" \in DOMAIN home'
    BY <2>1, <2>2, HomeWith, HomeWithout DEF TypeOK
  <2>4. ~ edited => \A x \in DOMAIN home : home[x] = version
    BY <1>1, <1>3 DEF NothingStale, Compiling
  <2>5. ~ edited => \A x \in DOMAIN home' : home'[x] = version
    BY <2>2, <2>4, HomeWith, HomeWithout, ZenonT(40)
  <2>6. QED
    BY <1>1, <1>3, <2>3, <2>5 DEF TypeOK, FilesSoFar, NothingStale
<1>4. QED
  BY <1>2, <1>3

LEMMA OptStep ==
  ASSUME IInv, Opt
  PROVE  IInv'
<1> USE DEF IInv
<1>1. UNCHANGED <<version, cwd, edited>> /\ pc = "opt" /\ pc' = "remove"
  BY DEF Opt, quiet
<1>2. CASE cwd # "home"
  <2>1. home' = home
    BY <1>2, HomeStays DEF TypeOK
  <2>2. QED
    BY <1>1, <1>2, <2>1 DEF TypeOK, NothingStale
<1>3. CASE cwd = "home"
  <2>1. /\ DOMAIN home \subseteq {"ir", "mem2reg_ir"}
        /\ "mem2reg_ir" \in DOMAIN home => "ir" \in DOMAIN home
    BY <1>1, <1>3 DEF FilesSoFar
  <2>2. \/ /\ "mem2reg_ir" \in DOMAIN home
           /\ home' = With(home, "opt_ir", home["mem2reg_ir"])
        \/ home' = home \/ home' = Without(home, "opt_ir")
    BY <1>3, OptCommand DEF Opt
  <2>3. /\ IsFunction(home')
        /\ DOMAIN home' # {} => "ir" \in DOMAIN home'
    BY <2>1, <2>2, HomeWith, HomeWithout DEF TypeOK
  <2>4. ~ edited => \A x \in DOMAIN home : home[x] = version
    BY <1>1, <1>3 DEF NothingStale, Compiling
  <2>5. ~ edited => \A x \in DOMAIN home' : home'[x] = version
    BY <2>2, <2>4, HomeWith, HomeWithout, ZenonT(40)
  <2>6. QED
    BY <1>1, <1>3, <2>3, <2>5 DEF TypeOK, FilesSoFar, NothingStale
<1>4. QED
  BY <1>2, <1>3

LEMMA CleanStep ==
  ASSUME IInv, Clean
  PROVE  IInv'
<1> USE DEF IInv
<1>1. UNCHANGED <<version, cwd, edited>> /\ pc = "clean"
  BY DEF Clean, quiet
<1>2. PICK x \in listed :
        /\ listed' = listed \ {x}
        /\ IF x \in DOMAIN Here
           THEN SetHere(Without(Here, x)) /\ UNCHANGED pc
           ELSE pc' = "crashed" /\ UNCHANGED <<home, away>>
  BY DEF Clean
<1>3. pc' \in {"clean", "crashed"}
  BY <1>1, <1>2
<1>4. NothingStale'
  BY <1>3 DEF NothingStale, Compiling
<1>5. CASE cwd # "home"
  <2>1. home' = home
    BY <1>5, HomeStays DEF TypeOK
  <2>2. QED
    BY <1>1, <1>4, <1>5, <2>1 DEF TypeOK
<1>6. CASE cwd = "home"
  <2>1. \/ home' = Without(home, x)
        \/ home' = home /\ pc' = "crashed"
    BY <1>2, <1>6 DEF SetHere, Here
  <2>2. IsFunction(home') /\ (pc' = "clean" => DOMAIN home' \subseteq listed')
    BY <1>1, <1>2, <1>6, <2>1, HomeWithout DEF TypeOK, FilesSoFar
  <2>3. QED
    BY <1>1, <1>3, <1>4, <1>6, <2>2 DEF TypeOK, FilesSoFar
<1>7. QED
  BY <1>5, <1>6

LEMMA NextIInv ==
  ASSUME IInv, [Next]_vars
  PROVE  IInv'
<1> USE DEF IInv
<1>1. CASE Edit
  BY <1>1 DEF Edit, TypeOK, FilesSoFar, NothingStale
<1>2. CASE Start
  BY <1>2 DEF Start, TypeOK, FilesSoFar, NothingStale, Compiling
<1>3. CASE Options
  BY <1>3 DEF Options, quiet, TypeOK, FilesSoFar, NothingStale, Compiling
<1>4. CASE Clean
  BY <1>4, CleanStep
<1>5. CASE CleanDone
  BY <1>5 DEF CleanDone, quiet, TypeOK, FilesSoFar, NothingStale
<1>6. CASE Clang \/ Mem2Reg \/ Opt
  BY <1>6, ClangStep, Mem2RegStep, OptStep
<1>7. CASE RemoveIR
  <2>1. home' = home \/ home' = Without(home, "ir")
    BY <1>7 DEF RemoveIR
  <2>2. IsFunction(home')
    BY <2>1, HomeWithout DEF TypeOK
  <2>3. QED
    BY <1>7, <2>2 DEF RemoveIR, quiet, TypeOK, FilesSoFar, NothingStale, Compiling
<1>8. CASE Interrupt
  BY <1>8 DEF Interrupt, quiet, TypeOK, FilesSoFar, NothingStale, Compiling
<1>9. CASE NotFound
  BY <1>9 DEF NotFound, quiet, TypeOK, FilesSoFar, NothingStale, Compiling
<1>10. CASE UNCHANGED vars
  BY <1>10 DEF vars, TypeOK, FilesSoFar, NothingStale
<1>11. QED
  BY <1>1, <1>2, <1>3, <1>4, <1>5, <1>6, <1>7, <1>8, <1>9, <1>10 DEF Next

LEMMA Invariance == Spec => []IInv
BY InitIInv, NextIInv, PTL DEF Spec

(* Cleaning first is enough, whichever of the commands then fail: every    *)
(* file they may read was written in this run, from the present source.    *)
THEOREM CleanedIsEnough == Spec => []NothingStale
<1>1. IInv => NothingStale
  BY DEF IInv
<1>2. QED
  BY <1>1, Invariance, PTL

(* The os.remove at the end fails just when nothing has been produced.     *)
LEMMA EndStep ==
  ASSUME IInv, RemoveIR, cwd = "home"
  PROVE  /\ pc' = "crashed" => home' = None
         /\ pc' = "idle" => "ir" \in DOMAIN home /\ "ir" \notin DOMAIN home'
         /\ ~ edited => \A x \in DOMAIN home' : home'[x] = version
<1> USE DEF IInv
<1>1. /\ pc = "remove"
      /\ DOMAIN home # {} => "ir" \in DOMAIN home
      /\ ~ edited => \A x \in DOMAIN home : home[x] = version
  BY DEF RemoveIR, FilesSoFar, NothingStale, Compiling
<1>2. CASE "ir" \in DOMAIN home
  <2>1. home' = Without(home, "ir") /\ pc' = "idle"
    BY <1>2 DEF RemoveIR
  <2>2. QED
    BY <1>1, <1>2, <2>1, HomeWithout
<1>3. CASE "ir" \notin DOMAIN home
  <2>1. home' = home /\ pc' = "crashed" /\ DOMAIN home = {}
    BY <1>1, <1>3 DEF RemoveIR
  <2>2. home = None
    BY <2>1 DEF TypeOK, IsFunction, None
  <2>3. QED
    BY <2>1, <2>2
<1>4. QED
  BY <1>2, <1>3

(* How the script ends where it lies tells what it has done, although it   *)
(* looks at no exit status.                                                *)
THEOREM EndIsTruthful == Spec => EndTellsTheTruth
<1>1. ASSUME IInv, [Next]_vars
      PROVE  [RemoveIR /\ cwd = "home" =>
                /\ pc' = "crashed" => home' = None
                /\ pc' = "idle" => "ir" \in DOMAIN home /\ "ir" \notin DOMAIN home'
                /\ ~ edited => \A x \in DOMAIN home' : home'[x] = version]_vars
  <2>1. RemoveIR /\ cwd = "home" =>
          /\ pc' = "crashed" => home' = None
          /\ pc' = "idle" => "ir" \in DOMAIN home /\ "ir" \notin DOMAIN home'
          /\ ~ edited => \A x \in DOMAIN home' : home'[x] = version
    BY <1>1, EndStep, ZenonT(30)
  <2>2. QED
    BY <2>1, ZenonT(30)
<1>2. QED
  BY <1>1, Invariance, PTL DEF Spec, EndTellsTheTruth

================================================================================
