--------------------------- MODULE CountedRunProofs ----------------------------
(***************************************************************************)
(* Theorems about the program that count-bb has instrumented, compiled by  *)
(* any pipeline from any program and run by any number of threads: its     *)
(* invariant, that the report is armed in time, that the program           *)
(* implements the counting protocol, that races never make the counter     *)
(* too large, that one thread counts exactly, and that a program main      *)
(* leaves by return reports the whole run.  They rest on                   *)
(* PipelineInvariant, for the code that runs, and on CountProtocolProofs,  *)
(* for what the protocol does with it.                                     *)
(***************************************************************************)
EXTENDS CountedRun, OptPipelineProofs

(* A run of the whole, seen through opt's variables, is a run of opt.      *)
LEMMA Whole == WholeSpec => Spec
<1>1. WholeInit => Init
  BY DEF WholeInit
<1>2. [WholeNext]_allVars => [Next]_vars
  BY DEF WholeNext, allVars, Compile, Execute, Over, Next
<1>3. QED
  BY <1>1, <1>2, PTL DEF WholeSpec, Spec

(* When opt is done each block weighs what the pass list says, and main    *)
(* has as many registrations at its head.                                  *)
LEMMA WeightIs == 
  ASSUME IInv, Finished
  PROVE Weight = Runs("count-bb") /\ Weight \in Nat /\ Setups = Weight
<1>1. passes \in Seq({"posix-main", "count-bb"}) /\ at = Len(passes)
  BY PipelinesAssumption DEF IInv, AtPass, Finished
<1>2. DOMAIN passes = 1..at
  BY <1>1
<1>3. QED
  BY <1>2, RunsAre DEF Weight, Runs, Setups, Finished, IInv

--------------------------------------------------------------------------------
(* The code that runs *)

(* What stands at place k of a block of length L after r registrations and *)
(* n counting codes.                                                       *)
CountedSite(new, old, r, n, k) ==
  LET L == Len(old) IN
  /\ k <= r => new[k] = Instr("atexit", "setupAtExit")
  /\ r < k /\ k < r + L => new[k] = old[k - r]
  /\ r + L <= k /\ k < r + L + 3 * n => new[k] = Counting[((k - (r + L)) % 3) + 1]
  /\ k = r + L + 3 * n => new[k] = old[L]

Joined(u, s, t, S) ==
  /\ u \in Seq(S) /\ Len(u) = Len(s) + Len(t)
  /\ \A k \in 1..Len(s) + Len(t) : u[k] = IF k <= Len(s) THEN s[k] ELSE t[k - Len(s)]

(* Where the elements of a concatenation come from.                        *)
LEMMA Concatenation ==
  ASSUME NEW S, NEW s \in Seq(S), NEW t \in Seq(S)
  PROVE  Joined(s \o t, s, t, S)
BY ConcatProperties DEF Joined

(* A counted block holds its own code, what was inserted, and nothing      *)
(* else.                                                                   *)
LEMMA CountedAt ==
  ASSUME NEW names, PassNames \subseteq names,
         NEW old \in Seq(Instructions(names)), old # <<>>,
         NEW r \in Nat, NEW n \in Nat,
         NEW new, new = CountedBlock(old, r, n)
  PROVE  /\ new \in Seq(Instructions(names))
         /\ Len(new) = r + Len(old) + 3 * n
         /\ \A k \in 1..Len(new) : CountedSite(new, old, r, n, k)
<1>1. PICK A : A = Times(r, Registration)
  OBVIOUS
<1>2. PICK B : B = SubSeq(old, 1, Len(old) - 1)
  OBVIOUS
<1>3. PICK C : C = Times(n, Counting)
  OBVIOUS
<1>4. PICK D : D = <<old[Len(old)]>>
  OBVIOUS
<1> DEFINE I == Instructions(names)
<1>5. /\ Registration \in Seq(I) /\ Len(Registration) = 1
      /\ Counting \in Seq(I) /\ Len(Counting) = 3
      /\ A \in Seq(I) /\ B \in Seq(I) /\ C \in Seq(I) /\ D \in Seq(I)
  BY <1>1, <1>2, <1>3, <1>4, Parts
<1>6. Len(old) \in Nat \ {0}
  BY EmptySeq, ElementOfSeq
<1>7. Len(A) = r /\ \A k \in 1..r : A[k] = Instr("atexit", "setupAtExit")
  <2>1. r * Len(Registration) = r /\ \A k \in 1..r : ((k - 1) % Len(Registration)) + 1 = 1
    BY <1>5
  <2>2. Len(A) = r /\ \A k \in 1..r : A[k] = Registration[1]
    BY <1>1, <1>5, <2>1, TimesIsSeq DEF Times
  <2>3. QED
    BY <2>2 DEF Registration
<1>8. Len(B) = Len(old) - 1 /\ \A k \in 1..Len(old) - 1 : B[k] = old[k]
  <2>1. PICK p : p = Len(old) - 1 /\ p \in Nat
    BY <1>6
  <2>2. \A i \in 1..p : old[i] \in I
    BY <1>6, <2>1, ElementOfSeq
  <2> HIDE DEF I
  <2>3. /\ Len(B) = IF 1 <= p THEN p - 1 + 1 ELSE 0
        /\ \A i \in 1..p - 1 + 1 : B[i] = old[1 + i - 1]
    BY <1>2, <2>1, <2>2, SubSeqProperties
  <2>4. QED
    BY <2>1, <2>3
<1>9. Len(C) = 3 * n /\ \A k \in 1..3 * n : C[k] = Counting[((k - 1) % 3) + 1]
  <2>1. n * Len(Counting) = 3 * n
    BY <1>5
  <2>2. QED
    BY <1>3, <1>5, <2>1, TimesIsSeq DEF Times
<1>10. Len(D) = 1 /\ D[1] = old[Len(old)]
  BY <1>4
<1>11. PICK AB : AB = A \o B
  OBVIOUS
<1>12. PICK ABC : ABC = AB \o C
  OBVIOUS
<1>13. new = ABC \o D
  BY <1>1, <1>2, <1>3, <1>4, <1>11, <1>12 DEF CountedBlock
<1> HIDE DEF I
<1>a. PICK L, N : L = Len(old) /\ N = 3 * n /\ L \in Nat \ {0} /\ N \in Nat
  BY <1>6
<1>14. /\ AB \in Seq(I) /\ Len(AB) = r + (L - 1)
       /\ \A k \in 1..r + (L - 1) : AB[k] = IF k <= r THEN A[k] ELSE B[k - r]
  <2>a. Joined(AB, A, B, I)
    BY <1>5, <1>11, Concatenation
  <2>1. r \in Nat /\ L - 1 \in Nat /\ Len(A) = r /\ Len(B) = L - 1
    BY <1>7, <1>8, <1>a
  <2>2. QED
    BY <2>1, <2>a DEF Joined
<1>15. /\ ABC \in Seq(I) /\ Len(ABC) = r + L - 1 + N
       /\ \A k \in 1..r + L - 1 + N :
            ABC[k] = IF k <= r + L - 1 THEN AB[k] ELSE C[k - (r + L - 1)]
  <2>a. Joined(ABC, AB, C, I)
    BY <1>5, <1>12, <1>14, Concatenation
  <2>1. PICK p : p = r + (L - 1)
    OBVIOUS
  <2>2. p \in Nat /\ p = r + L - 1 /\ Len(AB) = p /\ Len(C) = N
    BY <1>9, <1>14, <1>a, <2>1
  <2>3. /\ ABC \in Seq(I) /\ Len(ABC) = p + N
        /\ \A k \in 1..p + N : ABC[k] = IF k <= p THEN AB[k] ELSE C[k - p]
    BY <2>2, <2>a DEF Joined
  <2>4. QED
    BY <2>2, <2>3
<1>16. /\ new \in Seq(I) /\ Len(new) = r + L + N
       /\ \A k \in 1..r + L + N :
            new[k] = IF k < r + L + N THEN ABC[k] ELSE D[1]
  <2>a. Joined(new, ABC, D, I)
    BY <1>5, <1>13, <1>15, Concatenation
  <2>1. PICK p : p = r + L - 1 + N
    OBVIOUS
  <2>2. p \in Nat /\ Len(ABC) = p /\ 1 \in Nat
    BY <1>15, <1>a, <2>1
  <2>3. /\ new \in Seq(I) /\ Len(new) = p + 1
        /\ \A k \in 1..p + 1 : new[k] = IF k <= p THEN ABC[k] ELSE D[k - p]
    BY <1>10, <2>2, <2>a DEF Joined
  <2>4. \A k \in 1..p + 1 : ~ (k <= p) => k - p = 1
    BY <2>2
  <2>5. \A k \in 1..p + 1 : new[k] = IF k <= p THEN ABC[k] ELSE D[1]
    BY <2>3, <2>4
  <2>6. p + 1 = r + L + N /\ \A k \in 1..p + 1 : k <= p <=> k < r + L + N
    BY <1>a, <2>1
  <2>7. QED
    BY <2>3, <2>5, <2>6
<1>17. ASSUME NEW k \in 1..r + L + N PROVE CountedSite(new, old, r, n, k)
  <2>1. CASE k <= r
    <3>1. /\ k \in 1..r + (L - 1) /\ k \in 1..r + L - 1 + N /\ k \in 1..r
          /\ k <= r + L - 1 /\ k < r + L + N
          /\ ~ (r < k) /\ ~ (r + L <= k) /\ ~ (k = r + L + N)
      BY <1>a, <2>1
    <3>2. new[k] = ABC[k] /\ ABC[k] = AB[k]
      BY <1>15, <1>16, <3>1
    <3>3. AB[k] = A[k]
      BY <1>14, <2>1, <3>1
    <3>4. new[k] = Instr("atexit", "setupAtExit")
      BY <1>7, <3>1, <3>2, <3>3
    <3>5. QED
      BY <1>a, <3>1, <3>4 DEF CountedSite
  <2>2. CASE r < k /\ k < r + L
    <3>1. /\ k \in 1..r + (L - 1) /\ k \in 1..r + L - 1 + N
          /\ ~ (k <= r) /\ k <= r + L - 1 /\ k - r \in 1..Len(old) - 1
          /\ k < r + L + N /\ ~ (r + L <= k)
      BY <1>a, <2>2
    <3>2. new[k] = ABC[k]
      BY <1>16, <3>1
    <3>3. ABC[k] = AB[k]
      BY <1>15, <3>1
    <3>4. AB[k] = B[k - r]
      BY <1>14, <3>1
    <3>5. B[k - r] = old[k - r]
      BY <1>8, <3>1
    <3>6. QED
      BY <1>a, <3>1, <3>2, <3>3, <3>4, <3>5 DEF CountedSite
  <2>3. CASE r + L <= k /\ k < r + L + N
    <3>1. new[k] = C[k - (r + L - 1)]
      <4>1. /\ k \in 1..r + L - 1 + N /\ ~ (k <= r + L - 1) /\ k < r + L + N
        BY <1>a, <2>3
      <4>2. new[k] = ABC[k]
        BY <1>16, <4>1
      <4>3. QED
        BY <1>15, <4>1, <4>2
    <3>2. PICK j : j = k - (r + L - 1)
      OBVIOUS
    <3>3. j \in 1..3 * n /\ j - 1 = k - (r + L)
      BY <1>a, <2>3, <3>2
    <3>4. new[k] = Counting[((k - (r + L)) % 3) + 1]
      BY <1>9, <3>1, <3>2, <3>3
    <3>5. ~ (k <= r) /\ ~ (k < r + L) /\ ~ (k = r + L + N)
      BY <1>a, <2>3
    <3>6. QED
      BY <1>a, <3>4, <3>5 DEF CountedSite
  <2>4. CASE k = r + L + N
    BY <1>a, <1>10, <1>16, <2>4 DEF CountedSite
  <2>5. QED
    BY <1>a, <2>1, <2>2, <2>3, <2>4
<1>18. QED
  BY <1>a, <1>16, <1>17 DEF I

(* What the program calls, or has registered.                              *)
Runnable(name) ==
  Defines(source, name) \/ (Weight > 0 /\ name = "setupAtExit")

(* The blocks that can be executed.                                        *)
Executable(M, name, m) ==
  /\ Runnable(name)
  /\ m \in DOMAIN Named(M, name).blocks
  /\ name = "setupAtExit" => m = 1

(* A registration stands at the head of main.                              *)
Registers(ins, name, m, n) ==
  ins.op = "atexit" /\ name = "main" /\ m = 1 /\ n <= Weight

(* An instruction of theirs, at place n of block m of a function.          *)
InstrOK(ins, last, size, name, m, n) ==
  /\ IsTerminator(ins) <=> n = last
  /\ ins.op = "br" => ins.to \subseteq 2..size
  /\ ins.op \in {"call", "spawn"} => Defines(source, ins.sym)
  /\ ins.op = "atexit" => Runnable(ins.sym)
  /\ ins.op \in {"call", "spawn", "exit", "atexit"} =>
       \/ ins \in InstrsOf(Named(source, name)) /\ ins \in Instrs(source)
       \/ Registers(ins, name, m, n)
  /\ ins.op = "printf" => name = "setupAtExit"
  /\ name = "main" /\ m = 1 /\ n <= Weight =>
       ins.op = "atexit" /\ ins.sym = "setupAtExit"

BlockOK(block, size, name, m) ==
  /\ DOMAIN block = 1..Len(block) /\ Len(block) \in Nat \ {0}
  /\ \A n \in DOMAIN block : InstrOK(block[n], Len(block), size, name, m, n)

(* Load, add and store stand together, the load of setupAtExit is printed, *)
(* and nothing but its terminator follows them in a block.                 *)
Counts(block, n) ==
  /\ block[n].op \in {"load", "store"} => block[n].sym = "bbCounter" /\ Weight > 0
  /\ block[n].op \in {"add", "printf"} <=> n > 1 /\ block[n - 1].op = "load"
  /\ block[n].op = "store" <=> n > 1 /\ block[n - 1].op = "add"
  /\ block[n].op \in OwnOps \ {"br", "ret"} =>
       \A i \in 1..n - 1 : block[i].op \notin {"load", "add", "store"}

StoreSites(block) == {n \in DOMAIN block : block[n].op = "store"}

CountsOK(block, name) ==
  /\ \A n \in DOMAIN block : Counts(block, n)
  /\ IsFiniteSet(StoreSites(block))
  /\ Cardinality(StoreSites(block)) = IF name = "setupAtExit" THEN 0 ELSE Weight

(* It has blocks, numbered from 1.                                         *)
HasBlocks(blocks) == DOMAIN blocks = 1..Len(blocks) /\ Len(blocks) \in Nat \ {0}

CodeOK(M) ==
  /\ \A name : Runnable(name) => HasBlocks(Named(M, name).blocks)
  /\ \A name, m : Executable(M, name, m) =>
       /\ BlockOK(Named(M, name).blocks[m], Len(Named(M, name).blocks), name, m)
       /\ CountsOK(Named(M, name).blocks[m], name)
  /\ Weight > 0 => "bbCounter" \in DOMAIN M.gvars /\ M.gvars["bbCounter"].init = 0
  /\ Weight > 0 => Named(M, "setupAtExit").blocks[1] = HandlerCode
  /\ Defines(source, "main") /\ ~ Defines(source, "setupAtExit")
  /\ M.ctors \in Seq(STRING) /\ M.ctors = source.ctors
  /\ \A k \in DOMAIN M.ctors : Defines(source, M.ctors[k])

(* The instructions of the program, before it was instrumented.            *)
SourceInstr(ins, last, size, name, n) ==
  /\ IsTerminator(ins) <=> n = last
  /\ ins.op = "br" => ins.to \subseteq 2..size
  /\ ins.op \in OwnOps
  /\ ins.op \in {"call", "spawn", "atexit"} => Defines(source, ins.sym)
  /\ ins \in InstrsOf(Named(source, name)) /\ ins \in Instrs(source)

(* What a verified program that defines what it calls may have anywhere.   *)
LEMMA SourceCode ==
  ASSUME source \in Modules, NEW j \in DOMAIN source.funcs,
         NEW blocks, blocks = source.funcs[j].blocks,
         NEW name, Named(source, name) = source.funcs[j],
         NEW m \in DOMAIN blocks, NEW n \in DOMAIN blocks[m]
  PROVE  SourceInstr(blocks[m][n], Len(blocks[m]), Len(blocks), name, n)
<1>1. Verifies(source) /\ IsProgram(source)
  BY ModulesAssumption, ProgramsAssumption
<1>2. blocks[m][n] \in InstrsOf(Named(source, name)) /\ blocks[m][n] \in Instrs(source)
  BY SMTT(30) DEF Instrs, InstrsOf
<1>3. PICK ins : ins = blocks[m][n]
  OBVIOUS
<1>4. ins.op \in OwnOps
  BY <1>1, <1>2, <1>3 DEF IsProgram
<1>5. ins.op \in {"call", "spawn", "atexit"} => Defines(source, ins.sym)
  BY <1>1, <1>2, <1>3 DEF IsProgram, Calls
<1>6. /\ blocks[m] # <<>>
      /\ IsTerminator(blocks[m][n]) <=> n = Len(blocks[m])
      /\ blocks[m][Len(blocks[m])].to \subseteq 2..Len(blocks)
  BY <1>1 DEF Verifies
<1>7. ins.op = "br" => ins.to \subseteq 2..Len(blocks)
  BY <1>3, <1>6 DEF IsTerminator
<1>8. QED
  BY <1>2, <1>3, <1>4, <1>5, <1>6, <1>7 DEF SourceInstr

(* The three instructions of runOnBasicBlock.                              *)
LEMMA CountingIs ==
  /\ Counting[1].op = "load" /\ Counting[1].sym = "bbCounter"
  /\ Counting[2].op = "add"
  /\ Counting[3].op = "store" /\ Counting[3].sym = "bbCounter"
<1>1. PICK a, none : a = Instr("load", "bbCounter") /\ none = ""
  BY Zenon
<1>2. PICK b : b = Instr("add", none)
  OBVIOUS
<1>3. PICK c : c = Instr("store", "bbCounter")
  OBVIOUS
<1>4. Counting = <<a, b, c>>
  BY <1>1, <1>2, <1>3, Zenon DEF Counting
<1>5. /\ a.op = "load" /\ a.sym = "bbCounter" /\ b.op = "add"
      /\ c.op = "store" /\ c.sym = "bbCounter"
  <2>1. a.op = "load" /\ a.sym = "bbCounter"
    <3>1. a = Instr("load", "bbCounter")
      BY <1>1, Zenon
    <3>2. QED
      BY <3>1 DEF Instr
  <2>2. b.op = "add" /\ c.op = "store" /\ c.sym = "bbCounter"
    BY <1>2, <1>3 DEF Instr
  <2>3. QED
    BY <2>1, <2>2
<1>6. QED
  BY <1>4, <1>5

(* A block that has been counted is executed as CodeOK says.               *)
LEMMA CountedCode ==
  ASSUME NEW names, PassNames \subseteq names,
         NEW old \in Seq(Instructions(names)), old # <<>>,
         NEW name, NEW m, NEW size, Weight \in Nat,
         \A n \in DOMAIN old : SourceInstr(old[n], Len(old), size, name, n),
         NEW new, new = CountedBlock(old, RegisteredIn(name, m, Weight), Weight)
  PROVE  BlockOK(new, size, name, m)
<1>1. PICK r : r = RegisteredIn(name, m, Weight)
  OBVIOUS
<1>2. /\ r \in Nat /\ r <= Weight
      /\ name = "main" /\ m = 1 => r = Weight
  BY <1>1 DEF RegisteredIn
<1>3. PICK L, N : L = Len(old) /\ N = 3 * Weight
  OBVIOUS
<1>4. L \in Nat \ {0} /\ N \in Nat
  BY <1>3, EmptySeq, ElementOfSeq
<1>5. /\ new \in Seq(Instructions(names))
      /\ Len(new) = r + L + N
      /\ \A k \in 1..Len(new) : CountedSite(new, old, r, Weight, k)
  BY <1>1, <1>2, <1>3, CountedAt
<1>6. DOMAIN new = 1..r + L + N /\ DOMAIN old = 1..L
  BY <1>3, <1>5
<1>7. ASSUME NEW k \in 1..r + L + N
      PROVE  InstrOK(new[k], r + L + N, size, name, m, k)
  <2>1. CASE k <= r
    <3>1. new[k] = Instr("atexit", "setupAtExit")
      BY <1>5, <2>1 DEF CountedSite
    <3>2. new[k].op = "atexit" /\ new[k].sym = "setupAtExit"
      BY <3>1 DEF Instr
    <3>3. k # r + L + N /\ Weight > 0
      BY <1>2, <1>4, <2>1
    <3>4. QED
      <4>1. name = "main" /\ m = 1 /\ k <= Weight
        BY <1>1, <2>1, <3>3 DEF RegisteredIn
      <4>2. QED
        BY <3>2, <3>3, <4>1 DEF InstrOK, Registers, IsTerminator, Runnable
  <2>2. CASE r < k /\ k < r + L
    <3>1. new[k] = old[k - r]
      BY <1>3, <1>5, <2>2 DEF CountedSite
    <3>2. k - r \in 1..L /\ k - r # L /\ k # r + L + N
      BY <1>2, <1>4, <2>2
    <3>3. SourceInstr(old[k - r], L, size, name, k - r)
      BY <1>3, <1>6, <3>2
    <3>4. name = "main" /\ m = 1 => ~ (k <= Weight)
      BY <1>2, <2>2
    <3>5. QED
      BY <3>1, <3>2, <3>3, <3>4 DEF InstrOK, SourceInstr, OwnOps, Runnable
  <2>3. CASE r + L <= k /\ k < r + L + N
    <3>1. new[k] = Counting[((k - (r + L)) % 3) + 1]
      BY <1>3, <1>5, <2>3 DEF CountedSite
    <3>2. ((k - (r + L)) % 3) + 1 \in {1, 2, 3}
      BY <1>2, <1>4, <2>3
    <3>3. new[k].op \in {"load", "add", "store"}
      <4>1. PICK i : i = ((k - (r + L)) % 3) + 1
        OBVIOUS
      <4>2. QED
        BY <3>1, <3>2, <4>1, CountingIs
    <3>4. k # r + L + N /\ (name = "main" /\ m = 1 => ~ (k <= Weight))
      BY <1>2, <1>4, <2>3
    <3>5. QED
      BY <3>3, <3>4 DEF InstrOK, IsTerminator
  <2>4. CASE k = r + L + N
    <3>1. new[k] = old[L]
      BY <1>3, <1>5, <2>4 DEF CountedSite
    <3>2. SourceInstr(old[L], L, size, name, L)
      BY <1>3, <1>4, <1>6
    <3>3. name = "main" /\ m = 1 => ~ (k <= Weight)
      BY <1>2, <1>4, <2>4
    <3>4. QED
      BY <2>4, <3>1, <3>2, <3>3 DEF InstrOK, SourceInstr, OwnOps, Runnable
  <2>5. QED
    BY <1>2, <1>4, <2>1, <2>2, <2>3, <2>4
<1>8. QED
  BY <1>2, <1>4, <1>5, <1>6, <1>7 DEF BlockOK

(* Where the stores of a counted block are.                                *)
EveryThird(S, p, n) == \A k : k \in S <=> \E i \in 1..n : k = p + 3 * i

(* As many stores as counting codes.                                       *)
LEMMA CountedStores ==
  ASSUME NEW sites, NEW p \in Nat, NEW n \in Nat, EveryThird(sites, p, n)
  PROVE  IsFiniteSet(sites) /\ Cardinality(sites) = n
<1>0. \A k : k \in sites <=> \E i \in 1..n : k = p + 3 * i
  BY DEF EveryThird
<1>1. PICK f : f = [i \in 1..n |-> p + 3 * i]
  OBVIOUS
<1>2. f \in Bijection(1..n, sites)
  <2>1. f \in [1..n -> sites]
    BY <1>0, <1>1
  <2>2. \A i, j \in 1..n : f[i] = f[j] => i = j
    BY <1>1
  <2>3. \A k \in sites : \E i \in 1..n : f[i] = k
    BY <1>0, <1>1
  <2>4. f \in Injection(1..n, sites)
    BY <2>1, <2>2 DEF Injection, IsInjective
  <2>5. f \in Surjection(1..n, sites)
    BY <2>1, <2>3 DEF Surjection
  <2>6. QED
    BY <2>4, <2>5 DEF Bijection
<1>3. IsFiniteSet(1..n) /\ Cardinality(1..n) = n
  BY FS_Interval
<1>4. QED
  BY <1>2, <1>3, FS_Bijection DEF ExistsBijection

(* In a counted block load, add and store come in threes, as many as       *)
(* count-bb ran, before the terminator and after everything of the         *)
(* program's own.                                                          *)
LEMMA CountedCounts ==
  ASSUME NEW names, PassNames \subseteq names,
         NEW old \in Seq(Instructions(names)), old # <<>>,
         NEW name, name # "setupAtExit", NEW r \in Nat, Weight \in Nat,
         \A n \in DOMAIN old : old[n].op \in OwnOps /\ (IsTerminator(old[n]) <=> n = Len(old)),
         NEW new, new = CountedBlock(old, r, Weight)
  PROVE  CountsOK(new, name)
<1>1. PICK L, W : L = Len(old) /\ W = Weight
  OBVIOUS
<1>2. PICK p : p = r + L
  OBVIOUS
<1>3. L \in Nat \ {0} /\ DOMAIN old = 1..L /\ W \in Nat /\ p \in Nat \ {0} /\ r < p
  BY <1>1, <1>2, EmptySeq, LenProperties
<1>4. /\ Len(new) = p + 3 * W /\ DOMAIN new = 1..p + 3 * W
      /\ \A k \in 1..p + 3 * W : CountedSite(new, old, r, W, k)
  BY <1>1, <1>2, CountedAt, LenProperties
<1>5. /\ \A k \in 1..p - 1 : new[k].op \in OwnOps \ {"br", "ret"}
      /\ \A k \in p..p + 3 * W - 1 : new[k] = Counting[((k - p) % 3) + 1]
      /\ new[p + 3 * W].op \in {"br", "ret"}
  <2>1. ASSUME NEW k \in 1..p - 1 PROVE new[k].op \in OwnOps \ {"br", "ret"}
    <3>1. CASE k <= r
      <4>1. k \in 1..p + 3 * W
        BY <1>3
      <4>2. new[k] = Instr("atexit", "setupAtExit")
        BY <1>4, <3>1, <4>1 DEF CountedSite
      <4>3. QED
        BY <4>2 DEF Instr, OwnOps
    <3>2. CASE r < k
      <4>1. k \in 1..p + 3 * W /\ k < r + L /\ k - r \in 1..L /\ k - r # L
        BY <1>2, <1>3, <3>2
      <4>2. new[k] = old[k - r]
        BY <1>1, <1>4, <3>2, <4>1 DEF CountedSite
      <4>3. old[k - r].op \in OwnOps /\ ~ IsTerminator(old[k - r])
        BY <1>1, <1>3, <4>1
      <4>4. QED
        BY <4>2, <4>3 DEF IsTerminator
    <3>3. QED
      BY <1>3, <3>1, <3>2
  <2>2. ASSUME NEW k \in p..p + 3 * W - 1 PROVE new[k] = Counting[((k - p) % 3) + 1]
    <3>1. k \in 1..p + 3 * W /\ p <= k /\ k < p + 3 * W
      BY <1>3
    <3>2. QED
      BY <1>1, <1>2, <1>4, <3>1 DEF CountedSite
  <2>3. new[p + 3 * W].op \in {"br", "ret"}
    <3>1. p + 3 * W \in 1..p + 3 * W
      BY <1>3
    <3>2. new[p + 3 * W] = old[L]
      BY <1>1, <1>2, <1>4, <3>1 DEF CountedSite
    <3>3. QED
      BY <1>1, <1>3, <3>2 DEF IsTerminator
  <2>4. QED
    BY <2>1, <2>2, <2>3
<1>6. /\ Counting[1].op = "load" /\ Counting[1].sym = "bbCounter"
      /\ Counting[2].op = "add"
      /\ Counting[3].op = "store" /\ Counting[3].sym = "bbCounter"
  BY CountingIs
<1>7. \A k \in p..p + 3 * W - 1 :
        /\ (k - p) % 3 = 0 => new[k].op = "load" /\ new[k].sym = "bbCounter"
        /\ (k - p) % 3 = 1 => new[k].op = "add"
        /\ (k - p) % 3 = 2 => new[k].op = "store" /\ new[k].sym = "bbCounter"
        /\ (k - p) % 3 \in {0, 1, 2}
  <2>1. SUFFICES ASSUME NEW k \in p..p + 3 * W - 1
        PROVE /\ (k - p) % 3 = 0 => new[k].op = "load" /\ new[k].sym = "bbCounter"
              /\ (k - p) % 3 = 1 => new[k].op = "add"
              /\ (k - p) % 3 = 2 => new[k].op = "store" /\ new[k].sym = "bbCounter"
              /\ (k - p) % 3 \in {0, 1, 2}
    OBVIOUS
  <2>2. PICK d : d = (k - p) % 3
    OBVIOUS
  <2>3. d \in {0, 1, 2}
    BY <1>3, <2>2
  <2>4. new[k] = Counting[d + 1]
    BY <1>5, <2>2
  <2>5. QED
    BY <1>6, <2>2, <2>3, <2>4
<1>8. ASSUME NEW n \in 1..p + 3 * W PROVE Counts(new, n)
  <2>1. CASE n < p
    <3>1. /\ n \in 1..p - 1 /\ \A i \in 1..n - 1 : i \in 1..p - 1
          /\ n > 1 => n - 1 \in 1..p - 1
      BY <1>3, <2>1
    <3>2. QED
      BY <1>5, <3>1 DEF Counts, OwnOps
  <2>2. CASE n \in p..p + 3 * W - 1
    <3>1. W > 0 /\ (n - p) % 3 \in {0, 1, 2}
      BY <1>3, <2>2
    <3>2. CASE n = p
      <4>1. (n - p) % 3 = 0 /\ (n > 1 => n - 1 \in 1..p - 1)
        BY <1>3, <3>2
      <4>2. new[n].op = "load" /\ new[n].sym = "bbCounter"
        BY <1>7, <2>2, <4>1
      <4>3. n > 1 => new[n - 1].op \in OwnOps
        BY <1>5, <4>1
      <4>4. QED
        BY <1>1, <3>1, <4>2, <4>3 DEF Counts, OwnOps
    <3>3. CASE n # p
      <4>1. n > 1 /\ n - 1 \in p..p + 3 * W - 1
        BY <1>3, <2>2, <3>3
      <4>2. PICK d, e : d = (n - p) % 3 /\ e = ((n - 1) - p) % 3
        OBVIOUS
      <4>3. (d = 0 /\ e = 2) \/ (d = 1 /\ e = 0) \/ (d = 2 /\ e = 1)
        BY <1>3, <2>2, <4>1, <4>2
      <4>4. /\ d = 0 => new[n].op = "load" /\ new[n].sym = "bbCounter"
            /\ d = 1 => new[n].op = "add"
            /\ d = 2 => new[n].op = "store" /\ new[n].sym = "bbCounter"
        BY <1>7, <2>2, <4>2
      <4>5. /\ e = 0 => new[n - 1].op = "load"
            /\ e = 1 => new[n - 1].op = "add"
            /\ e = 2 => new[n - 1].op = "store"
        BY <1>7, <4>1, <4>2
      <4>6. QED
        BY <1>1, <3>1, <4>1, <4>3, <4>4, <4>5 DEF Counts, OwnOps
    <3>4. QED
      BY <3>2, <3>3
  <2>3. CASE n = p + 3 * W
    <3>1. new[n].op \in {"br", "ret"}
      BY <1>5, <2>3
    <3>2. n > 1 => new[n - 1].op \notin {"load", "add"}
      <4>1. CASE W = 0
        <5>1. n > 1 => n - 1 \in 1..p - 1
          BY <1>3, <2>3, <4>1
        <5>2. QED
          BY <1>5, <5>1 DEF OwnOps
      <4>2. CASE W > 0
        <5>1. n - 1 \in p..p + 3 * W - 1 /\ ((n - 1) - p) % 3 = 2
          BY <1>3, <2>3, <4>2
        <5>2. new[n - 1].op = "store"
          BY <1>7, <5>1
        <5>3. QED
          BY <5>2
      <4>3. QED
        BY <1>3, <4>1, <4>2
    <3>3. QED
      BY <3>1, <3>2 DEF Counts
  <2>4. QED
    BY <1>3, <2>1, <2>2, <2>3
<1>9. PICK q : q = p - 1 /\ q \in Nat
  BY <1>3
<1>10. ASSUME NEW k
       PROVE  k \in StoreSites(new) <=> \E i \in 1..W : k = q + 3 * i
  <2>1. ASSUME NEW i \in 1..W, k = q + 3 * i PROVE k \in StoreSites(new)
    <3>1. k \in p..p + 3 * W - 1 /\ (k - p) % 3 = 2 /\ k \in 1..p + 3 * W
      BY <1>3, <1>9, <2>1
    <3>2. QED
      BY <1>4, <1>7, <3>1 DEF StoreSites
  <2>2. ASSUME k \in StoreSites(new) PROVE \E i \in 1..W : k = q + 3 * i
    <3>1. k \in 1..p + 3 * W /\ new[k].op = "store"
      BY <1>4, <2>2 DEF StoreSites
    <3>2. ~ (k \in 1..p - 1) /\ k # p + 3 * W
      BY <1>5, <3>1 DEF OwnOps
    <3>a. k \in Nat /\ k >= 1 /\ k <= p + 3 * W
      BY <1>3, <3>1
    <3>b. k >= p
      BY <1>3, <3>2, <3>a
    <3>3. k \in p..p + 3 * W - 1
      BY <1>3, <3>2, <3>a, <3>b
    <3>4. (k - p) % 3 = 2
      BY <1>7, <3>1, <3>3
    <3>5. PICK i : i = ((k - p) \div 3) + 1
      OBVIOUS
    <3>6. i \in 1..W /\ k = q + 3 * i
      BY <1>3, <1>9, <3>3, <3>4, <3>5
    <3>7. QED
      BY <3>6
  <2>3. QED
    BY <2>1, <2>2
<1>11. IsFiniteSet(StoreSites(new)) /\ Cardinality(StoreSites(new)) = W
  <2>1. EveryThird(StoreSites(new), q, W)
    BY <1>10 DEF EveryThird
  <2>2. QED
    BY <1>3, <1>9, <2>1, CountedStores
<1>12. QED
  BY <1>1, <1>4, <1>8, <1>11 DEF CountsOK

(* The three instructions of create_atexitCall.                            *)
LEMMA HandlerIs ==
  /\ Len(HandlerCode) = 3 /\ DOMAIN HandlerCode = 1..3
  /\ HandlerCode[1].op = "load" /\ HandlerCode[1].sym = "bbCounter"
  /\ HandlerCode[2].op = "printf" /\ HandlerCode[3].op = "ret"
<1>1. PICK a, none : a = Instr("load", "bbCounter") /\ none = ""
  BY Zenon
<1>2. PICK b : b = Instr("printf", none)
  OBVIOUS
<1>3. PICK c : c = Ret("void")
  OBVIOUS
<1>4. HandlerCode = <<a, b, c>>
  BY <1>1, <1>2, <1>3, Zenon DEF HandlerCode
<1>5. /\ a.op = "load" /\ a.sym = "bbCounter" /\ b.op = "printf" /\ c.op = "ret"
  <2>1. a = Instr("load", "bbCounter")
    BY <1>1, Zenon
  <2>2. QED
    BY <2>1, <1>2, <1>3 DEF Instr, Ret
<1>6. QED
  BY <1>4, <1>5

(* setupAtExit loads the counter to print it and stores nothing.           *)
LEMMA HandlerCounts ==
  ASSUME Weight \in Nat, Weight > 0
  PROVE  CountsOK(HandlerCode, "setupAtExit")
<1>1. /\ DOMAIN HandlerCode = {1, 2, 3}
      /\ HandlerCode[1].op = "load" /\ HandlerCode[1].sym = "bbCounter"
      /\ HandlerCode[2].op = "printf" /\ HandlerCode[3].op = "ret"
  BY HandlerIs
<1>2. StoreSites(HandlerCode) = {}
  BY <1>1 DEF StoreSites
<1>3. \A n \in DOMAIN HandlerCode : Counts(HandlerCode, n)
  <2>1. Counts(HandlerCode, 1)
    BY <1>1 DEF Counts, OwnOps
  <2>2. Counts(HandlerCode, 2)
    <3>1. 2 - 1 = 1
      OBVIOUS
    <3>2. QED
      BY <1>1, <3>1 DEF Counts, OwnOps
  <2>3. Counts(HandlerCode, 3)
    <3>1. 3 - 1 = 2
      OBVIOUS
    <3>2. QED
      BY <1>1, <3>1 DEF Counts, OwnOps
  <2>4. QED
    BY <1>1, <2>1, <2>2, <2>3
<1>4. QED
  BY <1>2, <1>3, FS_EmptySet DEF CountsOK

(* What opt has finished with can be executed.                             *)
LEMMA Image ==
  ASSUME IInv, Finished
  PROVE  CodeOK(ir)
<1>1. source \in Modules /\ IsProgram(source) /\ NoReservedName(source)
  BY ProgramsAssumption DEF IInv, AtPass, IsProgram
<1>2. Weight = Runs("count-bb") /\ Weight \in Nat /\ Setups = Weight
  BY WeightIs
<1>3. pc = "done" /\ \A k, m : Countings(k, m) = Weight
  BY <1>2 DEF Finished, Countings
<1>4. PICK names : /\ PassNames \subseteq names
                   /\ IsModule(source, names) /\ IsModule(ir, names)
  BY DEF IInv, ModuleOK
<1>5. ~ Defines(source, "setupAtExit")
  BY <1>1 DEF NoReservedName, Symbols, Defines
<1>6. ASSUME Weight > 0
      PROVE  \E h \in DOMAIN ir.funcs :
               /\ Named(ir, "setupAtExit") = ir.funcs[h]
               /\ HasBlocks(ir.funcs[h].blocks)
               /\ ir.funcs[h].blocks[1] = HandlerCode
  <2>1. /\ "setupAtExit" \in FunctionNames(ir)
        /\ \A k \in DOMAIN ir.funcs : ir.funcs[k].name = "setupAtExit" =>
              ir.funcs[k].blocks # <<>> /\ ir.funcs[k].blocks[1] = HandlerCode
    BY <1>1, <1>2, <1>3, <1>6 DEF IInv, HandlerSoFar
  <2>2. PICK h : h = Position(ir, "setupAtExit")
    OBVIOUS
  <2>3. /\ h \in DOMAIN ir.funcs /\ ir.funcs[h].name = "setupAtExit"
        /\ Named(ir, "setupAtExit") = ir.funcs[h]
    BY <2>1, <2>2, PositionOf
  <2>4. HasBlocks(ir.funcs[h].blocks)
    BY <1>4, <2>1, <2>3, Shape, EmptySeq DEF HasBlocks
  <2>5. QED
    BY <2>1, <2>3, <2>4
<1>7. ASSUME NEW name, Defines(source, name)
      PROVE  \E k \in DOMAIN ir.funcs, j \in DOMAIN source.funcs :
               /\ Named(ir, name) = ir.funcs[k] /\ Named(source, name) = source.funcs[j]
               /\ Len(ir.funcs[k].blocks) = Len(source.funcs[j].blocks)
               /\ DOMAIN ir.funcs[k].blocks = DOMAIN source.funcs[j].blocks
               /\ HasBlocks(ir.funcs[k].blocks)
               /\ \A m \in DOMAIN ir.funcs[k].blocks :
                    /\ BlockOK(ir.funcs[k].blocks[m], Len(ir.funcs[k].blocks), name, m)
                    /\ CountsOK(ir.funcs[k].blocks[m], name)
  <2>1. name \in FunctionNames(source) /\ name \in FunctionNames(ir)
    BY <1>1, <1>3, <1>7 DEF IInv, BlocksSoFar, Defines
  <2>2. PICK k, j : k = Position(ir, name) /\ j = Position(source, name)
    OBVIOUS
  <2>3. /\ k \in DOMAIN ir.funcs /\ j \in DOMAIN source.funcs
        /\ ir.funcs[k].name = name /\ source.funcs[j].name = name
        /\ Named(ir, name) = ir.funcs[k] /\ Named(source, name) = source.funcs[j]
    BY <2>1, <2>2, PositionOf
  <2>4. Instrumented(k, j)
    BY <1>1, <1>3, <2>3 DEF IInv, BlocksSoFar
  <2>5. PICK new, old : new = ir.funcs[k].blocks /\ old = source.funcs[j].blocks
    OBVIOUS
  <2>6. /\ Len(new) = Len(old)
        /\ \A m \in DOMAIN old : new[m] =
             CountedBlock(old[m], RegisteredIn(name, m, Weight), Weight)
    BY <1>2, <1>3, <2>3, <2>4, <2>5 DEF Instrumented
  <2>7. /\ DOMAIN new = 1..Len(new) /\ DOMAIN old = 1..Len(old)
        /\ Len(old) \in Nat /\ old # <<>>
        /\ old \in Seq(Seq(Instructions(names)))
    BY <1>4, <1>7, <2>3, <2>5, Shape DEF Defines
  <2>8. Len(old) \in Nat \ {0}
    BY <2>7, EmptySeq
  <2>9. ASSUME NEW m \in DOMAIN old
        PROVE  BlockOK(new[m], Len(old), name, m) /\ CountsOK(new[m], name)
    <3>1. old[m] \in Seq(Instructions(names)) /\ old[m] # <<>>
      BY <1>1, <1>4, <2>3, <2>5, SourceBlocks
    <3>2. \A n \in DOMAIN old[m] : SourceInstr(old[m][n], Len(old[m]), Len(old), name, n)
      BY <1>1, <2>3, <2>5, SourceCode
    <3>3. BlockOK(new[m], Len(old), name, m)
      BY <1>2, <1>4, <2>6, <3>1, <3>2, CountedCode
    <3>4. CountsOK(new[m], name)
      <4>1. RegisteredIn(name, m, Weight) \in Nat /\ name # "setupAtExit"
        BY <1>2, <1>5, <1>7 DEF RegisteredIn
      <4>2. \A n \in DOMAIN old[m] :
              old[m][n].op \in OwnOps /\ (IsTerminator(old[m][n]) <=> n = Len(old[m]))
        BY <3>2 DEF SourceInstr
      <4>3. QED
        BY <1>2, <1>4, <2>6, <3>1, <4>1, <4>2, CountedCounts
    <3>5. QED
      BY <3>3, <3>4
  <2>10. /\ DOMAIN new = DOMAIN old /\ HasBlocks(new)
         /\ \A m \in DOMAIN new :
              BlockOK(new[m], Len(new), name, m) /\ CountsOK(new[m], name)
    BY <2>6, <2>7, <2>8, <2>9 DEF HasBlocks
  <2>11. QED
    BY <2>3, <2>5, <2>6, <2>10
<1>8. \A name : Runnable(name) => HasBlocks(Named(ir, name).blocks)
  <2>1. SUFFICES ASSUME NEW name, Runnable(name)
                 PROVE  HasBlocks(Named(ir, name).blocks)
    OBVIOUS
  <2>2. CASE Defines(source, name)
    BY <1>7, <2>2
  <2>3. CASE Weight > 0 /\ name = "setupAtExit"
    BY <1>6, <2>3
  <2>4. QED
    BY <2>1, <2>2, <2>3 DEF Runnable
<1>9. ASSUME NEW name, NEW m, Executable(ir, name, m)
      PROVE  /\ BlockOK(Named(ir, name).blocks[m], Len(Named(ir, name).blocks), name, m)
             /\ CountsOK(Named(ir, name).blocks[m], name)
  <2>1. CASE Defines(source, name)
    BY <1>7, <1>9, <2>1 DEF Executable
  <2>2. CASE Weight > 0 /\ name = "setupAtExit"
    <3>1. m = 1 /\ Named(ir, name).blocks[m] = HandlerCode
      BY <1>6, <1>9, <2>2 DEF Executable
    <3>2. /\ Len(HandlerCode) = 3 /\ DOMAIN HandlerCode = 1..3
          /\ HandlerCode[1].op = "load" /\ HandlerCode[2].op = "printf"
          /\ HandlerCode[3].op = "ret"
      BY HandlerIs
    <3>3. BlockOK(HandlerCode, Len(Named(ir, name).blocks), name, m)
      <4>1. ASSUME NEW n \in 1..3
            PROVE  InstrOK(HandlerCode[n], 3, Len(Named(ir, name).blocks), name, m, n)
        <5>1. n = 1 \/ n = 2 \/ n = 3
          OBVIOUS
        <5>2. QED
          BY <2>2, <3>2, <5>1 DEF InstrOK, IsTerminator
      <4>2. QED
        BY <3>2, <4>1 DEF BlockOK
    <3>4. QED
      BY <1>2, <2>2, <3>1, <3>3, HandlerCounts
  <2>3. QED
    BY <1>9, <2>1, <2>2 DEF Executable, Runnable
<1>10. Weight > 0 => Named(ir, "setupAtExit").blocks[1] = HandlerCode
  BY <1>6
<1>11. /\ Defines(source, "main") /\ ir.ctors \in Seq(STRING) /\ ir.ctors = source.ctors
       /\ \A k \in DOMAIN ir.ctors : Defines(source, ir.ctors[k])
  BY <1>1 DEF IsProgram, IInv, GlobalsSoFar
<1>12. Weight > 0 => "bbCounter" \in DOMAIN ir.gvars /\ ir.gvars["bbCounter"].init = 0
  BY <1>1, <1>2, <1>3 DEF IInv, GlobalsSoFar, CounterIn
<1>13. QED
  BY <1>5, <1>8, <1>9, <1>10, <1>11, <1>12 DEF CodeOK

--------------------------------------------------------------------------------
(* The invariant of the process *)

(* What an activation has done last in its block.  One that has not begun  *)
(* its block, or has called, has no value of the counter.                  *)
Before(M, fr) == Named(M, fr.fn).blocks[fr.bb][fr.ip - 1].op
Waits(M, fr) == fr.ip > 1 => Before(M, fr) \in OwnOps \ {"br", "ret"}

CounterWords == 0..2^CounterBits - 1
HoldsWord(M, fr) ==
  fr.ip > 1 /\ Before(M, fr) \in {"load", "add"} => fr.reg \in CounterWords

(* An activation stands at an instruction of a block that exists.          *)
FrameOK(M, fr) ==
  /\ fr \in [fn : {fr.fn}, bb : Nat \ {0}, ip : Nat \ {0}, reg : {fr.reg}]
  /\ Executable(M, fr.fn, fr.bb)
  /\ fr.ip \in DOMAIN Named(M, fr.fn).blocks[fr.bb]
  /\ HoldsWord(M, fr)

(* Every activation of main has registered the handler as often as it has  *)
(* come by the calls of atexit at its head, n times in all.                *)
MainArms(fr, n) ==
  fr.fn = "main" =>
    /\ fr.bb > 1 \/ fr.ip > Weight => n >= Weight
    /\ fr.bb = 1 /\ fr.ip <= Weight => n >= fr.ip - 1

(* The stack w of thread u, in a process at p whose exit is run by e:      *)
(* setupAtExit is called by exit and by nothing else, and calls nothing;   *)
(* an activation below another waits for it.                               *)
GoodStack(u, w, M, n, p, e) ==
  \A k \in DOMAIN w :
    /\ FrameOK(M, w[k])
    /\ MainArms(w[k], n)
    /\ k < Len(w) => Waits(M, w[k])
    /\ w[k].fn = "setupAtExit" => p \in {"exiting", "dead"} /\ u = e /\ k = Len(w)

FramesOK == \A u \in Threads : GoodStack(u, stack[u], code, armed, proc, exiter)

StackIs(S) == stack \in [Threads -> Seq(S)]
HandlersAre(S) == handlers \in Seq(S) /\ \A name \in S : Runnable(name)
ReportsAre(S) == reports \in Seq(S)

MemOK ==
  proc # "off" /\ Weight > 0 =>
    "bbCounter" \in DOMAIN mem /\ mem["bbCounter"] \in CounterWords

Running ==
  /\ MemOK
  /\ proc \in {"off", "running", "exiting", "dead"}
  /\ exiter \in Threads /\ armed \in Nat
  /\ \E S : StackIs(S)
  /\ \E S : HandlersAre(S)
  /\ \E S : ReportsAre(S)
  /\ proc # "off" => Finished /\ code = ir
  /\ proc = "off" => /\ \A t \in Threads : stack[t] = <<>>
                     /\ handlers = <<>> /\ reports = <<>> /\ armed = 0

(* What has been registered is still to be run, being run up to its printf,*)
(* or printed.                                                             *)
ArmedIn(s) == {k \in DOMAIN s : s[k] = "setupAtExit"}
HandlersArmed == Cardinality(ArmedIn(handlers))
Owed ==
  IF /\ stack[exiter] # <<>>
     /\ TopOf(exiter).fn = "setupAtExit" /\ TopOf(exiter).ip <= 2
  THEN 1 ELSE 0
ReportsOwed == armed <= Len(reports) + HandlersArmed + Owed

RunInv == Running /\ FramesOK /\ ReportsOwed

(* Nothing of this depends on more than opt's variables, which have their  *)
(* last values when the process starts.                                    *)
LEMMA OptRests ==
  ASSUME UNCHANGED vars
  PROVE  /\ Weight' = Weight /\ (Finished' <=> Finished)
         /\ source' = source /\ ir' = ir
         /\ \A name : Runnable(name)' <=> Runnable(name)
         /\ \A M, name, m : Executable(M, name, m)' <=> Executable(M, name, m)
<1>1. source' = source /\ passes' = passes /\ pc' = pc /\ at' = at /\ ir' = ir
  BY DEF vars, passVars
<1>2. Weight' = Weight
  BY <1>1 DEF Weight
<1>3. \A name : Runnable(name)' <=> Runnable(name)
  BY <1>1, <1>2 DEF Runnable, Defines
<1>4. \A M, name, m : Executable(M, name, m)' <=> Executable(M, name, m)
  BY <1>3 DEF Executable
<1>5. QED
  BY <1>1, <1>2, <1>3, <1>4 DEF Finished

(* The stacks of a state, read in the state before.                        *)
LEMMA FramesNext ==
  ASSUME UNCHANGED vars,
         \A u \in Threads : GoodStack(u, stack'[u], code', armed', proc', exiter')
  PROVE  FramesOK'
<1>1. Weight' = Weight /\ \A name : Runnable(name)' <=> Runnable(name)
  BY OptRests
<1>2. \A M, name, m : Executable(M, name, m)' <=> Executable(M, name, m)
  BY OptRests
<1>3. \A M, fr : FrameOK(M, fr)' <=> FrameOK(M, fr)
  BY <1>2 DEF FrameOK, HoldsWord, Before
<1>4. \A fr, n : MainArms(fr, n)' <=> MainArms(fr, n)
  BY <1>1 DEF MainArms
<1>5. \A M, fr : Waits(M, fr)' <=> Waits(M, fr)
  BY DEF Waits, Before
<1>6. \A u, w, M, n, p, e : GoodStack(u, w, M, n, p, e)' <=> GoodStack(u, w, M, n, p, e)
  BY <1>3, <1>4, <1>5 DEF GoodStack
<1>7. QED
  BY <1>6 DEF FramesOK

(* Nothing runs at first.                                                  *)
LEMMA RunInvInit ==
  ASSUME RunInit
  PROVE  RunInv
<1>1. /\ proc = "off" /\ stack = [t \in Threads |-> <<>>] /\ handlers = <<>>
      /\ exiter = MainThread /\ armed = 0 /\ reports = <<>>
  BY DEF RunInit
<1>2. Running
  <2>1. StackIs({}) /\ HandlersAre({}) /\ ReportsAre({})
    BY <1>1 DEF StackIs, HandlersAre, ReportsAre
  <2>2. QED
    BY <1>1, <2>1, ThreadsAssumption DEF Running, MemOK
<1>3. FramesOK
  BY <1>1 DEF FramesOK, GoodStack
<1>4. ReportsOwed
  <2>1. ArmedIn(handlers) = {}
    BY <1>1 DEF ArmedIn
  <2>2. HandlersArmed = 0
    BY <2>1, FS_EmptySet DEF HandlersArmed
  <2>3. Owed = 0 /\ Len(reports) = 0
    BY <1>1, ThreadsAssumption DEF Owed
  <2>4. QED
    BY <1>1, <2>2, <2>3 DEF ReportsOwed
<1>5. QED
  BY <1>2, <1>3, <1>4 DEF RunInv

--------------------------------------------------------------------------------
(* Stacks *)

(* A stack without its top.                                                *)
LEMMA TopPopped ==
  ASSUME NEW S, NEW s \in Seq(S), s # <<>>
  PROVE  /\ Front(s) \in Seq(S) /\ Len(Front(s)) = Len(s) - 1
         /\ \A k \in 1..Len(s) - 1 : Front(s)[k] = s[k]
<1>1. PICK L : L = Len(s) /\ L \in Nat \ {0} /\ DOMAIN s = 1..L
  BY EmptySeq, ElementOfSeq
<1>2. PICK f : f = Front(s)
  OBVIOUS
<1>3. f = SubSeq(s, 1, L - 1)
  BY <1>1, <1>2 DEF Front
<1>4. \A k \in 1..L : s[k] \in S
  BY <1>1, ElementOfSeq
<1>5. PICK p : p = L - 1 /\ p \in Nat
  BY <1>1
<1>6. \A k \in 1..p : s[k] \in S
  BY <1>1, <1>4, <1>5
<1>7. /\ f \in Seq(S)
      /\ Len(f) = IF 1 <= p THEN p - 1 + 1 ELSE 0
      /\ \A k \in 1..p - 1 + 1 : f[k] = s[1 + k - 1]
  BY <1>3, <1>5, <1>6, SubSeqProperties
<1>8. QED
  BY <1>1, <1>2, <1>5, <1>7

(* The top of a stack.                                                     *)
LEMMA Ends ==
  ASSUME NEW S, NEW s \in Seq(S), s # <<>>
  PROVE  /\ Len(s) \in Nat \ {0} /\ DOMAIN s = 1..Len(s)
         /\ Len(s) \in DOMAIN s /\ Last(s) = s[Len(s)] /\ Last(s) \in S
<1>1. PICK L : L = Len(s) /\ L \in Nat \ {0} /\ DOMAIN s = 1..L
  BY EmptySeq, ElementOfSeq
<1>2. L \in 1..L
  BY <1>1
<1>3. QED
  BY <1>1, <1>2, ElementOfSeq DEF Last

Replaced(w, s, fr) ==
  /\ Len(w) = Len(s) /\ DOMAIN w = 1..Len(s)
  /\ \A k \in 1..Len(s) : w[k] = IF k < Len(s) THEN s[k] ELSE fr

(* A stack with another top.                                               *)
LEMMA TopReplaced ==
  ASSUME NEW S, NEW s \in Seq(S), s # <<>>, NEW fr,
         NEW w, w = Append(Front(s), fr)
  PROVE  w \in Seq(S \cup {fr}) /\ Replaced(w, s, fr)
<1>1. PICK L : L = Len(s) /\ L \in Nat \ {0} /\ DOMAIN s = 1..L
  BY EmptySeq, ElementOfSeq
<1>2. PICK f : f = Front(s)
  OBVIOUS
<1>5. f \in Seq(S) /\ Len(f) = L - 1 /\ \A k \in 1..L - 1 : f[k] = s[k]
  BY <1>1, <1>2, TopPopped
<1>6. w = Append(f, fr)
  BY <1>2
<1>7. f \in Seq(S \cup {fr})
  BY <1>5, SeqMonotonic
<1>8. /\ w \in Seq(S \cup {fr}) /\ Len(w) = Len(f) + 1
      /\ \A k \in 1..Len(f) : w[k] = f[k]
      /\ w[Len(f) + 1] = fr
  BY <1>6, <1>7, AppendProperties
<1>9. Len(w) = L /\ DOMAIN w = 1..L /\ \A k \in 1..L : w[k] = IF k < L THEN s[k] ELSE fr
  <2>1. Len(w) = L /\ DOMAIN w = 1..L
    BY <1>1, <1>5, <1>8
  <2>2. ASSUME NEW k \in 1..L PROVE w[k] = IF k < L THEN s[k] ELSE fr
    <3>1. CASE k < L
      <4>1. k \in 1..L - 1 /\ k \in 1..Len(f)
        BY <1>1, <1>5, <3>1
      <4>2. QED
        BY <1>5, <1>8, <3>1, <4>1
    <3>2. CASE k = L
      BY <1>1, <1>5, <1>8, <3>2
    <3>3. k < L \/ k = L
      BY <1>1
    <3>4. QED
      BY <3>1, <3>2, <3>3
  <2>3. QED
    BY <2>1, <2>2
<1>10. QED
  BY <1>1, <1>2, <1>6, <1>8, <1>9 DEF Replaced

(* An activation of anything that can be called starts well.               *)
LEMMA NewFrame ==
  ASSUME NEW M, CodeOK(M), NEW name, Runnable(name), NEW n \in Nat, Weight \in Nat
  PROVE  FrameOK(M, Frame(name)) /\ MainArms(Frame(name), n)
<1>1. Executable(M, name, 1) /\ BlockOK(Named(M, name).blocks[1], Len(Named(M, name).blocks), name, 1)
  BY DEF CodeOK, HasBlocks, Executable
<1>2. 1 \in DOMAIN Named(M, name).blocks[1]
  BY <1>1 DEF BlockOK
<1>3. QED
  BY <1>1, <1>2 DEF FrameOK, HoldsWord, MainArms, Frame

(* A good stack stays good while more is registered and the process exits. *)
LEMMA StackLater ==
  ASSUME NEW u, NEW w, NEW M, NEW p, NEW e, NEW n \in Nat,
         GoodStack(u, w, M, n, p, e),
         NEW n2 \in Nat, n2 >= n, NEW p2, NEW e2, Weight \in Nat,
         p = "running" \/ (p2 \in {"exiting", "dead"} /\ e2 = e) \/ (p2 = p /\ e2 = e)
  PROVE  GoodStack(u, w, M, n2, p2, e2)
<1>1. ASSUME NEW k \in DOMAIN w PROVE MainArms(w[k], n2)
  <2>1. FrameOK(M, w[k]) /\ MainArms(w[k], n)
    BY DEF GoodStack
  <2>2. w[k].ip \in Nat
    BY <2>1 DEF FrameOK
  <2>3. QED
    BY <2>1, <2>2 DEF MainArms
<1>2. QED
  BY <1>1 DEF GoodStack

(* ... when its top moves on within its function,                          *)
LEMMA StackStepped ==
  ASSUME NEW S, NEW s \in Seq(S), s # <<>>, NEW u, NEW M, NEW n, NEW p, NEW e,
         GoodStack(u, s, M, n, p, e), NEW fr,
         FrameOK(M, fr), MainArms(fr, n), fr.fn = Last(s).fn
  PROVE  GoodStack(u, Append(Front(s), fr), M, n, p, e)
<1>1. PICK w : w = Append(Front(s), fr)
  OBVIOUS
<1>2. PICK L : L = Len(s)
  OBVIOUS
<1>3. L \in Nat \ {0} /\ Last(s) = s[L] /\ DOMAIN s = 1..L
  BY <1>2, Ends
<1>4. /\ Len(w) = L /\ DOMAIN w = 1..L
      /\ \A k \in 1..L : w[k] = IF k < L THEN s[k] ELSE fr
  <2>1. Replaced(w, s, fr)
    BY <1>1, TopReplaced
  <2>2. QED
    BY <1>2, <2>1 DEF Replaced
<1>5. ASSUME NEW k \in 1..L
      PROVE  /\ FrameOK(M, w[k]) /\ MainArms(w[k], n)
             /\ k < L => Waits(M, w[k])
             /\ w[k].fn = "setupAtExit" =>
                  p \in {"exiting", "dead"} /\ u = e /\ k = L
  <2>1. CASE k < L
    <3>1. w[k] = s[k] /\ k \in DOMAIN s
      BY <1>3, <1>4, <2>1
    <3>2. QED
      BY <1>2, <3>1 DEF GoodStack
  <2>2. CASE k = L
    <3>1. w[k] = fr /\ L \in DOMAIN s
      BY <1>3, <1>4, <2>2
    <3>2. s[L].fn = "setupAtExit" => p \in {"exiting", "dead"} /\ u = e
      BY <3>1 DEF GoodStack
    <3>3. QED
      BY <1>3, <2>2, <3>1, <3>2
  <2>3. QED
    BY <1>3, <2>1, <2>2
<1>6. QED
  BY <1>1, <1>4, <1>5 DEF GoodStack

(* ... when its top calls,                                                 *)
LEMMA StackPushed ==
  ASSUME NEW S, NEW s \in Seq(S), s # <<>>, NEW u, NEW M, NEW n, NEW p, NEW e,
         GoodStack(u, s, M, n, p, e), NEW g,
         FrameOK(M, g), MainArms(g, n), g.fn # "setupAtExit",
         Last(s).fn # "setupAtExit", Waits(M, Last(s))
  PROVE  s \o <<g>> \in Seq(S \cup {g}) /\ GoodStack(u, s \o <<g>>, M, n, p, e)
<1>1. PICK w : w = s \o <<g>>
  OBVIOUS
<1>2. Len(s) \in Nat \ {0} /\ Last(s) = s[Len(s)] /\ DOMAIN s = 1..Len(s)
  BY Ends
<1>3. s \in Seq(S \cup {g}) /\ <<g>> \in Seq(S \cup {g})
  BY SeqMonotonic
<1>4. Joined(w, s, <<g>>, S \cup {g})
  BY <1>1, <1>3, Concatenation
<1>5. /\ w \in Seq(S \cup {g}) /\ Len(w) = Len(s) + 1
      /\ \A k \in 1..Len(s) + 1 : w[k] = IF k <= Len(s) THEN s[k] ELSE <<g>>[k - Len(s)]
  BY <1>4 DEF Joined
<1>6. DOMAIN w = 1..Len(s) + 1
  BY <1>5, LenProperties
<1>7. ASSUME NEW k \in 1..Len(s) + 1
      PROVE  /\ FrameOK(M, w[k]) /\ MainArms(w[k], n) /\ w[k].fn # "setupAtExit"
             /\ k < Len(s) + 1 => Waits(M, w[k])
  <2>1. CASE k <= Len(s)
    <3>1. k \in DOMAIN s /\ w[k] = s[k] /\ (k < Len(s) \/ w[k] = Last(s))
      BY <1>2, <1>5, <2>1
    <3>2. QED
      BY <1>2, <3>1 DEF GoodStack
  <2>2. CASE k = Len(s) + 1
    <3>1. ~ (k <= Len(s)) /\ k - Len(s) = 1
      BY <1>2, <2>2
    <3>2. w[k] = g
      BY <1>5, <3>1
    <3>3. QED
      BY <1>2, <2>2, <3>2
  <2>3. QED
    BY <1>2, <2>1, <2>2
<1>8. QED
  BY <1>1, <1>5, <1>6, <1>7 DEF GoodStack

(* ... and when its top returns; what is left has no handler.              *)
LEMMA StackPopped ==
  ASSUME NEW S, NEW s \in Seq(S), s # <<>>, NEW u, NEW M, NEW n, NEW p, NEW e,
         GoodStack(u, s, M, n, p, e)
  PROVE  /\ GoodStack(u, Front(s), M, n, p, e)
         /\ \A k \in DOMAIN Front(s) : Front(s)[k].fn # "setupAtExit"
<1>1. PICK w : w = Front(s)
  OBVIOUS
<1>2. PICK L : L = Len(s)
  OBVIOUS
<1>3. L \in Nat \ {0} /\ DOMAIN s = 1..L
  BY <1>2, Ends
<1>4. w \in Seq(S) /\ Len(w) = L - 1 /\ \A k \in 1..L - 1 : w[k] = s[k]
  BY <1>1, <1>2, TopPopped
<1>5. DOMAIN w = 1..L - 1 /\ \A k \in 1..L - 1 : k \in DOMAIN s /\ k # L /\ k < L
  BY <1>3, <1>4, LenProperties
<1>6. QED
  BY <1>1, <1>2, <1>4, <1>5 DEF GoodStack

(* A thread or a handler starts with a good stack.                         *)
LEMMA StackStarted ==
  ASSUME NEW u, NEW M, NEW n, NEW p, NEW e, NEW g, FrameOK(M, g), MainArms(g, n),
         g.fn = "setupAtExit" => p \in {"exiting", "dead"} /\ u = e
  PROVE  <<g>> \in Seq({g}) /\ GoodStack(u, <<g>>, M, n, p, e)
<1>1. Len(<<g>>) = 1 /\ DOMAIN <<g>> = {1} /\ <<g>>[1] = g
  OBVIOUS
<1>2. QED
  BY <1>1 DEF GoodStack

(* A thread that has ended has one.                                        *)
LEMMA StackEmpty ==
  ASSUME NEW u, NEW M, NEW n, NEW p, NEW e
  PROVE  GoodStack(u, <<>>, M, n, p, e)
BY DEF GoodStack

(* The thread at an instruction.                                           *)
LEMMA AtFacts ==
  ASSUME IInv, RunInv, NEW t \in Threads, NEW op, At(t, op)
  PROVE  /\ proc \in {"running", "exiting"} /\ Finished /\ code = ir
         /\ CodeOK(code) /\ Weight \in Nat /\ armed \in Nat
         /\ stack[t] # <<>> /\ (\E S : stack[t] \in Seq(S))
         /\ GoodStack(t, stack[t], code, armed, proc, exiter)
         /\ FrameOK(code, TopOf(t)) /\ MainArms(TopOf(t), armed)
         /\ BlockOK(BlockOf(t), Len(Named(code, TopOf(t).fn).blocks),
                    TopOf(t).fn, TopOf(t).bb)
         /\ TopOf(t).ip \in DOMAIN BlockOf(t) /\ Code(t).op = op
         /\ CountsOK(BlockOf(t), TopOf(t).fn)
         /\ InstrOK(Code(t), Len(BlockOf(t)), Len(Named(code, TopOf(t).fn).blocks),
                    TopOf(t).fn, TopOf(t).bb, TopOf(t).ip)
         /\ TopOf(t).fn = "setupAtExit" =>
              proc = "exiting" /\ t = exiter /\ Weight > 0 /\ BlockOf(t) = HandlerCode
<1>1. /\ proc \in {"running", "exiting"} /\ stack[t] # <<>> /\ Code(t).op = op
  BY DEF At
<1>2. /\ armed \in Nat /\ Finished /\ code = ir
  BY <1>1 DEF RunInv, Running
<1>3. PICK S : stack[t] \in Seq(S)
  BY DEF RunInv, Running, StackIs
<1>4. Weight \in Nat /\ CodeOK(code)
  BY <1>2, WeightIs, Image
<1>5. GoodStack(t, stack[t], code, armed, proc, exiter)
  BY DEF RunInv, FramesOK
<1>6. /\ Len(stack[t]) \in DOMAIN stack[t]
      /\ TopOf(t) = stack[t][Len(stack[t])]
  BY <1>1, <1>3, Ends DEF TopOf
<1>7. /\ FrameOK(code, TopOf(t)) /\ MainArms(TopOf(t), armed)
      /\ TopOf(t).fn = "setupAtExit" => proc = "exiting" /\ t = exiter
  BY <1>1, <1>5, <1>6 DEF GoodStack
<1>8. Executable(code, TopOf(t).fn, TopOf(t).bb) /\ TopOf(t).ip \in DOMAIN BlockOf(t)
  BY <1>7 DEF FrameOK, BlockOf
<1>9. /\ BlockOK(BlockOf(t), Len(Named(code, TopOf(t).fn).blocks), TopOf(t).fn, TopOf(t).bb)
      /\ CountsOK(BlockOf(t), TopOf(t).fn)
  BY <1>4, <1>8 DEF CodeOK, BlockOf
<1>10. TopOf(t).fn = "setupAtExit" => Weight > 0 /\ BlockOf(t) = HandlerCode
  BY <1>4, <1>8 DEF CodeOK, BlockOf, Executable, Runnable
<1>11. InstrOK(Code(t), Len(BlockOf(t)), Len(Named(code, TopOf(t).fn).blocks),
               TopOf(t).fn, TopOf(t).bb, TopOf(t).ip)
  BY <1>8, <1>9 DEF BlockOK, Code
<1>12. QED
  BY <1>1, <1>2, <1>3, <1>4, <1>5, <1>7, <1>8, <1>9, <1>10, <1>11

(* Where a thread is in the counting code, and what it holds there.        *)
LEMMA AtCounter ==
  ASSUME IInv, RunInv, NEW t \in Threads, NEW op, At(t, op),
         NEW top, top = TopOf(t)
  PROVE  /\ op \in {"load", "store"} => Code(t).sym = "bbCounter"
         /\ op \in {"load", "add", "store", "printf"} =>
              Weight > 0 /\ "bbCounter" \in DOMAIN mem /\ mem["bbCounter"] \in CounterWords
         /\ op \in {"add", "printf"} <=> top.ip > 1 /\ Before(code, top) = "load"
         /\ op = "store" <=> top.ip > 1 /\ Before(code, top) = "add"
         /\ op \in {"add", "store", "printf"} => top.reg \in CounterWords
<1>1. PICK block, n : block = BlockOf(t) /\ n = top.ip
  OBVIOUS
<1>2. /\ proc \in {"running", "exiting"}
      /\ FrameOK(code, top) /\ n \in DOMAIN block /\ block[n].op = op
      /\ CountsOK(block, top.fn) /\ Code(t) = block[n]
      /\ DOMAIN block = 1..Len(block) /\ Len(block) \in Nat
  BY <1>1, AtFacts DEF BlockOK, Code
<1>3. \A k \in DOMAIN block : Counts(block, k)
  BY <1>2 DEF CountsOK
<1>4. n > 1 => n - 1 \in DOMAIN block /\ Before(code, top) = block[n - 1].op
  <2>1. n > 1 => n - 1 \in DOMAIN block
    BY <1>2
  <2>2. Before(code, top) = block[n - 1].op
    BY <1>1 DEF Before, BlockOf
  <2>3. QED
    BY <2>1, <2>2
<1>5. /\ op \in {"load", "store"} => Code(t).sym = "bbCounter" /\ Weight > 0
      /\ op \in {"add", "printf"} <=> n > 1 /\ Before(code, top) = "load"
      /\ op = "store" <=> n > 1 /\ Before(code, top) = "add"
  BY <1>2, <1>3, <1>4 DEF Counts
<1>6. op \in {"add", "printf"} => Weight > 0
  BY <1>3, <1>4, <1>5 DEF Counts
<1>7. op \in {"add", "store", "printf"} => top.reg \in CounterWords
  BY <1>1, <1>2, <1>5 DEF FrameOK, HoldsWord
<1>8. proc # "off" /\ Weight > 0 =>
        "bbCounter" \in DOMAIN mem /\ mem["bbCounter"] \in CounterWords
  BY DEF RunInv, Running, MemOK
<1>9. QED
  BY <1>1, <1>2, <1>5, <1>6, <1>7, <1>8

--------------------------------------------------------------------------------
(* The steps of a thread *)

(* The activation top, one instruction further.                            *)
Advanced(fr, top) ==
  fr \in [fn : {top.fn}, bb : {top.bb}, ip : {top.ip + 1}, reg : {fr.reg}]

(* An instruction that does not end its block leads to a good place: a     *)
(* value that is loaded or added is a word, and main is paid for its       *)
(* registration.                                                           *)
LEMMA NextFrame ==
  ASSUME IInv, RunInv, NEW t \in Threads, NEW op, At(t, op),
         op \notin {"br", "ret", "exit"},
         NEW fr, Advanced(fr, TopOf(t)), NEW n \in Nat, n >= armed,
         op \in {"load", "add"} => fr.reg \in CounterWords,
         op = "atexit" /\ Code(t).sym = "setupAtExit" => n = armed + 1
  PROVE  /\ FrameOK(code, fr) /\ MainArms(fr, n)
         /\ op \in OwnOps => Waits(code, fr)
<1>1. PICK top, L : top = TopOf(t) /\ L = Len(BlockOf(t))
  OBVIOUS
<1>2. /\ FrameOK(code, top) /\ MainArms(top, armed)
      /\ BlockOK(BlockOf(t), Len(Named(code, top.fn).blocks), top.fn, top.bb)
      /\ top.ip \in DOMAIN BlockOf(t) /\ Code(t).op = op
      /\ InstrOK(Code(t), L, Len(Named(code, top.fn).blocks), top.fn, top.bb, top.ip)
      /\ Weight \in Nat /\ armed \in Nat
  BY <1>1, AtFacts
<1>3. /\ fr.fn = top.fn /\ fr.bb = top.bb /\ fr.ip = top.ip + 1
      /\ top.bb \in Nat \ {0} /\ top.ip \in Nat \ {0}
      /\ BlockOf(t) = Named(code, top.fn).blocks[top.bb]
  BY <1>1, <1>2 DEF Advanced, FrameOK, BlockOf
<1>4. top.ip # L
  BY <1>2 DEF InstrOK, IsTerminator
<1>5. L \in Nat \ {0} /\ DOMAIN BlockOf(t) = 1..L
  BY <1>1, <1>2 DEF BlockOK
<1>6. fr.ip \in DOMAIN BlockOf(t) /\ fr.ip \in Nat \ {0}
  BY <1>2, <1>3, <1>4, <1>5
<1>a. Before(code, fr) = op
  <2>1. fr.ip - 1 = top.ip
    BY <1>3
  <2>2. QED
    BY <1>1, <1>2, <1>3, <2>1 DEF Before, Code
<1>7. FrameOK(code, fr) /\ (op \in OwnOps => Waits(code, fr))
  BY <1>1, <1>2, <1>3, <1>6, <1>a DEF FrameOK, HoldsWord, Waits, Advanced
<1>8. ASSUME fr.fn = "main"
      PROVE  /\ fr.bb > 1 \/ fr.ip > Weight => n >= Weight
             /\ fr.bb = 1 /\ fr.ip <= Weight => n >= fr.ip - 1
  <2>1. CASE top.bb > 1 \/ top.ip > Weight
    <3>1. armed >= Weight
      BY <1>2, <1>3, <1>8, <2>1 DEF MainArms
    <3>2. QED
      BY <1>2, <1>3, <2>1, <3>1
  <2>2. CASE top.bb = 1 /\ top.ip <= Weight
    <3>1. armed >= top.ip - 1
      BY <1>2, <1>3, <1>8, <2>2 DEF MainArms
    <3>2. op = "atexit" /\ Code(t).sym = "setupAtExit"
      BY <1>2, <1>3, <1>8, <2>2 DEF InstrOK
    <3>3. n = armed + 1
      BY <3>2
    <3>4. QED
      BY <1>2, <1>3, <2>2, <3>1, <3>3
  <2>3. QED
    BY <1>2, <1>3, <2>1, <2>2
<1>9. QED
  BY <1>7, <1>8 DEF MainArms

(* A thread gets the stack w; every other keeps its own.                   *)
LEMMA StackSet ==
  ASSUME RunInv, NEW t \in Threads, NEW T, NEW w \in Seq(T),
         stack' = [stack EXCEPT ![t] = w]
  PROVE  /\ \E S : StackIs(S)'
         /\ stack'[t] = w /\ \A u \in Threads \ {t} : stack'[u] = stack[u]
<1>1. PICK S : stack \in [Threads -> Seq(S)]
  BY DEF RunInv, Running, StackIs
<1>2. /\ stack'[t] = w /\ \A u \in Threads \ {t} : stack'[u] = stack[u]
      /\ DOMAIN stack' = Threads
  BY <1>1
<1>3. ASSUME NEW u \in Threads PROVE stack'[u] \in Seq(S \cup T)
  <2>1. CASE u = t
    BY <1>2, <2>1, SeqMonotonic
  <2>2. CASE u # t
    <3>1. stack'[u] \in Seq(S)
      BY <1>1, <1>2, <2>2
    <3>2. QED
      BY <3>1, SeqMonotonic
  <2>3. QED
    BY <2>1, <2>2
<1>4. stack' \in [Threads -> Seq(S \cup T)]
  BY <1>1, <1>3
<1>5. StackIs(S \cup T)'
  BY <1>4 DEF StackIs
<1>6. QED
  BY <1>2, <1>5

(* Every step keeps the stacks good that it does not touch.                *)
LEMMA FramesThen ==
  ASSUME IInv, RunInv, UNCHANGED vars, proc # "off", NEW T, T \subseteq Threads,
         code' = code, armed' \in Nat, armed' >= armed,
         \/ proc = "running"
         \/ proc' \in {"exiting", "dead"} /\ exiter' = exiter
         \/ proc' = proc /\ exiter' = exiter,
         \A u \in Threads \ T : stack'[u] = stack[u],
         \A u \in T : GoodStack(u, stack'[u], code, armed', proc', exiter')
  PROVE  FramesOK'
<1>1. Weight \in Nat /\ armed \in Nat
  BY WeightIs DEF RunInv, Running
<1>2. ASSUME NEW u \in Threads
      PROVE  GoodStack(u, stack'[u], code', armed', proc', exiter')
  <2>1. CASE u \in T
    BY <2>1
  <2>2. CASE u \notin T
    <3>1. GoodStack(u, stack[u], code, armed, proc, exiter)
      BY DEF RunInv, FramesOK
    <3>2. GoodStack(u, stack[u], code, armed', proc', exiter')
      BY <1>1, <3>1, StackLater
    <3>3. QED
      BY <2>2, <3>2
  <2>3. QED
    BY <2>1, <2>2
<1>3. QED
  BY <1>2, FramesNext

(* The parts of the state that a step changes have to be in order.         *)
LEMMA RunningThen ==
  ASSUME RunInv, UNCHANGED vars, proc # "off", code' = code,
         mem' = mem \/ MemOK',
         proc' \in {"running", "exiting", "dead"}, exiter' \in Threads,
         armed' \in Nat, \E S : StackIs(S)',
         handlers' = handlers \/ \E S : HandlersAre(S)',
         reports' = reports \/ \E S : ReportsAre(S)'
  PROVE  Running'
<1>1. (Finished' <=> Finished) /\ ir' = ir /\ \A name : Runnable(name)' <=> Runnable(name)
  BY OptRests
<1>2. /\ Finished /\ code = ir /\ (\E S : HandlersAre(S)) /\ (\E S : ReportsAre(S))
  BY DEF RunInv, Running
<1>3. \E S : HandlersAre(S)'
  BY <1>1, <1>2 DEF HandlersAre
<1>4. \E S : ReportsAre(S)'
  BY <1>2 DEF ReportsAre
<1>5. MemOK'
  BY OptRests DEF RunInv, Running, MemOK
<1>6. QED
  BY <1>1, <1>2, <1>3, <1>4, <1>5 DEF Running

(* What exit still owes is lost by no instruction but printf.              *)
LEMMA OwedStays ==
  ASSUME IInv, RunInv, NEW t \in Threads, NEW op, At(t, op), op # "printf",
         proc = "exiting" => exiter' = exiter,
         \A u \in Threads \ {t} : stack[u] # <<>> => stack'[u] = stack[u],
         op = "load" => \E fr : /\ Advanced(fr, TopOf(t))
                                /\ stack'[t] = Append(Front(stack[t]), fr)
  PROVE  Owed \in {0, 1} /\ Owed' \in {0, 1} /\ Owed' >= Owed
<1>1. Owed \in {0, 1} /\ Owed' \in {0, 1}
  BY DEF Owed
<1>2. ASSUME Owed = 1 PROVE Owed' = 1
  <2>1. /\ exiter \in Threads /\ stack[exiter] # <<>>
        /\ TopOf(exiter).fn = "setupAtExit" /\ TopOf(exiter).ip <= 2
    BY <1>2 DEF Owed, RunInv, Running
  <2>2. PICK S : stack[exiter] \in Seq(S)
    BY <2>1 DEF RunInv, Running, StackIs
  <2>3. GoodStack(exiter, stack[exiter], code, armed, proc, exiter)
    BY <2>1 DEF RunInv, FramesOK
  <2>4. proc \in {"exiting", "dead"}
    BY <2>1, <2>2, <2>3, Ends DEF GoodStack, TopOf
  <2>5. proc = "exiting" /\ exiter' = exiter
    BY <2>4, AtFacts
  <2>6. CASE exiter # t
    <3>1. stack'[exiter] = stack[exiter]
      BY <2>1, <2>6
    <3>2. QED
      BY <2>1, <2>5, <3>1 DEF Owed, TopOf
  <2>7. CASE exiter = t
    <3>1. /\ BlockOf(t) = HandlerCode /\ TopOf(t).ip \in DOMAIN BlockOf(t)
          /\ Code(t).op = op /\ FrameOK(code, TopOf(t))
      BY <2>1, <2>7, AtFacts
    <3>2. TopOf(t).ip = 1 \/ TopOf(t).ip = 2
      BY <2>1, <2>7, <3>1, HandlerIs
    <3>3. TopOf(t).ip = 1 /\ op = "load"
      BY <3>1, <3>2, HandlerIs DEF Code
    <3>4. PICK fr : Advanced(fr, TopOf(t)) /\ stack'[t] = Append(Front(stack[t]), fr)
      BY <3>3
    <3>5. fr.fn = "setupAtExit" /\ fr.ip = 2
      BY <2>1, <2>7, <3>3, <3>4 DEF Advanced
    <3>6. PICK w : w = stack'[t]
      OBVIOUS
    <3>7. w \in Seq(S \cup {fr}) /\ Replaced(w, stack[t], fr)
      BY <2>1, <2>2, <2>7, <3>4, <3>6, TopReplaced
    <3>8. Len(stack[t]) \in Nat \ {0}
      BY <2>1, <2>2, <2>7, Ends
    <3>9. w # <<>> /\ Last(w) = fr
      BY <3>7, <3>8 DEF Replaced, Last
    <3>10. QED
      BY <2>5, <2>7, <3>5, <3>6, <3>9 DEF Owed, TopOf
  <2>8. QED
    BY <2>6, <2>7
<1>3. QED
  BY <1>1, <1>2

(* The handlers are counted as they come and go.                           *)
LEMMA CountedUp ==
  ASSUME NEW S, NEW s \in Seq(S)
  PROVE  /\ Cardinality(ArmedIn(s)) \in Nat
         /\ s # <<>> => Cardinality(ArmedIn(s)) = Cardinality(ArmedIn(Front(s)))
                          + (IF Last(s) = "setupAtExit" THEN 1 ELSE 0)
<1>1. PICK L : L = Len(s) /\ L \in Nat /\ DOMAIN s = 1..L
  BY LenProperties
<1>2. IsFiniteSet(1..L)
  BY <1>1, FS_Interval
<1>3. IsFiniteSet(ArmedIn(s)) /\ Cardinality(ArmedIn(s)) \in Nat
  <2>1. ArmedIn(s) \subseteq 1..L
    BY <1>1 DEF ArmedIn
  <2>2. QED
    BY <1>2, <2>1, FS_Subset, FS_CardinalityType
<1>4. ASSUME s # <<>>
      PROVE  Cardinality(ArmedIn(s)) = Cardinality(ArmedIn(Front(s)))
                 + (IF Last(s) = "setupAtExit" THEN 1 ELSE 0)
  <2>1. L \in 1..L /\ Last(s) = s[L]
    BY <1>1, <1>4, Ends
  <2>2. PICK f : f = Front(s)
    OBVIOUS
  <2>3. f \in Seq(S) /\ Len(f) = L - 1 /\ \A k \in 1..L - 1 : f[k] = s[k]
    BY <1>1, <1>4, <2>2, TopPopped
  <2>4. DOMAIN f = 1..L - 1
    BY <2>3, LenProperties
  <2>5. L \notin ArmedIn(f) /\ ArmedIn(f) \subseteq 1..L
    BY <1>1, <2>4 DEF ArmedIn
  <2>6. IsFiniteSet(ArmedIn(f)) /\ Cardinality(ArmedIn(f)) \in Nat
    BY <1>2, <2>5, FS_Subset, FS_CardinalityType
  <2>7. \A k : k \in ArmedIn(s) <=> k \in ArmedIn(f) \/ (k = L /\ s[L] = "setupAtExit")
    <3>1. \A k : k \in 1..L <=> k \in 1..L - 1 \/ k = L
      BY <1>1, <2>1
    <3>2. QED
      BY <1>1, <2>1, <2>3, <2>4, <3>1 DEF ArmedIn
  <2>8. CASE Last(s) = "setupAtExit"
    <3>1. ArmedIn(s) = ArmedIn(f) \cup {L}
      BY <2>1, <2>7, <2>8
    <3>2. Cardinality(ArmedIn(s)) = Cardinality(ArmedIn(f)) + 1
      BY <2>5, <2>6, <3>1, FS_AddElement
    <3>3. QED
      BY <2>2, <2>8, <3>2
  <2>9. CASE Last(s) # "setupAtExit"
    <3>1. ArmedIn(s) = ArmedIn(f)
      BY <2>1, <2>7, <2>9
    <3>2. QED
      BY <2>2, <2>6, <2>9, <3>1
  <2>10. QED
    BY <2>8, <2>9
<1>5. QED
  BY <1>3, <1>4

(* Registrations can be counted.                                           *)
LEMMA HandlersCounted ==
  ASSUME Running
  PROVE  HandlersArmed \in Nat
BY CountedUp DEF Running, HandlersAre, HandlersArmed

(* An instruction that neither calls nor ends its block.                   *)
LEMMA Stepping ==
  ASSUME IInv, RunInv, UNCHANGED vars, NEW t \in Threads, NEW op, At(t, op),
         op \notin {"br", "ret", "exit"},
         NEW fr, Advanced(fr, TopOf(t)), GoTo(t, fr),
         op \in {"load", "add"} => fr.reg \in CounterWords,
         UNCHANGED <<code, proc, exiter>>, armed' \in Nat, armed' >= armed,
         op = "atexit" /\ Code(t).sym = "setupAtExit" => armed' = armed + 1
  PROVE  /\ FramesOK' /\ \E S : StackIs(S)'
         /\ Owed \in {0, 1} /\ Owed' \in {0, 1}
         /\ op # "printf" => Owed' >= Owed
<1>1. /\ proc # "off" /\ stack[t] # <<>>
      /\ GoodStack(t, stack[t], code, armed, proc, exiter)
      /\ Weight \in Nat /\ armed \in Nat
  BY AtFacts
<1>2. PICK S : stack[t] \in Seq(S)
  BY AtFacts
<1>3. PICK w : w = Append(Front(stack[t]), fr)
  OBVIOUS
<1>4. w \in Seq(S \cup {fr})
  BY <1>1, <1>2, <1>3, TopReplaced
<1>5. stack' = [stack EXCEPT ![t] = w]
  BY <1>3 DEF GoTo
<1>6. /\ \E R : StackIs(R)'
      /\ stack'[t] = w /\ \A u \in Threads \ {t} : stack'[u] = stack[u]
  BY <1>4, <1>5, StackSet
<1>7. GoodStack(t, w, code, armed', proc', exiter')
  <2>1. FrameOK(code, fr) /\ MainArms(fr, armed')
    BY NextFrame
  <2>2. fr.fn = Last(stack[t]).fn
    BY DEF Advanced, TopOf
  <2>3. GoodStack(t, stack[t], code, armed', proc, exiter)
    BY <1>1, StackLater
  <2>4. GoodStack(t, Append(Front(stack[t]), fr), code, armed', proc, exiter)
    BY <1>1, <1>2, <2>1, <2>2, <2>3, StackStepped
  <2>5. QED
    BY <1>3, <2>4
<1>8. FramesOK'
  <2>1. PICK T : T = {t}
    OBVIOUS
  <2>2. /\ T \subseteq Threads /\ \A u \in Threads \ T : stack'[u] = stack[u]
        /\ \A u \in T : GoodStack(u, stack'[u], code, armed', proc', exiter')
    BY <1>6, <1>7, <2>1
  <2>3. QED
    BY <1>1, <2>2, FramesThen
<1>9. op # "printf" => Owed' >= Owed
  BY <1>3, <1>6, OwedStays
<1>10. QED
  BY <1>6, <1>8, <1>9 DEF Owed

(* The instructions that change no more than the stack of their thread and *)
(* the memory.                                                             *)
LEMMA Quiet ==
  ASSUME IInv, RunInv, UNCHANGED vars, NEW t \in Threads, NEW op, At(t, op),
         op \notin {"br", "ret", "exit", "printf", "atexit"},
         NEW fr, Advanced(fr, TopOf(t)), GoTo(t, fr),
         op \in {"load", "add"} => fr.reg \in CounterWords,
         mem' = mem \/ MemOK',
         UNCHANGED <<code, proc, exiter, handlers, armed, reports>>
  PROVE  RunInv'
<1>1. /\ proc \in {"running", "exiting"} /\ armed \in Nat /\ exiter \in Threads
      /\ \E S : ReportsAre(S)
  BY AtFacts DEF RunInv, Running
<1>2. FramesOK' /\ (\E S : StackIs(S)') /\ Owed \in {0, 1} /\ Owed' \in {0, 1} /\ Owed' >= Owed
  BY <1>1, Stepping
<1>3. Running'
  BY <1>1, <1>2, RunningThen
<1>4. ReportsOwed'
  <2>1. Len(reports) \in Nat /\ HandlersArmed' = HandlersArmed
    BY <1>1 DEF ReportsAre, HandlersArmed
  <2>2. HandlersArmed \in Nat
    BY HandlersCounted DEF RunInv
  <2>3. armed <= Len(reports) + HandlersArmed + Owed
    BY DEF RunInv, ReportsOwed
  <2>4. armed <= Len(reports) + HandlersArmed + Owed'
    BY <1>1, <1>2, <2>1, <2>2, <2>3
  <2>5. QED
    BY <2>1, <2>4 DEF ReportsOwed
<1>5. QED
  BY <1>2, <1>3, <1>4 DEF RunInv

(* Step goes to the next instruction,                                      *)
LEMMA StepAdvances ==
  ASSUME IInv, RunInv, NEW t \in Threads, NEW op, At(t, op), Step(t)
  PROVE  \E fr : Advanced(fr, TopOf(t)) /\ GoTo(t, fr)
<1>1. PICK top, fr : top = TopOf(t) /\ fr = [top EXCEPT !.ip = @ + 1]
  OBVIOUS
<1>2. top \in [fn : {top.fn}, bb : Nat \ {0}, ip : Nat \ {0}, reg : {top.reg}]
  BY <1>1, AtFacts DEF FrameOK
<1>3. Advanced(fr, top)
  BY <1>1, <1>2 DEF Advanced
<1>4. GoTo(t, fr)
  BY <1>1 DEF Step
<1>5. QED
  BY <1>1, <1>3, <1>4

(* ... and so does StepWith, with a value.                                 *)
LEMMA StepWithAdvances ==
  ASSUME IInv, RunInv, NEW t \in Threads, NEW op, At(t, op), NEW v, StepWith(t, v)
  PROVE  \E fr : Advanced(fr, TopOf(t)) /\ fr.reg = v /\ GoTo(t, fr)
<1>0. PICK top : top = TopOf(t)
  OBVIOUS
<1>a. PICK fr : fr = [top EXCEPT !.ip = @ + 1, !.reg = v]
  OBVIOUS
<1>1. top = TopOf(t) /\ fr = [top EXCEPT !.ip = @ + 1, !.reg = v]
  BY <1>0, <1>a
<1>2. top \in [fn : {top.fn}, bb : Nat \ {0}, ip : Nat \ {0}, reg : {top.reg}]
  BY <1>1, AtFacts DEF FrameOK
<1>3. Advanced(fr, top) /\ fr.reg = v
  BY <1>1, <1>2 DEF Advanced
<1>4. GoTo(t, fr)
  BY <1>1 DEF StepWith
<1>5. QED
  BY <1>1, <1>3, <1>4

(* The sum fits the counter.                                               *)
LEMMA WordsAreMade ==
  ASSUME NEW v
  PROVE  (v + 1) % 2^CounterBits \in CounterWords \/ v \notin CounterWords
<1>1. PICK m : m = 2^CounterBits
  OBVIOUS
<1>2. m \in Nat \ {0, 1}
  BY <1>1, PowersAssumption
<1>3. v \in 0..m - 1 => (v + 1) % m \in 0..m - 1
  BY <1>2
<1>4. QED
  BY <1>1, <1>3 DEF CounterWords

(* What is stored is a word, and in the counter.                           *)
LEMMA StoreKeepsWords ==
  ASSUME IInv, RunInv, UNCHANGED vars, NEW t \in Threads, Store(t)
  PROVE  /\ MemOK' /\ mem' = [mem EXCEPT !["bbCounter"] = TopOf(t).reg]
         /\ mem'["bbCounter"] = TopOf(t).reg
<1>1. At(t, "store") /\ mem' = [mem EXCEPT ![Code(t).sym] = TopOf(t).reg]
  BY DEF Store
<1>2. /\ Code(t).sym = "bbCounter" /\ TopOf(t).reg \in CounterWords
      /\ "bbCounter" \in DOMAIN mem
  BY <1>1, AtCounter
<1>3. PICK reg : reg = TopOf(t).reg
  OBVIOUS
<1>4. mem' = [mem EXCEPT !["bbCounter"] = reg]
  BY <1>1, <1>2, <1>3
<1>5. "bbCounter" \in DOMAIN mem' /\ mem'["bbCounter"] = reg
  BY <1>2, <1>4
<1>6. QED
  BY <1>2, <1>3, <1>4, <1>5 DEF MemOK

(* Work, join, load, add and store keep the invariant.                     *)
LEMMA QuietSteps ==
  ASSUME IInv, RunInv, UNCHANGED vars, NEW t \in Threads,
         Work(t) \/ Join(t) \/ Load(t) \/ Add(t) \/ Store(t)
  PROVE  RunInv'
<1>1. CASE Work(t)
  <2>1. /\ At(t, "work") /\ UNCHANGED <<code, proc, mem, exiter, handlers, armed, reports>>
        /\ \E fr : Advanced(fr, TopOf(t)) /\ GoTo(t, fr)
    BY <1>1, StepAdvances DEF Work
  <2>2. QED
    BY <2>1, Quiet
<1>2. CASE Join(t)
  <2>1. /\ At(t, "join") /\ UNCHANGED <<code, proc, mem, exiter, handlers, armed, reports>>
        /\ \E fr : Advanced(fr, TopOf(t)) /\ GoTo(t, fr)
    BY <1>2, StepAdvances DEF Join
  <2>2. QED
    BY <2>1, Quiet
<1>3. CASE Load(t)
  <2>1. At(t, "load") /\ UNCHANGED <<code, proc, mem, exiter, handlers, armed, reports>>
    BY <1>3 DEF Load
  <2>2. PICK fr : Advanced(fr, TopOf(t)) /\ GoTo(t, fr) /\ fr.reg = mem[Code(t).sym]
    BY <1>3, <2>1, StepWithAdvances DEF Load
  <2>3. fr.reg \in CounterWords
    BY <2>1, <2>2, AtCounter
  <2>4. QED
    BY <2>1, <2>2, <2>3, Quiet
<1>4. CASE Add(t)
  <2>1. At(t, "add") /\ UNCHANGED <<code, proc, mem, exiter, handlers, armed, reports>>
    BY <1>4 DEF Add
  <2>2. PICK fr : /\ Advanced(fr, TopOf(t)) /\ GoTo(t, fr)
                  /\ fr.reg = (TopOf(t).reg + 1) % 2^CounterBits
    BY <1>4, <2>1, StepWithAdvances DEF Add
  <2>3. fr.reg \in CounterWords
    BY <2>1, <2>2, AtCounter, WordsAreMade
  <2>4. QED
    BY <2>1, <2>2, <2>3, Quiet
<1>5. CASE Store(t)
  <2>1. /\ At(t, "store") /\ UNCHANGED <<code, proc, exiter, handlers, armed, reports>>
        /\ MemOK' /\ \E fr : Advanced(fr, TopOf(t)) /\ GoTo(t, fr)
    BY <1>5, StepAdvances, StoreKeepsWords DEF Store
  <2>2. QED
    BY <2>1, Quiet
<1>6. QED
  BY <1>1, <1>2, <1>3, <1>4, <1>5

(* Registering a handler keeps the invariant: one more armed, one more     *)
(* handler.                                                                *)
LEMMA AtExitStep ==
  ASSUME IInv, RunInv, UNCHANGED vars, NEW t \in Threads, AtExit(t)
  PROVE  RunInv'
<1>1. /\ At(t, "atexit") /\ Step(t) /\ UNCHANGED <<code, proc, mem, exiter, reports>>
      /\ handlers' = Append(handlers, Code(t).sym)
      /\ armed' = armed + (IF Code(t).sym = "setupAtExit" THEN 1 ELSE 0)
  BY DEF AtExit
<1>2. /\ proc \in {"running", "exiting"} /\ armed \in Nat /\ exiter \in Threads
      /\ Runnable(Code(t).sym)
  BY <1>1, AtFacts DEF InstrOK, RunInv, Running
<1>3. armed' \in Nat /\ armed' >= armed
  BY <1>1, <1>2
<1>5. PICK fr : Advanced(fr, TopOf(t)) /\ GoTo(t, fr)
  BY <1>1, StepAdvances
<1>6. FramesOK' /\ (\E S : StackIs(S)') /\ Owed \in {0, 1} /\ Owed' \in {0, 1} /\ Owed' >= Owed
  BY <1>1, <1>3, <1>5, Stepping
<1>7. PICK S : HandlersAre(S)
  BY DEF RunInv, Running
<1>8. PICK sym : sym = Code(t).sym
  OBVIOUS
<1>9. /\ handlers' \in Seq(S \cup {sym}) /\ handlers' # <<>>
      /\ Last(handlers') = sym /\ Front(handlers') = handlers
  <2>1. handlers \in Seq(S \cup {sym})
    BY <1>7, SeqMonotonic DEF HandlersAre
  <2>2. /\ handlers' \in Seq(S \cup {sym}) /\ Len(handlers') = Len(handlers) + 1
        /\ \A k \in 1..Len(handlers) : handlers'[k] = handlers[k]
        /\ handlers'[Len(handlers) + 1] = sym
    BY <1>1, <1>8, <2>1, AppendProperties
  <2>3. PICK L : L = Len(handlers) /\ L \in Nat
    BY <2>1, LenProperties
  <2>4. handlers' # <<>> /\ Last(handlers') = sym
    BY <2>2, <2>3 DEF Last
  <2>5. PICK f : f = Front(handlers')
    OBVIOUS
  <2>6. /\ f \in Seq(S \cup {sym}) /\ Len(f) = L
        /\ \A k \in 1..L : f[k] = handlers[k]
    BY <2>2, <2>3, <2>4, <2>5, TopPopped
  <2>7. f = handlers
    BY <2>1, <2>3, <2>6, SeqEqual
  <2>8. QED
    BY <2>2, <2>4, <2>5, <2>7
<1>10. Running'
  <2>1. HandlersAre(S \cup {sym})'
    BY <1>2, <1>7, <1>8, <1>9, OptRests DEF HandlersAre
  <2>2. QED
    BY <1>1, <1>2, <1>3, <1>6, <2>1, RunningThen
<1>11. ReportsOwed'
  <2>1. /\ HandlersArmed \in Nat
        /\ HandlersArmed' = HandlersArmed + (IF sym = "setupAtExit" THEN 1 ELSE 0)
    BY <1>9, CountedUp, HandlersCounted DEF HandlersArmed, RunInv
  <2>2. Len(reports) \in Nat
    BY LenProperties DEF RunInv, Running, ReportsAre
  <2>3. armed <= Len(reports) + HandlersArmed + Owed
    BY DEF RunInv, ReportsOwed
  <2>4. armed' <= Len(reports) + HandlersArmed' + Owed'
    BY <1>1, <1>2, <1>6, <1>8, <2>1, <2>2, <2>3
  <2>5. QED
    BY <1>1, <2>4 DEF ReportsOwed
<1>12. QED
  BY <1>6, <1>10, <1>11 DEF RunInv

(* Printing keeps the invariant: what was owed is reported.                *)
LEMMA PrintfStep ==
  ASSUME IInv, RunInv, UNCHANGED vars, NEW t \in Threads, Printf(t)
  PROVE  RunInv'
<1>1. PICK entry : /\ At(t, "printf") /\ Step(t)
                   /\ reports' = Append(reports, entry)
                   /\ UNCHANGED <<code, proc, mem, handlers, exiter, armed>>
  BY DEF Printf
<1>2. /\ proc \in {"running", "exiting"} /\ armed \in Nat /\ exiter \in Threads
  BY <1>1, AtFacts DEF RunInv, Running
<1>4. PICK fr : Advanced(fr, TopOf(t)) /\ GoTo(t, fr)
  BY <1>1, StepAdvances
<1>5. FramesOK' /\ (\E S : StackIs(S)') /\ Owed \in {0, 1} /\ Owed' \in {0, 1}
  BY <1>1, <1>2, <1>4, Stepping
<1>6. PICK S : ReportsAre(S)
  BY DEF RunInv, Running
<1>7. reports' \in Seq(S \cup {entry}) /\ Len(reports') = Len(reports) + 1
  <2>1. reports \in Seq(S \cup {entry})
    BY <1>6, SeqMonotonic DEF ReportsAre
  <2>2. QED
    BY <1>1, <2>1, AppendProperties
<1>8. Running'
  <2>1. ReportsAre(S \cup {entry})'
    BY <1>7 DEF ReportsAre
  <2>2. QED
    BY <1>1, <1>2, <1>5, <2>1, RunningThen
<1>9. ReportsOwed'
  <2>1. HandlersArmed \in Nat /\ HandlersArmed' = HandlersArmed
    BY <1>1, HandlersCounted DEF HandlersArmed, RunInv
  <2>2. Len(reports) \in Nat
    BY LenProperties DEF RunInv, Running, ReportsAre
  <2>3. armed <= Len(reports) + HandlersArmed + Owed
    BY DEF RunInv, ReportsOwed
  <2>4. armed' <= Len(reports') + HandlersArmed' + Owed'
    BY <1>1, <1>2, <1>5, <1>7, <2>1, <2>2, <2>3
  <2>5. QED
    BY <2>4 DEF ReportsOwed
<1>10. QED
  BY <1>5, <1>8, <1>9 DEF RunInv

(* The instructions that call, spawn or end a block leave what is owed.    *)
LEMMA NothingOwed ==
  ASSUME IInv, RunInv, UNCHANGED vars, NEW t \in Threads, NEW op, At(t, op),
         op \notin {"printf", "load", "atexit"},
         proc = "exiting" => exiter' = exiter,
         \A u \in Threads \ {t} : stack[u] # <<>> => stack'[u] = stack[u],
         UNCHANGED <<handlers, armed, reports>>
  PROVE  ReportsOwed'
<1>1. Owed \in {0, 1} /\ Owed' \in {0, 1} /\ Owed' >= Owed
  BY OwedStays
<1>2. HandlersArmed \in Nat /\ HandlersArmed' = HandlersArmed
  BY HandlersCounted DEF HandlersArmed, RunInv
<1>3. Len(reports) \in Nat /\ armed \in Nat
  BY LenProperties DEF RunInv, Running, ReportsAre
<1>4. armed <= Len(reports) + HandlersArmed + Owed
  BY DEF RunInv, ReportsOwed
<1>5. armed <= Len(reports) + HandlersArmed + Owed'
  BY <1>1, <1>2, <1>3, <1>4
<1>6. QED
  BY <1>2, <1>5 DEF ReportsOwed

(* A call keeps the invariant.                                             *)
LEMMA CallStep ==
  ASSUME IInv, RunInv, UNCHANGED vars, NEW t \in Threads, CallFn(t)
  PROVE  RunInv'
<1>1. PICK fr, g : /\ fr = [TopOf(t) EXCEPT !.ip = @ + 1] /\ g = Frame(Code(t).sym)
  OBVIOUS
<1>2. PICK w, v : w = Append(Front(stack[t]), fr) /\ v = w \o <<g>>
  OBVIOUS
<1>3. /\ At(t, "call") /\ stack' = [stack EXCEPT ![t] = v]
      /\ UNCHANGED <<code, proc, mem, handlers, exiter, armed, reports>>
  BY <1>1, <1>2 DEF CallFn
<1>4. /\ proc \in {"running", "exiting"} /\ stack[t] # <<>> /\ CodeOK(code)
      /\ GoodStack(t, stack[t], code, armed, proc, exiter)
      /\ Weight \in Nat /\ armed \in Nat /\ exiter \in Threads
      /\ Defines(source, Code(t).sym)
  BY <1>3, AtFacts DEF InstrOK, RunInv, Running
<1>5. PICK S : stack[t] \in Seq(S)
  BY <1>3, AtFacts
<1>6. TopOf(t).fn # "setupAtExit"
  <2>1. SUFFICES ASSUME TopOf(t).fn = "setupAtExit" PROVE FALSE
    OBVIOUS
  <2>2. BlockOf(t) = HandlerCode /\ TopOf(t).ip \in 1..3 /\ Code(t).op = "call"
    BY <1>3, <2>1, AtFacts, HandlerIs
  <2>3. QED
    BY <2>2, HandlerIs DEF Code
<1>7. /\ Advanced(fr, TopOf(t)) /\ FrameOK(code, fr) /\ MainArms(fr, armed)
      /\ fr.fn = TopOf(t).fn /\ Waits(code, fr)
  <2>1. TopOf(t) \in [fn : {TopOf(t).fn}, bb : Nat \ {0}, ip : Nat \ {0}, reg : {TopOf(t).reg}]
    BY <1>3, AtFacts DEF FrameOK
  <2>2. Advanced(fr, TopOf(t))
    BY <1>1, <2>1 DEF Advanced
  <2>3. FrameOK(code, fr) /\ MainArms(fr, armed) /\ Waits(code, fr)
    BY <1>3, <1>4, <2>2, NextFrame DEF OwnOps
  <2>4. QED
    BY <2>2, <2>3 DEF Advanced
<1>8. /\ GoodStack(t, w, code, armed, proc, exiter)
      /\ w \in Seq(S \cup {fr}) /\ w # <<>> /\ Last(w) = fr
  <2>1. GoodStack(t, w, code, armed, proc, exiter)
    BY <1>2, <1>4, <1>5, <1>7, StackStepped DEF TopOf
  <2>2. w \in Seq(S \cup {fr}) /\ Replaced(w, stack[t], fr)
    BY <1>2, <1>4, <1>5, TopReplaced
  <2>3. Len(stack[t]) \in Nat \ {0}
    BY <1>4, <1>5, Ends
  <2>4. w # <<>> /\ Last(w) = fr
    BY <2>2, <2>3 DEF Replaced, Last
  <2>5. QED
    BY <2>1, <2>2, <2>4
<1>9. FrameOK(code, g) /\ MainArms(g, armed) /\ g.fn # "setupAtExit"
  <2>1. Runnable(Code(t).sym) /\ Code(t).sym # "setupAtExit"
    BY <1>4 DEF Runnable, CodeOK
  <2>2. QED
    BY <1>1, <1>4, <2>1, NewFrame DEF Frame
<1>10. v \in Seq((S \cup {fr}) \cup {g}) /\ GoodStack(t, v, code, armed, proc, exiter)
  BY <1>2, <1>6, <1>7, <1>8, <1>9, StackPushed
<1>11. /\ \E R : StackIs(R)'
       /\ stack'[t] = v /\ \A u \in Threads \ {t} : stack'[u] = stack[u]
  BY <1>3, <1>10, StackSet
<1>12. FramesOK'
  <2>1. PICK T : T = {t}
    OBVIOUS
  <2>2. /\ T \subseteq Threads /\ \A u \in Threads \ T : stack'[u] = stack[u]
        /\ \A u \in T : GoodStack(u, stack'[u], code, armed', proc', exiter')
    BY <1>3, <1>10, <1>11, <2>1
  <2>3. QED
    BY <1>3, <1>4, <2>2, FramesThen
<1>13. Running'
  BY <1>3, <1>4, <1>11, RunningThen
<1>14. ReportsOwed'
  BY <1>3, <1>11, NothingOwed
<1>15. QED
  BY <1>12, <1>13, <1>14 DEF RunInv

(* Only its printf stands between setupAtExit and its return.              *)
LEMMA HandlerCalls ==
  ASSUME IInv, RunInv, NEW t \in Threads, NEW op, At(t, op),
         op \notin {"load", "printf", "ret"}
  PROVE  TopOf(t).fn # "setupAtExit"
<1>1. SUFFICES ASSUME TopOf(t).fn = "setupAtExit" PROVE FALSE
  OBVIOUS
<1>2. BlockOf(t) = HandlerCode /\ TopOf(t).ip \in 1..3 /\ Code(t).op = op
  BY <1>1, AtFacts, HandlerIs
<1>3. TopOf(t).ip = 1 \/ TopOf(t).ip = 2 \/ TopOf(t).ip = 3
  BY <1>2
<1>4. QED
  BY <1>2, <1>3, HandlerIs DEF Code

(* The creation of a thread keeps the invariant.                           *)
LEMMA SpawnStep ==
  ASSUME IInv, RunInv, UNCHANGED vars, NEW t \in Threads, Spawn(t)
  PROVE  RunInv'
<1>1. PICK fr, g : /\ fr = [TopOf(t) EXCEPT !.ip = @ + 1] /\ g = Frame(Code(t).sym)
  OBVIOUS
<1>2. PICK w : w = Append(Front(stack[t]), fr)
  OBVIOUS
<1>3. PICK u \in Threads \ {MainThread} :
        /\ stack[u] = <<>>
        /\ stack' = [stack EXCEPT ![t] = w, ![u] = <<g>>]
  BY <1>1, <1>2 DEF Spawn, Ended
<1>4. /\ At(t, "spawn")
      /\ UNCHANGED <<code, proc, mem, handlers, exiter, armed, reports>>
  BY DEF Spawn
<1>5. /\ proc \in {"running", "exiting"} /\ stack[t] # <<>> /\ CodeOK(code)
      /\ GoodStack(t, stack[t], code, armed, proc, exiter)
      /\ Weight \in Nat /\ armed \in Nat /\ exiter \in Threads
      /\ Defines(source, Code(t).sym)
  BY <1>4, AtFacts DEF InstrOK, RunInv, Running
<1>6. PICK S : stack \in [Threads -> Seq(S)]
  BY DEF RunInv, Running, StackIs
<1>7. FrameOK(code, fr) /\ MainArms(fr, armed) /\ fr.fn = TopOf(t).fn
  <2>1. TopOf(t) \in [fn : {TopOf(t).fn}, bb : Nat \ {0}, ip : Nat \ {0}, reg : {TopOf(t).reg}]
    BY <1>4, AtFacts DEF FrameOK
  <2>2. Advanced(fr, TopOf(t))
    BY <1>1, <2>1 DEF Advanced
  <2>3. At(t, "spawn") /\ armed >= armed
    BY <1>4, <1>5
  <2>a. FrameOK(code, fr) /\ MainArms(fr, armed)
    BY <1>5, <2>2, <2>3, NextFrame
  <2>4. QED
    BY <2>2, <2>a DEF Advanced
<1>8. GoodStack(t, w, code, armed, proc, exiter) /\ w \in Seq(S \cup {fr})
  <2>1. stack[t] \in Seq(S)
    BY <1>6
  <2>2. QED
    BY <1>2, <1>5, <1>7, <2>1, StackStepped, TopReplaced DEF TopOf
<1>9. GoodStack(u, <<g>>, code, armed, proc, exiter) /\ <<g>> \in Seq({g})
  <2>1. Runnable(Code(t).sym) /\ Code(t).sym # "setupAtExit"
    BY <1>5 DEF Runnable, CodeOK
  <2>2. FrameOK(code, g) /\ MainArms(g, armed) /\ g.fn # "setupAtExit"
    BY <1>1, <1>5, <2>1, NewFrame DEF Frame
  <2>3. QED
    BY <2>2, StackStarted
<1>10. /\ u # t /\ stack'[t] = w /\ stack'[u] = <<g>>
       /\ \A x \in Threads \ {t, u} : stack'[x] = stack[x]
       /\ DOMAIN stack' = Threads
  BY <1>3, <1>5, <1>6
<1>11. StackIs((S \cup {fr}) \cup {g})'
  <2>1. PICK R : R = (S \cup {fr}) \cup {g}
    OBVIOUS
  <2>2. w \in Seq(R) /\ <<g>> \in Seq(R)
    BY <1>8, <1>9, <2>1, SeqMonotonic
  <2>3. \A x \in Threads : stack[x] \in Seq(R)
    BY <1>6, <2>1, SeqMonotonic
  <2>4. \A x \in Threads : stack'[x] \in Seq(R)
    BY <1>10, <2>2, <2>3
  <2>5. stack' \in [Threads -> Seq(R)]
    BY <1>3, <1>6, <1>10, <2>4
  <2>6. QED
    BY <2>1, <2>5 DEF StackIs
<1>12. FramesOK'
  <2>1. PICK T : T = {t, u}
    OBVIOUS
  <2>2. /\ T \subseteq Threads /\ \A x \in Threads \ T : stack'[x] = stack[x]
        /\ \A x \in T : GoodStack(x, stack'[x], code, armed', proc', exiter')
    BY <1>4, <1>8, <1>9, <1>10, <2>1
  <2>3. QED
    BY <1>4, <1>5, <2>2, FramesThen
<1>13. Running'
  BY <1>4, <1>5, <1>11, RunningThen
<1>14. ReportsOwed'
  <2>1. \A x \in Threads \ {t} : stack[x] # <<>> => stack'[x] = stack[x]
    BY <1>3, <1>10
  <2>2. QED
    BY <1>4, <2>1, NothingOwed
<1>15. QED
  BY <1>12, <1>13, <1>14 DEF RunInv

(* A branch keeps the invariant: it goes to a block of the same function   *)
(* and never back to the entry of main.                                    *)
LEMMA BranchStep ==
  ASSUME IInv, RunInv, UNCHANGED vars, NEW t \in Threads, Branch(t)
  PROVE  RunInv'
<1>1. /\ At(t, "br") /\ UNCHANGED <<code, proc, mem, handlers, exiter, armed, reports>>
      /\ \E s \in Code(t).to :
           GoTo(t, [fn |-> TopOf(t).fn, bb |-> s, ip |-> 1, reg |-> 0])
  BY DEF Branch
<1>2. PICK s \in Code(t).to :
        GoTo(t, [fn |-> TopOf(t).fn, bb |-> s, ip |-> 1, reg |-> 0])
  BY <1>1
<1>3. PICK fr, w : /\ fr = [fn |-> TopOf(t).fn, bb |-> s, ip |-> 1, reg |-> 0]
                   /\ w = Append(Front(stack[t]), fr)
  OBVIOUS
<1>4. PICK size : size = Len(Named(code, TopOf(t).fn).blocks)
  OBVIOUS
<1>5. /\ proc \in {"running", "exiting"} /\ stack[t] # <<>> /\ CodeOK(code)
      /\ GoodStack(t, stack[t], code, armed, proc, exiter)
      /\ Weight \in Nat /\ armed \in Nat /\ exiter \in Threads /\ code = ir /\ Finished
      /\ FrameOK(code, TopOf(t)) /\ MainArms(TopOf(t), armed)
      /\ InstrOK(Code(t), Len(BlockOf(t)), size, TopOf(t).fn, TopOf(t).bb, TopOf(t).ip)
      /\ Code(t).op = "br"
  BY <1>1, <1>4, AtFacts DEF RunInv, Running
<1>6. s \in 2..size /\ Runnable(TopOf(t).fn) /\ TopOf(t).fn # "setupAtExit"
  BY <1>1, <1>5, HandlerCalls DEF InstrOK, FrameOK, Executable
<1>7. DOMAIN Named(code, TopOf(t).fn).blocks = 1..size /\ size \in Nat \ {0}
  BY <1>4, <1>5, <1>6 DEF CodeOK, HasBlocks
<1>8. FrameOK(code, fr) /\ MainArms(fr, armed) /\ fr.fn = TopOf(t).fn
  <2>1. Executable(code, fr.fn, fr.bb) /\ fr.bb \in Nat \ {0} /\ fr.bb > 1
    <3>1. s \in 1..size /\ s \in Nat \ {0} /\ s > 1
      BY <1>6, <1>7
    <3>2. QED
      BY <1>3, <1>6, <1>7, <3>1 DEF Executable
  <2>2. fr.ip \in DOMAIN Named(code, fr.fn).blocks[fr.bb]
    <3>1. BlockOK(Named(code, fr.fn).blocks[fr.bb], size, fr.fn, fr.bb)
      BY <1>3, <1>4, <1>5, <2>1 DEF CodeOK
    <3>2. QED
      BY <1>3, <3>1 DEF BlockOK
  <2>3. fr.fn = "main" => armed >= Weight
    <3>1. SUFFICES ASSUME fr.fn = "main" PROVE armed >= Weight
      OBVIOUS
    <3>2. ~ (TopOf(t).bb = 1 /\ TopOf(t).ip <= Weight)
      BY <1>3, <1>5, <3>1 DEF InstrOK
    <3>3. TopOf(t).bb > 1 \/ TopOf(t).ip > Weight
      BY <1>5, <3>2 DEF FrameOK
    <3>4. QED
      BY <1>3, <1>5, <3>1, <3>3 DEF MainArms
  <2>4. QED
    BY <1>3, <1>5, <2>1, <2>2, <2>3 DEF FrameOK, HoldsWord, MainArms
<1>9. PICK S : stack[t] \in Seq(S)
  BY <1>1, AtFacts
<1>10. GoodStack(t, w, code, armed, proc, exiter) /\ w \in Seq(S \cup {fr})
  BY <1>3, <1>5, <1>8, <1>9, StackStepped, TopReplaced DEF TopOf
<1>11. /\ \E R : StackIs(R)'
       /\ stack'[t] = w /\ \A u \in Threads \ {t} : stack'[u] = stack[u]
  <2>1. stack' = [stack EXCEPT ![t] = w]
    BY <1>2, <1>3 DEF GoTo
  <2>2. QED
    BY <1>10, <2>1, StackSet
<1>12. FramesOK'
  <2>1. PICK T : T = {t}
    OBVIOUS
  <2>2. /\ T \subseteq Threads /\ \A u \in Threads \ T : stack'[u] = stack[u]
        /\ \A u \in T : GoodStack(u, stack'[u], code, armed', proc', exiter')
    BY <1>1, <1>10, <1>11, <2>1
  <2>3. /\ code' = code /\ armed' \in Nat /\ armed' >= armed /\ proc # "off"
        /\ proc' = proc /\ exiter' = exiter
    BY <1>1, <1>5
  <2>4. QED
    BY <2>2, <2>3, FramesThen
<1>13. Running'
  BY <1>1, <1>5, <1>11, RunningThen
<1>14. ReportsOwed'
  BY <1>1, <1>11, NothingOwed
<1>15. QED
  BY <1>12, <1>13, <1>14 DEF RunInv

(* A return keeps the invariant; that of main begins the exit.             *)
LEMMA ReturnStep ==
  ASSUME IInv, RunInv, UNCHANGED vars, NEW t \in Threads, Return(t)
  PROVE  RunInv'
<1>1. PICK w : w = Front(stack[t])
  OBVIOUS
<1>2. /\ At(t, "ret") /\ UNCHANGED <<code, mem, handlers, armed, reports>>
      /\ stack' = [stack EXCEPT ![t] = w]
      /\ \/ proc = "running" /\ proc' = "exiting" /\ exiter' = t
         \/ proc' = proc /\ exiter' = exiter
  BY <1>1 DEF Return
<1>3. /\ proc \in {"running", "exiting"} /\ stack[t] # <<>>
      /\ GoodStack(t, stack[t], code, armed, proc, exiter)
      /\ Weight \in Nat /\ armed \in Nat /\ exiter \in Threads
  BY <1>2, AtFacts DEF RunInv, Running
<1>4. PICK S : stack[t] \in Seq(S)
  BY <1>2, AtFacts
<1>5. GoodStack(t, w, code, armed, proc, exiter) /\ w \in Seq(S)
  BY <1>1, <1>3, <1>4, StackPopped, TopPopped
<1>6. GoodStack(t, w, code, armed', proc', exiter')
  <2>1. armed' \in Nat /\ armed' >= armed
    BY <1>2, <1>3
  <2>2. QED
    BY <1>2, <1>3, <1>5, <2>1, StackLater
<1>7. /\ \E R : StackIs(R)'
      /\ stack'[t] = w /\ \A u \in Threads \ {t} : stack'[u] = stack[u]
  BY <1>2, <1>5, StackSet
<1>8. FramesOK'
  <2>1. PICK T : T = {t}
    OBVIOUS
  <2>2. /\ T \subseteq Threads /\ \A u \in Threads \ T : stack'[u] = stack[u]
        /\ \A u \in T : GoodStack(u, stack'[u], code, armed', proc', exiter')
    BY <1>6, <1>7, <2>1
  <2>3. /\ code' = code /\ armed' \in Nat /\ armed' >= armed /\ proc # "off"
        /\ \/ proc = "running"
           \/ proc' \in {"exiting", "dead"} /\ exiter' = exiter
           \/ proc' = proc /\ exiter' = exiter
    BY <1>2, <1>3
  <2>4. QED
    BY <2>2, <2>3, FramesThen
<1>9. Running'
  <2>1. /\ code' = code /\ mem' = mem /\ armed' \in Nat /\ proc # "off"
        /\ proc' \in {"running", "exiting", "dead"} /\ exiter' \in Threads
    BY <1>2, <1>3
  <2>2. QED
    BY <1>2, <1>7, <2>1, RunningThen
<1>10. ReportsOwed'
  BY <1>2, <1>7, NothingOwed
<1>11. QED
  BY <1>8, <1>9, <1>10 DEF RunInv

(* exit keeps the invariant, no handler being under way.                   *)
LEMMA ExitCallStep ==
  ASSUME IInv, RunInv, UNCHANGED vars, NEW t \in Threads, Exit(t)
  PROVE  RunInv'
<1>1. PICK w : w = <<>>
  OBVIOUS
<1>2. /\ At(t, "exit") /\ UNCHANGED <<code, mem, handlers, armed, reports>>
      /\ stack' = [stack EXCEPT ![t] = w]
      /\ proc = "running" /\ proc' = "exiting" /\ exiter' = t
  BY <1>1 DEF Exit
<1>3. armed \in Nat
  BY <1>2, AtFacts
<1>4. GoodStack(t, w, code, armed', proc', exiter') /\ w \in Seq({})
  BY <1>1, StackEmpty
<1>5. /\ \E R : StackIs(R)'
      /\ stack'[t] = w /\ \A u \in Threads \ {t} : stack'[u] = stack[u]
  BY <1>2, <1>4, StackSet
<1>6. FramesOK'
  <2>1. PICK T : T = {t}
    OBVIOUS
  <2>2. /\ T \subseteq Threads /\ \A u \in Threads \ T : stack'[u] = stack[u]
        /\ \A u \in T : GoodStack(u, stack'[u], code, armed', proc', exiter')
    BY <1>4, <1>5, <2>1
  <2>3. /\ code' = code /\ armed' \in Nat /\ armed' >= armed /\ proc # "off"
        /\ proc = "running"
    BY <1>2, <1>3
  <2>4. QED
    BY <2>2, <2>3, FramesThen
<1>7. Running'
  <2>1. /\ code' = code /\ mem' = mem /\ armed' \in Nat /\ proc # "off"
        /\ proc' \in {"running", "exiting", "dead"} /\ exiter' \in Threads
    BY <1>2, <1>3
  <2>2. QED
    BY <1>2, <1>5, <2>1, RunningThen
<1>8. ReportsOwed'
  BY <1>2, <1>5, NothingOwed
<1>9. QED
  BY <1>6, <1>7, <1>8 DEF RunInv

(* Every instruction keeps the invariant.                                  *)
LEMMA ThreadSteps ==
  ASSUME IInv, RunInv, UNCHANGED vars, NEW t \in Threads, ThreadStep(t)
  PROVE  RunInv'
<1>1. CASE Work(t) \/ Join(t) \/ Load(t) \/ Add(t) \/ Store(t)
  BY <1>1, QuietSteps
<1>2. CASE CallFn(t)
  BY <1>2, CallStep
<1>3. CASE Spawn(t)
  BY <1>3, SpawnStep
<1>4. CASE AtExit(t)
  BY <1>4, AtExitStep
<1>5. CASE Printf(t)
  BY <1>5, PrintfStep
<1>6. CASE Branch(t)
  BY <1>6, BranchStep
<1>7. CASE Return(t)
  BY <1>7, ReturnStep
<1>8. CASE Exit(t)
  BY <1>8, ExitCallStep
<1>9. QED
  BY <1>1, <1>2, <1>3, <1>4, <1>5, <1>6, <1>7, <1>8 DEF ThreadStep

--------------------------------------------------------------------------------
(* The steps of the process *)

(* exit starts the handler registered last, and owes its report.           *)
LEMMA HandlerRuns ==
  ASSUME IInv, RunInv, UNCHANGED vars, RunHandler
  PROVE  RunInv'
<1>1. PICK g, w, h : /\ g = Frame(h) /\ w = <<g>> /\ h = Last(handlers)
  OBVIOUS
<1>2. /\ proc = "exiting" /\ stack[exiter] = <<>> /\ handlers # <<>>
      /\ stack' = [stack EXCEPT ![exiter] = w] /\ handlers' = Front(handlers)
      /\ UNCHANGED <<code, proc, mem, exiter, armed, reports>>
  BY <1>1 DEF RunHandler
<1>3. /\ armed \in Nat /\ exiter \in Threads /\ Finished /\ code = ir
      /\ Weight \in Nat /\ CodeOK(code)
  BY <1>2, WeightIs, Image DEF RunInv, Running
<1>4. PICK S : HandlersAre(S)
  BY DEF RunInv, Running
<1>5. h \in S /\ handlers' \in Seq(S)
  BY <1>1, <1>2, <1>4, Ends, TopPopped DEF HandlersAre
<1>6. FrameOK(code, g) /\ MainArms(g, armed)
  BY <1>1, <1>3, <1>4, <1>5, NewFrame DEF HandlersAre
<1>7. w \in Seq({g}) /\ GoodStack(exiter, w, code, armed, proc, exiter)
  BY <1>1, <1>2, <1>6, StackStarted
<1>8. /\ \E R : StackIs(R)'
      /\ stack'[exiter] = w /\ \A u \in Threads \ {exiter} : stack'[u] = stack[u]
  BY <1>2, <1>3, <1>7, StackSet
<1>9. FramesOK'
  <2>1. PICK T : T = {exiter}
    OBVIOUS
  <2>2. /\ T \subseteq Threads /\ \A u \in Threads \ T : stack'[u] = stack[u]
        /\ \A u \in T : GoodStack(u, stack'[u], code, armed', proc', exiter')
    BY <1>2, <1>3, <1>7, <1>8, <2>1
  <2>3. /\ code' = code /\ armed' \in Nat /\ armed' >= armed /\ proc # "off"
        /\ proc' = proc /\ exiter' = exiter
    BY <1>2, <1>3
  <2>4. QED
    BY <2>2, <2>3, FramesThen
<1>10. Running'
  <2>1. HandlersAre(S)'
    BY <1>4, <1>5, OptRests DEF HandlersAre
  <2>2. /\ code' = code /\ mem' = mem /\ armed' \in Nat /\ proc # "off"
        /\ proc' \in {"running", "exiting", "dead"} /\ exiter' \in Threads
    BY <1>2, <1>3
  <2>3. QED
    BY <1>2, <1>8, <2>1, <2>2, RunningThen
<1>11. ReportsOwed'
  <2>1. /\ HandlersArmed \in Nat /\ HandlersArmed' \in Nat
        /\ HandlersArmed = HandlersArmed' + (IF h = "setupAtExit" THEN 1 ELSE 0)
    BY <1>1, <1>2, <1>4, <1>5, CountedUp DEF HandlersArmed, HandlersAre
  <2>2. Owed = 0 /\ Owed' = IF h = "setupAtExit" THEN 1 ELSE 0
    <3>1. w # <<>> /\ Last(w) = g /\ g.fn = h /\ g.ip = 1
      BY <1>1 DEF Frame, Last
    <3>2. QED
      BY <1>2, <1>8, <3>1 DEF Owed, TopOf
  <2>3. Len(reports) \in Nat /\ armed <= Len(reports) + HandlersArmed + Owed
    BY LenProperties DEF RunInv, Running, ReportsAre, ReportsOwed
  <2>4. armed <= Len(reports) + HandlersArmed' + Owed'
    BY <1>3, <2>1, <2>2, <2>3
  <2>5. QED
    BY <1>2, <2>4 DEF ReportsOwed
<1>12. QED
  BY <1>9, <1>10, <1>11 DEF RunInv

(* The end of the process keeps the invariant.                             *)
LEMMA ProcessDies ==
  ASSUME IInv, RunInv, UNCHANGED vars, Die
  PROVE  RunInv'
<1>1. /\ proc = "exiting" /\ proc' = "dead"
      /\ UNCHANGED <<code, stack, mem, handlers, exiter, armed, reports>>
  BY DEF Die
<1>2. /\ armed \in Nat /\ exiter \in Threads /\ \E S : StackIs(S)
  BY <1>1 DEF RunInv, Running
<1>3. FramesOK'
  <2>1. PICK T : T = {}
    OBVIOUS
  <2>2. /\ T \subseteq Threads /\ \A u \in Threads \ T : stack'[u] = stack[u]
        /\ \A u \in T : GoodStack(u, stack'[u], code, armed', proc', exiter')
    BY <1>1, <2>1
  <2>3. /\ code' = code /\ armed' \in Nat /\ armed' >= armed /\ proc # "off"
        /\ proc' \in {"exiting", "dead"} /\ exiter' = exiter
    BY <1>1, <1>2
  <2>4. QED
    BY <2>2, <2>3, FramesThen
<1>4. Running'
  <2>1. /\ code' = code /\ mem' = mem /\ armed' \in Nat /\ proc # "off"
        /\ proc' \in {"running", "exiting", "dead"} /\ exiter' \in Threads
        /\ \E S : StackIs(S)'
    BY <1>1, <1>2 DEF StackIs
  <2>2. QED
    BY <1>1, <2>1, RunningThen
<1>5. ReportsOwed'
  BY <1>1 DEF RunInv, ReportsOwed, HandlersArmed, Owed, TopOf
<1>6. QED
  BY <1>3, <1>4, <1>5 DEF RunInv

ConstructorsOnMain(w) ==
  /\ w[1] = Frame("main")
  /\ \A k \in DOMAIN w : k # 1 =>
       \E i \in DOMAIN source.ctors : w[k] = Frame(source.ctors[i])

(* The process starts with the constructors on top of main.                *)
LEMMA StartStack ==
  ASSUME IInv, Finished,
         NEW w, w = <<Frame("main")>>
                    \o [k \in 1..Len(ir.ctors) |-> Frame(Reverse(ir.ctors)[k])]
  PROVE  /\ \E S : w \in Seq(S)
         /\ DOMAIN w = 1..Len(w) /\ Len(w) \in Nat \ {0}
         /\ \A k \in DOMAIN w : \E name : Defines(source, name) /\ w[k] = Frame(name)
         /\ ConstructorsOnMain(w)
<1>1. PICK frames : frames = [k \in 1..Len(ir.ctors) |-> Frame(Reverse(ir.ctors)[k])]
  OBVIOUS
<1>2. CodeOK(ir)
  BY Image
<1>3. PICK S : S = {Frame(name) : name \in STRING} \cup {Frame("main")}
  OBVIOUS
<1>4. PICK L : L = Len(ir.ctors) /\ L \in Nat
  BY <1>2, LenProperties DEF CodeOK
<1>5. /\ frames \in Seq(S) /\ Len(frames) = L
      /\ \A k \in 1..L : \E i \in DOMAIN ir.ctors :
           Defines(source, ir.ctors[i]) /\ frames[k] = Frame(ir.ctors[i])
  <2>1. ASSUME NEW k \in 1..L
        PROVE  \E i \in DOMAIN ir.ctors :
                 /\ ir.ctors[i] \in STRING /\ Defines(source, ir.ctors[i])
                 /\ frames[k] = Frame(ir.ctors[i])
    <3>1. PICK i : i = (L - k) + 1
      OBVIOUS
    <3>2. i \in 1..L /\ i \in DOMAIN ir.ctors
      BY <1>2, <1>4, <3>1, LenProperties DEF CodeOK
    <3>3. Reverse(ir.ctors)[k] = ir.ctors[i]
      BY <1>4, <3>1 DEF Reverse
    <3>4. ir.ctors[i] \in STRING /\ Defines(source, ir.ctors[i])
      BY <1>2, <1>4, <3>2, ElementOfSeq DEF CodeOK
    <3>5. frames[k] = Frame(ir.ctors[i])
      BY <1>1, <1>4, <3>3
    <3>6. QED
      BY <3>2, <3>4, <3>5
  <2>2. frames \in [1..L -> S]
    BY <1>1, <1>3, <1>4, <2>1
  <2>3. frames \in Seq(S) /\ Len(frames) = L
    BY <1>4, <2>2, SeqDef, SMTT(30)
  <2>4. QED
    BY <2>1, <2>3
<1>6. PICK m : m = <<Frame("main")>>
  OBVIOUS
<1>7. m \in Seq(S) /\ Len(m) = 1 /\ m[1] = Frame("main")
  BY <1>3, <1>6
<1>8. Joined(w, m, frames, S)
  BY <1>1, <1>5, <1>6, <1>7, Concatenation
<1>9. /\ w \in Seq(S) /\ Len(w) = 1 + L
      /\ \A k \in 1..1 + L : w[k] = IF k <= 1 THEN m[k] ELSE frames[k - 1]
  BY <1>5, <1>7, <1>8 DEF Joined
<1>10. ASSUME NEW k \in 1..1 + L
       PROVE  /\ \E name : Defines(source, name) /\ w[k] = Frame(name)
              /\ k = 1 => w[k] = Frame("main")
              /\ k # 1 => \E i \in DOMAIN source.ctors : w[k] = Frame(source.ctors[i])
  <2>1. CASE k = 1
    <3>1. w[k] = Frame("main")
      BY <1>4, <1>7, <1>9, <2>1
    <3>2. Defines(source, "main")
      BY <1>2 DEF CodeOK
    <3>3. QED
      BY <2>1, <3>1, <3>2
  <2>2. CASE k # 1
    <3>1. k - 1 \in 1..L /\ ~ (k <= 1)
      BY <1>4, <2>2
    <3>2. w[k] = frames[k - 1]
      BY <1>9, <3>1
    <3>3. PICK i \in DOMAIN ir.ctors :
            Defines(source, ir.ctors[i]) /\ w[k] = Frame(ir.ctors[i])
      BY <1>5, <3>1, <3>2
    <3>4. ir.ctors = source.ctors
      BY <1>2 DEF CodeOK
    <3>5. QED
      BY <2>2, <3>3, <3>4
  <2>3. QED
    BY <2>1, <2>2
<1>11. DOMAIN w = 1..Len(w) /\ Len(w) \in Nat \ {0} /\ Len(w) = 1 + L
  BY <1>4, <1>9, LenProperties
<1>12. ConstructorsOnMain(w)
  <2>1. 1 \in 1..1 + L
    BY <1>4
  <2>2. QED
    BY <1>10, <1>11, <2>1 DEF ConstructorsOnMain
<1>13. QED
  BY <1>9, <1>10, <1>11, <1>12

(* The start of the process establishes what the invariant says of one.    *)
LEMMA StartStep ==
  ASSUME IInv, RunInv, UNCHANGED vars, Finished, Start(ir)
  PROVE  RunInv'
<1>1. PICK w : w = <<Frame("main")>>
                   \o [k \in 1..Len(ir.ctors) |-> Frame(Reverse(ir.ctors)[k])]
  OBVIOUS
<1>3. /\ proc = "off" /\ proc' = "running" /\ code' = ir
      /\ mem' = [g \in DOMAIN ir.gvars |-> ir.gvars[g].init]
      /\ stack' = [stack EXCEPT ![MainThread] = w]
      /\ UNCHANGED <<handlers, exiter, armed, reports>>
  BY <1>1 DEF Start
<1>4. CodeOK(ir) /\ Weight \in Nat
  BY Image, WeightIs
<1>5. /\ MainThread \in Threads /\ exiter \in Threads /\ armed = 0
      /\ \A u \in Threads : stack[u] = <<>>
      /\ handlers = <<>> /\ reports = <<>>
  BY <1>3, ThreadsAssumption DEF RunInv, Running
<1>6. \A name : Defines(source, name) =>
        /\ FrameOK(ir, Frame(name)) /\ MainArms(Frame(name), 0)
        /\ Frame(name).fn # "setupAtExit" /\ Waits(ir, Frame(name))
  <2>1. SUFFICES ASSUME NEW name, Defines(source, name)
                 PROVE  /\ FrameOK(ir, Frame(name)) /\ MainArms(Frame(name), 0)
                        /\ Frame(name).fn # "setupAtExit" /\ Waits(ir, Frame(name))
    OBVIOUS
  <2>2. Runnable(name) /\ name # "setupAtExit"
    BY <1>4, <2>1 DEF Runnable, CodeOK
  <2>3. QED
    BY <1>4, <2>2, NewFrame DEF Frame, Waits
<1>7. PICK S : w \in Seq(S)
  BY <1>1, StartStack
<1>10. GoodStack(MainThread, w, code', 0, proc', exiter')
  <2>1. ASSUME NEW k \in DOMAIN w
        PROVE  /\ FrameOK(ir, w[k]) /\ MainArms(w[k], 0) /\ w[k].fn # "setupAtExit"
               /\ Waits(ir, w[k])
    <3>1. PICK name : Defines(source, name) /\ w[k] = Frame(name)
      BY <1>1, <2>1, StartStack
    <3>2. QED
      BY <1>6, <3>1
  <2>2. QED
    BY <1>3, <2>1 DEF GoodStack
<1>11. /\ \E R : StackIs(R)'
       /\ stack'[MainThread] = w
       /\ \A u \in Threads \ {MainThread} : stack'[u] = stack[u]
  BY <1>3, <1>5, <1>7, StackSet
<1>12. FramesOK'
  <2>1. ASSUME NEW u \in Threads
        PROVE  GoodStack(u, stack'[u], code', armed', proc', exiter')
    <3>1. CASE u = MainThread
      BY <1>3, <1>5, <1>10, <1>11, <3>1
    <3>2. CASE u # MainThread
      <4>1. stack'[u] = <<>>
        BY <1>5, <1>11, <3>2
      <4>2. QED
        BY <4>1, StackEmpty
    <3>3. QED
      BY <3>1, <3>2
  <2>2. QED
    BY <2>1, FramesNext
<1>13. Running'
  <2>1. /\ Finished' /\ code' = ir'
        /\ \A name : Runnable(name)' <=> Runnable(name)
    BY <1>3, OptRests
  <2>2. (\E R : HandlersAre(R)) /\ (\E R : ReportsAre(R))
    BY DEF RunInv, Running
  <2>3. (\E R : HandlersAre(R)') /\ (\E R : ReportsAre(R)')
    BY <1>3, <2>1, <2>2 DEF HandlersAre, ReportsAre
  <2>4. MemOK'
    <3>1. Weight' = Weight /\ 0 \in CounterWords
      BY OptRests, PowersAssumption DEF CounterWords
    <3>2. Weight > 0 => "bbCounter" \in DOMAIN ir.gvars /\ ir.gvars["bbCounter"].init = 0
      BY <1>4 DEF CodeOK
    <3>3. QED
      BY <1>3, <3>1, <3>2 DEF MemOK
  <2>5. QED
    BY <1>3, <1>5, <1>11, <2>1, <2>3, <2>4 DEF Running
<1>14. ReportsOwed'
  <2>1. Owed' \in {0, 1} /\ HandlersArmed \in Nat /\ HandlersArmed' = HandlersArmed
    BY <1>3, HandlersCounted DEF Owed, HandlersArmed, RunInv
  <2>2. Len(reports) \in Nat
    BY LenProperties DEF RunInv, Running, ReportsAre
  <2>3. armed' = 0 /\ Len(reports') \in Nat /\ HandlersArmed' \in Nat
    BY <1>3, <1>5, <2>1, <2>2
  <2>4. armed' <= Len(reports') + HandlersArmed' + Owed'
    BY <2>1, <2>3
  <2>5. QED
    BY <2>4 DEF ReportsOwed
<1>15. QED
  BY <1>12, <1>13, <1>14 DEF RunInv

(* opt compiles before the process starts.                                 *)
LEMMA CompilesFirst ==
  ASSUME IInv, RunInv, Compile
  PROVE  ~ Finished /\ proc = "off"
<1>1. CASE StartPass
  <2>1. PICK L : L = Len(passes) /\ L \in Nat /\ at \in 0..L
    BY PipelinesAssumption, LenProperties DEF IInv, AtPass
  <2>2. at # Len(passes)
    BY <1>1, <2>1 DEF StartPass
  <2>3. QED
    BY <2>2 DEF Finished, RunInv, Running
<1>2. CASE CountStep
  BY <1>2 DEF CountStep, Count!Next, Count!NoMain, Count!SetupDies, Count!Setup,
     Count!SkipFunction, Count!RunOnBasicBlock, Count!RunOnBasicBlockDies,
     Count!Finish, Count!InLoop, Finished, RunInv, Running
<1>3. CASE PosixStep
  BY <1>3 DEF PosixStep, Posix!Next, Posix!NothingToDo, Posix!Posixize,
     Posix!ErasesUsed, Finished, RunInv, Running
<1>4. QED
  BY <1>1, <1>2, <1>3 DEF Compile

(* Every step of the whole keeps the invariant.                            *)
LEMMA RunInvStep ==
  ASSUME IInv, RunInv, [WholeNext]_allVars
  PROVE  RunInv'
<1>1. CASE Compile
  <2>1. ~ Finished
    BY <1>1, CompilesFirst
  <2>2. UNCHANGED runVars
    BY <1>1 DEF Compile
  <2>3. /\ proc' = "off" /\ (\A u \in Threads : stack[u] = <<>>)
        /\ UNCHANGED <<code, proc, stack, mem, handlers, exiter, armed, reports>>
    BY <2>1, <2>2 DEF RunInv, Running, runVars
  <2>4. FramesOK'
    BY <2>3 DEF FramesOK, GoodStack
  <2>5. Running'
    <3>1. (\E S : StackIs(S)') /\ (\E S : ReportsAre(S)')
      BY <2>3 DEF RunInv, Running, StackIs, ReportsAre
    <3>2. HandlersAre({})'
      BY <2>3 DEF RunInv, Running, HandlersAre
    <3>3. QED
      BY <2>3, <3>1, <3>2 DEF RunInv, Running, MemOK
  <2>6. ReportsOwed'
    BY <2>3 DEF RunInv, ReportsOwed, HandlersArmed, Owed, TopOf
  <2>7. QED
    BY <2>4, <2>5, <2>6 DEF RunInv
<1>2. CASE Execute
  <2>1. UNCHANGED vars /\ Finished
    BY <1>2 DEF Execute
  <2>2. CASE Start(ir)
    BY <2>1, <2>2, StartStep
  <2>3. CASE ExitStep
    BY <2>1, <2>3, HandlerRuns, ProcessDies DEF ExitStep
  <2>4. CASE \E t \in Threads : ThreadStep(t)
    BY <2>1, <2>4, ThreadSteps
  <2>5. QED
    BY <1>2, <2>2, <2>3, <2>4 DEF Execute
<1>3. CASE UNCHANGED allVars
  <2>1. UNCHANGED vars /\ UNCHANGED <<code, proc, stack, mem, handlers, exiter, armed, reports>>
    BY <1>3 DEF allVars, runVars
  <2>2. Weight' = Weight /\ (Finished' <=> Finished) /\ ir' = ir
        /\ \A name : Runnable(name)' <=> Runnable(name)
    BY <2>1, OptRests
  <2>3. FramesOK'
    BY <2>1, FramesNext DEF RunInv, FramesOK
  <2>4. Running'
    BY <2>1, <2>2 DEF RunInv, Running, MemOK, StackIs, HandlersAre, ReportsAre
  <2>5. ReportsOwed'
    BY <2>1 DEF RunInv, ReportsOwed, HandlersArmed, Owed, TopOf
  <2>6. QED
    BY <2>3, <2>4, <2>5 DEF RunInv
<1>4. QED
  BY <1>1, <1>2, <1>3 DEF WholeNext, Over

(* The process never leaves its invariant, whatever passes instrumented    *)
(* it and however its threads are scheduled.                               *)
THEOREM RunInvariant == WholeSpec => []RunInv
<1>1. WholeInit => RunInv
  BY RunInvInit DEF WholeInit
<1>2. IInv /\ RunInv /\ [WholeNext]_allVars => RunInv'
  BY RunInvStep
<1>3. WholeSpec => []IInv
  BY Whole, PipelineInvariant, PTL
<1>4. QED
  BY <1>1, <1>2, <1>3, PTL DEF WholeSpec

(* The invariant says that reports are armed: what is owed is owed by the  *)
(* thread in exit.                                                         *)
LEMMA ArmedByInvariant ==
  ASSUME RunInv
  PROVE  ReportIsArmed
<1>1. PICK T : T = {t \in Threads : stack[t] # <<>> /\ TopOf(t).fn = "setupAtExit"}
  OBVIOUS
<1>2. T \subseteq {exiter}
  <2>1. SUFFICES ASSUME NEW t \in T PROVE t = exiter
    OBVIOUS
  <2>2. t \in Threads /\ stack[t] # <<>> /\ TopOf(t).fn = "setupAtExit"
    BY <1>1
  <2>3. PICK S : stack[t] \in Seq(S)
    BY <2>2 DEF RunInv, Running, StackIs
  <2>4. GoodStack(t, stack[t], code, armed, proc, exiter)
    BY <2>2 DEF RunInv, FramesOK
  <2>5. QED
    BY <2>2, <2>3, <2>4, Ends DEF GoodStack, TopOf
<1>3. Cardinality(T) \in Nat /\ Owed \in Nat /\ Owed <= Cardinality(T)
  <2>1. CASE T = {}
    <3>1. Cardinality(T) = 0
      BY <2>1, FS_EmptySet
    <3>2. Owed = 0
      BY <1>1, <2>1 DEF Owed, RunInv, Running
    <3>3. QED
      BY <3>1, <3>2
  <2>2. CASE T = {exiter}
    <3>1. Cardinality(T) = 1
      BY <2>2, FS_Singleton
    <3>2. QED
      BY <3>1 DEF Owed
  <2>3. QED
    BY <1>2, <2>1, <2>2
<1>4. armed <= Len(reports) + HandlersArmed + Cardinality(T)
  <2>1. HandlersArmed \in Nat
    BY HandlersCounted DEF RunInv
  <2>2. Len(reports) \in Nat /\ armed \in Nat
    BY LenProperties DEF RunInv, Running, ReportsAre
  <2>3. armed <= Len(reports) + HandlersArmed + Owed
    BY DEF RunInv, ReportsOwed
  <2>4. QED
    BY <1>3, <2>1, <2>2, <2>3
<1>5. ASSUME NEW t \in Threads, NEW k \in DOMAIN stack[t]
      PROVE  LET fr == stack[t][k] IN
               fr.fn = "main" /\ (fr.bb > 1 \/ fr.ip > Weight) => armed >= Weight
  <2>1. GoodStack(t, stack[t], code, armed, proc, exiter)
    BY DEF RunInv, FramesOK
  <2>2. MainArms(stack[t][k], armed)
    BY <2>1 DEF GoodStack
  <2>3. QED
    BY <2>2 DEF MainArms
<1>6. QED
  BY <1>1, <1>4, <1>5 DEF ReportIsArmed, HandlersArmed, ArmedIn

(* count-bb's report is armed before main does anything of its own, and    *)
(* what is armed is reported or still to be (the call of atexit at the     *)
(* head of main, src/lib/snippets/CountExecBB.cc:40).                      *)
THEOREM ReportsAreArmed == WholeSpec => []ReportIsArmed
<1>1. RunInv => ReportIsArmed
  BY ArmedByInvariant
<1>2. QED
  BY <1>1, RunInvariant, PTL

--------------------------------------------------------------------------------
(* The program implements the counting protocol.                           *)

(* What the thread of stack w has under way, and the value it holds.       *)
Doing(M, w) ==
  IF w = <<>> \/ Last(w).ip = 1 THEN "idle"
  ELSE CASE Before(M, Last(w)) = "load" -> "loaded"
         [] Before(M, Last(w)) = "add" -> "added"
         [] OTHER -> "idle"
Value(M, w) == IF Doing(M, w) = "idle" THEN 0 ELSE Last(w).reg

MappedAt == [t \in Threads |-> Doing(code, stack[t])]
MappedReg == [t \in Threads |-> Value(code, stack[t])]
MappedReported == [k \in DOMAIN reports |-> reports[k].shown]

MappedAsStated ==
  /\ MappedAt = [t \in Threads |-> UnderWay(t)]
  /\ MappedReg = [t \in Threads |-> IF UnderWay(t) = "idle" THEN 0 ELSE TopOf(t).reg]

(* The mapping, in terms of stacks, is the one CountedRun states,          *)
LEMMA Mapping == MappedAsStated
<1>1. \A t \in Threads : Doing(code, stack[t]) = UnderWay(t)
  BY DEF Doing, UnderWay, Before, BlockOf, TopOf
<1>2. \A t \in Threads :
        Value(code, stack[t]) = IF UnderWay(t) = "idle" THEN 0 ELSE TopOf(t).reg
  BY <1>1 DEF Value, TopOf
<1>3. QED
  BY <1>1, <1>2 DEF MappedAsStated, MappedAt, MappedReg

(* ... after a step as well.                                               *)
LEMMA MappingNext == MappedAsStated'
BY Mapping, PTL

MappedVars == <<Counter, MappedReg, MappedAt, stores, MappedReported>>

(* A step that changes nothing mapped is a stutter of the protocol.        *)
LEMMA MappedStutter ==
  ASSUME UNCHANGED MappedVars
  PROVE  UNCHANGED Protocol!vars
<1>1. /\ UNCHANGED [t \in Threads |-> UnderWay(t)]
      /\ UNCHANGED [t \in Threads |-> IF UnderWay(t) = "idle" THEN 0 ELSE TopOf(t).reg]
  BY Mapping, MappingNext DEF MappedVars, MappedAsStated
<1>2. QED
  BY <1>1 DEF MappedVars, MappedReported, Protocol!vars

(* The protocol begins where the program does.                             *)
LEMMA MappedInit ==
  ASSUME RunInit
  PROVE  Protocol!Init
<1>1. /\ proc = "off" /\ stack = [t \in Threads |-> <<>>] /\ stores = 0 /\ reports = <<>>
  BY DEF RunInit
<1>2. \A t \in Threads : Doing(code, stack[t]) = "idle" /\ Value(code, stack[t]) = 0
  BY <1>1 DEF Doing, Value
<1>3. MappedAt = [t \in Threads |-> "idle"] /\ MappedReg = [t \in Threads |-> 0]
  BY <1>2 DEF MappedAt, MappedReg
<1>4. Counter = 0
  BY <1>1 DEF Counter
<1>5. [k \in DOMAIN reports |-> reports[k].shown] = <<>>
  BY <1>1
<1>6. QED
  BY <1>1, <1>3, <1>4, <1>5, Mapping DEF Protocol!Init, MappedAsStated

(* A step of the protocol, in the variables of the program.                *)
MappedLoad(t) ==
  /\ MappedAt[t] = "idle"
  /\ MappedReg' = [MappedReg EXCEPT ![t] = Counter]
  /\ MappedAt' = [MappedAt EXCEPT ![t] = "loaded"]
  /\ UNCHANGED <<Counter, stores, MappedReported>>

MappedAdd(t) ==
  /\ MappedAt[t] = "loaded"
  /\ MappedReg' = [MappedReg EXCEPT ![t] = Protocol!Wrap(MappedReg[t] + 1)]
  /\ MappedAt' = [MappedAt EXCEPT ![t] = "added"]
  /\ UNCHANGED <<Counter, stores, MappedReported>>

MappedStore(t) ==
  /\ MappedAt[t] = "added"
  /\ Counter' = MappedReg[t]
  /\ stores' = stores + 1
  /\ MappedReg' = [MappedReg EXCEPT ![t] = 0]
  /\ MappedAt' = [MappedAt EXCEPT ![t] = "idle"]
  /\ UNCHANGED MappedReported

MappedReport(t) ==
  /\ MappedAt[t] = "loaded"
  /\ MappedReported' = Append(MappedReported, Shown(MappedReg[t]))
  /\ MappedReg' = [MappedReg EXCEPT ![t] = 0]
  /\ MappedAt' = [MappedAt EXCEPT ![t] = "idle"]
  /\ UNCHANGED <<Counter, stores>>

(* A mapped step is a step of the protocol.                                *)
LEMMA MappedSteps ==
  ASSUME NEW t \in Threads,
         MappedLoad(t) \/ MappedAdd(t) \/ MappedStore(t) \/ MappedReport(t)
  PROVE  Protocol!Next
<1>1. MappedAsStated /\ MappedAsStated'
  BY Mapping, MappingNext
<1>2. CASE MappedLoad(t)
  <2>1. Protocol!Load(t)
    BY <1>1, <1>2 DEF MappedLoad, MappedAsStated, MappedReported, Protocol!Load
  <2>2. QED
    BY <2>1 DEF Protocol!Next
<1>3. CASE MappedAdd(t)
  <2>1. Protocol!Add(t)
    BY <1>1, <1>3 DEF MappedAdd, MappedAsStated, MappedReported, Protocol!Add
  <2>2. QED
    BY <2>1 DEF Protocol!Next
<1>4. CASE MappedStore(t)
  <2>1. Protocol!Store(t)
    BY <1>1, <1>4 DEF MappedStore, MappedAsStated, MappedReported, Protocol!Store
  <2>2. QED
    BY <2>1 DEF Protocol!Next
<1>5. CASE MappedReport(t)
  <2>1. Protocol!Report(t)
    BY <1>1, <1>5 DEF MappedReport, MappedAsStated, MappedReported, Protocol!Report
  <2>2. QED
    BY <2>1 DEF Protocol!Next
<1>6. QED
  BY <1>2, <1>3, <1>4, <1>5

(* When one stack changes, the mapping changes for its thread.             *)
LEMMA ThreadMoves ==
  ASSUME RunInv, NEW t \in Threads, code' = code,
         \A u \in Threads \ {t} : stack'[u] = stack[u],
         NEW w, stack'[t] = w
  PROVE  /\ MappedAt' = [MappedAt EXCEPT ![t] = Doing(code, w)]
         /\ MappedReg' = [MappedReg EXCEPT ![t] = Value(code, w)]
<1>1. \A u \in Threads :
        Doing(code', stack'[u]) = IF u = t THEN Doing(code, w) ELSE Doing(code, stack[u])
  OBVIOUS
<1>2. \A u \in Threads :
        Value(code', stack'[u]) = IF u = t THEN Value(code, w) ELSE Value(code, stack[u])
  OBVIOUS
<1>3. /\ MappedAt' = [u \in Threads |-> Doing(code', stack'[u])]
      /\ MappedReg' = [u \in Threads |-> Value(code', stack'[u])]
  BY DEF MappedAt, MappedReg, Doing, Value, Before
<1>4. QED
  BY <1>1, <1>2, <1>3 DEF MappedAt, MappedReg

(* The counter is in memory.                                               *)
LEMMA CounterStays ==
  ASSUME UNCHANGED vars, mem' = mem, proc # "off", proc' # "off"
  PROVE  Counter' = Counter
BY OptRests DEF Counter

(* At counting code there is one.                                          *)
LEMMA CounterHolds ==
  ASSUME IInv, RunInv, NEW t \in Threads, NEW op, At(t, op),
         op \in {"load", "add", "store", "printf"}
  PROVE  Counter = mem["bbCounter"] /\ Weight > 0 /\ Weight \in Nat
<1>1. proc # "off" /\ Weight > 0 /\ Weight \in Nat
  BY AtFacts, AtCounter
<1>2. QED
  BY <1>1 DEF Counter

(* What a thread has under way tells the instruction it is at,             *)
LEMMA StoppedAt ==
  ASSUME IInv, RunInv, NEW t \in Threads, NEW op, At(t, op)
  PROVE  /\ Doing(code, stack[t]) = CASE op \in {"add", "printf"} -> "loaded"
                                      [] op = "store" -> "added"
                                      [] OTHER -> "idle"
         /\ Value(code, stack[t]) =
              IF op \in {"add", "printf", "store"} THEN TopOf(t).reg ELSE 0
<1>1. PICK top : top = TopOf(t)
  OBVIOUS
<1>2. /\ stack[t] # <<>> /\ Last(stack[t]) = top /\ top.ip \in Nat \ {0}
  BY <1>1, AtFacts DEF TopOf, FrameOK
<1>3. /\ op \in {"add", "printf"} <=> top.ip > 1 /\ Before(code, top) = "load"
      /\ op = "store" <=> top.ip > 1 /\ Before(code, top) = "add"
  BY <1>1, AtCounter
<1>4. top.ip > 1 <=> top.ip # 1
  BY <1>2
<1>5. Doing(code, stack[t]) = CASE op \in {"add", "printf"} -> "loaded"
                                [] op = "store" -> "added"
                                [] OTHER -> "idle"
  BY <1>2, <1>3, <1>4 DEF Doing
<1>6. QED
  BY <1>1, <1>2, <1>5 DEF Value

(* ... and the instruction it has executed what it has under way next.     *)
LEMMA SteppedTo ==
  ASSUME IInv, RunInv, NEW t \in Threads, NEW op, At(t, op),
         op \notin {"br", "ret", "exit"},
         NEW fr, Advanced(fr, TopOf(t)), GoTo(t, fr)
  PROVE  /\ \A u \in Threads \ {t} : stack'[u] = stack[u]
         /\ Doing(code, stack'[t]) = CASE op = "load" -> "loaded"
                                       [] op = "add" -> "added"
                                       [] OTHER -> "idle"
         /\ Value(code, stack'[t]) = IF op \in {"load", "add"} THEN fr.reg ELSE 0
<1>1. PICK top, w : top = TopOf(t) /\ w = Append(Front(stack[t]), fr)
  OBVIOUS
<1>2. /\ stack[t] # <<>> /\ top.ip \in Nat \ {0} /\ Code(t).op = op
  BY <1>1, AtFacts DEF FrameOK
<1>3. PICK S : stack[t] \in Seq(S)
  BY AtFacts
<1>4. w \in Seq(S \cup {fr}) /\ w # <<>> /\ Last(w) = fr
  <2>1. w \in Seq(S \cup {fr}) /\ Replaced(w, stack[t], fr)
    BY <1>1, <1>2, <1>3, TopReplaced
  <2>2. Len(stack[t]) \in Nat \ {0}
    BY <1>2, <1>3, Ends
  <2>3. QED
    BY <2>1, <2>2 DEF Replaced, Last
<1>5. stack'[t] = w /\ \A u \in Threads \ {t} : stack'[u] = stack[u]
  BY <1>1, <1>4, StackSet DEF GoTo
<1>6. fr.ip # 1 /\ Before(code, fr) = op
  <2>1. fr.fn = top.fn /\ fr.bb = top.bb /\ fr.ip = top.ip + 1 /\ fr.ip - 1 = top.ip
    BY <1>1, <1>2 DEF Advanced
  <2>2. Before(code, fr) = op
    BY <1>1, <1>2, <2>1 DEF Before, Code, BlockOf
  <2>3. QED
    BY <1>2, <2>1, <2>2
<1>7. Doing(code, w) = CASE op = "load" -> "loaded"
                         [] op = "add" -> "added"
                         [] OTHER -> "idle"
  BY <1>4, <1>6 DEF Doing
<1>8. QED
  BY <1>4, <1>5, <1>7 DEF Value

(* The add of an i64 wraps as the protocol's does.                         *)
LEMMA WrapIs ==
  ASSUME NEW v \in CounterWords
  PROVE  (v + 1) % 2^CounterBits = Protocol!Wrap(v + 1)
<1>1. PICK m : m = 2^CounterBits /\ m \in Nat \ {0, 1}
  BY PowersAssumption
<1>2. v \in 0..m - 1
  BY <1>1 DEF CounterWords
<1>3. (v + 1) % m = IF v + 1 = m THEN 0 ELSE v + 1
  BY <1>1, <1>2
<1>4. QED
  BY <1>1, <1>3 DEF Protocol!Wrap

(* A load of the program is one of the protocol,                           *)
LEMMA LoadIsLoad ==
  ASSUME IInv, RunInv, UNCHANGED vars, NEW t \in Threads, Load(t)
  PROVE  MappedLoad(t)
<1>1. At(t, "load") /\ UNCHANGED <<code, proc, mem, stores, reports>>
  BY DEF Load
<1>2. PICK fr : Advanced(fr, TopOf(t)) /\ GoTo(t, fr) /\ fr.reg = mem[Code(t).sym]
  BY <1>1, StepWithAdvances DEF Load
<1>3. fr.reg = Counter /\ Code(t).sym = "bbCounter" /\ proc # "off"
  BY <1>1, <1>2, CounterHolds, AtCounter, AtFacts
<1>4. /\ \A u \in Threads \ {t} : stack'[u] = stack[u]
      /\ Doing(code, stack'[t]) = "loaded" /\ Value(code, stack'[t]) = Counter
  BY <1>1, <1>2, <1>3, SteppedTo
<1>5. /\ MappedAt' = [MappedAt EXCEPT ![t] = "loaded"]
      /\ MappedReg' = [MappedReg EXCEPT ![t] = Counter]
  BY <1>1, <1>4, ThreadMoves
<1>6. MappedAt[t] = "idle"
  BY <1>1, StoppedAt DEF MappedAt
<1>7. Counter' = Counter /\ MappedReported' = MappedReported
  BY <1>1, <1>3, CounterStays DEF MappedReported
<1>8. QED
  BY <1>1, <1>5, <1>6, <1>7 DEF MappedLoad

(* ... an add an add,                                                      *)
LEMMA AddIsAdd ==
  ASSUME IInv, RunInv, UNCHANGED vars, NEW t \in Threads, Add(t)
  PROVE  MappedAdd(t)
<1>1. At(t, "add") /\ UNCHANGED <<code, proc, mem, stores, reports>>
  BY DEF Add
<1>2. PICK fr : /\ Advanced(fr, TopOf(t)) /\ GoTo(t, fr)
                /\ fr.reg = (TopOf(t).reg + 1) % 2^CounterBits
  BY <1>1, StepWithAdvances DEF Add
<1>3. TopOf(t).reg \in CounterWords /\ proc # "off"
  BY <1>1, AtCounter, AtFacts
<1>4. MappedAt[t] = "loaded" /\ MappedReg[t] = TopOf(t).reg
  BY <1>1, StoppedAt DEF MappedAt, MappedReg
<1>5. fr.reg = Protocol!Wrap(MappedReg[t] + 1)
  BY <1>2, <1>3, <1>4, WrapIs
<1>6. /\ \A u \in Threads \ {t} : stack'[u] = stack[u]
      /\ Doing(code, stack'[t]) = "added" /\ Value(code, stack'[t]) = fr.reg
  BY <1>1, <1>2, SteppedTo
<1>7. /\ MappedAt' = [MappedAt EXCEPT ![t] = "added"]
      /\ MappedReg' = [MappedReg EXCEPT ![t] = fr.reg]
  BY <1>1, <1>6, ThreadMoves
<1>8. Counter' = Counter /\ MappedReported' = MappedReported
  BY <1>1, <1>3, CounterStays DEF MappedReported
<1>9. QED
  BY <1>1, <1>4, <1>5, <1>7, <1>8 DEF MappedAdd

(* ... a store a store,                                                    *)
LEMMA StoreIsStore ==
  ASSUME IInv, RunInv, UNCHANGED vars, NEW t \in Threads, Store(t)
  PROVE  MappedStore(t)
<1>1. /\ At(t, "store") /\ UNCHANGED <<code, proc, reports>> /\ stores' = stores + 1
  BY DEF Store
<1>2. PICK fr : Advanced(fr, TopOf(t)) /\ GoTo(t, fr)
  BY <1>1, StepAdvances DEF Store
<1>3. mem'["bbCounter"] = TopOf(t).reg /\ proc # "off" /\ Weight > 0
  BY <1>1, StoreKeepsWords, AtCounter, AtFacts
<1>4. MappedAt[t] = "added" /\ MappedReg[t] = TopOf(t).reg
  BY <1>1, StoppedAt DEF MappedAt, MappedReg
<1>5. /\ \A u \in Threads \ {t} : stack'[u] = stack[u]
      /\ Doing(code, stack'[t]) = "idle" /\ Value(code, stack'[t]) = 0
  BY <1>1, <1>2, SteppedTo
<1>6. /\ MappedAt' = [MappedAt EXCEPT ![t] = "idle"]
      /\ MappedReg' = [MappedReg EXCEPT ![t] = 0]
  BY <1>1, <1>5, ThreadMoves
<1>7. Counter' = MappedReg[t]
  <2>1. Weight' = Weight /\ Weight \in Nat
    BY <1>1, OptRests, AtFacts
  <2>2. Counter' = mem'["bbCounter"]
    BY <1>1, <1>3, <2>1 DEF Counter
  <2>3. QED
    BY <1>3, <1>4, <2>2
<1>8. MappedReported' = MappedReported
  BY <1>1 DEF MappedReported
<1>9. QED
  BY <1>1, <1>4, <1>6, <1>7, <1>8 DEF MappedStore

(* The values shown grow with the reports;                                 *)
LEMMA ReportedGrows ==
  ASSUME NEW S, NEW r \in Seq(S), NEW e, NEW s, s = Append(r, e)
  PROVE  [k \in DOMAIN s |-> s[k].shown] = Append([k \in DOMAIN r |-> r[k].shown], e.shown)
<1>1. PICK n : n = Len(r) /\ n \in Nat /\ DOMAIN r = 1..n
  BY LenProperties
<1>2. r \in Seq(S \cup {e})
  BY SeqMonotonic
<1>3. s \in Seq(S \cup {e}) /\ Len(s) = n + 1 /\ (\A k \in 1..n : s[k] = r[k]) /\ s[n + 1] = e
  BY <1>1, <1>2, AppendProperties
<1>4. DOMAIN s = 1..n + 1
  BY <1>3, LenProperties
<1>5. PICK T, a : T = {x.shown : x \in S \cup {e}} /\ a = [k \in 1..n |-> r[k].shown]
  OBVIOUS
<1>6. a \in Seq(T) /\ Len(a) = n
  <2>1. \A k \in 1..n : r[k].shown \in T
    BY <1>1, <1>5, ElementOfSeq
  <2>2. a \in [1..n -> T]
    BY <1>5, <2>1
  <2>3. QED
    BY <1>1, <2>2, SeqDef
<1>7. PICK b, v : b = Append(a, v) /\ v = e.shown /\ v \in T
  BY <1>5
<1>8. b \in Seq(T) /\ Len(b) = n + 1 /\ (\A k \in 1..n : b[k] = a[k]) /\ b[n + 1] = v
  BY <1>6, <1>7, AppendProperties
<1>9. DOMAIN b = 1..n + 1
  BY <1>8, LenProperties
<1>10. PICK c : c = [k \in 1..n + 1 |-> s[k].shown]
  OBVIOUS
<1>11. \A k \in 1..n + 1 : b[k] = c[k]
  <2>1. SUFFICES ASSUME NEW k \in 1..n + 1 PROVE b[k] = s[k].shown
    BY <1>10
  <2>2. k \in 1..n \/ k = n + 1
    BY <1>1
  <2>3. CASE k \in 1..n
    BY <1>3, <1>5, <1>8, <2>3
  <2>4. CASE k = n + 1
    BY <1>3, <1>7, <1>8, <2>4
  <2>5. QED
    BY <2>2, <2>3, <2>4
<1>12. b = [k \in 1..n + 1 |-> b[k]]
  BY <1>8, <1>9
<1>13. b = c
  BY <1>10, <1>11, <1>12
<1>14. QED
  BY <1>1, <1>4, <1>5, <1>7, <1>10, <1>13

(* ... so that a printf is a report.                                       *)
LEMMA PrintfIsReport ==
  ASSUME IInv, RunInv, UNCHANGED vars, NEW t \in Threads, Printf(t)
  PROVE  MappedReport(t)
<1>1. PICK e : /\ At(t, "printf") /\ Step(t)
               /\ reports' = Append(reports, e) /\ e.shown = Shown(TopOf(t).reg)
               /\ UNCHANGED <<code, proc, mem, stores>>
  BY DEF Printf
<1>2. PICK fr : Advanced(fr, TopOf(t)) /\ GoTo(t, fr)
  BY <1>1, StepAdvances
<1>3. MappedAt[t] = "loaded" /\ MappedReg[t] = TopOf(t).reg /\ proc # "off"
  BY <1>1, StoppedAt, AtFacts DEF MappedAt, MappedReg
<1>4. /\ \A u \in Threads \ {t} : stack'[u] = stack[u]
      /\ Doing(code, stack'[t]) = "idle" /\ Value(code, stack'[t]) = 0
  BY <1>1, <1>2, SteppedTo
<1>5. /\ MappedAt' = [MappedAt EXCEPT ![t] = "idle"]
      /\ MappedReg' = [MappedReg EXCEPT ![t] = 0]
  BY <1>1, <1>4, ThreadMoves
<1>6. Counter' = Counter
  BY <1>1, <1>3, CounterStays
<1>7. MappedReported' = Append(MappedReported, Shown(MappedReg[t]))
  <2>1. PICK S : reports \in Seq(S)
    BY DEF RunInv, Running, ReportsAre
  <2>2. MappedReported' = Append(MappedReported, e.shown)
    BY <1>1, <2>1, ReportedGrows DEF MappedReported
  <2>3. QED
    BY <1>1, <1>3, <2>2
<1>8. QED
  BY <1>1, <1>3, <1>5, <1>6, <1>7 DEF MappedReport

(* Every other step is one that the protocol does not see.                 *)
LEMMA Unseen ==
  ASSUME RunInv, UNCHANGED vars, UNCHANGED <<code, mem, stores, reports>>,
         proc # "off", proc' # "off",
         \A u \in Threads : \/ stack'[u] = stack[u]
                            \/ /\ Doing(code, stack[u]) = "idle"
                               /\ Doing(code, stack'[u]) = "idle"
  PROVE  UNCHANGED MappedVars
<1>1. \A u \in Threads : /\ Doing(code', stack'[u]) = Doing(code, stack[u])
                         /\ Value(code', stack'[u]) = Value(code, stack[u])
  BY DEF Value
<1>2. /\ MappedAt' = [u \in Threads |-> Doing(code', stack'[u])]
      /\ MappedReg' = [u \in Threads |-> Value(code', stack'[u])]
  BY DEF MappedAt, MappedReg, Doing, Value, Before
<1>3. MappedAt' = MappedAt /\ MappedReg' = MappedReg
  BY <1>1, <1>2 DEF MappedAt, MappedReg
<1>4. Counter' = Counter /\ MappedReported' = MappedReported
  BY CounterStays DEF MappedReported
<1>5. QED
  BY <1>3, <1>4 DEF MappedVars

(* The top of a stack after a call.                                        *)
LEMMA LastJoined ==
  ASSUME NEW S, NEW s \in Seq(S), NEW g
  PROVE  s \o <<g>> # <<>> /\ Last(s \o <<g>>) = g
<1>1. PICK v, n : v = s \o <<g>> /\ n = Len(s) /\ n \in Nat
  BY LenProperties
<1>2. s \in Seq(S \cup {g}) /\ <<g>> \in Seq(S \cup {g})
  BY SeqMonotonic
<1>3. Joined(v, s, <<g>>, S \cup {g})
  BY <1>1, <1>2, Concatenation
<1>4. Len(v) = n + 1 /\ v[n + 1] = <<g>>[(n + 1) - n]
  BY <1>1, <1>3 DEF Joined
<1>5. v # <<>> /\ Last(v) = g
  BY <1>1, <1>4 DEF Last
<1>6. QED
  BY <1>1, <1>5

(* The protocol sees no work, join, registration, call or thread creation, *)
LEMMA StepsUnseen ==
  ASSUME IInv, RunInv, UNCHANGED vars, NEW t \in Threads,
         Work(t) \/ Join(t) \/ AtExit(t) \/ CallFn(t) \/ Spawn(t)
  PROVE  UNCHANGED MappedVars
<1>1. PICK op \in {"work", "join", "atexit", "call", "spawn"} : At(t, op)
  BY DEF Work, Join, AtExit, CallFn, Spawn
<1>2. /\ UNCHANGED <<code, proc, mem, stores, reports>>
  BY DEF Work, Join, AtExit, CallFn, Spawn
<1>3. proc # "off" /\ Doing(code, stack[t]) = "idle"
  BY <1>1, AtFacts, StoppedAt
<1>4. CASE Work(t) \/ Join(t) \/ AtExit(t)
  <2>1. PICK fr : Advanced(fr, TopOf(t)) /\ GoTo(t, fr)
    BY <1>1, <1>4, StepAdvances DEF Work, Join, AtExit
  <2>2. /\ \A u \in Threads \ {t} : stack'[u] = stack[u]
        /\ Doing(code, stack'[t]) = "idle"
    BY <1>1, <2>1, SteppedTo
  <2>3. QED
    BY <1>2, <1>3, <2>2, Unseen
<1>5. CASE CallFn(t) \/ Spawn(t)
  <2>1. PICK fr, g : /\ fr = [TopOf(t) EXCEPT !.ip = @ + 1] /\ g = Frame(Code(t).sym)
    OBVIOUS
  <2>2. PICK w : w = Append(Front(stack[t]), fr)
    OBVIOUS
  <2>3. PICK S : stack \in [Threads -> Seq(S)]
    BY DEF RunInv, Running, StackIs
  <2>4. w \in Seq(S \cup {fr}) /\ w # <<>> /\ Last(w) = fr
    <3>1. stack[t] # <<>> /\ stack[t] \in Seq(S)
      BY <1>1, <2>3, AtFacts
    <3>2. w \in Seq(S \cup {fr}) /\ Replaced(w, stack[t], fr) /\ Len(stack[t]) \in Nat \ {0}
      BY <2>2, <3>1, TopReplaced, Ends
    <3>3. QED
      BY <3>2 DEF Replaced, Last
  <2>5. /\ w \o <<g>> # <<>> /\ Last(w \o <<g>>) = g /\ g.ip = 1
        /\ <<g>> # <<>> /\ Last(<<g>>) = g
    BY <2>1, <2>4, LastJoined DEF Frame, Last
  <2>6. Doing(code, w \o <<g>>) = "idle" /\ Doing(code, <<g>>) = "idle"
    BY <2>5 DEF Doing
  <2>7. CASE CallFn(t)
    <3>1. PICK v : v = w \o <<g>>
      OBVIOUS
    <3>2. stack' = [stack EXCEPT ![t] = v]
      BY <2>1, <2>2, <2>7, <3>1 DEF CallFn
    <3>3. Doing(code, stack'[t]) = "idle" /\ \A u \in Threads \ {t} : stack'[u] = stack[u]
      BY <2>3, <2>6, <3>1, <3>2
    <3>4. QED
      BY <1>2, <1>3, <3>3, Unseen
  <2>8. CASE Spawn(t)
    <3>1. PICK u \in Threads \ {MainThread} :
            stack[u] = <<>> /\ stack' = [stack EXCEPT ![t] = w, ![u] = <<g>>]
      BY <2>1, <2>2, <2>8 DEF Spawn, Ended
    <3>2. u # t
      BY <1>1, <3>1, AtFacts
    <3>3. /\ stack'[t] = w /\ stack'[u] = <<g>>
          /\ \A x \in Threads \ {t, u} : stack'[x] = stack[x]
      BY <2>3, <3>1, <3>2
    <3>4. Doing(code, stack[u]) = "idle"
      BY <3>1 DEF Doing
    <3>5. Doing(code, w) = "idle"
      <4>1. PICK op2 : op2 = "spawn"
        OBVIOUS
      <4>2. At(t, op2) /\ Code(t).op = op2 /\ FrameOK(code, TopOf(t))
        BY <2>8, <4>1, AtFacts DEF Spawn
      <4>3. TopOf(t) \in [fn : {TopOf(t).fn}, bb : Nat \ {0}, ip : Nat \ {0}, reg : {TopOf(t).reg}]
        BY <4>2 DEF FrameOK
      <4>4. /\ fr.fn = TopOf(t).fn /\ fr.bb = TopOf(t).bb /\ fr.ip - 1 = TopOf(t).ip
        BY <2>1, <4>3
      <4>5. Before(code, fr) = op2
        BY <4>2, <4>4 DEF Before, Code, BlockOf
      <4>6. QED
        BY <2>4, <4>1, <4>5 DEF Doing
    <3>6. \A x \in Threads : \/ stack'[x] = stack[x]
                             \/ /\ Doing(code, stack[x]) = "idle"
                                /\ Doing(code, stack'[x]) = "idle"
      BY <1>3, <2>6, <3>3, <3>4, <3>5
    <3>7. QED
      BY <1>2, <1>3, <3>6, Unseen
  <2>9. QED
    BY <1>5, <2>7, <2>8
<1>6. QED
  BY <1>4, <1>5

(* ... no terminator and no exit,                                          *)
LEMMA EndsUnseen ==
  ASSUME IInv, RunInv, UNCHANGED vars, NEW t \in Threads,
         Branch(t) \/ Return(t) \/ Exit(t)
  PROVE  UNCHANGED MappedVars
<1>1. PICK op \in {"br", "ret", "exit"} : At(t, op)
  BY DEF Branch, Return, Exit
<1>2. /\ UNCHANGED <<code, mem, stores, reports>> /\ proc' # "off" /\ proc # "off"
  BY <1>1, AtFacts DEF Branch, Return, Exit
<1>3. Doing(code, stack[t]) = "idle"
  BY <1>1, StoppedAt
<1>4. PICK S : stack \in [Threads -> Seq(S)]
  BY DEF RunInv, Running, StackIs
<1>5. stack[t] # <<>> /\ stack[t] \in Seq(S) /\ GoodStack(t, stack[t], code, armed, proc, exiter)
  BY <1>1, <1>4, AtFacts
<1>6. \E w : stack' = [stack EXCEPT ![t] = w] /\ Doing(code, w) = "idle"
  <2>1. CASE Branch(t)
    <3>a. PICK s : GoTo(t, [fn |-> TopOf(t).fn, bb |-> s, ip |-> 1, reg |-> 0])
      BY <2>1 DEF Branch
    <3>b. PICK fr, w : /\ fr = [fn |-> TopOf(t).fn, bb |-> s, ip |-> 1, reg |-> 0]
                       /\ w = Append(Front(stack[t]), fr)
      OBVIOUS
    <3>1. /\ fr.ip = 1 /\ w = Append(Front(stack[t]), fr)
          /\ stack' = [stack EXCEPT ![t] = w]
      BY <3>a, <3>b DEF GoTo
    <3>2. w \in Seq(S \cup {fr}) /\ Replaced(w, stack[t], fr) /\ Len(stack[t]) \in Nat \ {0}
      BY <1>5, <3>1, TopReplaced, Ends
    <3>3. w # <<>> /\ Last(w) = fr
      BY <3>2 DEF Replaced, Last
    <3>4. QED
      BY <3>1, <3>3 DEF Doing
  <2>2. CASE Return(t)
    <3>1. PICK w, L : w = Front(stack[t]) /\ L = Len(stack[t])
      OBVIOUS
    <3>2. stack' = [stack EXCEPT ![t] = w]
      BY <2>2, <3>1 DEF Return
    <3>3. /\ w \in Seq(S) /\ Len(w) = L - 1 /\ \A k \in 1..L - 1 : w[k] = stack[t][k]
          /\ L \in Nat \ {0} /\ DOMAIN stack[t] = 1..L
      BY <1>5, <3>1, TopPopped, Ends
    <3>4. ASSUME w # <<>> PROVE Last(w).ip \in Nat /\ Waits(code, Last(w))
      <4>1. L - 1 \in 1..L - 1 /\ L - 1 \in DOMAIN stack[t] /\ L - 1 < L
        BY <3>3, <3>4, Ends
      <4>2. Last(w) = stack[t][L - 1]
        BY <3>3, <4>1 DEF Last
      <4>3. FrameOK(code, stack[t][L - 1]) /\ Waits(code, stack[t][L - 1])
        BY <1>5, <3>1, <4>1 DEF GoodStack
      <4>4. QED
        BY <4>2, <4>3 DEF FrameOK
    <3>5. Doing(code, w) = "idle"
      <4>1. w # <<>> /\ Last(w).ip # 1 =>
              Before(code, Last(w)) # "load" /\ Before(code, Last(w)) # "add"
        <5>1. SUFFICES ASSUME w # <<>>, Last(w).ip # 1
                       PROVE  Before(code, Last(w)) # "load" /\ Before(code, Last(w)) # "add"
          OBVIOUS
        <5>2. Last(w).ip > 1
          <6>1. FrameOK(code, Last(w))
            BY <1>5, <3>1, <3>3, <5>1, Ends DEF GoodStack, Last
          <6>2. QED
            BY <5>1, <6>1 DEF FrameOK
        <5>3. QED
          BY <3>4, <5>1, <5>2 DEF Waits, OwnOps
      <4>2. QED
        BY <4>1 DEF Doing
    <3>6. QED
      BY <3>2, <3>5
  <2>3. CASE Exit(t)
    <3>1. PICK w : w = <<>>
      OBVIOUS
    <3>2. stack' = [stack EXCEPT ![t] = w] /\ Doing(code, w) = "idle"
      BY <2>3, <3>1 DEF Exit, Doing
    <3>3. QED
      BY <3>2
  <2>4. QED
    BY <2>1, <2>2, <2>3
<1>7. \A u \in Threads : \/ stack'[u] = stack[u]
                         \/ /\ Doing(code, stack[u]) = "idle"
                            /\ Doing(code, stack'[u]) = "idle"
  <2>1. PICK w : stack' = [stack EXCEPT ![t] = w] /\ Doing(code, w) = "idle"
    BY <1>6
  <2>2. stack'[t] = w /\ \A u \in Threads \ {t} : stack'[u] = stack[u]
    BY <1>4, <2>1
  <2>3. QED
    BY <1>3, <2>1, <2>2
<1>8. QED
  BY <1>2, <1>7, Unseen

(* ... nothing of the start and the end of the process,                    *)
LEMMA ProcessUnseen ==
  ASSUME IInv, RunInv, UNCHANGED vars, (Start(ir) /\ Finished) \/ ExitStep
  PROVE  UNCHANGED MappedVars
<1>1. PICK S : stack \in [Threads -> Seq(S)]
  BY DEF RunInv, Running, StackIs
<1>2. /\ exiter \in Threads /\ MainThread \in Threads
      /\ proc = "off" => \A u \in Threads : stack[u] = <<>>
  BY ThreadsAssumption DEF RunInv, Running
<1>3. CASE RunHandler
  <2>1. PICK g, w : g = Frame(Last(handlers)) /\ w = <<g>>
    OBVIOUS
  <2>2. /\ stack[exiter] = <<>> /\ stack' = [stack EXCEPT ![exiter] = w]
        /\ proc # "off" /\ proc' # "off" /\ UNCHANGED <<code, mem, stores, reports>>
    BY <1>3, <2>1 DEF RunHandler
  <2>3. Last(w) = g /\ g.ip = 1
    BY <2>1 DEF Frame, Last
  <2>4. Doing(code, stack[exiter]) = "idle" /\ Doing(code, w) = "idle"
    BY <2>2, <2>3 DEF Doing
  <2>5. stack'[exiter] = w /\ \A u \in Threads \ {exiter} : stack'[u] = stack[u]
    BY <1>1, <1>2, <2>2
  <2>6. QED
    BY <2>2, <2>4, <2>5, Unseen
<1>4. CASE Die
  <2>1. /\ proc # "off" /\ proc' # "off" /\ UNCHANGED <<code, mem, stores, reports, stack>>
    BY <1>4 DEF Die
  <2>2. QED
    BY <2>1, Unseen
<1>5. CASE Start(ir) /\ Finished
  <2>2. PICK w : w = <<Frame("main")>>
                     \o [k \in 1..Len(ir.ctors) |-> Frame(Reverse(ir.ctors)[k])]
    OBVIOUS
  <2>3. /\ proc = "off" /\ proc' = "running" /\ code' = ir
        /\ mem' = [g \in DOMAIN ir.gvars |-> ir.gvars[g].init]
        /\ stack' = [stack EXCEPT ![MainThread] = w]
        /\ UNCHANGED <<stores, reports>>
    BY <1>5, <2>2 DEF Start
  <2>4. CodeOK(ir) /\ Weight' = Weight
    BY <1>5, Image, OptRests
  <2>5. Counter = 0 /\ Counter' = 0
    <3>1. Weight > 0 => mem'["bbCounter"] = 0
      BY <2>3, <2>4 DEF CodeOK
    <3>2. Weight \in Nat
      BY <1>5, WeightIs
    <3>3. QED
      BY <2>3, <2>4, <3>1, <3>2 DEF Counter
  <2>6. stack'[MainThread] = w /\ \A u \in Threads \ {MainThread} : stack'[u] = <<>>
    BY <1>1, <1>2, <2>3
  <2>7. w # <<>> => Last(w).ip = 1
    <3>1. PICK L : L = Len(w) /\ L \in DOMAIN w
      <4>1. DOMAIN w = 1..Len(w) /\ Len(w) \in Nat \ {0}
        BY <1>5, <2>2, StartStack
      <4>2. QED
        BY <4>1
    <3>2. PICK name : w[L] = Frame(name)
      BY <1>5, <2>2, <3>1, StartStack
    <3>3. QED
      BY <3>1, <3>2 DEF Last, Frame
  <2>8. \A u \in Threads : /\ Doing(code, stack[u]) = "idle"
                           /\ Doing(code', stack'[u]) = "idle"
    BY <1>2, <2>3, <2>6, <2>7 DEF Doing
  <2>9. /\ MappedAt' = [u \in Threads |-> Doing(code', stack'[u])]
        /\ MappedReg' = [u \in Threads |-> Value(code', stack'[u])]
    BY DEF MappedAt, MappedReg, Doing, Value, Before
  <2>10. MappedAt' = MappedAt /\ MappedReg' = MappedReg
    BY <2>8, <2>9 DEF MappedAt, MappedReg, Value
  <2>11. QED
    BY <2>3, <2>5, <2>10 DEF MappedVars, MappedReported
<1>6. QED
  BY <1>3, <1>4, <1>5 DEF ExitStep

(* ... and nothing of opt.                                                 *)
LEMMA CompileUnseen ==
  ASSUME IInv, RunInv, Compile
  PROVE  UNCHANGED MappedVars
<1>1. proc = "off" /\ UNCHANGED runVars
  BY CompilesFirst DEF Compile
<1>2. UNCHANGED <<code, stack, proc, stores, reports>>
  BY <1>1 DEF runVars
<1>3. MappedAt' = MappedAt /\ MappedReg' = MappedReg /\ MappedReported' = MappedReported
  BY <1>2 DEF MappedAt, MappedReg, MappedReported, Doing, Value, Before
<1>4. Counter' = Counter
  BY <1>1, <1>2 DEF Counter
<1>5. QED
  BY <1>2, <1>3, <1>4 DEF MappedVars

(* Every step of the whole is a step of the protocol or a stutter.         *)
LEMMA StepIsSeen ==
  ASSUME IInv, RunInv, [WholeNext]_allVars
  PROVE  [Protocol!Next]_(Protocol!vars)
<1>1. CASE Compile
  BY <1>1, CompileUnseen, MappedStutter
<1>2. CASE Execute
  <2>1. UNCHANGED vars /\ Finished
    BY <1>2 DEF Execute
  <2>2. CASE Start(ir) \/ ExitStep
    BY <2>1, <2>2, ProcessUnseen, MappedStutter
  <2>3. ASSUME NEW t \in Threads, ThreadStep(t)
        PROVE  [Protocol!Next]_(Protocol!vars)
    <3>1. CASE Load(t) \/ Add(t) \/ Store(t) \/ Printf(t)
      <4>1. MappedLoad(t) \/ MappedAdd(t) \/ MappedStore(t) \/ MappedReport(t)
        BY <2>1, <3>1, LoadIsLoad, AddIsAdd, StoreIsStore, PrintfIsReport
      <4>2. QED
        BY <4>1, MappedSteps
    <3>2. CASE Work(t) \/ Join(t) \/ AtExit(t) \/ CallFn(t) \/ Spawn(t)
      BY <2>1, <3>2, StepsUnseen, MappedStutter
    <3>3. CASE Branch(t) \/ Return(t) \/ Exit(t)
      BY <2>1, <3>3, EndsUnseen, MappedStutter
    <3>4. QED
      BY <2>3, <3>1, <3>2, <3>3 DEF ThreadStep
  <2>4. QED
    BY <1>2, <2>2, <2>3 DEF Execute
<1>3. CASE UNCHANGED allVars
  <2>1. UNCHANGED vars /\ UNCHANGED <<code, proc, stack, mem, stores, reports>>
    BY <1>3 DEF allVars, runVars
  <2>2. MappedAt' = MappedAt /\ MappedReg' = MappedReg /\ MappedReported' = MappedReported
    BY <2>1 DEF MappedAt, MappedReg, MappedReported, Doing, Value, Before
  <2>3. Counter' = Counter
    BY <2>1, OptRests DEF Counter
  <2>4. QED
    BY <2>1, <2>2, <2>3, MappedStutter DEF MappedVars
<1>4. QED
  BY <1>1, <1>2, <1>3 DEF WholeNext, Over

(* A program of any blocks, calls, threads and handlers that count-bb has  *)
(* instrumented implements the counting protocol.                          *)
THEOREM ProgramImplementsProtocol == WholeSpec => ImplementsProtocol
<1>1. WholeInit => Protocol!Init
  BY MappedInit DEF WholeInit
<1>2. IInv /\ RunInv /\ [WholeNext]_allVars => [Protocol!Next]_(Protocol!vars)
  BY StepIsSeen
<1>3. WholeSpec => []IInv
  BY Whole, PipelineInvariant, PTL
<1>4. QED
  BY <1>1, <1>2, <1>3, RunInvariant, PTL DEF WholeSpec, ImplementsProtocol, Protocol!Spec

(* What has been proved of the protocol is so of the program.              *)
Laws == INSTANCE CountProtocolProofs WITH
  Modulus  <- 2^CounterBits,
  counter  <- Counter,
  reg      <- [t \in Threads |->
                 IF UnderWay(t) = "idle" THEN 0 ELSE TopOf(t).reg],
  at       <- [t \in Threads |-> UnderWay(t)],
  stores   <- stores,
  reported <- [k \in DOMAIN reports |-> reports[k].shown]

(* The program behaves as the protocol does,                               *)
LEMMA LawsApply == WholeSpec => Laws!Spec
<1>1. Protocol!Init => Laws!Init
  BY DEF Protocol!Init, Laws!Init
<1>2. [Protocol!Next]_(Protocol!vars) => [Laws!Next]_(Laws!vars)
  BY DEF Protocol!Next, Laws!Next, Protocol!vars, Laws!vars,
         Protocol!Load, Protocol!Add, Protocol!Store, Protocol!Report, Protocol!Wrap,
         Laws!Load, Laws!Add, Laws!Store, Laws!Report, Laws!Wrap
<1>3. QED
  BY <1>1, <1>2, ProgramImplementsProtocol, PTL
     DEF ImplementsProtocol, Protocol!Spec, Laws!Spec

(* ... so that no thread holds more than the stores so far and its own.    *)
LEMMA NeverAheadOfStores == WholeSpec => []Laws!NeverAhead
<1>1. Laws!HasWidth
  BY PowersAssumption DEF Laws!HasWidth
<1>2. Laws!Spec => []Laws!NeverAhead
  BY <1>1, Laws!NeverOvercountsByRaces
<1>3. QED
  BY <1>2, LawsApply, PTL

--------------------------------------------------------------------------------
(* Every store is one of a block that has begun.                           *)

(* The stores that activations are still to make in the blocks they have   *)
(* begun: store n of the block of activation k of thread u.                *)
HasToCome(M, fr, n) ==
  /\ fr.fn # "setupAtExit" /\ fr.ip > 1
  /\ n >= fr.ip /\ n \in StoreSites(Named(M, fr.fn).blocks[fr.bb])
Coming(M, w, k, n) == k \in DOMAIN w /\ HasToCome(M, w[k], n)
Tokens(M, st) ==
  {x \in Threads \X Nat \X Nat : Coming(M, st[x[1]], x[2], x[3])}
ToCome == Tokens(code, stack)

StoresBound ==
  /\ stores \in Nat /\ entered \in Nat
  /\ IsFiniteSet(ToCome)
  /\ proc = "off" => stores = 0 /\ entered = 0 /\ ToCome = {}
  /\ proc # "off" => stores + Cardinality(ToCome) <= Weight * entered

(* There are no more stores to come than before, one fewer if one is gone. *)
LEMMA TokensStay ==
  ASSUME NEW A, IsFiniteSet(A), NEW B, B \subseteq A
  PROVE  /\ IsFiniteSet(B) /\ Cardinality(A) \in Nat /\ Cardinality(B) \in Nat
         /\ Cardinality(B) <= Cardinality(A)
         /\ \A x \in A : x \notin B => Cardinality(B) + 1 <= Cardinality(A)
<1>1. /\ IsFiniteSet(B) /\ Cardinality(A) \in Nat /\ Cardinality(B) \in Nat
      /\ Cardinality(B) <= Cardinality(A) /\ (Cardinality(A) = Cardinality(B) => A = B)
  BY FS_Subset, FS_CardinalityType
<1>2. ASSUME NEW x \in A, x \notin B PROVE Cardinality(B) + 1 <= Cardinality(A)
  <2>1. A # B
    BY <1>2
  <2>2. QED
    BY <1>1, <2>1
<1>3. QED
  BY <1>1, <1>2

TokensOf(u, k, sites) == {<<u, k, n>> : n \in sites}

(* A block that begins brings its stores at most.                          *)
LEMMA TokensBegin ==
  ASSUME NEW A, IsFiniteSet(A), NEW sites, IsFiniteSet(sites),
         NEW u, NEW k, NEW new, new = TokensOf(u, k, sites),
         NEW B, B \subseteq A \cup new
  PROVE  /\ IsFiniteSet(B) /\ Cardinality(B) \in Nat
         /\ Cardinality(A) \in Nat /\ Cardinality(sites) \in Nat
         /\ Cardinality(B) <= Cardinality(A) + Cardinality(sites)
<1>2. PICK f : f = [n \in sites |-> <<u, k, n>>]
  OBVIOUS
<1>3. f \in Surjection(sites, new)
  <2>1. f \in [sites -> new]
    BY <1>2 DEF TokensOf
  <2>2. \A y \in new : \E n \in sites : f[n] = y
    BY <1>2 DEF TokensOf
  <2>3. QED
    BY <2>1, <2>2 DEF Surjection
<1>4. IsFiniteSet(new) /\ Cardinality(new) <= Cardinality(sites)
  BY <1>3, FS_Surjection
<1>5. /\ IsFiniteSet(A \cup new)
      /\ Cardinality(A \cup new) = Cardinality(A) + Cardinality(new) - Cardinality(A \cap new)
  BY <1>4, FS_Union
<1>6. /\ Cardinality(A) \in Nat /\ Cardinality(new) \in Nat /\ Cardinality(sites) \in Nat
      /\ Cardinality(A \cap new) \in Nat
  <2>1. IsFiniteSet(A \cap new)
    BY FS_Subset
  <2>2. QED
    BY <1>4, <2>1, FS_CardinalityType
<1>7. Cardinality(B) <= Cardinality(A \cup new) /\ IsFiniteSet(B) /\ Cardinality(B) \in Nat
  BY <1>5, TokensStay
<1>8. QED
  BY <1>4, <1>5, <1>6, <1>7

(* What a step leaves of a stack: activations that stay as they are, and   *)
(* others that have not begun their block.                                 *)
Kept(w, s) ==
  \A k \in DOMAIN w : w[k].ip = 1 \/ (k \in DOMAIN s /\ w[k] = s[k])
Moved(w, s, fr) ==
  \A k \in DOMAIN w : \/ w[k].ip = 1
                      \/ k \in DOMAIN s /\ k # Len(s) /\ w[k] = s[k]
                      \/ k = Len(s) /\ w[k] = fr

(* Stores come of activations in blocks they have begun.                   *)
LEMMA NothingNew ==
  ASSUME NEW M, NEW w, NEW s, Kept(w, s), NEW k, NEW n, Coming(M, w, k, n)
  PROVE  Coming(M, s, k, n)
BY DEF Kept, Coming, HasToCome

(* What comes after a step came before it or is new.                       *)
LEMMA TokensKept ==
  ASSUME NEW M, NEW st, NEW st2, NEW new,
         \A u \in Threads, k \in Nat, n \in Nat :
           Coming(M, st2[u], k, n) => Coming(M, st[u], k, n) \/ <<u, k, n>> \in new
  PROVE  Tokens(M, st2) \subseteq Tokens(M, st) \cup new
<1>1. SUFFICES ASSUME NEW x \in Tokens(M, st2) PROVE x \in Tokens(M, st) \cup new
  OBVIOUS
<1>2. PICK u \in Threads, k \in Nat, n \in Nat : x = <<u, k, n>>
  BY DEF Tokens
<1>3. Coming(M, st2[u], k, n)
  BY <1>1, <1>2 DEF Tokens
<1>4. Coming(M, st[u], k, n) \/ x \in new
  BY <1>2, <1>3
<1>5. QED
  BY <1>2, <1>4 DEF Tokens

(* The shape of a step of thread t at an instruction op.                   *)
ThreadMove(t, op) ==
  /\ At(t, op) /\ code' = code
  /\ \A u \in Threads \ {t} : Kept(stack'[u], stack[u])
  /\ IF op \in {"br", "ret", "exit"} THEN Kept(stack'[t], stack[t])
     ELSE \E fr : Advanced(fr, TopOf(t)) /\ Moved(stack'[t], stack[t], fr)
  /\ stores' = stores + (IF op = "store" THEN 1 ELSE 0)

(* A step of the top of a stack,                                           *)
LEMMA ReplacedMoves ==
  ASSUME NEW S, NEW s \in Seq(S), s # <<>>, NEW fr, NEW w, w = Append(Front(s), fr)
  PROVE  Moved(w, s, fr) /\ (fr.ip = 1 => Kept(w, s))
<1>1. PICK n : n = Len(s)
  OBVIOUS
<1>2. Replaced(w, s, fr)
  BY TopReplaced
<1>3. n \in Nat \ {0} /\ DOMAIN s = 1..n
  BY <1>1, Ends
<1>4. DOMAIN w = 1..n /\ \A k \in 1..n : w[k] = IF k < n THEN s[k] ELSE fr
  BY <1>1, <1>2 DEF Replaced
<1>5. \A k \in 1..n : (k # n /\ w[k] = s[k]) \/ (k = n /\ w[k] = fr)
  BY <1>3, <1>4
<1>6. QED
  BY <1>1, <1>3, <1>4, <1>5 DEF Moved, Kept

(* ... and one that calls.                                                 *)
LEMMA PushedMoves ==
  ASSUME NEW S, NEW s \in Seq(S), s # <<>>, NEW fr, NEW w, w = Append(Front(s), fr),
         NEW g, g.ip = 1
  PROVE  Moved(w \o <<g>>, s, fr)
<1>1. PICK v, n : v = w \o <<g>> /\ n = Len(s)
  OBVIOUS
<1>2. w \in Seq(S \cup {fr}) /\ Replaced(w, s, fr) /\ n \in Nat \ {0} /\ DOMAIN s = 1..n
  BY <1>1, TopReplaced, Ends
<1>3. PICK T : T = (S \cup {fr}) \cup {g}
  OBVIOUS
<1>4. w \in Seq(T) /\ <<g>> \in Seq(T) /\ Len(w) = n
  BY <1>1, <1>2, <1>3, SeqMonotonic DEF Replaced
<1>5. Joined(v, w, <<g>>, T)
  BY <1>1, <1>4, Concatenation
<1>6. /\ v \in Seq(T) /\ Len(v) = n + 1
      /\ \A k \in 1..n + 1 : v[k] = IF k <= n THEN w[k] ELSE <<g>>[k - n]
  BY <1>4, <1>5 DEF Joined
<1>7. DOMAIN v = 1..n + 1
  BY <1>6, LenProperties
<1>8. ASSUME NEW k \in 1..n + 1
      PROVE  \/ v[k].ip = 1 \/ (k \in DOMAIN s /\ k # n /\ v[k] = s[k])
             \/ k = n /\ v[k] = fr
  <2>1. CASE k <= n
    <3>a. n \in Nat \ {0}
      BY <1>2
    <3>b. k \in 1..n
      BY <2>1, <3>a
    <3>c. v[k] = IF k <= n THEN w[k] ELSE <<g>>[k - n]
      BY <1>6
    <3>1. k \in 1..n /\ v[k] = w[k]
      BY <2>1, <3>b, <3>c
    <3>2. w[k] = IF k < n THEN s[k] ELSE fr
      BY <1>1, <1>2, <3>1 DEF Replaced
    <3>3. QED
      BY <1>2, <3>1, <3>2
  <2>2. CASE k = n + 1
    <3>1. k - n = 1 /\ ~ (k <= n)
      BY <1>2, <2>2
    <3>2. v[k] = g
      BY <1>6, <3>1
    <3>3. QED
      BY <3>2
  <2>3. QED
    BY <1>2, <2>1, <2>2
<1>9. QED
  BY <1>1, <1>7, <1>8 DEF Moved

(* Every step of a thread has this shape: its activation advances or       *)
(* leaves its block, the others stay or are new, and only a store stores.  *)
LEMMA StepMoves ==
  ASSUME IInv, RunInv, UNCHANGED vars, NEW t \in Threads, ThreadStep(t), stores \in Nat
  PROVE  \E op : ThreadMove(t, op)
<1>1. PICK S : stack \in [Threads -> Seq(S)]
  BY DEF RunInv, Running, StackIs
<1>2. PICK s : s = stack[t] /\ s \in Seq(S)
  BY <1>1
<1>3. \A w : stack' = [stack EXCEPT ![t] = w] =>
        /\ stack'[t] = w
        /\ \A u \in Threads \ {t} : Kept(stack'[u], stack[u])
  BY <1>1 DEF Kept
<1>4. stores + 0 = stores
  OBVIOUS
<1>5. ASSUME NEW op \in {"work", "join", "atexit", "load", "add", "store", "printf"},
             At(t, op), code' = code, \E fr : Advanced(fr, TopOf(t)) /\ GoTo(t, fr),
             stores' = stores + (IF op = "store" THEN 1 ELSE 0)
      PROVE  ThreadMove(t, op)
  <2>1. PICK fr, w : /\ Advanced(fr, TopOf(t)) /\ w = Append(Front(s), fr)
                     /\ stack' = [stack EXCEPT ![t] = w]
    BY <1>2, <1>5 DEF GoTo
  <2>2. s # <<>>
    BY <1>2, <1>5, AtFacts
  <2>3. Moved(stack'[t], stack[t], fr)
    BY <1>2, <1>3, <2>1, <2>2, ReplacedMoves
  <2>4. QED
    BY <1>3, <1>5, <2>1, <2>3 DEF ThreadMove
<1>6. CASE Work(t) \/ Join(t) \/ AtExit(t) \/ Printf(t)
  <2>1. PICK op \in {"work", "join", "atexit", "printf"} : At(t, op)
    BY <1>6 DEF Work, Join, AtExit, Printf
  <2>2. code' = code /\ stores' = stores /\ Step(t)
    BY <1>6 DEF Work, Join, AtExit, Printf
  <2>3. \E fr : Advanced(fr, TopOf(t)) /\ GoTo(t, fr)
    BY <2>1, <2>2, StepAdvances
  <2>4. QED
    BY <1>4, <1>5, <2>1, <2>2, <2>3
<1>7. CASE Store(t)
  <2>1. At(t, "store") /\ code' = code /\ stores' = stores + 1 /\ Step(t)
    BY <1>7 DEF Store
  <2>2. \E fr : Advanced(fr, TopOf(t)) /\ GoTo(t, fr)
    BY <2>1, StepAdvances
  <2>3. QED
    BY <1>5, <2>1, <2>2
<1>8. CASE Load(t) \/ Add(t)
  <2>1. PICK op \in {"load", "add"} : At(t, op)
    BY <1>8 DEF Load, Add
  <2>2. code' = code /\ stores' = stores /\ \E v : StepWith(t, v)
    BY <1>8 DEF Load, Add
  <2>3. \E fr : Advanced(fr, TopOf(t)) /\ GoTo(t, fr)
    BY <2>1, <2>2, StepWithAdvances
  <2>4. QED
    BY <1>4, <1>5, <2>1, <2>2, <2>3
<1>9. CASE CallFn(t) \/ Spawn(t)
  <2>1. PICK op \in {"call", "spawn"} : At(t, op)
    BY <1>9 DEF CallFn, Spawn
  <2>2. PICK fr, g, w : /\ fr = [TopOf(t) EXCEPT !.ip = @ + 1]
                        /\ g = Frame(Code(t).sym) /\ w = Append(Front(s), fr)
    OBVIOUS
  <2>3. Advanced(fr, TopOf(t)) /\ g.ip = 1 /\ s # <<>>
    <3>1. s # <<>> /\ TopOf(t) \in [fn : {TopOf(t).fn}, bb : Nat \ {0}, ip : Nat \ {0},
                                   reg : {TopOf(t).reg}]
      BY <1>2, <2>1, AtFacts DEF FrameOK
    <3>2. QED
      BY <2>2, <3>1 DEF Advanced, Frame
  <2>4. code' = code /\ stores' = stores
    BY <1>9 DEF CallFn, Spawn
  <2>5. CASE CallFn(t)
    <3>1. PICK v : v = w \o <<g>>
      OBVIOUS
    <3>2. stack' = [stack EXCEPT ![t] = v]
      BY <1>2, <2>2, <2>5, <3>1 DEF CallFn
    <3>3. Moved(stack'[t], stack[t], fr)
      <4>1. Moved(v, s, fr)
        BY <1>2, <2>2, <2>3, <3>1, PushedMoves
      <4>2. QED
        BY <1>2, <1>3, <3>2, <4>1
    <3>4. QED
      BY <1>3, <1>4, <2>1, <2>3, <2>4, <3>2, <3>3 DEF ThreadMove
  <2>6. CASE Spawn(t)
    <3>1. PICK u \in Threads \ {MainThread} :
            stack[u] = <<>> /\ stack' = [stack EXCEPT ![t] = w, ![u] = <<g>>]
      BY <1>2, <2>2, <2>6 DEF Spawn, Ended
    <3>2. u # t
      BY <1>2, <2>3, <3>1
    <3>3. /\ stack'[t] = w /\ stack'[u] = <<g>>
          /\ \A x \in Threads \ {t, u} : stack'[x] = stack[x]
      BY <1>1, <3>1, <3>2
    <3>4. Moved(stack'[t], stack[t], fr)
      BY <1>2, <2>2, <2>3, <3>3, ReplacedMoves
    <3>5. DOMAIN <<g>> = {1} /\ <<g>>[1] = g
      OBVIOUS
    <3>6. \A x \in Threads \ {t} : Kept(stack'[x], stack[x])
      <4>1. Kept(<<g>>, stack[u])
        BY <2>3, <3>5 DEF Kept
      <4>2. \A x \in Threads \ {t, u} : Kept(stack'[x], stack[x])
        BY <3>3 DEF Kept
      <4>3. QED
        BY <3>3, <4>1, <4>2
    <3>7. QED
      BY <1>4, <2>1, <2>3, <2>4, <3>4, <3>6 DEF ThreadMove
  <2>7. QED
    BY <1>9, <2>5, <2>6
<1>10. CASE Branch(t)
  <2>1. At(t, "br") /\ code' = code /\ stores' = stores
    BY <1>10 DEF Branch
  <2>2. PICK b : GoTo(t, [fn |-> TopOf(t).fn, bb |-> b, ip |-> 1, reg |-> 0])
    BY <1>10 DEF Branch
  <2>3. PICK fr, w : /\ fr = [fn |-> TopOf(t).fn, bb |-> b, ip |-> 1, reg |-> 0]
                     /\ w = Append(Front(s), fr)
    OBVIOUS
  <2>4. s # <<>> /\ fr.ip = 1 /\ stack' = [stack EXCEPT ![t] = w]
    BY <1>2, <2>1, <2>2, <2>3, AtFacts DEF GoTo
  <2>5. Kept(stack'[t], stack[t])
    BY <1>2, <1>3, <2>3, <2>4, ReplacedMoves
  <2>6. ThreadMove(t, "br")
    BY <1>3, <1>4, <2>1, <2>4, <2>5 DEF ThreadMove
  <2>7. QED
    BY <2>6
<1>11. CASE Return(t)
  <2>1. At(t, "ret") /\ code' = code /\ stores' = stores
    BY <1>11 DEF Return
  <2>2. PICK w, L : w = Front(s) /\ L = Len(s)
    OBVIOUS
  <2>3. s # <<>> /\ stack' = [stack EXCEPT ![t] = w]
    BY <1>2, <1>11, <2>1, <2>2, AtFacts DEF Return
  <2>4. /\ w \in Seq(S) /\ Len(w) = L - 1 /\ (\A k \in 1..L - 1 : w[k] = s[k])
        /\ L \in Nat \ {0} /\ DOMAIN s = 1..L
    BY <1>2, <2>2, <2>3, TopPopped, Ends
  <2>5. DOMAIN w = 1..L - 1 /\ \A k \in 1..L - 1 : k \in 1..L
    BY <2>4, LenProperties
  <2>6. Kept(stack'[t], stack[t])
    BY <1>2, <1>3, <2>3, <2>4, <2>5 DEF Kept
  <2>7. ThreadMove(t, "ret")
    BY <1>3, <1>4, <2>1, <2>3, <2>6 DEF ThreadMove
  <2>8. QED
    BY <2>7
<1>12. CASE Exit(t)
  <2>1. At(t, "exit") /\ code' = code /\ stores' = stores
    BY <1>12 DEF Exit
  <2>2. PICK w : w = <<>>
    OBVIOUS
  <2>3. stack' = [stack EXCEPT ![t] = w] /\ DOMAIN w = {}
    BY <1>12, <2>2 DEF Exit
  <2>4. Kept(stack'[t], stack[t])
    BY <1>3, <2>3 DEF Kept
  <2>5. ThreadMove(t, "exit")
    BY <1>3, <1>4, <2>1, <2>3, <2>4 DEF ThreadMove
  <2>6. QED
    BY <2>5
<1>13. QED
  BY <1>6, <1>7, <1>8, <1>9, <1>10, <1>11, <1>12 DEF ThreadStep

(* What Weight times one block more is.                                    *)
LEMMA OneMoreBlock ==
  ASSUME NEW W \in Nat, NEW e \in Nat
  PROVE  W * e \in Nat /\ W * (e + 1) = W * e + W /\ W * 0 = 0
OBVIOUS

(* What a step does to the stores to come: a store is one of them, and     *)
(* those of a block come with its beginning.                               *)
LEMMA TokensMove ==
  ASSUME IInv, RunInv, UNCHANGED vars, NEW t \in Threads, NEW op, ThreadMove(t, op),
         IsFiniteSet(ToCome), entered \in Nat
  PROVE  /\ IsFiniteSet(ToCome')
         /\ Cardinality(ToCome) \in Nat /\ Cardinality(ToCome') \in Nat
         /\ IF op = "store"
            THEN entered' = entered /\ Cardinality(ToCome') + 1 <= Cardinality(ToCome)
            ELSE \/ entered' = entered + 1
                    /\ Cardinality(ToCome') <= Cardinality(ToCome) + Weight
                 \/ entered' \in {entered, entered + 1}
                    /\ Cardinality(ToCome') <= Cardinality(ToCome)
<1>1. At(t, op) /\ code' = code /\ \A u \in Threads \ {t} : Kept(stack'[u], stack[u])
  BY DEF ThreadMove
<1>2. PICK M, st, st2, A, B : /\ M = code /\ st = stack /\ st2 = stack'
                              /\ A = Tokens(M, st) /\ B = Tokens(M, st2)
  OBVIOUS
<1>3. A = ToCome /\ B = ToCome' /\ IsFiniteSet(A)
  BY <1>1, <1>2 DEF ToCome
<1>4. \A u \in Threads \ {t} : \A k, n : Coming(M, st2[u], k, n) => Coming(M, st[u], k, n)
  BY <1>1, <1>2, NothingNew
<1>5. PICK top, L : top = TopOf(t) /\ L = Len(st[t])
  OBVIOUS
<1>6. /\ L \in DOMAIN st[t] /\ L \in Nat /\ st[t][L] = top
      /\ top.ip \in Nat \ {0} /\ Weight \in Nat
  <2>1. PICK S : stack[t] \in Seq(S) /\ stack[t] # <<>>
    BY <1>1, AtFacts
  <2>2. top.ip \in Nat \ {0} /\ Weight \in Nat
    BY <1>1, <1>5, AtFacts DEF FrameOK
  <2>3. QED
    BY <1>2, <1>5, <2>1, <2>2, Ends DEF TopOf
<1>7. entered' = entered + (IF top.ip = 1 /\ top.fn # "setupAtExit" THEN 1 ELSE 0)
  BY <1>1, <1>5 DEF At, Counted
<1>8. CASE op \in {"br", "ret", "exit"}
  <2>1. Kept(st2[t], st[t])
    BY <1>2, <1>8 DEF ThreadMove
  <2>2. \A u \in Threads, k \in Nat, n \in Nat :
          Coming(M, st2[u], k, n) => Coming(M, st[u], k, n) \/ <<u, k, n>> \in {}
    BY <1>4, <2>1, NothingNew
  <2>3. B \subseteq A \cup {}
    BY <1>2, <2>2, TokensKept
  <2>4. /\ IsFiniteSet(B) /\ Cardinality(A) \in Nat /\ Cardinality(B) \in Nat
        /\ Cardinality(B) <= Cardinality(A)
    BY <1>3, <2>3, TokensStay
  <2>5. entered' = entered + 0 \/ entered' = entered + 1
    BY <1>7
  <2>6. QED
    BY <1>3, <1>8, <2>4, <2>5
<1>9. CASE op \notin {"br", "ret", "exit"}
  <2>1. PICK fr : Advanced(fr, top) /\ Moved(st2[t], st[t], fr)
    BY <1>2, <1>5, <1>9 DEF ThreadMove
  <2>2. fr.fn = top.fn /\ fr.bb = top.bb /\ fr.ip = top.ip + 1
    BY <2>1 DEF Advanced
  <2>3. \A k, n : Coming(M, st2[t], k, n) =>
          \/ k # L /\ Coming(M, st[t], k, n)
          \/ k = L /\ HasToCome(M, fr, n)
    BY <1>5, <2>1 DEF Moved, Coming, HasToCome
  <2>4. PICK sites : sites = StoreSites(Named(M, top.fn).blocks[top.bb])
    OBVIOUS
  <2>5. \A n : HasToCome(M, fr, n) <=>
                 top.fn # "setupAtExit" /\ n >= top.ip + 1 /\ n \in sites
    BY <1>6, <2>2, <2>4 DEF HasToCome
  <2>6. sites \subseteq Nat
    <3>1. DOMAIN Named(M, top.fn).blocks[top.bb] = 1..Len(Named(M, top.fn).blocks[top.bb])
      BY <1>1, <1>2, <1>5, AtFacts DEF BlockOK, BlockOf
    <3>2. QED
      BY <2>4, <3>1 DEF StoreSites
  <2>7. CASE top.ip = 1 /\ top.fn # "setupAtExit"
    <3>1. op # "store"
      BY <1>1, <1>5, <2>7, AtCounter
    <3>2. IsFiniteSet(sites) /\ Cardinality(sites) = Weight
      BY <1>1, <1>2, <1>5, <2>4, <2>7, AtFacts DEF CountsOK, BlockOf
    <3>3. PICK new : new = TokensOf(t, L, sites)
      OBVIOUS
    <3>4. \A u \in Threads, k \in Nat, n \in Nat :
            Coming(M, st2[u], k, n) => Coming(M, st[u], k, n) \/ <<u, k, n>> \in new
      BY <1>4, <2>3, <2>5, <3>3 DEF TokensOf
    <3>5. B \subseteq A \cup new
      BY <1>2, <3>3, <3>4, TokensKept
    <3>6. /\ IsFiniteSet(B) /\ Cardinality(B) \in Nat /\ Cardinality(A) \in Nat
          /\ Cardinality(B) <= Cardinality(A) + Cardinality(sites)
      BY <1>3, <3>2, <3>3, <3>5, TokensBegin
    <3>7. entered' = entered + 1
      BY <1>7, <2>7
    <3>8. QED
      BY <1>3, <3>1, <3>2, <3>6, <3>7
  <2>8. CASE ~ (top.ip = 1 /\ top.fn # "setupAtExit")
    <3>1. \A n \in Nat : HasToCome(M, fr, n) => HasToCome(M, top, n)
      BY <1>6, <2>4, <2>5, <2>6, <2>8 DEF HasToCome
    <3>2. \A n \in Nat : HasToCome(M, fr, n) => Coming(M, st[t], L, n)
      BY <1>6, <3>1 DEF Coming
    <3>3. \A u \in Threads, k \in Nat, n \in Nat :
            Coming(M, st2[u], k, n) => Coming(M, st[u], k, n) \/ <<u, k, n>> \in {}
      BY <1>4, <2>3, <3>2
    <3>4. B \subseteq A \cup {}
      BY <1>2, <3>3, TokensKept
    <3>5. /\ IsFiniteSet(B) /\ Cardinality(A) \in Nat /\ Cardinality(B) \in Nat
          /\ Cardinality(B) <= Cardinality(A)
          /\ \A x \in A : x \notin B => Cardinality(B) + 1 <= Cardinality(A)
      BY <1>3, <3>4, TokensStay
    <3>6. entered' = entered + 0
      BY <1>7, <2>8
    <3>7. CASE op = "store"
      <4>1. top.ip > 1 /\ top.fn # "setupAtExit"
        BY <1>1, <1>5, <3>7, AtCounter, HandlerCalls
      <4>2. top.ip \in sites
        BY <1>1, <1>2, <1>5, <2>4, <3>7, AtFacts DEF StoreSites, BlockOf, Code
      <4>3. HasToCome(M, top, top.ip)
        BY <1>6, <2>4, <4>1, <4>2 DEF HasToCome
      <4>4. PICK x : x = <<t, L, top.ip>>
        OBVIOUS
      <4>5. x \in A
        BY <1>2, <1>6, <4>3, <4>4 DEF Tokens, Coming
      <4>6. ~ HasToCome(M, fr, top.ip)
        BY <1>6, <2>5
      <4>7. ~ Coming(M, st2[t], L, top.ip)
        BY <2>3, <4>6
      <4>8. x \notin B
        BY <1>2, <4>4, <4>7 DEF Tokens
      <4>9. entered' = entered
        BY <1>7, <4>1
      <4>10. QED
        BY <1>3, <3>5, <3>7, <4>5, <4>8, <4>9
    <3>8. CASE op # "store"
      <4>1. QED
        BY <1>3, <3>5, <3>6, <3>8
    <3>9. QED
      BY <3>7, <3>8
  <2>9. QED
    BY <2>7, <2>8
<1>10. QED
  BY <1>8, <1>9

(* An instruction keeps the bound on stores made and to come.              *)
LEMMA BoundByThreads ==
  ASSUME IInv, RunInv, StoresBound, UNCHANGED vars, NEW t \in Threads, ThreadStep(t)
  PROVE  StoresBound'
<1>1. PICK op : ThreadMove(t, op)
  BY StepMoves DEF StoresBound
<1>2. PICK c, c2 : c = Cardinality(ToCome) /\ c2 = Cardinality(ToCome')
  OBVIOUS
<1>3. /\ IsFiniteSet(ToCome') /\ c \in Nat /\ c2 \in Nat
      /\ IF op = "store" THEN entered' = entered /\ c2 + 1 <= c
         ELSE \/ entered' = entered + 1 /\ c2 <= c + Weight
              \/ entered' \in {entered, entered + 1} /\ c2 <= c
  BY <1>1, <1>2, TokensMove DEF StoresBound
<1>4. At(t, op) /\ stores' = stores + (IF op = "store" THEN 1 ELSE 0)
  BY <1>1 DEF ThreadMove
<1>5. proc # "off" /\ Weight \in Nat /\ Weight' = Weight
  BY <1>4, AtFacts, OptRests DEF At
<1>6. stores \in Nat /\ entered \in Nat /\ stores + c <= Weight * entered
  BY <1>2, <1>5 DEF StoresBound
<1>7. PICK m : m = Weight * entered /\ m \in Nat /\ Weight * (entered + 1) = m + Weight
  BY <1>5, <1>6, OneMoreBlock
<1>8. /\ stores' \in Nat /\ entered' \in Nat /\ proc' # "off"
      /\ \/ entered' = entered /\ stores' + c2 <= m
         \/ entered' = entered + 1 /\ stores' + c2 <= m + Weight
  <2>1. stores' \in Nat /\ entered' \in Nat
    BY <1>3, <1>4, <1>6
  <2>2. proc' # "off"
    BY <1>5 DEF ThreadStep, Work, CallFn, Spawn, Join, AtExit, Load, Add, Store, Printf,
                Branch, Return, Exit
  <2>3. CASE op = "store"
    <3>1. entered' = entered /\ c2 + 1 <= c /\ stores' = stores + 1
      BY <1>3, <1>4, <2>3
    <3>2. QED
      BY <1>3, <1>6, <1>7, <2>1, <2>2, <3>1
  <2>4. CASE op # "store"
    <3>1. stores' = stores
      BY <1>4, <1>6, <2>4
    <3>2. \/ entered' = entered + 1 /\ c2 <= c + Weight
          \/ entered' \in {entered, entered + 1} /\ c2 <= c
      BY <1>3, <2>4
    <3>3. QED
      BY <1>3, <1>5, <1>6, <1>7, <2>1, <2>2, <3>1, <3>2
  <2>5. QED
    BY <2>3, <2>4
<1>9. stores' + c2 <= Weight * entered'
  BY <1>7, <1>8
<1>10. QED
  BY <1>2, <1>3, <1>5, <1>8, <1>9 DEF StoresBound

(* Nothing comes of activations that have not begun their block.           *)
LEMMA BoundByStart ==
  ASSUME IInv, RunInv, StoresBound, UNCHANGED vars, Finished, Start(ir)
  PROVE  StoresBound'
<1>1. PICK w : w = <<Frame("main")>>
                   \o [k \in 1..Len(ir.ctors) |-> Frame(Reverse(ir.ctors)[k])]
  OBVIOUS
<1>2. /\ proc = "off" /\ proc' = "running"
      /\ stack' = [stack EXCEPT ![MainThread] = w]
      /\ UNCHANGED <<entered, stores>>
  BY <1>1 DEF Start
<1>3. \A u \in Threads : \A k \in DOMAIN stack'[u] : stack'[u][k].ip = 1
  <2>1. /\ \E S : stack \in [Threads -> Seq(S)]
        /\ \A u \in Threads : stack[u] = <<>>
    BY <1>2 DEF RunInv, Running, StackIs
  <2>2. \A u \in Threads : stack'[u] = w \/ stack'[u] = <<>>
    BY <1>2, <2>1
  <2>3. \A k \in DOMAIN w : w[k].ip = 1
    <3>1. \A k \in DOMAIN w : \E name : w[k] = Frame(name)
      BY <1>1, StartStack
    <3>2. QED
      BY <3>1 DEF Frame
  <2>4. QED
    BY <2>2, <2>3
<1>4. ToCome' = {}
  BY <1>3 DEF ToCome, Tokens, Coming, HasToCome
<1>5. Weight \in Nat /\ Weight' = Weight /\ stores = 0 /\ entered = 0
  BY <1>2, WeightIs, OptRests DEF StoresBound
<1>6. Weight * 0 = 0
  BY <1>5, OneMoreBlock
<1>7. IsFiniteSet({}) /\ Cardinality({}) = 0
  BY FS_EmptySet
<1>8. stores' = 0 /\ entered' = 0 /\ Weight' * entered' = 0
  BY <1>2, <1>5, <1>6
<1>9. QED
  BY <1>2, <1>4, <1>7, <1>8 DEF StoresBound

(* Neither a handler that starts nor the end of the process adds a store   *)
(* to come.                                                                *)
LEMMA BoundByExit ==
  ASSUME IInv, RunInv, StoresBound, UNCHANGED vars, ExitStep
  PROVE  StoresBound'
<1>1. /\ proc \in {"exiting"} /\ proc' \in {"exiting", "dead"}
      /\ UNCHANGED <<code, entered, stores>>
  BY DEF ExitStep, RunHandler, Die
<1>2. PICK M, st, st2 : M = code /\ st = stack /\ st2 = stack'
  OBVIOUS
<1>3. \A u \in Threads : Kept(st2[u], st[u])
  <2>1. CASE RunHandler
    <3>1. PICK g, w : g = Frame(Last(handlers)) /\ w = <<g>>
      OBVIOUS
    <3>2. g.ip = 1 /\ DOMAIN w = {1} /\ w[1] = g
      BY <3>1 DEF Frame
    <3>3. /\ \E S : stack \in [Threads -> Seq(S)]
          /\ stack' = [stack EXCEPT ![exiter] = w]
      BY <2>1, <3>1 DEF RunHandler, RunInv, Running, StackIs
    <3>4. QED
      BY <1>2, <3>2, <3>3 DEF Kept
  <2>2. CASE Die
    BY <1>2, <2>2 DEF Die, Kept
  <2>3. QED
    BY <2>1, <2>2 DEF ExitStep
<1>4. \A u \in Threads, k \in Nat, n \in Nat :
        Coming(M, st2[u], k, n) => Coming(M, st[u], k, n) \/ <<u, k, n>> \in {}
  BY <1>3, NothingNew
<1>5. PICK A, B : A = Tokens(M, st) /\ B = Tokens(M, st2)
  OBVIOUS
<1>6. A = ToCome /\ B = ToCome' /\ IsFiniteSet(A)
  BY <1>1, <1>2, <1>5 DEF ToCome, StoresBound
<1>7. B \subseteq A \cup {}
  BY <1>4, <1>5, TokensKept
<1>8. /\ IsFiniteSet(B) /\ Cardinality(A) \in Nat /\ Cardinality(B) \in Nat
      /\ Cardinality(B) <= Cardinality(A)
  BY <1>6, <1>7, TokensStay
<1>9. Finished /\ Weight \in Nat /\ Weight' = Weight
  BY <1>1, WeightIs, OptRests DEF RunInv, Running
<1>10. PICK m : m = Weight * entered /\ m \in Nat
  BY <1>9, OneMoreBlock DEF StoresBound
<1>11. stores \in Nat /\ entered \in Nat /\ stores + Cardinality(A) <= m
  BY <1>1, <1>6, <1>10 DEF StoresBound
<1>12. Weight' * entered' = m
  BY <1>1, <1>9, <1>10
<1>13. stores' + Cardinality(B) <= Weight' * entered'
  BY <1>1, <1>8, <1>10, <1>11, <1>12
<1>14. QED
  BY <1>1, <1>6, <1>8, <1>11, <1>13 DEF StoresBound

(* Passes can be counted.                                                  *)
LEMMA WeightIsNat ==
  ASSUME IInv
  PROVE  Weight \in Nat
<1>1. passes \in Seq({"posix-main", "count-bb"})
  BY PipelinesAssumption DEF IInv, AtPass
<1>2. PICK n : n = Len(passes) /\ n \in Nat /\ DOMAIN passes = 1..n
  BY <1>1, LenProperties
<1>3. PICK P : P = {k \in DOMAIN passes : passes[k] = "count-bb"}
  OBVIOUS
<1>4. IsFiniteSet(P)
  <2>1. PICK D : D = 1..n /\ IsFiniteSet(D)
    BY <1>2, FS_Interval
  <2>2. P \subseteq D
    BY <1>2, <1>3, <2>1
  <2>3. QED
    BY <2>1, <2>2, FS_Subset
<1>5. QED
  BY <1>3, <1>4, FS_CardinalityType DEF Weight

(* Nothing is stored before the start.                                     *)
LEMMA BoundInit ==
  ASSUME RunInit
  PROVE  StoresBound
<1>1. stores = 0 /\ entered = 0 /\ proc = "off" /\ \A u \in Threads : stack[u] = <<>>
  BY DEF RunInit
<1>2. ToCome = {}
  BY <1>1 DEF ToCome, Tokens, Coming
<1>3. IsFiniteSet({})
  BY FS_EmptySet
<1>4. QED
  BY <1>1, <1>2, <1>3 DEF StoresBound

(* opt compiles while there is no process.                                 *)
LEMMA BoundByCompile ==
  ASSUME StoresBound, proc = "off", UNCHANGED runVars
  PROVE  StoresBound'
<1>1. ToCome' = ToCome
  BY DEF ToCome, Tokens, Coming, HasToCome, runVars
<1>2. QED
  BY <1>1 DEF StoresBound, runVars

(* What depends on nothing that changes stays.                             *)
LEMMA BoundByRest ==
  ASSUME StoresBound, UNCHANGED allVars
  PROVE  StoresBound'
<1>1. ToCome' = ToCome /\ Weight' = Weight
  BY OptRests DEF ToCome, Tokens, Coming, HasToCome, allVars, runVars
<1>2. QED
  BY <1>1 DEF StoresBound, allVars, runVars

(* Every step of the whole keeps the bound.                                *)
LEMMA BoundStep ==
  ASSUME IInv, RunInv, StoresBound, [WholeNext]_allVars
  PROVE  StoresBound'
<1>1. CASE Compile
  BY <1>1, CompilesFirst, BoundByCompile DEF Compile
<1>2. CASE Execute
  <2>1. UNCHANGED vars /\ Finished
    BY <1>2 DEF Execute
  <2>2. CASE Start(ir)
    BY <2>1, <2>2, BoundByStart
  <2>3. CASE ExitStep
    BY <2>1, <2>3, BoundByExit
  <2>4. CASE \E t \in Threads : ThreadStep(t)
    BY <2>1, <2>4, BoundByThreads
  <2>5. QED
    BY <1>2, <2>2, <2>3, <2>4 DEF Execute
<1>3. CASE Over \/ UNCHANGED allVars
  BY <1>3, BoundByRest DEF Over
<1>4. QED
  BY <1>1, <1>2, <1>3 DEF WholeNext

(* Stores made and stores that blocks begun have still to make are no more *)
(* than Weight for each block begun.                                       *)
LEMMA StoresAreBound == WholeSpec => []StoresBound
<1>1. WholeInit => StoresBound
  BY BoundInit DEF WholeInit
<1>2. IInv /\ RunInv /\ StoresBound /\ [WholeNext]_allVars => StoresBound'
  BY BoundStep
<1>3. QED
  BY <1>1, <1>2, Whole, PipelineInvariant, RunInvariant, PTL DEF WholeSpec

--------------------------------------------------------------------------------
(* What is reported is no more than what was stored when it was loaded.    *)
LEMMA ShownIsNoMore ==
  ASSUME NEW v \in Nat
  PROVE  Shown(v) <= v
<1>1. PICK m : m = 2^PrintBits /\ m \in Nat /\ m > 0
  BY PowersAssumption
<1>2. PICK low : low = v % m
  OBVIOUS
<1>3. PICK q : q \in Nat /\ low \in 0..m - 1 /\ v = m * q + low
  <2>1. v \div m \in Nat /\ v % m \in 0..m - 1 /\ v = m * (v \div m) + (v % m)
    BY <1>1
  <2>2. QED
    BY <1>2, <2>1
<1>4. m * q >= 0
  BY <1>1, <1>3
<1>5. low <= v /\ low - m <= v
  BY <1>1, <1>3, <1>4
<1>6. Shown(v) = IF 2 * low >= m THEN low - m ELSE low
  BY <1>1, <1>2 DEF Shown
<1>7. QED
  BY <1>5, <1>6

ReportsBound ==
  \A k \in DOMAIN reports : reports[k].shown <= Weight * reports[k].entered

(* A report shows no more than the stores there were when it was loaded.   *)
LEMMA PrintfInBounds ==
  ASSUME IInv, RunInv, StoresBound, Laws!NeverAhead, ReportsBound,
         UNCHANGED vars, NEW t \in Threads, Printf(t)
  PROVE  ReportsBound'
<1>1. PICK v : v = TopOf(t).reg
  OBVIOUS
<1>2. PICK r : r = [shown |-> Shown(v), entered |-> entered, completed |-> completed]
  OBVIOUS
<1>3. At(t, "printf") /\ reports' = Append(reports, r)
  BY <1>1, <1>2 DEF Printf
<1>4. v \in Nat
  <2>1. v \in CounterWords
    BY <1>1, <1>3, AtCounter
  <2>2. QED
    BY <2>1, PowersAssumption DEF CounterWords
<1>5. v <= stores
  <2>1. Doing(code, stack[t]) = "loaded" /\ Value(code, stack[t]) = v
    BY <1>1, <1>3, StoppedAt
  <2>2. UnderWay(t) = "loaded"
    BY <2>1, Mapping DEF MappedAsStated, MappedAt
  <2>3. QED
    BY <1>1, <2>2 DEF Laws!NeverAhead
<1>6. PICK m : m = Weight * entered /\ m \in Nat
  <2>1. Weight \in Nat
    BY <1>3, AtFacts
  <2>2. QED
    BY <2>1, OneMoreBlock DEF StoresBound
<1>7. stores <= m
  <2>1. proc # "off"
    BY <1>3 DEF At
  <2>2. PICK c : c = Cardinality(ToCome) /\ c \in Nat
    BY FS_CardinalityType DEF StoresBound
  <2>3. stores + c <= m /\ stores \in Nat
    BY <1>6, <2>1, <2>2 DEF StoresBound
  <2>4. QED
    BY <1>6, <2>2, <2>3
<1>8. Shown(v) <= v /\ Shown(v) \in Int
  BY <1>4, ShownIsNoMore, PowersAssumption DEF Shown
<1>9. r.shown <= Weight * r.entered
  <2>1. stores \in Nat /\ r.shown = Shown(v) /\ r.entered = entered
    BY <1>2 DEF StoresBound
  <2>2. QED
    BY <1>4, <1>5, <1>6, <1>7, <1>8, <2>1
<1>10. PICK S : reports \in Seq(S)
  BY DEF RunInv, Running, ReportsAre
<1>11. PICK n : n = Len(reports) /\ n \in Nat /\ DOMAIN reports = 1..n
  BY <1>10, LenProperties
<1>12. \A k \in DOMAIN reports' : reports'[k] = r \/ (k \in DOMAIN reports /\ reports'[k] = reports[k])
  <2>1. PICK T : T = S \cup {r}
    OBVIOUS
  <2>2. reports \in Seq(T) /\ r \in T
    BY <1>10, <2>1, SeqMonotonic
  <2>3. /\ DOMAIN reports' = 1..n + 1
        /\ \A k \in 1..n : reports'[k] = reports[k]
        /\ reports'[n + 1] = r
    BY <1>3, <1>11, <2>2, AppendProperties, LenProperties
  <2>4. QED
    BY <1>11, <2>3
<1>13. Weight' = Weight
  BY OptRests
<1>14. QED
  BY <1>9, <1>12, <1>13 DEF ReportsBound

(* Every step of the whole keeps reports within the blocks begun.          *)
LEMMA ReportsBoundStep ==
  ASSUME IInv, RunInv, StoresBound, Laws!NeverAhead, ReportsBound, [WholeNext]_allVars
  PROVE  ReportsBound'
<1>1. CASE Compile
  <2>1. proc = "off" /\ reports' = reports
    BY <1>1, CompilesFirst DEF Compile, runVars
  <2>2. reports' = <<>>
    BY <2>1 DEF RunInv, Running
  <2>3. QED
    BY <2>2 DEF ReportsBound
<1>2. ASSUME UNCHANGED vars, UNCHANGED reports
      PROVE  ReportsBound'
  BY <1>2, OptRests DEF ReportsBound
<1>3. CASE Execute
  <2>1. UNCHANGED vars
    BY <1>3 DEF Execute
  <2>2. CASE Start(ir) \/ ExitStep
    BY <1>2, <2>1, <2>2 DEF Start, ExitStep, RunHandler, Die
  <2>3. ASSUME NEW t \in Threads, ThreadStep(t)
        PROVE  ReportsBound'
    <3>1. CASE Printf(t)
      BY <2>1, <3>1, PrintfInBounds
    <3>2. CASE ~ Printf(t)
      BY <1>2, <2>1, <2>3, <3>2
         DEF ThreadStep, Work, CallFn, Spawn, Join, AtExit, Load, Add, Store, Branch,
             Return, Exit
    <3>3. QED
      BY <3>1, <3>2
  <2>4. QED
    BY <1>3, <2>2, <2>3 DEF Execute
<1>4. CASE Over \/ UNCHANGED allVars
  BY <1>2, <1>4 DEF Over, allVars, vars, runVars
<1>5. QED
  BY <1>1, <1>3, <1>4 DEF WholeNext

(* The counter is no larger than the stores, which are bound by the blocks *)
(* begun.                                                                  *)
LEMMA CounterInBounds ==
  ASSUME IInv, RunInv, StoresBound, Laws!NeverAhead
  PROVE  Counter <= Weight * entered
<1>1. PICK m : m = Weight * entered /\ m \in Nat
  <2>1. Weight \in Nat
    BY WeightIsNat
  <2>2. QED
    BY <2>1, OneMoreBlock DEF StoresBound
<1>2. CASE proc = "off"
  BY <1>1, <1>2 DEF Counter
<1>3. CASE proc # "off"
  <2>1. PICK c : c = Cardinality(ToCome) /\ c \in Nat
    BY FS_CardinalityType DEF StoresBound
  <2>2. stores + c <= m /\ stores \in Nat /\ Counter <= stores
    BY <1>1, <1>3, <2>1 DEF StoresBound, Laws!NeverAhead
  <2>3. Counter \in Nat
    BY <1>3, WeightIsNat, PowersAssumption DEF RunInv, Running, MemOK, CounterWords, Counter
  <2>4. QED
    BY <1>1, <2>1, <2>2, <2>3
<1>4. QED
  BY <1>2, <1>3

(* The counter never exceeds the blocks that have begun, each counted as   *)
(* often as count-bb ran, and no report does.                              *)
THEOREM RacesNeverOvercount == WholeSpec => []NeverOvercounts
<1>1. WholeInit => ReportsBound
  BY DEF WholeInit, RunInit, ReportsBound
<1>2. IInv /\ RunInv /\ StoresBound /\ Laws!NeverAhead /\ ReportsBound /\ [WholeNext]_allVars
        => ReportsBound'
  BY ReportsBoundStep
<1>3. WholeSpec => []ReportsBound
  BY <1>1, <1>2, Whole, PipelineInvariant, RunInvariant, StoresAreBound,
     NeverAheadOfStores, PTL DEF WholeSpec
<1>4. IInv /\ RunInv /\ StoresBound /\ Laws!NeverAhead /\ ReportsBound => NeverOvercounts
  BY CounterInBounds DEF NeverOvercounts, ReportsBound
<1>5. QED
  BY <1>3, <1>4, Whole, PipelineInvariant, RunInvariant, StoresAreBound,
     NeverAheadOfStores, PTL

--------------------------------------------------------------------------------
(* With one thread the counter is exact.                                   *)

(* Stores of a block that stand before place i; those that the activation  *)
(* on top of stack w has made.                                             *)
StoresBefore(block, i) == {n \in StoreSites(block) : n < i}
MadeBy(M, fr) == StoresBefore(Named(M, fr.fn).blocks[fr.bb], fr.ip)
Ahead(M, w) == IF w = <<>> THEN 0 ELSE Cardinality(MadeBy(M, Last(w)))

(* Along a block the stores behind a place grow by the stores passed: none *)
(* at its first instruction, all at its terminator.                        *)
LEMMA StoresBeforeIs ==
  ASSUME NEW block, NEW name, CountsOK(block, name),
         DOMAIN block = 1..Len(block), Len(block) \in Nat \ {0},
         NEW i \in DOMAIN block, NEW here, here = StoresBefore(block, i),
         NEW next, next = StoresBefore(block, i + 1)
  PROVE  /\ IsFiniteSet(here) /\ Cardinality(here) \in Nat
         /\ block[i].op # "store" => next = here
         /\ block[i].op = "store" => Cardinality(next) = Cardinality(here) + 1
         /\ block[i].op \in OwnOps \ {"br", "ret"} => here = {} /\ next = {}
         /\ i = Len(block) /\ block[i].op # "store" => here = StoreSites(block)
         /\ i = 1 => here = {}
<1>1. PICK sites : sites = StoreSites(block) /\ IsFiniteSet(sites)
  BY DEF CountsOK
<1>2. PICK L : L = Len(block) /\ L \in Nat \ {0} /\ i \in 1..L
  OBVIOUS
<1>3. /\ \A n : n \in sites <=> n \in 1..L /\ block[n].op = "store"
      /\ here = {n \in sites : n < i} /\ next = {n \in sites : n < i + 1}
  BY <1>1, <1>2 DEF StoreSites, StoresBefore
<1>4. here \subseteq sites /\ IsFiniteSet(here) /\ Cardinality(here) \in Nat
  <2>1. here \subseteq sites
    BY <1>3
  <2>2. QED
    BY <1>1, <2>1, FS_Subset, FS_CardinalityType
<1>5. next = IF block[i].op = "store" THEN here \cup {i} ELSE here
  <2>1. \A n \in 1..L : n < i + 1 <=> n < i \/ n = i
    BY <1>2
  <2>2. \A n : n \in next <=> n \in here \/ (n = i /\ block[i].op = "store")
    <3>1. \A n : n \in next <=> n \in sites /\ n < i + 1
      BY <1>3
    <3>2. \A n : n \in here <=> n \in sites /\ n < i
      BY <1>3
    <3>3. i \in sites <=> block[i].op = "store"
      BY <1>2, <1>3
    <3>4. \A n : n \in sites => n \in 1..L
      BY <1>3
    <3>5. QED
      BY <2>1, <3>1, <3>2, <3>3, <3>4
  <2>3. QED
    BY <2>2
<1>6. i \notin here
  BY <1>2, <1>3
<1>7. ASSUME block[i].op = "store"
      PROVE  Cardinality(next) = Cardinality(here) + 1
  <2>1. next = here \cup {i}
    BY <1>5, <1>7
  <2>2. QED
    BY <1>4, <1>6, <2>1, FS_AddElement
<1>8. ASSUME block[i].op \in OwnOps \ {"br", "ret"}
      PROVE  here = {} /\ next = {}
  <2>1. \A n \in 1..i - 1 : block[n].op # "store"
    BY <1>8 DEF CountsOK, Counts
  <2>2. here = {}
    BY <1>2, <1>3, <2>1
  <2>3. block[i].op # "store"
    BY <1>8 DEF OwnOps
  <2>4. QED
    BY <1>5, <2>2, <2>3
<1>9. ASSUME i = Len(block), block[i].op # "store"
      PROVE  here = sites
  BY <1>2, <1>3, <1>9
<1>10. i = 1 => here = {}
  BY <1>2, <1>3
<1>11. QED
  BY <1>1, <1>4, <1>5, <1>7, <1>8, <1>9, <1>10

(* The stores that the thread at an instruction has made in its block, and *)
(* has made behind it.                                                     *)
LEMMA AheadAt ==
  ASSUME IInv, RunInv, NEW t \in Threads, NEW op, At(t, op),
         NEW made, made = Ahead(code, stack[t])
  PROVE  /\ made \in Nat
         /\ op \in OwnOps \ {"br", "ret"} => made = 0
         /\ op \in {"br", "ret"} => made = IF Counted(t) THEN Weight ELSE 0
<1>1. PICK block, name, i : block = BlockOf(t) /\ name = TopOf(t).fn /\ i = TopOf(t).ip
  OBVIOUS
<1>2. /\ CountsOK(block, name) /\ i \in DOMAIN block /\ block[i].op = op
      /\ DOMAIN block = 1..Len(block) /\ Len(block) \in Nat \ {0}
      /\ IsTerminator(block[i]) <=> i = Len(block)
      /\ stack[t] # <<>>
  BY <1>1, AtFacts DEF BlockOK, InstrOK, Code
<1>3. PICK here : here = StoresBefore(block, i)
  OBVIOUS
<1>4. made = Cardinality(here)
  BY <1>1, <1>2, <1>3 DEF Ahead, MadeBy, TopOf, BlockOf
<1>5. /\ IsFiniteSet(here) /\ Cardinality(here) \in Nat
      /\ op \in OwnOps \ {"br", "ret"} => here = {}
      /\ i = Len(block) /\ op # "store" => here = StoreSites(block)
  BY <1>2, <1>3, StoresBeforeIs
<1>6. Cardinality({}) = 0
  BY FS_EmptySet
<1>7. op \in {"br", "ret"} => here = StoreSites(block)
  BY <1>2, <1>5 DEF IsTerminator
<1>8. Cardinality(StoreSites(block)) = IF Counted(t) THEN Weight ELSE 0
  BY <1>1, <1>2 DEF CountsOK, Counted
<1>9. QED
  BY <1>4, <1>5, <1>6, <1>7, <1>8

(* An instruction adds the store that it makes.                            *)
LEMMA AheadNext ==
  ASSUME IInv, RunInv, NEW t \in Threads, NEW op, At(t, op),
         op \notin {"br", "ret", "exit"}, NEW fr, Advanced(fr, TopOf(t)), GoTo(t, fr)
  PROVE  Ahead(code, stack'[t]) =
           Ahead(code, stack[t]) + (IF op = "store" THEN 1 ELSE 0)
<1>1. PICK S : stack \in [Threads -> Seq(S)]
  BY DEF RunInv, Running, StackIs
<1>2. PICK w : w = Append(Front(stack[t]), fr)
  OBVIOUS
<1>3. stack'[t] = w
  BY <1>1, <1>2 DEF GoTo
<1>4. stack[t] \in Seq(S) /\ stack[t] # <<>>
  BY <1>1, AtFacts
<1>5. w # <<>> /\ Last(w) = fr
  <2>1. PICK L : L = Len(stack[t]) /\ L \in Nat \ {0}
    BY <1>4, Ends
  <2>2. Replaced(w, stack[t], fr)
    BY <1>2, <1>4, TopReplaced
  <2>3. Len(w) = L /\ w[L] = fr
    BY <2>1, <2>2 DEF Replaced
  <2>4. QED
    BY <2>1, <2>3 DEF Last
<1>6. PICK block, name, i : block = BlockOf(t) /\ name = TopOf(t).fn /\ i = TopOf(t).ip
  OBVIOUS
<1>7. /\ CountsOK(block, name) /\ i \in DOMAIN block /\ block[i].op = op
      /\ DOMAIN block = 1..Len(block) /\ Len(block) \in Nat \ {0}
  BY <1>6, AtFacts DEF BlockOK, Code
<1>8. PICK here, next : here = StoresBefore(block, i) /\ next = StoresBefore(block, i + 1)
  OBVIOUS
<1>9. Ahead(code, stack[t]) = Cardinality(here)
  BY <1>4, <1>6, <1>8 DEF Ahead, MadeBy, TopOf, BlockOf
<1>10. fr.fn = TopOf(t).fn /\ fr.bb = TopOf(t).bb /\ fr.ip = i + 1
  BY <1>6 DEF Advanced
<1>11. Ahead(code, w) = Cardinality(next)
  BY <1>5, <1>6, <1>8, <1>10 DEF Ahead, MadeBy, BlockOf
<1>12. /\ Cardinality(here) \in Nat
       /\ op # "store" => next = here
       /\ op = "store" => Cardinality(next) = Cardinality(here) + 1
  BY <1>7, <1>8, StoresBeforeIs
<1>13. QED
  BY <1>3, <1>9, <1>11, <1>12

(* An activation that has not begun its block, or waits for one that it    *)
(* called, has made no store in it.                                        *)
LEMMA AheadNone ==
  ASSUME IInv, RunInv, Finished, code = ir, NEW w, NEW top, Last(w) = top,
         \/ w = <<>>
         \/ top.ip = 1 /\ Executable(code, top.fn, top.bb)
         \/ FrameOK(code, top) /\ Waits(code, top)
  PROVE  Ahead(code, w) = 0
<1>1. CASE w = <<>>
  BY <1>1 DEF Ahead
<1>2. CASE w # <<>>
  <2>1. PICK block, name, i : /\ block = Named(code, top.fn).blocks[top.bb]
                              /\ name = top.fn /\ i = top.ip
    OBVIOUS
  <2>2. /\ CountsOK(block, name) /\ i \in DOMAIN block /\ i \in Nat \ {0}
        /\ DOMAIN block = 1..Len(block) /\ Len(block) \in Nat \ {0}
    <3>1. /\ CountsOK(block, name)
          /\ DOMAIN block = 1..Len(block) /\ Len(block) \in Nat \ {0}
      BY <1>2, <2>1, Image DEF FrameOK, CodeOK, BlockOK
    <3>2. CASE i = 1
      BY <3>1, <3>2
    <3>3. CASE i # 1
      BY <1>2, <2>1, <3>1, <3>3 DEF FrameOK
    <3>4. QED
      BY <3>2, <3>3
  <2>3. Ahead(code, w) = Cardinality(StoresBefore(block, i))
    BY <1>2, <2>1 DEF Ahead, MadeBy
  <2>4. StoresBefore(block, i) = {}
    <3>1. CASE i = 1
      BY <2>2, <3>1, StoresBeforeIs
    <3>2. CASE i # 1
      <4>1. PICK j : j = i - 1
        OBVIOUS
      <4>2. j \in DOMAIN block /\ j + 1 = i
        BY <2>2, <3>2, <4>1
      <4>3. block[j].op \in OwnOps \ {"br", "ret"}
        BY <1>2, <2>1, <2>2, <3>2, <4>1 DEF Waits, Before
      <4>4. StoresBefore(block, j + 1) = {}
        BY <2>2, <4>2, <4>3, StoresBeforeIs
      <4>5. QED
        BY <4>2, <4>4
    <3>3. QED
      BY <3>1, <3>2
  <2>5. QED
    BY <2>3, <2>4, FS_EmptySet
<1>3. QED
  BY <1>1, <1>2

(* Where activations are after a step.                                     *)
LEMMA FrameNow ==
  ASSUME RunInv', UNCHANGED vars, code' = code,
         NEW u \in Threads, NEW k \in DOMAIN stack'[u]
  PROVE  Executable(code, stack'[u][k].fn, stack'[u][k].bb)
<1>1. \A M, name, m : Executable(M, name, m)' <=> Executable(M, name, m)
  BY OptRests
<1>2. FrameOK(code, stack[u][k])'
  BY DEF RunInv, FramesOK, GoodStack
<1>3. QED
  BY <1>1, <1>2 DEF FrameOK

(* A step of the only thread completes a block with all its stores made,   *)
(* or leaves completed as many as there were.                              *)
CompletesOrNot(a, b) ==
  \/ completed' = completed /\ stores' \in Nat /\ stores' + a = stores + b
  \/ completed' = completed + 1 /\ stores' = stores /\ a = Weight /\ b = 0

(* An instruction within a block leaves stores and stores ahead in step.   *)
LEMMA SerialAdvance ==
  ASSUME IInv, RunInv, NEW t \in Threads, NEW op, At(t, op),
         op \notin {"br", "ret", "exit"}, NEW fr, Advanced(fr, TopOf(t)), GoTo(t, fr),
         stores \in Nat, completed' = completed,
         stores' = stores + (IF op = "store" THEN 1 ELSE 0),
         NEW a, NEW b, a = Ahead(code, stack[t]), b = Ahead(code, stack'[t])
  PROVE  a \in Nat /\ b \in Nat /\ CompletesOrNot(a, b)
<1>1. a \in Nat /\ b = a + (IF op = "store" THEN 1 ELSE 0)
  BY AheadAt, AheadNext
<1>2. QED
  BY <1>1 DEF CompletesOrNot

(* Those that neither call nor end a block do.                             *)
LEMMA SerialSteps ==
  ASSUME IInv, RunInv, UNCHANGED vars, NEW t \in Threads, stores \in Nat,
         Work(t) \/ Join(t) \/ AtExit(t) \/ Load(t) \/ Add(t) \/ Store(t) \/ Printf(t),
         NEW a, NEW b, a = Ahead(code, stack[t]), b = Ahead(code, stack'[t])
  PROVE  a \in Nat /\ b \in Nat /\ CompletesOrNot(a, b)
<1>0. stores + 0 = stores
  OBVIOUS
<1>1. CASE Work(t) \/ Join(t) \/ AtExit(t) \/ Printf(t)
  <2>1. PICK op \in {"work", "join", "atexit", "printf"} : At(t, op)
    BY <1>1 DEF Work, Join, AtExit, Printf
  <2>2. completed' = completed /\ stores' = stores /\ Step(t)
    BY <1>1 DEF Work, Join, AtExit, Printf
  <2>3. PICK fr : Advanced(fr, TopOf(t)) /\ GoTo(t, fr)
    BY <2>1, <2>2, StepAdvances
  <2>4. op \notin {"br", "ret", "exit"} /\ op # "store"
    BY <2>1
  <2>5. QED
    BY <1>0, <2>1, <2>2, <2>3, <2>4, SerialAdvance
<1>2. CASE Store(t)
  <2>1. At(t, "store") /\ completed' = completed /\ stores' = stores + 1 /\ Step(t)
    BY <1>2 DEF Store
  <2>2. PICK fr : Advanced(fr, TopOf(t)) /\ GoTo(t, fr)
    BY <2>1, StepAdvances
  <2>3. QED
    BY <2>1, <2>2, SerialAdvance
<1>3. CASE Load(t) \/ Add(t)
  <2>1. PICK op \in {"load", "add"} : At(t, op)
    BY <1>3 DEF Load, Add
  <2>2. completed' = completed /\ stores' = stores /\ \E v : StepWith(t, v)
    BY <1>3 DEF Load, Add
  <2>3. PICK fr : Advanced(fr, TopOf(t)) /\ GoTo(t, fr)
    BY <2>1, <2>2, StepWithAdvances
  <2>4. op \notin {"br", "ret", "exit"} /\ op # "store"
    BY <2>1
  <2>5. QED
    BY <1>0, <2>1, <2>2, <2>3, <2>4, SerialAdvance
<1>4. QED
  BY <1>1, <1>2, <1>3

(* A terminator completes its block, whose stores have been made; exit,    *)
(* with none made, leaves it.                                              *)
LEMMA SerialEnds ==
  ASSUME IInv, RunInv, UNCHANGED vars, NEW t \in Threads,
         completed \in Nat, stores \in Nat,
         Branch(t) \/ Return(t) \/ Exit(t),
         NEW a, NEW b, a = Ahead(code, stack[t]), b = Ahead(code, stack'[t])
  PROVE  a \in Nat /\ b \in Nat /\ CompletesOrNot(a, b)
<1>1. PICK S : stack \in [Threads -> Seq(S)]
  BY DEF RunInv, Running, StackIs
<1>2. PICK op \in {"br", "ret", "exit"} : At(t, op)
  BY DEF Branch, Return, Exit
<1>3. /\ a \in Nat /\ Finished /\ code = ir /\ Weight \in Nat
      /\ stack[t] # <<>> /\ stack[t] \in Seq(S)
  BY <1>1, <1>2, AheadAt, AtFacts
<1>4. RunInv' /\ code' = code /\ stores' = stores
  <2>1. ThreadStep(t)
    BY DEF ThreadStep
  <2>2. QED
    BY <2>1, ThreadSteps DEF Branch, Return, Exit
<1>5. ASSUME b = 0, Branch(t) \/ Return(t)
      PROVE  CompletesOrNot(a, b)
  <2>1. PICK o \in {"br", "ret"} : At(t, o)
    BY <1>5 DEF Branch, Return
  <2>2. a = IF Counted(t) THEN Weight ELSE 0
    BY <2>1, AheadAt
  <2>3. completed' = completed + (IF Counted(t) THEN 1 ELSE 0)
    BY <1>5 DEF Branch, Return, Complete
  <2>4. QED
    BY <1>4, <1>5, <2>2, <2>3 DEF CompletesOrNot
<1>6. CASE Branch(t)
  <2>1. PICK m : GoTo(t, [fn |-> TopOf(t).fn, bb |-> m, ip |-> 1, reg |-> 0])
    BY <1>6 DEF Branch
  <2>2. PICK fr, w : /\ fr = [fn |-> TopOf(t).fn, bb |-> m, ip |-> 1, reg |-> 0]
                     /\ w = Append(Front(stack[t]), fr)
    OBVIOUS
  <2>a. PICK s : s = stack[t] /\ s \in Seq(S) /\ s # <<>> /\ w = Append(Front(s), fr)
    BY <1>3, <2>2
  <2>3. stack'[t] = w /\ fr.ip = 1
    BY <1>1, <2>1, <2>2 DEF GoTo
  <2>4. PICK L : L = Len(s) /\ L \in Nat \ {0}
    BY <2>a, Ends
  <2>5. Replaced(w, s, fr)
    BY <2>a, TopReplaced
  <2>6. Len(w) = L /\ w[L] = fr /\ L \in DOMAIN w
    BY <2>4, <2>5 DEF Replaced
  <2>7. Executable(code, fr.fn, fr.bb)
    BY <1>4, <2>3, <2>6, FrameNow
  <2>8. Last(w) = fr
    BY <2>6 DEF Last
  <2>9. b = 0
    BY <1>3, <2>3, <2>7, <2>8, AheadNone
  <2>10. QED
    BY <1>3, <1>5, <1>6, <2>9
<1>7. CASE Return(t)
  <2>1. PICK s, w, L : s = stack[t] /\ w = Front(s) /\ L = Len(s)
    OBVIOUS
  <2>2. stack'[t] = w
    BY <1>1, <1>7, <2>1 DEF Return
  <2>3. /\ w \in Seq(S) /\ Len(w) = L - 1 /\ \A k \in 1..L - 1 : w[k] = s[k]
        /\ L \in Nat \ {0} /\ DOMAIN s = 1..L
    BY <1>3, <2>1, TopPopped, Ends
  <2>4. w = <<>> \/ (FrameOK(code, Last(w)) /\ Waits(code, Last(w)))
    <3>1. SUFFICES ASSUME w # <<>>
                   PROVE  FrameOK(code, Last(w)) /\ Waits(code, Last(w))
      OBVIOUS
    <3>2. L - 1 \in Nat \ {0} /\ Last(w) = w[L - 1]
      BY <2>3, <3>1, Ends
    <3>3. PICK k : k = L - 1
      OBVIOUS
    <3>4. k \in DOMAIN s /\ k < L /\ Last(w) = s[k]
      BY <2>3, <3>2, <3>3
    <3>5. GoodStack(t, s, code, armed, proc, exiter)
      BY <1>2, <2>1, AtFacts
    <3>6. QED
      BY <2>1, <3>4, <3>5 DEF GoodStack
  <2>5. b = 0
    BY <1>3, <2>2, <2>4, AheadNone
  <2>6. QED
    BY <1>3, <1>5, <1>7, <2>5
<1>8. CASE Exit(t)
  <2>1. At(t, "exit") /\ completed' = completed /\ stack'[t] = <<>>
    BY <1>1, <1>8 DEF Exit
  <2>2. "exit" \in OwnOps \ {"br", "ret"}
    BY DEF OwnOps
  <2>3. a = 0 /\ b = 0
    BY <2>1, <2>2, AheadAt DEF Ahead
  <2>4. QED
    BY <1>4, <2>1, <2>3 DEF CompletesOrNot
<1>9. QED
  BY <1>6, <1>7, <1>8

(* A caller waits with no store made.                                      *)
LEMMA SerialCall ==
  ASSUME IInv, RunInv, UNCHANGED vars, NEW t \in Threads, CallFn(t),
         stores \in Nat,
         NEW a, NEW b, a = Ahead(code, stack[t]), b = Ahead(code, stack'[t])
  PROVE  a \in Nat /\ b \in Nat /\ CompletesOrNot(a, b)
<1>1. PICK S : stack \in [Threads -> Seq(S)]
  BY DEF RunInv, Running, StackIs
<1>2. At(t, "call") /\ completed' = completed /\ stores' = stores
  BY DEF CallFn
<1>3. "call" \in OwnOps \ {"br", "ret"}
  BY DEF OwnOps
<1>4. a = 0
  BY <1>2, <1>3, AheadAt
<1>5. PICK fr, g, w, v : /\ fr = [TopOf(t) EXCEPT !.ip = @ + 1]
                         /\ g = Frame(Code(t).sym)
                         /\ w = Append(Front(stack[t]), fr)
                         /\ v = w \o <<g>>
  OBVIOUS
<1>6. stack'[t] = v
  BY <1>1, <1>5 DEF CallFn
<1>7. stack[t] \in Seq(S) /\ stack[t] # <<>>
  BY <1>1, <1>2, AtFacts
<1>8. w \in Seq(S \cup {fr})
  BY <1>5, <1>7, TopReplaced
<1>9. v # <<>> /\ Last(v) = g
  BY <1>5, <1>8, LastJoined
<1>10. FrameOK(code, g) /\ Waits(code, g)
  <2>1. /\ CodeOK(code) /\ Weight \in Nat
        /\ InstrOK(Code(t), Len(BlockOf(t)), Len(Named(code, TopOf(t).fn).blocks),
                   TopOf(t).fn, TopOf(t).bb, TopOf(t).ip)
        /\ Code(t).op = "call"
    BY <1>2, AtFacts
  <2>2. Runnable(Code(t).sym)
    BY <2>1 DEF InstrOK, Runnable
  <2>3. QED
    BY <1>5, <2>1, <2>2, NewFrame DEF Frame, Waits
<1>11. Finished /\ code = ir
  BY <1>2, AtFacts
<1>12. b = 0
  BY <1>6, <1>9, <1>10, <1>11, AheadNone
<1>13. QED
  BY <1>2, <1>4, <1>12 DEF CompletesOrNot

(* A program that spawns nothing is run by its main thread alone, which    *)
(* has stored once for each count of a block that is completed, and for    *)
(* those counts of its block that it has made.                             *)
Alone ==
  /\ exiter = MainThread
  /\ \A t \in Threads \ {MainThread} : stack[t] = <<>>
  /\ completed \in Nat /\ stores \in Nat
  /\ IF proc = "off" THEN completed = 0 /\ stores = 0
     ELSE stores = Weight * completed + Ahead(code, stack[MainThread])
AloneInv == Sequential(source) => Alone

(* The stores ahead after a step.                                          *)
LEMMA AheadLater ==
  Ahead(code, stack[MainThread])' = Ahead(code', stack'[MainThread])
BY DEF Ahead, MadeBy, StoresBefore, StoreSites

(* A step of the main thread keeps the sum right.                          *)
LEMMA AloneThen ==
  ASSUME IInv, RunInv, UNCHANGED vars, Sequential(source), Alone, proc # "off", proc' # "off",
         code' = code, exiter' = MainThread,
         \A u \in Threads \ {MainThread} : stack'[u] = stack[u],
         NEW a \in Nat, NEW b \in Nat, CompletesOrNot(a, b),
         a = Ahead(code, stack[MainThread]), b = Ahead(code, stack'[MainThread])
  PROVE  Alone'
<1>1. Weight \in Nat /\ Weight' = Weight
  BY WeightIsNat, OptRests
<1>2. completed \in Nat /\ stores \in Nat /\ stores = Weight * completed + a
  BY DEF Alone
<1>3. PICK m : m = Weight * completed /\ m \in Nat /\ Weight * (completed + 1) = m + Weight
  BY <1>1, <1>2, OneMoreBlock
<1>4. \/ completed' = completed /\ stores' = m + b
      \/ completed' = completed + 1 /\ stores' = (m + Weight) + b
  <2>1. CASE completed' = completed /\ stores' \in Nat /\ stores' + a = stores + b
    BY <1>2, <1>3, <2>1
  <2>2. CASE completed' = completed + 1 /\ stores' = stores /\ a = Weight /\ b = 0
    BY <1>1, <1>2, <1>3, <2>2
  <2>3. QED
    BY <2>1, <2>2 DEF CompletesOrNot
<1>5. completed' \in Nat /\ stores' \in Nat /\ stores' = Weight * completed' + b
  BY <1>1, <1>2, <1>3, <1>4
<1>6. b = Ahead(code', stack'[MainThread])
  OBVIOUS
<1>7. Ahead(code, stack[MainThread])' = b
  BY <1>6, AheadLater
<1>8. QED
  BY <1>1, <1>5, <1>7 DEF Alone

(* The instructions of a program that spawns no thread do.                 *)
LEMMA AloneByThreads ==
  ASSUME IInv, RunInv, AloneInv, UNCHANGED vars, NEW t \in Threads, ThreadStep(t)
  PROVE  AloneInv'
<1>1. SUFFICES ASSUME Sequential(source) PROVE Alone'
  BY DEF AloneInv, vars
<1>2. Alone /\ exiter = MainThread /\ completed \in Nat /\ stores \in Nat
  BY <1>1 DEF AloneInv, Alone
<1>3. PICK op : At(t, op) /\ code' = code /\ proc' # "off"
  BY DEF ThreadStep, Work, CallFn, Spawn, Join, AtExit, Load, Add, Store, Printf,
         Branch, Return, Exit, At
<1>4. stack[t] # <<>> /\ proc # "off"
  BY <1>3, AtFacts DEF At
<1>5. t = MainThread
  BY <1>2, <1>4 DEF Alone
<1>6. ~ Spawn(t)
  <2>1. SUFFICES ASSUME Spawn(t) PROVE FALSE
    OBVIOUS
  <2>2. At(t, "spawn")
    BY <2>1 DEF Spawn
  <2>3. /\ InstrOK(Code(t), Len(BlockOf(t)), Len(Named(code, TopOf(t).fn).blocks),
                   TopOf(t).fn, TopOf(t).bb, TopOf(t).ip)
        /\ Code(t).op = "spawn"
    BY <2>2, AtFacts
  <2>4. Code(t) \in Instrs(source)
    BY <2>3 DEF InstrOK, Registers
  <2>5. QED
    BY <1>1, <2>3, <2>4 DEF Sequential
<1>7. exiter' = MainThread /\ \A u \in Threads \ {MainThread} : stack'[u] = stack[u]
  <2>1. PICK S : stack \in [Threads -> Seq(S)]
    BY DEF RunInv, Running, StackIs
  <2>2. \E w : stack' = [stack EXCEPT ![t] = w]
    BY <1>6 DEF ThreadStep, Work, CallFn, Join, AtExit, Load, Add, Store, Printf,
                Branch, Return, Exit, Step, StepWith, GoTo
  <2>3. exiter' = MainThread
    BY <1>2, <1>5, <1>6 DEF ThreadStep, Work, CallFn, Join, AtExit, Load, Add, Store,
                            Printf, Branch, Return, Exit
  <2>4. QED
    BY <1>5, <2>1, <2>2, <2>3
<1>8. PICK a, b : a = Ahead(code, stack[t]) /\ b = Ahead(code, stack'[t])
  OBVIOUS
<1>9. a \in Nat /\ b \in Nat /\ CompletesOrNot(a, b)
  <2>1. CASE CallFn(t)
    BY <1>2, <1>8, <2>1, SerialCall
  <2>2. CASE Work(t) \/ Join(t) \/ AtExit(t) \/ Load(t) \/ Add(t) \/ Store(t) \/ Printf(t)
    BY <1>2, <1>8, <2>2, SerialSteps
  <2>3. CASE Branch(t) \/ Return(t) \/ Exit(t)
    BY <1>2, <1>8, <2>3, SerialEnds
  <2>4. QED
    BY <1>6, <2>1, <2>2, <2>3 DEF ThreadStep
<1>10. QED
  BY <1>1, <1>2, <1>3, <1>4, <1>5, <1>7, <1>8, <1>9, AloneThen

(* The steps of the process complete nothing and store nothing.            *)
LEMMA AloneByProcess ==
  ASSUME IInv, RunInv, AloneInv, UNCHANGED vars, (Start(ir) /\ Finished) \/ ExitStep
  PROVE  AloneInv'
<1>1. SUFFICES ASSUME Sequential(source) PROVE Alone'
  BY DEF AloneInv, vars
<1>2. /\ Alone /\ exiter = MainThread /\ completed \in Nat /\ stores \in Nat
      /\ \A u \in Threads \ {MainThread} : stack[u] = <<>>
  BY <1>1 DEF AloneInv, Alone
<1>3. PICK S : stack \in [Threads -> Seq(S)]
  BY DEF RunInv, Running, StackIs
<1>4. MainThread \in Threads /\ Weight \in Nat /\ Weight' = Weight
  BY ThreadsAssumption, WeightIsNat, OptRests
<1>5. UNCHANGED <<exiter, completed, stores>> /\ proc' # "off"
  BY DEF Start, ExitStep, RunHandler, Die
<1>6. CASE RunHandler
  <2>1. PICK w : w = <<Frame(Last(handlers))>>
    OBVIOUS
  <2>2. /\ proc = "exiting" /\ code' = code /\ stack[MainThread] = <<>>
        /\ stack' = [stack EXCEPT ![MainThread] = w]
    BY <1>2, <1>6, <2>1 DEF RunHandler
  <2>3. Last(w) = w[1] /\ w[1].ip = 1 /\ DOMAIN w = {1}
    BY <2>1 DEF Last, Frame
  <2>4. Finished /\ code = ir
    BY <2>2 DEF RunInv, Running
  <2>5. stack'[MainThread] = w
    BY <1>3, <1>4, <2>2
  <2>6. Executable(code, w[1].fn, w[1].bb)
    <3>1. RunInv'
      BY <1>6, HandlerRuns
    <3>2. QED
      BY <1>4, <2>2, <2>3, <2>5, <3>1, FrameNow
  <2>7. Ahead(code, w) = 0 /\ Ahead(code, <<>>) = 0
    BY <2>3, <2>4, <2>6, AheadNone DEF Ahead
  <2>8. CompletesOrNot(0, 0)
    BY <1>2, <1>5 DEF CompletesOrNot
  <2>9. \A u \in Threads \ {MainThread} : stack'[u] = stack[u]
    BY <1>3, <2>2
  <2>10. QED
    BY <1>1, <1>2, <1>5, <2>2, <2>5, <2>7, <2>8, <2>9, AloneThen
<1>7. CASE Die
  <2>1. UNCHANGED <<code, stack>> /\ proc = "exiting" /\ stack[MainThread] = <<>>
    BY <1>2, <1>7 DEF Die
  <2>2. CompletesOrNot(0, 0)
    BY <1>2, <1>5 DEF CompletesOrNot
  <2>3. Ahead(code, stack[MainThread]) = 0 /\ Ahead(code, stack'[MainThread]) = 0
    BY <2>1 DEF Ahead
  <2>4. QED
    BY <1>1, <1>2, <1>5, <2>1, <2>2, <2>3, AloneThen
<1>8. CASE Start(ir) /\ Finished
  <2>1. PICK w : w = <<Frame("main")>>
                     \o [k \in 1..Len(ir.ctors) |-> Frame(Reverse(ir.ctors)[k])]
    OBVIOUS
  <2>2. /\ proc = "off" /\ code' = ir /\ stack' = [stack EXCEPT ![MainThread] = w]
    BY <1>8, <2>1 DEF Start
  <2>3. /\ stack'[MainThread] = w
        /\ \A u \in Threads \ {MainThread} : stack'[u] = <<>>
    BY <1>2, <1>3, <1>4, <2>2
  <2>4. completed = 0 /\ stores = 0
    BY <1>2, <2>2 DEF Alone
  <2>5. Ahead(ir, w) = 0
    <3>1. PICK L : L = Len(w) /\ L \in DOMAIN w /\ Last(w) = w[L] /\ w # <<>>
      <4>1. DOMAIN w = 1..Len(w) /\ Len(w) \in Nat \ {0}
        BY <1>8, <2>1, StartStack
      <4>2. QED
        BY <4>1 DEF Last
    <3>2. PICK name : Defines(source, name) /\ w[L] = Frame(name)
      BY <1>8, <2>1, <3>1, StartStack
    <3>3. PICK block : block = Named(ir, name).blocks[1]
      OBVIOUS
    <3>4. Executable(ir, name, 1) /\ CodeOK(ir)
      <4>1. CodeOK(ir) /\ Runnable(name)
        BY <1>8, <3>2, Image DEF Runnable
      <4>2. FrameOK(ir, Frame(name))
        BY <1>4, <4>1, NewFrame
      <4>3. QED
        BY <4>1, <4>2 DEF FrameOK, Frame
    <3>5. /\ CountsOK(block, name)
          /\ DOMAIN block = 1..Len(block) /\ Len(block) \in Nat \ {0}
      BY <3>3, <3>4 DEF CodeOK, BlockOK
    <3>6. StoresBefore(block, 1) = {}
      BY <3>5, StoresBeforeIs
    <3>7. MadeBy(ir, Last(w)) = {}
      BY <3>1, <3>2, <3>3, <3>6 DEF MadeBy, Frame
    <3>8. QED
      BY <3>1, <3>7, FS_EmptySet DEF Ahead
  <2>6. Ahead(code, stack[MainThread])' = 0
    BY <2>2, <2>3, <2>5, AheadLater
  <2>7. stores' = Weight' * completed' + 0
    BY <1>4, <1>5, <2>4, OneMoreBlock
  <2>8. QED
    BY <1>2, <1>5, <2>3, <2>4, <2>6, <2>7 DEF Alone
<1>9. QED
  BY <1>6, <1>7, <1>8 DEF ExitStep

(* Every step of the whole does.                                           *)
LEMMA AloneStep ==
  ASSUME IInv, RunInv, AloneInv, [WholeNext]_allVars
  PROVE  AloneInv'
<1>1. CASE Compile
  <2>1. proc = "off" /\ UNCHANGED runVars /\ source' = source
    BY <1>1, CompilesFirst
       DEF Compile, StartPass, CountStep, PosixStep
  <2>2. QED
    BY <2>1 DEF AloneInv, Alone, runVars
<1>2. CASE Execute
  <2>1. UNCHANGED vars /\ Finished
    BY <1>2 DEF Execute
  <2>2. CASE Start(ir) \/ ExitStep
    BY <2>1, <2>2, AloneByProcess
  <2>3. CASE \E t \in Threads : ThreadStep(t)
    BY <2>1, <2>3, AloneByThreads
  <2>4. QED
    BY <1>2, <2>2, <2>3 DEF Execute
<1>3. CASE Over \/ UNCHANGED allVars
  <2>1. UNCHANGED <<vars, runVars>>
    BY <1>3 DEF Over, allVars
  <2>2. Weight' = Weight /\ source' = source
    BY <2>1, OptRests
  <2>3. Ahead(code, stack[MainThread])' = Ahead(code, stack[MainThread])
    BY <2>1 DEF Ahead, MadeBy, StoresBefore, StoreSites, runVars
  <2>4. QED
    BY <2>1, <2>2, <2>3 DEF AloneInv, Alone, runVars
<1>4. QED
  BY <1>1, <1>2, <1>3 DEF WholeNext

(* With one thread the stores are those of the blocks completed and those  *)
(* ahead.                                                                  *)
LEMMA AloneHolds == WholeSpec => []AloneInv
<1>1. WholeInit => AloneInv
  <2>1. SUFFICES ASSUME WholeInit PROVE Alone
    BY DEF AloneInv
  <2>2. QED
    BY <2>1 DEF WholeInit, RunInit, Alone
<1>2. IInv /\ RunInv /\ AloneInv /\ [WholeNext]_allVars => AloneInv'
  BY AloneStep
<1>3. QED
  BY <1>1, <1>2, Whole, PipelineInvariant, RunInvariant, PTL DEF WholeSpec

(* A thread that is alone keeps out of every other's way, so that what it  *)
(* stores is the number of its stores.                                     *)
LEMMA AloneIsOneAtATime ==
  ASSUME Alone
  PROVE  Laws!OneAtATime
<1>1. ASSUME NEW t \in Threads, UnderWay(t) # "idle"
      PROVE  t = MainThread
  BY <1>1 DEF Alone, UnderWay
<1>2. QED
  BY <1>1 DEF Laws!OneAtATime

ExactWhenAlone == Sequential(source) => Laws!ExactRegisters

(* With one thread the value under way is the number of stores, and the    *)
(* counter as well, modulo its width.                                      *)
LEMMA AloneLosesNothing == WholeSpec => []ExactWhenAlone
<1>1. Laws!HasWidth
  BY PowersAssumption DEF Laws!HasWidth
<1>2. Protocol!Init => Laws!Init
  BY DEF Protocol!Init, Laws!Init
<1>3. WholeInit => ExactWhenAlone
  <2>1. WholeInit => Laws!ExactRegisters
    BY <1>1, <1>2, MappedInit, Laws!ExactInit DEF WholeInit
  <2>2. QED
    BY <2>1 DEF ExactWhenAlone
<1>4. [Protocol!Next]_(Protocol!vars) => [Laws!Next]_(Laws!vars)
  BY DEF Protocol!Next, Laws!Next, Protocol!vars, Laws!vars,
         Protocol!Load, Protocol!Add, Protocol!Store, Protocol!Report, Protocol!Wrap,
         Laws!Load, Laws!Add, Laws!Store, Laws!Report, Laws!Wrap
<1>5. ASSUME IInv, RunInv, AloneInv, Laws!TypeOK, ExactWhenAlone, [WholeNext]_allVars
      PROVE  ExactWhenAlone'
  <2>1. source' = source
    BY <1>5 DEF WholeNext, Compile, Execute, Over, allVars, vars, StartPass, CountStep,
                PosixStep
  <2>2. CASE Sequential(source)
    <3>1. Laws!ExactRegisters /\ Laws!OneAtATime
      BY <1>5, <2>2, AloneIsOneAtATime DEF AloneInv, ExactWhenAlone
    <3>2. [Laws!Next]_(Laws!vars)
      BY <1>4, <1>5, StepIsSeen
    <3>3. Laws!ExactRegisters'
      BY <1>1, <1>5, <3>1, <3>2, Laws!ExactNext
    <3>4. QED
      BY <3>3 DEF ExactWhenAlone
  <2>3. CASE ~ Sequential(source)
    BY <2>1, <2>3 DEF ExactWhenAlone, Sequential
  <2>4. QED
    BY <2>2, <2>3
<1>6. Laws!Spec => []Laws!TypeOK
  BY <1>1, Laws!TypeCorrect
<1>7. QED
  BY <1>3, <1>5, <1>6, Whole, PipelineInvariant, RunInvariant, AloneHolds, LawsApply, PTL
     DEF WholeSpec

(* The stores ahead are those the property counts.                         *)
LEMMA AheadIsStated ==
  ASSUME IInv, RunInv
  PROVE  Ahead(code, stack[MainThread]) = StoredAhead(MainThread)
<1>1. MainThread \in Threads
  BY ThreadsAssumption
<1>2. CASE stack[MainThread] = <<>>
  BY <1>2 DEF Ahead, StoredAhead
<1>3. CASE stack[MainThread] # <<>>
  <2>1. PICK fr, block : /\ fr = TopOf(MainThread) /\ block = BlockOf(MainThread)
    OBVIOUS
  <2>2. proc # "off" /\ \E S : stack[MainThread] \in Seq(S)
    BY <1>1, <1>3 DEF RunInv, Running, StackIs
  <2>3. FrameOK(code, fr) /\ CodeOK(code)
    <3>1. \E k \in DOMAIN stack[MainThread] : fr = stack[MainThread][k]
      BY <1>3, <2>1, <2>2, Ends DEF TopOf
    <3>2. FrameOK(code, fr)
      BY <1>1, <3>1 DEF RunInv, FramesOK, GoodStack
    <3>3. CodeOK(code)
      BY <2>2, Image DEF RunInv, Running
    <3>4. QED
      BY <3>2, <3>3
  <2>4. /\ DOMAIN block = 1..Len(block) /\ Len(block) \in Nat \ {0}
        /\ fr.ip \in DOMAIN block
    BY <2>1, <2>3 DEF FrameOK, CodeOK, BlockOK, BlockOK, BlockOf
  <2>5. StoresBefore(block, fr.ip) = {n \in 1..(fr.ip - 1) : block[n].op = "store"}
    <3>1. PICK L, i : L = Len(block) /\ i = fr.ip /\ L \in Nat \ {0} /\ i \in 1..L
      BY <2>4
    <3>2. \A n : n \in 1..i - 1 <=> n \in 1..L /\ n < i
      BY <3>1
    <3>3. QED
      BY <2>4, <3>1, <3>2 DEF StoresBefore, StoreSites
  <2>6. QED
    BY <1>3, <2>1, <2>5 DEF Ahead, MadeBy, StoredAhead, TopOf, BlockOf
<1>4. QED
  BY <1>2, <1>3

(* The counter of a program that spawns no thread is the number of the     *)
(* blocks it has completed, each as often as count-bb ran, and of the      *)
(* stores of the block under way, up to the width of an i64.               *)
THEOREM OneThreadIsExact == WholeSpec => []CounterIsExact
<1>1. ASSUME IInv, RunInv, AloneInv, ExactWhenAlone, Sequential(source)
      PROVE  Counter = (Weight * completed + StoredAhead(MainThread)) % 2^CounterBits
  <2>1. Alone /\ Counter = stores % 2^CounterBits
    BY <1>1 DEF AloneInv, ExactWhenAlone, Laws!ExactRegisters, Laws!Exact
  <2>2. PICK a : a = Ahead(code, stack[MainThread]) /\ a = StoredAhead(MainThread)
    BY <1>1, AheadIsStated
  <2>3. stores = Weight * completed + a
    <3>1. CASE proc = "off"
      <4>1. a = 0 /\ completed = 0 /\ stores = 0
        BY <1>1, <2>1, <2>2, <3>1, ThreadsAssumption DEF Alone, RunInv, Running, Ahead
      <4>2. QED
        BY <1>1, <4>1, WeightIsNat, OneMoreBlock
    <3>2. CASE proc # "off"
      BY <2>1, <2>2, <3>2 DEF Alone
    <3>3. QED
      BY <3>1, <3>2
  <2>4. QED
    BY <2>1, <2>2, <2>3
<1>2. IInv /\ RunInv /\ AloneInv /\ ExactWhenAlone => CounterIsExact
  BY <1>1 DEF CounterIsExact
<1>3. QED
  BY <1>2, Whole, PipelineInvariant, RunInvariant, AloneHolds, AloneLosesNothing, PTL

--------------------------------------------------------------------------------
(* A program that main leaves by return reports the whole run. *)

AllSetups(h) == \A k \in DOMAIN h : h[k] = "setupAtExit"
IsConstructor(name) == \E k \in DOMAIN source.ctors : source.ctors[k] = name

(* An activation that is not past the registrations at the head of main.   *)
Registering(fr) == fr.fn = "main" /\ fr.bb = 1 /\ fr.ip <= Weight

(* main is at the bottom of the stack w, once, until exit.                 *)
MainAtBottom(w, h, p) ==
  /\ \A k \in DOMAIN w : w[k].fn = "main" => k = 1 /\ p = "running"
  /\ \A k \in DOMAIN h : h[k] # "main"
  /\ p = "running" => w # <<>> /\ w[1].fn = "main"

(* Among the handlers setupAtExit comes before any other, so that it is    *)
(* run after it.                                                           *)
SetupsFirst(h) ==
  \A j \in DOMAIN h : h[j] = "setupAtExit" =>
    \A i \in DOMAIN h : i <= j => h[i] = "setupAtExit"

(* It is registered before anything but constructors has run,              *)
RegisteredEarly(w, h) ==
  w # <<>> /\ Registering(w[1]) =>
    AllSetups(h) /\ \A k \in DOMAIN w : k > 1 => IsConstructor(w[k].fn)

(* ... and runs when nothing else is left to run.                          *)
SetupsLast(w, h, r) ==
  r # <<>> \/ (\E k \in DOMAIN w : w[k].fn = "setupAtExit") =>
    AllSetups(h) /\ \A k \in DOMAIN w : w[k].fn = "setupAtExit"

InOrder(w, h, r, p) ==
  /\ MainAtBottom(w, h, p)
  /\ SetupsFirst(h)
  /\ RegisteredEarly(w, h)
  /\ SetupsLast(w, h, r)

(* The order is kept when the top of the stack moves on or branches,       *)
LEMMA OrderStepped ==
  ASSUME NEW S, NEW s \in Seq(S), s # <<>>, NEW h, NEW r, NEW p, InOrder(s, h, r, p),
         NEW top, top = Last(s), NEW fr, fr.fn = top.fn,
         Registering(fr) => Registering(top),
         NEW w, w = Append(Front(s), fr)
  PROVE  InOrder(w, h, r, p)
<1>1. PICK L : L = Len(s) /\ L \in Nat \ {0} /\ DOMAIN s = 1..L /\ top = s[L]
  BY Ends
<1>2. /\ DOMAIN w = 1..L /\ Len(w) = L
      /\ \A k \in 1..L : w[k] = IF k < L THEN s[k] ELSE fr
  <2>1. Replaced(w, s, fr)
    BY TopReplaced
  <2>2. QED
    BY <1>1, <2>1 DEF Replaced
<1>3. /\ w # <<>> /\ \A k \in 1..L : w[k].fn = s[k].fn
      /\ Registering(w[1]) => Registering(s[1])
  BY <1>1, <1>2
<1>4. MainAtBottom(w, h, p)
  BY <1>1, <1>2, <1>3 DEF InOrder, MainAtBottom
<1>5. RegisteredEarly(w, h)
  BY <1>1, <1>2, <1>3 DEF InOrder, RegisteredEarly
<1>6. SetupsLast(w, h, r)
  BY <1>1, <1>2, <1>3 DEF InOrder, SetupsLast
<1>7. QED
  BY <1>4, <1>5, <1>6 DEF InOrder

(* ... calls,                                                              *)
LEMMA OrderPushed ==
  ASSUME NEW S, NEW s \in Seq(S), s # <<>>, NEW h, NEW r, NEW p, InOrder(s, h, r, p),
         NEW top, top = Last(s), top.fn # "setupAtExit",
         ~ Registering(top), ~ IsConstructor(top.fn),
         NEW g, g.fn \notin {"main", "setupAtExit"}, NEW w, w = s \o <<g>>
  PROVE  InOrder(w, h, r, p)
<1>1. PICK L : L = Len(s) /\ L \in Nat \ {0} /\ DOMAIN s = 1..L /\ top = s[L]
  BY Ends
<1>2. /\ Len(w) = L + 1 /\ DOMAIN w = 1..L + 1
      /\ \A k \in 1..L : w[k] = s[k]
      /\ w[L + 1] = g
  <2>1. PICK T : T = S \cup {g}
    OBVIOUS
  <2>2. s \in Seq(T) /\ <<g>> \in Seq(T) /\ Len(<<g>>) = 1 /\ <<g>>[1] = g
    BY <2>1, SeqMonotonic
  <2>3. Joined(w, s, <<g>>, T)
    BY <2>2, Concatenation
  <2>4. QED
    BY <1>1, <2>2, <2>3 DEF Joined
<1>3. w # <<>> /\ w[1] = s[1]
  BY <1>1, <1>2
<1>4. MainAtBottom(w, h, p)
  BY <1>1, <1>2, <1>3 DEF InOrder, MainAtBottom
<1>5. ~ Registering(s[1])
  BY <1>1 DEF InOrder, RegisteredEarly
<1>6. SetupsLast(w, h, r)
  BY <1>1, <1>2 DEF InOrder, SetupsLast
<1>7. QED
  BY <1>3, <1>4, <1>5, <1>6 DEF InOrder, RegisteredEarly

(* ... returns,                                                            *)
LEMMA OrderPopped ==
  ASSUME NEW S, NEW s \in Seq(S), s # <<>>, NEW h, NEW r, NEW p, InOrder(s, h, r, p),
         NEW p2, IF p = "running" /\ Len(s) = 1 THEN p2 = "exiting" ELSE p2 = p,
         NEW w, w = Front(s)
  PROVE  InOrder(w, h, r, p2)
<1>1. PICK L : L = Len(s) /\ L \in Nat \ {0} /\ DOMAIN s = 1..L
  BY Ends
<1>2. /\ w \in Seq(S) /\ Len(w) = L - 1 /\ \A k \in 1..L - 1 : w[k] = s[k]
      /\ DOMAIN w = 1..L - 1
  BY <1>1, TopPopped
<1>3. w # <<>> => L > 1 /\ w[1] = s[1]
  BY <1>1, <1>2
<1>4. L > 1 => w # <<>>
  BY <1>1, <1>2, EmptySeq
<1>5. MainAtBottom(w, h, p2)
  BY <1>1, <1>2, <1>3, <1>4 DEF InOrder, MainAtBottom
<1>6. RegisteredEarly(w, h)
  BY <1>1, <1>2, <1>3 DEF InOrder, RegisteredEarly
<1>7. SetupsLast(w, h, r)
  BY <1>1, <1>2 DEF InOrder, SetupsLast
<1>8. QED
  BY <1>5, <1>6, <1>7 DEF InOrder

(* ... or registers a handler,                                             *)
LEMMA OrderRegistered ==
  ASSUME NEW S, NEW s \in Seq(S), s # <<>>, NEW H, NEW h \in Seq(H), NEW r, NEW p,
         InOrder(s, h, r, p),
         NEW top, top = Last(s), top.fn # "setupAtExit", ~ IsConstructor(top.fn),
         NEW sym, sym # "main", sym = "setupAtExit" <=> Registering(top),
         NEW h2, h2 = Append(h, sym)
  PROVE  InOrder(s, h2, r, p)
<1>1. PICK L : L = Len(s) /\ L \in Nat \ {0} /\ DOMAIN s = 1..L /\ top = s[L]
  BY Ends
<1>2. PICK n : n = Len(h) /\ n \in Nat /\ DOMAIN h = 1..n
  BY LenProperties
<1>3. /\ DOMAIN h2 = 1..n + 1 /\ h2[n + 1] = sym
      /\ \A k \in 1..n : h2[k] = h[k]
  <2>1. PICK T : T = H \cup {sym}
    OBVIOUS
  <2>2. h \in Seq(T) /\ sym \in T
    BY <2>1, SeqMonotonic
  <2>3. QED
    BY <1>2, <2>2, AppendProperties
<1>4. Registering(top) => L = 1 /\ AllSetups(h)
  BY <1>1 DEF InOrder, MainAtBottom, RegisteredEarly, Registering
<1>5. AllSetups(h) /\ sym = "setupAtExit" => AllSetups(h2)
  BY <1>2, <1>3 DEF AllSetups
<1>6. MainAtBottom(s, h2, p)
  BY <1>2, <1>3 DEF InOrder, MainAtBottom
<1>7. SetupsFirst(h2)
  <2>1. SUFFICES ASSUME NEW j \in 1..n + 1, h2[j] = "setupAtExit",
                        NEW i \in 1..n + 1, i <= j
                 PROVE  h2[i] = "setupAtExit"
    BY <1>3 DEF SetupsFirst
  <2>2. CASE j = n + 1
    <3>1. AllSetups(h2)
      BY <1>3, <1>4, <1>5, <2>1, <2>2
    <3>2. QED
      BY <1>3, <3>1 DEF AllSetups
  <2>3. CASE j # n + 1
    <3>1. j \in DOMAIN h /\ i \in DOMAIN h /\ h[j] = "setupAtExit" /\ h2[i] = h[i]
      BY <1>2, <1>3, <2>1, <2>3
    <3>2. QED
      BY <2>1, <3>1 DEF InOrder, SetupsFirst
  <2>4. QED
    BY <2>2, <2>3
<1>8. RegisteredEarly(s, h2)
  BY <1>1, <1>4, <1>5 DEF InOrder, RegisteredEarly
<1>9. SetupsLast(s, h2, r)
  BY <1>1 DEF InOrder, SetupsLast
<1>10. QED
  BY <1>6, <1>7, <1>8, <1>9 DEF InOrder

(* ... and when exit runs a handler.                                       *)
LEMMA OrderHandled ==
  ASSUME NEW H, NEW h \in Seq(H), h # <<>>, NEW r, InOrder(<<>>, h, r, "exiting"),
         NEW fr, fr.fn = Last(h)
  PROVE  InOrder(<<fr>>, Front(h), r, "exiting")
<1>1. PICK n : n = Len(h) /\ n \in Nat \ {0} /\ DOMAIN h = 1..n /\ Last(h) = h[n]
  BY Ends
<1>2. PICK f, w : f = Front(h) /\ w = <<fr>>
  OBVIOUS
<1>3. DOMAIN f = 1..n - 1 /\ \A k \in 1..n - 1 : f[k] = h[k]
  BY <1>1, <1>2, TopPopped
<1>4. DOMAIN w = {1} /\ w[1] = fr /\ w # <<>> /\ 1..n - 1 \subseteq 1..n
  BY <1>1, <1>2
<1>5. MainAtBottom(w, f, "exiting")
  BY <1>1, <1>3, <1>4 DEF InOrder, MainAtBottom
<1>6. SetupsFirst(f)
  BY <1>1, <1>3, <1>4 DEF InOrder, SetupsFirst
<1>7. RegisteredEarly(w, f)
  BY <1>1, <1>4 DEF InOrder, MainAtBottom, RegisteredEarly, Registering
<1>8. SetupsLast(w, f, r)
  <2>1. CASE fr.fn = "setupAtExit"
    <3>1. AllSetups(f)
      BY <1>1, <1>3, <2>1 DEF InOrder, SetupsFirst, AllSetups
    <3>2. QED
      BY <1>4, <2>1, <3>1 DEF SetupsLast
  <2>2. CASE fr.fn # "setupAtExit"
    <3>1. r = <<>>
      BY <1>1, <2>2 DEF InOrder, SetupsLast, AllSetups
    <3>2. QED
      BY <1>4, <2>2, <3>1 DEF SetupsLast
  <2>3. QED
    BY <2>1, <2>2
<1>9. QED
  BY <1>2, <1>5, <1>6, <1>7, <1>8 DEF InOrder

(* The activations whose block is under way.                               *)
Begun(w) == {k \in DOMAIN w : w[k].ip > 1 /\ w[k].fn # "setupAtExit"}
Unfinished(w) == Cardinality(Begun(w))

(* What the top of a stack adds.                                           *)
UnderWayAt(fr) == IF fr.ip > 1 /\ fr.fn # "setupAtExit" THEN 1 ELSE 0

(* Sets that agree but for one element.                                    *)
LEMMA CountsApart ==
  ASSUME NEW A, NEW L, IsFiniteSet(A \ {L}),
         NEW a, a = IF L \in A THEN 1 ELSE 0
  PROVE  /\ IsFiniteSet(A) /\ Cardinality(A \ {L}) \in Nat
         /\ Cardinality(A) = Cardinality(A \ {L}) + a
<1>1. PICK B : B = A \ {L}
  OBVIOUS
<1>2. /\ IsFiniteSet(B) /\ L \notin B /\ Cardinality(B) \in Nat
  BY <1>1, FS_CardinalityType
<1>3. CASE L \in A
  <2>1. A = B \cup {L}
    BY <1>1, <1>3
  <2>2. IsFiniteSet(B \cup {L}) /\ Cardinality(B \cup {L}) = Cardinality(B) + 1
    BY <1>2, FS_AddElement
  <2>3. QED
    BY <1>1, <1>2, <1>3, <2>1, <2>2
<1>4. CASE L \notin A
  <2>1. A = B
    BY <1>1, <1>4
  <2>2. QED
    BY <1>1, <1>2, <1>4, <2>1
<1>5. QED
  BY <1>3, <1>4

(* The stack below its top counts for itself.                              *)
LEMMA UnfinishedIs ==
  ASSUME NEW S, NEW s \in Seq(S), s # <<>>, NEW top, top = Last(s)
  PROVE  /\ Unfinished(Front(s)) \in Nat
         /\ Unfinished(s) = Unfinished(Front(s)) + UnderWayAt(top)
<1>1. PICK L : L = Len(s) /\ L \in Nat \ {0} /\ DOMAIN s = 1..L /\ top = s[L]
  BY Ends
<1>2. PICK f : f = Front(s)
  OBVIOUS
<1>3. DOMAIN f = 1..L - 1 /\ \A k \in 1..L - 1 : f[k] = s[k]
  BY <1>1, <1>2, TopPopped
<1>4. PICK A, B : A = Begun(s) /\ B = Begun(f)
  OBVIOUS
<1>5. B = A \ {L} /\ (L \in A <=> UnderWayAt(top) = 1)
  BY <1>1, <1>3, <1>4 DEF Begun, UnderWayAt
<1>6. IsFiniteSet(B)
  <2>1. B \subseteq 1..L - 1 /\ IsFiniteSet(1..L - 1)
    BY <1>1, <1>3, <1>4, FS_Interval DEF Begun
  <2>2. QED
    BY <2>1, FS_Subset
<1>7. UnderWayAt(top) = IF L \in A THEN 1 ELSE 0
  BY <1>5 DEF UnderWayAt
<1>8. Cardinality(B) \in Nat /\ Cardinality(A) = Cardinality(B) + UnderWayAt(top)
  BY <1>5, <1>6, <1>7, CountsApart
<1>9. QED
  BY <1>2, <1>4, <1>8 DEF Unfinished

(* Nothing is unfinished on an empty stack, in activations that have not   *)
(* begun and in setupAtExit.                                               *)
LEMMA NoneUnfinished ==
  ASSUME NEW w, \A k \in DOMAIN w : w[k].ip = 1 \/ w[k].fn = "setupAtExit"
  PROVE  Unfinished(w) = 0
<1>1. Begun(w) = {}
  BY DEF Begun
<1>2. QED
  BY <1>1, FS_EmptySet DEF Unfinished

(* A step of the top changes the number by what the top adds;              *)
LEMMA UnfinishedStepped ==
  ASSUME NEW S, NEW s \in Seq(S), s # <<>>, NEW fr, NEW w, w = Append(Front(s), fr)
  PROVE  Unfinished(w) = Unfinished(Front(s)) + UnderWayAt(fr)
<1>1. PICK L : L = Len(s) /\ L \in Nat \ {0}
  BY Ends
<1>2. PICK f : f = Front(s)
  OBVIOUS
<1>3. f \in Seq(S) /\ Len(f) = L - 1
  BY <1>1, <1>2, TopPopped
<1>4. f \in Seq(S \cup {fr})
  BY <1>3, SeqMonotonic
<1>5. /\ w \in Seq(S \cup {fr}) /\ Len(w) = L /\ w[L] = fr
      /\ \A k \in 1..L - 1 : w[k] = f[k]
  BY <1>1, <1>2, <1>3, <1>4, AppendProperties
<1>6. w # <<>> /\ Last(w) = fr
  BY <1>1, <1>5 DEF Last
<1>7. PICK v : v = Front(w)
  OBVIOUS
<1>8. v \in Seq(S \cup {fr}) /\ Len(v) = L - 1 /\ \A k \in 1..L - 1 : v[k] = w[k]
  BY <1>5, <1>6, <1>7, TopPopped
<1>9. v = f
  BY <1>3, <1>4, <1>5, <1>8, SeqEqual
<1>10. QED
  BY <1>2, <1>5, <1>6, <1>7, <1>9, UnfinishedIs

(* ... a callee has not begun.                                             *)
LEMMA UnfinishedPushed ==
  ASSUME NEW S, NEW s \in Seq(S), NEW g, g.ip = 1, NEW w, w = s \o <<g>>
  PROVE  Unfinished(w) = Unfinished(s)
<1>1. PICK L, T : L = Len(s) /\ L \in Nat /\ DOMAIN s = 1..L /\ T = S \cup {g}
  BY LenProperties
<1>2. s \in Seq(T) /\ <<g>> \in Seq(T) /\ Len(<<g>>) = 1 /\ <<g>>[1] = g
  BY <1>1, SeqMonotonic
<1>3. Joined(w, s, <<g>>, T)
  BY <1>2, Concatenation
<1>4. DOMAIN w = 1..L + 1 /\ w[L + 1] = g /\ \A k \in 1..L : w[k] = s[k]
  BY <1>1, <1>2, <1>3 DEF Joined
<1>5. Begun(w) = Begun(s)
  BY <1>1, <1>4 DEF Begun
<1>6. QED
  BY <1>5 DEF Unfinished

(* An activation of setupAtExit that has not printed yet.                  *)
OwedBy(w) ==
  IF w # <<>> /\ Last(w).fn = "setupAtExit" /\ Last(w).ip <= 2 THEN 1 ELSE 0

(* Every report was made when nothing was left to be counted.              *)
ReportsAreWhole(r, e) ==
  \A k \in DOMAIN r : r[k].shown = Shown((Weight * e) % 2^CounterBits)

Orderly ==
  /\ InOrder(stack[MainThread], handlers, reports, proc)
  /\ entered \in Nat /\ entered = completed + Unfinished(stack[MainThread])
  /\ Len(reports) + HandlersArmed + OwedBy(stack[MainThread]) <= armed
  /\ ReportsAreWhole(reports, entered)
  /\ proc \in {"exiting", "dead"} => armed >= Weight
  /\ proc = "dead" => stack[MainThread] = <<>> /\ handlers = <<>>
OrderlyInv == LeavesByReturn(source) => Orderly

(* What such a program is at.                                              *)
Leaves(t, op, sym, top) ==
  /\ Alone /\ t = MainThread /\ op \notin {"spawn", "exit"}
  /\ op = "call" => sym \notin {"main", "setupAtExit"}
  /\ op = "atexit" => sym # "main" /\ (sym = "setupAtExit" <=> Registering(top))
  /\ op \in {"call", "atexit"} => ~ IsConstructor(top.fn)
  /\ op \notin {"load", "printf", "ret"} => top.fn # "setupAtExit"
  /\ op = "printf" => top.fn = "setupAtExit"
  /\ op # "atexit" => ~ Registering(top)

(* ... follows from the code it runs.                                      *)
LEMMA LeavingAt ==
  ASSUME IInv, RunInv, AloneInv, LeavesByReturn(source), NEW t \in Threads, NEW op, At(t, op)
  PROVE  Leaves(t, op, Code(t).sym, TopOf(t))
<1>0. PICK top : top = TopOf(t)
  OBVIOUS
<1>1. Sequential(source)
  BY DEF LeavesByReturn, Sequential
<1>2. Alone
  BY <1>1 DEF AloneInv
<1>3. t = MainThread
  <2>1. stack[t] # <<>>
    BY DEF At
  <2>2. QED
    BY <1>2, <2>1 DEF Alone
<1>4. /\ InstrOK(Code(t), Len(BlockOf(t)), Len(Named(code, top.fn).blocks),
                 top.fn, top.bb, top.ip)
      /\ Code(t).op = op /\ CodeOK(code)
  BY <1>0, AtFacts
<1>5. PICK ins : ins = Code(t)
  OBVIOUS
<1>6. /\ op \in {"call", "spawn", "exit", "atexit"} =>
           \/ ins \in InstrsOf(Named(source, top.fn)) /\ ins \in Instrs(source)
           \/ op = "atexit" /\ Registering(top)
      /\ op \in {"call", "spawn"} => Defines(source, ins.sym)
      /\ op = "atexit" => Runnable(ins.sym)
      /\ op = "printf" => top.fn = "setupAtExit"
      /\ Registering(top) => op = "atexit" /\ ins.sym = "setupAtExit"
  BY <1>4, <1>5 DEF InstrOK, Registers, Registering
<1>7. ~ Defines(source, "setupAtExit")
  BY <1>4 DEF CodeOK
<1>8. op \notin {"spawn", "exit"}
  BY <1>4, <1>5, <1>6 DEF LeavesByReturn
<1>9. op = "call" => ins.sym # "main" /\ ins.sym # "setupAtExit"
  BY <1>4, <1>5, <1>6, <1>7 DEF LeavesByReturn, Calls
<1>10. op = "atexit" => ins.sym # "main" /\ (ins.sym = "setupAtExit" <=> Registering(top))
  <2>1. CASE Registering(top)
    BY <1>6, <2>1
  <2>2. CASE op = "atexit" /\ ~ Registering(top)
    <3>1. ins \in Calls(source)
      BY <1>4, <1>5, <1>6, <2>2 DEF Calls
    <3>2. ins.sym # "main" /\ Defines(source, ins.sym)
      BY <3>1, ProgramsAssumption DEF LeavesByReturn, IsProgram, IInv, AtPass
    <3>3. QED
      BY <1>7, <2>2, <3>2
  <2>3. QED
    BY <2>1, <2>2
<1>11. op \in {"call", "atexit"} => ~ IsConstructor(top.fn)
  <2>1. SUFFICES ASSUME op \in {"call", "atexit"}, NEW k \in DOMAIN source.ctors,
                        source.ctors[k] = top.fn
                 PROVE  FALSE
    BY DEF IsConstructor
  <2>2. top.fn # "main"
    BY <2>1 DEF LeavesByReturn
  <2>3. ins \in InstrsOf(Named(source, source.ctors[k]))
    BY <1>6, <2>1, <2>2 DEF Registering
  <2>4. ins.op \notin {"atexit", "call"}
    BY <2>3 DEF LeavesByReturn
  <2>5. QED
    BY <1>4, <1>5, <2>1, <2>4
<1>12. op \notin {"load", "printf", "ret"} => top.fn # "setupAtExit"
  BY <1>0, HandlerCalls
<1>13. QED
  BY <1>0, <1>2, <1>3, <1>5, <1>6, <1>8, <1>9, <1>10, <1>11, <1>12 DEF Leaves

(* The stack of the only thread.                                           *)
LEMMA MainStack ==
  ASSUME IInv, RunInv, AloneInv, LeavesByReturn(source), Orderly,
         NEW t \in Threads, NEW op, At(t, op)
  PROVE  \E S, s, top :
           /\ s = stack[t] /\ s \in Seq(S) /\ s # <<>> /\ stack \in [Threads -> Seq(S)]
           /\ top = TopOf(t) /\ top = Last(s) /\ top.ip \in Nat \ {0}
           /\ s[Len(s)] = top /\ Len(s) \in DOMAIN s
           /\ InOrder(s, handlers, reports, proc)
           /\ entered \in Nat /\ completed \in Nat
           /\ entered = completed + Unfinished(s)
           /\ Len(reports) + HandlersArmed + OwedBy(s) <= armed
           /\ ReportsAreWhole(reports, entered)
           /\ Len(reports) \in Nat /\ HandlersArmed \in Nat /\ armed \in Nat
<1>1. PICK S : stack \in [Threads -> Seq(S)]
  BY DEF RunInv, Running, StackIs
<1>2. PICK s, top : s = stack[t] /\ top = TopOf(t)
  OBVIOUS
<1>3. s \in Seq(S) /\ s # <<>> /\ top = Last(s)
  BY <1>1, <1>2 DEF At, TopOf
<1>4. s[Len(s)] = top /\ Len(s) \in DOMAIN s
  BY <1>3, Ends
<1>5. top.ip \in Nat \ {0}
  BY <1>2, AtFacts DEF FrameOK
<1>6. t = MainThread /\ completed \in Nat
  BY LeavingAt DEF Leaves, Alone
<1>7. Len(reports) \in Nat /\ HandlersArmed \in Nat /\ armed \in Nat
  <2>1. Running
    BY DEF RunInv
  <2>2. HandlersArmed \in Nat
    BY <2>1, HandlersCounted
  <2>3. QED
    BY <2>1, <2>2, LenProperties DEF Running, ReportsAre
<1>8. QED
  BY <1>1, <1>2, <1>3, <1>4, <1>5, <1>6, <1>7 DEF Orderly

(* What an instruction begins, once something has been reported, is not    *)
(* counted.                                                                *)
LEMMA NothingBegins ==
  ASSUME IInv, RunInv, AloneInv, LeavesByReturn(source), Orderly,
         NEW t \in Threads, NEW op, At(t, op),
         reports # <<>> \/ TopOf(t).fn = "setupAtExit"
  PROVE  entered' = entered
<1>1. PICK S, s, top :
        /\ s = stack[t] /\ top = TopOf(t) /\ s[Len(s)] = top /\ Len(s) \in DOMAIN s
        /\ InOrder(s, handlers, reports, proc) /\ entered \in Nat
  BY MainStack
<1>2. top.fn = "setupAtExit"
  BY <1>1 DEF InOrder, SetupsLast
<1>3. entered' = entered + 0
  BY <1>1, <1>2 DEF At, Counted
<1>4. QED
  BY <1>1, <1>3

(* An instruction that does not end its block.                             *)
LEMMA OrderlyAdvance ==
  ASSUME IInv, RunInv, AloneInv, LeavesByReturn(source), Orderly,
         NEW t \in Threads, NEW op, At(t, op), op \notin {"br", "ret", "exit"},
         NEW fr, Advanced(fr, TopOf(t)), NEW w, w = Append(Front(stack[t]), fr)
  PROVE  /\ InOrder(w, handlers, reports, proc)
         /\ entered' \in Nat /\ entered' = completed + Unfinished(w)
         /\ OwedBy(w) \in {0, 1} /\ OwedBy(stack[t]) \in {0, 1}
         /\ OwedBy(w) <= OwedBy(stack[t])
         /\ op = "printf" => OwedBy(w) = 0 /\ OwedBy(stack[t]) = 1
<1>1. PICK S, s, top :
        /\ s = stack[t] /\ s \in Seq(S) /\ s # <<>>
        /\ top = TopOf(t) /\ top = Last(s) /\ top.ip \in Nat \ {0}
        /\ InOrder(s, handlers, reports, proc)
        /\ entered \in Nat /\ completed \in Nat /\ entered = completed + Unfinished(s)
  BY MainStack
<1>2. fr.fn = top.fn /\ fr.bb = top.bb /\ fr.ip = top.ip + 1
  BY <1>1 DEF Advanced
<1>3. w # <<>> /\ Last(w) = fr
  <2>1. w \in Seq(S \cup {fr}) /\ Replaced(w, s, fr)
    BY <1>1, TopReplaced
  <2>2. Len(s) \in Nat \ {0}
    BY <1>1, Ends
  <2>3. Len(w) = Len(s) /\ w[Len(s)] = fr
    BY <2>1, <2>2 DEF Replaced
  <2>4. QED
    BY <2>1, <2>2, <2>3, EmptySeq DEF Last
<1>4. InOrder(w, handlers, reports, proc)
  <2>1. Registering(fr) => Registering(top)
    <3>1. Weight \in Nat
      BY WeightIsNat
    <3>2. QED
      BY <1>1, <1>2, <3>1 DEF Registering
  <2>2. QED
    BY <1>1, <1>2, <2>1, OrderStepped
<1>5. entered' \in Nat /\ entered' = completed + Unfinished(w)
  <2>1. PICK u : u = Unfinished(Front(s))
    OBVIOUS
  <2>2. u \in Nat /\ Unfinished(s) = u + UnderWayAt(top) /\ Unfinished(w) = u + UnderWayAt(fr)
    BY <1>1, <2>1, UnfinishedIs, UnfinishedStepped
  <2>3. entered' = entered + (IF top.ip = 1 /\ top.fn # "setupAtExit" THEN 1 ELSE 0)
    BY <1>1 DEF At, Counted
  <2>4. CASE top.fn = "setupAtExit"
    <3>1. UnderWayAt(top) = 0 /\ UnderWayAt(fr) = 0
      BY <1>2, <2>4 DEF UnderWayAt
    <3>2. QED
      BY <1>1, <2>2, <2>3, <2>4, <3>1
  <2>5. CASE top.fn # "setupAtExit"
    <3>1. PICK d : d = IF top.ip = 1 THEN 1 ELSE 0
      OBVIOUS
    <3>2. entered' = entered + d /\ d \in {0, 1}
      BY <2>3, <2>5, <3>1
    <3>3. UnderWayAt(fr) = 1 /\ UnderWayAt(top) = 1 - d
      BY <1>1, <1>2, <2>5, <3>1 DEF UnderWayAt
    <3>4. PICK e, e2, c, a, b : /\ e = entered /\ e2 = entered' /\ c = completed
                                /\ a = Unfinished(s) /\ b = Unfinished(w)
      OBVIOUS
    <3>5. /\ e \in Nat /\ c \in Nat /\ u \in Nat /\ d \in {0, 1}
          /\ e = c + a /\ a = u + (1 - d) /\ b = u + 1 /\ e2 = e + d
      BY <1>1, <2>2, <3>2, <3>3, <3>4
    <3>6. e2 \in Nat /\ e2 = c + b
      BY <3>5
    <3>7. QED
      BY <3>4, <3>6
  <2>6. QED
    BY <2>4, <2>5
<1>6. /\ OwedBy(w) = IF fr.fn = "setupAtExit" /\ fr.ip <= 2 THEN 1 ELSE 0
      /\ OwedBy(s) = IF top.fn = "setupAtExit" /\ top.ip <= 2 THEN 1 ELSE 0
  BY <1>1, <1>3 DEF OwedBy
<1>7. op = "printf" => top.fn = "setupAtExit" /\ top.ip = 2
  <2>1. SUFFICES ASSUME op = "printf" PROVE top.fn = "setupAtExit" /\ top.ip = 2
    OBVIOUS
  <2>2. top.fn = "setupAtExit"
    BY <1>1, <2>1, LeavingAt DEF Leaves
  <2>3. BlockOf(t) = HandlerCode /\ top.ip \in DOMAIN BlockOf(t) /\ Code(t).op = "printf"
    BY <1>1, <2>1, <2>2, AtFacts
  <2>4. HandlerCode[top.ip].op = "printf" /\ top.ip \in DOMAIN HandlerCode
    BY <1>1, <2>3 DEF Code
  <2>5. DOMAIN HandlerCode = 1..3 /\ HandlerCode[1].op # "printf" /\ HandlerCode[3].op # "printf"
    BY HandlerIs
  <2>6. top.ip = 1 \/ top.ip = 2 \/ top.ip = 3
    BY <2>4, <2>5
  <2>7. QED
    BY <2>2, <2>4, <2>5, <2>6
<1>8. QED
  BY <1>1, <1>2, <1>4, <1>5, <1>6, <1>7

(* What is appended is last.                                               *)
LEMMA AppendedLast ==
  ASSUME NEW S, NEW s \in Seq(S), NEW e, NEW w, w = Append(s, e)
  PROVE  /\ w \in Seq(S \cup {e}) /\ w # <<>> /\ Last(w) = e /\ Front(w) = s
         /\ Len(w) = Len(s) + 1
<1>1. s \in Seq(S \cup {e}) /\ e \in S \cup {e}
  BY SeqMonotonic
<1>2. PICK L : L = Len(s) /\ L \in Nat
  BY LenProperties
<1>3. /\ w \in Seq(S \cup {e}) /\ Len(w) = L + 1 /\ w[L + 1] = e
      /\ \A k \in 1..L : w[k] = s[k]
  BY <1>1, <1>2, AppendProperties
<1>4. w # <<>> /\ Last(w) = e
  BY <1>2, <1>3, EmptySeq DEF Last
<1>5. PICK f : f = Front(w)
  OBVIOUS
<1>6. f \in Seq(S \cup {e}) /\ Len(f) = L /\ \A k \in 1..L : f[k] = w[k]
  <2>1. /\ f \in Seq(S \cup {e}) /\ Len(f) = Len(w) - 1
        /\ \A k \in 1..Len(w) - 1 : f[k] = w[k]
    BY <1>3, <1>4, <1>5, TopPopped
  <2>2. Len(w) - 1 = L
    BY <1>2, <1>3
  <2>3. QED
    BY <2>1, <2>2
<1>7. f = s
  BY <1>1, <1>2, <1>3, <1>6, SeqEqual
<1>8. QED
  BY <1>2, <1>3, <1>4, <1>5, <1>7

(* Orderly after a step, from what it says of the new state.               *)
LEMMA OrderlyThen ==
  ASSUME UNCHANGED vars, NEW w, w = stack'[MainThread],
         InOrder(w, handlers', reports', proc'),
         entered' \in Nat, entered' = completed' + Unfinished(w),
         Len(reports') + HandlersArmed' + OwedBy(w) <= armed',
         ReportsAreWhole(reports', entered'),
         proc' \in {"exiting", "dead"} => armed' >= Weight,
         proc' = "dead" => w = <<>> /\ handlers' = <<>>
  PROVE  Orderly'
<1>1. Weight' = Weight /\ source' = source
  BY OptRests
<1>2. InOrder(stack[MainThread], handlers, reports, proc)'
  <2>1. MainAtBottom(stack[MainThread], handlers, proc)' /\ SetupsFirst(handlers)'
    BY DEF InOrder, MainAtBottom, SetupsFirst
  <2>2. RegisteredEarly(stack[MainThread], handlers)'
    BY <1>1 DEF InOrder, RegisteredEarly, Registering, IsConstructor, AllSetups
  <2>3. SetupsLast(stack[MainThread], handlers, reports)'
    BY DEF InOrder, SetupsLast, AllSetups
  <2>4. QED
    BY <2>1, <2>2, <2>3 DEF InOrder
<1>3. Unfinished(stack[MainThread])' = Unfinished(w)
  BY DEF Unfinished, Begun
<1>4. OwedBy(stack[MainThread])' = OwedBy(w)
  BY DEF OwedBy
<1>5. ReportsAreWhole(reports, entered)'
  BY <1>1 DEF ReportsAreWhole, Shown
<1>6. QED
  BY <1>1, <1>2, <1>3, <1>4, <1>5 DEF Orderly

(* The stack of the only thread after a step that gives it another.        *)
LEMMA StackNow ==
  ASSUME NEW S, stack \in [Threads -> Seq(S)], NEW t \in Threads, NEW w,
         stack' = [stack EXCEPT ![t] = w]
  PROVE  stack'[t] = w
OBVIOUS

(* Work, join, load, add and store change no more than the top.            *)
LEMMA OrderlySteps ==
  ASSUME IInv, RunInv, AloneInv, LeavesByReturn(source), Orderly, UNCHANGED vars,
         NEW t \in Threads, Work(t) \/ Join(t) \/ Load(t) \/ Add(t) \/ Store(t)
  PROVE  Orderly'
<1>1. PICK op : At(t, op) /\ op \in {"work", "join", "load", "add", "store"}
  BY DEF Work, Join, Load, Add, Store
<1>2. UNCHANGED <<code, proc, handlers, completed, armed, reports>>
  BY DEF Work, Join, Load, Add, Store
<1>3. PICK fr : Advanced(fr, TopOf(t)) /\ GoTo(t, fr)
  BY <1>1, StepAdvances, StepWithAdvances DEF Work, Join, Load, Add, Store
<1>4. PICK S, s :
        /\ s = stack[t] /\ stack \in [Threads -> Seq(S)]
        /\ Len(reports) + HandlersArmed + OwedBy(s) <= armed
        /\ ReportsAreWhole(reports, entered)
        /\ Len(reports) \in Nat /\ HandlersArmed \in Nat /\ armed \in Nat
  BY <1>1, MainStack
<1>5. PICK w : w = Append(Front(stack[t]), fr)
  OBVIOUS
<1>6. stack'[t] = w /\ t = MainThread
  BY <1>1, <1>3, <1>4, <1>5, StackNow, LeavingAt DEF Leaves, GoTo
<1>7. /\ InOrder(w, handlers, reports, proc)
      /\ entered' \in Nat /\ entered' = completed + Unfinished(w)
      /\ OwedBy(w) \in {0, 1} /\ OwedBy(s) \in {0, 1} /\ OwedBy(w) <= OwedBy(s)
  BY <1>1, <1>3, <1>4, <1>5, OrderlyAdvance
<1>8. Len(reports') + HandlersArmed' + OwedBy(w) <= armed'
  <2>1. HandlersArmed' = HandlersArmed
    BY <1>2 DEF HandlersArmed
  <2>2. QED
    BY <1>2, <1>4, <1>7, <2>1
<1>9. ReportsAreWhole(reports', entered')
  <2>1. CASE reports = <<>>
    BY <1>2, <2>1 DEF ReportsAreWhole
  <2>2. CASE reports # <<>>
    <3>1. entered' = entered
      BY <1>1, <2>2, NothingBegins
    <3>2. QED
      BY <1>2, <1>4, <3>1
  <2>3. QED
    BY <2>1, <2>2
<1>10. /\ proc' \in {"exiting", "dead"} => armed' >= Weight
       /\ proc' # "dead"
  BY <1>1, <1>2 DEF At, Orderly
<1>11. QED
  BY <1>2, <1>6, <1>7, <1>8, <1>9, <1>10, OrderlyThen

(* A registration.                                                         *)
LEMMA OrderlyAtExit ==
  ASSUME IInv, RunInv, AloneInv, LeavesByReturn(source), Orderly, UNCHANGED vars,
         NEW t \in Threads, AtExit(t)
  PROVE  Orderly'
<1>1. PICK op, sym : op = "atexit" /\ At(t, op) /\ sym = Code(t).sym
  BY DEF AtExit
<1>2. /\ UNCHANGED <<code, proc, completed, reports>>
      /\ handlers' = Append(handlers, sym)
      /\ armed' = armed + (IF sym = "setupAtExit" THEN 1 ELSE 0)
  BY <1>1 DEF AtExit
<1>3. PICK fr : Advanced(fr, TopOf(t)) /\ GoTo(t, fr)
  BY <1>1, StepAdvances DEF AtExit
<1>4. PICK S, s, top :
        /\ s = stack[t] /\ s \in Seq(S) /\ s # <<>> /\ stack \in [Threads -> Seq(S)]
        /\ top = TopOf(t) /\ top = Last(s) /\ top.ip \in Nat \ {0}
        /\ InOrder(s, handlers, reports, proc)
        /\ Len(reports) + HandlersArmed + OwedBy(s) <= armed
        /\ Len(reports) \in Nat /\ HandlersArmed \in Nat /\ armed \in Nat
  BY <1>1, MainStack
<1>5. /\ top.fn # "setupAtExit" /\ ~ IsConstructor(top.fn)
      /\ sym # "main" /\ (sym = "setupAtExit" <=> Registering(top))
      /\ t = MainThread
  <2>1. Leaves(t, op, sym, top)
    BY <1>1, <1>4, LeavingAt
  <2>2. QED
    BY <1>1, <2>1 DEF Leaves
<1>6. PICK H : handlers \in Seq(H)
  BY DEF RunInv, Running, HandlersAre
<1>7. PICK w : w = Append(Front(stack[t]), fr)
  OBVIOUS
<1>8. stack'[t] = w
  BY <1>3, <1>4, <1>7, StackNow DEF GoTo
<1>9. /\ entered' \in Nat /\ entered' = completed + Unfinished(w)
      /\ OwedBy(w) \in {0, 1} /\ OwedBy(s) \in {0, 1} /\ OwedBy(w) <= OwedBy(s)
  BY <1>1, <1>3, <1>4, <1>7, OrderlyAdvance
<1>10. InOrder(w, handlers', reports', proc')
  <2>1. InOrder(s, handlers', reports, proc)
    BY <1>2, <1>4, <1>5, <1>6, OrderRegistered
  <2>2. Registering(fr) => Registering(top)
    <3>1. Weight \in Nat
      BY WeightIsNat
    <3>2. QED
      BY <1>3, <1>4, <3>1 DEF Advanced, Registering
  <2>3. fr.fn = top.fn
    BY <1>3, <1>4 DEF Advanced
  <2>4. QED
    BY <1>2, <1>4, <1>7, <2>1, <2>2, <2>3, OrderStepped
<1>11. Len(reports') + HandlersArmed' + OwedBy(w) <= armed'
  <2>1. PICK h : h = handlers'
    OBVIOUS
  <2>2. h \in Seq(H \cup {sym}) /\ h # <<>> /\ Last(h) = sym /\ Front(h) = handlers
    BY <1>2, <1>6, <2>1, AppendedLast
  <2>3. HandlersArmed' = HandlersArmed + (IF sym = "setupAtExit" THEN 1 ELSE 0)
    BY <2>1, <2>2, CountedUp DEF HandlersArmed
  <2>4. QED
    BY <1>2, <1>4, <1>9, <2>3
<1>12. ReportsAreWhole(reports', entered')
  <2>1. reports = <<>>
    BY <1>4, <1>5, Ends DEF InOrder, SetupsLast
  <2>2. QED
    BY <1>2, <2>1 DEF ReportsAreWhole
<1>13. /\ proc' \in {"exiting", "dead"} => armed' >= Weight
       /\ proc' # "dead"
  <2>1. proc' # "dead" /\ (proc = "exiting" => armed >= Weight) /\ Weight \in Nat
    BY <1>1, <1>2, WeightIsNat DEF At, Orderly
  <2>2. QED
    BY <1>2, <1>4, <2>1
<1>14. QED
  BY <1>2, <1>5, <1>8, <1>9, <1>10, <1>11, <1>12, <1>13, OrderlyThen

(* setupAtExit prints what has been counted.                               *)
LEMMA HandlerShowsAll ==
  ASSUME IInv, RunInv, AloneInv, ExactWhenAlone, LeavesByReturn(source), Orderly,
         NEW t \in Threads, At(t, "printf")
  PROVE  TopOf(t).reg = (Weight * entered) % 2^CounterBits
<1>1. PICK op : op = "printf" /\ At(t, op)
  OBVIOUS
<1>2. PICK S, s, top :
        /\ s = stack[t] /\ s \in Seq(S) /\ s # <<>>
        /\ top = TopOf(t) /\ top = Last(s)
        /\ s[Len(s)] = top /\ Len(s) \in DOMAIN s
        /\ InOrder(s, handlers, reports, proc)
        /\ entered \in Nat /\ completed \in Nat /\ entered = completed + Unfinished(s)
  BY <1>1, MainStack
<1>3. t = MainThread /\ top.fn = "setupAtExit" /\ Alone
  BY <1>1, <1>2, LeavingAt DEF Leaves
<1>4. entered = completed
  <2>1. \A k \in DOMAIN s : s[k].fn = "setupAtExit"
    BY <1>2, <1>3 DEF InOrder, SetupsLast
  <2>2. Unfinished(s) = 0
    BY <2>1, NoneUnfinished
  <2>3. QED
    BY <1>2, <2>2
<1>5. Ahead(code, s) = 0
  <2>1. PICK block : block = BlockOf(t)
    OBVIOUS
  <2>2. CountsOK(block, "setupAtExit")
    BY <1>1, <1>2, <1>3, <2>1, AtFacts
  <2>3. IsFiniteSet(StoreSites(block)) /\ Cardinality(StoreSites(block)) = 0
    BY <2>2 DEF CountsOK
  <2>4. StoreSites(block) = {}
    BY <2>3, FS_EmptySet
  <2>5. MadeBy(code, top) = {}
    BY <1>2, <2>1, <2>4 DEF MadeBy, StoresBefore, BlockOf
  <2>6. QED
    BY <1>2, <2>5, FS_EmptySet DEF Ahead
<1>6. stores = Weight * entered
  <2>1. proc # "off" /\ stores = Weight * completed + Ahead(code, stack[MainThread])
    BY <1>1, <1>3 DEF Alone, At
  <2>2. PICK m : m = Weight * completed /\ m \in Nat
    BY <1>2, WeightIsNat, OneMoreBlock
  <2>3. stores = m + 0
    BY <1>2, <1>3, <1>5, <2>1, <2>2
  <2>4. QED
    BY <1>4, <2>2, <2>3
<1>7. TopOf(t).reg = stores % 2^CounterBits
  <2>1. Doing(code, stack[t]) = "loaded"
    BY <1>1, StoppedAt
  <2>2. UnderWay(t) = "loaded"
    BY <2>1, Mapping DEF MappedAsStated, MappedAt
  <2>3. Sequential(source)
    BY DEF LeavesByReturn, Sequential
  <2>4. QED
    BY <2>2, <2>3 DEF ExactWhenAlone, Laws!ExactRegisters
<1>8. QED
  BY <1>6, <1>7

(* Printing.                                                               *)
LEMMA OrderlyPrintf ==
  ASSUME IInv, RunInv, AloneInv, ExactWhenAlone, LeavesByReturn(source), Orderly,
         UNCHANGED vars, NEW t \in Threads, Printf(t)
  PROVE  Orderly'
<1>1. PICK op : op = "printf" /\ At(t, op)
  BY DEF Printf
<1>2. PICK entry :
        /\ reports' = Append(reports, entry) /\ entry.shown = Shown(TopOf(t).reg)
        /\ UNCHANGED <<code, proc, handlers, completed, armed>>
  BY DEF Printf
<1>3. PICK fr : Advanced(fr, TopOf(t)) /\ GoTo(t, fr)
  BY <1>1, StepAdvances DEF Printf
<1>4. PICK S, s, top :
        /\ s = stack[t] /\ s \in Seq(S) /\ s # <<>> /\ stack \in [Threads -> Seq(S)]
        /\ top = TopOf(t) /\ s[Len(s)] = top /\ Len(s) \in DOMAIN s
        /\ InOrder(s, handlers, reports, proc)
        /\ Len(reports) + HandlersArmed + OwedBy(s) <= armed
        /\ ReportsAreWhole(reports, entered)
        /\ Len(reports) \in Nat /\ HandlersArmed \in Nat /\ armed \in Nat
  BY <1>1, MainStack
<1>5. PICK w : w = Append(Front(stack[t]), fr)
  OBVIOUS
<1>6. stack'[t] = w
  BY <1>3, <1>4, <1>5, StackNow DEF GoTo
<1>7. t = MainThread /\ top.fn = "setupAtExit"
  BY <1>1, <1>4, LeavingAt DEF Leaves
<1>8. /\ InOrder(w, handlers, reports, proc)
      /\ entered' \in Nat /\ entered' = completed + Unfinished(w)
      /\ OwedBy(w) = 0 /\ OwedBy(s) = 1
  BY <1>1, <1>3, <1>4, <1>5, OrderlyAdvance
<1>9. entered' = entered
  BY <1>1, <1>4, <1>7, NothingBegins
<1>10. PICK R : reports \in Seq(R)
  BY DEF RunInv, Running, ReportsAre
<1>11. PICK n : n = Len(reports) /\ n \in Nat /\ DOMAIN reports = 1..n
  BY <1>10, LenProperties
<1>12. /\ Len(reports') = n + 1 /\ DOMAIN reports' = 1..n + 1
       /\ \A k \in 1..n : reports'[k] = reports[k]
       /\ reports'[n + 1] = entry
  <2>1. PICK T : T = R \cup {entry}
    OBVIOUS
  <2>2. reports \in Seq(T) /\ entry \in T
    BY <1>10, <2>1, SeqMonotonic
  <2>3. QED
    BY <1>2, <1>11, <2>2, AppendProperties, LenProperties
<1>13. InOrder(w, handlers', reports', proc')
  <2>1. SetupsLast(s, handlers, reports) /\ AllSetups(handlers)
    BY <1>4, <1>7 DEF InOrder, SetupsLast
  <2>2. \A k \in DOMAIN w : w[k].fn = "setupAtExit"
    <3>1. \A k \in DOMAIN s : s[k].fn = "setupAtExit"
      BY <1>4, <1>7, <2>1 DEF SetupsLast
    <3>2. Replaced(w, s, fr) /\ fr.fn = "setupAtExit"
      BY <1>3, <1>4, <1>5, <1>7, TopReplaced DEF Advanced
    <3>3. DOMAIN s = 1..Len(s) /\ Len(s) \in Nat
      BY <1>4, Ends
    <3>4. QED
      BY <3>1, <3>2, <3>3 DEF Replaced
  <2>3. QED
    BY <1>2, <1>8, <2>1, <2>2 DEF InOrder, SetupsLast
<1>14. Len(reports') + HandlersArmed' + OwedBy(w) <= armed'
  <2>1. HandlersArmed' = HandlersArmed
    BY <1>2 DEF HandlersArmed
  <2>2. QED
    BY <1>2, <1>4, <1>8, <1>11, <1>12, <2>1
<1>15. ReportsAreWhole(reports', entered')
  <2>1. entry.shown = Shown((Weight * entered) % 2^CounterBits)
    BY <1>1, <1>2, HandlerShowsAll
  <2>2. \A k \in 1..n : reports[k].shown = Shown((Weight * entered) % 2^CounterBits)
    BY <1>4, <1>11 DEF ReportsAreWhole
  <2>3. \A k \in 1..n + 1 : k \in 1..n \/ k = n + 1
    BY <1>11
  <2>4. QED
    BY <1>9, <1>12, <2>1, <2>2, <2>3 DEF ReportsAreWhole
<1>16. /\ proc' \in {"exiting", "dead"} => armed' >= Weight
       /\ proc' # "dead"
  BY <1>1, <1>2 DEF At, Orderly
<1>17. QED
  BY <1>2, <1>6, <1>7, <1>8, <1>13, <1>14, <1>15, <1>16, OrderlyThen

(* Nothing has been reported while anything but setupAtExit runs.          *)
LEMMA NothingReported ==
  ASSUME IInv, RunInv, AloneInv, LeavesByReturn(source), Orderly,
         NEW t \in Threads, NEW op, At(t, op), TopOf(t).fn # "setupAtExit"
  PROVE  reports = <<>>
<1>1. PICK S, s, top :
        /\ s = stack[t] /\ top = TopOf(t) /\ s[Len(s)] = top /\ Len(s) \in DOMAIN s
        /\ InOrder(s, handlers, reports, proc)
  BY MainStack
<1>2. QED
  BY <1>1 DEF InOrder, SetupsLast

(* A call.                                                                 *)
LEMMA OrderlyCall ==
  ASSUME IInv, RunInv, AloneInv, LeavesByReturn(source), Orderly, UNCHANGED vars,
         NEW t \in Threads, CallFn(t)
  PROVE  Orderly'
<1>1. PICK op, sym : op = "call" /\ At(t, op) /\ sym = Code(t).sym
  BY DEF CallFn
<1>2. PICK S, s, top :
        /\ s = stack[t] /\ s \in Seq(S) /\ s # <<>> /\ stack \in [Threads -> Seq(S)]
        /\ top = TopOf(t)
        /\ Len(reports) + HandlersArmed + OwedBy(s) <= armed
        /\ Len(reports) \in Nat /\ HandlersArmed \in Nat /\ armed \in Nat
  BY <1>1, MainStack
<1>3. PICK fr, g, w, v :
        /\ fr = [TopOf(t) EXCEPT !.ip = @ + 1] /\ g = Frame(sym)
        /\ w = Append(Front(stack[t]), fr) /\ v = w \o <<g>>
  OBVIOUS
<1>4. /\ UNCHANGED <<code, proc, handlers, completed, armed, reports>>
      /\ stack' = [stack EXCEPT ![t] = v]
  BY <1>1, <1>3 DEF CallFn
<1>5. stack'[t] = v
  BY <1>2, <1>4, StackNow
<1>6. /\ t = MainThread /\ top.fn # "setupAtExit" /\ ~ IsConstructor(top.fn)
      /\ ~ Registering(top) /\ sym \notin {"main", "setupAtExit"}
  <2>1. Leaves(t, op, sym, top)
    BY <1>1, <1>2, LeavingAt
  <2>2. QED
    BY <1>1, <2>1 DEF Leaves
<1>7. Advanced(fr, TopOf(t))
  <2>1. TopOf(t) \in [fn : {TopOf(t).fn}, bb : Nat \ {0}, ip : Nat \ {0}, reg : {TopOf(t).reg}]
    BY <1>1, AtFacts DEF FrameOK
  <2>2. QED
    BY <1>3, <2>1 DEF Advanced
<1>8. /\ InOrder(w, handlers, reports, proc)
      /\ entered' \in Nat /\ entered' = completed + Unfinished(w)
      /\ OwedBy(s) \in {0, 1}
  BY <1>1, <1>2, <1>3, <1>7, OrderlyAdvance
<1>9. w \in Seq(S \cup {fr}) /\ w # <<>> /\ Last(w) = fr
  <2>1. PICK f : f = Front(s) /\ f \in Seq(S)
    BY <1>2, TopPopped
  <2>2. w = Append(f, fr)
    BY <1>2, <1>3, <2>1
  <2>3. QED
    BY <2>1, <2>2, AppendedLast
<1>10. /\ fr.fn # "setupAtExit" /\ ~ IsConstructor(fr.fn) /\ ~ Registering(fr)
       /\ g.fn = sym /\ g.ip = 1
  <2>1. Weight \in Nat /\ top.ip \in Nat
    BY <1>1, <1>2, AtFacts DEF FrameOK
  <2>2. fr.fn = top.fn /\ fr.bb = top.bb /\ fr.ip = top.ip + 1
    BY <1>2, <1>7 DEF Advanced
  <2>3. ~ Registering(fr)
    BY <1>6, <2>1, <2>2 DEF Registering
  <2>4. QED
    BY <1>3, <1>6, <2>2, <2>3 DEF Frame
<1>11. InOrder(v, handlers, reports, proc)
  <2>1. PICK T : T = S \cup {fr}
    OBVIOUS
  <2>2. w \in Seq(T)
    BY <1>9, <2>1
  <2>3. QED
    BY <1>3, <1>6, <1>8, <1>9, <1>10, <2>2, OrderPushed
<1>12. Unfinished(v) = Unfinished(w)
  BY <1>3, <1>9, <1>10, UnfinishedPushed
<1>13. OwedBy(v) = 0
  <2>1. Last(v) = g
    BY <1>3, <1>9, LastJoined
  <2>2. QED
    BY <1>6, <1>10, <2>1 DEF OwedBy
<1>14. Len(reports') + HandlersArmed' + OwedBy(v) <= armed'
  <2>1. HandlersArmed' = HandlersArmed
    BY <1>4 DEF HandlersArmed
  <2>2. QED
    BY <1>2, <1>4, <1>8, <1>13, <2>1
<1>15. ReportsAreWhole(reports', entered')
  <2>1. reports = <<>>
    BY <1>1, <1>2, <1>6, NothingReported
  <2>2. QED
    BY <1>4, <2>1 DEF ReportsAreWhole
<1>16. /\ proc' \in {"exiting", "dead"} => armed' >= Weight
       /\ proc' # "dead"
  BY <1>1, <1>4 DEF At, Orderly
<1>17. QED
  BY <1>4, <1>5, <1>6, <1>8, <1>11, <1>12, <1>14, <1>15, <1>16, OrderlyThen

(* What a terminator does to the numbers: the block it ends was begun, by  *)
(* itself or before, and is completed.                                     *)
LEMMA BlockEnds ==
  ASSUME IInv, RunInv, AloneInv, LeavesByReturn(source), Orderly,
         NEW t \in Threads, NEW op, At(t, op), Complete(t)
  PROVE  /\ completed' \in Nat /\ entered' \in Nat
         /\ entered' = completed' + Unfinished(Front(stack[t]))
         /\ Unfinished(Front(stack[t])) \in Nat
<1>1. PICK S, s, top :
        /\ s = stack[t] /\ s \in Seq(S) /\ s # <<>>
        /\ top = TopOf(t) /\ top = Last(s) /\ top.ip \in Nat \ {0}
        /\ entered \in Nat /\ completed \in Nat /\ entered = completed + Unfinished(s)
  BY MainStack
<1>2. PICK u : u = Unfinished(Front(s))
  OBVIOUS
<1>3. u \in Nat /\ Unfinished(s) = u + UnderWayAt(top)
  BY <1>1, <1>2, UnfinishedIs
<1>4. CASE top.fn = "setupAtExit"
  <2>1. entered' = entered + 0 /\ completed' = completed + 0
    BY <1>1, <1>4 DEF At, Counted, Complete
  <2>2. UnderWayAt(top) = 0
    BY <1>4 DEF UnderWayAt
  <2>3. entered' = entered /\ completed' = completed /\ entered = completed + u
    BY <1>1, <1>3, <2>1, <2>2
  <2>4. QED
    BY <1>1, <1>2, <1>3, <2>3
<1>5. CASE top.fn # "setupAtExit"
  <2>1. PICK d : d = IF top.ip = 1 THEN 1 ELSE 0
    OBVIOUS
  <2>2. entered' = entered + d /\ completed' = completed + 1 /\ d \in {0, 1}
    BY <1>1, <1>5, <2>1 DEF At, Counted, Complete
  <2>3. UnderWayAt(top) = 1 - d
    BY <1>1, <1>5, <2>1 DEF UnderWayAt
  <2>4. PICK e, e2, c, c2 : /\ e = entered /\ e2 = entered'
                            /\ c = completed /\ c2 = completed'
    OBVIOUS
  <2>5. /\ e \in Nat /\ c \in Nat /\ u \in Nat /\ d \in {0, 1}
        /\ e = c + (u + (1 - d)) /\ e2 = e + d /\ c2 = c + 1
    BY <1>1, <1>3, <2>2, <2>3, <2>4
  <2>6. c2 \in Nat /\ e2 \in Nat /\ e2 = c2 + u
    BY <2>5
  <2>7. QED
    BY <1>1, <1>2, <1>3, <2>4, <2>6
<1>6. QED
  BY <1>4, <1>5

(* A branch.                                                               *)
LEMMA OrderlyBranch ==
  ASSUME IInv, RunInv, AloneInv, LeavesByReturn(source), Orderly, UNCHANGED vars,
         NEW t \in Threads, Branch(t)
  PROVE  Orderly'
<1>1. PICK op, sym : op = "br" /\ At(t, op) /\ sym = Code(t).sym
  BY DEF Branch
<1>2. /\ UNCHANGED <<code, proc, handlers, armed, reports>> /\ Complete(t)
      /\ \E m \in Code(t).to :
           GoTo(t, [fn |-> TopOf(t).fn, bb |-> m, ip |-> 1, reg |-> 0])
  BY DEF Branch
<1>3. PICK m \in Code(t).to :
        GoTo(t, [fn |-> TopOf(t).fn, bb |-> m, ip |-> 1, reg |-> 0])
  BY <1>2
<1>4. PICK S, s, top :
        /\ s = stack[t] /\ s \in Seq(S) /\ s # <<>> /\ stack \in [Threads -> Seq(S)]
        /\ top = TopOf(t) /\ top = Last(s)
        /\ InOrder(s, handlers, reports, proc)
        /\ Len(reports) + HandlersArmed + OwedBy(s) <= armed
        /\ Len(reports) \in Nat /\ HandlersArmed \in Nat /\ armed \in Nat
  BY <1>1, MainStack
<1>5. PICK fr, w : /\ fr = [fn |-> top.fn, bb |-> m, ip |-> 1, reg |-> 0]
                   /\ w = Append(Front(s), fr)
  OBVIOUS
<1>6. stack'[t] = w
  BY <1>3, <1>4, <1>5, StackNow DEF GoTo
<1>7. t = MainThread /\ top.fn # "setupAtExit"
  <2>1. Leaves(t, op, sym, top)
    BY <1>1, <1>4, LeavingAt
  <2>2. QED
    BY <1>1, <2>1 DEF Leaves
<1>8. m # 1
  <2>1. PICK size : /\ InstrOK(Code(t), Len(BlockOf(t)), size, top.fn, top.bb, top.ip)
                    /\ size = Len(Named(code, top.fn).blocks) /\ Code(t).op = "br"
    BY <1>1, <1>4, AtFacts
  <2>2. m \in 2..size
    BY <1>3, <2>1 DEF InstrOK
  <2>3. QED
    BY <2>2
<1>9. fr.fn = top.fn /\ fr.ip = 1 /\ ~ Registering(fr)
  BY <1>5, <1>8 DEF Registering
<1>10. InOrder(w, handlers, reports, proc)
  BY <1>4, <1>5, <1>9, OrderStepped
<1>11. entered' \in Nat /\ entered' = completed' + Unfinished(w)
  <2>1. /\ entered' \in Nat /\ completed' \in Nat
        /\ entered' = completed' + Unfinished(Front(s)) /\ Unfinished(Front(s)) \in Nat
    BY <1>1, <1>2, <1>4, BlockEnds
  <2>2. UnderWayAt(fr) = 0
    BY <1>9 DEF UnderWayAt
  <2>3. Unfinished(w) = Unfinished(Front(s)) + UnderWayAt(fr)
    BY <1>4, <1>5, UnfinishedStepped
  <2>4. Unfinished(w) = Unfinished(Front(s))
    BY <2>1, <2>2, <2>3
  <2>5. QED
    BY <2>1, <2>4
<1>12. OwedBy(w) = 0
  <2>1. PICK f : f = Front(s) /\ f \in Seq(S)
    BY <1>4, TopPopped
  <2>2. w = Append(f, fr)
    BY <1>5, <2>1
  <2>3. Last(w) = fr
    BY <2>1, <2>2, AppendedLast
  <2>4. QED
    BY <1>7, <1>9, <2>3 DEF OwedBy
<1>13. Len(reports') + HandlersArmed' + OwedBy(w) <= armed'
  <2>1. HandlersArmed' = HandlersArmed
    BY <1>2 DEF HandlersArmed
  <2>2. OwedBy(s) \in {0, 1}
    BY DEF OwedBy
  <2>3. QED
    BY <1>2, <1>4, <1>12, <2>1, <2>2
<1>14. ReportsAreWhole(reports', entered')
  <2>1. reports = <<>>
    BY <1>1, <1>4, <1>7, NothingReported
  <2>2. QED
    BY <1>2, <2>1 DEF ReportsAreWhole
<1>15. /\ proc' \in {"exiting", "dead"} => armed' >= Weight
       /\ proc' # "dead"
  BY <1>1, <1>2 DEF At, Orderly
<1>16. QED
  BY <1>2, <1>6, <1>7, <1>10, <1>11, <1>13, <1>14, <1>15, OrderlyThen

(* A return: that of main comes after its registrations.                   *)
LEMMA OrderlyReturn ==
  ASSUME IInv, RunInv, AloneInv, LeavesByReturn(source), Orderly, UNCHANGED vars,
         NEW t \in Threads, Return(t)
  PROVE  Orderly'
<1>1. PICK op, sym : op = "ret" /\ At(t, op) /\ sym = Code(t).sym
  BY DEF Return
<1>2. PICK S, s, top :
        /\ s = stack[t] /\ s \in Seq(S) /\ s # <<>> /\ stack \in [Threads -> Seq(S)]
        /\ top = TopOf(t) /\ s[Len(s)] = top /\ Len(s) \in DOMAIN s
        /\ InOrder(s, handlers, reports, proc)
        /\ Len(reports) + HandlersArmed + OwedBy(s) <= armed
        /\ ReportsAreWhole(reports, entered)
        /\ Len(reports) \in Nat /\ HandlersArmed \in Nat /\ armed \in Nat
  BY <1>1, MainStack
<1>3. /\ t = MainThread /\ ~ Registering(top)
  <2>1. Leaves(t, op, sym, top)
    BY <1>1, <1>2, LeavingAt
  <2>2. QED
    BY <1>1, <2>1 DEF Leaves
<1>4. PICK w : w = Front(s)
  OBVIOUS
<1>5. /\ UNCHANGED <<code, handlers, armed, reports>> /\ Complete(t)
      /\ stack' = [stack EXCEPT ![t] = w]
      /\ IF proc = "running" /\ Len(s) = 1 THEN proc' = "exiting" ELSE proc' = proc
  BY <1>2, <1>3, <1>4 DEF Return
<1>6. stack'[t] = w
  BY <1>2, <1>5, StackNow
<1>7. InOrder(w, handlers, reports, proc')
  BY <1>2, <1>4, <1>5, OrderPopped
<1>8. /\ entered' \in Nat /\ entered' = completed' + Unfinished(w)
  BY <1>1, <1>2, <1>4, <1>5, BlockEnds
<1>9. OwedBy(w) = 0
  <2>1. w \in Seq(S)
    BY <1>2, <1>4, TopPopped
  <2>2. \A k \in DOMAIN w : w[k].fn # "setupAtExit"
    <3>1. GoodStack(t, s, code, armed, proc, exiter)
      BY <1>1, <1>2, AtFacts
    <3>2. QED
      BY <1>2, <1>4, <3>1, StackPopped
  <2>3. w # <<>> => Last(w).fn # "setupAtExit"
    BY <2>1, <2>2, Ends
  <2>4. QED
    BY <2>3 DEF OwedBy
<1>10. Len(reports') + HandlersArmed' + OwedBy(w) <= armed'
  <2>1. HandlersArmed' = HandlersArmed
    BY <1>5 DEF HandlersArmed
  <2>2. OwedBy(s) \in {0, 1}
    BY DEF OwedBy
  <2>3. QED
    BY <1>2, <1>5, <1>9, <2>1, <2>2
<1>11. ReportsAreWhole(reports', entered')
  <2>1. CASE reports = <<>>
    BY <1>5, <2>1 DEF ReportsAreWhole
  <2>2. CASE reports # <<>>
    <3>1. entered' = entered
      BY <1>1, <2>2, NothingBegins
    <3>2. QED
      BY <1>2, <1>5, <3>1
  <2>3. QED
    BY <2>1, <2>2
<1>12. proc' # "dead" /\ (proc' = "exiting" => armed >= Weight)
  <2>1. proc \in {"running", "exiting"} /\ (proc = "exiting" => armed >= Weight)
    BY <1>1 DEF At, Orderly
  <2>2. proc = "running" /\ Len(s) = 1 => armed >= Weight
    <3>1. SUFFICES ASSUME proc = "running", Len(s) = 1 PROVE armed >= Weight
      OBVIOUS
    <3>2. top.fn = "main"
      BY <1>2, <3>1 DEF InOrder, MainAtBottom
    <3>3. /\ FrameOK(code, top) /\ MainArms(top, armed) /\ Weight \in Nat
      BY <1>1, <1>2, AtFacts
    <3>4. top.bb > 1 \/ top.ip > Weight
      BY <1>3, <3>2, <3>3 DEF Registering, FrameOK
    <3>5. QED
      BY <3>2, <3>3, <3>4 DEF MainArms
  <2>3. QED
    BY <1>5, <2>1, <2>2
<1>13. QED
  <2>1. /\ proc' \in {"exiting", "dead"} => armed' >= Weight
        /\ proc' = "dead" => w = <<>> /\ handlers' = <<>>
    BY <1>5, <1>12
  <2>2. InOrder(w, handlers', reports', proc')
    BY <1>5, <1>7
  <2>3. QED
    BY <1>3, <1>6, <1>8, <1>10, <1>11, <2>1, <2>2, OrderlyThen

(* Every instruction keeps the order.                                      *)
LEMMA OrderlyByThread ==
  ASSUME IInv, RunInv, AloneInv, ExactWhenAlone, LeavesByReturn(source), Orderly,
         UNCHANGED vars, NEW t \in Threads, ThreadStep(t)
  PROVE  Orderly'
<1>1. CASE Work(t) \/ Join(t) \/ Load(t) \/ Add(t) \/ Store(t)
  BY <1>1, OrderlySteps
<1>2. CASE CallFn(t)
  BY <1>2, OrderlyCall
<1>3. CASE Spawn(t) \/ Exit(t)
  <2>1. PICK op \in {"spawn", "exit"} : At(t, op)
    BY <1>3 DEF Spawn, Exit
  <2>2. QED
    BY <2>1, LeavingAt DEF Leaves
<1>4. CASE AtExit(t)
  BY <1>4, OrderlyAtExit
<1>5. CASE Printf(t)
  BY <1>5, OrderlyPrintf
<1>6. CASE Branch(t)
  BY <1>6, OrderlyBranch
<1>7. CASE Return(t)
  BY <1>7, OrderlyReturn
<1>8. QED
  BY <1>1, <1>2, <1>3, <1>4, <1>5, <1>6, <1>7 DEF ThreadStep

(* The process between two handlers, and what it has been left with.       *)
LEMMA BetweenHandlers ==
  ASSUME RunInv, AloneInv, LeavesByReturn(source), Orderly, RunHandler \/ Die
  PROVE  /\ exiter = MainThread /\ stack[MainThread] = <<>> /\ proc = "exiting"
         /\ InOrder(<<>>, handlers, reports, "exiting")
         /\ entered \in Nat /\ entered = completed
         /\ Len(reports) + HandlersArmed <= armed /\ armed >= Weight
         /\ Len(reports) \in Nat /\ HandlersArmed \in Nat /\ armed \in Nat
         /\ ReportsAreWhole(reports, entered)
<1>1. proc = "exiting" /\ stack[exiter] = <<>>
  BY DEF RunHandler, Die
<1>2. Alone
  BY DEF AloneInv, LeavesByReturn, Sequential
<1>3. exiter = MainThread /\ stack[MainThread] = <<>> /\ completed \in Nat
  BY <1>1, <1>2 DEF Alone
<1>4. Unfinished(<<>>) = 0 /\ OwedBy(<<>>) = 0
  BY NoneUnfinished DEF OwedBy
<1>5. entered \in Nat /\ entered = completed
  BY <1>3, <1>4 DEF Orderly
<1>6. Len(reports) \in Nat /\ HandlersArmed \in Nat /\ armed \in Nat
  <2>1. Running
    BY DEF RunInv
  <2>2. QED
    BY <2>1, HandlersCounted, LenProperties DEF Running, ReportsAre
<1>7. Len(reports) + HandlersArmed <= armed
  BY <1>3, <1>4, <1>6 DEF Orderly
<1>8. QED
  BY <1>1, <1>3, <1>5, <1>6, <1>7 DEF Orderly

(* exit runs a handler.                                                    *)
LEMMA OrderlyHandler ==
  ASSUME IInv, RunInv, AloneInv, LeavesByReturn(source), Orderly, UNCHANGED vars,
         RunHandler
  PROVE  Orderly'
<1>1. PICK h, g, w : h = Last(handlers) /\ g = Frame(h) /\ w = <<g>>
  OBVIOUS
<1>2. /\ exiter = MainThread /\ stack[MainThread] = <<>> /\ proc = "exiting"
      /\ InOrder(<<>>, handlers, reports, "exiting")
      /\ entered \in Nat /\ entered = completed
      /\ Len(reports) + HandlersArmed <= armed /\ armed >= Weight
      /\ Len(reports) \in Nat /\ HandlersArmed \in Nat /\ armed \in Nat
      /\ ReportsAreWhole(reports, entered)
  BY BetweenHandlers
<1>3. /\ handlers # <<>> /\ handlers' = Front(handlers)
      /\ stack' = [stack EXCEPT ![MainThread] = w]
      /\ UNCHANGED <<code, proc, entered, completed, armed, reports>>
  BY <1>1, <1>2 DEF RunHandler
<1>4. PICK S : stack \in [Threads -> Seq(S)]
  BY DEF RunInv, Running, StackIs
<1>5. stack'[MainThread] = w
  BY <1>3, <1>4, ThreadsAssumption, StackNow
<1>6. PICK H : handlers \in Seq(H)
  BY DEF RunInv, Running, HandlersAre
<1>7. g.fn = h /\ g.ip = 1 /\ DOMAIN w = {1} /\ w[1] = g /\ w # <<>> /\ Last(w) = g
  BY <1>1 DEF Frame, Last
<1>8. InOrder(w, handlers', reports', proc')
  <2>1. InOrder(<<g>>, Front(handlers), reports, "exiting")
    BY <1>1, <1>2, <1>3, <1>6, <1>7, OrderHandled
  <2>2. QED
    BY <1>1, <1>2, <1>3, <2>1
<1>9. Unfinished(w) = 0
  BY <1>7, NoneUnfinished
<1>10. Len(reports') + HandlersArmed' + OwedBy(w) <= armed'
  <2>1. HandlersArmed = Cardinality(ArmedIn(Front(handlers)))
                          + (IF h = "setupAtExit" THEN 1 ELSE 0)
    BY <1>1, <1>3, <1>6, CountedUp DEF HandlersArmed
  <2>2. HandlersArmed' = Cardinality(ArmedIn(Front(handlers)))
    BY <1>3 DEF HandlersArmed, ArmedIn
  <2>3. HandlersArmed' \in Nat
    <3>1. Front(handlers) \in Seq(H)
      BY <1>3, <1>6, TopPopped
    <3>2. QED
      BY <2>2, <3>1, CountedUp
  <2>4. OwedBy(w) = IF h = "setupAtExit" THEN 1 ELSE 0
    BY <1>7 DEF OwedBy
  <2>5. HandlersArmed = HandlersArmed' + OwedBy(w) /\ OwedBy(w) \in {0, 1}
    BY <2>1, <2>2, <2>4
  <2>6. PICK a, b, o : a = HandlersArmed /\ b = HandlersArmed' /\ o = OwedBy(w)
    OBVIOUS
  <2>7. Len(reports) + b + o <= armed
    <3>1. Len(reports) + a <= armed /\ Len(reports) \in Nat /\ armed \in Nat
      BY <1>2, <2>6
    <3>2. b \in Nat /\ o \in {0, 1} /\ a = b + o
      BY <2>3, <2>5, <2>6
    <3>3. QED
      BY <3>1, <3>2
  <2>8. QED
    BY <1>3, <2>6, <2>7
<1>11. QED
  <2>1. /\ entered' \in Nat /\ entered' = completed' + Unfinished(w)
        /\ ReportsAreWhole(reports', entered')
        /\ armed' >= Weight /\ proc' # "dead"
    BY <1>2, <1>3, <1>9
  <2>2. QED
    BY <1>5, <1>8, <1>10, <2>1, OrderlyThen

(* The process ends.                                                       *)
LEMMA OrderlyDeath ==
  ASSUME IInv, RunInv, AloneInv, LeavesByReturn(source), Orderly, UNCHANGED vars, Die
  PROVE  Orderly'
<1>1. /\ stack[MainThread] = <<>>
      /\ InOrder(<<>>, handlers, reports, "exiting")
      /\ entered \in Nat /\ entered = completed
      /\ Len(reports) + HandlersArmed <= armed /\ armed >= Weight
      /\ Len(reports) \in Nat /\ HandlersArmed \in Nat /\ armed \in Nat
      /\ ReportsAreWhole(reports, entered)
  BY BetweenHandlers
<1>2. /\ handlers = <<>> /\ proc' = "dead"
      /\ UNCHANGED <<stack, handlers, entered, completed, armed, reports>>
  BY DEF Die
<1>3. InOrder(<<>>, handlers, reports, "dead")
  BY <1>1 DEF InOrder, MainAtBottom
<1>4. Unfinished(<<>>) = 0 /\ OwedBy(<<>>) = 0
  BY NoneUnfinished DEF OwedBy
<1>5. HandlersArmed' = HandlersArmed
  BY <1>2 DEF HandlersArmed
<1>6. PICK w : w = <<>>
  OBVIOUS
<1>7. /\ stack'[MainThread] = w
      /\ InOrder(w, handlers', reports', proc')
      /\ entered' \in Nat /\ entered' = completed' + Unfinished(w)
      /\ Len(reports') + HandlersArmed' + OwedBy(w) <= armed'
      /\ ReportsAreWhole(reports', entered')
      /\ armed' >= Weight /\ handlers' = <<>>
  BY <1>1, <1>2, <1>3, <1>4, <1>5, <1>6
<1>8. QED
  BY <1>6, <1>7, OrderlyThen

(* Before the process starts there is nothing to order.                    *)
LEMMA OrderlyOff ==
  RunInv /\ proc = "off" /\ entered \in Nat /\ entered = completed => Orderly
<1>1. SUFFICES ASSUME RunInv, proc = "off", entered \in Nat, entered = completed
               PROVE  Orderly
  OBVIOUS
<1>2. stack[MainThread] = <<>> /\ handlers = <<>> /\ reports = <<>> /\ armed = 0
  BY <1>1, ThreadsAssumption DEF RunInv, Running
<1>3. PICK w, h : w = <<>> /\ h = <<>>
  OBVIOUS
<1>4. InOrder(w, h, h, "off")
  BY <1>3 DEF InOrder, MainAtBottom, SetupsFirst, RegisteredEarly, SetupsLast, AllSetups
<1>5. Unfinished(w) = 0 /\ OwedBy(w) = 0
  BY <1>3, NoneUnfinished DEF OwedBy
<1>6. HandlersArmed = 0
  <2>1. ArmedIn(handlers) = {}
    BY <1>2 DEF ArmedIn
  <2>2. QED
    BY <2>1, FS_EmptySet DEF HandlersArmed
<1>7. /\ InOrder(stack[MainThread], handlers, reports, proc)
      /\ entered = completed + Unfinished(stack[MainThread])
      /\ Len(reports) + HandlersArmed + OwedBy(stack[MainThread]) <= armed
      /\ ReportsAreWhole(reports, entered)
  BY <1>1, <1>2, <1>3, <1>4, <1>5, <1>6 DEF ReportsAreWhole
<1>8. QED
  BY <1>1, <1>7 DEF Orderly

(* The process starts: constructors, which are not main, stand on top of   *)
(* it, and nothing is registered.                                          *)
LEMMA OrderlyStart ==
  ASSUME IInv, RunInv, LeavesByReturn(source), Orderly, UNCHANGED vars, Finished,
         Start(ir)
  PROVE  Orderly'
<1>1. PICK w : w = <<Frame("main")>>
                   \o [k \in 1..Len(ir.ctors) |-> Frame(Reverse(ir.ctors)[k])]
  OBVIOUS
<1>2. /\ proc = "off" /\ proc' = "running"
      /\ stack' = [stack EXCEPT ![MainThread] = w]
      /\ UNCHANGED <<handlers, entered, completed, armed, reports>>
  BY <1>1 DEF Start
<1>3. PICK S : stack \in [Threads -> Seq(S)]
  BY DEF RunInv, Running, StackIs
<1>4. /\ stack'[MainThread] = w /\ stack[MainThread] = <<>>
      /\ handlers = <<>> /\ reports = <<>> /\ armed = 0
  BY <1>2, <1>3, ThreadsAssumption, StackNow DEF RunInv, Running
<1>5. /\ DOMAIN w = 1..Len(w) /\ Len(w) \in Nat \ {0} /\ w[1] = Frame("main")
      /\ \A k \in DOMAIN w : \E name : Defines(source, name) /\ w[k] = Frame(name)
      /\ \A k \in DOMAIN w : k # 1 =>
           \E i \in DOMAIN source.ctors : w[k] = Frame(source.ctors[i])
  <2>1. DOMAIN w = 1..Len(w) /\ Len(w) \in Nat \ {0} /\ ConstructorsOnMain(w)
    BY <1>1, StartStack
  <2>2. ASSUME NEW k \in DOMAIN w
        PROVE  \E name : Defines(source, name) /\ w[k] = Frame(name)
    BY <1>1, <2>2, StartStack
  <2>3. ASSUME NEW k \in DOMAIN w, k # 1
        PROVE  \E i \in DOMAIN source.ctors : w[k] = Frame(source.ctors[i])
    BY <2>1, <2>3 DEF ConstructorsOnMain
  <2>4. QED
    BY <2>1, <2>2, <2>3 DEF ConstructorsOnMain
<1>6. ~ Defines(source, "setupAtExit")
  BY Image DEF CodeOK
<1>7. \A k \in DOMAIN w : w[k].ip = 1 /\ w[k].fn # "setupAtExit"
  BY <1>5, <1>6 DEF Frame
<1>8. /\ w # <<>> /\ w[1].fn = "main"
      /\ \A k \in DOMAIN w : k # 1 => w[k].fn # "main" /\ IsConstructor(w[k].fn)
  BY <1>5 DEF Frame, IsConstructor, LeavesByReturn
<1>9. PICK h : h = <<>> /\ DOMAIN h = {}
  OBVIOUS
<1>10. InOrder(w, h, h, "running")
  <2>1. MainAtBottom(w, h, "running") /\ SetupsFirst(h)
    BY <1>8, <1>9 DEF MainAtBottom, SetupsFirst
  <2>2. AllSetups(h) /\ \A k \in DOMAIN w : k > 1 => IsConstructor(w[k].fn)
    BY <1>5, <1>8, <1>9 DEF AllSetups
  <2>3. RegisteredEarly(w, h)
    BY <2>2 DEF RegisteredEarly
  <2>4. SetupsLast(w, h, h)
    BY <1>7, <1>9 DEF SetupsLast
  <2>5. QED
    BY <2>1, <2>3, <2>4 DEF InOrder
<1>11. Unfinished(w) = 0 /\ Unfinished(<<>>) = 0
  BY <1>7, NoneUnfinished
<1>12. OwedBy(w) = 0
  <2>1. Last(w) = w[Len(w)] /\ Len(w) \in DOMAIN w
    BY <1>5 DEF Last
  <2>2. QED
    BY <1>7, <2>1 DEF OwedBy
<1>13. HandlersArmed' = 0
  <2>1. ArmedIn(handlers') = {}
    BY <1>2, <1>4 DEF ArmedIn
  <2>2. QED
    BY <2>1, FS_EmptySet DEF HandlersArmed, ArmedIn
<1>14. QED
  <2>1. entered' \in Nat /\ entered' = completed' + Unfinished(w)
    BY <1>2, <1>4, <1>11 DEF Orderly
  <2>2. Len(reports') + HandlersArmed' + OwedBy(w) <= armed'
    BY <1>2, <1>4, <1>12, <1>13
  <2>3. ReportsAreWhole(reports', entered')
    BY <1>2, <1>4 DEF ReportsAreWhole
  <2>4. InOrder(w, handlers', reports', proc')
    BY <1>2, <1>4, <1>9, <1>10
  <2>5. QED
    BY <1>2, <1>4, <2>1, <2>2, <2>3, <2>4, OrderlyThen

(* Every step of the whole keeps the order.                                *)
LEMMA OrderlyStep ==
  ASSUME IInv, RunInv, AloneInv, ExactWhenAlone, OrderlyInv, [WholeNext]_allVars
  PROVE  OrderlyInv'
<1>1. CASE Compile
  <2>1. proc = "off" /\ UNCHANGED runVars /\ source' = source
    BY <1>1, CompilesFirst
       DEF Compile, StartPass, CountStep, PosixStep
  <2>2. SUFFICES ASSUME LeavesByReturn(source) PROVE Orderly'
    BY <2>1 DEF OrderlyInv, LeavesByReturn
  <2>3. Orderly /\ stack[MainThread] = <<>>
    BY <2>1, <2>2, ThreadsAssumption DEF OrderlyInv, RunInv, Running
  <2>4. Alone
    BY <2>2 DEF AloneInv, LeavesByReturn, Sequential
  <2>5. entered \in Nat /\ entered = completed
    <3>1. Unfinished(<<>>) = 0
      BY NoneUnfinished
    <3>2. QED
      BY <2>3, <2>4, <3>1 DEF Orderly, Alone
  <2>6. RunInv' /\ (proc = "off" /\ entered \in Nat /\ entered = completed)'
    BY <2>1, <2>5, RunInvStep DEF runVars
  <2>7. (RunInv /\ proc = "off" /\ entered \in Nat /\ entered = completed => Orderly)'
    BY OrderlyOff, PTL
  <2>8. QED
    BY <2>6, <2>7
<1>2. CASE Execute
  <2>1. UNCHANGED vars /\ Finished /\ source' = source
    BY <1>2, OptRests DEF Execute
  <2>2. SUFFICES ASSUME LeavesByReturn(source) PROVE Orderly'
    BY <2>1 DEF OrderlyInv, LeavesByReturn
  <2>3. Orderly
    BY <2>2 DEF OrderlyInv
  <2>4. CASE Start(ir)
    BY <2>1, <2>2, <2>3, <2>4, OrderlyStart
  <2>5. CASE ExitStep
    BY <2>1, <2>2, <2>3, <2>5, OrderlyHandler, OrderlyDeath DEF ExitStep
  <2>6. CASE \E t \in Threads : ThreadStep(t)
    BY <2>1, <2>2, <2>3, <2>6, OrderlyByThread
  <2>7. QED
    BY <1>2, <2>4, <2>5, <2>6 DEF Execute
<1>3. CASE Over \/ UNCHANGED allVars
  <2>1. UNCHANGED <<vars, runVars>>
    BY <1>3 DEF Over, allVars
  <2>2. source' = source
    BY <2>1, OptRests
  <2>3. SUFFICES ASSUME LeavesByReturn(source) PROVE Orderly'
    BY <2>2 DEF OrderlyInv, LeavesByReturn
  <2>4. Orderly
    BY <2>3 DEF OrderlyInv
  <2>5. UNCHANGED <<proc, stack, handlers, entered, completed, armed, reports>>
    BY <2>1 DEF runVars
  <2>6. HandlersArmed' = HandlersArmed
    BY <2>5 DEF HandlersArmed
  <2>7. PICK w : w = stack'[MainThread]
    OBVIOUS
  <2>8. /\ InOrder(w, handlers', reports', proc')
        /\ entered' \in Nat /\ entered' = completed' + Unfinished(w)
        /\ Len(reports') + HandlersArmed' + OwedBy(w) <= armed'
        /\ ReportsAreWhole(reports', entered')
        /\ proc' \in {"exiting", "dead"} => armed' >= Weight
        /\ proc' = "dead" => w = <<>> /\ handlers' = <<>>
    BY <2>4, <2>5, <2>6, <2>7 DEF Orderly
  <2>9. QED
    BY <2>1, <2>7, <2>8, OrderlyThen
<1>4. QED
  BY <1>1, <1>2, <1>3 DEF WholeNext

(* A program that main leaves by return keeps the order.                   *)
LEMMA OrderlyHolds == WholeSpec => []OrderlyInv
<1>1. WholeInit => OrderlyInv
  <2>1. SUFFICES ASSUME WholeInit PROVE Orderly
    BY DEF OrderlyInv
  <2>2. RunInv /\ proc = "off" /\ entered \in Nat /\ entered = completed
    BY <2>1, RunInvInit DEF WholeInit, RunInit
  <2>3. QED
    BY <2>2, OrderlyOff
<1>2. IInv /\ RunInv /\ AloneInv /\ ExactWhenAlone /\ OrderlyInv /\ [WholeNext]_allVars
        => OrderlyInv'
  BY OrderlyStep
<1>3. QED
  BY <1>1, <1>2, Whole, PipelineInvariant, RunInvariant, AloneHolds, AloneLosesNothing,
     PTL DEF WholeSpec

(* When the process of such a program is over it has made each report that *)
(* is due, of the whole run: no block begins after the first of them, and  *)
(* what is owed at the end is nothing.                                     *)
THEOREM ReportsAreOfTheWholeRun == WholeSpec => []WholeRunReported
<1>1. ASSUME IInv, RunInv, AloneInv, OrderlyInv, proc = "dead", LeavesByReturn(source)
      PROVE  /\ Len(reports) = armed /\ armed >= Weight
             /\ ReportsAreWhole(reports, entered)
  <2>1. Orderly
    BY <1>1 DEF OrderlyInv
  <2>2. stack[MainThread] = <<>> /\ handlers = <<>> /\ armed >= Weight
    BY <1>1, <2>1 DEF Orderly
  <2>3. Alone
    BY <1>1 DEF AloneInv, LeavesByReturn, Sequential
  <2>4. HandlersArmed = 0
    <3>1. ArmedIn(handlers) = {}
      BY <2>2 DEF ArmedIn
    <3>2. QED
      BY <3>1, FS_EmptySet DEF HandlersArmed
  <2>5. Owed = 0 /\ OwedBy(stack[MainThread]) = 0
    BY <2>2, <2>3 DEF Owed, OwedBy, Alone
  <2>6. Len(reports) \in Nat /\ armed \in Nat
    BY <1>1, LenProperties DEF RunInv, Running, ReportsAre
  <2>7. armed <= Len(reports)
    BY <1>1, <2>4, <2>5, <2>6 DEF RunInv, ReportsOwed
  <2>8. Len(reports) <= armed
    BY <2>1, <2>4, <2>5, <2>6 DEF Orderly
  <2>9. QED
    BY <2>1, <2>2, <2>6, <2>7, <2>8 DEF Orderly
<1>2. IInv /\ RunInv /\ AloneInv /\ OrderlyInv => WholeRunReported
  BY <1>1 DEF WholeRunReported, ReportsAreWhole
<1>3. QED
  BY <1>2, Whole, PipelineInvariant, RunInvariant, AloneHolds, OrderlyHolds, PTL
================================================================================
