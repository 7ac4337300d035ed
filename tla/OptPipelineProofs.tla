-------------------------- MODULE OptPipelineProofs ----------------------------
(***************************************************************************)
(* Proofs about OptPipeline, for every set of modules that verify, every   *)
(* pipeline and either build: the two passes keep a module a module, the   *)
(* counting code is in every block once per run of count-bb, the handler   *)
(* prints the variable the blocks increment, and what opt writes verifies. *)
(***************************************************************************)
EXTENDS OptPipeline, FiniteSetTheorems, SequenceTheorems, TLAPS

(* The position in the pipeline belongs to the pass that runs.             *)
AtPass ==
  /\ source \in Modules
  /\ passes \in Pipelines
  /\ at \in 0..Len(passes)
  /\ fn \in Nat \ {0} /\ bb \in Nat \ {0}
  /\ pc \in {"setup", "blocks", "posix", "done", "failed"}
  /\ pc = "setup" => fn = 1 /\ bb = 1
  /\ pc \in {"setup", "blocks"} => at > 0 /\ passes[at] = "count-bb"
  /\ pc = "posix" => at > 0 /\ passes[at] = "posix-main"

(* The module is one over some set of names, to which setup may add one,   *)
(* of functions told apart by their names and blocks that are not empty.   *)
UniqueNames(M) ==
  \A k, m \in DOMAIN M.funcs : M.funcs[k].name = M.funcs[m].name => k = m
NoEmptyBlock(M) ==
  \A k \in DOMAIN M.funcs : \A m \in DOMAIN M.funcs[k].blocks :
    M.funcs[k].blocks[m] # <<>>
PassNames ==
  { "main", "setupAtExit", "atexit", "printf", "bbCounter", "",
    "void()", "int(void())", "int(char*,...)", "int(int,char**)",
    "load", "add", "store", "ret", "void" }
ModuleOK ==
  \E names :
    /\ PassNames \subseteq names
    /\ IsModule(source, names) /\ IsModule(ir, names)
    /\ UniqueNames(ir) /\ NoEmptyBlock(ir)

(* How often setup has been through, how often block m of function k has   *)
(* been given the counting code, how often POSIXizeMain has.               *)
Setups ==
  IF pc = "setup" THEN Runs("count-bb") - 1 ELSE Runs("count-bb")
Behind(k, m) == k < fn \/ (k = fn /\ m < bb)
Countings(k, m) ==
  IF pc = "setup" \/ (pc = "blocks" /\ ~ Behind(k, m))
  THEN Runs("count-bb") - 1 ELSE Runs("count-bb")
Posixizations ==
  IF pc = "posix" THEN Runs("posix-main") - 1 ELSE Runs("posix-main")

(* What has been made so far of the blocks of the program: function k of   *)
(* the module is instrumented as function j of the program has to be.      *)
Instrumented(k, j) ==
  LET new == ir.funcs[k].blocks
      old == source.funcs[j].blocks
  IN  /\ Len(new) = Len(old)
      /\ \A m \in DOMAIN old :
           new[m] = CountedBlock(old[m],
                      RegisteredIn(source.funcs[j].name, m, Setups),
                      Countings(k, m))

BlocksSoFar ==
  NoReservedName(source) /\ pc # "failed" =>
    /\ FunctionNames(source) \subseteq FunctionNames(ir)
    /\ \A k \in DOMAIN ir.funcs, j \in DOMAIN source.funcs :
         ir.funcs[k].name = source.funcs[j].name => Instrumented(k, j)

(* The first setup finds the names free, and every later one leaves what   *)
(* the first has made of setupAtExit.                                      *)
HandlerCode == <<Instr("load", "bbCounter"), Instr("printf", ""), Ret("void")>>
HandlerSoFar ==
  NoReservedName(source) /\ pc # "failed" =>
    /\ Setups = 0 => {"setupAtExit", "bbCounter"} \cap Symbols(ir) = {}
    /\ Setups > 0 =>
         /\ "setupAtExit" \in FunctionNames(ir)
         /\ \A k \in DOMAIN ir.funcs : ir.funcs[k].name = "setupAtExit" =>
              /\ ir.funcs[k].blocks # <<>>
              /\ ir.funcs[k].blocks[1] = HandlerCode

(* The main of the module is the program's or the one POSIXizeMain makes.  *)
MainSoFar ==
  pc # "failed" =>
    /\ "main" \in FunctionNames(ir) <=> "main" \in FunctionNames(source)
    /\ \A k \in DOMAIN ir.funcs : ir.funcs[k].name = "main" =>
         /\ ir.funcs[k].sig \in {Named(source, "main").sig, "int(int,char**)"}
         /\ /\ Posixizations > 0
            /\ Named(source, "main").sig \notin Posix!OtherTwoParameters
            => ir.funcs[k].sig = "int(int,char**)"

VerifiesSoFar == ~ MainIsVoid(source) /\ pc # "failed" => Verifies(ir)

(* Constructors stay what they are, and so does the first setup's counter. *)
GlobalsSoFar ==
  /\ ir.ctors = source.ctors
  /\ NoReservedName(source) /\ pc # "failed" /\ Setups > 0 =>
       "bbCounter" \in DOMAIN ir.gvars /\ ir.gvars["bbCounter"].init = 0

IInv ==
  /\ AtPass /\ ModuleOK
  /\ BlocksSoFar /\ HandlerSoFar /\ GlobalsSoFar /\ MainSoFar /\ VerifiesSoFar

--------------------------------------------------------------------------------
(* Sequences *)

(* n times a sequence is a sequence, n times as long.                      *)
LEMMA TimesIsSeq ==
  ASSUME NEW S, NEW code \in Seq(S), Len(code) \in Nat \ {0}, NEW n \in Nat
  PROVE  /\ Times(n, code) \in Seq(S)
         /\ Len(Times(n, code)) = n * Len(code)
<1>1. n * Len(code) \in Nat
  OBVIOUS
<1>2. \A k \in 1..n * Len(code) : ((k - 1) % Len(code)) + 1 \in 1..Len(code)
  OBVIOUS
<1>3. QED
  BY <1>1, <1>2 DEF Times

(* A sequence made of two, element by element, is their concatenation.     *)
LEMMA Concatenated ==
  ASSUME NEW S, NEW s \in Seq(S), NEW u \in Seq(S), NEW t \in Seq(S),
         Len(t) = Len(s) + Len(u),
         \A i \in 1..Len(t) : i <= Len(s) => t[i] = s[i],
         \A i \in 1..Len(t) : i > Len(s) => t[i] = u[i - Len(s)]
  PROVE  t = s \o u
<1>1. s \o u \in Seq(S) /\ Len(s \o u) = Len(t)
  OBVIOUS
<1>2. ASSUME NEW i \in 1..Len(t) PROVE t[i] = (s \o u)[i]
  OBVIOUS
<1>3. QED
  BY <1>1, <1>2, SeqEqual

(* Once more is once more at the end.                                      *)
LEMMA OneMore ==
  ASSUME NEW S, NEW code \in Seq(S), Len(code) \in {1, 3}, NEW n \in Nat
  PROVE  Times(n + 1, code) = Times(n, code) \o code
<1> DEFINE L == Len(code)
           N == n * L
           s == Times(n, code)
           t == Times(n + 1, code)
<1>1. L \in Nat \ {0} /\ N \in Nat /\ (n + 1) * L = N + L /\ n + 1 \in Nat
  <2>1. CASE L = 1
    BY <2>1
  <2>2. CASE L = 3
    BY <2>2
  <2>3. QED
    BY <2>1, <2>2
<1>2. \A k \in 1..N + L : k > N => ((k - 1) % L) + 1 = k - N
  <2>1. CASE L = 1
    BY <2>1
  <2>2. CASE L = 3
    BY <2>2
  <2>3. QED
    BY <2>1, <2>2
<1>3. /\ s \in Seq(S) /\ Len(s) = N
      /\ t \in Seq(S) /\ Len(t) = N + L
  BY <1>1, TimesIsSeq
<1>4. /\ \A k \in 1..N : s[k] = code[((k - 1) % L) + 1]
      /\ \A k \in 1..N + L : t[k] = code[((k - 1) % L) + 1]
  BY <1>1 DEF Times
<1>a. Len(code) = L /\ code \in Seq(S)
  OBVIOUS
<1> HIDE DEF N, L, s, t
<1>5. ASSUME NEW i \in 1..N + L PROVE i <= N => t[i] = s[i]
  BY <1>1, <1>4
<1>6. ASSUME NEW i \in 1..N + L PROVE i > N => t[i] = code[i - N]
  BY <1>1, <1>2, <1>4
<1>7. t = s \o code
  BY <1>a, <1>3, <1>5, <1>6, Concatenated, ZenonT(40)
<1>8. QED
  BY <1>7 DEF s, t

(* With one instruction, it is once more at the front too.                 *)
LEMMA OneMoreBefore ==
  ASSUME NEW S, NEW code \in Seq(S), Len(code) = 1, NEW n \in Nat
  PROVE  Times(n + 1, code) = code \o Times(n, code)
<1> DEFINE s == Times(n, code)
           t == Times(n + 1, code)
<1>1. n + 1 \in Nat /\ n * Len(code) = n /\ (n + 1) * Len(code) = n + 1
      /\ Len(code) \in Nat \ {0}
  OBVIOUS
<1>2. s \in Seq(S) /\ Len(s) = n /\ t \in Seq(S) /\ Len(t) = n + 1
  BY <1>1, TimesIsSeq
<1>3. (\A k \in 1..n : s[k] = code[1]) /\ (\A k \in 1..n + 1 : t[k] = code[1])
  BY <1>1 DEF Times
<1> HIDE DEF s, t
<1>4. \A i \in 1..Len(t) : i <= Len(code) => t[i] = code[i]
  BY <1>2, <1>3
<1>5. \A i \in 1..Len(t) : i > Len(code) => t[i] = s[i - Len(code)]
  BY <1>2, <1>3
<1>6. Len(t) = Len(code) + Len(s)
  BY <1>2
<1>7. t = code \o s
  BY <1>2, <1>4, <1>5, <1>6, Concatenated
<1>8. QED
  BY <1>7 DEF s, t
(* The only element makes the sequence.                                    *)
LEMMA Single ==
  ASSUME NEW S, NEW s \in Seq(S), Len(s) = 1
  PROVE  s = <<s[1]>>
OBVIOUS

(* Three elements make a sequence.                                         *)
LEMMA Three ==
  ASSUME NEW S, NEW a \in S, NEW b \in S, NEW c \in S
  PROVE  <<a, b, c>> \in Seq(S) /\ Len(<<a, b, c>>) = 3
<1>1. <<a, b, c>> \in Seq(S)
  OBVIOUS
<1>2. Len(<<a, b, c>>) = 3
  OBVIOUS
<1>3. QED
  BY <1>1, <1>2

(* An element at the end of a sequence.                                    *)
LEMMA LastOf ==
  ASSUME NEW S, NEW s \in Seq(S), NEW x \in Seq(S), Len(x) = 1
  PROVE  /\ Len(s) \in Nat
         /\ s \o x \in Seq(S)
         /\ Len(s \o x) = Len(s) + 1
         /\ s \o x # <<>>
         /\ (s \o x)[Len(s) + 1] = x[1]
         /\ SubSeq(s \o x, 1, Len(s)) = s
<1>1. Len(s) \in Nat
  BY LenProperties
<1>2. s \o x \in Seq(S) /\ Len(s \o x) = Len(s) + Len(x)
  BY ConcatProperties
<1>3. \A i \in 1..Len(s) + Len(x) : (s \o x)[i] =
        IF i <= Len(s) THEN s[i] ELSE x[i - Len(s)]
  BY ConcatProperties
<1>4. Len(s \o x) = Len(s) + 1
  BY <1>2
<1>a. (Len(s) + 1) - Len(s) = 1 /\ ~ (Len(s) + 1 <= Len(s))
      /\ Len(s) + 1 \in 1..Len(s) + Len(x)
  BY <1>1
<1>5. s \o x # <<>>
  BY <1>1, <1>2, <1>4, EmptySeq
<1>6. (s \o x)[Len(s) + 1] = x[1]
  BY <1>a, <1>3
<1> DEFINE t == s \o x
<1>7. t \in Seq(S) /\ Len(t) = Len(s) + 1 /\ \A i \in 1..Len(s) : t[i] = s[i]
  BY <1>1, <1>2, <1>3, <1>4
<1> HIDE DEF t
<1>8. /\ SubSeq(t, 1, Len(s)) \in Seq(S)
      /\ Len(SubSeq(t, 1, Len(s))) = Len(s)
      /\ \A i \in 1..Len(s) : SubSeq(t, 1, Len(s))[i] = s[i]
  BY <1>1, <1>7
<1>9. SubSeq(t, 1, Len(s)) = s
  BY <1>8, SeqEqual
<1>10. QED
  BY <1>1, <1>2, <1>4, <1>5, <1>6, <1>9 DEF t

(* What InsertBefore makes of a block, in front and before the last.       *)
LEMMA Inserted ==
  ASSUME NEW S, NEW block \in Seq(S), block # <<>>, NEW code \in Seq(S)
  PROVE  /\ InsertBefore(block, 1, code) = code \o block
         /\ InsertBefore(block, Len(block), code) =
              SubSeq(block, 1, Len(block) - 1) \o code \o <<block[Len(block)]>>
<1>1. Len(block) \in Nat \ {0} /\ block[Len(block)] \in S
  BY EmptySeq, ElementOfSeq
<1>2. SubSeq(block, 1, 1 - 1) = <<>>
  BY SubSeqEmpty
<1>3. SubSeq(block, 1, Len(block)) = block
  BY SubSeqFull
<1>4. SubSeq(block, Len(block), Len(block)) = <<block[Len(block)]>>
  <2>1. /\ SubSeq(block, Len(block), Len(block)) \in Seq(S)
        /\ Len(SubSeq(block, Len(block), Len(block))) = 1
        /\ SubSeq(block, Len(block), Len(block))[1] = block[Len(block)]
    BY <1>1
  <2>2. QED
    BY <2>1, Single
<1>5. <<>> \o code = code
  BY ConcatEmptySeq
<1>6. QED
  BY <1>2, <1>3, <1>4, <1>5 DEF InsertBefore

(* The parts of a CountedBlock.                                            *)
LEMMA Parts ==
  ASSUME NEW names, PassNames \subseteq names,
         NEW old \in Seq(Instructions(names)), old # <<>>,
         NEW r \in Nat, NEW n \in Nat
  PROVE  /\ Registration \in Seq(Instructions(names)) /\ Len(Registration) = 1
         /\ Counting \in Seq(Instructions(names)) /\ Len(Counting) = 3
         /\ Times(r, Registration) \in Seq(Instructions(names))
         /\ Times(n, Counting) \in Seq(Instructions(names))
         /\ SubSeq(old, 1, Len(old) - 1) \in Seq(Instructions(names))
         /\ <<old[Len(old)]>> \in Seq(Instructions(names))
<1>1. \A op \in PassNames, sym \in PassNames :
        Instr(op, sym) \in Instructions(names)
  BY DEF Instr, Instructions
<1>3. Registration \in Seq(Instructions(names)) /\ Len(Registration) = 1
  <2>1. Instr("atexit", "setupAtExit") \in Instructions(names)
    BY <1>1 DEF PassNames
  <2>2. QED
    BY <2>1 DEF Registration
<1>4. Counting \in Seq(Instructions(names)) /\ Len(Counting) = 3
  <2>1. /\ Instr("load", "bbCounter") \in Instructions(names)
        /\ Instr("add", "") \in Instructions(names)
        /\ Instr("store", "bbCounter") \in Instructions(names)
    BY <1>1 DEF PassNames
  <2>2. QED
    BY <2>1, Three DEF Counting
<1>5. /\ Times(r, Registration) \in Seq(Instructions(names))
      /\ Times(n, Counting) \in Seq(Instructions(names))
  <2>1. Len(Registration) \in Nat \ {0} /\ Len(Counting) \in Nat \ {0}
    BY <1>3, <1>4
  <2>2. QED
    BY <1>3, <1>4, <2>1, TimesIsSeq
<1>6. Len(old) \in Nat \ {0} /\ old[Len(old)] \in Instructions(names)
  BY EmptySeq, ElementOfSeq
<1>7. SubSeq(old, 1, Len(old) - 1) \in Seq(Instructions(names))
  BY <1>6
<1>8. <<old[Len(old)]>> \in Seq(Instructions(names))
  BY <1>6
<1>9. QED
  BY <1>3, <1>4, <1>5, <1>7, <1>8

(* Concatenation associates.                                               *)
Associate(s, t, u) == (s \o t) \o u = s \o (t \o u)

LEMMA Associates ==
  ASSUME NEW S, NEW s \in Seq(S), NEW t \in Seq(S), NEW u \in Seq(S)
  PROVE  Associate(s, t, u)
BY ConcatAssociative DEF Associate

(* Inserting in a block of which the last instruction is told apart.       *)
InsertsAround(front, last, code) ==
  /\ front \o last # <<>>
  /\ InsertBefore(front \o last, Len(front \o last), code) =
       front \o code \o last
  /\ InsertBefore(front \o last, 1, code) = code \o front \o last

LEMMA InsertedAround ==
  ASSUME NEW S, NEW front \in Seq(S), NEW last \in Seq(S), Len(last) = 1,
         NEW code \in Seq(S)
  PROVE  front \o last \in Seq(S) /\ InsertsAround(front, last, code)
<1>1. PICK block : block = front \o last
  OBVIOUS
<1>2. /\ Len(front) \in Nat /\ block \in Seq(S) /\ block # <<>>
      /\ Len(block) = Len(front) + 1 /\ block[Len(front) + 1] = last[1]
      /\ SubSeq(block, 1, Len(front)) = front
  BY <1>1, LastOf
<1>3. Len(block) - 1 = Len(front) /\ block[Len(block)] = last[1]
  BY <1>2
<1>4. last = <<last[1]>>
  BY Single
<1>5. InsertBefore(block, Len(block), code) = front \o code \o last
  <2>1. InsertBefore(block, Len(block), code) =
          SubSeq(block, 1, Len(block) - 1) \o code \o <<block[Len(block)]>>
    BY <1>2, Inserted
  <2>2. SubSeq(block, 1, Len(block) - 1) = front /\ <<block[Len(block)]>> = last
    BY <1>2, <1>3, <1>4
  <2>3. QED
    BY <2>1, <2>2
<1>6. InsertBefore(block, 1, code) = code \o (front \o last)
  BY <1>1, <1>2, Inserted
<1>7. Associate(code, front, last)
  BY Associates
<1>8. QED
  BY <1>1, <1>2, <1>5, <1>6, <1>7 DEF Associate, InsertsAround

(* Regrouping three sequences and a fourth.                                *)
Regroup(R, body, C, code) ==
  /\ (R \o body \o C) \o code = R \o body \o (C \o code)
  /\ code \o (R \o body \o C) = code \o R \o body \o C

LEMMA Regrouped ==
  ASSUME NEW S, NEW R \in Seq(S), NEW body \in Seq(S), NEW C \in Seq(S),
         NEW code \in Seq(S)
  PROVE  R \o body \o C \in Seq(S) /\ Regroup(R, body, C, code)
<1>1. PICK Rb \in Seq(S) : Rb = R \o body
  BY ConcatProperties
<1>2. Associate(code, R, body) /\ Associate(Rb, C, code) /\ Associate(code, Rb, C)
  BY Associates
<1>3. Rb \o C \in Seq(S)
  BY ConcatProperties
<1>4. QED
  BY <1>1, <1>2, <1>3 DEF Associate, Regroup

(* A block counted once more, and one whose main is registered once more.  *)
LEMMA CountedMore ==
  ASSUME NEW names, PassNames \subseteq names,
         NEW old \in Seq(Instructions(names)), old # <<>>,
         NEW r \in Nat, NEW n \in Nat
  PROVE  LET block == CountedBlock(old, r, n) IN
         /\ block \in Seq(Instructions(names)) /\ block # <<>>
         /\ InsertBefore(block, Len(block), Counting) = CountedBlock(old, r, n + 1)
         /\ InsertBefore(block, 1, Registration) = CountedBlock(old, r + 1, n)
<1> DEFINE S == Instructions(names)
<1>1. PICK last : last = <<old[Len(old)]>>
  OBVIOUS
<1>2. last \in Seq(S) /\ Len(last) = 1
  <2>1. last \in Seq(S)
    BY <1>1, Parts
  <2>2. QED
    BY <1>1
<1>3. Times(n + 1, Counting) = Times(n, Counting) \o Counting
  BY Parts, OneMore
<1>4. Times(r + 1, Registration) = Registration \o Times(r, Registration)
  BY Parts, OneMoreBefore
<1>5. PICK R, body, C :
        /\ R = Times(r, Registration) /\ C = Times(n, Counting)
        /\ body = SubSeq(old, 1, Len(old) - 1)
  OBVIOUS
<1>6. /\ R \in Seq(S) /\ body \in Seq(S) /\ C \in Seq(S)
      /\ Registration \in Seq(S) /\ Counting \in Seq(S)
  BY <1>5, Parts
<1>7. PICK front : front = R \o body \o C
  OBVIOUS
<1>8. /\ front \in Seq(S)
      /\ front \o Counting = R \o body \o (C \o Counting)
      /\ Registration \o front = Registration \o R \o body \o C
  <2>1. Regroup(R, body, C, Counting) /\ Regroup(R, body, C, Registration)
    BY <1>6, Regrouped
  <2>2. R \o body \o C \in Seq(S)
    BY <1>6, Regrouped
  <2>3. QED
    BY <1>7, <2>1, <2>2 DEF Regroup
<1>9. CountedBlock(old, r, n) = front \o last
  BY <1>1, <1>5, <1>7 DEF CountedBlock
<1>10. CountedBlock(old, r, n + 1) = front \o Counting \o last
  BY <1>1, <1>3, <1>5, <1>8 DEF CountedBlock
<1>11. CountedBlock(old, r + 1, n) = Registration \o front \o last
  BY <1>1, <1>4, <1>5, <1>8 DEF CountedBlock
<1>12. InsertsAround(front, last, Counting) /\ InsertsAround(front, last, Registration)
  BY <1>2, <1>6, <1>8, InsertedAround
<1>13. front \o last \in Seq(S)
  BY <1>2, <1>8, ConcatProperties
<1>14. QED
  BY <1>9, <1>10, <1>11, <1>12, <1>13 DEF InsertsAround

(* Before either pass, a block is as it was.                               *)
LEMMA NotYetCounted ==
  ASSUME NEW S, NEW old \in Seq(S), old # <<>>
  PROVE  CountedBlock(old, 0, 0) = old
<1>1. Times(0, Registration) = <<>> /\ Times(0, Counting) = <<>>
  BY DEF Times, Registration, Counting
<1>2. Len(old) \in Nat \ {0} /\ old[Len(old)] \in S
  BY EmptySeq, ElementOfSeq
<1>3. SubSeq(old, 1, Len(old) - 1) \in Seq(S)
  BY <1>2
<1>4. /\ <<>> \o SubSeq(old, 1, Len(old) - 1) = SubSeq(old, 1, Len(old) - 1)
      /\ SubSeq(old, 1, Len(old) - 1) \o <<>> = SubSeq(old, 1, Len(old) - 1)
  BY <1>3, ConcatEmptySeq
<1>5. SubSeq(old, 1, Len(old)) = SubSeq(old, 1, Len(old) - 1) \o <<old[Len(old)]>>
  BY <1>2, SubSeqRecursiveSecond
<1>6. SubSeq(old, 1, Len(old)) = old
  BY SubSeqFull
<1>7. QED
  BY <1>1, <1>4, <1>5, <1>6 DEF CountedBlock

--------------------------------------------------------------------------------
(* The steps of the passes, in the operators of IR *)

(* The operators of IR are the same in both passes.                        *)
LEMMA CountIR ==
  /\ \A M : Count!FunctionNames(M) = FunctionNames(M)
  /\ \A M : Count!Symbols(M) = Symbols(M)
  /\ \A M, name : Count!Position(M, name) = Position(M, name)
  /\ \A M, name : Count!Named(M, name) = Named(M, name)
  /\ \A M, name, sig : Count!MayGetOrInsert(M, name, sig) = MayGetOrInsert(M, name, sig)
  /\ \A M, name, sig : Count!GetOrInsert(M, name, sig) = GetOrInsert(M, name, sig)
  /\ \A block, pos, code : Count!InsertBefore(block, pos, code) = InsertBefore(block, pos, code)
  /\ \A op, sym : Count!Instr(op, sym) = Instr(op, sym)
  /\ \A type : Count!Ret(type) = Ret(type)
BY DEF Count!FunctionNames, FunctionNames, Count!Symbols, Symbols,
  Count!Position, Position, Count!Named, Named,
  Count!MayGetOrInsert, MayGetOrInsert, Count!GetOrInsert, GetOrInsert,
  Count!InsertBefore, InsertBefore, Count!Instr, Instr, Count!Ret, Ret,
  Count!Func, Func

LEMMA PosixIR ==
  /\ \A M : Posix!FunctionNames(M) = FunctionNames(M)
  /\ \A M, name : Posix!Position(M, name) = Position(M, name)
  /\ \A M, name : Posix!Named(M, name) = Named(M, name)
  /\ \A name, sig, blocks : Posix!Func(name, sig, blocks) = Func(name, sig, blocks)
BY DEF Posix!FunctionNames, FunctionNames,
  Posix!Position, Position, Posix!Named, Named, Posix!Func, Func

HandlerBlock(counter) ==
  <<Instr("load", counter), Instr("printf", ""), Ret("void")>>

Declared(M) ==
  GetOrInsert(GetOrInsert(M, "setupAtExit", "void()"), "atexit", "int(void())")

Registered(M) ==
  [M EXCEPT !.funcs[Position(M, "main")].blocks[1] =
     InsertBefore(@, 1, Registration)]

Handled(M, counter) ==
  [GetOrInsert(M, "printf", "int(char*,...)")
     EXCEPT !.funcs[Position(M, "setupAtExit")].blocks =
       Append(@, HandlerBlock(counter))]

LEMMA SetupIs ==
  ASSUME Count!Setup
  PROVE  LET counter == Count!FreshName(ir) IN
         /\ pc = "setup" /\ pc' = "blocks"
         /\ "main" \in FunctionNames(ir)
         /\ Named(ir, "main").blocks # <<>>
         /\ MayGetOrInsert(ir, "setupAtExit", "void()")
         /\ ir' = Handled(Registered(Declared(Count!AddCounter(ir, counter))), counter)
         /\ UNCHANGED <<input, fn, bb>>
<1>1. /\ \A M : Count!RegisterInMain(M) = Registered(M)
      /\ \A M, counter : Count!create_atexitCall(M, counter) = Handled(M, counter)
  BY CountIR DEF Count!RegisterInMain, Registered, Count!create_atexitCall, Handled,
     HandlerBlock, Registration, Count!k_atexitCallStr
<1>2. QED
  BY <1>1, CountIR DEF Count!Setup, Count!CanSetup, Declared, Count!k_atexitCallStr

LEMMA BlockIs ==
  ASSUME Count!RunOnBasicBlock
  PROVE  /\ pc = "blocks" /\ pc' = pc
         /\ fn <= Len(ir.funcs) /\ ir.funcs[fn].name # "setupAtExit"
         /\ bb <= Len(ir.funcs[fn].blocks)
         /\ ir' = [ir EXCEPT !.funcs[fn].blocks[bb] =
                     InsertBefore(@, Len(@), Counting)]
         /\ bb' = bb + 1
         /\ UNCHANGED <<input, fn>>
BY CountIR DEF Count!RunOnBasicBlock, Count!InLoop, Count!Skipped, Count!F,
  Count!CountingCode, Counting, Count!bbCounterStr, Count!k_atexitCallStr

LEMMA PosixizedIs ==
  \A M : Posix!Posixized(M) =
    LET k == Position(M, "main")
        newMain == Func("main", "int(int,char**)", M.funcs[k].blocks)
    IN  [M EXCEPT !.funcs =
           SubSeq(@, 1, k - 1) \o SubSeq(@, k + 1, Len(@)) \o <<newMain>>]
BY PosixIR DEF Posix!Posixized

--------------------------------------------------------------------------------
(* What the steps make of a module *)

(* Where a function is, and what it is.                                    *)
LEMMA PositionOf ==
  ASSUME NEW M, NEW name, name \in FunctionNames(M)
  PROVE  /\ Position(M, name) \in DOMAIN M.funcs
         /\ M.funcs[Position(M, name)].name = name
         /\ Named(M, name) = M.funcs[Position(M, name)]
BY DEF FunctionNames, Position, Named

(* The parts of a module have the types IsModule says.                     *)
LEMMA Shape ==
  ASSUME NEW names, NEW M, IsModule(M, names)
  PROVE  /\ M.funcs \in Seq(FunctionDefs(names))
         /\ DOMAIN M.funcs = 1..Len(M.funcs) /\ Len(M.funcs) \in Nat
         /\ \A k \in DOMAIN M.funcs :
              /\ M.funcs[k] \in FunctionDefs(names)
              /\ M.funcs[k].name \in names /\ M.funcs[k].sig \in names
              /\ M.funcs[k].blocks \in Seq(Seq(Instructions(names)))
              /\ DOMAIN M.funcs[k].blocks = 1..Len(M.funcs[k].blocks)
              /\ Len(M.funcs[k].blocks) \in Nat
              /\ \A m \in DOMAIN M.funcs[k].blocks :
                   /\ M.funcs[k].blocks[m] \in Seq(Instructions(names))
                   /\ DOMAIN M.funcs[k].blocks[m] = 1..Len(M.funcs[k].blocks[m])
                   /\ Len(M.funcs[k].blocks[m]) \in Nat
                   /\ \A n \in DOMAIN M.funcs[k].blocks[m] :
                        M.funcs[k].blocks[m][n] \in Instructions(names)
<1>1. M.funcs \in Seq(FunctionDefs(names))
  BY DEF IsModule
<1>2. DOMAIN M.funcs = 1..Len(M.funcs) /\ Len(M.funcs) \in Nat
  BY <1>1
<1>3. ASSUME NEW k \in DOMAIN M.funcs PROVE M.funcs[k] \in FunctionDefs(names)
  BY <1>1, <1>2
<1>4. \A blocks \in Seq(Seq(Instructions(names))) :
        /\ DOMAIN blocks = 1..Len(blocks) /\ Len(blocks) \in Nat
        /\ \A m \in DOMAIN blocks : blocks[m] \in Seq(Instructions(names))
  OBVIOUS
<1>5. \A block \in Seq(Instructions(names)) :
        /\ DOMAIN block = 1..Len(block) /\ Len(block) \in Nat
        /\ \A n \in DOMAIN block : block[n] \in Instructions(names)
  OBVIOUS
<1>6. QED
  BY <1>1, <1>2, <1>3, <1>4, <1>5 DEF FunctionDefs

(* A module stays one when more names are allowed.                         *)
LEMMA Widened ==
  ASSUME NEW names, NEW more, names \subseteq more, NEW M, IsModule(M, names)
  PROVE  IsModule(M, more)
<1>1. Instructions(names) \subseteq Instructions(more)
  BY DEF Instructions
<1>2. Seq(Instructions(names)) \subseteq Seq(Instructions(more))
  BY <1>1, SeqMonotonic
<1>3. Seq(Seq(Instructions(names))) \subseteq Seq(Seq(Instructions(more)))
  BY <1>2, SeqMonotonic
<1>4. FunctionDefs(names) \subseteq FunctionDefs(more)
  BY <1>3 DEF FunctionDefs
<1>5. M.funcs \in Seq(FunctionDefs(more))
  BY <1>4, Shape, SeqMonotonic
<1>6. QED
  BY <1>5 DEF IsModule

(* A new global variable, which starts at 0.                               *)
CounterIn(M, N, counter) ==
  /\ DOMAIN N.gvars = DOMAIN M.gvars \cup {counter}
  /\ N.gvars[counter].init = 0
  /\ \A g \in DOMAIN M.gvars : g # counter => N.gvars[g] = M.gvars[g]

LEMMA CounterAdded ==
  ASSUME NEW names, NEW M, IsModule(M, names), NEW counter
  PROVE  LET N == Count!AddCounter(M, counter) IN
         /\ IsModule(N, names)
         /\ N.funcs = M.funcs /\ N.ctors = M.ctors
         /\ CounterIn(M, N, counter)
BY DEF Count!AddCounter, Count!I64Zero, CounterIn, IsModule

(* N is M with the function `name`, declared at the end if M had no such   *)
(* symbol.                                                                 *)
WithFunction(M, N, name, sig) ==
  /\ UniqueNames(N)
  /\ N.gvars = M.gvars /\ N.ctors = M.ctors
  /\ DOMAIN M.funcs \subseteq DOMAIN N.funcs
  /\ \A k \in DOMAIN M.funcs : N.funcs[k] = M.funcs[k]
  /\ \A k \in DOMAIN N.funcs \ DOMAIN M.funcs :
       N.funcs[k] = Func(name, sig, <<>>) /\ name \notin Symbols(M)
  /\ FunctionNames(N) =
       FunctionNames(M) \cup (IF name \in Symbols(M) THEN {} ELSE {name})

LEMMA GetOrInserted ==
  ASSUME NEW names, NEW M, IsModule(M, names), UniqueNames(M),
         NEW name \in names, NEW sig \in names
  PROVE  /\ IsModule(GetOrInsert(M, name, sig), names)
         /\ WithFunction(M, GetOrInsert(M, name, sig), name, sig)
<1>1. CASE name \in Symbols(M)
  BY <1>1 DEF GetOrInsert, WithFunction
<1>2. CASE name \notin Symbols(M)
  <2> DEFINE func == Func(name, sig, <<>>)
             N == GetOrInsert(M, name, sig)
  <2>1. func \in FunctionDefs(names)
    BY EmptySeq DEF Func, FunctionDefs
  <2>2. N = [M EXCEPT !.funcs = Append(@, func)]
    BY <1>2 DEF GetOrInsert
  <2>3. func.name = name
    BY DEF Func
  <2> HIDE DEF func, N
  <2>4. /\ N.funcs = Append(M.funcs, func) /\ N.gvars = M.gvars
        /\ N.ctors = M.ctors
        /\ N \in [funcs : {N.funcs}, gvars : {N.gvars}, ctors : {N.ctors}]
    BY <2>2 DEF IsModule
  <2>5. /\ N.funcs \in Seq(FunctionDefs(names))
        /\ DOMAIN N.funcs = 1..Len(M.funcs) + 1
        /\ \A k \in 1..Len(M.funcs) : N.funcs[k] = M.funcs[k]
        /\ N.funcs[Len(M.funcs) + 1] = func
    BY <2>1, <2>4, Shape
  <2>6. IsModule(N, names)
    BY <2>4, <2>5 DEF IsModule
  <2>7. /\ DOMAIN M.funcs \subseteq DOMAIN N.funcs
        /\ \A k \in DOMAIN M.funcs : N.funcs[k] = M.funcs[k]
        /\ \A k \in DOMAIN N.funcs \ DOMAIN M.funcs : k = Len(M.funcs) + 1
        /\ Len(M.funcs) + 1 \in DOMAIN N.funcs
    BY <2>5, Shape
  <2>8. \A k \in DOMAIN M.funcs : M.funcs[k].name # name
    BY <1>2 DEF Symbols, FunctionNames
  <2>9. UniqueNames(N)
    BY <2>3, <2>5, <2>7, <2>8 DEF UniqueNames
  <2>10. FunctionNames(N) = FunctionNames(M) \cup {name}
    BY <2>3, <2>5, <2>7 DEF FunctionNames
  <2>11. QED
    BY <1>2, <2>4, <2>5, <2>6, <2>7, <2>9, <2>10 DEF N, func, WithFunction
<1>3. QED
  BY <1>1, <1>2

(* N is M with other blocks in function k.                                 *)
WithBlocks(M, N, k, blocks) ==
  /\ N.gvars = M.gvars /\ N.ctors = M.ctors
  /\ DOMAIN N.funcs = DOMAIN M.funcs
  /\ \A j \in DOMAIN M.funcs :
       /\ N.funcs[j].name = M.funcs[j].name
       /\ N.funcs[j].sig = M.funcs[j].sig
       /\ j # k => N.funcs[j] = M.funcs[j]
  /\ N.funcs[k].blocks = blocks
  /\ FunctionNames(N) = FunctionNames(M)

LEMMA Reblocked ==
  ASSUME NEW names, NEW M, IsModule(M, names), NEW k \in DOMAIN M.funcs,
         NEW blocks \in Seq(Seq(Instructions(names)))
  PROVE  /\ IsModule([M EXCEPT !.funcs[k].blocks = blocks], names)
         /\ WithBlocks(M, [M EXCEPT !.funcs[k].blocks = blocks], k, blocks)
<1> DEFINE N == [M EXCEPT !.funcs[k].blocks = blocks]
           func == [M.funcs[k] EXCEPT !.blocks = blocks]
<1>1. M.funcs[k] \in FunctionDefs(names)
  BY Shape
<1>2. /\ func \in FunctionDefs(names)
      /\ func.name = M.funcs[k].name /\ func.sig = M.funcs[k].sig
      /\ func.blocks = blocks
  BY <1>1 DEF FunctionDefs
<1>3. /\ N.funcs = [M.funcs EXCEPT ![k] = func] /\ N.gvars = M.gvars
      /\ N.ctors = M.ctors
      /\ N \in [funcs : {N.funcs}, gvars : {N.gvars}, ctors : {N.ctors}]
  BY DEF IsModule
<1> HIDE DEF N, func
<1>4. N.funcs \in Seq(FunctionDefs(names))
  BY <1>2, <1>3, Shape
<1>5. /\ DOMAIN N.funcs = DOMAIN M.funcs
      /\ N.funcs[k] = func
      /\ \A j \in DOMAIN M.funcs : j # k => N.funcs[j] = M.funcs[j]
  BY <1>3, Shape
<1>6. IsModule(N, names)
  BY <1>3, <1>4 DEF IsModule
<1>7. FunctionNames(N) = FunctionNames(M)
  BY <1>2, <1>5 DEF FunctionNames
<1>8. QED
  BY <1>2, <1>3, <1>5, <1>6, <1>7 DEF N, WithBlocks

(* The parts of a declaration.                                             *)
LEMMA Declaration ==
  ASSUME NEW func, NEW name, NEW sig, func = Func(name, sig, <<>>)
  PROVE  func.name = name /\ func.sig = sig /\ func.blocks = <<>>
BY DEF Func

(* The new variable has a name no symbol has, and the plain one if it can. *)
LEMMA FreshNameIs ==
  ASSUME NEW M
  PROVE  /\ Count!FreshName(M) \notin
              Symbols(M) \cup {"setupAtExit", "atexit", "printf"}
         /\ "bbCounter" \notin Symbols(M) => Count!FreshName(M) = "bbCounter"
<1> DEFINE Free == {k \in DOMAIN Count!FreshNames :
                      Count!FreshNames[k] \notin Count!Symbols(M)}
           taken == Count!Symbols(M) \cup
                      {Count!k_atexitCallStr, "atexit", "printf"}
<1>0. /\ Count!Symbols(M) = Symbols(M)
      /\ taken = Symbols(M) \cup {"setupAtExit", "atexit", "printf"}
  BY CountIR DEF Count!k_atexitCallStr
<1>1. /\ Count!FreshNames[1] = "bbCounter" /\ Count!FreshNames[2] = "bbCounter.1"
      /\ Count!FreshNames[3] = "bbCounter.2" /\ DOMAIN Count!FreshNames = 1..3
  BY DEF Count!FreshNames, Count!bbCounterStr
<1>2. Count!FreshName(M) =
        IF Free = {} THEN CHOOSE name : name \notin taken
        ELSE Count!FreshNames[CHOOSE k \in Free : \A m \in Free : k <= m]
  BY DEF Count!FreshName
<1>3. \E name : name \notin taken
  <2> DEFINE russell == {x \in taken : x \notin x}
  <2>1. russell \notin taken
    OBVIOUS
  <2>2. QED
    BY <2>1
<1>4. CASE Free = {}
  <2>1. Count!FreshName(M) \notin taken
    <3> HIDE DEF taken
    <3>1. QED
      BY <1>2, <1>3, <1>4
  <2>2. "bbCounter" \in Symbols(M)
    <3>1. 1 \in 1..3
      OBVIOUS
    <3>2. QED
      BY <1>0, <1>1, <1>4, <3>1
  <2>3. QED
    BY <1>0, <2>1, <2>2
<1>5. CASE Free # {}
  <2>1. \E k \in Free : \A m \in Free : k <= m
    BY <1>1, <1>5
  <2> DEFINE k == CHOOSE k \in Free : \A m \in Free : k <= m
  <2>2. k \in Free /\ \A m \in Free : k <= m
    BY <2>1
  <2>3. Count!FreshName(M) = Count!FreshNames[k]
    BY <1>2, <1>5
  <2> HIDE DEF k
  <2>4. Count!FreshName(M) \notin Symbols(M)
    BY <1>0, <2>2, <2>3
  <2>5. Count!FreshName(M) \notin {"setupAtExit", "atexit", "printf"}
    BY <1>1, <2>2, <2>3
  <2>6. "bbCounter" \notin Symbols(M) => k = 1
    BY <1>0, <1>1, <2>2
  <2>7. QED
    BY <1>1, <2>3, <2>4, <2>5, <2>6
<1>6. QED
  BY <1>4, <1>5

(* Code in front of a block.                                               *)
LEMMA InsertedInFront ==
  ASSUME NEW names, PassNames \subseteq names,
         NEW block \in Seq(Instructions(names))
  PROVE  InsertBefore(block, 1, Registration) = Registration \o block
         /\ InsertBefore(block, 1, Registration) \in Seq(Instructions(names))
<1>1. Registration \in Seq(Instructions(names))
  <2>1. Instr("atexit", "setupAtExit") \in Instructions(names)
    BY DEF Instr, Instructions, PassNames
  <2>2. QED
    BY <2>1 DEF Registration
<1>2. SubSeq(block, 1, 1 - 1) = <<>>
  BY SubSeqEmpty
<1>3. SubSeq(block, 1, Len(block)) = block
  BY SubSeqFull
<1>4. <<>> \o Registration = Registration
  BY <1>1, ConcatEmptySeq
<1>5. Registration \o block \in Seq(Instructions(names))
  BY <1>1, ConcatProperties
<1>6. QED
  BY <1>2, <1>3, <1>4, <1>5 DEF InsertBefore

(* N is M in which main registers the handler first of all.                *)
MainRegisters(M, N) ==
  /\ UniqueNames(N)
  /\ N.gvars = M.gvars /\ N.ctors = M.ctors
  /\ DOMAIN N.funcs = DOMAIN M.funcs
  /\ FunctionNames(N) = FunctionNames(M)
  /\ \A k \in DOMAIN M.funcs :
       /\ N.funcs[k].name = M.funcs[k].name
       /\ N.funcs[k].sig = M.funcs[k].sig
       /\ M.funcs[k].name # "main" => N.funcs[k] = M.funcs[k]
       /\ M.funcs[k].name = "main" =>
            N.funcs[k].blocks = [M.funcs[k].blocks EXCEPT
                                   ![1] = InsertBefore(@, 1, Registration)]

LEMMA RegisteredIs ==
  ASSUME NEW names, PassNames \subseteq names, NEW M, IsModule(M, names),
         UniqueNames(M), "main" \in FunctionNames(M),
         Named(M, "main").blocks # <<>>
  PROVE  IsModule(Registered(M), names) /\ MainRegisters(M, Registered(M))
<1> DEFINE m == Position(M, "main")
           old == M.funcs[m].blocks
           new == [old EXCEPT ![1] = InsertBefore(@, 1, Registration)]
<1>1. /\ m \in DOMAIN M.funcs /\ M.funcs[m].name = "main"
      /\ old # <<>>
      /\ \A k \in DOMAIN M.funcs : M.funcs[k].name = "main" => k = m
  BY PositionOf DEF UniqueNames
<1>2. Registered(M) = [M EXCEPT !.funcs[m].blocks = new]
  BY DEF Registered
<1> HIDE DEF m
<1>3. old \in Seq(Seq(Instructions(names)))
  BY <1>1, Shape
<1>4. 1 \in DOMAIN old /\ 1 \in 1..Len(old)
  BY <1>1, <1>3, EmptySeq
<1>5. old[1] \in Seq(Instructions(names))
  BY <1>3, <1>4
<1>6. InsertBefore(old[1], 1, Registration) \in Seq(Instructions(names))
  BY <1>5, InsertedInFront
<1>7. new = [old EXCEPT ![1] = InsertBefore(old[1], 1, Registration)]
  OBVIOUS
<1> HIDE DEF old
<1>8. new \in Seq(Seq(Instructions(names)))
  BY <1>3, <1>4, <1>6, ExceptSeq
<1> HIDE DEF new
<1> DEFINE N == [M EXCEPT !.funcs[m].blocks = new]
<1>9. IsModule(N, names) /\ WithBlocks(M, N, m, new)
  BY <1>1, <1>8, Reblocked
<1> HIDE DEF N
<1>10. UniqueNames(N)
  BY <1>9 DEF UniqueNames, WithBlocks
<1>11. \A k \in DOMAIN M.funcs : M.funcs[k].name = "main" =>
         N.funcs[k].blocks = [M.funcs[k].blocks EXCEPT
                                ![1] = InsertBefore(@, 1, Registration)]
  BY <1>1, <1>9 DEF new, old, WithBlocks
<1>12. QED
  BY <1>1, <1>2, <1>9, <1>10, <1>11 DEF N, WithBlocks, MainRegisters

(* setupAtExit gets the printing block.                                    *)
LEMMA HandlerBlockIs ==
  ASSUME NEW names, PassNames \subseteq names, NEW counter \in names
  PROVE  /\ HandlerBlock(counter) \in Seq(Instructions(names))
         /\ Len(HandlerBlock(counter)) = 3
<1>1. /\ Instr("load", counter) \in Instructions(names)
      /\ Instr("printf", "") \in Instructions(names)
      /\ Ret("void") \in Instructions(names)
  BY DEF Instr, Ret, Instructions, PassNames
<1>2. QED
  BY <1>1, Three DEF HandlerBlock

(* N is M with printf, and with the printing block in setupAtExit.         *)
HandlerAdded(M, N, counter) ==
  /\ UniqueNames(N)
  /\ N.gvars = M.gvars /\ N.ctors = M.ctors
  /\ DOMAIN M.funcs \subseteq DOMAIN N.funcs
  /\ FunctionNames(N) = FunctionNames(M) \cup
       (IF "printf" \in Symbols(M) THEN {} ELSE {"printf"})
  /\ \A k \in DOMAIN M.funcs :
       /\ N.funcs[k].name = M.funcs[k].name
       /\ N.funcs[k].sig = M.funcs[k].sig
       /\ M.funcs[k].name # "setupAtExit" => N.funcs[k] = M.funcs[k]
       /\ M.funcs[k].name = "setupAtExit" =>
            N.funcs[k].blocks =
              Append(M.funcs[k].blocks, HandlerBlock(counter))
  /\ \A k \in DOMAIN N.funcs \ DOMAIN M.funcs :
       /\ N.funcs[k] = Func("printf", "int(char*,...)", <<>>)
       /\ "printf" \notin Symbols(M)

LEMMA HandledIs ==
  ASSUME NEW names, PassNames \subseteq names, NEW M, IsModule(M, names),
         UniqueNames(M), "setupAtExit" \in FunctionNames(M),
         NEW counter \in names
  PROVE  /\ IsModule(Handled(M, counter), names)
         /\ HandlerAdded(M, Handled(M, counter), counter)
<1> DEFINE h == Position(M, "setupAtExit")
           P == GetOrInsert(M, "printf", "int(char*,...)")
           new == Append(P.funcs[h].blocks, HandlerBlock(counter))
           N == [P EXCEPT !.funcs[h].blocks = new]
<1>1. /\ h \in DOMAIN M.funcs /\ M.funcs[h].name = "setupAtExit"
      /\ \A k \in DOMAIN M.funcs : M.funcs[k].name = "setupAtExit" => k = h
  BY PositionOf DEF UniqueNames
<1>2. Handled(M, counter) = N
  BY DEF Handled
<1>3. "printf" \in names /\ "int(char*,...)" \in names
  BY DEF PassNames
<1>4. /\ IsModule(P, names)
      /\ WithFunction(M, P, "printf", "int(char*,...)")
  BY <1>3, GetOrInserted
<1> HIDE DEF h, P
<1>5. h \in DOMAIN P.funcs
  BY <1>1, <1>4 DEF WithFunction
<1>6. new \in Seq(Seq(Instructions(names)))
  <2>1. P.funcs[h].blocks \in Seq(Seq(Instructions(names)))
    BY <1>4, <1>5, Shape
  <2>2. QED
    BY <2>1, HandlerBlockIs
<1> HIDE DEF new
<1>7. IsModule(N, names) /\ WithBlocks(P, N, h, new)
  BY <1>4, <1>5, <1>6, Reblocked
<1> HIDE DEF N
<1>8. UniqueNames(N)
  BY <1>4, <1>7 DEF UniqueNames, WithBlocks, WithFunction
<1>9. \A k \in DOMAIN M.funcs :
        /\ N.funcs[k].name = M.funcs[k].name
        /\ N.funcs[k].sig = M.funcs[k].sig
        /\ M.funcs[k].name # "setupAtExit" => N.funcs[k] = M.funcs[k]
  BY <1>1, <1>4, <1>7 DEF WithBlocks, WithFunction
<1>10. \A k \in DOMAIN M.funcs : M.funcs[k].name = "setupAtExit" =>
         N.funcs[k].blocks = Append(M.funcs[k].blocks, HandlerBlock(counter))
  BY <1>1, <1>4, <1>7 DEF new, WithBlocks, WithFunction
<1>11. \A k \in DOMAIN N.funcs \ DOMAIN M.funcs :
         /\ N.funcs[k] = Func("printf", "int(char*,...)", <<>>)
         /\ "printf" \notin Symbols(M)
  BY <1>1, <1>4, <1>7 DEF WithBlocks, WithFunction
<1>12. N.gvars = M.gvars /\ N.ctors = M.ctors /\ DOMAIN M.funcs \subseteq DOMAIN N.funcs
  BY <1>4, <1>7 DEF WithBlocks, WithFunction
<1>13. FunctionNames(N) = FunctionNames(M) \cup
         (IF "printf" \in Symbols(M) THEN {} ELSE {"printf"})
  BY <1>4, <1>7 DEF WithBlocks, WithFunction
<1>14. QED
  BY <1>2, <1>7, <1>8, <1>9, <1>10, <1>11, <1>12, <1>13 DEF HandlerAdded

(* What setup makes of M: nothing but main's first block and setupAtExit   *)
(* changes, and at most three functions are new.                           *)
SetUp(M, N, counter) ==
  /\ UniqueNames(N)
  /\ CounterIn(M, N, counter) /\ N.ctors = M.ctors
  /\ DOMAIN M.funcs \subseteq DOMAIN N.funcs
  /\ FunctionNames(M) \cup {"setupAtExit"} \subseteq FunctionNames(N)
  /\ \A k \in DOMAIN M.funcs :
       /\ N.funcs[k].name = M.funcs[k].name
       /\ N.funcs[k].sig = M.funcs[k].sig
       /\ M.funcs[k].name \notin {"main", "setupAtExit"} =>
            N.funcs[k] = M.funcs[k]
       /\ M.funcs[k].name = "main" =>
            N.funcs[k].blocks = [M.funcs[k].blocks EXCEPT
                                   ![1] = InsertBefore(@, 1, Registration)]
       /\ M.funcs[k].name = "setupAtExit" =>
            /\ N.funcs[k].sig = "void()"
            /\ N.funcs[k].blocks =
                 Append(M.funcs[k].blocks, HandlerBlock(counter))
  /\ \A k \in DOMAIN N.funcs \ DOMAIN M.funcs :
       /\ N.funcs[k].name \in {"setupAtExit", "atexit", "printf"}
       /\ N.funcs[k].name \notin Symbols(M)
       /\ N.funcs[k].name # "setupAtExit" => N.funcs[k].blocks = <<>>
       /\ N.funcs[k].name = "setupAtExit" =>
            /\ N.funcs[k].sig = "void()"
            /\ N.funcs[k].blocks = Append(<<>>, HandlerBlock(counter))

LEMMA SetupMakes ==
  ASSUME NEW names, PassNames \subseteq names, NEW M, IsModule(M, names),
         UniqueNames(M), NEW counter \in names,
         counter \notin Symbols(M) \cup {"setupAtExit", "atexit", "printf"},
         "main" \in FunctionNames(M), Named(M, "main").blocks # <<>>,
         MayGetOrInsert(M, "setupAtExit", "void()")
  PROVE  LET N == Handled(Registered(Declared(Count!AddCounter(M, counter))), counter)
         IN  IsModule(N, names) /\ SetUp(M, N, counter)
<1> DEFINE M1 == Count!AddCounter(M, counter)
           M2 == GetOrInsert(M1, "setupAtExit", "void()")
           M3 == GetOrInsert(M2, "atexit", "int(void())")
           M4 == Registered(M3)
           N == Handled(M4, counter)
<1>0. N = Handled(Registered(Declared(M1)), counter)
  BY DEF Declared
<1>1. /\ IsModule(M1, names) /\ M1.funcs = M.funcs /\ M1.ctors = M.ctors
      /\ CounterIn(M, M1, counter)
      /\ DOMAIN M1.gvars = DOMAIN M.gvars \cup {counter}
  BY CounterAdded DEF CounterIn
<1> HIDE DEF M1
<1>2. /\ UniqueNames(M1)
      /\ FunctionNames(M1) = FunctionNames(M)
      /\ Symbols(M1) = Symbols(M) \cup {counter}
  BY <1>1 DEF UniqueNames, FunctionNames, Symbols
<1>3. /\ "setupAtExit" \in names /\ "void()" \in names /\ "atexit" \in names
      /\ "int(void())" \in names
  BY DEF PassNames
<1>4. IsModule(M2, names) /\ WithFunction(M1, M2, "setupAtExit", "void()")
  BY <1>1, <1>2, <1>3, GetOrInserted
<1> HIDE DEF M2
<1>5. UniqueNames(M2)
  BY <1>4 DEF WithFunction
<1>6. IsModule(M3, names) /\ WithFunction(M2, M3, "atexit", "int(void())")
  BY <1>3, <1>4, <1>5, GetOrInserted
<1> HIDE DEF M3
<1>7. "setupAtExit" \in FunctionNames(M2)
  <2>1. CASE "setupAtExit" \in Symbols(M1)
    <3>1. "setupAtExit" \in Symbols(M)
      BY <1>2, <2>1
    <3>2. "setupAtExit" \in FunctionNames(M)
      BY <3>1 DEF MayGetOrInsert
    <3>3. QED
      BY <1>2, <1>4, <3>2 DEF WithFunction
  <2>2. CASE "setupAtExit" \notin Symbols(M1)
    BY <1>4, <2>2 DEF WithFunction
  <2>3. QED
    BY <2>1, <2>2
<1>8. /\ FunctionNames(M) \cup {"setupAtExit"} \subseteq FunctionNames(M3)
      /\ UniqueNames(M3)
      /\ \A k \in DOMAIN M.funcs : k \in DOMAIN M3.funcs /\ M3.funcs[k] = M.funcs[k]
  BY <1>1, <1>2, <1>4, <1>6, <1>7 DEF WithFunction
<1>9. \A k \in DOMAIN M3.funcs \ DOMAIN M.funcs :
        /\ M3.funcs[k].name \notin Symbols(M) \cup {"main", "printf"}
        /\ M3.funcs[k].name \in {"setupAtExit", "atexit"}
        /\ M3.funcs[k].blocks = <<>>
        /\ M3.funcs[k].name = "setupAtExit" => M3.funcs[k].sig = "void()"
  <2>1. ASSUME NEW k \in DOMAIN M3.funcs, k \notin DOMAIN M.funcs,
               k \in DOMAIN M2.funcs
        PROVE  M3.funcs[k] = Func("setupAtExit", "void()", <<>>)
               /\ "setupAtExit" \notin Symbols(M)
    BY <1>1, <1>2, <1>4, <1>6, <2>1 DEF WithFunction
  <2>2. ASSUME NEW k \in DOMAIN M3.funcs, k \notin DOMAIN M2.funcs
        PROVE  M3.funcs[k] = Func("atexit", "int(void())", <<>>)
               /\ "atexit" \notin Symbols(M)
    <3>1. M3.funcs[k] = Func("atexit", "int(void())", <<>>)
          /\ "atexit" \notin Symbols(M2)
      BY <1>6, <2>2 DEF WithFunction
    <3>2. Symbols(M) \subseteq Symbols(M2)
      BY <1>1, <1>2, <1>4 DEF WithFunction, Symbols
    <3>3. QED
      BY <3>1, <3>2
  <2>3. QED
    BY <2>1, <2>2 DEF Func
<1>10. Named(M3, "main").blocks # <<>> /\ "main" \in FunctionNames(M3)
  <2>1. "main" \in FunctionNames(M3)
    BY <1>8
  <2>2. /\ Position(M, "main") \in DOMAIN M.funcs
        /\ M.funcs[Position(M, "main")].name = "main"
        /\ Named(M, "main") = M.funcs[Position(M, "main")]
    BY PositionOf
  <2>3. /\ Position(M3, "main") \in DOMAIN M3.funcs
        /\ M3.funcs[Position(M3, "main")].name = "main"
        /\ Named(M3, "main") = M3.funcs[Position(M3, "main")]
    BY <2>1, PositionOf
  <2>4. Position(M, "main") = Position(M3, "main")
    BY <1>8, <2>2, <2>3 DEF UniqueNames
  <2>5. QED
    BY <1>8, <2>1, <2>2, <2>3, <2>4
<1>11. IsModule(M4, names) /\ MainRegisters(M3, M4)
  BY <1>6, <1>8, <1>10, RegisteredIs
<1> HIDE DEF M4
<1>12. "setupAtExit" \in FunctionNames(M4) /\ UniqueNames(M4)
  BY <1>8, <1>11 DEF MainRegisters
<1>13. IsModule(N, names) /\ HandlerAdded(M4, N, counter)
  BY <1>11, <1>12, HandledIs
<1> HIDE DEF N
<1>14. Symbols(M) \subseteq Symbols(M4)
  BY <1>1, <1>4, <1>6, <1>8, <1>11 DEF WithFunction, MainRegisters, Symbols
<1>15. ASSUME NEW k \in DOMAIN M.funcs
       PROVE  /\ k \in DOMAIN M4.funcs /\ k \in DOMAIN N.funcs
              /\ N.funcs[k].name = M.funcs[k].name
              /\ N.funcs[k].sig = M.funcs[k].sig
              /\ M.funcs[k].name \notin {"main", "setupAtExit"} =>
                   N.funcs[k] = M.funcs[k]
              /\ M.funcs[k].name = "main" =>
                   N.funcs[k].blocks = [M.funcs[k].blocks EXCEPT
                                          ![1] = InsertBefore(@, 1, Registration)]
              /\ M.funcs[k].name = "setupAtExit" =>
                   N.funcs[k].blocks =
                     Append(M.funcs[k].blocks, HandlerBlock(counter))
  <2>1. k \in DOMAIN M3.funcs /\ M3.funcs[k] = M.funcs[k]
    BY <1>8
  <2>2. /\ k \in DOMAIN M4.funcs
        /\ M4.funcs[k].name = M.funcs[k].name
        /\ M4.funcs[k].sig = M.funcs[k].sig
        /\ M.funcs[k].name # "main" => M4.funcs[k] = M.funcs[k]
        /\ M.funcs[k].name = "main" =>
             M4.funcs[k].blocks = [M.funcs[k].blocks EXCEPT
                                     ![1] = InsertBefore(@, 1, Registration)]
    BY <1>11, <2>1 DEF MainRegisters
  <2>3. /\ k \in DOMAIN N.funcs
        /\ N.funcs[k].name = M4.funcs[k].name
        /\ N.funcs[k].sig = M4.funcs[k].sig
        /\ M4.funcs[k].name # "setupAtExit" => N.funcs[k] = M4.funcs[k]
        /\ M4.funcs[k].name = "setupAtExit" =>
             N.funcs[k].blocks = Append(M4.funcs[k].blocks, HandlerBlock(counter))
    BY <1>13, <2>2 DEF HandlerAdded
  <2>4. CASE M.funcs[k].name = "main"
    BY <2>2, <2>3, <2>4
  <2>5. CASE M.funcs[k].name # "main"
    BY <2>2, <2>3, <2>5
  <2>6. QED
    BY <2>4, <2>5
<1>16. ASSUME NEW k \in DOMAIN M.funcs, M.funcs[k].name = "setupAtExit"
       PROVE  M.funcs[k].sig = "void()"
  <2>1. "setupAtExit" \in FunctionNames(M)
    BY <1>16 DEF FunctionNames
  <2>2. k = Position(M, "setupAtExit")
    BY <1>16, <2>1, PositionOf DEF UniqueNames
  <2>3. Named(M, "setupAtExit") = M.funcs[k]
    BY <2>1, <2>2, PositionOf
  <2>4. QED
    BY <2>1, <2>3 DEF MayGetOrInsert, Symbols
<1>17. ASSUME NEW k \in DOMAIN N.funcs \ DOMAIN M.funcs
       PROVE  /\ N.funcs[k].name \in {"setupAtExit", "atexit", "printf"}
              /\ N.funcs[k].name \notin Symbols(M)
              /\ N.funcs[k].name # "setupAtExit" => N.funcs[k].blocks = <<>>
              /\ N.funcs[k].name = "setupAtExit" =>
                   /\ N.funcs[k].sig = "void()"
                   /\ N.funcs[k].blocks = Append(<<>>, HandlerBlock(counter))
  <2>1. CASE k \in DOMAIN M4.funcs
    <3>1. k \in DOMAIN M3.funcs \ DOMAIN M.funcs
      BY <1>11, <2>1 DEF MainRegisters
    <3>2. M4.funcs[k] = M3.funcs[k]
      BY <1>9, <1>11, <3>1 DEF MainRegisters
    <3>3. /\ M4.funcs[k].name \notin Symbols(M)
          /\ M4.funcs[k].name \in {"setupAtExit", "atexit"}
          /\ M4.funcs[k].blocks = <<>>
          /\ M4.funcs[k].name = "setupAtExit" => M4.funcs[k].sig = "void()"
      BY <1>9, <3>1, <3>2
    <3>4. /\ N.funcs[k].name = M4.funcs[k].name
          /\ N.funcs[k].sig = M4.funcs[k].sig
          /\ M4.funcs[k].name # "setupAtExit" => N.funcs[k] = M4.funcs[k]
          /\ M4.funcs[k].name = "setupAtExit" =>
               N.funcs[k].blocks = Append(M4.funcs[k].blocks, HandlerBlock(counter))
      BY <1>13, <2>1 DEF HandlerAdded
    <3>5. QED
      BY <3>3, <3>4
  <2>2. CASE k \notin DOMAIN M4.funcs
    <3>1. /\ N.funcs[k] = Func("printf", "int(char*,...)", <<>>)
          /\ "printf" \notin Symbols(M)
      BY <1>13, <1>14, <2>2 DEF HandlerAdded
    <3>2. N.funcs[k].name = "printf" /\ N.funcs[k].blocks = <<>>
      BY <3>1, Declaration, ZenonT(40)
    <3>3. QED
      BY <3>1, <3>2
  <2>3. QED
    BY <2>1, <2>2
<1>18. CounterIn(M, N, counter) /\ N.ctors = M.ctors
  <2>1. N.gvars = M1.gvars /\ N.ctors = M1.ctors
    BY <1>4, <1>6, <1>11, <1>13 DEF WithFunction, MainRegisters, HandlerAdded
  <2>2. QED
    BY <1>1, <2>1 DEF CounterIn
<1>19. FunctionNames(M) \cup {"setupAtExit"} \subseteq FunctionNames(N)
  BY <1>8, <1>11, <1>13 DEF MainRegisters, HandlerAdded
<1>20. UniqueNames(N)
  BY <1>13 DEF HandlerAdded
<1>21. SetUp(M, N, counter)
  BY <1>15, <1>16, <1>17, <1>18, <1>19, <1>20 DEF SetUp
<1>22. QED
  BY <1>0, <1>13, <1>21 DEF M1

(* setup leaves no block empty.                                            *)
LEMMA SetUpNotEmpty ==
  ASSUME NEW names, PassNames \subseteq names, NEW M, IsModule(M, names),
         NoEmptyBlock(M), NEW counter \in names, NEW N, SetUp(M, N, counter),
         IsModule(N, names)
  PROVE  NoEmptyBlock(N)
<1> SUFFICES ASSUME NEW k \in DOMAIN N.funcs, NEW m \in DOMAIN N.funcs[k].blocks
             PROVE  N.funcs[k].blocks[m] # <<>>
  BY DEF NoEmptyBlock
<1>1. HandlerBlock(counter) # <<>> /\ HandlerBlock(counter) \in Seq(Instructions(names))
  BY HandlerBlockIs
<1>2. CASE k \notin DOMAIN M.funcs
  <2>1. N.funcs[k].blocks # <<>>
    <3>1. DOMAIN <<>> = {}
      OBVIOUS
    <3>2. QED
      BY <3>1
  <2>2. N.funcs[k].blocks = Append(<<>>, HandlerBlock(counter))
    BY <1>2, <2>1 DEF SetUp
  <2>3. Append(<<>>, HandlerBlock(counter)) = <<HandlerBlock(counter)>>
    OBVIOUS
  <2>4. m = 1
    BY <2>2, <2>3
  <2>5. QED
    BY <1>1, <2>2, <2>3, <2>4
<1>3. CASE k \in DOMAIN M.funcs
  <2> DEFINE old == M.funcs[k].blocks
  <2>1. /\ old \in Seq(Seq(Instructions(names)))
        /\ \A i \in DOMAIN old : old[i] # <<>>
    BY <1>3, Shape DEF NoEmptyBlock
  <2>2. CASE M.funcs[k].name \notin {"main", "setupAtExit"}
    BY <1>3, <2>1, <2>2 DEF SetUp
  <2>3. CASE M.funcs[k].name = "setupAtExit"
    <3>1. N.funcs[k].blocks = Append(old, HandlerBlock(counter))
      BY <1>3, <2>3 DEF SetUp
    <3> HIDE DEF old
    <3>2. QED
      BY <1>1, <2>1, <3>1
  <2>4. CASE M.funcs[k].name = "main"
    <3>1. N.funcs[k].blocks = [old EXCEPT ![1] = InsertBefore(@, 1, Registration)]
      BY <1>3, <2>4 DEF SetUp
    <3> HIDE DEF old
    <3>2. m \in DOMAIN old /\ m \in 1..Len(old)
      BY <2>1, <3>1
    <3>3. old[m] \in Seq(Instructions(names)) /\ old[m] # <<>>
      BY <2>1, <3>2
    <3>4. InsertBefore(old[m], 1, Registration) = Registration \o old[m]
      BY <3>3, InsertedInFront
    <3>5. Registration \in Seq(Instructions(names)) /\ Len(Registration) = 1
      BY <3>3, Parts, 0 \in Nat
    <3>6. Registration \o old[m] # <<>>
      BY <3>3, <3>5, ConcatEqualIffEmpty
    <3>7. N.funcs[k].blocks[m] \in {old[m], InsertBefore(old[m], 1, Registration)}
      BY <3>1, <3>2
    <3>8. QED
      BY <3>3, <3>4, <3>6, <3>7
  <2>5. QED
    BY <2>2, <2>3, <2>4
<1>4. QED
  BY <1>2, <1>3

(* N is M with the counting code in block b of function f.                 *)
OneCounted(M, N, f, b) ==
  /\ UniqueNames(N) /\ NoEmptyBlock(N)
  /\ N.gvars = M.gvars /\ N.ctors = M.ctors
  /\ FunctionNames(N) = FunctionNames(M)
  /\ DOMAIN N.funcs = DOMAIN M.funcs
  /\ \A k \in DOMAIN M.funcs :
       /\ N.funcs[k].name = M.funcs[k].name
       /\ N.funcs[k].sig = M.funcs[k].sig
       /\ k # f => N.funcs[k] = M.funcs[k]
  /\ N.funcs[f].blocks = [M.funcs[f].blocks EXCEPT
                            ![b] = InsertBefore(@, Len(@), Counting)]

LEMMA CountedIs ==
  ASSUME NEW names, PassNames \subseteq names, NEW M, IsModule(M, names),
         UniqueNames(M), NoEmptyBlock(M),
         NEW f \in DOMAIN M.funcs, NEW b \in DOMAIN M.funcs[f].blocks
  PROVE  LET N == [M EXCEPT !.funcs[f].blocks[b] =
                     InsertBefore(@, Len(@), Counting)]
         IN  IsModule(N, names) /\ OneCounted(M, N, f, b)
<1> DEFINE old == M.funcs[f].blocks
           block == InsertBefore(old[b], Len(old[b]), Counting)
           new == [old EXCEPT ![b] = block]
           N == [M EXCEPT !.funcs[f].blocks = new]
<1>1. /\ old \in Seq(Seq(Instructions(names))) /\ b \in 1..Len(old)
      /\ old[b] \in Seq(Instructions(names)) /\ old[b] # <<>>
  BY Shape DEF NoEmptyBlock
<1>2. [M EXCEPT !.funcs[f].blocks[b] = InsertBefore(@, Len(@), Counting)] = N
  OBVIOUS
<1> HIDE DEF old
<1>3. Counting \in Seq(Instructions(names)) /\ Len(Counting) = 3
  BY <1>1, Parts, 0 \in Nat
<1>4. block \in Seq(Instructions(names)) /\ block # <<>>
  <2>1. old[b][Len(old[b])] \in Instructions(names) /\ Len(old[b]) \in Nat \ {0}
    BY <1>1, EmptySeq, ElementOfSeq
  <2>2. PICK front : front = SubSeq(old[b], 1, Len(old[b]) - 1)
    OBVIOUS
  <2>3. PICK last : last = <<old[b][Len(old[b])]>>
    OBVIOUS
  <2>4. front \in Seq(Instructions(names))
    BY <1>1, <2>1, <2>2
  <2>5. last \in Seq(Instructions(names))
    BY <2>1, <2>3
  <2>6. Len(last) = 1
    BY <2>3
  <2>7. block = front \o Counting \o last
    BY <1>1, <1>3, <2>2, <2>3, Inserted
  <2>8. front \o Counting \in Seq(Instructions(names))
    BY <1>3, <2>4, ConcatProperties
  <2>9. QED
    BY <2>5, <2>6, <2>7, <2>8, LastOf
<1> HIDE DEF block
<1>5. /\ new \in Seq(Seq(Instructions(names)))
      /\ DOMAIN new = DOMAIN old
      /\ \A m \in DOMAIN old : new[m] = IF m = b THEN block ELSE old[m]
  BY <1>1, <1>4
<1>6. new = [old EXCEPT ![b] = InsertBefore(@, Len(@), Counting)]
  BY DEF block
<1> HIDE DEF new
<1>7. IsModule(N, names) /\ WithBlocks(M, N, f, new)
  BY <1>5, Reblocked
<1> HIDE DEF N
<1>8. UniqueNames(N)
  BY <1>7 DEF UniqueNames, WithBlocks
<1>9. NoEmptyBlock(N)
  <2>1. \A m \in DOMAIN old : old[m] # <<>>
    BY DEF old, NoEmptyBlock
  <2>2. \A m \in DOMAIN new : new[m] # <<>>
    BY <1>4, <1>5, <2>1
  <2>3. QED
    BY <1>7, <2>2 DEF NoEmptyBlock, WithBlocks
<1>10. OneCounted(M, N, f, b)
  BY <1>6, <1>7, <1>8, <1>9 DEF OneCounted, WithBlocks, old
<1>11. QED
  BY <1>2, <1>7, <1>10

(* N is M with a main of argc and argv at the end of the list instead of   *)
(* the main it had.                                                        *)
Posixed(func) ==
  IF func.name = "main" THEN Func("main", "int(int,char**)", func.blocks)
  ELSE func

MainReplaced(M, N) ==
  /\ UniqueNames(N) /\ NoEmptyBlock(N)
  /\ N.gvars = M.gvars /\ N.ctors = M.ctors
  /\ FunctionNames(N) = FunctionNames(M)
  /\ \A k \in DOMAIN N.funcs : \E j \in DOMAIN M.funcs :
       N.funcs[k] = Posixed(M.funcs[j])

LEMMA PosixizedMakes ==
  ASSUME NEW names, PassNames \subseteq names, NEW M, IsModule(M, names),
         UniqueNames(M), NoEmptyBlock(M), "main" \in FunctionNames(M)
  PROVE  /\ IsModule(Posix!Posixized(M), names)
         /\ MainReplaced(M, Posix!Posixized(M))
<1> DEFINE fs == M.funcs
           L == Len(fs)
           m == Position(M, "main")
           newMain == Func("main", "int(int,char**)", fs[m].blocks)
           front == SubSeq(fs, 1, m - 1)
           back == SubSeq(fs, m + 1, L)
           gs == front \o back \o <<newMain>>
           N == Posix!Posixized(M)
<1>1. /\ m \in 1..L /\ fs[m].name = "main" /\ L \in Nat
      /\ \A k \in 1..L : fs[k].name = "main" => k = m
      /\ fs \in Seq(FunctionDefs(names)) /\ DOMAIN fs = 1..L
  BY PositionOf, Shape DEF UniqueNames
<1>2. /\ N.funcs = gs /\ N.gvars = M.gvars /\ N.ctors = M.ctors
      /\ N \in [funcs : {N.funcs}, gvars : {N.gvars}, ctors : {N.ctors}]
  BY PosixizedIs DEF IsModule
<1>3. /\ newMain \in FunctionDefs(names)
      /\ newMain = Posixed(fs[m])
      /\ newMain.name = "main" /\ newMain.blocks = fs[m].blocks
  <2>1. fs[m].blocks \in Seq(Seq(Instructions(names)))
    BY <1>1, Shape
  <2>2. QED
    BY <1>1, <2>1 DEF Func, FunctionDefs, PassNames, Posixed
<1> HIDE DEF fs, L, m, newMain, N
<1>4. /\ front \in Seq(FunctionDefs(names)) /\ Len(front) = m - 1
      /\ \A k \in 1..m - 1 : front[k] = fs[k]
  BY <1>1
<1>5. /\ back \in Seq(FunctionDefs(names)) /\ Len(back) = L - m
      /\ \A k \in 1..L - m : back[k] = fs[k + m]
  BY <1>1
<1> HIDE DEF front, back
<1>6. PICK fb : fb = front \o back
  OBVIOUS
<1>7. /\ fb \in Seq(FunctionDefs(names)) /\ Len(fb) = L - 1
      /\ \A k \in 1..L - 1 : fb[k] = IF k < m THEN fs[k] ELSE fs[k + 1]
  BY <1>1, <1>4, <1>5, <1>6
<1>8. gs = Append(fb, newMain)
  BY <1>3, <1>6, <1>7
<1> HIDE DEF gs
<1> DEFINE old(k) == IF k = L THEN m ELSE IF k < m THEN k ELSE k + 1
<1>9. /\ gs \in Seq(FunctionDefs(names)) /\ DOMAIN gs = 1..L
      /\ \A k \in 1..L : gs[k] = IF k = L THEN newMain ELSE fs[old(k)]
  BY <1>1, <1>3, <1>7, <1>8
<1>10. /\ \A k \in 1..L : old(k) \in 1..L /\ (k # L => old(k) # m)
       /\ \A k, j \in 1..L : old(k) = old(j) => k = j
       /\ \A j \in 1..L : \E k \in 1..L : old(k) = j
  <2>1. \A j \in 1..L :
          j = old(IF j = m THEN L ELSE IF j < m THEN j ELSE j - 1)
    BY <1>1
  <2>2. \A j \in 1..L : (IF j = m THEN L ELSE IF j < m THEN j ELSE j - 1) \in 1..L
    BY <1>1
  <2>3. \A k \in 1..L : old(k) \in 1..L /\ (k # L => old(k) # m)
    BY <1>1
  <2>4. \A k, j \in 1..L : old(k) = old(j) => k = j
    BY <1>1
  <2>5. \A j \in 1..L : \E k \in 1..L : old(k) = j
    <3> HIDE DEF old
    <3>1. QED
      BY <2>1, <2>2
  <2>6. QED
    BY <2>3, <2>4, <2>5
<1> HIDE DEF old
<1>11. \A k \in 1..L : gs[k] = Posixed(fs[old(k)]) /\ gs[k].name = fs[old(k)].name
                       /\ gs[k].blocks = fs[old(k)].blocks
  BY <1>1, <1>3, <1>9, <1>10 DEF Posixed, old
<1>12. IsModule(N, names)
  BY <1>2, <1>9 DEF IsModule
<1>13. UniqueNames(N)
  <2>1. ASSUME NEW k \in 1..L, NEW j \in 1..L, gs[k].name = gs[j].name
        PROVE  k = j
    <3>1. fs[old(k)].name = fs[old(j)].name
      BY <1>11, <2>1
    <3>2. old(k) \in DOMAIN M.funcs /\ old(j) \in DOMAIN M.funcs
      BY <1>1, <1>10 DEF fs
    <3>3. old(k) = old(j)
      BY <3>1, <3>2 DEF UniqueNames, fs
    <3>4. QED
      BY <1>10, <3>3
  <2>2. QED
    BY <1>2, <1>9, <2>1 DEF UniqueNames
<1>14. NoEmptyBlock(N)
  <2>1. ASSUME NEW k \in 1..L, NEW i \in DOMAIN gs[k].blocks
        PROVE  gs[k].blocks[i] # <<>>
    <3>1. old(k) \in DOMAIN M.funcs /\ gs[k].blocks = M.funcs[old(k)].blocks
      BY <1>1, <1>10, <1>11 DEF fs
    <3>2. QED
      BY <2>1, <3>1 DEF NoEmptyBlock
  <2>2. QED
    BY <1>2, <1>9, <2>1 DEF NoEmptyBlock
<1>15. FunctionNames(N) = FunctionNames(M)
  <2>1. FunctionNames(N) = {gs[k].name : k \in 1..L}
    BY <1>2, <1>9 DEF FunctionNames
  <2>2. FunctionNames(M) = {fs[k].name : k \in 1..L}
    BY <1>1 DEF FunctionNames, fs
  <2>3. \A k \in 1..L : gs[k].name = fs[old(k)].name
    BY <1>11
  <2>4. QED
    BY <1>10, <2>1, <2>2, <2>3
<1>16. \A k \in DOMAIN N.funcs : \E j \in DOMAIN M.funcs :
         N.funcs[k] = Posixed(M.funcs[j])
  BY <1>1, <1>2, <1>9, <1>10, <1>11 DEF fs
<1>17. QED
  BY <1>2, <1>12, <1>13, <1>14, <1>15, <1>16 DEF MainReplaced, N

--------------------------------------------------------------------------------
(* The steps of the pipeline *)

(* The runs of a pass among the first n of a pipeline.                     *)
RunsIn(pipeline, n, pass) == Cardinality({k \in 1..n : pipeline[k] = pass})

LEMMA RunsInMore ==
  ASSUME NEW pipeline, NEW n \in Nat, NEW pass
  PROVE  /\ RunsIn(pipeline, n, pass) \in Nat
         /\ RunsIn(pipeline, 0, pass) = 0
         /\ RunsIn(pipeline, n + 1, pass) =
              IF pipeline[n + 1] = pass THEN RunsIn(pipeline, n, pass) + 1
              ELSE RunsIn(pipeline, n, pass)
<1> DEFINE S == {k \in 1..n : pipeline[k] = pass}
           T == {k \in 1..n + 1 : pipeline[k] = pass}
<1>1. IsFiniteSet(S)
  <2>1. IsFiniteSet(1..n)
    BY FS_Interval
  <2>2. QED
    BY <2>1, FS_Subset
<1>2. Cardinality(S) \in Nat
  BY <1>1, FS_CardinalityType
<1>3. {k \in 1..0 : pipeline[k] = pass} = {}
  OBVIOUS
<1>4. CASE pipeline[n + 1] = pass
  <2>1. T = S \cup {n + 1} /\ n + 1 \notin S
    BY <1>4
  <2>2. Cardinality(T) = Cardinality(S) + 1
    BY <1>1, <2>1, FS_AddElement
  <2>3. QED
    BY <1>2, <1>3, <1>4, <2>2, FS_EmptySet DEF RunsIn
<1>5. CASE pipeline[n + 1] # pass
  <2>1. T = S
    BY <1>5
  <2>2. QED
    BY <1>2, <1>3, <1>5, <2>1, FS_EmptySet DEF RunsIn
<1>6. QED
  BY <1>4, <1>5

(* A pass that runs has been started.                                      *)
LEMMA RunsAre ==
  ASSUME AtPass
  PROVE  /\ \A pass : Runs(pass) \in Nat /\ Runs(pass) = RunsIn(passes, at, pass)
         /\ pc \in {"setup", "blocks"} => Runs("count-bb") > 0
         /\ pc = "posix" => Runs("posix-main") > 0
         /\ Setups \in Nat /\ Posixizations \in Nat
<1>1. passes \in Seq({"posix-main", "count-bb"}) /\ at \in Nat
  BY PipelinesAssumption DEF AtPass
<1>2. ASSUME NEW pass
      PROVE  Runs(pass) \in Nat /\ Runs(pass) = RunsIn(passes, at, pass)
  <2>1. Runs(pass) = RunsIn(passes, at, pass)
    BY DEF Runs, RunsIn
  <2>2. QED
    BY <1>1, <2>1, RunsInMore
<1>3. ASSUME NEW pass, at > 0, passes[at] = pass PROVE Runs(pass) > 0
  <2>1. at - 1 \in Nat /\ (at - 1) + 1 = at
    BY <1>1, <1>3
  <2>2. RunsIn(passes, at, pass) = RunsIn(passes, at - 1, pass) + 1
        /\ RunsIn(passes, at - 1, pass) \in Nat
    BY <1>3, <2>1, RunsInMore
  <2>3. QED
    BY <1>2, <2>2
<1>4. /\ pc \in {"setup", "blocks"} => Runs("count-bb") > 0
      /\ pc = "posix" => Runs("posix-main") > 0
  BY <1>3 DEF AtPass
<1>5. Setups \in Nat /\ Posixizations \in Nat
  BY <1>2, <1>4 DEF Setups, Posixizations
<1>6. QED
  BY <1>2, <1>4, <1>5

(* How the numbers change: not at all while a pass runs, and by one when   *)
(* one starts.                                                             *)
LEMMA RunsStay ==
  ASSUME UNCHANGED <<passes, at>>
  PROVE  \A pass : Runs(pass)' = Runs(pass)
BY DEF Runs

LEMMA RunsStart ==
  ASSUME AtPass, StartPass
  PROVE  \A pass : Runs(pass)' =
           IF passes[at + 1] = pass THEN Runs(pass) + 1 ELSE Runs(pass)
<1>1. at \in Nat
  BY PipelinesAssumption DEF AtPass
<1>2. ASSUME NEW pass
      PROVE  Runs(pass)' = RunsIn(passes, at + 1, pass)
  BY DEF StartPass, Runs, RunsIn
<1>3. QED
  BY <1>1, <1>2, RunsInMore, RunsAre

(* The actions of Next by name.                                            *)
LEMMA Steps ==
  ASSUME [Next]_vars
  PROVE  \/ StartPass
         \/ /\ UNCHANGED <<source, passes, at>>
            /\ \/ Count!NoMain \/ Count!SetupDies \/ Count!RunOnBasicBlockDies
               \/ Count!Setup \/ Count!SkipFunction \/ Count!RunOnBasicBlock
               \/ Count!Finish
         \/ /\ UNCHANGED <<input, fn, bb, source, passes, at>>
            /\ \/ Posix!NothingToDo
               \/ Posix!Posixize \/ Posix!ErasesUsed
         \/ UNCHANGED vars
BY DEF Next, CountStep, PosixStep, Stopped, Count!Next, Posix!Next

(* What a step does to the module, and when.                               *)
Dies == pc' = "failed" /\ UNCHANGED <<ir, fn, bb, source, passes, at>>
PosixDone ==
  /\ pc = "posix" /\ pc' = "done"
  /\ UNCHANGED <<fn, bb, source, passes, at>>
NothingPosixized ==
  /\ PosixDone
  /\ "main" \in FunctionNames(ir) =>
       Named(ir, "main").sig \in Posix!PosixParameters \cup Posix!OtherTwoParameters
  /\ ir' = ir
MainPosixized ==
  /\ PosixDone
  /\ "main" \in FunctionNames(ir)
  /\ ir' = Posix!Posixized(ir)

LEMMA WhatStepsDo ==
  ASSUME [Next]_vars
  PROVE  \/ StartPass
         \/ Dies
         \/ UNCHANGED <<source, passes, at>> /\ Count!Setup
         \/ UNCHANGED <<source, passes, at>> /\ Count!SkipFunction
         \/ UNCHANGED <<source, passes, at>> /\ Count!RunOnBasicBlock
         \/ UNCHANGED <<source, passes, at>> /\ Count!Finish
         \/ NothingPosixized
         \/ MainPosixized
         \/ UNCHANGED vars
<1>1. ASSUME UNCHANGED <<source, passes, at>>,
             Count!NoMain \/ Count!SetupDies \/ Count!RunOnBasicBlockDies
      PROVE  Dies
  BY <1>1 DEF Count!NoMain, Count!SetupDies, Count!RunOnBasicBlockDies, Dies
<1>2. ASSUME UNCHANGED <<input, fn, bb, source, passes, at>>, Posix!NothingToDo
      PROVE  Dies \/ NothingPosixized
  BY <1>2, PosixIR DEF Posix!NothingToDo, Posix!HasMain, Posix!Main, Dies,
     NothingPosixized, PosixDone
<1>3. ASSUME UNCHANGED <<input, fn, bb, source, passes, at>>,
             Posix!Posixize \/ Posix!ErasesUsed
      PROVE  Dies \/ MainPosixized
  BY <1>3, PosixIR DEF Posix!Posixize, Posix!ErasesUsed, Posix!HasMain, Dies,
     MainPosixized, PosixDone
<1>4. QED
  BY <1>1, <1>2, <1>3, Steps

(* Which pass runs.                                                        *)
LEMMA AtPassStep ==
  ASSUME AtPass, [Next]_vars
  PROVE  AtPass'
<1>1. passes \in Seq({"posix-main", "count-bb"}) /\ at \in 0..Len(passes)
      /\ Len(passes) \in Nat
  BY PipelinesAssumption DEF AtPass
<1>2. CASE StartPass
  <2>1. at + 1 \in 1..Len(passes)
    BY <1>1, <1>2 DEF StartPass
  <2>2. passes[at + 1] \in {"posix-main", "count-bb"}
    BY <1>1, <2>1
  <2>3. QED
    BY <1>1, <1>2, <2>1, <2>2 DEF StartPass, AtPass
<1>3. CASE Dies
  BY <1>3 DEF Dies, AtPass
<1>4. CASE UNCHANGED <<source, passes, at>> /\ Count!Setup
  BY <1>4, SetupIs DEF AtPass
<1>5. CASE UNCHANGED <<source, passes, at>> /\ Count!SkipFunction
  BY <1>5 DEF Count!SkipFunction, Count!InLoop, AtPass
<1>6. CASE UNCHANGED <<source, passes, at>> /\ Count!RunOnBasicBlock
  BY <1>6, BlockIs DEF AtPass
<1>7. CASE UNCHANGED <<source, passes, at>> /\ Count!Finish
  BY <1>7 DEF Count!Finish, AtPass
<1>8. CASE NothingPosixized \/ MainPosixized
  BY <1>8 DEF NothingPosixized, MainPosixized, PosixDone, AtPass
<1>9. CASE UNCHANGED vars
  BY <1>9 DEF vars, passVars, AtPass
<1>10. QED
  BY <1>2, <1>3, <1>4, <1>5, <1>6, <1>7, <1>8, <1>9, WhatStepsDo

(* What the module is, over names that do for it before and after a step.  *)
ModuleStep(names) ==
  /\ PassNames \subseteq names
  /\ IsModule(source, names) /\ IsModule(ir, names) /\ IsModule(ir', names)
  /\ UniqueNames(ir) /\ NoEmptyBlock(ir)
  /\ UniqueNames(ir') /\ NoEmptyBlock(ir')

(* setup, with the name of the counter it makes.                           *)
SetupOf(counter) ==
  /\ pc = "setup" /\ pc' = "blocks"
  /\ UNCHANGED <<fn, bb, source, passes, at>>
  /\ "main" \in FunctionNames(ir)
  /\ counter \notin Symbols(ir) \cup {"setupAtExit", "atexit", "printf"}
  /\ "bbCounter" \notin Symbols(ir) => counter = "bbCounter"
  /\ SetUp(ir, ir', counter)

LEMMA SetupStep ==
  ASSUME ModuleOK, Count!Setup, UNCHANGED <<source, passes, at>>
  PROVE  \E names, counter :
           counter \in names /\ ModuleStep(names) /\ SetupOf(counter)
<1>1. PICK names : /\ PassNames \subseteq names
                   /\ IsModule(source, names) /\ IsModule(ir, names)
                   /\ UniqueNames(ir) /\ NoEmptyBlock(ir)
  BY DEF ModuleOK
<1>2. PICK counter : counter = Count!FreshName(ir)
  OBVIOUS
<1>3. /\ counter \notin Symbols(ir) \cup {"setupAtExit", "atexit", "printf"}
      /\ "bbCounter" \notin Symbols(ir) => counter = "bbCounter"
  BY <1>2, FreshNameIs
<1>4. PICK more : more = names \cup {counter}
  OBVIOUS
<1>5. /\ PassNames \subseteq more /\ counter \in more
      /\ IsModule(source, more) /\ IsModule(ir, more)
  BY <1>1, <1>4, Widened
<1>6. /\ pc = "setup" /\ pc' = "blocks"
      /\ "main" \in FunctionNames(ir)
      /\ Named(ir, "main").blocks # <<>>
      /\ MayGetOrInsert(ir, "setupAtExit", "void()")
      /\ ir' = Handled(Registered(Declared(Count!AddCounter(ir, counter))), counter)
      /\ UNCHANGED <<input, fn, bb>>
  BY <1>2, SetupIs
<1>7. IsModule(ir', more) /\ SetUp(ir, ir', counter)
  BY <1>1, <1>3, <1>5, <1>6, SetupMakes
<1>8. UniqueNames(ir') /\ NoEmptyBlock(ir')
  <2>1. NoEmptyBlock(ir')
    BY <1>1, <1>5, <1>7, SetUpNotEmpty
  <2>2. QED
    BY <1>7, <2>1 DEF SetUp
<1>9. ModuleStep(more)
  BY <1>1, <1>5, <1>7, <1>8 DEF ModuleStep
<1>10. SetupOf(counter)
  BY <1>3, <1>6, <1>7 DEF SetupOf
<1>11. QED
  BY <1>5, <1>9, <1>10

(* One more block counted.                                                 *)
BlockCounted ==
  /\ pc = "blocks" /\ pc' = pc
  /\ fn \in DOMAIN ir.funcs /\ ir.funcs[fn].name # "setupAtExit"
  /\ bb \in DOMAIN ir.funcs[fn].blocks
  /\ bb' = bb + 1
  /\ UNCHANGED <<fn, source, passes, at>>
  /\ OneCounted(ir, ir', fn, bb)

(* fn and bb start at 1 and only go up.                                    *)
LEMMA BlockStep ==
  ASSUME AtPass, ModuleOK, Count!RunOnBasicBlock, UNCHANGED <<source, passes, at>>
  PROVE  \E names : ModuleStep(names) /\ BlockCounted
<1>1. PICK names : /\ PassNames \subseteq names
                   /\ IsModule(source, names) /\ IsModule(ir, names)
                   /\ UniqueNames(ir) /\ NoEmptyBlock(ir)
  BY DEF ModuleOK
<1>2. /\ pc = "blocks" /\ pc' = pc
      /\ fn <= Len(ir.funcs) /\ ir.funcs[fn].name # "setupAtExit"
      /\ bb <= Len(ir.funcs[fn].blocks)
      /\ ir' = [ir EXCEPT !.funcs[fn].blocks[bb] =
                  InsertBefore(@, Len(@), Counting)]
      /\ bb' = bb + 1
      /\ UNCHANGED <<input, fn>>
  BY BlockIs
<1>3. fn \in DOMAIN ir.funcs
  BY <1>1, <1>2, Shape DEF AtPass
<1>4. bb \in DOMAIN ir.funcs[fn].blocks
  BY <1>1, <1>2, <1>3, Shape DEF AtPass
<1>5. IsModule(ir', names) /\ OneCounted(ir, ir', fn, bb)
  BY <1>1, <1>2, <1>3, <1>4, CountedIs
<1>6. QED
  BY <1>1, <1>2, <1>3, <1>4, <1>5 DEF ModuleStep, BlockCounted, OneCounted

LEMMA PosixizedStep ==
  ASSUME ModuleOK, MainPosixized
  PROVE  \E names : ModuleStep(names) /\ MainReplaced(ir, ir')
<1>1. PICK names : /\ PassNames \subseteq names
                   /\ IsModule(source, names) /\ IsModule(ir, names)
                   /\ UniqueNames(ir) /\ NoEmptyBlock(ir)
  BY DEF ModuleOK
<1>2. IsModule(ir', names) /\ MainReplaced(ir, ir')
  BY <1>1, PosixizedMakes DEF MainPosixized
<1>3. QED
  BY <1>1, <1>2 DEF ModuleStep, MainReplaced

(* The module stays a module.                                              *)
LEMMA ModuleOKStep ==
  ASSUME AtPass, ModuleOK, [Next]_vars
  PROVE  ModuleOK'
<1>1. ASSUME NEW names, ModuleStep(names), source' = source PROVE ModuleOK'
  BY <1>1 DEF ModuleStep, ModuleOK
<1>2. ASSUME ir' = ir, source' = source PROVE ModuleOK'
  BY <1>2 DEF ModuleOK
<1>3. CASE UNCHANGED <<source, passes, at>> /\ Count!Setup
  BY <1>1, <1>3, SetupStep
<1>4. CASE UNCHANGED <<source, passes, at>> /\ Count!RunOnBasicBlock
  BY <1>1, <1>4, BlockStep
<1>5. CASE MainPosixized
  BY <1>1, <1>5, PosixizedStep DEF MainPosixized, PosixDone
<1>6. CASE StartPass \/ Dies \/ NothingPosixized
  BY <1>2, <1>6 DEF StartPass, Dies, NothingPosixized, PosixDone
<1>7. CASE UNCHANGED <<source, passes, at>> /\ (Count!SkipFunction \/ Count!Finish)
  BY <1>2, <1>7 DEF Count!SkipFunction, Count!Finish
<1>8. CASE UNCHANGED vars
  BY <1>2, <1>8 DEF vars, passVars
<1>9. QED
  BY <1>3, <1>4, <1>5, <1>6, <1>7, <1>8, WhatStepsDo

(* The blocks of the program are sequences of instructions, none empty.    *)
LEMMA SourceBlocks ==
  ASSUME NEW names, IsModule(source, names), source \in Modules,
         NEW j \in DOMAIN source.funcs,
         NEW m \in DOMAIN source.funcs[j].blocks
  PROVE  /\ source.funcs[j].blocks[m] \in Seq(Instructions(names))
         /\ source.funcs[j].blocks[m] # <<>>
         /\ m \in Nat \ {0}
         /\ Len(source.funcs[j].blocks) \in Nat
         /\ DOMAIN source.funcs[j].blocks = 1..Len(source.funcs[j].blocks)
<1>1. Verifies(source)
  BY ModulesAssumption
<1>2. QED
  BY <1>1, Shape DEF Verifies

LEMMA BlocksInit ==
  ASSUME Init
  PROVE  BlocksSoFar
<1>1. at = 0 /\ pc = "done" /\ ir = source /\ source \in Modules
  BY DEF Init
<1>2. IsModule(source, STRING) /\ Verifies(source)
  BY <1>1, ModulesAssumption
<1>3. Runs("count-bb") = 0
  <2>1. {k \in 1..at : passes[k] = "count-bb"} = {}
    BY <1>1
  <2>2. QED
    BY <2>1, FS_EmptySet DEF Runs
<1>4. Setups = 0 /\ \A k, m : Countings(k, m) = 0
  BY <1>1, <1>3 DEF Setups, Countings
<1>5. ASSUME NEW k \in DOMAIN ir.funcs, NEW j \in DOMAIN source.funcs,
             ir.funcs[k].name = source.funcs[j].name
      PROVE  Instrumented(k, j)
  <2>1. k = j
    BY <1>1, <1>2, <1>5 DEF Verifies
  <2>2. ASSUME NEW m \in DOMAIN source.funcs[j].blocks
        PROVE  CountedBlock(source.funcs[j].blocks[m], 0, 0) =
                 source.funcs[j].blocks[m]
    <3>1. /\ source.funcs[j].blocks[m] \in Seq(Instructions(STRING))
          /\ source.funcs[j].blocks[m] # <<>>
      BY <1>1, <1>2, SourceBlocks
    <3>2. QED
      BY <3>1, NotYetCounted
  <2>3. \A name, m : RegisteredIn(name, m, 0) = 0
    BY DEF RegisteredIn
  <2>4. QED
    BY <1>1, <1>4, <2>1, <2>2, <2>3 DEF Instrumented
<1>6. QED
  BY <1>1, <1>5 DEF BlocksSoFar

(* A step that leaves the module and the numbers alone.                    *)
LEMMA BlocksAlone ==
  ASSUME BlocksSoFar, pc # "failed" \/ pc' = "failed", ir' = ir, source' = source,
         pc' = "failed" \/
         /\ Setups' = Setups
         /\ \A k \in DOMAIN ir.funcs : ir.funcs[k].name # "setupAtExit" =>
              \A m \in DOMAIN ir.funcs[k].blocks : Countings(k, m)' = Countings(k, m)
  PROVE  BlocksSoFar'
<1> SUFFICES ASSUME NoReservedName(source), pc' # "failed"
             PROVE  BlocksSoFar'
  BY DEF BlocksSoFar
<1>1. ASSUME NEW k \in DOMAIN ir.funcs, NEW j \in DOMAIN source.funcs,
             ir.funcs[k].name = source.funcs[j].name
      PROVE  Instrumented(k, j)'
  <2>1. Instrumented(k, j)
    BY <1>1 DEF BlocksSoFar
  <2>2. ir.funcs[k].name # "setupAtExit"
    BY <1>1 DEF NoReservedName, Symbols, FunctionNames
  <2>3. \A m \in DOMAIN ir.funcs[k].blocks : Countings(k, m)' = Countings(k, m)
    BY <2>2
  <2>4. DOMAIN source.funcs[j].blocks \subseteq DOMAIN ir.funcs[k].blocks
    BY <2>1 DEF Instrumented
  <2>5. QED
    BY <2>1, <2>3, <2>4 DEF Instrumented
<1>2. QED
  BY <1>1 DEF BlocksSoFar

(* setup: one more registration at the head of main.                       *)
LEMMA BlocksSetup ==
  ASSUME AtPass, AtPass', BlocksSoFar, NEW names, ModuleStep(names),
         NEW counter, SetupOf(counter)
  PROVE  BlocksSoFar'
<1> SUFFICES ASSUME NoReservedName(source)
             PROVE  BlocksSoFar'
  BY DEF BlocksSoFar, SetupOf
<1>1. /\ pc = "setup" /\ pc' = "blocks" /\ fn = 1 /\ bb = 1
      /\ fn' = 1 /\ bb' = 1 /\ source' = source /\ source \in Modules
      /\ SetUp(ir, ir', counter)
  BY DEF SetupOf, AtPass
<1>2. PICK n \in Nat : Runs("count-bb") = n + 1
  <2>1. Runs("count-bb") \in Nat /\ Runs("count-bb") > 0
    BY <1>1, RunsAre
  <2>2. Runs("count-bb") - 1 \in Nat /\ Runs("count-bb") = Runs("count-bb") - 1 + 1
    BY <2>1
  <2>3. QED
    BY <2>2
<1>3. Runs("count-bb")' = n + 1
  BY <1>2, RunsStay DEF SetupOf
<1>4. /\ Setups = n /\ Setups' = n + 1
      /\ \A k, m : Countings(k, m) = n
      /\ \A k, m \in Nat \ {0} : Countings(k, m)' = n
  BY <1>1, <1>2, <1>3 DEF Setups, Countings, Behind
<1>5. /\ PassNames \subseteq names
      /\ IsModule(source, names) /\ IsModule(ir, names) /\ IsModule(ir', names)
  BY DEF ModuleStep
<1>6. FunctionNames(source) \subseteq FunctionNames(ir')
  BY <1>1 DEF BlocksSoFar, SetUp
<1>7. ASSUME NEW k \in DOMAIN ir'.funcs, NEW j \in DOMAIN source.funcs,
             ir'.funcs[k].name = source.funcs[j].name
      PROVE  Instrumented(k, j)'
  <2> DEFINE old == source.funcs[j].blocks
             now == ir.funcs[k].blocks
             name == source.funcs[j].name
  <2>1. name \in FunctionNames(source) /\ name # "setupAtExit"
    BY DEF NoReservedName, Symbols, FunctionNames
  <2>2. name \in FunctionNames(ir)
    BY <1>1, <2>1 DEF BlocksSoFar
  <2>3. k \in DOMAIN ir.funcs
    BY <1>1, <1>7, <2>2 DEF SetUp, Symbols
  <2>4. ir.funcs[k].name = name
    BY <1>1, <1>7, <2>3 DEF SetUp
  <2>5. Instrumented(k, j)
    BY <1>1, <2>3, <2>4 DEF BlocksSoFar
  <2>6. k \in Nat \ {0}
    BY <1>5, <2>3, Shape
  <2>7. \A m \in DOMAIN old : Countings(k, m)' = n
    <3>1. \A m \in DOMAIN old : m \in Nat \ {0}
      BY <1>1, <1>5, SourceBlocks
    <3>2. QED
      BY <1>4, <2>6, <3>1
  <2>8. CASE name # "main"
    <3>1. ir'.funcs[k] = ir.funcs[k]
      BY <1>1, <2>1, <2>3, <2>4, <2>8 DEF SetUp
    <3>2. \A m, r : RegisteredIn(name, m, r) = 0
      BY <2>8 DEF RegisteredIn
    <3>3. QED
      BY <1>1, <1>4, <2>5, <2>7, <3>1, <3>2 DEF Instrumented
  <2>9. CASE name = "main"
    <3>1. ir'.funcs[k].blocks = [now EXCEPT ![1] = InsertBefore(@, 1, Registration)]
      BY <1>1, <2>3, <2>4, <2>9, ZenonT(40) DEF SetUp
    <3>2. Len(now) = Len(old) /\ now \in Seq(Seq(Instructions(names)))
          /\ old \in Seq(Seq(Instructions(names)))
      BY <1>5, <2>3, <2>5, Shape DEF Instrumented
    <3>3. /\ Len(ir'.funcs[k].blocks) = Len(old)
          /\ DOMAIN now = DOMAIN old
          /\ \A m \in DOMAIN old : ir'.funcs[k].blocks[m] =
               IF m = 1 THEN InsertBefore(now[1], 1, Registration) ELSE now[m]
      <4> HIDE DEF now, old
      <4>1. QED
        BY <3>1, <3>2
    <3>4. ASSUME NEW m \in DOMAIN old
          PROVE  ir'.funcs[k].blocks[m] =
                   CountedBlock(old[m], RegisteredIn(name, m, n + 1), n)
      <4>1. now[m] = CountedBlock(old[m], RegisteredIn(name, m, n), n)
        BY <1>4, <2>5, <3>4 DEF Instrumented
      <4>2. CASE m = 1
        <5>1. RegisteredIn(name, m, n + 1) = n + 1 /\ RegisteredIn(name, m, n) = n
          BY <2>9, <4>2 DEF RegisteredIn
        <5>2. old[m] \in Seq(Instructions(names)) /\ old[m] # <<>>
          BY <1>1, <1>5, SourceBlocks
        <5>3. InsertBefore(CountedBlock(old[m], n, n), 1, Registration) =
                CountedBlock(old[m], n + 1, n)
          BY <1>5, <5>2, CountedMore
        <5>4. QED
          BY <3>3, <3>4, <4>1, <4>2, <5>1, <5>3
      <4>3. CASE m # 1
        BY <3>3, <3>4, <4>1, <4>3 DEF RegisteredIn
      <4>4. QED
        BY <4>2, <4>3
    <3>5. QED
      BY <1>1, <1>4, <2>7, <3>3, <3>4 DEF Instrumented
  <2>10. QED
    BY <2>8, <2>9
<1>8. QED
  BY <1>1, <1>6, <1>7 DEF BlocksSoFar

(* One more block with the counting code.                                  *)
LEMMA BlocksBlock ==
  ASSUME AtPass, BlocksSoFar, NEW names, ModuleStep(names), BlockCounted
  PROVE  BlocksSoFar'
<1> SUFFICES ASSUME NoReservedName(source)
             PROVE  BlocksSoFar'
  BY DEF BlocksSoFar, BlockCounted
<1>1. /\ pc = "blocks" /\ pc' = "blocks"
      /\ fn \in DOMAIN ir.funcs /\ bb \in DOMAIN ir.funcs[fn].blocks
      /\ fn' = fn /\ bb' = bb + 1
      /\ fn \in Nat \ {0} /\ bb \in Nat \ {0}
      /\ source' = source /\ source \in Modules
      /\ OneCounted(ir, ir', fn, bb)
  BY DEF BlockCounted, AtPass
<1>2. PICK n \in Nat : Runs("count-bb") = n + 1
  <2>1. Runs("count-bb") \in Nat /\ Runs("count-bb") > 0
    BY <1>1, RunsAre
  <2>2. Runs("count-bb") - 1 \in Nat /\ Runs("count-bb") = Runs("count-bb") - 1 + 1
    BY <2>1
  <2>3. QED
    BY <2>2
<1>3. Runs("count-bb")' = n + 1
  BY <1>2, RunsStay DEF BlockCounted
<1>4. /\ Setups = n + 1 /\ Setups' = n + 1
      /\ \A k, m : Countings(k, m) = IF Behind(k, m) THEN n + 1 ELSE n
      /\ \A k, m : Countings(k, m)' = IF Behind(k, m)' THEN n + 1 ELSE n
  BY <1>1, <1>2, <1>3 DEF Setups, Countings
<1>5. /\ PassNames \subseteq names
      /\ IsModule(source, names) /\ IsModule(ir, names) /\ IsModule(ir', names)
  BY DEF ModuleStep
<1>6. FunctionNames(source) \subseteq FunctionNames(ir')
  BY <1>1 DEF BlocksSoFar, OneCounted
<1>7. ASSUME NEW k \in DOMAIN ir'.funcs, NEW j \in DOMAIN source.funcs,
             ir'.funcs[k].name = source.funcs[j].name
      PROVE  Instrumented(k, j)'
  <2> DEFINE old == source.funcs[j].blocks
             now == ir.funcs[k].blocks
             name == source.funcs[j].name
  <2>1. k \in DOMAIN ir.funcs /\ ir.funcs[k].name = name
    BY <1>1, <1>7 DEF OneCounted
  <2>2. Instrumented(k, j)
    BY <1>1, <2>1 DEF BlocksSoFar
  <2>3. k \in Nat \ {0}
    BY <1>5, <2>1, Shape
  <2>4. \A m \in DOMAIN old : m \in Nat \ {0}
    BY <1>1, <1>5, SourceBlocks
  <2>5. \A m \in DOMAIN old :
          /\ ~ (k = fn /\ m = bb) => (Behind(k, m)' <=> Behind(k, m))
          /\ k = fn /\ m = bb => Behind(k, m)' /\ ~ Behind(k, m)
    BY <1>1, <2>3, <2>4 DEF Behind
  <2>6. CASE k # fn
    <3>1. ir'.funcs[k] = ir.funcs[k]
      BY <1>1, <2>1, <2>6 DEF OneCounted
    <3>2. \A m \in DOMAIN old : Countings(k, m)' = Countings(k, m)
      BY <1>4, <2>5, <2>6
    <3>3. QED
      BY <1>1, <1>4, <2>2, <3>1, <3>2 DEF Instrumented
  <2>7. CASE k = fn
    <3>1. ir'.funcs[k].blocks = [now EXCEPT ![bb] = InsertBefore(@, Len(@), Counting)]
      BY <1>1, <2>7 DEF OneCounted
    <3>2. Len(now) = Len(old) /\ now \in Seq(Seq(Instructions(names)))
          /\ old \in Seq(Seq(Instructions(names)))
      BY <1>5, <2>1, <2>2, Shape DEF Instrumented
    <3>3. /\ Len(ir'.funcs[k].blocks) = Len(old)
          /\ DOMAIN now = DOMAIN old
          /\ \A m \in DOMAIN old : ir'.funcs[k].blocks[m] =
               IF m = bb THEN InsertBefore(now[m], Len(now[m]), Counting) ELSE now[m]
      <4> HIDE DEF now, old
      <4>1. QED
        BY <3>1, <3>2
    <3>4. ASSUME NEW m \in DOMAIN old
          PROVE  ir'.funcs[k].blocks[m] =
                   CountedBlock(old[m], RegisteredIn(name, m, n + 1), Countings(k, m)')
      <4> DEFINE r == RegisteredIn(name, m, n + 1)
      <4>1. now[m] = CountedBlock(old[m], r, Countings(k, m))
        BY <1>4, <2>2, <3>4 DEF Instrumented
      <4>2. CASE m = bb
        <5>1. Countings(k, m) = n /\ Countings(k, m)' = n + 1
          BY <1>4, <2>5, <2>7, <3>4, <4>2
        <5>2. old[m] \in Seq(Instructions(names)) /\ old[m] # <<>>
          BY <1>1, <1>5, SourceBlocks
        <5>3. r \in Nat
          BY DEF RegisteredIn
        <5> HIDE DEF r
        <5>4. LET block == CountedBlock(old[m], r, n) IN
              InsertBefore(block, Len(block), Counting) =
                CountedBlock(old[m], r, n + 1)
          BY <1>5, <5>2, <5>3, CountedMore
        <5>5. QED
          BY <3>3, <3>4, <4>1, <4>2, <5>1, <5>4 DEF r
      <4>3. CASE m # bb
        <5>1. Countings(k, m)' = Countings(k, m)
          BY <1>4, <2>5, <3>4, <4>3
        <5>2. QED
          BY <3>3, <3>4, <4>1, <4>3, <5>1
      <4>4. QED
        BY <4>2, <4>3
    <3>5. QED
      BY <1>1, <1>4, <3>3, <3>4 DEF Instrumented
  <2>8. QED
    BY <2>6, <2>7
<1>8. QED
  BY <1>1, <1>6, <1>7 DEF BlocksSoFar

(* The new main has the name and the blocks of the old one.                *)
LEMMA PosixedParts ==
  ASSUME NEW func
  PROVE  Posixed(func).name = func.name /\ Posixed(func).blocks = func.blocks
<1>1. CASE func.name = "main"
  BY <1>1 DEF Posixed, Func
<1>2. CASE func.name # "main"
  BY <1>2 DEF Posixed
<1>3. QED
  BY <1>1, <1>2

(* A new main with the old one's blocks.                                   *)
LEMMA BlocksPosix ==
  ASSUME BlocksSoFar, MainPosixized, MainReplaced(ir, ir')
  PROVE  BlocksSoFar'
<1> SUFFICES ASSUME NoReservedName(source)
             PROVE  BlocksSoFar'
  BY DEF BlocksSoFar, MainPosixized, PosixDone
<1>1. /\ pc = "posix" /\ pc' = "done" /\ source' = source
      /\ MainReplaced(ir, ir')
  BY DEF MainPosixized, PosixDone
<1>2. Runs("count-bb")' = Runs("count-bb")
  BY RunsStay DEF MainPosixized, PosixDone
<1>3. /\ Setups' = Setups
      /\ \A k, m : Countings(k, m) = Runs("count-bb")
      /\ \A k, m : Countings(k, m)' = Runs("count-bb")
  BY <1>1, <1>2 DEF Setups, Countings
<1>4. FunctionNames(source) \subseteq FunctionNames(ir')
  BY <1>1 DEF BlocksSoFar, MainReplaced
<1>5. ASSUME NEW k \in DOMAIN ir'.funcs, NEW j \in DOMAIN source.funcs,
             ir'.funcs[k].name = source.funcs[j].name
      PROVE  Instrumented(k, j)'
  <2>1. PICK i \in DOMAIN ir.funcs : ir'.funcs[k] = Posixed(ir.funcs[i])
    BY <1>1 DEF MainReplaced
  <2>2. ir'.funcs[k].name = ir.funcs[i].name /\ ir'.funcs[k].blocks = ir.funcs[i].blocks
    BY <2>1, PosixedParts
  <2>3. Instrumented(i, j)
    BY <1>1, <1>5, <2>2 DEF BlocksSoFar
  <2>4. QED
    BY <1>1, <1>3, <2>2, <2>3 DEF Instrumented
<1>6. QED
  BY <1>1, <1>4, <1>5 DEF BlocksSoFar

LEMMA BlocksStep ==
  ASSUME AtPass, ModuleOK, BlocksSoFar, [Next]_vars
  PROVE  BlocksSoFar'
<1>1. AtPass'
  BY AtPassStep
<1>2. PICK names : IsModule(ir, names)
  BY DEF ModuleOK
<1>3. \A k \in DOMAIN ir.funcs :
        /\ k \in 1..Len(ir.funcs)
        /\ \A m \in DOMAIN ir.funcs[k].blocks : m \in 1..Len(ir.funcs[k].blocks)
                                           /\ Len(ir.funcs[k].blocks) \in Nat
  BY <1>2, Shape
<1>4. CASE StartPass
  <2>1. \A pass : Runs(pass)' =
          IF passes[at + 1] = pass THEN Runs(pass) + 1 ELSE Runs(pass)
    BY <1>4, RunsStart
  <2>2. /\ pc = "done" /\ ir' = ir /\ source' = source
        /\ pc' = IF passes[at + 1] = "count-bb" THEN "setup" ELSE "posix"
    BY <1>4 DEF StartPass
  <2>3. Runs("count-bb") \in Nat
    BY RunsAre
  <2>4. Setups' = Setups /\ \A k, m : Countings(k, m)' = Countings(k, m)
    BY <2>1, <2>2, <2>3 DEF Setups, Countings
  <2>5. QED
    BY <2>2, <2>4, BlocksAlone
<1>5. CASE Dies
  BY <1>5, BlocksAlone DEF Dies
<1>6. CASE UNCHANGED <<source, passes, at>> /\ Count!Setup
  BY <1>1, <1>6, SetupStep, BlocksSetup
<1>7. CASE UNCHANGED <<source, passes, at>> /\ Count!SkipFunction
  <2>1. /\ pc = "blocks" /\ pc' = "blocks" /\ ir' = ir /\ source' = source
        /\ fn' = fn + 1 /\ bb' = 1
        /\ ir.funcs[fn].name = "setupAtExit" \/ bb > Len(ir.funcs[fn].blocks)
    BY <1>7 DEF Count!SkipFunction, Count!InLoop, Count!Skipped, Count!F,
         Count!k_atexitCallStr
  <2>2. Runs("count-bb")' = Runs("count-bb")
    BY <1>7, RunsStay
  <2>3. ASSUME NEW k \in DOMAIN ir.funcs, ir.funcs[k].name # "setupAtExit",
               NEW m \in DOMAIN ir.funcs[k].blocks
        PROVE  Behind(k, m)' <=> Behind(k, m)
    <3>1. k \in Nat /\ m \in Nat \ {0} /\ m <= Len(ir.funcs[k].blocks)
          /\ Len(ir.funcs[k].blocks) \in Nat /\ fn \in Nat /\ bb \in Nat
      BY <1>3, <2>3 DEF AtPass
    <3>2. QED
      BY <2>1, <2>3, <3>1 DEF Behind
  <2>4. Setups' = Setups
    BY <2>1, <2>2 DEF Setups
  <2>5. \A k \in DOMAIN ir.funcs : ir.funcs[k].name # "setupAtExit" =>
          \A m \in DOMAIN ir.funcs[k].blocks : Countings(k, m)' = Countings(k, m)
    BY <2>1, <2>2, <2>3 DEF Countings
  <2>6. QED
    BY <2>1, <2>4, <2>5, BlocksAlone
<1>8. CASE UNCHANGED <<source, passes, at>> /\ Count!RunOnBasicBlock
  BY <1>8, BlockStep, BlocksBlock
<1>9. CASE UNCHANGED <<source, passes, at>> /\ Count!Finish
  <2>1. /\ pc = "blocks" /\ pc' = "done" /\ ir' = ir /\ source' = source
        /\ fn > Len(ir.funcs)
    BY <1>9 DEF Count!Finish
  <2>2. Runs("count-bb")' = Runs("count-bb")
    BY <1>9, RunsStay
  <2>3. \A k \in DOMAIN ir.funcs : \A m : Behind(k, m)
    <3>1. Len(ir.funcs) \in Nat /\ fn \in Nat
      BY <1>2, Shape DEF AtPass
    <3>2. QED
      BY <1>3, <2>1, <3>1 DEF Behind
  <2>4. Setups' = Setups
    BY <2>1, <2>2 DEF Setups
  <2>5. \A k \in DOMAIN ir.funcs : \A m : Countings(k, m)' = Countings(k, m)
    BY <2>1, <2>2, <2>3 DEF Countings
  <2>6. QED
    BY <2>1, <2>4, <2>5, BlocksAlone
<1>10. CASE NothingPosixized
  <2>1. /\ pc = "posix" /\ pc' = "done" /\ ir' = ir /\ source' = source
    BY <1>10 DEF NothingPosixized, PosixDone
  <2>2. Runs("count-bb")' = Runs("count-bb")
    BY <1>10, RunsStay DEF NothingPosixized, PosixDone
  <2>3. Setups' = Setups /\ \A k, m : Countings(k, m)' = Countings(k, m)
    BY <2>1, <2>2 DEF Setups, Countings
  <2>4. QED
    BY <2>1, <2>3, BlocksAlone
<1>11. CASE MainPosixized
  BY <1>11, PosixizedStep, BlocksPosix
<1>12. CASE UNCHANGED vars
  <2>1. /\ ir' = ir /\ source' = source /\ pc' = pc /\ fn' = fn /\ bb' = bb
        /\ UNCHANGED <<passes, at>>
    BY <1>12 DEF vars, passVars
  <2>2. Runs("count-bb")' = Runs("count-bb")
    BY <2>1, RunsStay
  <2>3. Setups' = Setups /\ \A k, m : Countings(k, m)' = Countings(k, m)
    BY <2>1, <2>2 DEF Setups, Countings, Behind
  <2>4. QED
    BY <2>1, <2>3, BlocksAlone
<1>13. QED
  BY <1>4, <1>5, <1>6, <1>7, <1>8, <1>9, <1>10, <1>11, <1>12, WhatStepsDo

--------------------------------------------------------------------------------
(* setupAtExit *)

(* What setup has made of setupAtExit stays: its first block is never      *)
(* touched again.                                                          *)
LEMMA HandlerInit ==
  ASSUME Init
  PROVE  HandlerSoFar
<1>1. at = 0 /\ pc = "done" /\ ir = source
  BY DEF Init
<1>2. {k \in 1..at : passes[k] = "count-bb"} = {}
  BY <1>1
<1>3. Setups = 0
  BY <1>1, <1>2, FS_EmptySet DEF Runs, Setups
<1>4. QED
  BY <1>1, <1>3 DEF HandlerSoFar, NoReservedName

LEMMA HandlerAlone ==
  ASSUME HandlerSoFar, pc # "failed", source' = source, Setups' = Setups,
         Symbols(ir)' = Symbols(ir), FunctionNames(ir)' = FunctionNames(ir),
         \A k \in DOMAIN ir'.funcs : ir'.funcs[k].name = "setupAtExit" =>
           \E j \in DOMAIN ir.funcs :
             /\ ir.funcs[j].name = "setupAtExit"
             /\ ir'.funcs[k].blocks = ir.funcs[j].blocks
  PROVE  HandlerSoFar'
<1> SUFFICES ASSUME NoReservedName(source)
             PROVE  /\ Setups = 0 => {"setupAtExit", "bbCounter"} \cap Symbols(ir) = {}
                    /\ Setups > 0 =>
                         /\ "setupAtExit" \in FunctionNames(ir)
                         /\ \A k \in DOMAIN ir'.funcs :
                              ir'.funcs[k].name = "setupAtExit" =>
                              /\ ir'.funcs[k].blocks # <<>>
                              /\ ir'.funcs[k].blocks[1] = HandlerCode
  BY DEF HandlerSoFar
<1>1. QED
  BY DEF HandlerSoFar

LEMMA HandlerSetup ==
  ASSUME AtPass, HandlerSoFar, NEW names, ModuleStep(names),
         NEW counter \in names, SetupOf(counter)
  PROVE  HandlerSoFar'
<1> SUFFICES ASSUME NoReservedName(source)
             PROVE  HandlerSoFar'
  BY DEF HandlerSoFar, SetupOf
<1>1. /\ pc = "setup" /\ pc' = "blocks" /\ SetUp(ir, ir', counter)
      /\ "bbCounter" \notin Symbols(ir) => counter = "bbCounter"
  BY DEF SetupOf
<1>2. Runs("count-bb") \in Nat /\ Runs("count-bb") > 0
  BY <1>1, RunsAre
<1>3. Runs("count-bb")' = Runs("count-bb")
  BY RunsStay DEF SetupOf
<1>4. Setups' > 0 /\ Setups \in Nat
  BY <1>1, <1>2, <1>3 DEF Setups
<1>5. "setupAtExit" \in FunctionNames(ir')
  BY <1>1 DEF SetUp
<1>6. HandlerBlock(counter) \in Seq(Instructions(names))
  BY HandlerBlockIs DEF ModuleStep
<1>7. ASSUME NEW k \in DOMAIN ir'.funcs, ir'.funcs[k].name = "setupAtExit"
      PROVE  ir'.funcs[k].blocks # <<>> /\ ir'.funcs[k].blocks[1] = HandlerCode
  <2>1. CASE Setups = 0
    <3>1. "setupAtExit" \notin Symbols(ir) /\ counter = "bbCounter"
      BY <1>1, <2>1 DEF HandlerSoFar
    <3>2. k \notin DOMAIN ir.funcs
      <4>1. SUFFICES ASSUME k \in DOMAIN ir.funcs PROVE FALSE
        OBVIOUS
      <4>2. ir.funcs[k].name = "setupAtExit"
        BY <1>1, <1>7, <4>1 DEF SetUp
      <4>3. ir.funcs[k].name \in FunctionNames(ir)
        BY <4>1 DEF FunctionNames
      <4>4. QED
        BY <3>1, <4>2, <4>3 DEF Symbols
    <3>3. ir'.funcs[k].blocks = Append(<<>>, HandlerBlock(counter))
      BY <1>1, <1>7, <3>2 DEF SetUp
    <3>4. ir'.funcs[k].blocks = <<HandlerBlock(counter)>>
      BY <3>3
    <3>5. HandlerBlock(counter) = HandlerCode
      BY <3>1 DEF HandlerBlock, HandlerCode
    <3>6. QED
      BY <3>4, <3>5
  <2>2. CASE Setups > 0
    <3>1. k \in DOMAIN ir.funcs
      BY <1>1, <1>7, <2>2 DEF SetUp, HandlerSoFar, Symbols
    <3>2. ir.funcs[k].name = "setupAtExit"
      BY <1>1, <1>7, <3>1 DEF SetUp
    <3>3. ir.funcs[k].blocks # <<>> /\ ir.funcs[k].blocks[1] = HandlerCode
      BY <1>1, <2>2, <3>1, <3>2 DEF HandlerSoFar
    <3>4. ir'.funcs[k].blocks = Append(ir.funcs[k].blocks, HandlerBlock(counter))
      BY <1>1, <3>1, <3>2 DEF SetUp
    <3>5. PICK old : old = ir.funcs[k].blocks
      OBVIOUS
    <3>6. old \in Seq(Seq(Instructions(names)))
      BY <3>1, <3>5, Shape DEF ModuleStep
    <3>7. Len(old) \in Nat \ {0}
      BY <3>3, <3>5, <3>6, EmptySeq
    <3>8. Append(old, HandlerBlock(counter)) # <<>>
          /\ Append(old, HandlerBlock(counter))[1] = old[1]
      BY <1>6, <3>6, <3>7
    <3>9. QED
      BY <3>3, <3>4, <3>5, <3>8
  <2>3. QED
    BY <1>4, <2>1, <2>2
<1>8. QED
  BY <1>4, <1>5, <1>7 DEF HandlerSoFar

(* What the steps other than setup leave of the numbers.                   *)
LEMMA NumbersStay ==
  ASSUME AtPass, [Next]_vars, pc' # "failed", pc # "setup"
  PROVE  Setups' = Setups
<1>1. CASE StartPass
  <2>1. \A pass : Runs(pass)' =
          IF passes[at + 1] = pass THEN Runs(pass) + 1 ELSE Runs(pass)
    BY <1>1, RunsStart
  <2>2. Runs("count-bb") \in Nat
    BY RunsAre
  <2>3. QED
    BY <1>1, <2>1, <2>2 DEF StartPass, Setups
<1>2. CASE ~ StartPass
  <2>1. UNCHANGED <<passes, at>> /\ pc' # "setup"
    BY <1>2, WhatStepsDo, SetupIs, BlockIs
       DEF Dies, NothingPosixized, MainPosixized, PosixDone, vars, passVars,
           Count!SkipFunction, Count!InLoop, Count!Finish
  <2>2. QED
    BY <2>1, RunsStay DEF Setups
<1>3. QED
  BY <1>1, <1>2

LEMMA HandlerStep ==
  ASSUME AtPass, ModuleOK, HandlerSoFar, [Next]_vars
  PROVE  HandlerSoFar'
<1>1. CASE pc' = "failed"
  BY <1>1 DEF HandlerSoFar
<1>2. CASE UNCHANGED <<source, passes, at>> /\ Count!Setup
  BY <1>2, SetupStep, HandlerSetup
<1>3. ASSUME ir' = ir, source' = source, pc # "setup", pc # "failed",
             pc' # "failed"
      PROVE  HandlerSoFar'
  BY <1>3, NumbersStay, HandlerAlone
<1>4. CASE pc' # "failed" /\ StartPass
  BY <1>3, <1>4 DEF StartPass
<1>5. CASE pc' # "failed" /\ UNCHANGED <<source, passes, at>>
           /\ (Count!SkipFunction \/ Count!Finish)
  BY <1>3, <1>5 DEF Count!SkipFunction, Count!InLoop, Count!Finish
<1>6. CASE pc' # "failed" /\ NothingPosixized
  BY <1>3, <1>6 DEF NothingPosixized, PosixDone
<1>7. CASE UNCHANGED <<source, passes, at>> /\ Count!RunOnBasicBlock
  <2>1. BlockCounted
    BY <1>7, BlockStep
  <2>2. /\ pc = "blocks" /\ pc' = "blocks" /\ source' = source
        /\ ir.funcs[fn].name # "setupAtExit"
        /\ OneCounted(ir, ir', fn, bb)
    BY <2>1 DEF BlockCounted
  <2>3. Setups' = Setups
    BY <2>2, NumbersStay
  <2>4. Symbols(ir)' = Symbols(ir) /\ FunctionNames(ir)' = FunctionNames(ir)
    BY <2>2 DEF OneCounted, Symbols
  <2>5. \A k \in DOMAIN ir'.funcs : ir'.funcs[k].name = "setupAtExit" =>
          \E j \in DOMAIN ir.funcs :
            /\ ir.funcs[j].name = "setupAtExit"
            /\ ir'.funcs[k].blocks = ir.funcs[j].blocks
    BY <2>2 DEF OneCounted
  <2>6. QED
    BY <2>2, <2>3, <2>4, <2>5, HandlerAlone
<1>8. CASE MainPosixized
  <2>1. MainReplaced(ir, ir')
    BY <1>8, PosixizedStep
  <2>2. pc = "posix" /\ pc' = "done" /\ source' = source
    BY <1>8 DEF MainPosixized, PosixDone
  <2>3. Setups' = Setups
    BY <2>2, NumbersStay
  <2>4. Symbols(ir)' = Symbols(ir) /\ FunctionNames(ir)' = FunctionNames(ir)
    BY <2>1 DEF MainReplaced, Symbols
  <2>5. \A k \in DOMAIN ir'.funcs : ir'.funcs[k].name = "setupAtExit" =>
          \E j \in DOMAIN ir.funcs :
            /\ ir.funcs[j].name = "setupAtExit"
            /\ ir'.funcs[k].blocks = ir.funcs[j].blocks
    BY <2>1, PosixedParts DEF MainReplaced
  <2>6. QED
    BY <2>2, <2>3, <2>4, <2>5, HandlerAlone
<1>9. CASE UNCHANGED vars
  <2>1. ir' = ir /\ source' = source /\ pc' = pc /\ passes' = passes /\ at' = at
    BY <1>9 DEF vars, passVars
  <2>2. Runs("count-bb")' = Runs("count-bb")
    BY <2>1, RunsStay
  <2>3. QED
    BY <2>1, <2>2 DEF HandlerSoFar, Setups
<1>10. QED
  BY <1>1, <1>2, <1>4, <1>5, <1>6, <1>7, <1>8, <1>9, WhatStepsDo DEF Dies

--------------------------------------------------------------------------------
(* Constructors and variables *)

LEMMA GlobalsInit ==
  ASSUME Init
  PROVE  GlobalsSoFar
<1>1. at = 0 /\ pc = "done" /\ ir = source
  BY DEF Init
<1>2. {k \in 1..at : passes[k] = "count-bb"} = {}
  BY <1>1
<1>3. Setups = 0
  BY <1>1, <1>2, FS_EmptySet DEF Runs, Setups
<1>4. QED
  BY <1>1, <1>3 DEF GlobalsSoFar

LEMMA GlobalsSetup ==
  ASSUME HandlerSoFar, AtPass, GlobalsSoFar, NEW counter, SetupOf(counter)
  PROVE  GlobalsSoFar'
<1>1. /\ pc = "setup" /\ source' = source
      /\ ir'.ctors = ir.ctors
      /\ CounterIn(ir, ir', counter)
      /\ counter \notin Symbols(ir)
      /\ "bbCounter" \notin Symbols(ir) => counter = "bbCounter"
  BY DEF SetupOf, SetUp
<1>2. Runs("count-bb") \in Nat /\ Runs("count-bb") > 0
  BY <1>1, RunsAre
<1>3. Setups \in Nat
  BY <1>1, <1>2 DEF Setups
<1>4. ASSUME NoReservedName(source)
      PROVE  "bbCounter" \in DOMAIN ir'.gvars /\ ir'.gvars["bbCounter"].init = 0
  <2>1. CASE Setups = 0
    <3>1. counter = "bbCounter"
      BY <1>1, <1>4, <2>1 DEF HandlerSoFar
    <3>2. QED
      BY <1>1, <3>1 DEF CounterIn
  <2>2. CASE Setups > 0
    <3>1. "bbCounter" \in DOMAIN ir.gvars /\ ir.gvars["bbCounter"].init = 0
      BY <1>1, <1>4, <2>2 DEF GlobalsSoFar
    <3>2. counter # "bbCounter"
      BY <1>1, <3>1 DEF Symbols
    <3>3. QED
      BY <1>1, <3>1, <3>2 DEF CounterIn
  <2>3. QED
    BY <1>3, <2>1, <2>2
<1>5. QED
  BY <1>1, <1>4 DEF GlobalsSoFar

LEMMA GlobalsStep ==
  ASSUME AtPass, ModuleOK, HandlerSoFar, GlobalsSoFar, [Next]_vars
  PROVE  GlobalsSoFar'
<1>1. CASE UNCHANGED <<source, passes, at>> /\ Count!Setup
  BY <1>1, SetupStep, GlobalsSetup
<1>2. CASE Dies
  BY <1>2 DEF Dies, GlobalsSoFar
<1>3. ASSUME ir'.ctors = ir.ctors, ir'.gvars = ir.gvars, source' = source,
             pc # "setup", pc # "failed", pc' # "failed"
      PROVE  GlobalsSoFar'
  BY <1>3, NumbersStay DEF GlobalsSoFar
<1>4. CASE StartPass
  BY <1>3, <1>4 DEF StartPass
<1>5. CASE UNCHANGED <<source, passes, at>> /\ (Count!SkipFunction \/ Count!Finish)
  BY <1>3, <1>5 DEF Count!SkipFunction, Count!InLoop, Count!Finish
<1>6. CASE NothingPosixized
  BY <1>3, <1>6 DEF NothingPosixized, PosixDone
<1>7. CASE UNCHANGED <<source, passes, at>> /\ Count!RunOnBasicBlock
  BY <1>3, <1>7, BlockStep DEF BlockCounted, OneCounted
<1>8. CASE MainPosixized
  BY <1>3, <1>8, PosixizedStep DEF MainPosixized, PosixDone, MainReplaced
<1>9. CASE UNCHANGED vars
  <2>1. ir' = ir /\ source' = source /\ pc' = pc /\ passes' = passes /\ at' = at
    BY <1>9 DEF vars, passVars
  <2>2. Runs("count-bb")' = Runs("count-bb")
    BY <2>1, RunsStay
  <2>3. QED
    BY <2>1, <2>2 DEF GlobalsSoFar, Setups
<1>10. QED
  BY <1>1, <1>2, <1>4, <1>5, <1>6, <1>7, <1>8, <1>9, WhatStepsDo

--------------------------------------------------------------------------------
(* main *)

LEMMA MainInit ==
  ASSUME Init
  PROVE  MainSoFar
<1>1. at = 0 /\ pc = "done" /\ ir = source /\ source \in Modules
  BY DEF Init
<1>2. Verifies(source)
  BY <1>1, ModulesAssumption
<1>3. {k \in 1..at : passes[k] = "posix-main"} = {}
  BY <1>1
<1>4. Posixizations = 0
  BY <1>1, <1>3, FS_EmptySet DEF Runs, Posixizations
<1>5. ASSUME NEW k \in DOMAIN ir.funcs, ir.funcs[k].name = "main"
      PROVE  Named(source, "main").sig = ir.funcs[k].sig
  <2>1. "main" \in FunctionNames(source)
    BY <1>1, <1>5 DEF FunctionNames
  <2>2. Position(source, "main") = k
    BY <1>1, <1>2, <1>5, <2>1, PositionOf DEF Verifies
  <2>3. QED
    BY <1>1, <2>2 DEF Named
<1>6. FunctionNames(ir) = FunctionNames(source)
  BY <1>1
<1>7. ~ (Posixizations > 0)
  BY <1>4
<1>8. "main" \in FunctionNames(ir) <=> "main" \in FunctionNames(source)
  BY <1>6
<1>9. QED
  BY <1>5, <1>7, <1>8 DEF MainSoFar

LEMMA MainAlone ==
  ASSUME MainSoFar, pc # "failed", source' = source, Posixizations' = Posixizations,
         \A k \in DOMAIN ir.funcs :
           /\ k \in DOMAIN ir'.funcs
           /\ ir'.funcs[k].name = ir.funcs[k].name
           /\ ir'.funcs[k].sig = ir.funcs[k].sig,
         \A k \in DOMAIN ir'.funcs \ DOMAIN ir.funcs : ir'.funcs[k].name # "main"
  PROVE  MainSoFar'
<1>1. ASSUME NEW k \in DOMAIN ir'.funcs, ir'.funcs[k].name = "main"
      PROVE  /\ k \in DOMAIN ir.funcs /\ ir.funcs[k].name = "main"
             /\ ir'.funcs[k].sig = ir.funcs[k].sig
  BY <1>1
<1>2. "main" \in FunctionNames(ir') <=> "main" \in FunctionNames(ir)
  <2>1. ASSUME "main" \in FunctionNames(ir') PROVE "main" \in FunctionNames(ir)
    BY <1>1, <2>1 DEF FunctionNames
  <2>2. ASSUME "main" \in FunctionNames(ir) PROVE "main" \in FunctionNames(ir')
    <3>1. PICK k \in DOMAIN ir.funcs : ir.funcs[k].name = "main"
      BY <2>2 DEF FunctionNames
    <3>2. k \in DOMAIN ir'.funcs /\ ir'.funcs[k].name = "main"
      BY <3>1
    <3>3. QED
      BY <3>2 DEF FunctionNames
  <2>3. QED
    BY <2>1, <2>2
<1>3. QED
  BY <1>1, <1>2 DEF MainSoFar

LEMMA PosixStays ==
  ASSUME AtPass, [Next]_vars, pc' # "failed", pc # "posix"
  PROVE  Posixizations' = Posixizations
<1>1. CASE StartPass
  <2>1. \A pass : Runs(pass)' =
          IF passes[at + 1] = pass THEN Runs(pass) + 1 ELSE Runs(pass)
    BY <1>1, RunsStart
  <2>2. Runs("posix-main") \in Nat
    BY RunsAre
  <2>3. passes[at + 1] \in {"posix-main", "count-bb"}
    <3>1. passes \in Seq({"posix-main", "count-bb"}) /\ at \in 0..Len(passes)
          /\ at < Len(passes)
      BY <1>1, PipelinesAssumption DEF AtPass, StartPass
    <3>2. QED
      BY <3>1
  <2>4. QED
    BY <1>1, <2>1, <2>2, <2>3 DEF StartPass, Posixizations
<1>2. CASE ~ StartPass
  <2>1. UNCHANGED <<passes, at>> /\ pc' # "posix"
    BY <1>2, WhatStepsDo, SetupIs, BlockIs
       DEF Dies, NothingPosixized, MainPosixized, PosixDone, vars, passVars,
           Count!SkipFunction, Count!InLoop, Count!Finish
  <2>2. QED
    BY <2>1, RunsStay DEF Posixizations
<1>3. QED
  BY <1>1, <1>2

(* The new main is a posix one.                                            *)
LEMMA PosixedMain ==
  ASSUME NEW func, func.name = "main"
  PROVE  Posixed(func).sig = "int(int,char**)"
BY DEF Posixed, Func

LEMMA MainStep ==
  ASSUME AtPass, ModuleOK, MainSoFar, [Next]_vars
  PROVE  MainSoFar'
<1>1. CASE pc' = "failed"
  BY <1>1 DEF MainSoFar
<1>2. CASE UNCHANGED <<source, passes, at>> /\ Count!Setup /\ pc' # "failed"
  <2>1. PICK counter : SetupOf(counter)
    BY <1>2, SetupStep
  <2>2. SetUp(ir, ir', counter) /\ pc = "setup" /\ source' = source
        /\ "main" \in FunctionNames(ir)
    BY <2>1 DEF SetupOf
  <2>3. Posixizations' = Posixizations
    BY <1>2, <2>2, PosixStays
  <2>4. \A k \in DOMAIN ir.funcs :
          /\ k \in DOMAIN ir'.funcs
          /\ ir'.funcs[k].name = ir.funcs[k].name
          /\ ir'.funcs[k].sig = ir.funcs[k].sig
    BY <2>2 DEF SetUp
  <2>5. \A k \in DOMAIN ir'.funcs \ DOMAIN ir.funcs : ir'.funcs[k].name # "main"
    BY <2>2 DEF SetUp
  <2>6. QED
    BY <2>2, <2>3, <2>4, <2>5, MainAlone
<1>3. ASSUME ir' = ir, source' = source, pc # "posix", pc # "failed",
             pc' # "failed"
      PROVE  MainSoFar'
  BY <1>3, PosixStays, MainAlone
<1>4. CASE pc' # "failed" /\ StartPass
  BY <1>3, <1>4 DEF StartPass
<1>5. CASE pc' # "failed" /\ UNCHANGED <<source, passes, at>>
           /\ (Count!SkipFunction \/ Count!Finish)
  BY <1>3, <1>5 DEF Count!SkipFunction, Count!InLoop, Count!Finish
<1>6. CASE NothingPosixized
  <2>1. /\ pc = "posix" /\ pc' = "done" /\ source' = source /\ ir' = ir
        /\ "main" \in FunctionNames(ir) => Named(ir, "main").sig \in
             Posix!PosixParameters \cup Posix!OtherTwoParameters
    BY <1>6 DEF NothingPosixized, PosixDone
  <2>2. ASSUME NEW k \in DOMAIN ir.funcs, ir.funcs[k].name = "main"
        PROVE  ir.funcs[k].sig \in Posix!PosixParameters \cup Posix!OtherTwoParameters
    <3>1. "main" \in FunctionNames(ir)
      BY <2>2 DEF FunctionNames
    <3>2. UniqueNames(ir)
      BY DEF ModuleOK
    <3>3. ir.funcs[k] = Named(ir, "main")
      BY <2>2, <3>1, <3>2, PositionOf DEF UniqueNames
    <3>4. QED
      BY <2>1, <3>1, <3>3
  <2>3. QED
    BY <2>1, <2>2 DEF MainSoFar, Posix!PosixParameters
<1>7. CASE UNCHANGED <<source, passes, at>> /\ Count!RunOnBasicBlock
  <2>1. BlockCounted
    BY <1>7, BlockStep
  <2>2. /\ pc = "blocks" /\ pc' = "blocks" /\ source' = source
        /\ OneCounted(ir, ir', fn, bb)
    BY <2>1 DEF BlockCounted
  <2>3. Posixizations' = Posixizations
    BY <2>2, PosixStays
  <2>4. DOMAIN ir'.funcs = DOMAIN ir.funcs
        /\ \A k \in DOMAIN ir.funcs :
          /\ ir'.funcs[k].name = ir.funcs[k].name
          /\ ir'.funcs[k].sig = ir.funcs[k].sig
    BY <2>2 DEF OneCounted
  <2>5. QED
    BY <2>2, <2>3, <2>4, MainAlone
<1>8. CASE MainPosixized
  <2>1. MainReplaced(ir, ir')
    BY <1>8, PosixizedStep
  <2>2. pc = "posix" /\ pc' = "done" /\ source' = source
    BY <1>8 DEF MainPosixized, PosixDone
  <2>3. FunctionNames(ir)' = FunctionNames(ir)
    BY <2>1 DEF MainReplaced
  <2>4. ASSUME NEW k \in DOMAIN ir'.funcs, ir'.funcs[k].name = "main"
        PROVE  ir'.funcs[k].sig = "int(int,char**)"
    <3>1. PICK j \in DOMAIN ir.funcs : ir'.funcs[k] = Posixed(ir.funcs[j])
      BY <2>1 DEF MainReplaced
    <3>2. ir.funcs[j].name = "main"
      BY <2>4, <3>1, PosixedParts
    <3>3. QED
      BY <3>1, <3>2, PosixedMain
  <2>5. QED
    BY <2>2, <2>3, <2>4 DEF MainSoFar
<1>9. CASE UNCHANGED vars
  <2>1. ir' = ir /\ source' = source /\ pc' = pc /\ passes' = passes /\ at' = at
    BY <1>9 DEF vars, passVars
  <2>2. Runs("posix-main")' = Runs("posix-main")
    BY <2>1, RunsStay
  <2>3. QED
    BY <2>1, <2>2 DEF MainSoFar, Posixizations
<1>10. QED
  BY <1>1, <1>2, <1>4, <1>5, <1>6, <1>7, <1>8, <1>9, WhatStepsDo DEF Dies

--------------------------------------------------------------------------------
(* The verifier *)

(* What the verifier asks of a block, of a function, and of a module of    *)
(* such functions: names are the functions there are, count the number of  *)
(* blocks, sig the type of the function.                                   *)
BlockVerifies(block, names, count, sig) ==
  /\ block # <<>>
  /\ \A n \in DOMAIN block :
       /\ IsTerminator(block[n]) <=> n = Len(block)
       /\ block[n].op \in {"call", "spawn", "atexit"} => block[n].sym \in names
  /\ block[Len(block)].to \subseteq 2..count
  /\ block[Len(block)].op = "ret" => block[Len(block)].sym = ReturnType(sig)

FuncVerifies(func, names) ==
  \A m \in DOMAIN func.blocks :
    BlockVerifies(func.blocks[m], names, Len(func.blocks), func.sig)

LEMMA VerifiesIs ==
  ASSUME NEW M
  PROVE  Verifies(M) <=>
           /\ UniqueNames(M)
           /\ FunctionNames(M) \cap DOMAIN M.gvars = {}
           /\ \A k \in DOMAIN M.funcs : FuncVerifies(M.funcs[k], FunctionNames(M))
<1> DEFINE CallsFine ==
      \A k \in DOMAIN M.funcs : \A m \in DOMAIN M.funcs[k].blocks :
        \A n \in DOMAIN M.funcs[k].blocks[m] :
          M.funcs[k].blocks[m][n].op \in {"call", "spawn", "atexit"} =>
          M.funcs[k].blocks[m][n].sym \in FunctionNames(M)
<1>1. (\A ins \in Calls(M) : ins.sym \in FunctionNames(M)) <=> CallsFine
  <2>1. \A ins : ins \in Calls(M) <=>
          /\ ins.op \in {"call", "spawn", "atexit"}
          /\ \E k \in DOMAIN M.funcs : \E m \in DOMAIN M.funcs[k].blocks :
               \E n \in DOMAIN M.funcs[k].blocks[m] :
                 ins = M.funcs[k].blocks[m][n]
    BY DEF Calls, Instrs, InstrsOf
  <2>2. QED
    BY <2>1
<1> HIDE DEF CallsFine
<1>2. Verifies(M) <=>
        /\ UniqueNames(M)
        /\ FunctionNames(M) \cap DOMAIN M.gvars = {}
        /\ CallsFine
        /\ \A k \in DOMAIN M.funcs : \A m \in DOMAIN M.funcs[k].blocks :
             LET blocks == M.funcs[k].blocks
                 block == blocks[m]
             IN  /\ block # <<>>
                 /\ \A n \in DOMAIN block : IsTerminator(block[n]) <=> n = Len(block)
                 /\ block[Len(block)].to \subseteq 2..Len(blocks)
                 /\ block[Len(block)].op = "ret" =>
                      block[Len(block)].sym = ReturnType(M.funcs[k].sig)
  BY <1>1 DEF Verifies, UniqueNames
<1>3. QED
  BY <1>2, SMTT(30) DEF CallsFine, FuncVerifies, BlockVerifies

(* What is inserted before an instruction of a block leaves the last one.  *)
Spliced(block, new, code) ==
  /\ new # <<>>
  /\ Len(new) \in Nat \ {0} /\ DOMAIN new = 1..Len(new)
  /\ new[Len(new)] = block[Len(block)]
  /\ \A i \in DOMAIN new : i # Len(new) =>
       \/ \E j \in DOMAIN code : new[i] = code[j]
       \/ \E j \in DOMAIN block : j # Len(block) /\ new[i] = block[j]

LEMMA InsertSplices ==
  ASSUME NEW S, NEW block \in Seq(S), NEW pos \in 1..Len(block), NEW code \in Seq(S)
  PROVE  Spliced(block, InsertBefore(block, pos, code), code)
<1> DEFINE L == Len(block)
           C == Len(code)
<1>1. PICK front, back : front = SubSeq(block, 1, pos - 1)
                         /\ back = SubSeq(block, pos, L)
  OBVIOUS
<1>2. /\ front \in Seq(S) /\ Len(front) = pos - 1
      /\ \A i \in 1..pos - 1 : front[i] = block[i]
  BY <1>1
<1>3. /\ back \in Seq(S) /\ Len(back) = L - pos + 1
      /\ \A i \in 1..L - pos + 1 : back[i] = block[pos + i - 1]
  BY <1>1
<1>4. PICK fc : fc = front \o code
  OBVIOUS
<1>5. /\ fc \in Seq(S) /\ Len(fc) = pos - 1 + C
      /\ \A i \in 1..pos - 1 + C :
           fc[i] = IF i < pos THEN block[i] ELSE code[i - pos + 1]
  <2>1. fc \in Seq(S) /\ Len(fc) = Len(front) + C
    BY <1>2, <1>4, ConcatProperties
  <2>2. \A i \in 1..Len(front) + C :
          fc[i] = IF i <= Len(front) THEN front[i] ELSE code[i - Len(front)]
    BY <1>2, <1>4, ConcatProperties
  <2>3. \A i \in 1..pos - 1 + C :
          fc[i] = IF i < pos THEN front[i] ELSE code[i - (pos - 1)]
    BY <1>2, <2>2
  <2>4. \A i \in Int : i - (pos - 1) = i - pos + 1
    OBVIOUS
  <2>5. QED
    BY <1>2, <2>1, <2>3, <2>4
<1>6. PICK new : new = fc \o back
  OBVIOUS
<1>7. /\ new \in Seq(S) /\ Len(new) = L + C
      /\ \A i \in 1..L + C :
           new[i] = IF i < pos + C THEN fc[i] ELSE block[i - C]
  <2>1. Len(new) = L + C /\ new \in Seq(S)
    <3>1. Len(new) = Len(fc) + Len(back) /\ new \in Seq(S)
      BY <1>3, <1>5, <1>6, ConcatProperties
    <3>2. QED
      BY <1>3, <1>5, <3>1
  <2>2. ASSUME NEW i \in 1..L + C, i < pos + C PROVE new[i] = fc[i]
    BY <1>3, <1>5, <1>6, <2>2
  <2>3. ASSUME NEW i \in 1..L + C, ~ (i < pos + C) PROVE new[i] = block[i - C]
    <3>1. new[i] = back[i - (pos - 1 + C)]
      BY <1>3, <1>5, <1>6, <2>3
    <3>2. i - (pos - 1 + C) \in 1..L - pos + 1
      BY <2>3
    <3>3. pos + (i - (pos - 1 + C)) - 1 = i - C
      OBVIOUS
    <3>4. QED
      BY <1>3, <3>1, <3>2, <3>3
  <2>4. QED
    BY <2>1, <2>2, <2>3
<1>8. new = InsertBefore(block, pos, code)
  BY <1>1, <1>4, <1>6 DEF InsertBefore
<1>9. /\ L \in Nat \ {0} /\ C \in Nat /\ DOMAIN block = 1..L /\ DOMAIN code = 1..C
      /\ DOMAIN new = 1..L + C /\ pos \in 1..L
  BY <1>7
<1> HIDE DEF L, C
<1>10. new[L + C] = block[L] /\ new # <<>>
  BY <1>7, <1>9
<1>11. ASSUME NEW i \in 1..L + C, i # L + C
       PROVE  \/ \E j \in 1..C : new[i] = code[j]
              \/ \E j \in 1..L : j # L /\ new[i] = block[j]
  <2>1. CASE i < pos
    BY <1>5, <1>7, <1>9, <2>1
  <2>2. CASE i >= pos /\ i < pos + C
    <3>1. i - pos + 1 \in 1..C /\ i \in 1..pos - 1 + C
      BY <1>9, <2>2
    <3>2. new[i] = code[i - pos + 1]
      BY <1>5, <1>7, <2>2, <3>1
    <3>3. QED
      BY <3>1, <3>2
  <2>3. CASE i >= pos + C
    <3>1. new[i] = block[i - C] /\ i - C \in 1..L /\ i - C # L
      BY <1>7, <1>9, <1>11, <2>3
    <3>2. QED
      BY <3>1
  <2>4. QED
    BY <1>9, <2>1, <2>2, <2>3
<1>12. Len(new) = L + C /\ L + C \in Nat \ {0}
  BY <1>7, <1>9
<1>13. Spliced(block, new, code)
  BY <1>9, <1>10, <1>11, <1>12 DEF Spliced, L
<1>14. QED
  BY <1>8, <1>13

(* Code that verifies wherever it is inserted, and the blocks that verify  *)
(* then.                                                                   *)
Harmless(code, names) ==
  \A n \in DOMAIN code :
    /\ ~ IsTerminator(code[n])
    /\ code[n].op \in {"call", "spawn", "atexit"} => code[n].sym \in names

LEMMA SplicedVerifies ==
  ASSUME NEW block, NEW new, NEW code, NEW names, NEW count, NEW sig,
         BlockVerifies(block, names, count, sig), Spliced(block, new, code),
         Len(block) \in DOMAIN block, Harmless(code, names)
  PROVE  BlockVerifies(new, names, count, sig)
<1>1. IsTerminator(new[Len(new)])
  BY DEF BlockVerifies, Spliced
<1>2. \A n \in DOMAIN new : n # Len(new) => ~ IsTerminator(new[n])
  BY DEF BlockVerifies, Spliced, Harmless
<1>3. \A n \in DOMAIN new :
        new[n].op \in {"call", "spawn", "atexit"} => new[n].sym \in names
  <2>1. ASSUME NEW n \in DOMAIN new, n # Len(new)
        PROVE  new[n].op \in {"call", "spawn", "atexit"} => new[n].sym \in names
    BY <2>1 DEF BlockVerifies, Spliced, Harmless
  <2>2. new[Len(new)].op \in {"call", "spawn", "atexit"} => new[Len(new)].sym \in names
    BY DEF BlockVerifies, Spliced
  <2>3. QED
    BY <2>1, <2>2
<1>4. QED
  BY <1>1, <1>2, <1>3 DEF BlockVerifies, Spliced

LEMMA VerifiesMore ==
  ASSUME NEW block, NEW names, NEW more, NEW count \in Nat, NEW larger \in Nat,
         NEW sig, NEW sig2, names \subseteq more, count <= larger,
         ReturnType(sig) = ReturnType(sig2),
         BlockVerifies(block, names, count, sig)
  PROVE  BlockVerifies(block, more, larger, sig2)
<1>1. 2..count \subseteq 2..larger
  OBVIOUS
<1>2. QED
  BY <1>1 DEF BlockVerifies

LEMMA HandlerVerifies ==
  ASSUME NEW counter, NEW names, NEW count
  PROVE  BlockVerifies(HandlerBlock(counter), names, count, "void()")
<1>1. PICK a, b, c : a = Instr("load", counter) /\ b = Instr("printf", "")
                     /\ c = Ret("void")
  OBVIOUS
<1>2. /\ a.op = "load" /\ b.op = "printf" /\ c.op = "ret" /\ c.to = {}
      /\ c.sym = ReturnType("void()")
  BY <1>1 DEF Instr, Ret, ReturnType
<1>3. PICK block : block = <<a, b, c>>
  OBVIOUS
<1>4. /\ block # <<>> /\ DOMAIN block = 1..3 /\ Len(block) = 3
      /\ block[1] = a /\ block[2] = b /\ block[3] = c
  BY <1>3
<1>5. \A n \in 1..3 :
        /\ IsTerminator(block[n]) <=> n = 3
        /\ block[n].op \notin {"call", "spawn", "atexit"}
  BY <1>2, <1>4 DEF IsTerminator
<1>6. HandlerBlock(counter) = block
  BY <1>1, <1>3 DEF HandlerBlock
<1>7. QED
  BY <1>2, <1>4, <1>5, <1>6 DEF BlockVerifies

LEMMA CodeHarmless ==
  ASSUME NEW names
  PROVE  /\ Harmless(Counting, names)
         /\ "setupAtExit" \in names => Harmless(Registration, names)
<1>1. Harmless(Counting, names)
  <2>1. PICK a, b, c : a = Instr("load", "bbCounter") /\ b = Instr("add", "")
                       /\ c = Instr("store", "bbCounter")
    OBVIOUS
  <2>2. a.op = "load" /\ b.op = "add" /\ c.op = "store"
    BY <2>1 DEF Instr
  <2>3. Counting = <<a, b, c>>
    BY <2>1 DEF Counting
  <2>4. \A n \in DOMAIN Counting : Counting[n] \in {a, b, c}
    BY <2>3
  <2>5. QED
    BY <2>2, <2>4 DEF Harmless, IsTerminator
<1>2. ASSUME "setupAtExit" \in names PROVE Harmless(Registration, names)
  <2>1. PICK a : a = Instr("atexit", "setupAtExit")
    OBVIOUS
  <2>2. a.op = "atexit" /\ a.sym = "setupAtExit"
    BY <2>1 DEF Instr
  <2>3. \A n \in DOMAIN Registration : Registration[n] = a
    BY <2>1 DEF Registration
  <2>4. QED
    BY <1>2, <2>2, <2>3 DEF Harmless, IsTerminator
<1>3. QED
  BY <1>1, <1>2

(* setup keeps the verifier content.                                       *)
LEMMA SetUpVerifies ==
  ASSUME NEW names, PassNames \subseteq names, NEW M, IsModule(M, names),
         NEW N, IsModule(N, names), NEW counter \in names,
         counter \notin Symbols(M) \cup {"setupAtExit", "atexit", "printf"},
         SetUp(M, N, counter), Verifies(M)
  PROVE  Verifies(N)
<1> DEFINE old == FunctionNames(M)
           new == FunctionNames(N)
<1>1. /\ UniqueNames(M) /\ old \cap DOMAIN M.gvars = {}
      /\ \A k \in DOMAIN M.funcs : FuncVerifies(M.funcs[k], old)
  BY VerifiesIs
<1>2. UniqueNames(N) /\ old \subseteq new /\ "setupAtExit" \in new
  BY DEF SetUp
<1>3. new \cap DOMAIN N.gvars = {}
  <2>1. SUFFICES ASSUME NEW k \in DOMAIN N.funcs
                 PROVE  N.funcs[k].name \notin DOMAIN M.gvars \cup {counter}
    BY DEF FunctionNames, SetUp, CounterIn
  <2>2. CASE k \in DOMAIN M.funcs
    <3>1. N.funcs[k].name = M.funcs[k].name /\ M.funcs[k].name \in old
      BY <2>2 DEF SetUp, FunctionNames
    <3>2. QED
      BY <1>1, <3>1 DEF Symbols
  <2>3. CASE k \notin DOMAIN M.funcs
    BY <2>3 DEF SetUp, Symbols
  <2>4. QED
    BY <2>2, <2>3
<1>4. HandlerBlock(counter) \in Seq(Instructions(names))
  BY HandlerBlockIs
<1> HIDE DEF old, new
<1>5. ASSUME NEW k \in DOMAIN N.funcs, k \notin DOMAIN M.funcs
      PROVE  FuncVerifies(N.funcs[k], new)
  <2>1. CASE N.funcs[k].name # "setupAtExit"
    <3>1. N.funcs[k].blocks = <<>>
      BY <1>5, <2>1 DEF SetUp
    <3>2. DOMAIN <<>> = {}
      OBVIOUS
    <3>3. QED
      BY <3>1, <3>2 DEF FuncVerifies
  <2>2. CASE N.funcs[k].name = "setupAtExit"
    <3>1. /\ N.funcs[k].sig = "void()"
          /\ N.funcs[k].blocks = Append(<<>>, HandlerBlock(counter))
      BY <1>5, <2>2 DEF SetUp
    <3>2. PICK blocks : blocks = N.funcs[k].blocks
      OBVIOUS
    <3>3. blocks = <<HandlerBlock(counter)>>
      BY <3>1, <3>2
    <3>4. \A m \in DOMAIN blocks : blocks[m] = HandlerBlock(counter)
      BY <3>3
    <3>5. QED
      BY <3>1, <3>2, <3>4, HandlerVerifies DEF FuncVerifies
  <2>3. QED
    BY <2>1, <2>2
<1>6. ASSUME NEW k \in DOMAIN M.funcs
      PROVE  FuncVerifies(N.funcs[k], new)
  <2>1. PICK blocks : blocks = M.funcs[k].blocks
    OBVIOUS
  <2>2. PICK made : made = N.funcs[k].blocks
    OBVIOUS
  <2>3. PICK sig : sig = M.funcs[k].sig
    OBVIOUS
  <2>4. N.funcs[k].sig = sig
    BY <2>3 DEF SetUp
  <2>5. /\ blocks \in Seq(Seq(Instructions(names)))
        /\ Len(blocks) \in Nat /\ DOMAIN blocks = 1..Len(blocks)
        /\ \A m \in DOMAIN blocks : blocks[m] \in Seq(Instructions(names))
    BY <2>1, Shape
  <2>6. \A m \in DOMAIN blocks : BlockVerifies(blocks[m], old, Len(blocks), sig)
    BY <1>1, <2>1, <2>3 DEF FuncVerifies
  <2>7. \A m \in DOMAIN blocks : \A larger \in Nat : Len(blocks) <= larger =>
          BlockVerifies(blocks[m], new, larger, sig)
    BY <1>2, <2>5, <2>6, VerifiesMore
  <2>8. SUFFICES \A m \in DOMAIN made : BlockVerifies(made[m], new, Len(made), sig)
    BY <2>2, <2>4 DEF FuncVerifies
  <2>9. CASE M.funcs[k].name \notin {"main", "setupAtExit"}
    <3>1. made = blocks
      BY <2>1, <2>2, <2>9 DEF SetUp
    <3>2. QED
      BY <2>5, <2>7, <3>1
  <2>10. CASE M.funcs[k].name = "setupAtExit"
    <3>1. made = Append(blocks, HandlerBlock(counter)) /\ sig = "void()"
      BY <2>1, <2>2, <2>4, <2>10 DEF SetUp
    <3>2. /\ Len(made) = Len(blocks) + 1 /\ DOMAIN made = 1..Len(made)
          /\ \A m \in 1..Len(blocks) : made[m] = blocks[m]
          /\ made[Len(blocks) + 1] = HandlerBlock(counter)
      BY <1>4, <2>5, <3>1
    <3>3. \A m \in DOMAIN blocks : BlockVerifies(made[m], new, Len(made), sig)
      BY <2>5, <2>7, <3>2
    <3>4. BlockVerifies(made[Len(made)], new, Len(made), sig)
      BY <3>1, <3>2, HandlerVerifies
    <3>5. QED
      BY <2>5, <3>2, <3>3, <3>4
  <2>11. CASE M.funcs[k].name = "main"
    <3>1. made = [blocks EXCEPT ![1] = InsertBefore(@, 1, Registration)]
      BY <2>1, <2>2, <2>11 DEF SetUp
    <3>2. /\ Len(made) = Len(blocks) /\ DOMAIN made = DOMAIN blocks
          /\ \A m \in DOMAIN blocks : made[m] =
               IF m = 1 THEN InsertBefore(blocks[1], 1, Registration) ELSE blocks[m]
      BY <2>5, <3>1
    <3>3. ASSUME 1 \in DOMAIN blocks
          PROVE  BlockVerifies(InsertBefore(blocks[1], 1, Registration),
                               new, Len(blocks), sig)
      <4>1. blocks[1] # <<>> /\ blocks[1] \in Seq(Instructions(names))
            /\ BlockVerifies(blocks[1], new, Len(blocks), sig)
        BY <2>5, <2>7, <3>3 DEF BlockVerifies
      <4>2. 1 \in 1..Len(blocks[1]) /\ Len(blocks[1]) \in DOMAIN blocks[1]
        <5>1. Len(blocks[1]) \in Nat \ {0} /\ DOMAIN blocks[1] = 1..Len(blocks[1])
          BY <4>1, EmptySeq
        <5>2. QED
          BY <5>1
      <4>3. Registration \in Seq(Instructions(names))
        BY <4>1, Parts, 0 \in Nat
      <4>4. Spliced(blocks[1], InsertBefore(blocks[1], 1, Registration), Registration)
        BY <4>1, <4>2, <4>3, InsertSplices
      <4>5. Harmless(Registration, new)
        BY <1>2, CodeHarmless
      <4>6. QED
        BY <4>1, <4>2, <4>4, <4>5, SplicedVerifies
    <3>4. ASSUME NEW m \in DOMAIN made
          PROVE  BlockVerifies(made[m], new, Len(made), sig)
      <4>1. CASE m = 1
        BY <3>2, <3>3, <4>1
      <4>2. CASE m # 1
        BY <2>5, <2>7, <3>2, <4>2
      <4>3. QED
        BY <4>1, <4>2
    <3>5. QED
      BY <3>4
  <2>12. QED
    BY <2>9, <2>10, <2>11
<1>7. \A k \in DOMAIN N.funcs : FuncVerifies(N.funcs[k], new)
  BY <1>5, <1>6
<1>8. QED
  BY <1>2, <1>3, <1>7, VerifiesIs DEF new

(* So does the counting of a block.                                        *)
LEMMA CountedVerifies ==
  ASSUME NEW names, PassNames \subseteq names, NEW M, IsModule(M, names), NEW N,
         NEW f \in DOMAIN M.funcs, NEW b \in DOMAIN M.funcs[f].blocks,
         OneCounted(M, N, f, b), Verifies(M)
  PROVE  Verifies(N)
<1> DEFINE fns == FunctionNames(M)
<1>1. /\ UniqueNames(N) /\ FunctionNames(N) = fns /\ N.gvars = M.gvars
      /\ DOMAIN N.funcs = DOMAIN M.funcs
      /\ \A k \in DOMAIN M.funcs : k # f => N.funcs[k] = M.funcs[k]
      /\ N.funcs[f].sig = M.funcs[f].sig
  BY DEF OneCounted
<1>2. /\ fns \cap DOMAIN M.gvars = {}
      /\ \A k \in DOMAIN M.funcs : FuncVerifies(M.funcs[k], fns)
  BY VerifiesIs
<1> HIDE DEF fns
<1>3. PICK blocks : blocks = M.funcs[f].blocks
  OBVIOUS
<1>4. PICK made : made = N.funcs[f].blocks
  OBVIOUS
<1>5. made = [blocks EXCEPT ![b] = InsertBefore(@, Len(@), Counting)]
  BY <1>3, <1>4 DEF OneCounted
<1>6. /\ blocks \in Seq(Seq(Instructions(names)))
      /\ \A m \in DOMAIN blocks : blocks[m] \in Seq(Instructions(names))
      /\ b \in DOMAIN blocks
  BY <1>3, Shape
<1>7. /\ Len(made) = Len(blocks) /\ DOMAIN made = DOMAIN blocks
      /\ \A m \in DOMAIN blocks : made[m] =
           IF m = b THEN InsertBefore(blocks[b], Len(blocks[b]), Counting)
           ELSE blocks[m]
  BY <1>5, <1>6
<1>8. \A m \in DOMAIN blocks :
        BlockVerifies(blocks[m], fns, Len(blocks), M.funcs[f].sig)
  BY <1>2, <1>3 DEF FuncVerifies
<1>9. BlockVerifies(InsertBefore(blocks[b], Len(blocks[b]), Counting),
                    fns, Len(blocks), M.funcs[f].sig)
  <2>1. blocks[b] # <<>> /\ blocks[b] \in Seq(Instructions(names))
    BY <1>6, <1>8 DEF BlockVerifies
  <2>2. Len(blocks[b]) \in 1..Len(blocks[b]) /\ Len(blocks[b]) \in DOMAIN blocks[b]
    <3>1. Len(blocks[b]) \in Nat \ {0} /\ DOMAIN blocks[b] = 1..Len(blocks[b])
      BY <2>1, EmptySeq
    <3>2. QED
      BY <3>1
  <2>3. Counting \in Seq(Instructions(names))
    BY <2>1, Parts, 0 \in Nat
  <2>4. Spliced(blocks[b], InsertBefore(blocks[b], Len(blocks[b]), Counting), Counting)
    BY <2>1, <2>2, <2>3, InsertSplices
  <2>5. QED
    BY <1>6, <1>8, <2>2, <2>4, CodeHarmless, SplicedVerifies
<1>10. \A m \in DOMAIN made : BlockVerifies(made[m], fns, Len(made), M.funcs[f].sig)
  BY <1>7, <1>8, <1>9
<1>11. FuncVerifies(N.funcs[f], fns)
  BY <1>1, <1>4, <1>10 DEF FuncVerifies
<1>12. \A k \in DOMAIN N.funcs : FuncVerifies(N.funcs[k], FunctionNames(N))
  BY <1>1, <1>2, <1>11
<1>13. QED
  BY <1>1, <1>2, <1>12, VerifiesIs

(* So does a main of argc and argv, if the one before it returned an int.  *)
LEMMA PosixedVerifies ==
  ASSUME NEW names, NEW M, IsModule(M, names), NEW N, MainReplaced(M, N),
         \A k \in DOMAIN M.funcs : M.funcs[k].name = "main" => M.funcs[k].sig # "void()",
         Verifies(M)
  PROVE  Verifies(N)
<1>1. /\ UniqueNames(N) /\ FunctionNames(N) = FunctionNames(M) /\ N.gvars = M.gvars
      /\ \A k \in DOMAIN N.funcs : \E j \in DOMAIN M.funcs :
           N.funcs[k] = Posixed(M.funcs[j])
  BY DEF MainReplaced
<1>2. /\ FunctionNames(M) \cap DOMAIN M.gvars = {}
      /\ \A k \in DOMAIN M.funcs : FuncVerifies(M.funcs[k], FunctionNames(M))
  BY VerifiesIs
<1>3. ASSUME NEW k \in DOMAIN N.funcs
      PROVE  FuncVerifies(N.funcs[k], FunctionNames(M))
  <2>1. PICK j \in DOMAIN M.funcs : N.funcs[k] = Posixed(M.funcs[j])
    BY <1>1
  <2>2. CASE M.funcs[j].name # "main"
    BY <1>2, <2>1, <2>2 DEF Posixed
  <2>3. CASE M.funcs[j].name = "main"
    <3>1. PICK old : old = M.funcs[j]
      OBVIOUS
    <3>2. PICK new : new = N.funcs[k]
      OBVIOUS
    <3>3. new.sig = "int(int,char**)" /\ new.blocks = old.blocks
      BY <2>1, <2>3, <3>1, <3>2, PosixedMain, PosixedParts
    <3>4. ReturnType(old.sig) = ReturnType(new.sig)
      BY <2>3, <3>1, <3>3 DEF ReturnType
    <3>5. \A m \in DOMAIN old.blocks :
            BlockVerifies(old.blocks[m], FunctionNames(M), Len(old.blocks), old.sig)
      BY <1>2, <3>1 DEF FuncVerifies
    <3>6. Len(old.blocks) \in Nat
      BY <3>1, Shape
    <3>7. \A m \in DOMAIN old.blocks :
            BlockVerifies(old.blocks[m], FunctionNames(M), Len(old.blocks), new.sig)
      BY <3>4, <3>5, <3>6, VerifiesMore
    <3>8. QED
      BY <3>2, <3>3, <3>7 DEF FuncVerifies
  <2>4. QED
    BY <2>2, <2>3
<1>4. QED
  BY <1>1, <1>2, <1>3, VerifiesIs

LEMMA VerifiesInit ==
  ASSUME Init
  PROVE  VerifiesSoFar
BY ModulesAssumption DEF Init, VerifiesSoFar

LEMMA VerifiesStep ==
  ASSUME AtPass, ModuleOK, MainSoFar, VerifiesSoFar, [Next]_vars
  PROVE  VerifiesSoFar'
<1> SUFFICES ASSUME ~ MainIsVoid(source'), pc' # "failed"
             PROVE  Verifies(ir')
  BY DEF VerifiesSoFar
<1>1. source' = source
  BY WhatStepsDo
     DEF StartPass, Dies, NothingPosixized, MainPosixized, PosixDone, vars, passVars
<1>2. CASE ir' = ir
  <2>1. pc # "failed"
    BY WhatStepsDo DEF Dies, StartPass, Count!Setup, Count!SkipFunction,
         Count!InLoop, Count!RunOnBasicBlock, Count!Finish, NothingPosixized,
         MainPosixized, PosixDone, vars, passVars
  <2>2. QED
    BY <1>1, <1>2, <2>1 DEF VerifiesSoFar
<1>3. CASE UNCHANGED <<source, passes, at>> /\ Count!Setup
  <2>1. PICK names, counter :
          counter \in names /\ ModuleStep(names) /\ SetupOf(counter)
    BY <1>3, SetupStep
  <2>2. Verifies(ir)
    BY <1>1, <2>1 DEF SetupOf, VerifiesSoFar
  <2>3. QED
    BY <2>1, <2>2, SetUpVerifies DEF ModuleStep, SetupOf
<1>4. CASE UNCHANGED <<source, passes, at>> /\ Count!RunOnBasicBlock
  <2>1. PICK names : ModuleStep(names) /\ BlockCounted
    BY <1>4, BlockStep
  <2>2. Verifies(ir)
    BY <1>1, <2>1 DEF BlockCounted, VerifiesSoFar
  <2>3. QED
    BY <2>1, <2>2, CountedVerifies DEF ModuleStep, BlockCounted
<1>5. CASE MainPosixized
  <2>1. PICK names : ModuleStep(names) /\ MainReplaced(ir, ir')
    BY <1>5, PosixizedStep
  <2>2. pc # "failed"
    BY <1>5 DEF MainPosixized, PosixDone
  <2>3. Verifies(ir)
    BY <1>1, <2>2 DEF VerifiesSoFar
  <2>4. ASSUME NEW k \in DOMAIN ir.funcs, ir.funcs[k].name = "main"
        PROVE  ir.funcs[k].sig # "void()"
    <3>1. "main" \in FunctionNames(ir)
      BY <2>4 DEF FunctionNames
    <3>2. "main" \in FunctionNames(source)
          /\ ir.funcs[k].sig \in {Named(source, "main").sig, "int(int,char**)"}
      BY <2>2, <2>4, <3>1 DEF MainSoFar
    <3>3. Named(source, "main").sig # "void()"
      BY <1>1, <3>2 DEF MainIsVoid
    <3>4. QED
      BY <3>2, <3>3
  <2>5. QED
    BY <2>1, <2>3, <2>4, PosixedVerifies DEF ModuleStep
<1>6. CASE StartPass \/ Dies \/ NothingPosixized \/ UNCHANGED vars
           \/ Count!SkipFunction \/ Count!Finish
  BY <1>2, <1>6 DEF StartPass, Dies, NothingPosixized, PosixDone, vars, passVars,
     Count!SkipFunction, Count!Finish
<1>7. QED
  BY <1>3, <1>4, <1>5, <1>6, WhatStepsDo

--------------------------------------------------------------------------------
(* The inductive invariant *)

LEMMA ModuleOKInit ==
  ASSUME Init
  PROVE  AtPass /\ ModuleOK
<1>1. /\ source \in Modules /\ ir = source /\ passes \in Pipelines
      /\ at = 0 /\ fn = 1 /\ bb = 1 /\ pc = "done"
  BY DEF Init
<1>2. IsModule(source, STRING) /\ Verifies(source)
  BY <1>1, ModulesAssumption
<1>3. AtPass
  <2>1. at \in 0..Len(passes)
    BY <1>1, PipelinesAssumption, LenProperties
  <2>2. QED
    BY <1>1, <2>1 DEF AtPass
<1>4. PICK names : names = STRING \cup PassNames
  OBVIOUS
<1>5. IsModule(source, names) /\ PassNames \subseteq names
  <2>1. STRING \subseteq names /\ PassNames \subseteq names
    BY <1>4
  <2>2. QED
    BY <1>2, <2>1, Widened
<1>6. UniqueNames(ir) /\ NoEmptyBlock(ir)
  <2>1. UniqueNames(ir) /\ \A k \in DOMAIN ir.funcs : FuncVerifies(ir.funcs[k], FunctionNames(ir))
    BY <1>1, <1>2, VerifiesIs
  <2>2. QED
    BY <2>1 DEF FuncVerifies, BlockVerifies, NoEmptyBlock
<1>7. QED
  BY <1>1, <1>3, <1>5, <1>6 DEF ModuleOK

(* Every part of the invariant is kept, given the parts it leans on.       *)
THEOREM PipelineInvariant == Spec => []IInv
<1>1. Init => IInv
  BY ModuleOKInit, BlocksInit, HandlerInit, GlobalsInit, MainInit, VerifiesInit DEF IInv
<1>2. IInv /\ [Next]_vars => IInv'
  <2>1. SUFFICES ASSUME IInv, [Next]_vars PROVE IInv'
    OBVIOUS
  <2>2. QED
    BY <2>1, AtPassStep, ModuleOKStep, BlocksStep, HandlerStep, GlobalsStep,
       MainStep, VerifiesStep DEF IInv
<1>3. QED
  BY <1>1, <1>2, PTL DEF Spec

--------------------------------------------------------------------------------
(* Theorems *)

(* Each block of the program is counted once per run of count-bb and keeps *)
(* its instructions: runOnModule misses no function, whatever the passes   *)
(* before it appended or moved, and setup registers once per run.          *)
THEOREM BlocksAreCounted == Spec => []EveryBlockCountedOncePerRun
<1>1. ASSUME IInv PROVE EveryBlockCountedOncePerRun
  <2> SUFFICES ASSUME Finished, NoReservedName(source),
                      NEW name \in FunctionNames(source)
               PROVE  /\ name \in FunctionNames(ir)
                      /\ LET old == Named(source, name).blocks
                             new == Named(ir, name).blocks
                         IN  /\ Len(new) = Len(old)
                             /\ \A m \in DOMAIN old :
                                  new[m] = CountedBlock(old[m],
                                             RegisteredIn(name, m, Runs("count-bb")),
                                             Runs("count-bb"))
    BY DEF EveryBlockCountedOncePerRun
  <2>1. pc = "done" /\ BlocksSoFar
    BY <1>1 DEF Finished, IInv
  <2>2. Setups = Runs("count-bb") /\ \A k, m : Countings(k, m) = Runs("count-bb")
    BY <2>1 DEF Setups, Countings
  <2>3. name \in FunctionNames(ir)
    BY <2>1 DEF BlocksSoFar
  <2>4. PICK k, j : k = Position(ir, name) /\ j = Position(source, name)
    OBVIOUS
  <2>5. /\ k \in DOMAIN ir.funcs /\ j \in DOMAIN source.funcs
        /\ ir.funcs[k].name = name /\ source.funcs[j].name = name
        /\ Named(ir, name) = ir.funcs[k] /\ Named(source, name) = source.funcs[j]
    BY <2>3, <2>4, PositionOf
  <2>6. Instrumented(k, j)
    BY <2>1, <2>5 DEF BlocksSoFar
  <2>7. QED
    BY <2>2, <2>3, <2>5, <2>6 DEF Instrumented
<1>2. QED
  BY <1>1, PipelineInvariant, PTL

(* create_atexitCall's block is the first of setupAtExit and prints the    *)
(* variable runOnBasicBlock increments: later runs append after it.        *)
THEOREM HandlerPrints == Spec => []HandlerPrintsTheCounterIfNotReserved
<1>1. ASSUME IInv PROVE HandlerPrintsTheCounterIfNotReserved
  <2> SUFFICES ASSUME NoReservedName(source), Finished, Runs("count-bb") > 0
               PROVE  Named(ir, "setupAtExit").blocks[1] = HandlerCode
    BY DEF HandlerPrintsTheCounterIfNotReserved, HandlerPrintsTheCounter, HandlerCode
  <2>1. pc = "done" /\ HandlerSoFar /\ Setups > 0
    BY <1>1 DEF Finished, IInv, Setups
  <2>2. "setupAtExit" \in FunctionNames(ir)
    BY <2>1 DEF HandlerSoFar
  <2>3. QED
    BY <2>1, <2>2, PositionOf DEF HandlerSoFar
<1>2. QED
  BY <1>1, PipelineInvariant, PTL

(* Whatever the order of posix-main and count-bb, what opt writes verifies *)
(* if main returned an int, and main is the one POSIXizeMain makes.        *)
THEOREM OutputIsAModule == Spec => []OutputVerifies
<1>1. ASSUME IInv PROVE OutputVerifies
  <2> SUFFICES ASSUME Finished, ~ MainIsVoid(source) PROVE OutputVerifies
    BY DEF OutputVerifies
  <2>1. pc = "done" /\ MainSoFar /\ VerifiesSoFar
    BY <1>1 DEF Finished, IInv
  <2>2. Verifies(ir)
    BY <2>1 DEF VerifiesSoFar
  <2>3. ASSUME Runs("posix-main") > 0, "main" \in FunctionNames(source),
               Named(source, "main").sig \notin Posix!OtherTwoParameters
        PROVE  Named(ir, "main").sig = "int(int,char**)"
    <3>1. Posixizations > 0
      BY <2>1, <2>3 DEF Posixizations
    <3>2. "main" \in FunctionNames(ir)
      BY <2>1, <2>3 DEF MainSoFar
    <3>3. PICK k : k = Position(ir, "main")
      OBVIOUS
    <3>4. /\ k \in DOMAIN ir.funcs /\ ir.funcs[k].name = "main"
          /\ Named(ir, "main") = ir.funcs[k]
      BY <3>2, <3>3, PositionOf
    <3>5. ir.funcs[k].sig = "int(int,char**)"
      BY <2>1, <2>3, <3>1, <3>4 DEF MainSoFar
    <3>6. QED
      BY <3>4, <3>5
  <2>4. QED
    BY <2>2, <2>3 DEF OutputVerifies
<1>2. QED
  BY <1>1, PipelineInvariant, PTL

================================================================================
