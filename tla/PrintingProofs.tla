------------------------------ MODULE PrintingProofs ---------------------------
(***************************************************************************)
(* Proofs about what is printed.  prettyPrint, for every value and every   *)
(* width of unsigned: the terminal gets its colour back, and the           *)
(* counted-down numbers of lines come out.  DumpConsts and ir_dump, for    *)
(* every module: the output is the start of the listing, and all of it     *)
(* when the tool was not stopped.  printInstKind, for every hierarchy of   *)
(* classes: its chains descend, and it names what it lists.                *)
(***************************************************************************)
EXTENDS Printing, Integers, SequenceTheorems, WellFoundedInduction,
        NaturalsInduction, TLAPS

(* Lines that the sections before number n end, those of an instruction or *)
(* argument and of a constant without a name.                              *)
TwoParts == V.class \in {"Instruction", "Argument"}
Unnamed  == V.class \notin {"GlobalVariable", "GlobalAlias", "Function",
                            "BasicBlock", "Instruction", "Argument"}
            /\ ~ V.named

FirstLines  == IF ~ TwoParts /\ Unnamed THEN V.breaks + 1 ELSE V.breaks
SecondLines == V.fnBreaks + 1

Printed ==
  (IF section > 1 \/ (section = 1 /\ step = "reset") THEN FirstLines ELSE 0)
  + (IF TwoParts /\ (section > 2 \/ (section = 2 /\ step = "reset"))
     THEN SecondLines ELSE 0)

Steps == {"start", "text", "inside", "reset", "end", "returned", "died"}

(* Every line asked for is still to come or has been written: through the  *)
(* start, the parts in colour, and the end.                                *)
LinesSoFar ==
  /\ step = "start" => /\ section = 1 /\ endLine = asked.end
                       /\ newlines + startLine = asked.start
  /\ step \in {"text", "inside", "reset"} =>
       /\ endLine = Pretty!OneMoreLine(asked.end)
       /\ newlines = asked.start + Printed
  /\ step = "end" => /\ section = Len(Pretty!Sections) + 1
                     /\ newlines + endLine =
                          asked.start + Printed + Pretty!OneMoreLine(asked.end)
  /\ step = "returned" /\ V.class # "null" =>
       /\ section = Len(Pretty!Sections) + 1
       /\ newlines = asked.start + Printed + Pretty!OneMoreLine(asked.end)

ColorSoFar ==
  /\ step \in {"start", "text", "end", "returned"} => color = "plain"
  /\ step = "died" => TwoParts /\ ~ V.attached

PrettyOK ==
  /\ V \in PrintedValues
  /\ startLine \in Nat /\ endLine \in Nat /\ newlines \in Nat
  /\ asked.start \in Nat /\ asked.end \in 0..MaxUnsigned
  /\ section \in 1..Len(Pretty!Sections) + 1
  /\ V.class = "null" => step \in {"start", "returned"}
  /\ step \in {"inside", "reset"} => section <= Len(Pretty!Sections)
  /\ step \in Steps

IInv == PrettyOK /\ LinesSoFar /\ ColorSoFar

(* How many parts there are, which of them ends a line and which may die.  *)
LEMMA SectionFacts ==
  ASSUME V \in PrintedValues
  PROVE  /\ Len(Pretty!Sections) = IF TwoParts THEN 2 ELSE 1
         /\ Pretty!Sections[1].lines = FirstLines
         /\ ~ Pretty!Sections[1].looksUp
         /\ TwoParts => Pretty!Sections[2].lines = SecondLines
         /\ FirstLines \in Nat /\ SecondLines \in Nat
<1>0. V.breaks \in Nat /\ V.fnBreaks \in Nat
  BY ValuesAssumption
<1>1. CASE V.class = "GlobalVariable"
  <2>1. /\ Pretty!Sections = <<Pretty!Own("red", 0)>>
        /\ ~ TwoParts /\ ~ Unnamed
    BY <1>1 DEF Pretty!Sections, TwoParts, Unnamed
  <2>2. QED
    BY <1>0, <2>1 DEF Pretty!Own, Pretty!Its, Pretty!Section, FirstLines, SecondLines
<1>2. CASE V.class = "GlobalAlias"
  <2>1. /\ Pretty!Sections = <<Pretty!Own("magenta", 0)>>
        /\ ~ TwoParts /\ ~ Unnamed
    BY <1>2 DEF Pretty!Sections, TwoParts, Unnamed
  <2>2. QED
    BY <1>0, <2>1 DEF Pretty!Own, Pretty!Its, Pretty!Section, FirstLines, SecondLines
<1>3. CASE V.class = "Function"
  <2>1. /\ Pretty!Sections = <<Pretty!Own("green", 0)>>
        /\ ~ TwoParts /\ ~ Unnamed
    BY <1>3 DEF Pretty!Sections, TwoParts, Unnamed
  <2>2. QED
    BY <1>0, <2>1 DEF Pretty!Own, Pretty!Its, Pretty!Section, FirstLines, SecondLines
<1>4. CASE V.class = "BasicBlock"
  <2>1. /\ Pretty!Sections = <<Pretty!Own("yellow", 0)>>
        /\ ~ TwoParts /\ ~ Unnamed
    BY <1>4 DEF Pretty!Sections, TwoParts, Unnamed
  <2>2. QED
    BY <1>0, <2>1 DEF Pretty!Own, Pretty!Its, Pretty!Section, FirstLines, SecondLines
<1>5. CASE V.class = "Instruction"
  <2>1. /\ Pretty!Sections = <<Pretty!Own("red", 0), Pretty!Its>>
        /\ TwoParts /\ ~ Unnamed
    BY <1>5 DEF Pretty!Sections, TwoParts, Unnamed
  <2>2. QED
    BY <1>0, <2>1 DEF Pretty!Own, Pretty!Its, Pretty!Section, FirstLines, SecondLines
<1>6. CASE V.class = "Argument"
  <2>1. /\ Pretty!Sections = <<Pretty!Own("yellow", 0), Pretty!Its>>
        /\ TwoParts /\ ~ Unnamed
    BY <1>6 DEF Pretty!Sections, TwoParts, Unnamed
  <2>2. QED
    BY <1>0, <2>1 DEF Pretty!Own, Pretty!Its, Pretty!Section, FirstLines, SecondLines
<1>7. CASE V.class \notin {"GlobalVariable", "GlobalAlias", "Function",
                           "BasicBlock", "Instruction", "Argument"}
  <2>1. /\ Pretty!Sections = IF V.named THEN <<Pretty!Own("yellow", 0)>>
                             ELSE <<Pretty!Own("red", 1)>>
        /\ ~ TwoParts /\ (Unnamed <=> ~ V.named)
    BY <1>7 DEF Pretty!Sections, TwoParts, Unnamed
  <2>2. QED
    BY <1>0, <2>1 DEF Pretty!Own, Pretty!Section, FirstLines, SecondLines
<1>8. QED
  BY <1>1, <1>2, <1>3, <1>4, <1>5, <1>6, <1>7

LEMMA OneMoreLineIsNat ==
  ASSUME NEW n \in 0..MaxUnsigned
  PROVE  Pretty!OneMoreLine(n) \in Nat
BY MaxUnsignedAssumption DEF Pretty!OneMoreLine

LEMMA InitIInv == Init => IInv
<1> SUFFICES ASSUME Init PROVE IInv
  OBVIOUS
<1>1. Pretty!PrettyInit
  BY DEF Init, PrettyRests
<1>2. /\ V \in PrintedValues
      /\ startLine \in 0..MaxUnsigned /\ endLine \in 0..MaxUnsigned
      /\ asked.start = startLine /\ asked.end = endLine
      /\ section = 1 /\ newlines = 0 /\ color = "plain" /\ step = "start"
  BY <1>1 DEF Pretty!PrettyInit
<1>3. Len(Pretty!Sections) \in {1, 2}
  BY <1>2, SectionFacts
<1>4. QED
  BY <1>2, <1>3, MaxUnsignedAssumption
     DEF IInv, PrettyOK, Steps, LinesSoFar, ColorSoFar

(* Of the value and of what was asked nothing ever changes.                *)
LEMMA AskedStays ==
  ASSUME V' = V, asked' = asked
  PROVE  /\ Pretty!Sections' = Pretty!Sections
         /\ \A n : Pretty!OneMoreLine(n)' = Pretty!OneMoreLine(n)
         /\ TwoParts' = TwoParts
         /\ FirstLines' = FirstLines /\ SecondLines' = SecondLines
BY DEF Pretty!Sections, Pretty!Own, Pretty!Its, Pretty!OneMoreLine, TwoParts,
       Unnamed, FirstLines, SecondLines

LEMMA PrettyStep ==
  ASSUME IInv, Pretty!PrettyNext
  PROVE  IInv'
<1> USE DEF IInv
<1>0. V' = V /\ asked' = asked
  BY DEF Pretty!PrettyNext, Pretty!Null, Pretty!StartLine, Pretty!Choose,
         Pretty!ChangeColor, Pretty!Text, Pretty!ResetColor, Pretty!TextDone,
         Pretty!EndLine, Pretty!Return
<1> DEFINE length == Len(Pretty!Sections)
           more == Pretty!OneMoreLine(asked.end)
<1>a. /\ length' = length /\ more' = more
      /\ TwoParts' = TwoParts
      /\ FirstLines' = FirstLines /\ SecondLines' = SecondLines
  BY <1>0, AskedStays
<1>b. /\ more \in Nat /\ length = IF TwoParts THEN 2 ELSE 1
      /\ FirstLines \in Nat /\ SecondLines \in Nat
  BY OneMoreLineIsNat, SectionFacts DEF PrettyOK
<1>c. /\ Pretty!Sections[1].lines = FirstLines
      /\ ~ Pretty!Sections[1].looksUp
      /\ TwoParts => Pretty!Sections[2].lines = SecondLines
  BY SectionFacts DEF PrettyOK
<1> USE DEF PrettyOK, LinesSoFar, ColorSoFar, Steps
<1>1. CASE Pretty!Null
  BY <1>0, <1>a, <1>1 DEF Pretty!Null
<1>2. CASE Pretty!StartLine
  BY <1>0, <1>a, <1>2 DEF Pretty!StartLine
<1>3. CASE Pretty!Choose
  <2>1. Printed' = 0
    BY <1>a, <1>3 DEF Pretty!Choose, Printed
  <2>2. endLine' = more
    BY <1>3 DEF Pretty!Choose
  <2>3. QED
    BY <1>0, <1>a, <1>b, <1>3, <2>1, <2>2 DEF Pretty!Choose
<1>4. CASE Pretty!ChangeColor
  <2>1. Printed' = Printed
    BY <1>a, <1>4 DEF Pretty!ChangeColor, Printed
  <2>2. QED
    BY <1>0, <1>a, <1>b, <1>4, <2>1 DEF Pretty!ChangeColor
<1>5. CASE Pretty!Text
  <2>1. CASE Pretty!Now.looksUp /\ ~ V.attached
    <3>1. TwoParts
      BY <1>5, <2>1, <1>b, <1>c DEF Pretty!Text, Pretty!Now
    <3>2. step' = "died"
      BY <1>5, <2>1 DEF Pretty!Text
    <3>3. QED
      BY <1>0, <1>a, <1>b, <1>5, <2>1, <3>1, <3>2 DEF Pretty!Text
  <2>2. CASE ~ (Pretty!Now.looksUp /\ ~ V.attached)
    <3>1. step = "inside" /\ step' = "reset" /\ section' = section
          /\ newlines' = newlines + Pretty!Now.lines
          /\ UNCHANGED <<startLine, endLine, color>>
      BY <1>5, <2>2 DEF Pretty!Text
    <3>2. Pretty!Now.lines \in Nat /\ Printed' = Printed + Pretty!Now.lines
      BY <1>a, <1>b, <1>c, <3>1 DEF Pretty!Now, Printed
    <3>3. Printed \in Nat
      BY <1>b DEF Printed
    <3>4. QED
      BY <1>0, <1>a, <1>b, <3>1, <3>2, <3>3
  <2>3. QED
    BY <2>1, <2>2
<1>6. CASE Pretty!ResetColor
  <2>1. Printed' = Printed
    BY <1>a, <1>6 DEF Pretty!ResetColor, Printed
  <2>2. QED
    BY <1>0, <1>a, <1>b, <1>6, <2>1 DEF Pretty!ResetColor
<1>7. CASE Pretty!TextDone
  <2>1. Printed' = Printed /\ Printed \in Nat
    BY <1>a, <1>b, <1>7 DEF Pretty!TextDone, Printed
  <2>2. QED
    BY <1>0, <1>a, <1>b, <1>7, <2>1 DEF Pretty!TextDone
<1>8. CASE Pretty!EndLine
  <2>1. Printed' = Printed /\ Printed \in Nat
    BY <1>a, <1>b, <1>8 DEF Pretty!EndLine, Printed
  <2>2. QED
    BY <1>0, <1>a, <1>b, <1>8, <2>1 DEF Pretty!EndLine
<1>9. CASE Pretty!Return
  <2>1. Printed' = Printed /\ Printed \in Nat
    BY <1>a, <1>b, <1>9 DEF Pretty!Return, Printed
  <2>2. QED
    BY <1>0, <1>a, <1>b, <1>9, <2>1 DEF Pretty!Return
<1>10. QED
  BY <1>1, <1>2, <1>3, <1>4, <1>5, <1>6, <1>7, <1>8, <1>9 DEF Pretty!PrettyNext

(* The terminal and the lines are prettyPrint's alone.                     *)
LEMMA OthersStep ==
  ASSUME IInv, UNCHANGED prettyVars
  PROVE  IInv'
<1>1. UNCHANGED <<V, startLine, endLine, asked, section, newlines, color, step>>
  BY DEF prettyVars
<1>2. /\ Len(Pretty!Sections)' = Len(Pretty!Sections)
      /\ Pretty!OneMoreLine(asked.end)' = Pretty!OneMoreLine(asked.end)
      /\ TwoParts' = TwoParts
      /\ FirstLines' = FirstLines /\ SecondLines' = SecondLines
  BY <1>1, AskedStays
<1>3. Printed' = Printed
  BY <1>1, <1>2 DEF Printed
<1>4. QED
  BY <1>1, <1>2, <1>3 DEF IInv, PrettyOK, LinesSoFar, ColorSoFar

LEMMA Invariance == Spec => []IInv
<1>1. ASSUME IInv, [Next]_vars PROVE IInv'
  BY <1>1, PrettyStep, OthersStep
     DEF Next, PrintInstKind, PrettyPrintStep, DumpConstsStep, IRDumpStep, Stopped,
         vars
<1>2. QED
  BY <1>1, InitIInv, PTL DEF Spec

(* Whatever is printed, a process that goes on has a terminal in its own   *)
(* colour.                                                                 *)
THEOREM TerminalHandedBack == Spec => []ColorComesBack
<1>1. IInv => ColorComesBack
  BY DEF IInv, ColorSoFar, TwoParts, ColorComesBack, Pretty!ColorComesBack
<1>2. QED
  BY <1>1, Invariance, PTL

(* The lines written are those asked for and those of the text, whatever   *)
(* the width of unsigned and the text: one more where a line must end, and *)
(* the wrap only at the largest.                                           *)
THEOREM LinesComeOut == Spec => []LinesAsAsked
<1>1. ASSUME IInv, step = "returned", V.class # "null"
      PROVE  newlines = IF V.class = "GlobalVariable" /\ asked.end = MaxUnsigned
                        THEN asked.start + Pretty!InText
                        ELSE asked.start + asked.end + Pretty!InText + Pretty!OwnLine
  <2>1. V \in PrintedValues /\ asked.start \in Nat /\ asked.end \in Nat
    BY <1>1, MaxUnsignedAssumption DEF IInv, PrettyOK
  <2>2. V.breaks \in Nat /\ V.fnBreaks \in Nat
    BY <2>1, ValuesAssumption
  <2>3. /\ section = IF TwoParts THEN 3 ELSE 2
        /\ newlines = asked.start + Printed + Pretty!OneMoreLine(asked.end)
    <3>1. /\ section = Len(Pretty!Sections) + 1
          /\ newlines = asked.start + Printed + Pretty!OneMoreLine(asked.end)
      BY <1>1, Zenon DEF IInv, LinesSoFar
    <3>2. Len(Pretty!Sections) = IF TwoParts THEN 2 ELSE 1
      BY <2>1, SectionFacts
    <3>3. QED
      BY <3>1, <3>2
  <2>4. CASE TwoParts
    <3>1. Printed = V.breaks + V.fnBreaks + 1
      BY <2>2, <2>3, <2>4 DEF Printed, FirstLines, SecondLines
    <3>2. /\ Pretty!OneMoreLine(asked.end) = asked.end
          /\ Pretty!InText = V.breaks + V.fnBreaks /\ Pretty!OwnLine = 1
          /\ V.class # "GlobalVariable"
      BY <2>4 DEF TwoParts, Pretty!OneMoreLine, Pretty!InText, Pretty!OwnLine
    <3>3. QED
      BY <2>1, <2>2, <2>3, <3>1, <3>2
  <2>5. CASE V.class = "GlobalVariable"
    <3>1. Printed = V.breaks
      BY <2>2, <2>3, <2>5 DEF Printed, FirstLines, TwoParts, Unnamed
    <3>2. Pretty!InText = V.breaks /\ Pretty!OwnLine = 1
      BY <2>5 DEF Pretty!InText, Pretty!OwnLine
    <3>3. QED
      BY <2>1, <2>2, <2>3, <2>5, <3>1, <3>2 DEF Pretty!OneMoreLine
  <2>6. CASE ~ TwoParts /\ V.class # "GlobalVariable"
    <3>1. Printed = IF Unnamed THEN V.breaks + 1 ELSE V.breaks
      BY <2>2, <2>3, <2>6 DEF Printed, FirstLines
    <3>2. /\ Pretty!OneMoreLine(asked.end) = asked.end
          /\ Pretty!InText = V.breaks
      BY <2>6 DEF TwoParts, Pretty!OneMoreLine, Pretty!InText
    <3>3. Pretty!OwnLine = IF Unnamed THEN 1 ELSE 0
      BY <1>1, <2>1, <2>6, ValuesAssumption DEF TwoParts, Unnamed, Pretty!OwnLine
    <3>4. QED
      BY <2>1, <2>2, <2>3, <2>6, <3>1, <3>2, <3>3
  <2>7. QED
    BY <2>4, <2>5, <2>6
<1>2. IInv => LinesAsAsked
  BY <1>1 DEF LinesAsAsked, Pretty!LinesAsAsked
<1>3. QED
  BY <1>2, Invariance, PTL

--------------------------------------------------------------------------------
(* Sequences of sequences, joined one after the other: what FlattenSeq is  *)
(* at each length, and what is a start of it.                              *)
(* A set of numbers that holds 0, and n + 1 with n, holds all.             *)
LEMMA Induction ==
  ASSUME NEW T, T \subseteq Nat, 0 \in T, \A n \in T : n + 1 \in T
  PROVE  T = Nat
<1>1. SUFFICES ASSUME Nat \ T # {} PROVE FALSE
  OBVIOUS
<1>2. IsWellFoundedOn(OpToRel(<, Nat), Nat)
  BY NatLessThanWellFounded
<1>3. PICK x \in Nat \ T : \A y \in Nat \ T : ~ (<<y, x>> \in OpToRel(<, Nat))
  <2>1. Nat \ T \subseteq Nat
    OBVIOUS
  <2>2. QED
    BY <1>1, <1>2, <2>1, WFMin, Zenon
<1>4. \A y \in Nat \ T : ~ (y < x)
  BY <1>3 DEF OpToRel
<1>5. QED
  BY <1>4

(* The function by which FlattenSeq is defined, on the first n sequences.  *)
Concats(s, n, g) ==
  g = [i \in 1..n |-> IF i = 1 THEN s[i] ELSE g[i - 1] \o s[i]]

LEMMA ConcatsExist ==
  ASSUME NEW s, NEW n \in Nat
  PROVE  \E g : Concats(s, n, g)
<1>1. PICK T : T = {k \in Nat : \E g : Concats(s, k, g)}
  OBVIOUS
<1>2. 0 \in T
  <2>1. PICK g : g = [i \in {} |-> 0]
    OBVIOUS
  <2>2. Concats(s, 0, g)
    BY <2>1 DEF Concats
  <2>3. QED
    BY <1>1, <2>2
<1>3. ASSUME NEW k \in T PROVE k + 1 \in T
  <2>1. k \in Nat
    BY <1>1
  <2>2. PICK g : Concats(s, k, g)
    BY <1>1
  <2>3. PICK e : e = IF k = 0 THEN s[1] ELSE g[k] \o s[k + 1]
    OBVIOUS
  <2>4. PICK h : h = [i \in 1..k + 1 |-> IF i <= k THEN g[i] ELSE e]
    OBVIOUS
  <2>5. ASSUME NEW i \in 1..k + 1
        PROVE  h[i] = IF i = 1 THEN s[i] ELSE h[i - 1] \o s[i]
    <3>1. CASE i <= k
      <4>1. g[i] = IF i = 1 THEN s[i] ELSE g[i - 1] \o s[i]
        <5>1. i \in 1..k
          BY <2>1, <3>1
        <5>2. g = [j \in 1..k |-> IF j = 1 THEN s[j] ELSE g[j - 1] \o s[j]]
          BY <2>2 DEF Concats
        <5>3. QED
          BY <5>1, <5>2, Zenon
      <4>2. h[i] = g[i] /\ (i # 1 => h[i - 1] = g[i - 1])
        BY <2>1, <2>4, <3>1
      <4>3. QED
        BY <4>1, <4>2
    <3>2. CASE i = k + 1
      <4>1. h[i] = e /\ (i # 1 => h[i - 1] = g[k])
        BY <2>1, <2>4, <3>2
      <4>2. i = 1 <=> k = 0
        BY <2>1, <3>2
      <4>3. QED
        BY <2>3, <3>2, <4>1, <4>2
    <3>3. QED
      BY <2>1, <3>1, <3>2
  <2>6. h = [i \in 1..k + 1 |-> IF i = 1 THEN s[i] ELSE h[i - 1] \o s[i]]
    BY <2>4, <2>5
  <2>7. Concats(s, k + 1, h)
    BY <2>6, Zenon DEF Concats
  <2>8. k + 1 \in Nat
    BY <2>1
  <2>9. QED
    BY <1>1, <2>7, <2>8, Zenon
<1>4. T = Nat
  BY <1>1, <1>2, <1>3, Induction
<1>5. QED
  BY <1>1, <1>4

(* The first n of the sequences s, joined.                                 *)
Joining(s) == CHOOSE g : Concats(s, Len(s), g)
FirstOf(s, n) == IF n = 0 THEN <<>> ELSE Joining(s)[n]

LEMMA FlattenIs ==
  ASSUME NEW T, NEW s \in Seq(Seq(T))
  PROVE  FlattenSeq(s) = FirstOf(s, Len(s))
<1>1. CASE Len(s) = 0
  BY <1>1 DEF FlattenSeq, FirstOf
<1>2. CASE Len(s) # 0
  BY <1>2 DEF FlattenSeq, FirstOf, Joining, Concats
<1>3. QED
  BY <1>1, <1>2

LEMMA FirstOfNext ==
  ASSUME NEW T, NEW s \in Seq(Seq(T)), NEW n \in 1..Len(s)
  PROVE  FirstOf(s, n) = FirstOf(s, n - 1) \o s[n]
<1> DEFINE g == Joining(s)
<1>1. Concats(s, Len(s), g)
  <2>1. \E h : Concats(s, Len(s), h)
    <3>1. Len(s) \in Nat
      OBVIOUS
    <3>2. QED
      BY <3>1, ConcatsExist
  <2>2. QED
    BY <2>1, Zenon DEF Joining
<1>2. g[n] = IF n = 1 THEN s[n] ELSE g[n - 1] \o s[n]
  <2>1. g = [j \in 1..Len(s) |-> IF j = 1 THEN s[j] ELSE g[j - 1] \o s[j]]
    BY <1>1 DEF Concats
  <2>2. QED
    BY <2>1, Zenon
<1>3. CASE n = 1
  <2>1. <<>> \o s[n] = s[n]
    <3>1. s[n] \in Seq(T)
      OBVIOUS
    <3>2. QED
      BY <3>1, ConcatEmptySeq
  <2>2. FirstOf(s, n - 1) = <<>> /\ FirstOf(s, n) = g[n]
    BY <1>3 DEF FirstOf
  <2>3. QED
    BY <1>2, <1>3, <2>1, <2>2
<1>4. CASE n # 1
  <2>1. FirstOf(s, n - 1) = g[n - 1] /\ FirstOf(s, n) = g[n]
    BY <1>4 DEF FirstOf
  <2>2. QED
    BY <1>2, <1>4, <2>1
<1>5. QED
  BY <1>3, <1>4

LEMMA FirstOfType ==
  ASSUME NEW T, NEW s \in Seq(Seq(T)), NEW n \in 0..Len(s)
  PROVE  FirstOf(s, n) \in Seq(T)
<1>1. PICK N : N = {i \in Nat : i <= Len(s) => FirstOf(s, i) \in Seq(T)}
  OBVIOUS
<1>2. 0 \in N
  BY <1>1 DEF FirstOf
<1>3. ASSUME NEW i \in N PROVE i + 1 \in N
  <2>1. SUFFICES ASSUME i + 1 <= Len(s) PROVE FirstOf(s, i + 1) \in Seq(T)
    BY <1>1
  <2>2. i \in Nat /\ FirstOf(s, i) \in Seq(T)
    BY <1>1, <2>1
  <2>3. FirstOf(s, i + 1) = FirstOf(s, i) \o s[i + 1]
    <3>1. i + 1 \in 1..Len(s) /\ (i + 1) - 1 = i
      BY <2>1, <2>2
    <3>2. FirstOf(s, i + 1) = FirstOf(s, (i + 1) - 1) \o s[i + 1]
      BY <3>1, FirstOfNext
    <3>3. QED
      BY <3>1, <3>2
  <2>4. s[i + 1] \in Seq(T)
    BY <2>1, <2>2
  <2>5. QED
    BY <2>2, <2>3, <2>4, ConcatProperties
<1>4. N = Nat
  BY <1>1, <1>2, <1>3, Induction
<1>5. QED
  BY <1>1, <1>4

(* v goes on where u ends.                                                 *)
Continues(u, v, T) == u \in Seq(T) /\ \E r \in Seq(T) : v = u \o r

LEMMA ContinuesFacts ==
  ASSUME NEW T, NEW u \in Seq(T)
  PROVE  /\ Continues(u, u, T)
         /\ Continues(<<>>, u, T)
         /\ \A r \in Seq(T) : Continues(u, u \o r, T)
         /\ \A v : Continues(u, v, T) => v \in Seq(T)
<1>1. <<>> \in Seq(T) /\ u \o <<>> = u /\ <<>> \o u = u
  BY ConcatEmptySeq
<1>2. \A r \in Seq(T) : u \o r \in Seq(T)
  BY ConcatProperties
<1>3. QED
  BY <1>1, <1>2, Zenon DEF Continues

LEMMA ContinuesTransitive ==
  ASSUME NEW T, NEW u, NEW v, NEW w, Continues(u, v, T), Continues(v, w, T)
  PROVE  Continues(u, w, T)
<1>1. PICK r \in Seq(T) : v = u \o r
  BY DEF Continues
<1>2. PICK q \in Seq(T) : w = v \o q
  BY DEF Continues
<1>3. u \in Seq(T)
  BY DEF Continues
<1>4. w = u \o (r \o q) /\ r \o q \in Seq(T)
  BY <1>1, <1>2, <1>3, ConcatAssociative, ConcatProperties
<1>5. QED
  BY <1>3, <1>4, Zenon DEF Continues

(* What goes before does not matter.                                       *)
LEMMA ContinuesAfter ==
  ASSUME NEW T, NEW p \in Seq(T), NEW u, NEW v, Continues(u, v, T)
  PROVE  Continues(p \o u, p \o v, T)
<1>1. PICK r \in Seq(T) : v = u \o r
  BY DEF Continues
<1>2. u \in Seq(T)
  BY DEF Continues
<1>3. p \o v = (p \o u) \o r /\ p \o u \in Seq(T)
  BY <1>1, <1>2, ConcatAssociative, ConcatProperties, SMTT(30)
<1>4. QED
  BY <1>3, Zenon DEF Continues

LEMMA ContinuesIsPrefix ==
  ASSUME NEW T, NEW u, NEW v, Continues(u, v, T)
  PROVE  IsPrefix(u, v)
<1>1. PICK r \in Seq(T) : v = u \o r
  BY DEF Continues
<1>2. u \in Seq(T)
  BY DEF Continues
<1>3. /\ v \in Seq(T) /\ Len(v) = Len(u) + Len(r)
      /\ \A i \in 1..Len(u) + Len(r) : v[i] = IF i <= Len(u) THEN u[i] ELSE r[i - Len(u)]
  BY <1>1, <1>2, ConcatProperties
<1>4. Len(u) \in Nat /\ Len(r) \in Nat
  BY <1>2, LenProperties
<1>5. \A i \in 1..Len(u) : u[i] \in T /\ v[i] = u[i]
  BY <1>2, <1>3, <1>4, ElementOfSeq
<1> DEFINE x == SubSeq(u, 1, Len(u))
           y == SubSeq(v, 1, Len(u))
<1>6. /\ x \in Seq(T) /\ y \in Seq(T) /\ Len(x) = Len(u) /\ Len(y) = Len(u)
      /\ \A i \in 1..Len(u) : x[i] = u[i] /\ y[i] = v[i]
  BY <1>4, <1>5, SubSeqProperties
<1>7. x = y
  <2>1. Len(x) = Len(y) /\ \A i \in 1..Len(x) : x[i] = y[i]
    BY <1>5, <1>6
  <2>2. QED
    BY <1>6, <2>1, SeqEqual, Zenon
<1>8. QED
  BY <1>3, <1>4, <1>7 DEF IsPrefix

LEMMA FirstOfContinues ==
  ASSUME NEW T, NEW s \in Seq(Seq(T)), NEW n \in 0..Len(s)
  PROVE  Continues(FirstOf(s, n), FlattenSeq(s), T)
<1>1. PICK N : N = {i \in Nat : i <= Len(s) - n =>
                      Continues(FirstOf(s, n), FirstOf(s, n + i), T)}
  OBVIOUS
<1>2. 0 \in N
  <2>1. Continues(FirstOf(s, n), FirstOf(s, n), T)
    BY FirstOfType, ContinuesFacts
  <2>2. n + 0 = n
    OBVIOUS
  <2>3. QED
    BY <1>1, <2>1, <2>2
<1>3. ASSUME NEW i \in N PROVE i + 1 \in N
  <2>1. i \in Nat
    BY <1>1
  <2>2. SUFFICES ASSUME i + 1 <= Len(s) - n
                 PROVE  Continues(FirstOf(s, n), FirstOf(s, n + (i + 1)), T)
    BY <1>1, <2>1
  <2>3. Continues(FirstOf(s, n), FirstOf(s, n + i), T)
    BY <1>1, <2>1, <2>2
  <2> DEFINE m == n + (i + 1)
  <2>4. m \in 1..Len(s) /\ m - 1 = n + i /\ n + i \in 0..Len(s)
    BY <2>1, <2>2
  <2>5. FirstOf(s, m) = FirstOf(s, n + i) \o s[m]
    <3>1. FirstOf(s, m) = FirstOf(s, m - 1) \o s[m]
      BY <2>4, FirstOfNext
    <3>2. QED
      BY <2>4, <3>1
  <2>6. s[m] \in Seq(T) /\ FirstOf(s, n + i) \in Seq(T)
    BY <2>4, FirstOfType
  <2>7. Continues(FirstOf(s, n + i), FirstOf(s, m), T)
    BY <2>5, <2>6, ContinuesFacts
  <2>8. QED
    BY <2>3, <2>7, ContinuesTransitive
<1>4. N = Nat
  BY <1>1, <1>2, <1>3, Induction
<1>5. PICK d : d = Len(s) - n
  OBVIOUS
<1>6. \A i \in Nat : i <= Len(s) - n => Continues(FirstOf(s, n), FirstOf(s, n + i), T)
  BY <1>1, <1>4, Zenon
<1>7. d \in Nat /\ d <= Len(s) - n /\ n + d = Len(s)
  BY <1>5
<1>8. QED
  BY <1>6, <1>7, FlattenIs

(* The sequences before the nth and the start of the nth itself are the    *)
(* start of the whole.                                                     *)
LEMMA InTheMiddle ==
  ASSUME NEW T, NEW s \in Seq(Seq(T)), NEW n \in 1..Len(s), NEW u,
         Continues(u, s[n], T)
  PROVE  Continues(FirstOf(s, n - 1) \o u, FlattenSeq(s), T)
<1>1. FirstOf(s, n - 1) \in Seq(T)
  BY FirstOfType
<1>2. Continues(FirstOf(s, n - 1) \o u, FirstOf(s, n - 1) \o s[n], T)
  BY <1>1, ContinuesAfter
<1>3. Continues(FirstOf(s, n), FlattenSeq(s), T)
  BY FirstOfContinues
<1>4. QED
  BY <1>2, <1>3, FirstOfNext, ContinuesTransitive

LEMMA FunctionIsSeq ==
  ASSUME NEW S, NEW n \in Nat, NEW g \in [1..n -> S]
  PROVE  g \in Seq(S) /\ Len(g) = n
OBVIOUS

LEMMA FlattenType ==
  ASSUME NEW T, NEW s \in Seq(Seq(T))
  PROVE  FlattenSeq(s) \in Seq(T)
BY FlattenIs, FirstOfType

LEMMA FirstOfNone == \A s : FirstOf(s, 0) = <<>>
BY DEF FirstOf

--------------------------------------------------------------------------------
(* DumpConsts.                                                             *)
Modules == Seq(Seq(Seq(Seq(STRING))))

Said == ({"INST"} \X Nat \X Nat \X Nat) \cup ({"CONST"} \X Nat)
        \cup {<<c>> : c \in STRING}

LEMMA SameFlattenC == \A s : Consts!FlattenSeq(s) = FlattenSeq(s)
BY DEF FlattenSeq, Consts!FlattenSeq

LEMMA OperandLinesType ==
  ASSUME NEW c \in STRING, NEW k \in Nat \ {0}
  PROVE  Consts!OperandLines(c, k) \in Seq(Said)
<1>1. <<"CONST", k - 1>> \in Said /\ <<c>> \in Said
  BY DEF Said
<1>2. /\ <<>> \in Seq(Said) /\ <<<<"CONST", k - 1>>>> \in Seq(Said)
      /\ <<<<"CONST", k - 1>>, <<c>>>> \in Seq(Said)
  BY <1>1
<1>3. CASE c = "local"
  BY <1>2, <1>3 DEF Consts!OperandLines
<1>4. CASE c # "local" /\ c \in Consts!Described \cup Consts!Unended
  BY <1>2, <1>4 DEF Consts!OperandLines
<1>5. CASE c # "local" /\ c \notin Consts!Described \cup Consts!Unended
  BY <1>2, <1>5 DEF Consts!OperandLines
<1>6. QED
  BY <1>3, <1>4, <1>5

LEMMA LocalIsNot ==
  /\ "local" \notin Consts!Described \cup Consts!Unended
  /\ "GlobalValue" \notin Consts!Described \cup Consts!Unended
  /\ "ConstantArray" \notin Consts!Described \cup Consts!Unended
  /\ \A c \in Consts!Undescribed : c \notin Consts!Described \cup Consts!Unended
  /\ "local" \notin Consts!Deadly /\ "GlobalValue" \notin Consts!Deadly
  /\ \A c \in Consts!Described \cup Consts!Unended :
       c \in Consts!Deadly <=> Asserts /\ c \in Consts!NoPointers
  /\ \A c \in Consts!Undescribed : c \in Consts!Deadly <=> Asserts
  /\ Consts!NoPointers \subseteq Consts!Described
BY DEF Consts!Described, Consts!Unended, Consts!Undescribed, Consts!NoPointers,
       Consts!Deadly

LEMMA OperandLinesAre ==
  ASSUME NEW c, NEW k
  PROVE  /\ c = "local" => Consts!OperandLines(c, k) = <<>>
         /\ c \in Consts!Described \cup Consts!Unended =>
              Consts!OperandLines(c, k) = <<<<"CONST", k - 1>>, <<c>>>>
         /\ c \in {"GlobalValue", "ConstantArray"} \cup Consts!Undescribed =>
              Consts!OperandLines(c, k) = <<<<"CONST", k - 1>>>>
<1>1. /\ "local" \notin Consts!Described \cup Consts!Unended
      /\ "GlobalValue" \notin Consts!Described \cup Consts!Unended
      /\ "ConstantArray" \notin Consts!Described \cup Consts!Unended
      /\ "local" \notin {"GlobalValue", "ConstantArray"} \cup Consts!Undescribed
      /\ \A d \in Consts!Undescribed : d \notin Consts!Described \cup Consts!Unended
  BY LocalIsNot DEF Consts!Undescribed
<1>2. QED
  BY <1>1 DEF Consts!OperandLines

Ops(N, f, b, i) ==
  [k \in DOMAIN N[f][b][i] |-> Consts!OperandLines(N[f][b][i][k], k)]
Ins(N, f, b) ==
  [i \in DOMAIN N[f][b] |-> <<<<"INST", f, b, i>>>> \o FlattenSeq(Ops(N, f, b, i))]
Bls(N, f) == [b \in DOMAIN N[f] |-> FlattenSeq(Ins(N, f, b))]
Fns(N) == [f \in DOMAIN N |-> FlattenSeq(Bls(N, f))]

LEMMA ListingIs == Consts!Listing = FlattenSeq(Fns(M))
<1>1. \A f, b, i : Consts!InstrLines(f, b, i)
                     = <<<<"INST", f, b, i>>>> \o FlattenSeq(Ops(M, f, b, i))
  BY SameFlattenC DEF Consts!InstrLines, Ops
<1>2. \A f, b : Consts!BlockLines(f, b) = FlattenSeq(Ins(M, f, b))
  BY <1>1, SameFlattenC DEF Consts!BlockLines, Ins
<1>3. \A f : Consts!FunctionLines(f) = FlattenSeq(Bls(M, f))
  BY <1>2, SameFlattenC DEF Consts!FunctionLines, Bls
<1>4. QED
  BY <1>3, SameFlattenC DEF Consts!Listing, Fns

LEMMA ModuleShape ==
  ASSUME NEW N \in Modules
  PROVE  /\ Len(N) \in Nat /\ DOMAIN N = 1..Len(N)
         /\ \A f \in 1..Len(N) :
              /\ N[f] \in Seq(Seq(Seq(STRING)))
              /\ Len(N[f]) \in Nat /\ DOMAIN N[f] = 1..Len(N[f])
              /\ \A b \in 1..Len(N[f]) :
                   /\ N[f][b] \in Seq(Seq(STRING))
                   /\ Len(N[f][b]) \in Nat /\ DOMAIN N[f][b] = 1..Len(N[f][b])
                   /\ \A i \in 1..Len(N[f][b]) :
                        /\ N[f][b][i] \in Seq(STRING)
                        /\ Len(N[f][b][i]) \in Nat
                        /\ DOMAIN N[f][b][i] = 1..Len(N[f][b][i])
                        /\ \A k \in 1..Len(N[f][b][i]) : N[f][b][i][k] \in STRING
<1>1. Len(N) \in Nat /\ DOMAIN N = 1..Len(N)
  BY LenProperties DEF Modules
<1>2. ASSUME NEW f \in 1..Len(N)
      PROVE  /\ N[f] \in Seq(Seq(Seq(STRING)))
             /\ Len(N[f]) \in Nat /\ DOMAIN N[f] = 1..Len(N[f])
  BY LenProperties, ElementOfSeq DEF Modules
<1>3. ASSUME NEW f \in 1..Len(N), NEW b \in 1..Len(N[f])
      PROVE  /\ N[f][b] \in Seq(Seq(STRING))
             /\ Len(N[f][b]) \in Nat /\ DOMAIN N[f][b] = 1..Len(N[f][b])
  <2>1. N[f] \in Seq(Seq(Seq(STRING)))
    BY <1>2
  <2>2. N[f][b] \in Seq(Seq(STRING))
    BY <2>1, ElementOfSeq
  <2>3. QED
    BY <2>2, LenProperties
<1>4. ASSUME NEW f \in 1..Len(N), NEW b \in 1..Len(N[f]), NEW i \in 1..Len(N[f][b])
      PROVE  /\ N[f][b][i] \in Seq(STRING)
             /\ Len(N[f][b][i]) \in Nat
             /\ DOMAIN N[f][b][i] = 1..Len(N[f][b][i])
             /\ \A k \in 1..Len(N[f][b][i]) : N[f][b][i][k] \in STRING
  <2>1. N[f][b] \in Seq(Seq(STRING))
    BY <1>3
  <2>2. N[f][b][i] \in Seq(STRING)
    BY <2>1, ElementOfSeq
  <2>3. QED
    BY <2>2, LenProperties, ElementOfSeq
<1>5. QED
  BY <1>1, <1>2, <1>3, <1>4

LEMMA OpsType ==
  ASSUME NEW N \in Modules, NEW f \in 1..Len(N), NEW b \in 1..Len(N[f]),
         NEW i \in 1..Len(N[f][b])
  PROVE  /\ Ops(N, f, b, i) \in Seq(Seq(Said))
         /\ Len(Ops(N, f, b, i)) = Len(N[f][b][i])
         /\ \A k \in 1..Len(N[f][b][i]) :
              Ops(N, f, b, i)[k] = Consts!OperandLines(N[f][b][i][k], k)
         /\ <<"INST", f, b, i>> \in Said
         /\ <<<<"INST", f, b, i>>>> \in Seq(Said)
         /\ <<<<"INST", f, b, i>>>> \o FlattenSeq(Ops(N, f, b, i)) \in Seq(Said)
<1>1. /\ Len(N[f][b][i]) \in Nat /\ DOMAIN N[f][b][i] = 1..Len(N[f][b][i])
      /\ \A k \in 1..Len(N[f][b][i]) : N[f][b][i][k] \in STRING
  BY ModuleShape, SMTT(30)
<1>2. ASSUME NEW k \in 1..Len(N[f][b][i])
      PROVE  Consts!OperandLines(N[f][b][i][k], k) \in Seq(Said)
  <2>1. k \in Nat \ {0}
    OBVIOUS
  <2>2. QED
    BY <1>1, <2>1, OperandLinesType, Zenon
<1>3. Ops(N, f, b, i) \in [1..Len(N[f][b][i]) -> Seq(Said)]
  BY <1>1, <1>2 DEF Ops
<1>4. Ops(N, f, b, i) \in Seq(Seq(Said)) /\ Len(Ops(N, f, b, i)) = Len(N[f][b][i])
  BY <1>1, <1>3, FunctionIsSeq, Zenon
<1>5. \A k \in 1..Len(N[f][b][i]) :
        Ops(N, f, b, i)[k] = Consts!OperandLines(N[f][b][i][k], k)
  BY <1>1 DEF Ops
<1>6. f \in Nat /\ b \in Nat /\ i \in Nat
  OBVIOUS
<1>7. <<"INST", f, b, i>> \in Said
  BY <1>6 DEF Said
<1>8. <<<<"INST", f, b, i>>>> \in Seq(Said)
  BY <1>7
<1>9. <<<<"INST", f, b, i>>>> \o FlattenSeq(Ops(N, f, b, i)) \in Seq(Said)
  BY <1>4, <1>8, FlattenType, ConcatProperties
<1>10. QED
  BY <1>4, <1>5, <1>7, <1>8, <1>9

LEMMA InsType ==
  ASSUME NEW N \in Modules, NEW f \in 1..Len(N), NEW b \in 1..Len(N[f])
  PROVE  /\ Ins(N, f, b) \in Seq(Seq(Said))
         /\ Len(Ins(N, f, b)) = Len(N[f][b])
         /\ \A i \in 1..Len(N[f][b]) :
              Ins(N, f, b)[i] = <<<<"INST", f, b, i>>>> \o FlattenSeq(Ops(N, f, b, i))
<1>1. Len(N[f][b]) \in Nat /\ DOMAIN N[f][b] = 1..Len(N[f][b])
  BY ModuleShape
<1>2. \A i \in 1..Len(N[f][b]) :
        <<<<"INST", f, b, i>>>> \o FlattenSeq(Ops(N, f, b, i)) \in Seq(Said)
  BY OpsType, Zenon
<1>3. Ins(N, f, b) = [i \in 1..Len(N[f][b]) |->
                        <<<<"INST", f, b, i>>>> \o FlattenSeq(Ops(N, f, b, i))]
  BY <1>1, Zenon DEF Ins
<1>4. Ins(N, f, b) \in [1..Len(N[f][b]) -> Seq(Said)]
  BY <1>2, <1>3, Zenon
<1>5. Ins(N, f, b) \in Seq(Seq(Said)) /\ Len(Ins(N, f, b)) = Len(N[f][b])
  BY <1>1, <1>4, FunctionIsSeq, Zenon
<1>6. QED
  BY <1>3, <1>5, Zenon

LEMMA BlsType ==
  ASSUME NEW N \in Modules, NEW f \in 1..Len(N)
  PROVE  /\ Bls(N, f) \in Seq(Seq(Said))
         /\ Len(Bls(N, f)) = Len(N[f])
         /\ \A b \in 1..Len(N[f]) : Bls(N, f)[b] = FlattenSeq(Ins(N, f, b))
<1>1. Len(N[f]) \in Nat /\ DOMAIN N[f] = 1..Len(N[f])
  BY ModuleShape
<1>2. \A b \in 1..Len(N[f]) : FlattenSeq(Ins(N, f, b)) \in Seq(Said)
  BY InsType, FlattenType, Zenon
<1>3. Bls(N, f) = [b \in 1..Len(N[f]) |-> FlattenSeq(Ins(N, f, b))]
  BY <1>1, Zenon DEF Bls
<1>4. Bls(N, f) \in [1..Len(N[f]) -> Seq(Said)]
  BY <1>2, <1>3, Zenon
<1>5. Bls(N, f) \in Seq(Seq(Said)) /\ Len(Bls(N, f)) = Len(N[f])
  BY <1>1, <1>4, FunctionIsSeq, Zenon
<1>6. QED
  BY <1>3, <1>5, Zenon

LEMMA FnsType ==
  ASSUME NEW N \in Modules
  PROVE  /\ Fns(N) \in Seq(Seq(Said))
         /\ Len(Fns(N)) = Len(N)
         /\ \A f \in 1..Len(N) : Fns(N)[f] = FlattenSeq(Bls(N, f))
         /\ FlattenSeq(Fns(N)) \in Seq(Said)
<1>1. Len(N) \in Nat /\ DOMAIN N = 1..Len(N)
  BY ModuleShape
<1>2. \A f \in 1..Len(N) : FlattenSeq(Bls(N, f)) \in Seq(Said)
  BY BlsType, FlattenType, Zenon
<1>3. Fns(N) = [f \in 1..Len(N) |-> FlattenSeq(Bls(N, f))]
  BY <1>1, Zenon DEF Fns
<1>4. Fns(N) \in [1..Len(N) -> Seq(Said)]
  BY <1>2, <1>3, Zenon
<1>5. Fns(N) \in Seq(Seq(Said)) /\ Len(Fns(N)) = Len(N)
  BY <1>1, <1>4, FunctionIsSeq, Zenon
<1>6. QED
  BY <1>3, <1>5, FlattenType, Zenon

--------------------------------------------------------------------------------
(* What is out at each place of the iterators: what is said of the         *)
(* functions, blocks, instructions and operands before them.               *)
Four(p, q, r, x) == p \o (q \o (r \o x))

(* Equality, as a relation that the provers look for.                      *)
Same(u, v) == u = v

LEMMA Associates ==
  ASSUME NEW T, NEW s \in Seq(T), NEW t \in Seq(T), NEW u \in Seq(T)
  PROVE  Same((s \o t) \o u, s \o (t \o u))
BY ConcatAssociative DEF Same

LEMMA FourFacts ==
  ASSUME NEW T, NEW p \in Seq(T), NEW q \in Seq(T), NEW r \in Seq(T),
         NEW x \in Seq(T), NEW w \in Seq(T)
  PROVE  /\ Four(p, q, r, x) \in Seq(T)
         /\ Same(Four(p, q, r, x) \o w, Four(p, q, r, x \o w))
         /\ Same(Four(p, q, r, x), Four(p, q, r \o x, <<>>))
         /\ Same(Four(p, q, r, <<>>), Four(p, q \o r, <<>>, <<>>))
         /\ Same(Four(p, q, <<>>, <<>>), Four(p \o q, <<>>, <<>>, <<>>))
         /\ Same(Four(p, <<>>, <<>>, <<>>), p)
<1>1. /\ r \o x \in Seq(T) /\ q \o (r \o x) \in Seq(T) /\ p \o (q \o (r \o x)) \in Seq(T)
      /\ q \o r \in Seq(T) /\ p \o q \in Seq(T) /\ x \o w \in Seq(T)
  BY ConcatProperties
<1>2. /\ (r \o x) \o w = r \o (x \o w)
      /\ (q \o (r \o x)) \o w = q \o ((r \o x) \o w)
      /\ (p \o (q \o (r \o x))) \o w = p \o ((q \o (r \o x)) \o w)
  <2>1. /\ Same((r \o x) \o w, r \o (x \o w))
        /\ Same((q \o (r \o x)) \o w, q \o ((r \o x) \o w))
        /\ Same((p \o (q \o (r \o x))) \o w, p \o ((q \o (r \o x)) \o w))
    BY <1>1, Associates, Zenon
  <2>2. QED
    BY <2>1 DEF Same
<1>3. \A y \in Seq(T) : y \o <<>> = y /\ <<>> \o y = y
  BY ConcatEmptySeq
<1>4. <<>> \in Seq(T)
  OBVIOUS
<1>5. Four(p, q, r, x) \o w = Four(p, q, r, x \o w)
  BY <1>2, Zenon DEF Four
<1>6. Four(p, q, r, x) = Four(p, q, r \o x, <<>>)
  <2>1. (r \o x) \o <<>> = r \o x
    BY <1>1, <1>3, Zenon
  <2>2. QED
    BY <2>1, Zenon DEF Four
<1>7. /\ Four(p, q, r, <<>>) = p \o (q \o r)
      /\ Four(p, q \o r, <<>>, <<>>) = p \o (q \o r)
      /\ Four(p, q, <<>>, <<>>) = p \o q
      /\ Four(p \o q, <<>>, <<>>, <<>>) = p \o q
      /\ Four(p, <<>>, <<>>, <<>>) = p
  <2>1. /\ r \o <<>> = r /\ <<>> \o <<>> = <<>> /\ (q \o r) \o <<>> = q \o r
        /\ q \o <<>> = q /\ (p \o q) \o <<>> = p \o q /\ p \o <<>> = p
    BY <1>1, <1>3, <1>4, Zenon
  <2>2. QED
    BY <2>1, Zenon DEF Four
<1>8. Four(p, q, r, x) \in Seq(T)
  BY <1>1, Zenon DEF Four
<1>9. QED
  BY <1>5, <1>6, <1>7, <1>8, Zenon DEF Same

Begun(N, f, b, i, k) ==
  IF k = 0 THEN <<>> ELSE <<<<"INST", f, b, i>>>> \o FirstOf(Ops(N, f, b, i), k - 1)

OutAt(N, f, b, i, k) ==
  Four(FirstOf(Fns(N), f - 1), FirstOf(Bls(N, f), b - 1),
       FirstOf(Ins(N, f, b), i - 1), Begun(N, f, b, i, k))

IsPlace(N, f, b, i, k) ==
  /\ f \in 1..Len(N) + 1
  /\ f = Len(N) + 1 => b = 1 /\ i = 1 /\ k = 0
  /\ f # Len(N) + 1 =>
       /\ b \in 1..Len(N[f]) + 1
       /\ b = Len(N[f]) + 1 => i = 1 /\ k = 0
       /\ b # Len(N[f]) + 1 =>
            /\ i \in 1..Len(N[f][b]) + 1
            /\ i = Len(N[f][b]) + 1 => k = 0
            /\ i # Len(N[f][b]) + 1 => k \in 0..Len(N[f][b][i]) + 1

LEMMA PartsType ==
  ASSUME NEW N \in Modules, NEW f, NEW b, NEW i, NEW k, IsPlace(N, f, b, i, k)
  PROVE  /\ FirstOf(Fns(N), f - 1) \in Seq(Said)
         /\ FirstOf(Bls(N, f), b - 1) \in Seq(Said)
         /\ FirstOf(Ins(N, f, b), i - 1) \in Seq(Said)
         /\ Begun(N, f, b, i, k) \in Seq(Said)
<1> USE DEF IsPlace
<1>0. <<>> \in Seq(Said) /\ 1 - 1 = 0 /\ \A s : FirstOf(s, 0) = <<>>
  BY FirstOfNone
<1>1. FirstOf(Fns(N), f - 1) \in Seq(Said)
  <2>1. f - 1 \in 0..Len(Fns(N)) /\ Fns(N) \in Seq(Seq(Said))
    BY ModuleShape, FnsType
  <2>2. QED
    BY <2>1, FirstOfType
<1>2. FirstOf(Bls(N, f), b - 1) \in Seq(Said)
  <2>1. CASE f = Len(N) + 1
    BY <1>0, <2>1
  <2>2. CASE f # Len(N) + 1
    <3>1. f \in 1..Len(N)
      BY <2>2, ModuleShape
    <3>2. b - 1 \in 0..Len(Bls(N, f)) /\ Bls(N, f) \in Seq(Seq(Said))
      BY <2>2, <3>1, ModuleShape, BlsType
    <3>3. QED
      BY <3>2, FirstOfType
  <2>3. QED
    BY <2>1, <2>2
<1>3. CASE f = Len(N) + 1 \/ b = Len(N[f]) + 1
  <2>1. i = 1 /\ k = 0
    BY <1>3
  <2>2. QED
    BY <1>0, <1>1, <1>2, <2>1 DEF Begun
<1>4. CASE ~ (f = Len(N) + 1 \/ b = Len(N[f]) + 1)
  <2>1. f \in 1..Len(N) /\ b \in 1..Len(N[f])
    BY <1>4, ModuleShape, SMTT(30)
  <2>2. FirstOf(Ins(N, f, b), i - 1) \in Seq(Said)
    <3>1. i - 1 \in 0..Len(Ins(N, f, b)) /\ Ins(N, f, b) \in Seq(Seq(Said))
      BY <1>4, <2>1, ModuleShape, InsType, SMTT(30)
    <3>2. QED
      BY <3>1, FirstOfType
  <2>3. CASE k = 0
    BY <1>0, <1>1, <1>2, <2>2, <2>3 DEF Begun
  <2>4. CASE k # 0
    <3>1. i \in 1..Len(N[f][b]) /\ k \in 1..Len(N[f][b][i]) + 1
      <4>1. f # Len(N) + 1 /\ b # Len(N[f]) + 1
        BY <1>4, Zenon
      <4>2. /\ i \in 1..Len(N[f][b]) + 1
            /\ i = Len(N[f][b]) + 1 => k = 0
            /\ i # Len(N[f][b]) + 1 => k \in 0..Len(N[f][b][i]) + 1
        BY <4>1, Zenon
      <4>3. Len(N[f][b]) \in Nat
        BY <2>1, ModuleShape, Zenon
      <4>4. i # Len(N[f][b]) + 1
        BY <2>4, <4>2, Zenon
      <4>5. i \in 1..Len(N[f][b])
        BY <4>2, <4>3, <4>4
      <4>6. Len(N[f][b][i]) \in Nat
        BY <2>1, <4>5, ModuleShape, ZenonT(30)
      <4>7. k \in 0..Len(N[f][b][i]) + 1
        BY <4>2, <4>4, Zenon
      <4>8. QED
        BY <2>4, <4>5, <4>6, <4>7
    <3>2. k - 1 \in 0..Len(Ops(N, f, b, i)) /\ Ops(N, f, b, i) \in Seq(Seq(Said))
          /\ <<<<"INST", f, b, i>>>> \in Seq(Said)
      <4>1. /\ Ops(N, f, b, i) \in Seq(Seq(Said))
            /\ Len(Ops(N, f, b, i)) = Len(N[f][b][i])
            /\ <<<<"INST", f, b, i>>>> \in Seq(Said)
        BY <2>1, <3>1, OpsType, Zenon
      <4>2. Len(N[f][b][i]) \in Nat
        BY <2>1, <3>1, ModuleShape, Zenon
      <4>3. QED
        BY <3>1, <4>1, <4>2
    <3>3. FirstOf(Ops(N, f, b, i), k - 1) \in Seq(Said)
      BY <3>2, FirstOfType
    <3>4. Begun(N, f, b, i, k) \in Seq(Said)
      BY <2>4, <3>2, <3>3, ConcatProperties DEF Begun
    <3>5. QED
      BY <1>1, <1>2, <2>2, <3>4
  <2>5. QED
    BY <2>3, <2>4
<1>5. QED
  BY <1>3, <1>4

(* The places an iterator comes to.                                        *)
LEMMA Places ==
  ASSUME NEW N \in Modules
  PROVE  /\ \A f \in 1..Len(N) + 1 : IsPlace(N, f, 1, 1, 0)
         /\ \A f \in 1..Len(N) : \A b \in 1..Len(N[f]) + 1 : IsPlace(N, f, b, 1, 0)
         /\ \A f \in 1..Len(N) : \A b \in 1..Len(N[f]) :
              /\ \A i \in 1..Len(N[f][b]) + 1 : IsPlace(N, f, b, i, 0)
              /\ \A i \in 1..Len(N[f][b]) :
                   \A k \in 0..Len(N[f][b][i]) + 1 : IsPlace(N, f, b, i, k)
<1>1. ASSUME NEW f \in 1..Len(N), NEW b \in 1..Len(N[f]), NEW i \in 1..Len(N[f][b]),
             NEW k \in 0..Len(N[f][b][i]) + 1
      PROVE  IsPlace(N, f, b, i, k)
  <2>1. Len(N) \in Nat /\ Len(N[f]) \in Nat /\ Len(N[f][b]) \in Nat
    BY ModuleShape, Zenon
  <2>2. QED
    BY <2>1 DEF IsPlace
<1>2. ASSUME NEW f \in 1..Len(N), NEW b \in 1..Len(N[f]), NEW i \in 1..Len(N[f][b]) + 1
      PROVE  IsPlace(N, f, b, i, 0)
  <2>1. Len(N) \in Nat /\ Len(N[f]) \in Nat /\ Len(N[f][b]) \in Nat
    BY ModuleShape, Zenon
  <2>2. CASE i = Len(N[f][b]) + 1
    BY <2>1, <2>2 DEF IsPlace
  <2>3. CASE i # Len(N[f][b]) + 1
    <3>1. i \in 1..Len(N[f][b])
      BY <2>1, <2>3
    <3>2. Len(N[f][b][i]) \in Nat
      BY <3>1, ModuleShape, Zenon
    <3>3. 0 \in 0..Len(N[f][b][i]) + 1
      BY <3>2
    <3>4. QED
      BY <1>1, <3>1, <3>3, Zenon
  <2>4. QED
    BY <2>2, <2>3
<1>3. ASSUME NEW f \in 1..Len(N), NEW b \in 1..Len(N[f]) + 1
      PROVE  IsPlace(N, f, b, 1, 0)
  <2>1. Len(N) \in Nat /\ Len(N[f]) \in Nat
    BY ModuleShape, Zenon
  <2>2. CASE b = Len(N[f]) + 1
    BY <2>1, <2>2 DEF IsPlace
  <2>3. CASE b # Len(N[f]) + 1
    <3>1. b \in 1..Len(N[f])
      BY <2>1, <2>3
    <3>2. Len(N[f][b]) \in Nat
      BY <3>1, ModuleShape, Zenon
    <3>3. QED
      BY <1>2, <3>1, <3>2
  <2>4. QED
    BY <2>2, <2>3
<1>4. ASSUME NEW f \in 1..Len(N) + 1
      PROVE  IsPlace(N, f, 1, 1, 0)
  <2>1. Len(N) \in Nat
    BY ModuleShape, Zenon
  <2>2. CASE f = Len(N) + 1
    BY <2>1, <2>2 DEF IsPlace
  <2>3. CASE f # Len(N) + 1
    <3>1. f \in 1..Len(N)
      BY <2>1, <2>3
    <3>2. Len(N[f]) \in Nat
      BY <3>1, ModuleShape, Zenon
    <3>3. QED
      BY <1>3, <3>1, <3>2
  <2>4. QED
    BY <2>2, <2>3
<1>5. QED
  BY <1>1, <1>2, <1>3, <1>4, Zenon

(* How the output grows, move by move.                                     *)
LEMMA AfterInstruction ==
  ASSUME NEW N \in Modules, NEW f \in 1..Len(N), NEW b \in 1..Len(N[f]),
         NEW i \in 1..Len(N[f][b])
  PROVE  /\ IsPlace(N, f, b, i, 1)
         /\ Same(OutAt(N, f, b, i, 0) \o <<<<"INST", f, b, i>>>>,
                 OutAt(N, f, b, i, 1))
<1> DEFINE w == <<<<"INST", f, b, i>>>>
<1>1. IsPlace(N, f, b, i, 0) /\ IsPlace(N, f, b, i, 1)
  <2>1. Len(N[f][b][i]) \in Nat
    BY ModuleShape, Zenon
  <2>2. 0 \in 0..Len(N[f][b][i]) + 1 /\ 1 \in 0..Len(N[f][b][i]) + 1
    BY <2>1
  <2>3. QED
    BY <2>2, Places, Zenon
<1>2. Begun(N, f, b, i, 0) = <<>>
  BY DEF Begun
<1>3. w \in Seq(Said)
  BY OpsType, Zenon
<1>4. w \o <<>> = w /\ <<>> \o w = w
  BY <1>3, ConcatEmptySeq
<1>5. Begun(N, f, b, i, 1) = w
  <2>1. 1 - 1 = 0 /\ 1 # 0
    OBVIOUS
  <2>2. FirstOf(Ops(N, f, b, i), 1 - 1) = <<>>
    BY <2>1, FirstOfNone
  <2>3. QED
    BY <1>4, <2>1, <2>2, Zenon DEF Begun
<1>6. /\ FirstOf(Fns(N), f - 1) \in Seq(Said)
      /\ FirstOf(Bls(N, f), b - 1) \in Seq(Said)
      /\ FirstOf(Ins(N, f, b), i - 1) \in Seq(Said)
      /\ Begun(N, f, b, i, 0) \in Seq(Said)
  BY <1>1, PartsType, Zenon
<1>7. Same(OutAt(N, f, b, i, 0) \o w,
           Four(FirstOf(Fns(N), f - 1), FirstOf(Bls(N, f), b - 1),
                FirstOf(Ins(N, f, b), i - 1), Begun(N, f, b, i, 0) \o w))
  BY <1>3, <1>6, FourFacts, Zenon DEF OutAt
<1>8. Begun(N, f, b, i, 0) \o w = Begun(N, f, b, i, 1)
  BY <1>2, <1>4, <1>5, Zenon
<1>9. QED
  BY <1>1, <1>7, <1>8, Zenon DEF OutAt

LEMMA AfterOperand ==
  ASSUME NEW N \in Modules, NEW f \in 1..Len(N), NEW b \in 1..Len(N[f]),
         NEW i \in 1..Len(N[f][b]), NEW k \in 1..Len(N[f][b][i])
  PROVE  /\ IsPlace(N, f, b, i, k + 1)
         /\ Same(OutAt(N, f, b, i, k) \o Consts!OperandLines(N[f][b][i][k], k),
                 OutAt(N, f, b, i, k + 1))
<1> DEFINE w == Consts!OperandLines(N[f][b][i][k], k)
           h == <<<<"INST", f, b, i>>>>
           O == Ops(N, f, b, i)
<1>1. IsPlace(N, f, b, i, k) /\ IsPlace(N, f, b, i, k + 1)
  <2>1. Len(N[f][b][i]) \in Nat
    BY ModuleShape, Zenon
  <2>2. k \in 0..Len(N[f][b][i]) + 1 /\ k + 1 \in 0..Len(N[f][b][i]) + 1
    BY <2>1
  <2>3. QED
    BY <2>2, Places, Zenon
<1>2. /\ O \in Seq(Seq(Said)) /\ Len(O) = Len(N[f][b][i])
      /\ O[k] = w /\ h \in Seq(Said)
  BY OpsType, Zenon
<1>3. k \in 1..Len(O)
  BY <1>2
<1>4. w \in Seq(Said)
  <2>1. O[k] \in Seq(Said)
    BY <1>2, <1>3, ElementOfSeq, Zenon
  <2>2. QED
    BY <1>2, <2>1, Zenon
<1>5. FirstOf(O, k) = FirstOf(O, k - 1) \o w
  <2>1. FirstOf(O, k) = FirstOf(O, k - 1) \o O[k]
    BY <1>2, <1>3, FirstOfNext
  <2>2. QED
    BY <1>2, <2>1, Zenon
<1>6. FirstOf(O, k - 1) \in Seq(Said)
  <2>1. k - 1 \in 0..Len(O)
    BY <1>3
  <2>2. QED
    BY <1>2, <2>1, FirstOfType, Zenon
<1>7. Begun(N, f, b, i, k) \o w = Begun(N, f, b, i, k + 1)
  <2>1. Same((h \o FirstOf(O, k - 1)) \o w, h \o (FirstOf(O, k - 1) \o w))
    BY <1>2, <1>4, <1>6, Associates, Zenon
  <2>2. (k + 1) - 1 = k /\ k # 0 /\ k + 1 # 0
    OBVIOUS
  <2>3. /\ Begun(N, f, b, i, k) = h \o FirstOf(O, k - 1)
        /\ Begun(N, f, b, i, k + 1) = h \o FirstOf(O, k)
    BY <2>2, Zenon DEF Begun
  <2>4. QED
    BY <1>5, <2>1, <2>3, Zenon DEF Same
<1>8. /\ FirstOf(Fns(N), f - 1) \in Seq(Said)
      /\ FirstOf(Bls(N, f), b - 1) \in Seq(Said)
      /\ FirstOf(Ins(N, f, b), i - 1) \in Seq(Said)
      /\ Begun(N, f, b, i, k) \in Seq(Said)
  BY <1>1, PartsType, Zenon
<1>9. Same(OutAt(N, f, b, i, k) \o w,
           Four(FirstOf(Fns(N), f - 1), FirstOf(Bls(N, f), b - 1),
                FirstOf(Ins(N, f, b), i - 1), Begun(N, f, b, i, k) \o w))
  BY <1>4, <1>8, FourFacts, Zenon DEF OutAt
<1>10. QED
  BY <1>1, <1>7, <1>9, Zenon DEF OutAt

LEMMA AfterOperands ==
  ASSUME NEW N \in Modules, NEW f \in 1..Len(N), NEW b \in 1..Len(N[f]),
         NEW i \in 1..Len(N[f][b])
  PROVE  /\ IsPlace(N, f, b, i + 1, 0)
         /\ Same(OutAt(N, f, b, i, Len(N[f][b][i]) + 1), OutAt(N, f, b, i + 1, 0))
<1> DEFINE k == Len(N[f][b][i]) + 1
           O == Ops(N, f, b, i)
           I == Ins(N, f, b)
<1>1. O \in Seq(Seq(Said)) /\ Len(O) = Len(N[f][b][i]) /\ Len(N[f][b][i]) \in Nat
      /\ Len(N[f][b]) \in Nat
  BY OpsType, ModuleShape, Zenon
<1>2. k \in 0..k /\ k # 0 /\ k - 1 = Len(O) /\ i + 1 \in 1..Len(N[f][b]) + 1
  BY <1>1
<1>3. IsPlace(N, f, b, i, k) /\ IsPlace(N, f, b, i + 1, 0)
  BY <1>2, Places, Zenon
<1>4. I \in Seq(Seq(Said)) /\ Len(I) = Len(N[f][b])
      /\ I[i] = <<<<"INST", f, b, i>>>> \o FlattenSeq(O)
  BY InsType, Zenon
<1>5. Begun(N, f, b, i, k) = I[i]
  <2>1. FirstOf(O, Len(O)) = FlattenSeq(O)
    BY <1>1, FlattenIs
  <2>2. QED
    BY <1>2, <1>4, <2>1, Zenon DEF Begun
<1>6. FirstOf(I, (i + 1) - 1) = FirstOf(I, i - 1) \o I[i]
  <2>1. i \in 1..Len(I) /\ (i + 1) - 1 = i
    BY <1>4
  <2>2. QED
    BY <1>4, <2>1, FirstOfNext
<1>7. Begun(N, f, b, i + 1, 0) = <<>>
  BY DEF Begun
<1>8. /\ FirstOf(Fns(N), f - 1) \in Seq(Said)
      /\ FirstOf(Bls(N, f), b - 1) \in Seq(Said)
      /\ FirstOf(I, i - 1) \in Seq(Said)
      /\ Begun(N, f, b, i, k) \in Seq(Said)
  BY <1>3, PartsType, Zenon
<1>9. Same(OutAt(N, f, b, i, k),
           Four(FirstOf(Fns(N), f - 1), FirstOf(Bls(N, f), b - 1),
                FirstOf(I, i - 1) \o Begun(N, f, b, i, k), <<>>))
  BY <1>8, FourFacts, Zenon DEF OutAt
<1>10. QED
  BY <1>3, <1>5, <1>6, <1>7, <1>9, Zenon DEF OutAt

LEMMA AfterBlock ==
  ASSUME NEW N \in Modules, NEW f \in 1..Len(N), NEW b \in 1..Len(N[f])
  PROVE  /\ IsPlace(N, f, b + 1, 1, 0)
         /\ Same(OutAt(N, f, b, Len(N[f][b]) + 1, 0), OutAt(N, f, b + 1, 1, 0))
<1> DEFINE i == Len(N[f][b]) + 1
           I == Ins(N, f, b)
           B == Bls(N, f)
<1>1. I \in Seq(Seq(Said)) /\ Len(I) = Len(N[f][b]) /\ Len(N[f][b]) \in Nat
      /\ Len(N[f]) \in Nat
  BY InsType, ModuleShape, Zenon
<1>2. i \in 1..i /\ i - 1 = Len(I) /\ b + 1 \in 1..Len(N[f]) + 1
  BY <1>1
<1>3. IsPlace(N, f, b, i, 0) /\ IsPlace(N, f, b + 1, 1, 0)
  BY <1>2, Places, Zenon
<1>4. B \in Seq(Seq(Said)) /\ Len(B) = Len(N[f]) /\ B[b] = FlattenSeq(I)
  BY BlsType, Zenon
<1>5. FirstOf(I, i - 1) = B[b]
  <2>1. FirstOf(I, Len(I)) = FlattenSeq(I)
    BY <1>1, FlattenIs
  <2>2. QED
    BY <1>2, <1>4, <2>1, Zenon
<1>6. FirstOf(B, (b + 1) - 1) = FirstOf(B, b - 1) \o B[b]
  <2>1. b \in 1..Len(B) /\ (b + 1) - 1 = b
    BY <1>4
  <2>2. QED
    BY <1>4, <2>1, FirstOfNext
<1>7. /\ Begun(N, f, b, i, 0) = <<>> /\ Begun(N, f, b + 1, 1, 0) = <<>>
      /\ FirstOf(Ins(N, f, b + 1), 1 - 1) = <<>>
  BY FirstOfNone DEF Begun
<1>8. /\ FirstOf(Fns(N), f - 1) \in Seq(Said)
      /\ FirstOf(B, b - 1) \in Seq(Said)
      /\ FirstOf(I, i - 1) \in Seq(Said)
      /\ <<>> \in Seq(Said)
  BY <1>3, <1>7, PartsType, Zenon
<1>9. Same(Four(FirstOf(Fns(N), f - 1), FirstOf(B, b - 1), FirstOf(I, i - 1), <<>>),
           Four(FirstOf(Fns(N), f - 1), FirstOf(B, b - 1) \o FirstOf(I, i - 1), <<>>, <<>>))
  BY <1>8, FourFacts, Zenon
<1>10. QED
  BY <1>3, <1>5, <1>6, <1>7, <1>9, Zenon DEF OutAt

LEMMA AfterFunction ==
  ASSUME NEW N \in Modules, NEW f \in 1..Len(N)
  PROVE  /\ IsPlace(N, f + 1, 1, 1, 0)
         /\ Same(OutAt(N, f, Len(N[f]) + 1, 1, 0), OutAt(N, f + 1, 1, 1, 0))
<1> DEFINE b == Len(N[f]) + 1
           B == Bls(N, f)
           F == Fns(N)
<1>1. B \in Seq(Seq(Said)) /\ Len(B) = Len(N[f]) /\ Len(N[f]) \in Nat
      /\ Len(N) \in Nat
  BY BlsType, ModuleShape, Zenon
<1>2. b \in 1..b /\ b - 1 = Len(B) /\ f + 1 \in 1..Len(N) + 1
  BY <1>1
<1>3. IsPlace(N, f, b, 1, 0) /\ IsPlace(N, f + 1, 1, 1, 0)
  BY <1>2, Places, Zenon
<1>4. F \in Seq(Seq(Said)) /\ Len(F) = Len(N) /\ F[f] = FlattenSeq(B)
  BY FnsType, Zenon
<1>5. FirstOf(B, b - 1) = F[f]
  <2>1. FirstOf(B, Len(B)) = FlattenSeq(B)
    BY <1>1, FlattenIs
  <2>2. QED
    BY <1>2, <1>4, <2>1, Zenon
<1>6. FirstOf(F, (f + 1) - 1) = FirstOf(F, f - 1) \o F[f]
  <2>1. f \in 1..Len(F) /\ (f + 1) - 1 = f
    BY <1>4
  <2>2. QED
    BY <1>4, <2>1, FirstOfNext
<1>7. /\ Begun(N, f, b, 1, 0) = <<>> /\ Begun(N, f + 1, 1, 1, 0) = <<>>
      /\ FirstOf(Ins(N, f, b), 1 - 1) = <<>>
      /\ FirstOf(Ins(N, f + 1, 1), 1 - 1) = <<>>
      /\ FirstOf(Bls(N, f + 1), 1 - 1) = <<>>
  BY FirstOfNone DEF Begun
<1>8. /\ FirstOf(F, f - 1) \in Seq(Said)
      /\ FirstOf(B, b - 1) \in Seq(Said)
      /\ <<>> \in Seq(Said)
  BY <1>3, <1>7, PartsType, Zenon
<1>9. Same(Four(FirstOf(F, f - 1), FirstOf(B, b - 1), <<>>, <<>>),
           Four(FirstOf(F, f - 1) \o FirstOf(B, b - 1), <<>>, <<>>, <<>>))
  BY <1>8, FourFacts, Zenon
<1>10. QED
  BY <1>3, <1>5, <1>6, <1>7, <1>9, Zenon DEF OutAt

LEMMA FirstAndLast ==
  ASSUME NEW N \in Modules
  PROVE  /\ IsPlace(N, 1, 1, 1, 0)
         /\ OutAt(N, 1, 1, 1, 0) = <<>>
         /\ OutAt(N, Len(N) + 1, 1, 1, 0) = FlattenSeq(Fns(N))
<1>1. IsPlace(N, 1, 1, 1, 0) /\ IsPlace(N, Len(N) + 1, 1, 1, 0)
  <2>1. Len(N) \in Nat
    BY ModuleShape, Zenon
  <2>2. 1 \in 1..Len(N) + 1 /\ Len(N) + 1 \in 1..Len(N) + 1
    BY <2>1
  <2>3. QED
    BY <2>2, Places, Zenon
<1>2. \A f : /\ Begun(N, f, 1, 1, 0) = <<>>
             /\ FirstOf(Ins(N, f, 1), 1 - 1) = <<>>
             /\ FirstOf(Bls(N, f), 1 - 1) = <<>>
  BY FirstOfNone DEF Begun
<1>3. \A p \in Seq(Said) : Same(Four(p, <<>>, <<>>, <<>>), p)
  <2>1. <<>> \in Seq(Said)
    OBVIOUS
  <2>2. QED
    BY <2>1, FourFacts, Zenon
<1>4. FirstOf(Fns(N), 1 - 1) = <<>> /\ <<>> \in Seq(Said)
  BY FirstOfNone
<1>5. FirstOf(Fns(N), (Len(N) + 1) - 1) = FlattenSeq(Fns(N))
  <2>1. (Len(N) + 1) - 1 = Len(Fns(N))
    BY ModuleShape, FnsType
  <2>2. QED
    BY <2>1, FnsType, FlattenIs
<1>6. /\ OutAt(N, 1, 1, 1, 0) = Four(<<>>, <<>>, <<>>, <<>>)
      /\ OutAt(N, Len(N) + 1, 1, 1, 0) = Four(FlattenSeq(Fns(N)), <<>>, <<>>, <<>>)
  BY <1>2, <1>4, <1>5, Zenon DEF OutAt
<1>7. FlattenSeq(Fns(N)) \in Seq(Said)
  BY FnsType
<1>8. QED
  BY <1>1, <1>3, <1>4, <1>6, <1>7 DEF Same

--------------------------------------------------------------------------------
Pieces == [what : Said, ended : BOOLEAN]
WhatOf(o) == [k \in DOMAIN o |-> o[k].what]

LEMMA PiecesAre ==
  ASSUME NEW x \in Said
  PROVE  /\ Consts!Line(x) \in Pieces /\ Consts!Line(x).what = x
         /\ Consts!Piece(x) \in Pieces /\ Consts!Piece(x).what = x
BY DEF Consts!Line, Consts!Piece, Pieces

LEMMA WhatOfType ==
  ASSUME NEW o \in Seq(Pieces)
  PROVE  WhatOf(o) \in Seq(Said) /\ Len(WhatOf(o)) = Len(o)
<1>1. Len(o) \in Nat /\ DOMAIN o = 1..Len(o)
  BY LenProperties
<1>2. \A k \in 1..Len(o) : o[k].what \in Said
  <2>1. \A k \in 1..Len(o) : o[k] \in Pieces
    BY ElementOfSeq
  <2>2. QED
    BY <2>1 DEF Pieces
<1>3. WhatOf(o) \in [1..Len(o) -> Said]
  BY <1>1, <1>2 DEF WhatOf
<1>4. QED
  BY <1>1, <1>3, FunctionIsSeq, Zenon

LEMMA WhatOfConcat ==
  ASSUME NEW o \in Seq(Pieces), NEW p \in Seq(Pieces)
  PROVE  Same(WhatOf(o \o p), WhatOf(o) \o WhatOf(p))
<1>1. /\ o \o p \in Seq(Pieces) /\ Len(o \o p) = Len(o) + Len(p)
      /\ \A k \in 1..Len(o) + Len(p) :
           (o \o p)[k] = IF k <= Len(o) THEN o[k] ELSE p[k - Len(o)]
      /\ Len(o) \in Nat /\ Len(p) \in Nat
  BY ConcatProperties, LenProperties
<1>2. /\ WhatOf(o) \in Seq(Said) /\ Len(WhatOf(o)) = Len(o)
      /\ WhatOf(p) \in Seq(Said) /\ Len(WhatOf(p)) = Len(p)
      /\ WhatOf(o \o p) \in Seq(Said) /\ Len(WhatOf(o \o p)) = Len(o) + Len(p)
  BY <1>1, WhatOfType
<1> DEFINE u == WhatOf(o)
           v == WhatOf(p)
           w == WhatOf(o \o p)
<1>3. /\ u \o v \in Seq(Said) /\ Len(u \o v) = Len(o) + Len(p)
      /\ \A k \in 1..Len(o) + Len(p) :
           (u \o v)[k] = IF k <= Len(o) THEN u[k] ELSE v[k - Len(o)]
  BY <1>2, ConcatProperties
<1>4. /\ DOMAIN o = 1..Len(o) /\ DOMAIN p = 1..Len(p)
      /\ DOMAIN (o \o p) = 1..Len(o) + Len(p)
  BY <1>1, LenProperties
<1>5. /\ \A k \in 1..Len(o) : u[k] = o[k].what
      /\ \A k \in 1..Len(p) : v[k] = p[k].what
      /\ \A k \in 1..Len(o) + Len(p) : w[k] = (o \o p)[k].what
  BY <1>4 DEF WhatOf
<1>6. \A k \in 1..Len(w) : w[k] = (u \o v)[k]
  <2> HIDE DEF u, v, w
  <2>1. SUFFICES ASSUME NEW k \in 1..Len(o) + Len(p) PROVE w[k] = (u \o v)[k]
    BY <1>2 DEF w
  <2>2. CASE k <= Len(o)
    <3>1. k \in 1..Len(o)
      BY <1>1, <2>2
    <3>2. QED
      BY <1>1, <1>3, <1>5, <2>2, <3>1
  <2>3. CASE ~ (k <= Len(o))
    <3>1. k - Len(o) \in 1..Len(p)
      BY <1>1, <2>3
    <3>2. QED
      BY <1>1, <1>3, <1>5, <2>3, <3>1
  <2>4. QED
    BY <2>2, <2>3
<1>7. w = u \o v
  <2>1. w \in Seq(Said) /\ u \o v \in Seq(Said) /\ Len(w) = Len(u \o v)
    BY <1>2, <1>3
  <2> HIDE DEF u, v, w
  <2>2. QED
    BY <1>6, <2>1, SeqEqual, Zenon
<1>8. QED
  BY <1>7, Zenon DEF Same

(* Inside an instruction the output is the start of the listing.           *)
LEMMA InInstructionContinues ==
  ASSUME NEW N \in Modules, NEW f \in 1..Len(N), NEW b \in 1..Len(N[f]),
         NEW i \in 1..Len(N[f][b]), NEW k \in 1..Len(N[f][b][i]) + 1
  PROVE  Continues(OutAt(N, f, b, i, k), FlattenSeq(Fns(N)), Said)
<1> DEFINE F == Fns(N)
           B == Bls(N, f)
           I == Ins(N, f, b)
           O == Ops(N, f, b, i)
           h == <<<<"INST", f, b, i>>>>
<1>1. Len(N[f][b][i]) \in Nat /\ Len(N[f][b]) \in Nat /\ Len(N[f]) \in Nat
      /\ Len(N) \in Nat
  BY ModuleShape, Zenon
<1>2. /\ O \in Seq(Seq(Said)) /\ Len(O) = Len(N[f][b][i]) /\ h \in Seq(Said)
      /\ I \in Seq(Seq(Said)) /\ Len(I) = Len(N[f][b]) /\ I[i] = h \o FlattenSeq(O)
      /\ B \in Seq(Seq(Said)) /\ Len(B) = Len(N[f]) /\ B[b] = FlattenSeq(I)
      /\ F \in Seq(Seq(Said)) /\ Len(F) = Len(N) /\ F[f] = FlattenSeq(B)
  BY OpsType, InsType, BlsType, FnsType, Zenon
<1>3. k - 1 \in 0..Len(O) /\ k # 0
  BY <1>1, <1>2
<1>4. Begun(N, f, b, i, k) = h \o FirstOf(O, k - 1)
  BY <1>3, Zenon DEF Begun
<1>5. Continues(h \o FirstOf(O, k - 1), h \o FlattenSeq(O), Said)
  <2>1. Continues(FirstOf(O, k - 1), FlattenSeq(O), Said)
    BY <1>2, <1>3, FirstOfContinues, Zenon
  <2>2. QED
    BY <1>2, <2>1, ContinuesAfter, Zenon
<1>6. Continues(Begun(N, f, b, i, k), I[i], Said)
  BY <1>2, <1>4, <1>5, Zenon
<1>7. i \in 1..Len(I) /\ b \in 1..Len(B) /\ f \in 1..Len(F)
  BY <1>2
<1>8. Continues(FirstOf(I, i - 1) \o Begun(N, f, b, i, k), B[b], Said)
  <2>1. Continues(FirstOf(I, i - 1) \o Begun(N, f, b, i, k), FlattenSeq(I), Said)
    BY <1>2, <1>6, <1>7, InTheMiddle, Zenon
  <2>2. QED
    BY <1>2, <2>1, Zenon
<1>9. Continues(FirstOf(B, b - 1) \o (FirstOf(I, i - 1) \o Begun(N, f, b, i, k)),
                F[f], Said)
  <2>1. Continues(FirstOf(B, b - 1) \o (FirstOf(I, i - 1) \o Begun(N, f, b, i, k)),
                  FlattenSeq(B), Said)
    BY <1>2, <1>7, <1>8, InTheMiddle, Zenon
  <2>2. QED
    BY <1>2, <2>1, Zenon
<1>10. Continues(FirstOf(F, f - 1) \o
                 (FirstOf(B, b - 1) \o (FirstOf(I, i - 1) \o Begun(N, f, b, i, k))),
                 FlattenSeq(F), Said)
  BY <1>2, <1>7, <1>9, InTheMiddle, Zenon
<1>11. QED
  BY <1>10, Zenon DEF OutAt, Four

(* Operand k1 of instruction i1 of block b1 of function f1 comes first.    *)
Before(f1, b1, i1, k1, f, b, i, k) ==
  \/ f1 < f
  \/ f1 = f /\ b1 < b
  \/ f1 = f /\ b1 = b /\ i1 < i
  \/ f1 = f /\ b1 = b /\ i1 = i /\ k1 < k

NoDeadlyBefore(N, f, b, i, k) ==
  \A f1 \in 1..Len(N) : \A b1 \in 1..Len(N[f1]) :
    \A i1 \in 1..Len(N[f1][b1]) : \A k1 \in 1..Len(N[f1][b1][i1]) :
      Before(f1, b1, i1, k1, f, b, i, k) => N[f1][b1][i1][k1] \notin Consts!Deadly

LEMMA NoDeadlyMoves ==
  ASSUME NEW N \in Modules
  PROVE  /\ NoDeadlyBefore(N, 1, 1, 1, 0)
         /\ \A f \in 1..Len(N) :
              NoDeadlyBefore(N, f, Len(N[f]) + 1, 1, 0)
                => NoDeadlyBefore(N, f + 1, 1, 1, 0)
         /\ \A f \in 1..Len(N) : \A b \in 1..Len(N[f]) :
              NoDeadlyBefore(N, f, b, Len(N[f][b]) + 1, 0)
                => NoDeadlyBefore(N, f, b + 1, 1, 0)
         /\ \A f \in 1..Len(N) : \A b \in 1..Len(N[f]) :
              \A i \in 1..Len(N[f][b]) :
                NoDeadlyBefore(N, f, b, i, Len(N[f][b][i]) + 1)
                  => NoDeadlyBefore(N, f, b, i + 1, 0)
         /\ \A f \in 1..Len(N) : \A b \in 1..Len(N[f]) :
              \A i \in 1..Len(N[f][b]) :
                NoDeadlyBefore(N, f, b, i, 0) => NoDeadlyBefore(N, f, b, i, 1)
         /\ \A f \in 1..Len(N) : \A b \in 1..Len(N[f]) :
              \A i \in 1..Len(N[f][b]) : \A k \in 1..Len(N[f][b][i]) :
                NoDeadlyBefore(N, f, b, i, k) /\ N[f][b][i][k] \notin Consts!Deadly
                  => NoDeadlyBefore(N, f, b, i, k + 1)
<1> DEFINE Is(f1, b1, i1, k1) ==
             /\ f1 \in 1..Len(N) /\ b1 \in 1..Len(N[f1])
             /\ i1 \in 1..Len(N[f1][b1]) /\ k1 \in 1..Len(N[f1][b1][i1])
<1>1. ASSUME NEW f1, NEW b1, NEW i1, NEW k1, Is(f1, b1, i1, k1)
      PROVE  /\ f1 \in Nat /\ b1 \in Nat /\ i1 \in Nat /\ k1 \in Nat
             /\ f1 >= 1 /\ b1 >= 1 /\ i1 >= 1 /\ k1 >= 1
             /\ Len(N[f1]) \in Nat /\ b1 <= Len(N[f1])
             /\ Len(N[f1][b1]) \in Nat /\ i1 <= Len(N[f1][b1])
             /\ Len(N[f1][b1][i1]) \in Nat /\ k1 <= Len(N[f1][b1][i1])
  <2>1. /\ Len(N[f1]) \in Nat /\ Len(N[f1][b1]) \in Nat
        /\ Len(N[f1][b1][i1]) \in Nat
    BY <1>1, ModuleShape, Zenon
  <2>2. QED
    BY <1>1, <2>1
<1>2. NoDeadlyBefore(N, 1, 1, 1, 0)
  <2>1. SUFFICES ASSUME NEW f1, NEW b1, NEW i1, NEW k1, Is(f1, b1, i1, k1)
                 PROVE  ~ Before(f1, b1, i1, k1, 1, 1, 1, 0)
    BY Zenon DEF NoDeadlyBefore
  <2>2. QED
    BY <1>1, <2>1 DEF Before
<1>3. ASSUME NEW f \in 1..Len(N), NoDeadlyBefore(N, f, Len(N[f]) + 1, 1, 0)
      PROVE  NoDeadlyBefore(N, f + 1, 1, 1, 0)
  <2>1. ASSUME NEW f1, NEW b1, NEW i1, NEW k1, Is(f1, b1, i1, k1),
               Before(f1, b1, i1, k1, f + 1, 1, 1, 0)
        PROVE  Before(f1, b1, i1, k1, f, Len(N[f]) + 1, 1, 0)
    BY <1>1, <2>1 DEF Before
  <2>2. QED
    BY <1>3, <2>1, Zenon DEF NoDeadlyBefore
<1>4. ASSUME NEW f \in 1..Len(N), NEW b \in 1..Len(N[f]),
             NoDeadlyBefore(N, f, b, Len(N[f][b]) + 1, 0)
      PROVE  NoDeadlyBefore(N, f, b + 1, 1, 0)
  <2>1. ASSUME NEW f1, NEW b1, NEW i1, NEW k1, Is(f1, b1, i1, k1),
               Before(f1, b1, i1, k1, f, b + 1, 1, 0)
        PROVE  Before(f1, b1, i1, k1, f, b, Len(N[f][b]) + 1, 0)
    BY <1>1, <2>1 DEF Before
  <2>2. QED
    BY <1>4, <2>1, Zenon DEF NoDeadlyBefore
<1>5. ASSUME NEW f \in 1..Len(N), NEW b \in 1..Len(N[f]), NEW i \in 1..Len(N[f][b]),
             NoDeadlyBefore(N, f, b, i, Len(N[f][b][i]) + 1)
      PROVE  NoDeadlyBefore(N, f, b, i + 1, 0)
  <2>1. ASSUME NEW f1, NEW b1, NEW i1, NEW k1, Is(f1, b1, i1, k1),
               Before(f1, b1, i1, k1, f, b, i + 1, 0)
        PROVE  Before(f1, b1, i1, k1, f, b, i, Len(N[f][b][i]) + 1)
    BY <1>1, <2>1 DEF Before
  <2>2. QED
    BY <1>5, <2>1, Zenon DEF NoDeadlyBefore
<1>6. ASSUME NEW f \in 1..Len(N), NEW b \in 1..Len(N[f]), NEW i \in 1..Len(N[f][b]),
             NoDeadlyBefore(N, f, b, i, 0)
      PROVE  NoDeadlyBefore(N, f, b, i, 1)
  <2>1. ASSUME NEW f1, NEW b1, NEW i1, NEW k1, Is(f1, b1, i1, k1),
               Before(f1, b1, i1, k1, f, b, i, 1)
        PROVE  Before(f1, b1, i1, k1, f, b, i, 0)
    BY <1>1, <2>1 DEF Before
  <2>2. QED
    BY <1>6, <2>1, Zenon DEF NoDeadlyBefore
<1>7. ASSUME NEW f \in 1..Len(N), NEW b \in 1..Len(N[f]), NEW i \in 1..Len(N[f][b]),
             NEW k \in 1..Len(N[f][b][i]), NoDeadlyBefore(N, f, b, i, k),
             N[f][b][i][k] \notin Consts!Deadly
      PROVE  NoDeadlyBefore(N, f, b, i, k + 1)
  <2>1. ASSUME NEW f1, NEW b1, NEW i1, NEW k1, Is(f1, b1, i1, k1),
               Before(f1, b1, i1, k1, f, b, i, k + 1)
        PROVE  N[f1][b1][i1][k1] \notin Consts!Deadly
    <3>1. CASE Before(f1, b1, i1, k1, f, b, i, k)
      BY <1>7, <2>1, <3>1, Zenon DEF NoDeadlyBefore
    <3>2. CASE f1 = f /\ b1 = b /\ i1 = i /\ k1 = k
      BY <1>7, <3>2
    <3>3. \/ Before(f1, b1, i1, k1, f, b, i, k)
          \/ f1 = f /\ b1 = b /\ i1 = i /\ k1 = k
      BY <1>1, <2>1 DEF Before
    <3>4. QED
      BY <3>1, <3>2, <3>3
  <2>2. QED
    BY <2>1, Zenon DEF NoDeadlyBefore
<1>8. QED
  BY <1>2, <1>3, <1>4, <1>5, <1>6, <1>7

--------------------------------------------------------------------------------
(* The inductive invariant of DumpConsts.                                  *)
ConstsOK ==
  /\ M \in Modules
  /\ out \in Seq(Pieces)
  /\ IsPlace(M, place[1], place[2], place[3], place[4])
  /\ Continues(WhatOf(out), FlattenSeq(Fns(M)), Said)
  /\ NoDeadlyBefore(M, place[1], place[2], place[3], place[4])
  /\ dumping = "run" =>
       WhatOf(out) = OutAt(M, place[1], place[2], place[3], place[4])
  /\ dumping = "done" => /\ WhatOf(out) = FlattenSeq(Fns(M))
                         /\ place[1] = Len(M) + 1

LEMMA InitConstsOK ==
  ASSUME Consts!DumpInit
  PROVE  ConstsOK
<1>1. /\ M \in Modules /\ dumping = "run" /\ out = <<>>
      /\ place[1] = 1 /\ place[2] = 1 /\ place[3] = 1 /\ place[4] = 0
  BY ModulesAssumption DEF Modules, Consts!DumpInit
<1>2. WhatOf(out) = <<>> /\ out \in Seq(Pieces)
  BY <1>1 DEF WhatOf
<1>3. Continues(<<>>, FlattenSeq(Fns(M)), Said)
  BY <1>1, FnsType, ContinuesFacts
<1>4. /\ IsPlace(M, 1, 1, 1, 0) /\ OutAt(M, 1, 1, 1, 0) = <<>>
      /\ NoDeadlyBefore(M, 1, 1, 1, 0)
  BY <1>1, FirstAndLast, NoDeadlyMoves, Zenon
<1>5. dumping # "done"
  BY <1>1
<1>6. QED
  BY <1>1, <1>2, <1>3, <1>4, <1>5, Zenon DEF ConstsOK

(* To go on to a place is to have printed what is out there.               *)
LEMMA Move ==
  ASSUME ConstsOK, dumping = "run",
         NEW pieces \in Seq(Pieces), NEW f, NEW b, NEW i, NEW k,
         IsPlace(M, f, b, i, k), NoDeadlyBefore(M, f, b, i, k),
         Same(OutAt(M, place[1], place[2], place[3], place[4]) \o WhatOf(pieces),
              OutAt(M, f, b, i, k)),
         Continues(OutAt(M, f, b, i, k), FlattenSeq(Fns(M)), Said),
         Consts!Go(pieces, <<f, b, i, k>>)
  PROVE  ConstsOK'
<1>1. /\ out' = out \o pieces /\ M' = M /\ dumping' = "run"
      /\ place'[1] = f /\ place'[2] = b /\ place'[3] = i /\ place'[4] = k
  BY DEF Consts!Go
<1>2. /\ M \in Modules /\ out \in Seq(Pieces)
      /\ WhatOf(out) = OutAt(M, place[1], place[2], place[3], place[4])
  BY DEF ConstsOK
<1>3. Same(WhatOf(out \o pieces), WhatOf(out) \o WhatOf(pieces))
  BY <1>2, WhatOfConcat, Zenon
<1>4. WhatOf(out') = OutAt(M, f, b, i, k)
  BY <1>1, <1>2, <1>3, Zenon DEF Same
<1>5. out' \in Seq(Pieces)
  BY <1>1, <1>2, ConcatProperties
<1>6. dumping' # "done"
  BY <1>1
<1>7. /\ M' \in Modules
      /\ IsPlace(M', place'[1], place'[2], place'[3], place'[4])
      /\ Continues(WhatOf(out'), FlattenSeq(Fns(M')), Said)
      /\ NoDeadlyBefore(M', place'[1], place'[2], place'[3], place'[4])
      /\ WhatOf(out') = OutAt(M', place'[1], place'[2], place'[3], place'[4])
  BY <1>1, <1>2, <1>4, Zenon
<1>8. QED
  BY <1>5, <1>6, <1>7, Zenon DEF ConstsOK

(* The end of a loop prints nothing.                                       *)
LEMMA Quiet ==
  ASSUME ConstsOK, dumping = "run", NEW f, NEW b, NEW i, NEW k,
         IsPlace(M, f, b, i, k), NoDeadlyBefore(M, f, b, i, k),
         Same(OutAt(M, place[1], place[2], place[3], place[4]),
              OutAt(M, f, b, i, k)),
         Consts!Go(<<>>, <<f, b, i, k>>)
  PROVE  ConstsOK'
<1> DEFINE now == OutAt(M, place[1], place[2], place[3], place[4])
<1>1. /\ WhatOf(out) = now /\ Continues(WhatOf(out), FlattenSeq(Fns(M)), Said)
  BY DEF ConstsOK
<1>2. now \in Seq(Said)
  BY <1>1, Zenon DEF Continues
<1>3. <<>> \in Seq(Pieces) /\ WhatOf(<<>>) = <<>> /\ now \o <<>> = now
  BY <1>2, ConcatEmptySeq DEF WhatOf
<1>4. Continues(OutAt(M, f, b, i, k), FlattenSeq(Fns(M)), Said)
  BY <1>1, Zenon DEF Same
<1>5. Same(now \o WhatOf(<<>>), OutAt(M, f, b, i, k))
  BY <1>3, Zenon DEF Same
<1>6. QED
  BY <1>3, <1>4, <1>5, Move, Zenon

(* Where the iterators are, by the guards of the actions.                  *)
LEMMA PlaceFacts ==
  ASSUME ConstsOK
  PROVE  /\ M \in Modules
         /\ Consts!InFunction =>
              /\ place[1] \in 1..Len(M)
              /\ ~ Consts!InBlock =>
                   place[2] = Len(M[place[1]]) + 1 /\ place[3] = 1 /\ place[4] = 0
         /\ ~ Consts!InFunction =>
              place[1] = Len(M) + 1 /\ place[2] = 1 /\ place[3] = 1 /\ place[4] = 0
         /\ Consts!InBlock =>
              /\ place[1] \in 1..Len(M) /\ place[2] \in 1..Len(M[place[1]])
              /\ ~ Consts!InInstr =>
                   place[3] = Len(M[place[1]][place[2]]) + 1 /\ place[4] = 0
         /\ Consts!InInstr =>
              /\ place[1] \in 1..Len(M) /\ place[2] \in 1..Len(M[place[1]])
              /\ place[3] \in 1..Len(M[place[1]][place[2]])
              /\ place[4] \in 0..Len(M[place[1]][place[2]][place[3]]) + 1
<1> DEFINE f == place[1]
           b == place[2]
           i == place[3]
           k == place[4]
<1>0. M \in Modules /\ IsPlace(M, f, b, i, k) /\ Len(M) \in Nat
  BY ModuleShape, Zenon DEF ConstsOK
<1>1. /\ Consts!InFunction <=> f <= Len(M)
      /\ Consts!InBlock <=> f <= Len(M) /\ b <= Len(M[f])
      /\ Consts!InInstr <=> f <= Len(M) /\ b <= Len(M[f]) /\ i <= Len(M[f][b])
  BY Zenon DEF Consts!InFunction, Consts!InBlock, Consts!InInstr,
               Consts!fn, Consts!bb, Consts!ins
<1> HIDE DEF f, b, i, k
<1>2. ~ (f <= Len(M)) => f = Len(M) + 1 /\ b = 1 /\ i = 1 /\ k = 0
  BY <1>0 DEF IsPlace
<1>3. f <= Len(M) => f \in 1..Len(M)
  BY <1>0 DEF IsPlace
<1>4. ASSUME f <= Len(M)
      PROVE  /\ Len(M[f]) \in Nat /\ b \in 1..Len(M[f]) + 1
             /\ ~ (b <= Len(M[f])) => b = Len(M[f]) + 1 /\ i = 1 /\ k = 0
             /\ b <= Len(M[f]) => b \in 1..Len(M[f])
  <2>1. Len(M[f]) \in Nat
    BY <1>0, <1>3, <1>4, ModuleShape, Zenon
  <2>2. QED
    BY <1>0, <1>3, <1>4, <2>1 DEF IsPlace
<1>5. ASSUME f <= Len(M), b <= Len(M[f])
      PROVE  /\ Len(M[f][b]) \in Nat
             /\ ~ (i <= Len(M[f][b])) => i = Len(M[f][b]) + 1 /\ k = 0
             /\ i <= Len(M[f][b]) => /\ i \in 1..Len(M[f][b])
                                     /\ k \in 0..Len(M[f][b][i]) + 1
  <2>1. f \in 1..Len(M) /\ b \in 1..Len(M[f]) /\ Len(M[f]) \in Nat
    BY <1>3, <1>4, <1>5, Zenon
  <2>2. Len(M[f][b]) \in Nat
    BY <1>0, <2>1, ModuleShape, Zenon
  <2>3. QED
    BY <1>0, <2>1, <2>2 DEF IsPlace
<1>6. QED
  BY <1>0, <1>1, <1>2, <1>3, <1>4, <1>5, Zenon DEF f, b, i, k

LEMMA OperandsAreCounted ==
  ASSUME NEW N \in Modules, NEW f \in 1..Len(N), NEW b \in 1..Len(N[f]),
         NEW i \in 1..Len(N[f][b])
  PROVE  /\ Len(N[f][b][i]) \in Nat
         /\ Same(DOMAIN N[f][b][i], 1..Len(N[f][b][i]))
<1>1. N[f][b] \in Seq(Seq(STRING)) /\ Len(N[f][b][i]) \in Nat
  BY ModuleShape, Zenon
<1>2. N[f][b][i] \in Seq(STRING)
  BY <1>1, ElementOfSeq
<1>3. QED
  BY <1>1, <1>2, LenProperties DEF Same

LEMMA OperandsAreStrings ==
  ASSUME NEW N \in Modules, NEW f \in 1..Len(N), NEW b \in 1..Len(N[f]),
         NEW i \in 1..Len(N[f][b]), NEW k \in 1..Len(N[f][b][i])
  PROVE  N[f][b][i][k] \in STRING
BY ModuleShape, Zenon

(* The next operand, whatever was printed of this one.                     *)
LEMMA OperandMove ==
  ASSUME ConstsOK, dumping = "run", Consts!InOperands,
         NEW pieces \in Seq(Pieces),
         Same(WhatOf(pieces), Consts!OperandLines(Consts!Operand, place[4]))
  PROVE  /\ Continues(WhatOf(out \o pieces), FlattenSeq(Fns(M)), Said)
         /\ Consts!Go(pieces, Consts!NextOperand)
            /\ Consts!Operand \notin Consts!Deadly => ConstsOK'
<1> DEFINE f == place[1]
           b == place[2]
           i == place[3]
           k == place[4]
<1>1. /\ M \in Modules /\ f \in 1..Len(M) /\ b \in 1..Len(M[f])
      /\ i \in 1..Len(M[f][b]) /\ k \in 1..Len(M[f][b][i])
      /\ Consts!Operand = M[f][b][i][k]
      /\ Consts!NextOperand = <<f, b, i, k + 1>>
  BY PlaceFacts, Zenon
     DEF Consts!InOperands, Consts!Operands, Consts!Operand, Consts!NextOperand,
         Consts!fn, Consts!bb, Consts!ins, Consts!op
<1>2. /\ IsPlace(M, f, b, i, k + 1)
      /\ Same(OutAt(M, f, b, i, k) \o Consts!OperandLines(M[f][b][i][k], k),
              OutAt(M, f, b, i, k + 1))
  BY <1>1, AfterOperand, Zenon
<1>3. Same(OutAt(M, f, b, i, k) \o WhatOf(pieces), OutAt(M, f, b, i, k + 1))
  BY <1>1, <1>2, Zenon DEF Same
<1>4. Continues(OutAt(M, f, b, i, k + 1), FlattenSeq(Fns(M)), Said)
  <2>1. Len(M[f][b][i]) \in Nat /\ k \in 1..Len(M[f][b][i])
    BY <1>1, OperandsAreCounted, Zenon
  <2>2. k + 1 \in 1..Len(M[f][b][i]) + 1
    <3> HIDE DEF f, b, i, k
    <3>1. QED
      BY <2>1
  <2>3. QED
    BY <1>1, <2>2, InInstructionContinues, Zenon
<1>5. Continues(WhatOf(out \o pieces), FlattenSeq(Fns(M)), Said)
  <2>1. out \in Seq(Pieces) /\ WhatOf(out) = OutAt(M, f, b, i, k)
    BY DEF ConstsOK
  <2>2. Same(WhatOf(out \o pieces), WhatOf(out) \o WhatOf(pieces))
    BY <2>1, WhatOfConcat, Zenon
  <2>3. QED
    BY <1>3, <1>4, <2>1, <2>2, Zenon DEF Same
<1>6. ASSUME Consts!Go(pieces, Consts!NextOperand),
             Consts!Operand \notin Consts!Deadly
      PROVE  ConstsOK'
  <2>1. NoDeadlyBefore(M, f, b, i, k)
    BY Zenon DEF ConstsOK
  <2>2. NoDeadlyBefore(M, f, b, i, k + 1)
    BY <1>1, <1>6, <2>1, NoDeadlyMoves, Zenon
  <2>3. Consts!Go(pieces, <<f, b, i, k + 1>>)
    BY <1>1, <1>6, Zenon
  <2>4. QED
    BY <1>2, <1>3, <1>4, <2>2, <2>3, Move, Zenon
<1>7. QED
  BY <1>5, <1>6, Zenon

(* What the calls print of an operand.                                     *)
LEMMA PrintedOfOperand ==
  ASSUME ConstsOK, Consts!InOperands
  PROVE  /\ <<>> \in Seq(Pieces)
         /\ <<Consts!Line(<<"CONST", Consts!op - 1>>)>> \in Seq(Pieces)
         /\ <<Consts!Line(<<"CONST", Consts!op - 1>>),
              Consts!Description(Consts!Operand)>> \in Seq(Pieces)
         /\ <<Consts!Line(<<"CONST", Consts!op - 1>>),
              Consts!Piece(<<Consts!Operand>>)>> \in Seq(Pieces)
         /\ Consts!Operand = "local" =>
              Same(WhatOf(<<>>), Consts!OperandLines(Consts!Operand, place[4]))
         /\ Consts!Operand \in {"GlobalValue", "ConstantArray"} \cup Consts!Undescribed =>
              Same(WhatOf(<<Consts!Line(<<"CONST", Consts!op - 1>>)>>),
                   Consts!OperandLines(Consts!Operand, place[4]))
         /\ Consts!Operand \in Consts!Described \cup Consts!Unended =>
              Same(WhatOf(<<Consts!Line(<<"CONST", Consts!op - 1>>),
                            Consts!Description(Consts!Operand)>>),
                   Consts!OperandLines(Consts!Operand, place[4]))
         /\ Consts!Operand \in Consts!Described \cup Consts!Unended =>
              Same(WhatOf(<<Consts!Line(<<"CONST", Consts!op - 1>>),
                            Consts!Piece(<<Consts!Operand>>)>>),
                   Consts!OperandLines(Consts!Operand, place[4]))
         /\ Continues(WhatOf(<<Consts!Line(<<"CONST", Consts!op - 1>>)>>),
                      WhatOf(<<Consts!Line(<<"CONST", Consts!op - 1>>),
                               Consts!Piece(<<Consts!Operand>>)>>), Said)
<1> DEFINE c == Consts!Operand
           x == <<"CONST", place[4] - 1>>
           line == Consts!Line(x)
           more == Consts!Description(c)
           begun == Consts!Piece(<<c>>)
<1>1. Consts!op = place[4]
  BY DEF Consts!op
<1>2. place[4] - 1 \in Nat /\ c \in STRING
  <2>1. /\ M \in Modules /\ place[1] \in 1..Len(M)
        /\ place[2] \in 1..Len(M[place[1]])
        /\ place[3] \in 1..Len(M[place[1]][place[2]])
        /\ place[4] \in 1..Len(M[place[1]][place[2]][place[3]])
        /\ c = M[place[1]][place[2]][place[3]][place[4]]
    BY PlaceFacts, Zenon
       DEF Consts!InOperands, Consts!Operands, Consts!Operand,
           Consts!fn, Consts!bb, Consts!ins, Consts!op
  <2>2. place[4] - 1 \in Nat
    <3>1. PICK n : n = place[4]
      OBVIOUS
    <3>2. n - 1 \in Nat
      BY <2>1, <3>1
    <3>3. QED
      BY <3>1, <3>2
  <2>3. c \in STRING
    BY <2>1, OperandsAreStrings, Zenon
  <2>4. QED
    BY <2>2, <2>3
<1>3. x \in Said /\ <<c>> \in Said
  BY <1>2 DEF Said
<1>4. line \in Pieces /\ line.what = x
  BY <1>3, PiecesAre, Zenon
<1>5. more \in Pieces /\ more.what = <<c>>
  <2>1. /\ Consts!Line(<<c>>) \in Pieces /\ Consts!Line(<<c>>).what = <<c>>
        /\ Consts!Piece(<<c>>) \in Pieces /\ Consts!Piece(<<c>>).what = <<c>>
    BY <1>3, PiecesAre, Zenon
  <2>2. QED
    BY <2>1, Zenon DEF Consts!Description
<1>10. begun \in Pieces /\ begun.what = <<c>>
  BY <1>3, PiecesAre, Zenon
<1> HIDE DEF c, x, line, more, begun
<1>6. /\ <<>> \in Seq(Pieces) /\ <<line>> \in Seq(Pieces)
      /\ <<line, more>> \in Seq(Pieces) /\ <<line, begun>> \in Seq(Pieces)
  BY <1>4, <1>5, <1>10
<1>7. /\ WhatOf(<<>>) = <<>> /\ WhatOf(<<line>>) = <<x>>
      /\ WhatOf(<<line, more>>) = <<x, <<c>>>>
      /\ WhatOf(<<line, begun>>) = <<x, <<c>>>>
  BY <1>4, <1>5, <1>10 DEF WhatOf
<1>11. Continues(<<x>>, <<x, <<c>>>>, Said)
  <2>1. PICK y : y = <<c>>
    OBVIOUS
  <2>2. x \in Said /\ y \in Said
    BY <1>3, <2>1, Zenon
  <2>3. <<x>> \in Seq(Said) /\ <<y>> \in Seq(Said) /\ <<x, y>> = <<x>> \o <<y>>
    BY <2>2
  <2>4. QED
    BY <2>1, <2>3, ContinuesFacts, Zenon
<1>8. /\ c = "local" => Consts!OperandLines(c, place[4]) = <<>>
      /\ c \in {"GlobalValue", "ConstantArray"} \cup Consts!Undescribed =>
           Consts!OperandLines(c, place[4]) = <<x>>
      /\ c \in Consts!Described \cup Consts!Unended =>
           Consts!OperandLines(c, place[4]) = <<x, <<c>>>>
  BY OperandLinesAre, Zenon DEF x
<1>9. QED
  BY <1>1, <1>6, <1>7, <1>8, <1>11, ZenonT(30) DEF Same, c, x, line, more, begun

(* To die with a start of the listing printed.                             *)
LEMMA DieStep ==
  ASSUME ConstsOK, dumping' = "died", M' = M, place' = place,
         out' \in Seq(Pieces), Continues(WhatOf(out'), FlattenSeq(Fns(M)), Said)
  PROVE  ConstsOK'
<1>1. dumping' # "run" /\ dumping' # "done"
  OBVIOUS
<1>2. /\ M' \in Modules
      /\ IsPlace(M', place'[1], place'[2], place'[3], place'[4])
      /\ NoDeadlyBefore(M', place'[1], place'[2], place'[3], place'[4])
      /\ Continues(WhatOf(out'), FlattenSeq(Fns(M')), Said)
  BY Zenon DEF ConstsOK
<1>3. QED
  BY <1>1, <1>2, Zenon DEF ConstsOK

LEMMA ConstsStep ==
  ASSUME ConstsOK, Consts!DumpNext
  PROVE  ConstsOK'
<1> DEFINE f == place[1]
           b == place[2]
           i == place[3]
           k == place[4]
           first == <<Consts!Line(<<"CONST", Consts!op - 1>>)>>
           both == <<Consts!Line(<<"CONST", Consts!op - 1>>),
                     Consts!Description(Consts!Operand)>>
<1>0. M \in Modules /\ NoDeadlyBefore(M, f, b, i, k)
  BY Zenon DEF ConstsOK
<1>1. CASE Consts!Instruction
  <2>1. /\ dumping = "run" /\ Consts!InInstr /\ k = 0
        /\ Consts!Go(<<Consts!Line(<<"INST", f, b, i>>)>>, <<f, b, i, k + 1>>)
    BY <1>1, Zenon DEF Consts!Instruction, Consts!NextOperand,
                       Consts!fn, Consts!bb, Consts!ins, Consts!op
  <2>2. f \in 1..Len(M) /\ b \in 1..Len(M[f]) /\ i \in 1..Len(M[f][b])
    BY <2>1, PlaceFacts, Zenon
  <2>3. k + 1 = 1
    BY <2>1
  <2>4. /\ IsPlace(M, f, b, i, 1)
        /\ Same(OutAt(M, f, b, i, k) \o <<<<"INST", f, b, i>>>>, OutAt(M, f, b, i, 1))
    BY <1>0, <2>1, <2>2, AfterInstruction, Zenon
  <2>5. Continues(OutAt(M, f, b, i, 1), FlattenSeq(Fns(M)), Said)
    <3>1. Len(M[f][b][i]) \in Nat
      BY <1>0, <2>2, OperandsAreCounted, Zenon
    <3>2. 1 \in 1..Len(M[f][b][i]) + 1
      <4> HIDE DEF f, b, i
      <4>1. QED
        BY <3>1
    <3>3. QED
      BY <1>0, <2>2, <3>2, InInstructionContinues, Zenon
  <2>6. NoDeadlyBefore(M, f, b, i, 1)
    BY <1>0, <2>1, <2>2, NoDeadlyMoves, Zenon
  <2>7. /\ <<Consts!Line(<<"INST", f, b, i>>)>> \in Seq(Pieces)
        /\ WhatOf(<<Consts!Line(<<"INST", f, b, i>>)>>) = <<<<"INST", f, b, i>>>>
    <3>1. <<"INST", f, b, i>> \in Said
      BY <1>0, <2>2, OpsType, Zenon
    <3>2. PICK p : p = Consts!Line(<<"INST", f, b, i>>)
      OBVIOUS
    <3>3. PICK x : x = <<"INST", f, b, i>>
      OBVIOUS
    <3>4. p \in Pieces /\ p.what = x
      BY <3>1, <3>2, <3>3, PiecesAre, Zenon
    <3>5. <<p>> \in Seq(Pieces) /\ WhatOf(<<p>>) = <<x>>
      BY <3>4 DEF WhatOf
    <3>6. QED
      BY <3>2, <3>3, <3>5, Zenon
  <2>8. /\ Same(OutAt(M, f, b, i, k)
                  \o WhatOf(<<Consts!Line(<<"INST", f, b, i>>)>>), OutAt(M, f, b, i, 1))
        /\ Consts!Go(<<Consts!Line(<<"INST", f, b, i>>)>>, <<f, b, i, 1>>)
    BY <2>1, <2>3, <2>4, <2>7, Zenon
  <2>9. QED
    BY <2>1, <2>4, <2>5, <2>6, <2>7, <2>8, Move, Zenon
<1>2. CASE Consts!NoConstant
  <2>1. /\ dumping = "run" /\ Consts!InOperands /\ Consts!Operand = "local"
        /\ Consts!Go(<<>>, Consts!NextOperand)
    BY <1>2, Zenon DEF Consts!NoConstant
  <2>2. Consts!Operand \notin Consts!Deadly
    BY <2>1, LocalIsNot
  <2>3. QED
    BY <2>1, <2>2, PrintedOfOperand, OperandMove, Zenon
<1>3. CASE Consts!Global
  <2>1. /\ dumping = "run" /\ Consts!InOperands
        /\ Consts!Operand = "GlobalValue" /\ Consts!Go(first, Consts!NextOperand)
    BY <1>3, Zenon DEF Consts!Global
  <2>2. Consts!Operand \notin Consts!Deadly
        /\ Consts!Operand \in {"GlobalValue", "ConstantArray"} \cup Consts!Undescribed
    BY <2>1, LocalIsNot
  <2>3. QED
    BY <2>1, <2>2, PrintedOfOperand, OperandMove, Zenon
<1>4. CASE Consts!Describe
  <2>1. /\ dumping = "run" /\ Consts!InOperands
        /\ Consts!Operand \in Consts!Described \cup Consts!Unended
        /\ ~ (Asserts /\ Consts!Operand \in Consts!NoPointers)
        /\ Consts!Go(both, Consts!NextOperand)
    BY <1>4, Zenon DEF Consts!Describe
  <2>2. Consts!Operand \notin Consts!Deadly
    BY <2>1, LocalIsNot
  <2>3. QED
    BY <2>1, <2>2, PrintedOfOperand, OperandMove, Zenon
<1>5. CASE Consts!Fatal /\ Consts!Operand \notin Consts!NoPointers
  <2>1. /\ dumping = "run" /\ Consts!InOperands
        /\ Consts!Operand \in {"ConstantArray"} \cup Consts!Undescribed
    <3>1. /\ dumping = "run" /\ Consts!InOperands
          /\ Consts!Operand \in {"ConstantArray"} \cup Consts!Undescribed
                                \cup IF Asserts THEN Consts!NoPointers ELSE {}
      BY <1>5, Zenon DEF Consts!Fatal
    <3>2. QED
      BY <1>5, <3>1
  <2>6. Consts!Begun = {first}
    BY <1>5, Zenon DEF Consts!Begun
  <2>2. /\ first \in Seq(Pieces)
        /\ Same(WhatOf(first), Consts!OperandLines(Consts!Operand, place[4]))
    <3>1. Consts!Operand \in {"GlobalValue", "ConstantArray"} \cup Consts!Undescribed
      BY <2>1
    <3>2. QED
      BY <2>1, <3>1, PrintedOfOperand, Zenon
  <2>3. CASE /\ Consts!Operand \in Consts!Undescribed /\ ~ Asserts
             /\ Consts!Go(first, Consts!NextOperand)
    <3>1. Consts!Operand \notin Consts!Deadly
      BY <2>3, LocalIsNot
    <3>2. QED
      BY <2>1, <2>2, <2>3, <3>1, OperandMove, Zenon
  <2>4. CASE /\ out' = out \o first
             /\ dumping' = "died" /\ M' = M /\ place' = place
    <3>1. out \in Seq(Pieces)
      BY Zenon DEF ConstsOK
    <3>2. out \o first \in Seq(Pieces)
      <4> HIDE DEF first
      <4>1. QED
        BY <2>2, <3>1, ConcatProperties
    <3>3. Continues(WhatOf(out \o first), FlattenSeq(Fns(M)), Said)
      BY <2>1, <2>2, OperandMove, Zenon
    <3>4. QED
      BY <2>4, <3>2, <3>3, DieStep, Zenon
  <2>5. QED
    BY <1>5, <2>3, <2>4, <2>6, Zenon DEF Consts!Fatal
<1>11. CASE Consts!Fatal /\ Consts!Operand \in Consts!NoPointers
  <2> DEFINE begun == <<Consts!Line(<<"CONST", Consts!op - 1>>),
                        Consts!Piece(<<Consts!Operand>>)>>
  <2>1. /\ dumping = "run" /\ Consts!InOperands
        /\ Consts!Operand \in Consts!NoPointers
        /\ out' = out \o first \/ out' = out \o begun
        /\ dumping' = "died" /\ M' = M /\ place' = place
    <3>1. Consts!Operand \notin Consts!Undescribed
      BY <1>11 DEF Consts!NoPointers, Consts!Undescribed
    <3>2. Consts!Begun = {first} \cup {begun}
      BY <1>11, Zenon DEF Consts!Begun
    <3>3. QED
      BY <1>11, <3>1, <3>2, Zenon DEF Consts!Fatal
  <2>2. Consts!Operand \in Consts!Described \cup Consts!Unended
    BY <2>1, LocalIsNot
  <2>3. /\ first \in Seq(Pieces) /\ begun \in Seq(Pieces)
        /\ Same(WhatOf(begun), Consts!OperandLines(Consts!Operand, place[4]))
        /\ Continues(WhatOf(first), WhatOf(begun), Said)
    BY <2>1, <2>2, PrintedOfOperand, Zenon
  <2>4. Continues(WhatOf(out \o begun), FlattenSeq(Fns(M)), Said)
    BY <2>1, <2>3, OperandMove, Zenon
  <2>5. out \in Seq(Pieces) /\ WhatOf(out) \in Seq(Said)
    BY WhatOfType, Zenon DEF ConstsOK
  <2> HIDE DEF first, begun
  <2>6. Continues(WhatOf(out \o first), WhatOf(out \o begun), Said)
    <3>1. /\ WhatOf(out \o first) = WhatOf(out) \o WhatOf(first)
          /\ WhatOf(out \o begun) = WhatOf(out) \o WhatOf(begun)
      BY <2>3, <2>5, WhatOfConcat, Zenon DEF Same
    <3>2. Continues(WhatOf(out) \o WhatOf(first), WhatOf(out) \o WhatOf(begun), Said)
      BY <2>3, <2>5, ContinuesAfter, Zenon
    <3>3. QED
      BY <3>1, <3>2, Zenon
  <2>7. Continues(WhatOf(out \o first), FlattenSeq(Fns(M)), Said)
    BY <2>4, <2>6, ContinuesTransitive, Zenon
  <2>8. out \o first \in Seq(Pieces) /\ out \o begun \in Seq(Pieces)
    BY <2>3, <2>5, ConcatProperties
  <2>9. out' \in Seq(Pieces) /\ Continues(WhatOf(out'), FlattenSeq(Fns(M)), Said)
    BY <2>1, <2>4, <2>7, <2>8, Zenon
  <2>10. QED
    BY <2>1, <2>9, DieStep, Zenon
<1>6. CASE Consts!EndOperands
  <2>1. /\ dumping = "run" /\ Consts!InInstr /\ k > Len(M[f][b][i])
        /\ Consts!Go(<<>>, <<f, b, i + 1, 0>>)
    BY <1>6, Zenon DEF Consts!EndOperands, Consts!Operands,
                       Consts!fn, Consts!bb, Consts!ins, Consts!op
  <2>2. /\ f \in 1..Len(M) /\ b \in 1..Len(M[f]) /\ i \in 1..Len(M[f][b])
        /\ k \in 0..Len(M[f][b][i]) + 1
    BY <2>1, PlaceFacts, Zenon
  <2>3. k = Len(M[f][b][i]) + 1
    <3>1. PICK n : n = Len(M[f][b][i])
      OBVIOUS
    <3>2. n \in Nat
      BY <1>0, <2>2, <3>1, OperandsAreCounted, Zenon
    <3>3. k \in 0..n + 1 /\ k > n
      BY <2>1, <2>2, <3>1, Zenon
    <3> HIDE DEF k
    <3>4. k = n + 1
      BY <3>2, <3>3
    <3>5. QED
      BY <3>1, <3>4, Zenon
  <2>4. /\ IsPlace(M, f, b, i + 1, 0)
        /\ Same(OutAt(M, f, b, i, k), OutAt(M, f, b, i + 1, 0))
    BY <1>0, <2>2, <2>3, AfterOperands, Zenon
  <2>5. NoDeadlyBefore(M, f, b, i + 1, 0)
    BY <1>0, <2>2, <2>3, NoDeadlyMoves, Zenon
  <2>6. QED
    BY <2>1, <2>4, <2>5, Quiet, Zenon
<1>7. CASE Consts!EndBlock
  <2>1. /\ dumping = "run" /\ Consts!InBlock /\ ~ Consts!InInstr
        /\ Consts!Go(<<>>, <<f, b + 1, 1, 0>>)
    BY <1>7, Zenon DEF Consts!EndBlock, Consts!fn, Consts!bb
  <2>2. /\ f \in 1..Len(M) /\ b \in 1..Len(M[f])
        /\ i = Len(M[f][b]) + 1 /\ k = 0
    BY <2>1, PlaceFacts, Zenon
  <2>3. /\ IsPlace(M, f, b + 1, 1, 0)
        /\ Same(OutAt(M, f, b, i, k), OutAt(M, f, b + 1, 1, 0))
    BY <1>0, <2>2, AfterBlock, Zenon
  <2>4. NoDeadlyBefore(M, f, b + 1, 1, 0)
    BY <1>0, <2>2, NoDeadlyMoves, Zenon
  <2>5. QED
    BY <2>1, <2>3, <2>4, Quiet, Zenon
<1>8. CASE Consts!EndFunction
  <2>1. /\ dumping = "run" /\ Consts!InFunction /\ ~ Consts!InBlock
        /\ Consts!Go(<<>>, <<f + 1, 1, 1, 0>>)
    BY <1>8, Zenon DEF Consts!EndFunction, Consts!fn
  <2>2. f \in 1..Len(M) /\ b = Len(M[f]) + 1 /\ i = 1 /\ k = 0
    BY <2>1, PlaceFacts, Zenon
  <2>3. /\ IsPlace(M, f + 1, 1, 1, 0)
        /\ Same(OutAt(M, f, b, i, k), OutAt(M, f + 1, 1, 1, 0))
    BY <1>0, <2>2, AfterFunction, Zenon
  <2>4. NoDeadlyBefore(M, f + 1, 1, 1, 0)
    BY <1>0, <2>2, NoDeadlyMoves, Zenon
  <2>5. QED
    BY <2>1, <2>3, <2>4, Quiet, Zenon
<1>9. CASE Consts!EndModule
  <2>1. /\ dumping = "run" /\ ~ Consts!InFunction /\ dumping' = "done"
        /\ M' = M /\ place' = place /\ out' = out
    BY <1>9, Zenon DEF Consts!EndModule
  <2>2. f = Len(M) + 1 /\ b = 1 /\ i = 1 /\ k = 0
    BY <2>1, PlaceFacts, Zenon
  <2>3. WhatOf(out) = FlattenSeq(Fns(M))
    BY <1>0, <2>1, <2>2, FirstAndLast, Zenon DEF ConstsOK
  <2>4. dumping' # "run"
    BY <2>1
  <2>5. QED
    BY <2>1, <2>2, <2>3, <2>4, Zenon DEF ConstsOK
<1>10. QED
  BY <1>1, <1>2, <1>3, <1>4, <1>5, <1>6, <1>7, <1>8, <1>9, <1>11, Zenon
     DEF Consts!DumpNext

LEMMA ConstsRestStep ==
  ASSUME ConstsOK, UNCHANGED <<M, place, out, dumping>>
  PROVE  ConstsOK'
<1>1. M' = M /\ place' = place /\ out' = out /\ dumping' = dumping
  OBVIOUS
<1>2. QED
  BY <1>1, Zenon DEF ConstsOK

LEMMA ConstsOKListed == ConstsOK => Consts!ConstsListed
<1> SUFFICES ASSUME ConstsOK PROVE Consts!ConstsListed
  OBVIOUS
<1>1. Consts!Whats = WhatOf(out) /\ Consts!Listing = FlattenSeq(Fns(M))
  BY ListingIs DEF Consts!Whats, WhatOf
<1>2. Consts!IsPrefix(Consts!Whats, Consts!Listing)
  <2>1. IsPrefix(WhatOf(out), FlattenSeq(Fns(M)))
    BY ContinuesIsPrefix, Zenon DEF ConstsOK
  <2>2. \A u, v : IsPrefix(u, v) => Consts!IsPrefix(u, v)
    BY DEF IsPrefix, Consts!IsPrefix
  <2>3. QED
    BY <1>1, <2>1, <2>2, Zenon
<1>3. ASSUME dumping = "done"
      PROVE  /\ Consts!Whats = Consts!Listing
             /\ \A f \in DOMAIN M : \A b \in DOMAIN M[f] :
                  \A i \in DOMAIN M[f][b] :
                    Consts!ToSet(M[f][b][i]) \cap Consts!Deadly = {}
  <2>1. /\ M \in Modules /\ place[1] = Len(M) + 1
        /\ NoDeadlyBefore(M, place[1], place[2], place[3], place[4])
        /\ WhatOf(out) = FlattenSeq(Fns(M))
    BY <1>3, Zenon DEF ConstsOK
  <2>2. SUFFICES ASSUME NEW f \in DOMAIN M, NEW b \in DOMAIN M[f],
                        NEW i \in DOMAIN M[f][b], NEW k \in DOMAIN M[f][b][i]
                 PROVE  M[f][b][i][k] \notin Consts!Deadly
    BY <1>1, <2>1 DEF Consts!ToSet
  <2>3. /\ f \in 1..Len(M) /\ b \in 1..Len(M[f]) /\ i \in 1..Len(M[f][b])
        /\ k \in 1..Len(M[f][b][i]) /\ Len(M) \in Nat
    <3>1. DOMAIN M = 1..Len(M) /\ Len(M) \in Nat
      BY <2>1, ModuleShape, Zenon
    <3>2. DOMAIN M[f] = 1..Len(M[f])
      BY <2>1, <3>1, ModuleShape, Zenon
    <3>3. DOMAIN M[f][b] = 1..Len(M[f][b])
      BY <2>1, <3>1, <3>2, ModuleShape, ZenonT(30)
    <3>4. DOMAIN M[f][b][i] = 1..Len(M[f][b][i])
      <4>1. f \in 1..Len(M) /\ b \in 1..Len(M[f]) /\ i \in 1..Len(M[f][b])
        BY <3>1, <3>2, <3>3, Zenon
      <4>2. QED
        <5>1. Same(DOMAIN M[f][b][i], 1..Len(M[f][b][i]))
          BY <2>1, <4>1, OperandsAreCounted, Zenon
        <5>2. QED
          BY <5>1 DEF Same
    <3>5. QED
      BY <3>1, <3>2, <3>3, <3>4, Zenon
  <2>4. f < place[1]
    BY <2>1, <2>3
  <2>5. Before(f, b, i, k, place[1], place[2], place[3], place[4])
    BY <2>4, Zenon DEF Before
  <2>6. QED
    BY <2>1, <2>3, <2>5, Zenon DEF NoDeadlyBefore
<1>4. QED
  BY <1>2, <1>3, Zenon DEF Consts!ConstsListed

LEMMA ConstsAlways == Spec => []ConstsOK
<1>1. Init => ConstsOK
  BY InitConstsOK DEF Init, ConstsRest
<1>2. ASSUME ConstsOK, [Next]_vars PROVE ConstsOK'
  BY <1>2, ConstsStep, ConstsRestStep
     DEF Next, PrintInstKind, PrettyPrintStep, DumpConstsStep, IRDumpStep, Stopped,
         vars, dumpVars
<1>3. QED
  BY <1>1, <1>2, PTL DEF Spec

(* For every module DumpConsts prints the listing of its instructions and  *)
(* constants from the start, nothing twice and nothing left out, up to     *)
(* where a constant ends the process; a module it gets through has no      *)
(* constant array.                                                         *)
THEOREM ConstantsAreListed == Spec => []ConstsListed
<1>1. ConstsOK => ConstsListed
  BY ConstsOKListed DEF ConstsListed
<1>2. QED
  BY <1>1, ConstsAlways, PTL

--------------------------------------------------------------------------------
(* ir_dump.                                                                *)

(* Line e after u gives v.                                                 *)
Adds(u, e, v) == Append(u, e) = v

LEMMA AppendIs ==
  ASSUME NEW T, NEW u \in Seq(T), NEW e \in T
  PROVE  Append(u, e) = u \o <<e>>
<1>1. <<e>> \in Seq(T)
  OBVIOUS
<1>2. /\ u \o <<e>> \in Seq(T) /\ Len(u \o <<e>>) = Len(u) + 1
      /\ \A i \in 1..Len(u) + 1 : (u \o <<e>>)[i] = IF i <= Len(u) THEN u[i] ELSE <<e>>[i - Len(u)]
  BY <1>1, ConcatProperties
<1>3. /\ Append(u, e) \in Seq(T) /\ Len(Append(u, e)) = Len(u) + 1
      /\ \A i \in 1..Len(u) + 1 : Append(u, e)[i] = IF i <= Len(u) THEN u[i] ELSE e
  OBVIOUS
<1>4. \A i \in 1..Len(u) + 1 : Append(u, e)[i] = (u \o <<e>>)[i]
  BY <1>2, <1>3
<1>5. QED
  BY <1>2, <1>3, <1>4, SeqEqual

LEMMA AddsFacts ==
  ASSUME NEW T, NEW u \in Seq(T), NEW e \in T
  PROVE  /\ u \o <<e>> \in Seq(T)
         /\ Adds(u, e, u \o <<e>>)
         /\ \A p \in Seq(T) : \A v : Adds(u, e, v) => Adds(p \o u, e, p \o v)
<1>1. Adds(u, e, u \o <<e>>)
  BY AppendIs DEF Adds
<1>2. <<e>> \in Seq(T) /\ u \o <<e>> \in Seq(T)
  BY ConcatProperties
<1>3. ASSUME NEW p \in Seq(T), NEW v, Adds(u, e, v)
      PROVE  Adds(p \o u, e, p \o v)
  <2>1. v = u \o <<e>>
    BY <1>1, <1>3, Zenon DEF Adds
  <2>2. p \o u \in Seq(T)
    BY ConcatProperties
  <2>3. Append(p \o u, e) = (p \o u) \o <<e>>
    BY <2>2, AppendIs
  <2>4. (p \o u) \o <<e>> = p \o (u \o <<e>>)
    BY <1>2, ConcatAssociative
  <2>5. QED
    BY <2>1, <2>3, <2>4, Zenon DEF Adds
<1>4. QED
  BY <1>1, <1>2, <1>3, Zenon

Text == {<<"globals">>} \cup ({"func", "linkage"} \X Nat)
        \cup ({"param", "block"} \X Nat \X Nat)
        \cup ({"inst", "detail"} \X Nat \X Nat \X Nat)

Funs(D) == [m \in DOMAIN D.funcs |-> Dump!ListFunction(D, m)]
Pars(D, m) == [q \in DOMAIN D.funcs[m].params |-> <<"param", m, q>>]
Opening(D, m) == <<<<"func", m>>>> \o Pars(D, m) \o <<<<"linkage", m>>>>
Blks(D, m) == [n \in DOMAIN D.funcs[m].blocks |-> Dump!ListBlock(D, m, n)]
Insts(D, m, n) ==
  [l \in DOMAIN D.funcs[m].blocks[n] |-> Dump!ListInst(D, m, n, l)]

LEMMA ListInstType ==
  ASSUME NEW D, NEW m \in Nat, NEW n \in Nat, NEW l \in Nat
  PROVE  Dump!ListInst(D, m, n, l) \in Seq(Text)
<1>1. <<<<"inst", m, n, l>>>> \in Seq(Text) /\ <<<<"detail", m, n, l>>>> \in Seq(Text)
  BY DEF Text
<1>2. /\ <<<<"inst", m, n, l>>>> \o <<>> = <<<<"inst", m, n, l>>>>
      /\ <<<<"inst", m, n, l>>>> \o <<<<"detail", m, n, l>>>> \in Seq(Text)
  BY <1>1, ConcatEmptySeq, ConcatProperties
<1>3. QED
  BY <1>1, <1>2 DEF Dump!ListInst

LEMMA SameFlatten == \A s : Dump!FlattenSeq(s) = FlattenSeq(s)
BY DEF FlattenSeq, Dump!FlattenSeq

LEMMA Shapes ==
  ASSUME NEW D, Dump!WellFormed(D)
  PROVE  /\ Len(D.funcs) \in Nat /\ DOMAIN D.funcs = 1..Len(D.funcs)
         /\ \A m \in 1..Len(D.funcs) :
              /\ D.funcs[m].ret \in STRING
              /\ D.funcs[m].params \in Seq(STRING)
              /\ D.funcs[m].blocks \in Seq(Seq(STRING))
              /\ \A n \in 1..Len(D.funcs[m].blocks) :
                   D.funcs[m].blocks[n] \in Seq(STRING)
<1> DEFINE R == [ret : STRING, params : Seq(STRING), blocks : Seq(Seq(STRING))]
<1>1. D.funcs \in Seq(R)
  BY DEF Dump!WellFormed
<1>2. Len(D.funcs) \in Nat /\ DOMAIN D.funcs = 1..Len(D.funcs)
  BY <1>1, LenProperties
<1>3. ASSUME NEW m \in 1..Len(D.funcs)
      PROVE  /\ D.funcs[m].ret \in STRING
             /\ D.funcs[m].params \in Seq(STRING)
             /\ D.funcs[m].blocks \in Seq(Seq(STRING))
             /\ \A n \in 1..Len(D.funcs[m].blocks) :
                  D.funcs[m].blocks[n] \in Seq(STRING)
  <2>1. D.funcs[m] \in R
    BY <1>1, ElementOfSeq
  <2>2. D.funcs[m].blocks \in Seq(Seq(STRING))
    BY <2>1
  <2>3. QED
    BY <2>1, <2>2, ElementOfSeq
<1>4. QED
  BY <1>2, <1>3

(* The lists, a level at a time.                                           *)
LEMMA InstsType ==
  ASSUME NEW D, Dump!WellFormed(D), NEW m \in 1..Len(D.funcs),
         NEW n \in 1..Len(D.funcs[m].blocks)
  PROVE  /\ D.funcs[m].blocks[n] \in Seq(STRING)
         /\ Insts(D, m, n) \in Seq(Seq(Text))
         /\ Len(Insts(D, m, n)) = Len(D.funcs[m].blocks[n])
         /\ \A l \in 1..Len(D.funcs[m].blocks[n]) :
              Insts(D, m, n)[l] = Dump!ListInst(D, m, n, l)
<1>1. D.funcs[m].blocks[n] \in Seq(STRING) /\ m \in Nat /\ n \in Nat
  BY Shapes
<1>2. ASSUME NEW l \in 1..Len(D.funcs[m].blocks[n])
      PROVE  Dump!ListInst(D, m, n, l) \in Seq(Text)
  <2>1. l \in Nat
    OBVIOUS
  <2>2. QED
    BY <1>1, <2>1, ListInstType, Zenon
<1>3. DOMAIN D.funcs[m].blocks[n] = 1..Len(D.funcs[m].blocks[n])
  BY <1>1, LenProperties
<1>4. QED
  BY <1>1, <1>2, <1>3 DEF Insts

LEMMA BlksType ==
  ASSUME NEW D, Dump!WellFormed(D), NEW m \in 1..Len(D.funcs)
  PROVE  /\ D.funcs[m].blocks \in Seq(Seq(STRING))
         /\ Blks(D, m) \in Seq(Seq(Text))
         /\ Len(Blks(D, m)) = Len(D.funcs[m].blocks)
         /\ \A n \in 1..Len(D.funcs[m].blocks) :
              /\ Blks(D, m)[n] = Dump!ListBlock(D, m, n)
              /\ Blks(D, m)[n] = <<<<"block", m, n>>>> \o FlattenSeq(Insts(D, m, n))
<1>1. D.funcs[m].blocks \in Seq(Seq(STRING)) /\ m \in Nat
  BY Shapes
<1>2. ASSUME NEW n \in 1..Len(D.funcs[m].blocks)
      PROVE  /\ Dump!ListBlock(D, m, n) = <<<<"block", m, n>>>> \o FlattenSeq(Insts(D, m, n))
             /\ Dump!ListBlock(D, m, n) \in Seq(Text)
  <2>1. FlattenSeq(Insts(D, m, n)) \in Seq(Text)
    BY InstsType, FlattenType
  <2>2. <<<<"block", m, n>>>> \in Seq(Text)
    BY <1>1 DEF Text
  <2>3. Dump!ListBlock(D, m, n) = <<<<"block", m, n>>>> \o FlattenSeq(Insts(D, m, n))
    BY SameFlatten DEF Dump!ListBlock, Insts
  <2>4. QED
    BY <2>1, <2>2, <2>3, ConcatProperties
<1>3. DOMAIN D.funcs[m].blocks = 1..Len(D.funcs[m].blocks)
  BY <1>1, LenProperties
<1>4. /\ Blks(D, m) \in Seq(Seq(Text))
      /\ Len(Blks(D, m)) = Len(D.funcs[m].blocks)
      /\ \A n \in 1..Len(D.funcs[m].blocks) : Blks(D, m)[n] = Dump!ListBlock(D, m, n)
  <2>1. Len(D.funcs[m].blocks) \in Nat
    BY <1>1, LenProperties
  <2>2. Blks(D, m) = [n \in 1..Len(D.funcs[m].blocks) |-> Dump!ListBlock(D, m, n)]
    BY <1>3 DEF Blks
  <2>3. Blks(D, m) \in [1..Len(D.funcs[m].blocks) -> Seq(Text)]
    BY <1>2, <2>2
  <2>4. \A n \in 1..Len(D.funcs[m].blocks) : Blks(D, m)[n] = Dump!ListBlock(D, m, n)
    BY <2>2
  <2>5. Blks(D, m) \in Seq(Seq(Text)) /\ Len(Blks(D, m)) = Len(D.funcs[m].blocks)
    BY <2>1, <2>3, FunctionIsSeq, Zenon
  <2>6. QED
    BY <2>4, <2>5
<1>5. QED
  BY <1>1, <1>2, <1>4

LEMMA OpeningType ==
  ASSUME NEW D, Dump!WellFormed(D), NEW m \in 1..Len(D.funcs)
  PROVE  /\ D.funcs[m].params \in Seq(STRING) /\ Len(D.funcs[m].params) \in Nat
         /\ Pars(D, m) \in Seq(Text)
         /\ Len(Pars(D, m)) = Len(D.funcs[m].params)
         /\ \A q \in 1..Len(Pars(D, m)) : Pars(D, m)[q] = <<"param", m, q>>
         /\ <<<<"func", m>>>> \in Seq(Text)
         /\ <<<<"func", m>>>> \o Pars(D, m) \in Seq(Text)
         /\ <<"linkage", m>> \in Text
         /\ <<<<"linkage", m>>>> \in Seq(Text)
         /\ Opening(D, m) \in Seq(Text)
<1>1. D.funcs[m].params \in Seq(STRING)
  BY Shapes, Zenon
<1>2. /\ Pars(D, m) \in Seq(Text) /\ Len(Pars(D, m)) = Len(D.funcs[m].params)
      /\ \A q \in 1..Len(Pars(D, m)) : Pars(D, m)[q] = <<"param", m, q>>
  <2>1. \A q \in 1..Len(D.funcs[m].params) : <<"param", m, q>> \in Text
    BY DEF Text
  <2>2. DOMAIN D.funcs[m].params = 1..Len(D.funcs[m].params)
    BY <1>1, LenProperties
  <2>3. QED
    BY <1>1, <2>1, <2>2 DEF Pars
<1>3. <<<<"func", m>>>> \in Seq(Text) /\ <<<<"linkage", m>>>> \in Seq(Text)
      /\ <<"linkage", m>> \in Text
  BY DEF Text
<1>4. Len(D.funcs[m].params) \in Nat
  BY <1>1, LenProperties
<1>5. QED
  BY <1>1, <1>2, <1>3, <1>4, ConcatProperties DEF Opening

LEMMA FunsType ==
  ASSUME NEW D, Dump!WellFormed(D)
  PROVE  /\ Len(D.funcs) \in Nat
         /\ Funs(D) \in Seq(Seq(Text))
         /\ Len(Funs(D)) = Len(D.funcs)
         /\ \A m \in 1..Len(D.funcs) :
              /\ Funs(D)[m] = Dump!ListFunction(D, m)
              /\ Funs(D)[m] = Opening(D, m) \o FlattenSeq(Blks(D, m))
         /\ Dump!Listing(D) = FlattenSeq(Funs(D)) \o <<<<"globals">>>>
<1>1. Len(D.funcs) \in Nat /\ DOMAIN D.funcs = 1..Len(D.funcs)
  BY Shapes
<1>2. ASSUME NEW m \in 1..Len(D.funcs)
      PROVE  /\ Dump!ListFunction(D, m) = Opening(D, m) \o FlattenSeq(Blks(D, m))
             /\ Dump!ListFunction(D, m) \in Seq(Text)
  <2>1. FlattenSeq(Blks(D, m)) \in Seq(Text)
    BY BlksType, FlattenType
  <2>2. Opening(D, m) \in Seq(Text)
    BY OpeningType
  <2>3. Dump!ListFunction(D, m) = Opening(D, m) \o FlattenSeq(Blks(D, m))
    BY SameFlatten DEF Dump!ListFunction, Opening, Pars, Blks
  <2>4. QED
    BY <2>1, <2>2, <2>3, ConcatProperties
<1>3. /\ Funs(D) \in Seq(Seq(Text))
      /\ Len(Funs(D)) = Len(D.funcs)
      /\ \A m \in 1..Len(D.funcs) : Funs(D)[m] = Dump!ListFunction(D, m)
  BY <1>1, <1>2 DEF Funs
<1>4. Dump!Listing(D) = FlattenSeq(Funs(D)) \o <<<<"globals">>>>
  BY SameFlatten DEF Funs, Dump!Listing
<1>5. QED
  BY <1>1, <1>2, <1>3, <1>4

(* What is out at each place of the walk.                                  *)
AtFunc(D, m) == FirstOf(Funs(D), m - 1)
AtParam(D, m, q) ==
  AtFunc(D, m) \o (<<<<"func", m>>>> \o SubSeq(Pars(D, m), 1, q - 1))
AtBlock(D, m, n) == AtFunc(D, m) \o (Opening(D, m) \o FirstOf(Blks(D, m), n - 1))
InBlock(D, m, n, x) ==
  AtFunc(D, m) \o (Opening(D, m) \o (FirstOf(Blks(D, m), n - 1)
                                       \o (<<<<"block", m, n>>>> \o x)))
AtInst(D, m, n, l) == InBlock(D, m, n, FirstOf(Insts(D, m, n), l - 1))
AtDetail(D, m, n, l) ==
  InBlock(D, m, n, FirstOf(Insts(D, m, n), l - 1) \o <<<<"inst", m, n, l>>>>)

LEMMA AtFuncType ==
  ASSUME NEW D, Dump!WellFormed(D), NEW m \in 1..Len(D.funcs) + 1
  PROVE  /\ AtFunc(D, m) \in Seq(Text)
         /\ Continues(AtFunc(D, m), FlattenSeq(Funs(D)), Text)
<1>1. m - 1 \in 0..Len(Funs(D)) /\ Funs(D) \in Seq(Seq(Text))
  BY FunsType
<1>2. QED
  BY <1>1, FirstOfType, FirstOfContinues DEF AtFunc

LEMMA AtFuncs ==
  ASSUME NEW D, Dump!WellFormed(D)
  PROVE  /\ AtFunc(D, 1) = <<>>
         /\ AtFunc(D, Len(D.funcs) + 1) = FlattenSeq(Funs(D))
<1>1. FlattenSeq(Funs(D)) = FirstOf(Funs(D), Len(Funs(D)))
  BY FunsType, FlattenIs
<1>2. (Len(D.funcs) + 1) - 1 = Len(Funs(D)) /\ 1 - 1 = 0
  BY FunsType
<1>3. QED
  BY <1>1, <1>2, FirstOfNone DEF AtFunc

LEMMA AtFirstParam ==
  ASSUME NEW D, Dump!WellFormed(D), NEW m \in 1..Len(D.funcs)
  PROVE  Append(AtFunc(D, m), <<"func", m>>) = AtParam(D, m, 1)
<1>1. AtFunc(D, m) \in Seq(Text)
  BY AtFuncType, FunsType
<1>2. <<"func", m>> \in Text
  BY FunsType DEF Text
<1>3. Adds(AtFunc(D, m), <<"func", m>>, AtFunc(D, m) \o <<<<"func", m>>>>)
  BY <1>1, <1>2, AddsFacts, Zenon
<1>4. SubSeq(Pars(D, m), 1, 1 - 1) = <<>>
  BY SubSeqEmpty
<1>5. <<<<"func", m>>>> \o <<>> = <<<<"func", m>>>>
  BY OpeningType, ConcatEmptySeq
<1>6. QED
  BY <1>3, <1>4, <1>5, Zenon DEF AtParam, Adds

LEMMA ParamsType ==
  ASSUME NEW D, Dump!WellFormed(D), NEW m \in 1..Len(D.funcs),
         NEW q \in 1..Len(D.funcs[m].params) + 1
  PROVE  /\ SubSeq(Pars(D, m), 1, q - 1) \in Seq(Text)
         /\ <<<<"func", m>>>> \o SubSeq(Pars(D, m), 1, q - 1) \in Seq(Text)
<1>1. /\ \A i \in 1..q - 1 : Pars(D, m)[i] \in Text
      /\ q - 1 \in Int
  <2>1. /\ Pars(D, m) \in Seq(Text) /\ Len(Pars(D, m)) = Len(D.funcs[m].params)
        /\ Len(D.funcs[m].params) \in Nat
    BY OpeningType, Zenon
  <2>2. \A i \in 1..q - 1 : i \in 1..Len(Pars(D, m))
    BY <2>1
  <2>3. \A i \in 1..q - 1 : Pars(D, m)[i] \in Text
    BY <2>1, <2>2, ElementOfSeq, Zenon
  <2>4. QED
    BY <2>3
<1>2. SubSeq(Pars(D, m), 1, q - 1) \in Seq(Text)
  BY <1>1, SubSeqProperties
<1>3. QED
  BY <1>2, OpeningType, ConcatProperties

LEMMA AtNextParam ==
  ASSUME NEW D, Dump!WellFormed(D), NEW m \in 1..Len(D.funcs),
         NEW q \in 1..Len(D.funcs[m].params)
  PROVE  Append(AtParam(D, m, q), <<"param", m, q>>) = AtParam(D, m, q + 1)
<1> DEFINE s == SubSeq(Pars(D, m), 1, q - 1)
<1>1. PICK d : d = <<<<"func", m>>>>
  OBVIOUS
<1>2. PICK e : e = <<"param", m, q>>
  OBVIOUS
<1>3. s \in Seq(Text) /\ d \o s \in Seq(Text)
  <2>1. q \in 1..Len(D.funcs[m].params) + 1
    BY OpeningType
  <2>2. QED
    BY <1>1, <2>1, ParamsType
<1>4. AtFunc(D, m) \in Seq(Text) /\ d \in Seq(Text)
  <2>1. m \in 1..Len(D.funcs) + 1
    BY FunsType
  <2>2. QED
    BY <1>1, <2>1, AtFuncType, OpeningType, Zenon
<1>5. Pars(D, m) \in Seq(Text) /\ q \in 1..Len(Pars(D, m)) /\ Pars(D, m)[q] = e
  <2>1. /\ Pars(D, m) \in Seq(Text) /\ Len(Pars(D, m)) = Len(D.funcs[m].params)
        /\ \A i \in 1..Len(Pars(D, m)) : Pars(D, m)[i] = <<"param", m, i>>
    BY OpeningType, Zenon
  <2>2. QED
    BY <1>2, <2>1
<1>6. e \in Text
  BY <1>5, ElementOfSeq
<1>7. SubSeq(Pars(D, m), 1, q) = s \o <<e>>
  <2>1. 1 \in 1..Len(Pars(D, m))
    BY <1>5
  <2>2. QED
    BY <1>5, <2>1, SubSeqRecursiveSecond
<1>8. s \o <<e>> \in Seq(Text)
  BY <1>3, <1>6, ConcatProperties
<1>9. Adds(d \o s, e, d \o (s \o <<e>>))
  <2>1. Adds(s, e, s \o <<e>>)
    BY <1>3, <1>6, AddsFacts, Zenon
  <2>2. QED
    BY <1>3, <1>4, <1>6, <2>1, AddsFacts, Zenon
<1>10. d \o (s \o <<e>>) \in Seq(Text)
  BY <1>4, <1>8, ConcatProperties
<1>11. Adds(AtFunc(D, m) \o (d \o s), e, AtFunc(D, m) \o (d \o (s \o <<e>>)))
  BY <1>3, <1>4, <1>6, <1>9, <1>10, AddsFacts, Zenon
<1>12. (q + 1) - 1 = q
  OBVIOUS
<1>13. AtParam(D, m, q + 1) = AtFunc(D, m) \o (d \o (s \o <<e>>))
  BY <1>1, <1>7, <1>12, Zenon DEF AtParam
<1>14. AtParam(D, m, q) = AtFunc(D, m) \o (d \o s)
  BY <1>1, Zenon DEF AtParam
<1>15. QED
  BY <1>2, <1>11, <1>13, <1>14, Zenon DEF Adds

LEMMA BlksFirst ==
  ASSUME NEW D, Dump!WellFormed(D), NEW m \in 1..Len(D.funcs),
         NEW n \in 1..Len(D.funcs[m].blocks) + 1
  PROVE  FirstOf(Blks(D, m), n - 1) \in Seq(Text)
<1>1. n - 1 \in 0..Len(Blks(D, m)) /\ Blks(D, m) \in Seq(Seq(Text))
  BY BlksType
<1>2. QED
  BY <1>1, FirstOfType

LEMMA AtFirstBlock ==
  ASSUME NEW D, Dump!WellFormed(D), NEW m \in 1..Len(D.funcs)
  PROVE  Append(AtParam(D, m, Len(D.funcs[m].params) + 1), <<"linkage", m>>)
           = AtBlock(D, m, 1)
<1> DEFINE s == <<<<"func", m>>>> \o Pars(D, m)
           e == <<"linkage", m>>
<1>1. s \in Seq(Text) /\ e \in Text /\ Pars(D, m) \in Seq(Text)
      /\ Opening(D, m) \in Seq(Text)
  BY OpeningType, Zenon
<1>2. AtFunc(D, m) \in Seq(Text)
  BY AtFuncType, FunsType
<1>3. Adds(s, e, Opening(D, m))
  <2>1. Adds(s, e, s \o <<e>>)
    BY <1>1, AddsFacts, Zenon
  <2>2. QED
    BY <2>1, Zenon DEF Opening
<1>4. Adds(AtFunc(D, m) \o s, e, AtFunc(D, m) \o Opening(D, m))
  BY <1>1, <1>2, <1>3, AddsFacts, Zenon
<1>5. AtParam(D, m, Len(D.funcs[m].params) + 1) = AtFunc(D, m) \o s
  <2>1. /\ Len(Pars(D, m)) = Len(D.funcs[m].params)
        /\ Len(D.funcs[m].params) \in Nat
    BY OpeningType, Zenon
  <2>2. (Len(D.funcs[m].params) + 1) - 1 = Len(Pars(D, m))
    BY <2>1
  <2>3. SubSeq(Pars(D, m), 1, Len(Pars(D, m))) = Pars(D, m)
    BY <1>1, SubSeqFull
  <2>4. QED
    BY <2>2, <2>3, Zenon DEF AtParam
<1>6. AtBlock(D, m, 1) = AtFunc(D, m) \o Opening(D, m)
  <2>1. FirstOf(Blks(D, m), 1 - 1) = <<>>
    BY FirstOfNone
  <2>2. Opening(D, m) \o <<>> = Opening(D, m)
    BY <1>1, ConcatEmptySeq
  <2>3. QED
    BY <2>1, <2>2, Zenon DEF AtBlock
<1>7. QED
  BY <1>4, <1>5, <1>6, Zenon DEF Adds

LEMMA AtNextFunc ==
  ASSUME NEW D, Dump!WellFormed(D), NEW m \in 1..Len(D.funcs)
  PROVE  AtBlock(D, m, Len(D.funcs[m].blocks) + 1) = AtFunc(D, m + 1)
<1>1. (Len(D.funcs[m].blocks) + 1) - 1 = Len(Blks(D, m))
  BY BlksType
<1>2. FirstOf(Blks(D, m), Len(Blks(D, m))) = FlattenSeq(Blks(D, m))
  BY BlksType, FlattenIs
<1>3. Funs(D)[m] = Opening(D, m) \o FlattenSeq(Blks(D, m))
  BY FunsType
<1>4. FirstOf(Funs(D), m) = FirstOf(Funs(D), m - 1) \o Funs(D)[m]
  <2>1. Funs(D) \in Seq(Seq(Text)) /\ m \in 1..Len(Funs(D))
    BY FunsType
  <2>2. QED
    BY <2>1, FirstOfNext
<1>5. (m + 1) - 1 = m
  OBVIOUS
<1>6. QED
  BY <1>1, <1>2, <1>3, <1>4, <1>5 DEF AtBlock, AtFunc

(* A line added in a block is added to the block.                          *)
LEMMA InBlockAppend ==
  ASSUME NEW D, Dump!WellFormed(D), NEW m \in 1..Len(D.funcs),
         NEW n \in 1..Len(D.funcs[m].blocks), NEW x \in Seq(Text), NEW e \in Text
  PROVE  Append(InBlock(D, m, n, x), e) = InBlock(D, m, n, x \o <<e>>)
<1> DEFINE bl == <<<<"block", m, n>>>>
           fb == FirstOf(Blks(D, m), n - 1)
<1>1. bl \in Seq(Text)
  <2>1. m \in Nat /\ n \in Nat
    BY FunsType
  <2>2. QED
    BY <2>1 DEF Text
<1>2. fb \in Seq(Text)
  <2>1. n \in 1..Len(D.funcs[m].blocks) + 1
    BY BlksType
  <2>2. QED
    BY <2>1, BlksFirst, Zenon
<1>3. Opening(D, m) \in Seq(Text) /\ AtFunc(D, m) \in Seq(Text)
  <2>1. m \in 1..Len(D.funcs) + 1
    BY FunsType
  <2>2. QED
    BY <2>1, OpeningType, AtFuncType, Zenon
<1>4. \A y \in Seq(Text) :
        /\ bl \o y \in Seq(Text)
        /\ fb \o y \in Seq(Text)
        /\ Opening(D, m) \o y \in Seq(Text)
  BY <1>1, <1>2, <1>3, ConcatProperties
<1> DEFINE z == x \o <<e>>
<1>5. z \in Seq(Text) /\ Adds(x, e, z)
  BY AddsFacts, Zenon
<1>6. Adds(bl \o x, e, bl \o z)
  BY <1>1, <1>5, AddsFacts, Zenon
<1>7. Adds(fb \o (bl \o x), e, fb \o (bl \o z))
  BY <1>2, <1>4, <1>5, <1>6, AddsFacts, Zenon
<1>8. Adds(Opening(D, m) \o (fb \o (bl \o x)), e, Opening(D, m) \o (fb \o (bl \o z)))
  BY <1>3, <1>4, <1>5, <1>7, AddsFacts, Zenon
<1>9. Adds(AtFunc(D, m) \o (Opening(D, m) \o (fb \o (bl \o x))), e,
           AtFunc(D, m) \o (Opening(D, m) \o (fb \o (bl \o z))))
  BY <1>3, <1>4, <1>5, <1>8, AddsFacts, Zenon
<1>10. QED
  BY <1>9, Zenon DEF InBlock, Adds

LEMMA InstsFirst ==
  ASSUME NEW D, Dump!WellFormed(D), NEW m \in 1..Len(D.funcs),
         NEW n \in 1..Len(D.funcs[m].blocks),
         NEW l \in 1..Len(D.funcs[m].blocks[n]) + 1
  PROVE  /\ FirstOf(Insts(D, m, n), l - 1) \in Seq(Text)
         /\ \A k \in {"inst", "detail"} : <<k, m, n, l>> \in Text
<1>1. /\ Insts(D, m, n) \in Seq(Seq(Text))
      /\ Len(Insts(D, m, n)) = Len(D.funcs[m].blocks[n])
      /\ D.funcs[m].blocks[n] \in Seq(STRING)
  BY InstsType, Zenon
<1>2. Len(D.funcs[m].blocks[n]) \in Nat
  BY <1>1, LenProperties
<1>3. l - 1 \in 0..Len(Insts(D, m, n)) /\ m \in Nat /\ n \in Nat /\ l \in Nat
  BY <1>1, <1>2, SMTT(30)
<1>4. QED
  BY <1>1, <1>3, FirstOfType DEF Text

LEMMA AtFirstInst ==
  ASSUME NEW D, Dump!WellFormed(D), NEW m \in 1..Len(D.funcs),
         NEW n \in 1..Len(D.funcs[m].blocks)
  PROVE  Append(AtBlock(D, m, n), <<"block", m, n>>) = AtInst(D, m, n, 1)
<1> DEFINE e == <<"block", m, n>>
           fb == FirstOf(Blks(D, m), n - 1)
<1>1. e \in Text /\ <<e>> \in Seq(Text)
  <2>1. m \in Nat /\ n \in Nat
    OBVIOUS
  <2>2. QED
    BY <2>1 DEF Text
<1>2. fb \in Seq(Text)
  <2>1. Len(D.funcs[m].blocks) \in Nat
    BY BlksType, LenProperties
  <2>2. n \in 1..Len(D.funcs[m].blocks) + 1
    BY <2>1
  <2>3. QED
    BY <2>2, BlksFirst, Zenon
<1>3. Opening(D, m) \in Seq(Text) /\ AtFunc(D, m) \in Seq(Text)
  <2>1. m \in 1..Len(D.funcs) + 1
    BY FunsType
  <2>2. QED
    BY <2>1, OpeningType, AtFuncType, Zenon
<1>4. fb \o <<e>> \in Seq(Text)
  BY <1>1, <1>2, ConcatProperties
<1>5. Opening(D, m) \o fb \in Seq(Text) /\ Opening(D, m) \o (fb \o <<e>>) \in Seq(Text)
  BY <1>2, <1>3, <1>4, ConcatProperties
<1>6. Adds(fb, e, fb \o <<e>>)
  BY <1>1, <1>2, AddsFacts, Zenon
<1>7. Adds(Opening(D, m) \o fb, e, Opening(D, m) \o (fb \o <<e>>))
  BY <1>1, <1>2, <1>3, <1>4, <1>6, AddsFacts, Zenon
<1>8. Adds(AtFunc(D, m) \o (Opening(D, m) \o fb), e,
           AtFunc(D, m) \o (Opening(D, m) \o (fb \o <<e>>)))
  BY <1>1, <1>3, <1>5, <1>7, AddsFacts, Zenon
<1>9. AtInst(D, m, n, 1) = AtFunc(D, m) \o (Opening(D, m) \o (fb \o <<e>>))
  <2>1. FirstOf(Insts(D, m, n), 1 - 1) = <<>>
    BY FirstOfNone
  <2>2. <<e>> \o <<>> = <<e>>
    BY <1>1, ConcatEmptySeq
  <2>3. QED
    BY <2>1, <2>2, Zenon DEF AtInst, InBlock
<1>10. QED
  BY <1>8, <1>9, Zenon DEF AtBlock, Adds

LEMMA AtInstDetail ==
  ASSUME NEW D, Dump!WellFormed(D), NEW m \in 1..Len(D.funcs),
         NEW n \in 1..Len(D.funcs[m].blocks),
         NEW l \in 1..Len(D.funcs[m].blocks[n])
  PROVE  Append(AtInst(D, m, n, l), <<"inst", m, n, l>>) = AtDetail(D, m, n, l)
<1>1. l \in 1..Len(D.funcs[m].blocks[n]) + 1
  <2>1. Len(D.funcs[m].blocks[n]) \in Nat
    BY InstsType, LenProperties
  <2>2. QED
    BY <2>1
<1>2. FirstOf(Insts(D, m, n), l - 1) \in Seq(Text) /\ <<"inst", m, n, l>> \in Text
  BY <1>1, InstsFirst
<1>3. QED
  BY <1>2, InBlockAppend DEF AtInst, AtDetail

(* The detail, if there is any, completes what is said of an instruction.  *)
LEMMA AtNextInst ==
  ASSUME NEW D, Dump!WellFormed(D), NEW m \in 1..Len(D.funcs),
         NEW n \in 1..Len(D.funcs[m].blocks),
         NEW l \in 1..Len(D.funcs[m].blocks[n])
  PROVE  IF D.funcs[m].blocks[n][l] \in {"alloca", "gep", "phi", "call",
                                         "indirect", "asm"}
         THEN Append(AtDetail(D, m, n, l), <<"detail", m, n, l>>) = AtInst(D, m, n, l + 1)
         ELSE AtDetail(D, m, n, l) = AtInst(D, m, n, l + 1)
<1> DEFINE Is == Insts(D, m, n)
           i  == <<"inst", m, n, l>>
           d  == <<"detail", m, n, l>>
<1>1. l \in 1..Len(D.funcs[m].blocks[n]) + 1
  <2>1. Len(D.funcs[m].blocks[n]) \in Nat
    BY InstsType, LenProperties
  <2>2. QED
    BY <2>1
<1>2. FirstOf(Is, l - 1) \in Seq(Text) /\ i \in Text /\ d \in Text
  BY <1>1, InstsFirst
<1>3. FirstOf(Is, l) = FirstOf(Is, l - 1) \o Dump!ListInst(D, m, n, l)
  <2>1. /\ Is \in Seq(Seq(Text)) /\ l \in 1..Len(Is)
        /\ Is[l] = Dump!ListInst(D, m, n, l)
    BY InstsType
  <2>2. QED
    BY <2>1, FirstOfNext
<1>4. (l + 1) - 1 = l
  OBVIOUS
<1>5. <<i>> \in Seq(Text) /\ <<d>> \in Seq(Text)
  BY <1>2
<1>6. CASE D.funcs[m].blocks[n][l] \in {"alloca", "gep", "phi", "call", "indirect", "asm"}
  <2>1. Dump!ListInst(D, m, n, l) = <<i>> \o <<d>>
    BY <1>6 DEF Dump!ListInst
  <2>2. FirstOf(Is, l) = (FirstOf(Is, l - 1) \o <<i>>) \o <<d>>
    BY <1>2, <1>3, <1>5, <2>1, ConcatAssociative, SMTT(30)
  <2>3. FirstOf(Is, l - 1) \o <<i>> \in Seq(Text)
    BY <1>2, <1>5, ConcatProperties
  <2>4. Append(AtDetail(D, m, n, l), d)
          = InBlock(D, m, n, (FirstOf(Is, l - 1) \o <<i>>) \o <<d>>)
    BY <1>2, <2>3, InBlockAppend DEF AtDetail
  <2>5. QED
    BY <1>4, <1>6, <2>2, <2>4 DEF AtInst
<1>7. CASE D.funcs[m].blocks[n][l] \notin {"alloca", "gep", "phi", "call", "indirect", "asm"}
  <2>1. Dump!ListInst(D, m, n, l) = <<i>>
    <3>1. <<i>> \o <<>> = <<i>>
      BY <1>5, ConcatEmptySeq
    <3>2. QED
      BY <1>7, <3>1 DEF Dump!ListInst
  <2>2. QED
    BY <1>3, <1>4, <1>7, <2>1 DEF AtInst, AtDetail
<1>8. QED
  BY <1>6, <1>7

LEMMA AtNextBlock ==
  ASSUME NEW D, Dump!WellFormed(D), NEW m \in 1..Len(D.funcs),
         NEW n \in 1..Len(D.funcs[m].blocks)
  PROVE  AtInst(D, m, n, Len(D.funcs[m].blocks[n]) + 1) = AtBlock(D, m, n + 1)
<1>1. Len(D.funcs[m].blocks[n]) \in Nat
  BY InstsType, LenProperties
<1>2. (Len(D.funcs[m].blocks[n]) + 1) - 1 = Len(Insts(D, m, n))
  <2>1. Len(Insts(D, m, n)) = Len(D.funcs[m].blocks[n])
    BY InstsType, Zenon
  <2>2. QED
    BY <1>1, <2>1
<1>3. FirstOf(Insts(D, m, n), Len(Insts(D, m, n))) = FlattenSeq(Insts(D, m, n))
  BY InstsType, FlattenIs
<1>4. FirstOf(Blks(D, m), n) = FirstOf(Blks(D, m), n - 1) \o Blks(D, m)[n]
  <2>1. Blks(D, m) \in Seq(Seq(Text)) /\ n \in 1..Len(Blks(D, m))
    BY BlksType
  <2>2. QED
    BY <2>1, FirstOfNext
<1>5. Blks(D, m)[n] = <<<<"block", m, n>>>> \o FlattenSeq(Insts(D, m, n))
  BY BlksType
<1>6. (n + 1) - 1 = n
  OBVIOUS
<1>7. QED
  BY <1>2, <1>3, <1>4, <1>5, <1>6, Zenon DEF AtInst, InBlock, AtBlock

(* Each of these is a start of the listing.                                *)
LEMMA InFunction ==
  ASSUME NEW D, Dump!WellFormed(D), NEW m \in 1..Len(D.funcs), NEW x,
         Continues(x, Opening(D, m) \o FlattenSeq(Blks(D, m)), Text)
  PROVE  Continues(AtFunc(D, m) \o x, FlattenSeq(Funs(D)), Text)
<1>1. Continues(x, Funs(D)[m], Text)
  BY FunsType
<1>2. Funs(D) \in Seq(Seq(Text)) /\ m \in 1..Len(Funs(D))
  BY FunsType
<1>3. QED
  BY <1>1, <1>2, InTheMiddle, Zenon DEF AtFunc

LEMMA ParamListed ==
  ASSUME NEW D, Dump!WellFormed(D), NEW m \in 1..Len(D.funcs),
         NEW q \in 1..Len(D.funcs[m].params) + 1
  PROVE  Continues(AtParam(D, m, q), FlattenSeq(Funs(D)), Text)
<1> DEFINE d == <<<<"func", m>>>>
           s == SubSeq(Pars(D, m), 1, q - 1)
           t == SubSeq(Pars(D, m), q, Len(D.funcs[m].params))
<1>1. /\ Pars(D, m) \in Seq(Text) /\ d \in Seq(Text)
      /\ Len(Pars(D, m)) = Len(D.funcs[m].params) /\ Len(D.funcs[m].params) \in Nat
      /\ d \o Pars(D, m) \in Seq(Text) /\ <<<<"linkage", m>>>> \in Seq(Text)
      /\ Opening(D, m) \in Seq(Text)
      /\ \A i \in 1..Len(Pars(D, m)) : Pars(D, m)[i] = <<"param", m, i>>
  BY OpeningType, Zenon
<1>2. s \in Seq(Text)
  BY ParamsType, Zenon
<1>3. t \in Seq(Text)
  <2>1. \A i \in q..Len(D.funcs[m].params) : Pars(D, m)[i] \in Text
    BY <1>1, ElementOfSeq
  <2>2. QED
    BY <1>1, <2>1, SubSeqProperties
<1>4. Pars(D, m) = s \o t
  <2>1. /\ 1 \in 1..Len(Pars(D, m)) + 1
        /\ q - 1 \in 1 - 1..Len(Pars(D, m))
        /\ Len(Pars(D, m)) \in q - 1..Len(Pars(D, m))
        /\ (q - 1) + 1 = q
    BY <1>1
  <2>2. SubSeq(Pars(D, m), 1, q - 1) \o SubSeq(Pars(D, m), (q - 1) + 1, Len(Pars(D, m)))
          = SubSeq(Pars(D, m), 1, Len(Pars(D, m)))
    BY <1>1, <2>1, ConcatAdjacentSubSeq
  <2>3. SubSeq(Pars(D, m), 1, Len(Pars(D, m))) = Pars(D, m)
    BY <1>1, SubSeqFull
  <2>4. QED
    BY <1>1, <2>1, <2>2, <2>3
<1>5. Continues(s, Pars(D, m), Text)
  BY <1>2, <1>3, <1>4, Zenon DEF Continues
<1>6. Continues(d \o s, d \o Pars(D, m), Text)
  BY <1>1, <1>5, ContinuesAfter, Zenon
<1>7. Continues(d \o Pars(D, m), Opening(D, m), Text)
  BY <1>1, Zenon DEF Opening, Continues
<1>8. Continues(Opening(D, m), Opening(D, m) \o FlattenSeq(Blks(D, m)), Text)
  BY <1>1, BlksType, FlattenType, ContinuesFacts, Zenon
<1>9. Continues(d \o s, Opening(D, m) \o FlattenSeq(Blks(D, m)), Text)
  BY <1>6, <1>7, <1>8, ContinuesTransitive, Zenon
<1>10. QED
  BY <1>9, InFunction, Zenon DEF AtParam

LEMMA BlockListed ==
  ASSUME NEW D, Dump!WellFormed(D), NEW m \in 1..Len(D.funcs),
         NEW n \in 1..Len(D.funcs[m].blocks) + 1
  PROVE  Continues(AtBlock(D, m, n), FlattenSeq(Funs(D)), Text)
<1>1. Opening(D, m) \in Seq(Text)
  BY OpeningType, Zenon
<1>2. Blks(D, m) \in Seq(Seq(Text)) /\ n - 1 \in 0..Len(Blks(D, m))
  BY BlksType
<1>3. Continues(FirstOf(Blks(D, m), n - 1), FlattenSeq(Blks(D, m)), Text)
  BY <1>2, FirstOfContinues, Zenon
<1>4. QED
  BY <1>1, <1>3, ContinuesAfter, InFunction, Zenon DEF AtBlock

LEMMA InBlockListed ==
  ASSUME NEW D, Dump!WellFormed(D), NEW m \in 1..Len(D.funcs),
         NEW n \in 1..Len(D.funcs[m].blocks), NEW x,
         Continues(x, FlattenSeq(Insts(D, m, n)), Text)
  PROVE  Continues(InBlock(D, m, n, x), FlattenSeq(Funs(D)), Text)
<1> DEFINE b == <<<<"block", m, n>>>>
<1>1. Opening(D, m) \in Seq(Text)
  BY OpeningType, Zenon
<1>2. Blks(D, m) \in Seq(Seq(Text)) /\ n \in 1..Len(Blks(D, m))
  BY BlksType
<1>3. b \in Seq(Text)
  <2>1. m \in Nat /\ n \in Nat
    OBVIOUS
  <2>2. QED
    BY <2>1 DEF Text
<1>4. Continues(b \o x, b \o FlattenSeq(Insts(D, m, n)), Text)
  BY <1>3, ContinuesAfter, Zenon
<1>5. Continues(b \o x, Blks(D, m)[n], Text)
  <2>1. Blks(D, m)[n] = b \o FlattenSeq(Insts(D, m, n))
    BY BlksType, Zenon
  <2>2. QED
    BY <1>4, <2>1, Zenon
<1>6. Continues(FirstOf(Blks(D, m), n - 1) \o (b \o x), FlattenSeq(Blks(D, m)), Text)
  BY <1>2, <1>5, InTheMiddle, Zenon
<1>7. QED
  BY <1>1, <1>6, ContinuesAfter, InFunction, Zenon DEF InBlock

LEMMA InstListed ==
  ASSUME NEW D, Dump!WellFormed(D), NEW m \in 1..Len(D.funcs),
         NEW n \in 1..Len(D.funcs[m].blocks),
         NEW l \in 1..Len(D.funcs[m].blocks[n]) + 1
  PROVE  Continues(AtInst(D, m, n, l), FlattenSeq(Funs(D)), Text)
<1>1. /\ Insts(D, m, n) \in Seq(Seq(Text))
      /\ Len(Insts(D, m, n)) = Len(D.funcs[m].blocks[n])
      /\ D.funcs[m].blocks[n] \in Seq(STRING)
  BY InstsType, Zenon
<1>2. l - 1 \in 0..Len(Insts(D, m, n))
  <2>1. Len(D.funcs[m].blocks[n]) \in Nat
    BY <1>1, LenProperties
  <2>2. QED
    BY <1>1, <2>1
<1>3. QED
  BY <1>1, <1>2, FirstOfContinues, InBlockListed, Zenon DEF AtInst

LEMMA DetailListed ==
  ASSUME NEW D, Dump!WellFormed(D), NEW m \in 1..Len(D.funcs),
         NEW n \in 1..Len(D.funcs[m].blocks),
         NEW l \in 1..Len(D.funcs[m].blocks[n])
  PROVE  Continues(AtDetail(D, m, n, l), FlattenSeq(Funs(D)), Text)
<1> DEFINE i == <<<<"inst", m, n, l>>>>
           d == <<<<"detail", m, n, l>>>>
<1>1. /\ Insts(D, m, n) \in Seq(Seq(Text))
      /\ Len(Insts(D, m, n)) = Len(D.funcs[m].blocks[n])
      /\ Insts(D, m, n)[l] = Dump!ListInst(D, m, n, l)
  BY InstsType, Zenon
<1>2. m \in Nat /\ n \in Nat /\ l \in Nat
  OBVIOUS
<1>3. i \in Seq(Text) /\ d \in Seq(Text)
  BY <1>2 DEF Text
<1>4. Dump!ListInst(D, m, n, l) = i \o d \/ Dump!ListInst(D, m, n, l) = i
  <2>1. i \o <<>> = i
    BY <1>3, ConcatEmptySeq
  <2>2. QED
    BY <2>1 DEF Dump!ListInst
<1>5. Continues(i, i \o d, Text) /\ Continues(i, i, Text)
  BY <1>3, ContinuesFacts, Zenon
<1>6. Continues(i, Insts(D, m, n)[l], Text)
  BY <1>1, <1>4, <1>5, Zenon
<1>7. l \in 1..Len(Insts(D, m, n))
  BY <1>1
<1>8. QED
  BY <1>1, <1>6, <1>7, InTheMiddle, InBlockListed, Zenon DEF AtDetail

(* The invariant of the walk.                                              *)
Where ==
  LET D == input IN
  /\ D \in Inputs
  /\ Dump!WellFormed(D)
  /\ pc \in {"main", "func", "params", "blocks", "insts", "detail", "over"}
  /\ pc # "over" <=> status = "running"
  /\ pc \notin {"main", "over"} => Dump!Parsed
  /\ pc \in {"main", "func"} => blk = 1 /\ ins = 1 /\ par = 1
  /\ pc = "params" => blk = 1 /\ ins = 1
  /\ pc \in {"blocks"} => ins = 1 /\ par = 1
  /\ pc \in {"insts", "detail"} => par = 1
  /\ pc = "main" => fun = 1 /\ lines = <<>>
  /\ pc = "func" => fun \in 1..Len(D.funcs) + 1 /\ lines = AtFunc(D, fun)
  /\ pc = "params" => /\ fun \in 1..Len(D.funcs)
                      /\ par \in 1..Len(D.funcs[fun].params) + 1
                      /\ lines = AtParam(D, fun, par)
  /\ pc = "blocks" => /\ fun \in 1..Len(D.funcs)
                      /\ blk \in 1..Len(D.funcs[fun].blocks) + 1
                      /\ lines = AtBlock(D, fun, blk)
  /\ pc = "insts" => /\ fun \in 1..Len(D.funcs)
                     /\ blk \in 1..Len(D.funcs[fun].blocks)
                     /\ ins \in 1..Len(D.funcs[fun].blocks[blk]) + 1
                     /\ lines = AtInst(D, fun, blk, ins)
  /\ pc = "detail" => /\ fun \in 1..Len(D.funcs)
                      /\ blk \in 1..Len(D.funcs[fun].blocks)
                      /\ ins \in 1..Len(D.funcs[fun].blocks[blk])
                      /\ lines = AtDetail(D, fun, blk, ins)
  /\ pc = "over" =>
       \/ status = "1" /\ ~ Dump!Parsed
       \/ status = "0" /\ Dump!Parsed /\ lines = Dump!Listing(D)
       \/ /\ status = "abort" /\ Dump!Parsed /\ ~ Dump!Harmless(D)
          /\ Continues(lines, FlattenSeq(Funs(D)), Text)

LEMMA WhereInit ==
  ASSUME Dump!Init
  PROVE  Where
BY InputsAssumption DEF Dump!Init, Where

LEMMA WhereNext ==
  ASSUME Where, [Dump!Next]_(Dump!vars)
  PROVE  Where'
<1>1. CASE Dump!Refuse
  BY <1>1 DEF Dump!Refuse, Where, Dump!Exit, Dump!Parsed
<1>2. CASE Dump!RunPass
  <2>1. AtFunc(input, 1) = <<>> /\ Len(input.funcs) \in Nat
    BY AtFuncs, FunsType DEF Where
  <2>2. QED
    BY <1>2, <2>1 DEF Dump!RunPass, Where, Dump!Goto, Dump!Parsed
<1>3. CASE Dump!BeginFunction
  <2>1. fun \in 1..Len(input.funcs)
    BY <1>3, FunsType DEF Dump!BeginFunction, Where
  <2>2. lines' = AtParam(input, fun, 1)
    BY <1>3, <2>1, AtFirstParam DEF Dump!BeginFunction, Dump!PrintLine, Where
  <2>3. Len(input.funcs[fun].params) \in Nat
    BY <2>1, OpeningType DEF Where
  <2>4. 1 \in 1..Len(input.funcs[fun].params) + 1
    BY <2>3
  <2>5. CASE input.funcs[fun].ret \in Dump!KnownTypes
    BY <1>3, <2>1, <2>2, <2>4, <2>5 DEF Dump!BeginFunction, Where, Dump!Goto, Dump!F, Dump!Parsed
  <2>6. CASE input.funcs[fun].ret \notin Dump!KnownTypes
    <3>1. Continues(lines', FlattenSeq(Funs(input)), Text)
      BY <2>1, <2>2, <2>4, ParamListed DEF Where
    <3>2. ~ Dump!Harmless(input)
      BY <2>1, <2>6, FunsType, Shapes DEF Dump!Harmless, Where
    <3>3. QED
      BY <1>3, <2>6, <3>1, <3>2 DEF Dump!BeginFunction, Where, Dump!Exit, Dump!F, Dump!Parsed
  <2>7. QED
    BY <2>5, <2>6
<1>4. CASE Dump!Parameter
  <2>1. fun \in 1..Len(input.funcs) /\ Len(input.funcs[fun].params) \in Nat
    BY <1>4, OpeningType DEF Dump!Parameter, Where
  <2>2. par \in 1..Len(input.funcs[fun].params) /\ lines = AtParam(input, fun, par)
    BY <1>4, <2>1 DEF Dump!Parameter, Where, Dump!F
  <2>3. lines' = AtParam(input, fun, par + 1)
    BY <1>4, <2>1, <2>2, AtNextParam DEF Dump!Parameter, Dump!PrintLine, Where
  <2>4. par + 1 \in 1..Len(input.funcs[fun].params) + 1
    BY <2>1, <2>2
  <2>5. CASE input.funcs[fun].params[par] \in Dump!KnownTypes
    BY <1>4, <2>1, <2>3, <2>4, <2>5 DEF Dump!Parameter, Where, Dump!F, Dump!Parsed
  <2>6. CASE input.funcs[fun].params[par] \notin Dump!KnownTypes
    <3>1. Continues(lines', FlattenSeq(Funs(input)), Text)
      BY <2>1, <2>3, <2>4, ParamListed DEF Where
    <3>2. ~ Dump!Harmless(input)
      <4>1. input.funcs[fun].params[par] \in Dump!ToSet(input.funcs[fun].params)
        BY <2>1, <2>2, OpeningType, LenProperties DEF Dump!ToSet, Where
      <4>2. fun \in DOMAIN input.funcs
        BY <2>1, Shapes DEF Where
      <4>3. QED
        BY <2>6, <4>1, <4>2 DEF Dump!Harmless
    <3>3. QED
      BY <1>4, <2>6, <3>1, <3>2 DEF Dump!Parameter, Where, Dump!Exit, Dump!F, Dump!Parsed
  <2>7. QED
    BY <2>5, <2>6
<1>5. CASE Dump!Linkage
  <2>1. fun \in 1..Len(input.funcs) /\ Len(input.funcs[fun].params) \in Nat
    BY <1>5, OpeningType DEF Dump!Linkage, Where
  <2>2. par = Len(input.funcs[fun].params) + 1 /\ lines = AtParam(input, fun, par)
    BY <1>5, <2>1 DEF Dump!Linkage, Where, Dump!F
  <2>3. lines' = AtBlock(input, fun, 1)
    BY <1>5, <2>1, <2>2, AtFirstBlock DEF Dump!Linkage, Dump!PrintLine, Where
  <2>4. 1 \in 1..Len(input.funcs[fun].blocks) + 1
    <3>1. Len(input.funcs[fun].blocks) \in Nat
      BY <2>1, BlksType, LenProperties DEF Where
    <3>2. QED
      BY <3>1
  <2>5. QED
    BY <1>5, <2>1, <2>3, <2>4 DEF Dump!Linkage, Where, Dump!Goto, Dump!Parsed
<1>6. CASE Dump!EndFunction
  <2>1. fun \in 1..Len(input.funcs) /\ Len(input.funcs[fun].blocks) \in Nat
    BY <1>6, BlksType, LenProperties DEF Dump!EndFunction, Where
  <2>2. blk = Len(input.funcs[fun].blocks) + 1 /\ lines = AtBlock(input, fun, blk)
    BY <1>6, <2>1 DEF Dump!EndFunction, Where, Dump!F
  <2>3. lines' = AtFunc(input, fun + 1)
    BY <1>6, <2>1, <2>2, AtNextFunc DEF Dump!EndFunction, Where
  <2>4. fun + 1 \in 1..Len(input.funcs) + 1
    BY <2>1, FunsType DEF Where
  <2>5. QED
    BY <1>6, <2>3, <2>4 DEF Dump!EndFunction, Where, Dump!Goto, Dump!Parsed
<1>7. CASE Dump!BeginBlock
  <2>1. fun \in 1..Len(input.funcs) /\ Len(input.funcs[fun].blocks) \in Nat
    BY <1>7, BlksType, LenProperties DEF Dump!BeginBlock, Where
  <2>2. blk \in 1..Len(input.funcs[fun].blocks) /\ lines = AtBlock(input, fun, blk)
    BY <1>7, <2>1 DEF Dump!BeginBlock, Where, Dump!F
  <2>3. lines' = AtInst(input, fun, blk, 1)
    BY <1>7, <2>1, <2>2, AtFirstInst DEF Dump!BeginBlock, Dump!PrintLine, Where
  <2>4. 1 \in 1..Len(input.funcs[fun].blocks[blk]) + 1
    <3>1. Len(input.funcs[fun].blocks[blk]) \in Nat
      BY <2>1, <2>2, InstsType, LenProperties DEF Where
    <3>2. QED
      BY <3>1, SMTT(30)
  <2>5. QED
    BY <1>7, <2>1, <2>2, <2>3, <2>4 DEF Dump!BeginBlock, Where, Dump!Goto, Dump!Parsed
<1>8. CASE Dump!EndBlock
  <2>1. fun \in 1..Len(input.funcs) /\ blk \in 1..Len(input.funcs[fun].blocks)
    BY <1>8 DEF Dump!EndBlock, Where
  <2>2. Len(input.funcs[fun].blocks[blk]) \in Nat /\ Len(input.funcs[fun].blocks) \in Nat
    BY <2>1, InstsType, BlksType, LenProperties DEF Where
  <2>3. ins = Len(input.funcs[fun].blocks[blk]) + 1 /\ lines = AtInst(input, fun, blk, ins)
    <3>1. PICK n : n = Len(input.funcs[fun].blocks[blk])
      OBVIOUS
    <3>2. pc = "insts" /\ ins > n
      BY <1>8, <3>1, Zenon DEF Dump!EndBlock, Dump!B, Dump!F
    <3>3. ins \in 1..n + 1 /\ lines = AtInst(input, fun, blk, ins)
      BY <3>1, <3>2, Zenon DEF Where
    <3>4. n \in Nat
      BY <2>2, <3>1
    <3>5. ins = n + 1
      BY <3>2, <3>3, <3>4
    <3>6. QED
      BY <3>1, <3>3, <3>5, Zenon
  <2>4. lines' = AtBlock(input, fun, blk + 1)
    BY <1>8, <2>1, <2>3, AtNextBlock DEF Dump!EndBlock, Where
  <2>5. blk + 1 \in 1..Len(input.funcs[fun].blocks) + 1
    BY <2>1, <2>2
  <2>6. QED
    BY <1>8, <2>1, <2>4, <2>5 DEF Dump!EndBlock, Where, Dump!Goto, Dump!Parsed
<1>9. CASE Dump!Instruction
  <2>1. fun \in 1..Len(input.funcs) /\ blk \in 1..Len(input.funcs[fun].blocks)
    BY <1>9 DEF Dump!Instruction, Where
  <2>2. Len(input.funcs[fun].blocks[blk]) \in Nat
    BY <2>1, InstsType, LenProperties DEF Where
  <2>3. ins \in 1..Len(input.funcs[fun].blocks[blk]) /\ lines = AtInst(input, fun, blk, ins)
    <3>1. PICK n : n = Len(input.funcs[fun].blocks[blk])
      OBVIOUS
    <3>2. pc = "insts" /\ ins <= n
      BY <1>9, <3>1, Zenon DEF Dump!Instruction, Dump!B, Dump!F
    <3>3. ins \in 1..n + 1 /\ lines = AtInst(input, fun, blk, ins)
      BY <3>1, <3>2, Zenon DEF Where
    <3>4. n \in Nat
      BY <2>2, <3>1
    <3>5. ins \in 1..n
      BY <3>2, <3>3, <3>4
    <3>6. QED
      BY <3>1, <3>3, <3>5, Zenon
  <2>4. lines' = AtDetail(input, fun, blk, ins)
    BY <1>9, <2>1, <2>3, AtInstDetail DEF Dump!Instruction, Dump!PrintLine, Where
  <2>5. QED
    BY <1>9, <2>1, <2>3, <2>4 DEF Dump!Instruction, Where, Dump!Goto, Dump!Parsed
<1> DEFINE Detailed == {"alloca", "gep", "phi", "call", "indirect", "asm"}
<1>10. ASSUME pc = "detail"
       PROVE  /\ fun \in 1..Len(input.funcs) /\ blk \in 1..Len(input.funcs[fun].blocks)
              /\ ins \in 1..Len(input.funcs[fun].blocks[blk])
              /\ ins + 1 \in 1..Len(input.funcs[fun].blocks[blk]) + 1
              /\ lines = AtDetail(input, fun, blk, ins)
              /\ Dump!I = input.funcs[fun].blocks[blk][ins]
              /\ IF Dump!I \in Detailed
                 THEN Append(lines, <<"detail", fun, blk, ins>>) = AtInst(input, fun, blk, ins + 1)
                 ELSE lines = AtInst(input, fun, blk, ins + 1)
              /\ Continues(lines, FlattenSeq(Funs(input)), Text)
              /\ Dump!I \in {"gep", "phi", "indirect", "asm"} => ~ Dump!Harmless(input)
  <2>1. /\ fun \in 1..Len(input.funcs) /\ blk \in 1..Len(input.funcs[fun].blocks)
        /\ ins \in 1..Len(input.funcs[fun].blocks[blk])
        /\ lines = AtDetail(input, fun, blk, ins)
    BY <1>10 DEF Where
  <2>2. Len(input.funcs[fun].blocks[blk]) \in Nat
    BY <2>1, InstsType, LenProperties DEF Where
  <2>3. ins + 1 \in 1..Len(input.funcs[fun].blocks[blk]) + 1
    BY <2>1, <2>2
  <2>4. Dump!I = input.funcs[fun].blocks[blk][ins]
    BY DEF Dump!I, Dump!B, Dump!F
  <2>5. IF Dump!I \in Detailed
        THEN Append(lines, <<"detail", fun, blk, ins>>) = AtInst(input, fun, blk, ins + 1)
        ELSE lines = AtInst(input, fun, blk, ins + 1)
    BY <2>1, <2>4, AtNextInst DEF Where
  <2>6. Continues(lines, FlattenSeq(Funs(input)), Text)
    BY <2>1, DetailListed DEF Where
  <2>7. ASSUME Dump!I \in {"gep", "phi", "indirect", "asm"}
        PROVE  ~ Dump!Harmless(input)
    <3>1. /\ fun \in DOMAIN input.funcs /\ blk \in DOMAIN input.funcs[fun].blocks
          /\ ins \in DOMAIN input.funcs[fun].blocks[blk]
      BY <2>1, Shapes, LenProperties DEF Where
    <3>2. Dump!I \in Dump!ToSet(input.funcs[fun].blocks[blk])
      BY <2>4, <3>1 DEF Dump!ToSet
    <3>3. QED
      BY <2>7, <3>1, <3>2 DEF Dump!Harmless
  <2>8. QED
    BY <2>1, <2>3, <2>4, <2>5, <2>6, <2>7
<1>11. CASE Dump!NoDetail
  <2>1. lines' = AtInst(input, fun, blk, ins + 1)
    BY <1>10, <1>11 DEF Dump!NoDetail
  <2>2. QED
    BY <1>10, <1>11, <2>1 DEF Dump!NoDetail, Dump!NextInstruction, Dump!Goto, Where, Dump!Parsed
<1>12. CASE Dump!Alloca
  <2>1. lines' = AtInst(input, fun, blk, ins + 1)
    BY <1>10, <1>12 DEF Dump!Alloca, Dump!PrintLine
  <2>2. QED
    BY <1>10, <1>12, <2>1 DEF Dump!Alloca, Dump!NextInstruction, Dump!Goto, Where, Dump!Parsed
<1>13. CASE Dump!ValueString
  <2>1. "Instruction" \notin Dump!KnownValues
    BY DEF Dump!KnownValues
  <2>2. /\ pc = "detail" /\ ~ Dump!Harmless(input)
        /\ Continues(lines, FlattenSeq(Funs(input)), Text)
    BY <1>10, <1>13 DEF Dump!ValueString
  <2>3. QED
    BY <1>13, <2>1, <2>2 DEF Dump!ValueString, Dump!Exit, Where, Dump!Parsed
<1>14. CASE Dump!Call
  <2>1. CASE Dump!CalledFunction = "null"
    <3>1. Dump!I \in {"indirect", "asm"}
      BY <1>14, <2>1 DEF Dump!Call, Dump!CalledFunction
    <3>2. /\ pc = "detail" /\ ~ Dump!Harmless(input)
          /\ Continues(lines, FlattenSeq(Funs(input)), Text)
      BY <1>10, <1>14, <3>1 DEF Dump!Call
    <3>3. QED
      BY <1>14, <2>1, <3>2 DEF Dump!Call, Dump!Exit, Where, Dump!Parsed
  <2>2. CASE Dump!CalledFunction # "null"
    <3>1. lines' = AtInst(input, fun, blk, ins + 1)
      BY <1>10, <1>14, <2>2 DEF Dump!Call, Dump!PrintLine
    <3>2. QED
      BY <1>10, <1>14, <2>2, <3>1
         DEF Dump!Call, Dump!NextInstruction, Dump!Goto, Where, Dump!Parsed
  <2>3. QED
    BY <2>1, <2>2
<1>15. CASE Dump!Globals
  <2>1. fun = Len(input.funcs) + 1 /\ lines = AtFunc(input, fun)
    BY <1>15, FunsType DEF Dump!Globals, Where
  <2>2. lines = FlattenSeq(Funs(input)) /\ lines \in Seq(Text)
    BY <2>1, AtFuncs, FunsType, FlattenType DEF Where
  <2>3. Append(lines, <<"globals">>) = lines \o <<<<"globals">>>>
    <3>1. <<"globals">> \in Text
      BY DEF Text
    <3>2. QED
      BY <2>2, <3>1, AppendIs
  <2>4. lines' = Dump!Listing(input)
    BY <1>15, <2>2, <2>3, FunsType DEF Dump!Globals, Dump!PrintLine, Where
  <2>5. QED
    BY <1>15, <2>4 DEF Dump!Globals, Dump!Exit, Where, Dump!Parsed
<1>16. CASE UNCHANGED Dump!vars
  BY <1>16 DEF Dump!vars, Where, Dump!Parsed
<1>17. QED
  BY <1>1, <1>2, <1>3, <1>4, <1>5, <1>6, <1>7, <1>8, <1>9, <1>11, <1>12, <1>13,
     <1>14, <1>15, <1>16 DEF Dump!Next, Dump!Over

LEMMA WhereAlways == Spec => []Where
<1>1. Init => Where
  BY WhereInit DEF Init, ToolRests
<1>2. ASSUME Where, [Next]_vars PROVE Where'
  <2>1. CASE IRDumpStep
    BY <1>2, <2>1, WhereNext DEF IRDumpStep
  <2>2. CASE UNCHANGED toolVars
    BY <1>2, <2>2, WhereNext DEF toolVars, Dump!vars
  <2>3. QED
    BY <1>2, <2>1, <2>2
       DEF Next, PrintInstKind, PrettyPrintStep, DumpConstsStep, Stopped, vars
<1>3. QED
  BY <1>1, <1>2, PTL DEF Spec

LEMMA SamePrefix == \A s, t : Dump!IsPrefix(s, t) <=> IsPrefix(s, t)
BY DEF IsPrefix, Dump!IsPrefix

(* At every place of the walk the output is a start of what is said of the *)
(* functions, or the whole listing.                                        *)
LEMMA OutputSoFar ==
  ASSUME Where, Dump!Parsed
  PROVE  \/ Continues(lines, FlattenSeq(Funs(input)), Text)
         \/ pc = "over" /\ status = "0" /\ lines = Dump!Listing(input)
<1>1. CASE pc = "main"
  <2>1. FlattenSeq(Funs(input)) \in Seq(Text)
    BY FunsType, FlattenType DEF Where
  <2>2. QED
    BY <1>1, <2>1, ContinuesFacts DEF Where
<1>2. CASE pc = "func"
  BY <1>2, AtFuncType DEF Where
<1>3. CASE pc = "params"
  BY <1>3, ParamListed DEF Where
<1>4. CASE pc = "blocks"
  BY <1>4, BlockListed DEF Where
<1>5. CASE pc = "insts"
  BY <1>5, InstListed DEF Where
<1>6. CASE pc = "detail"
  BY <1>6, DetailListed DEF Where
<1>7. CASE pc = "over"
  BY <1>7 DEF Where
<1>8. QED
  BY <1>1, <1>2, <1>3, <1>4, <1>5, <1>6, <1>7 DEF Where

(* Whatever the module, what ir_dump has printed is at every moment the    *)
(* start of the listing, also when it dies half way: no line twice, none   *)
(* skipped, none out of its place.                                         *)
THEOREM DumpIsPrefix == Spec => []OutputIsPrefix
<1>1. Where => OutputIsPrefix
  <2> SUFFICES ASSUME Where, Dump!Parsed
               PROVE  IsPrefix(lines, Dump!Listing(input))
    BY SamePrefix DEF OutputIsPrefix, Dump!OutputIsPrefix
  <2>1. /\ FlattenSeq(Funs(input)) \in Seq(Text)
        /\ Dump!Listing(input) = FlattenSeq(Funs(input)) \o <<<<"globals">>>>
    BY FunsType, FlattenType DEF Where
  <2>2. <<<<"globals">>>> \in Seq(Text)
    BY DEF Text
  <2>3. Dump!Listing(input) \in Seq(Text)
    BY <2>1, <2>2, ConcatProperties
  <2>4. Continues(FlattenSeq(Funs(input)), Dump!Listing(input), Text)
    BY <2>1, <2>2, Zenon DEF Continues
  <2>5. Continues(Dump!Listing(input), Dump!Listing(input), Text)
    BY <2>3, ContinuesFacts, Zenon
  <2>6. Continues(lines, Dump!Listing(input), Text)
    BY <2>4, <2>5, OutputSoFar, ContinuesTransitive, Zenon
  <2>7. QED
    BY <2>6, ContinuesIsPrefix, Zenon
<1>2. QED
  BY <1>1, WhereAlways, PTL

(* ir_dump returns 0 exactly if the module was parsed and the listing is   *)
(* whole, to the last line.                                                *)
THEOREM StatusTellsAll == Spec => []ZeroMeansAll
<1>1. Where => ZeroMeansAll
  <2> SUFFICES ASSUME Where, pc = "over"
               PROVE  status = "0" <=> Dump!Parsed /\ lines = Dump!Listing(input)
    BY DEF ZeroMeansAll, Dump!ZeroMeansAll
  <2>1. ASSUME Continues(lines, FlattenSeq(Funs(input)), Text)
        PROVE  lines # Dump!Listing(input)
    <3>1. PICK r \in Seq(Text) : FlattenSeq(Funs(input)) = lines \o r
      BY <2>1 DEF Continues
    <3>2. lines \in Seq(Text) /\ Len(FlattenSeq(Funs(input))) = Len(lines) + Len(r)
      BY <2>1, <3>1, ConcatProperties DEF Continues
    <3>3. FlattenSeq(Funs(input)) \in Seq(Text)
      BY FunsType, FlattenType DEF Where
    <3>4. PICK g : g = <<<<"globals">>>>
      OBVIOUS
    <3>5. g \in Seq(Text) /\ Len(g) = 1
      BY <3>4 DEF Text
    <3>6. Len(FlattenSeq(Funs(input)) \o g) = Len(FlattenSeq(Funs(input))) + Len(g)
      BY <3>3, <3>5, ConcatProperties
    <3>7. Dump!Listing(input) = FlattenSeq(Funs(input)) \o g
      BY <3>4, FunsType DEF Where
    <3>8. Len(lines) \in Nat /\ Len(r) \in Nat
      BY <3>2, LenProperties
    <3>9. Len(Dump!Listing(input)) = Len(lines) + Len(r) + 1
      BY <3>2, <3>5, <3>6, <3>7
    <3>10. QED
      BY <3>8, <3>9
  <2>2. QED
    BY <2>1 DEF Where
<1>2. QED
  BY <1>1, WhereAlways, PTL

(* Of modules of any size, only one with a type, an address computation, a *)
(* phi or a call that the dump cannot handle makes ir_dump die.            *)
THEOREM DumpDiesOnlyOnUnsupported == Spec => []DiesOnlyOnUnsupported
<1>1. Where => DiesOnlyOnUnsupported
  BY DEF Where, DiesOnlyOnUnsupported, Dump!DiesOnlyOnUnsupported
<1>2. QED
  BY <1>1, WhereAlways, PTL

--------------------------------------------------------------------------------
(* printInstKind.                                                          *)

(* Of two ancestors of a class, one derives from the other.                *)
LEMMA ClassesAre ==
  ASSUME NEW c
  PROVE  Kind!Classes(c) = {c, Parent[c], Parent[Parent[c]], Parent[Parent[Parent[c]]],
                            Parent[Parent[Parent[Parent[c]]]],
                            Parent[Parent[Parent[Parent[Parent[c]]]]]}
BY DEF Kind!Classes, Kind!WithParents

LEMMA Comparable ==
  ASSUME NEW c, NEW a \in Kind!Classes(c), NEW b \in Kind!Classes(c)
  PROVE  a \in Kind!Classes(b) \/ b \in Kind!Classes(a)
<1>1. PICK p1, p2, p3, p4, p5, p6, p7, p8, p9, p10 :
        /\ p1 = Parent[c] /\ p2 = Parent[p1] /\ p3 = Parent[p2] /\ p4 = Parent[p3]
        /\ p5 = Parent[p4] /\ p6 = Parent[p5] /\ p7 = Parent[p6] /\ p8 = Parent[p7]
        /\ p9 = Parent[p8] /\ p10 = Parent[p9]
  OBVIOUS
<1>2. Kind!Classes(c) = {c, p1, p2, p3, p4, p5}
  BY <1>1, ClassesAre
<1>3. Kind!Classes(p1) = {p1, p2, p3, p4, p5, p6}
  BY <1>1, ClassesAre
<1>4. Kind!Classes(p2) = {p2, p3, p4, p5, p6, p7}
  BY <1>1, ClassesAre
<1>5. Kind!Classes(p3) = {p3, p4, p5, p6, p7, p8}
  BY <1>1, ClassesAre
<1>6. Kind!Classes(p4) = {p4, p5, p6, p7, p8, p9}
  BY <1>1, ClassesAre
<1>7. Kind!Classes(p5) = {p5, p6, p7, p8, p9, p10}
  BY <1>1, ClassesAre
<1>8. a \in {c, p1, p2, p3, p4, p5} /\ b \in {c, p1, p2, p3, p4, p5}
  BY <1>2
<1>9. QED
  BY <1>2, <1>3, <1>4, <1>5, <1>6, <1>7, <1>8

(* What derives from a class that is a call is a call.                     *)
LEMMA CallsBelow ==
  ASSUME NEW i \in Instructions, NEW x \in Kind!Classes(i.class),
         "CallInst" \in Kind!Classes(x)
  PROVE  "CallInst" \in Kind!Classes(i.class)
<1> DEFINE c == i.class
           p1 == Parent[c]
           p2 == Parent[p1]
           p3 == Parent[p2]
           p4 == Parent[p3]
           p5 == Parent[p4]
           p6 == Parent[p5]
<1>1. Kind!Classes(c) = {c, p1, p2, p3, p4, p5}
  BY ClassesAre
<1>2. Kind!Classes(p1) = {p1, p2, p3, p4, p5, p6}
  BY ClassesAre
<1>3. /\ Parent["Instruction"] = "Instruction"
      /\ "Instruction" \in {p1, p2, p3, p4, p5, p6}
  BY <1>2, HierarchyAssumption
<1>4. p6 = "Instruction"
  BY <1>3
<1>5. Kind!Classes(x) \subseteq Kind!Classes(c) \cup {"Instruction"}
  <2>1. Kind!Classes(x) = {x, Parent[x], Parent[Parent[x]], Parent[Parent[Parent[x]]],
                           Parent[Parent[Parent[Parent[x]]]],
                           Parent[Parent[Parent[Parent[Parent[x]]]]]}
    BY ClassesAre
  <2>2. x \in {c, p1, p2, p3, p4, p5}
    BY <1>1
  <2>3. QED
    BY <1>1, <1>3, <1>4, <2>1, <2>2
<1>6. QED
  BY <1>5

--------------------------------------------------------------------------------
(* The classes that the table names, by the branch they stand in.          *)
InCalls == Intrinsics \cup {"IntrinsicInst"}
InStops == {"ExtractElementInst", "GetElementPtrInst", "InsertValueInst", "PHINode",
            "SelectInst", "ShuffleVectorInst", "StoreInst", "BranchInst",
            "IndirectBrInst", "InvokeInst", "ReturnInst", "SwitchInst",
            "UnreachableInst"}
InCasts == {"BitCastInst", "FPExtInst", "FPToSIInst", "FPToUIInst", "FPTruncInst",
            "IntToPtrInst", "PtrToIntInst", "SExtInst", "SIToFPInst", "TruncInst",
            "UIToFPInst", "ZExtInst"}
InUnary == {"ExtractValueInst", "LoadInst", "VAArgInst"}
Tested == {"BinaryOperator", "CallInst", "CmpInst", "ICmpInst", "FCmpInst",
           "UnaryInstruction", "AllocaInst", "CastInst"}
          \cup InCalls \cup InStops \cup InCasts \cup InUnary

RowType == [class : Tested, stops : BOOLEAN]

LEMMA RowIs ==
  ASSUME NEW x
  PROVE  /\ Kind!Stop(x).class = x /\ Kind!Stop(x).stops
         /\ Kind!Go(x).class = x /\ ~ Kind!Go(x).stops
         /\ x \in Tested => Kind!Stop(x) \in RowType /\ Kind!Go(x) \in RowType
BY DEF Kind!Stop, Kind!Go, RowType

(* A table has rows for the classes of C, none before one it derives from. *)
Has(s, r) == \E k \in 1..Len(s) : s[k] = r

Table(s, C) ==
  /\ s \in Seq(RowType)
  /\ \A k \in 1..Len(s) : s[k].class \in C
  /\ \A c \in C : \E k \in 1..Len(s) : s[k].class = c
  /\ \A k \in 1..Len(s) : \A j \in 1..(k - 1) :
       Derives(s[j].class, s[k].class) => s[j].class = s[k].class

LEMMA Joined ==
  ASSUME NEW T, NEW s \in Seq(T), NEW t \in Seq(T)
  PROVE  /\ s \o t \in Seq(T) /\ Len(s \o t) = Len(s) + Len(t)
         /\ Len(s) \in Nat /\ Len(t) \in Nat
         /\ \A k \in 1..Len(s) : (s \o t)[k] = s[k]
         /\ \A k \in 1..Len(t) : (s \o t)[Len(s) + k] = t[k]
<1>1. Len(s) \in Nat /\ Len(t) \in Nat
  OBVIOUS
<1>2. /\ s \o t \in Seq(T) /\ Len(s \o t) = Len(s) + Len(t)
      /\ \A i \in 1..Len(s) + Len(t) :
           (s \o t)[i] = IF i <= Len(s) THEN s[i] ELSE t[i - Len(s)]
  BY ConcatProperties
<1>3. ASSUME NEW k \in 1..Len(s)
      PROVE  (s \o t)[k] = s[k]
  <2>1. k \in 1..Len(s) + Len(t) /\ k <= Len(s)
    BY <1>1
  <2>2. QED
    BY <1>2, <2>1
<1>4. ASSUME NEW k \in 1..Len(t)
      PROVE  (s \o t)[Len(s) + k] = t[k]
  <2>1. PICK i : i = Len(s) + k
    OBVIOUS
  <2>2. i \in 1..Len(s) + Len(t) /\ ~ (i <= Len(s)) /\ i - Len(s) = k
    BY <1>1, <2>1
  <2>3. QED
    BY <1>2, <2>1, <2>2
<1>5. QED
  BY <1>1, <1>2, <1>3, <1>4

(* One table after another, when no class derives from one further down.   *)
LEMMA JoinedTable ==
  ASSUME NEW C, NEW D, NEW s, NEW t, Table(s, C), Table(t, D),
         \A c \in C, d \in D : Derives(c, d) => c = d
  PROVE  /\ Table(s \o t, C \cup D)
         /\ \A r : Has(s, r) \/ Has(t, r) => Has(s \o t, r)
<1>1. /\ s \o t \in Seq(RowType) /\ Len(s \o t) = Len(s) + Len(t)
      /\ Len(s) \in Nat /\ Len(t) \in Nat
      /\ \A k \in 1..Len(s) : (s \o t)[k] = s[k]
      /\ \A k \in 1..Len(t) : (s \o t)[Len(s) + k] = t[k]
  BY Joined DEF Table
<1>2. PICK u, m, n : u = s \o t /\ m = Len(s) /\ n = Len(t)
  OBVIOUS
<1>3. /\ u \in Seq(RowType) /\ Len(u) = m + n /\ m \in Nat /\ n \in Nat
      /\ \A k \in 1..m : u[k] = s[k] /\ u[k].class \in C
      /\ \A k \in 1..n : u[m + k] = t[k] /\ u[m + k].class \in D
  BY <1>1, <1>2 DEF Table
<1>4. ASSUME NEW k \in 1..(m + n)
      PROVE  k \in 1..m \/ \E l \in 1..n : k = m + l
  <2>1. CASE k <= m
    BY <1>3, <2>1
  <2>2. CASE ~ (k <= m)
    <3>1. k - m \in 1..n /\ k = m + (k - m)
      BY <1>3, <2>2
    <3>2. QED
      BY <3>1
  <2>3. QED
    BY <2>1, <2>2
<1>5. \A k \in 1..Len(u) : u[k].class \in C \cup D
  <2>1. SUFFICES ASSUME NEW k \in 1..Len(u) PROVE u[k].class \in C \cup D
    OBVIOUS
  <2>2. k \in 1..m \/ \E l \in 1..n : k = m + l
    BY <1>3, <1>4
  <2>3. QED
    BY <1>3, <2>2, Zenon
<1>6. ASSUME NEW k \in 1..Len(u), NEW j \in 1..(k - 1),
             Derives(u[j].class, u[k].class)
      PROVE  u[j].class = u[k].class
  <2>1. k \in 1..(m + n) /\ j \in 1..(m + n) /\ j < k /\ j \in Int /\ k \in Int
    BY <1>3
  <2>2. CASE k \in 1..m
    <3>1. j \in 1..m /\ j \in 1..(k - 1)
      BY <1>3, <2>1, <2>2
    <3>2. u[j] = s[j] /\ u[k] = s[k]
      BY <1>3, <2>2, <3>1
    <3>3. Derives(s[j].class, s[k].class) => s[j].class = s[k].class
      BY <1>2, <2>2, <3>1, Zenon DEF Table
    <3>4. QED
      BY <1>6, <3>2, <3>3, Zenon
  <2>3. ASSUME NEW l \in 1..n, k = m + l
        PROVE  u[j].class = u[k].class
    <3>1. u[k] = t[l] /\ u[k].class \in D
      BY <1>3, <2>3
    <3>2. CASE j \in 1..m
      <4>1. u[j].class \in C
        BY <1>3, <3>2
      <4>2. QED
        BY <1>6, <3>1, <4>1, Zenon
    <3>3. ASSUME NEW i \in 1..n, j = m + i
          PROVE  u[j].class = u[k].class
      <4>1. i \in 1..(l - 1)
        BY <1>3, <2>1, <2>3, <3>3
      <4>2. u[j] = t[i]
        BY <1>3, <3>3
      <4>3. Derives(t[i].class, t[l].class) => t[i].class = t[l].class
        BY <1>2, <4>1, Zenon DEF Table
      <4>4. QED
        BY <1>6, <3>1, <4>2, <4>3, Zenon
    <3>4. QED
      BY <1>4, <2>1, <3>2, <3>3, Zenon
  <2>4. QED
    BY <1>4, <2>1, <2>2, <2>3, Zenon
<1>7. ASSUME NEW r, Has(s, r) \/ Has(t, r)
      PROVE  Has(u, r)
  <2>1. CASE Has(s, r)
    <3>1. PICK k \in 1..m : s[k] = r
      BY <1>2, <2>1 DEF Has
    <3>2. k \in 1..Len(u) /\ u[k] = r
      BY <1>3, <3>1
    <3>3. QED
      BY <3>2 DEF Has
  <2>2. CASE Has(t, r)
    <3>1. PICK k \in 1..n : t[k] = r
      BY <1>2, <2>2 DEF Has
    <3>2. m + k \in 1..Len(u) /\ u[m + k] = r
      BY <1>3, <3>1
    <3>3. QED
      BY <3>2, Zenon DEF Has
  <2>3. QED
    BY <1>7, <2>1, <2>2
<1>8. ASSUME NEW c \in C \cup D
      PROVE  \E k \in 1..Len(u) : u[k].class = c
  <2>1. CASE c \in C
    <3>1. PICK k \in 1..m : s[k].class = c
      BY <1>2, <2>1 DEF Table
    <3>2. k \in 1..Len(u) /\ u[k].class = c
      BY <1>3, <3>1
    <3>3. QED
      BY <3>2
  <2>2. CASE c \in D
    <3>1. PICK k \in 1..n : t[k].class = c
      BY <1>2, <2>2 DEF Table
    <3>2. m + k \in 1..Len(u) /\ u[m + k].class = c
      BY <1>3, <3>1
    <3>3. QED
      BY <3>2, Zenon
  <2>3. QED
    BY <1>8, <2>1, <2>2
<1>9. QED
  BY <1>2, <1>3, <1>5, <1>6, <1>7, <1>8, Zenon DEF Table

(* Rows that all stop, for classes of which none derives from another.     *)
LEMMA StopsTable ==
  ASSUME NEW C, C \subseteq Tested, NEW names \in Seq(C),
         \A c \in C : \E k \in 1..Len(names) : names[k] = c,
         \A a, b \in C : Derives(a, b) => a = b
  PROVE  /\ Table(Kind!Stops(names), C)
         /\ \A c \in C : Has(Kind!Stops(names), Kind!Stop(c))
<1>1. DOMAIN names = 1..Len(names) /\ Len(names) \in Nat
  OBVIOUS
<1>2. \A k \in 1..Len(names) : names[k] \in C
  OBVIOUS
<1>3. PICK s : s = Kind!Stops(names)
  OBVIOUS
<1>4. s = [k \in 1..Len(names) |-> Kind!Stop(names[k])]
  BY <1>1, <1>3 DEF Kind!Stops
<1>5. \A k \in 1..Len(names) : Kind!Stop(names[k]) \in RowType
  BY <1>2, RowIs
<1>6. s \in Seq(RowType) /\ Len(s) = Len(names)
  BY <1>1, <1>4, <1>5, IsASeq
<1>7. \A k \in 1..Len(s) : s[k] = Kind!Stop(names[k]) /\ s[k].class \in C
  BY <1>2, <1>4, <1>6, RowIs
<1>8. ASSUME NEW k \in 1..Len(s), NEW j \in 1..(k - 1),
             Derives(s[j].class, s[k].class)
      PROVE  s[j].class = s[k].class
  <2>1. j \in 1..Len(s)
    BY <1>1, <1>6
  <2>2. QED
    BY <1>7, <1>8, <2>1, Zenon
<1>9. ASSUME NEW c \in C
      PROVE  \E k \in 1..Len(s) : s[k].class = c /\ s[k] = Kind!Stop(c)
  <2>1. PICK k \in 1..Len(names) : names[k] = c
    OBVIOUS
  <2>2. k \in 1..Len(s) /\ s[k].class = c /\ s[k] = Kind!Stop(c)
    BY <1>6, <1>7, <2>1, RowIs
  <2>3. QED
    BY <2>2
<1>10. QED
  BY <1>3, <1>6, <1>7, <1>8, <1>9, Zenon DEF Table, Has

LEMMA CastsTable ==
  /\ Table(Kind!Stops(Kind!Casts), InCasts)
  /\ \A x \in InCasts : Has(Kind!Stops(Kind!Casts), Kind!Stop(x))
<1>1. /\ Kind!Casts \in Seq(InCasts) /\ Len(Kind!Casts) = 12
      /\ \A x \in InCasts : \E k \in 1..Len(Kind!Casts) : Kind!Casts[k] = x
  BY DEF Kind!Casts, InCasts
<1>2. InCasts \subseteq Tested /\ \A a, b \in InCasts : Derives(a, b) => a = b
  BY DEF InCasts, Tested, Derives
<1>3. QED
  BY <1>1, <1>2, StopsTable

FarNames ==
  <<"ExtractElementInst", "GetElementPtrInst", "InsertValueInst", "PHINode",
    "SelectInst", "ShuffleVectorInst", "StoreInst", "BranchInst", "IndirectBrInst",
    "InvokeInst", "ReturnInst", "SwitchInst", "UnreachableInst">>

LEMMA FarTable ==
  /\ Table(Kind!Stops(FarNames), InStops)
  /\ \A x \in InStops : Has(Kind!Stops(FarNames), Kind!Stop(x))
<1>1. /\ FarNames \in Seq(InStops) /\ Len(FarNames) = 13
      /\ \A x \in InStops : \E k \in 1..Len(FarNames) : FarNames[k] = x
  BY DEF FarNames, InStops
<1>2. InStops \subseteq Tested /\ \A a, b \in InStops : Derives(a, b) => a = b
  BY DEF InStops, Tested, Derives
<1>3. QED
  BY <1>1, <1>2, StopsTable

UnaryNames == <<"ExtractValueInst", "LoadInst", "VAArgInst">>

LEMMA UnaryTable ==
  /\ Table(Kind!Stops(UnaryNames), InUnary)
  /\ \A x \in InUnary : Has(Kind!Stops(UnaryNames), Kind!Stop(x))
<1>1. /\ UnaryNames \in Seq(InUnary) /\ Len(UnaryNames) = 3
      /\ \A x \in InUnary : \E k \in 1..Len(UnaryNames) : UnaryNames[k] = x
  BY DEF UnaryNames, InUnary
<1>2. InUnary \subseteq Tested /\ \A a, b \in InUnary : Derives(a, b) => a = b
  BY DEF InUnary, Tested, Derives
<1>3. QED
  BY <1>1, <1>2, StopsTable

(* The short tables, row by row.                                           *)
LEMMA FirstTable ==
  Table(Kind!FirstRows, {"BinaryOperator", "CallInst"}) /\
  Has(Kind!FirstRows, Kind!Stop("BinaryOperator"))
<1>1. PICK a, b : a = Kind!Stop("BinaryOperator") /\ b = Kind!Go("CallInst")
  OBVIOUS
<1>2. /\ a \in RowType /\ b \in RowType
      /\ a.class = "BinaryOperator" /\ b.class = "CallInst"
  BY <1>1, RowIs DEF Tested
<1>3. PICK s : s = Kind!FirstRows
  OBVIOUS
<1>4. s \in Seq(RowType) /\ Len(s) = 2 /\ s[1] = a /\ s[2] = b
  BY <1>1, <1>2, <1>3 DEF Kind!FirstRows
<1>5. ~ Derives("BinaryOperator", "CallInst")
  BY DEF Derives, Intrinsics
<1>6. Table(s, {"BinaryOperator", "CallInst"})
  BY <1>2, <1>4, <1>5 DEF Table
<1>7. QED
  BY <1>1, <1>3, <1>4, <1>6 DEF Has

Comparisons == <<Kind!Go("CmpInst"), Kind!Stop("ICmpInst"), Kind!Stop("FCmpInst")>>

LEMMA ComparisonsTable ==
  /\ Table(Comparisons, {"CmpInst", "ICmpInst", "FCmpInst"})
  /\ Has(Comparisons, Kind!Stop("ICmpInst")) /\ Has(Comparisons, Kind!Stop("FCmpInst"))
<1>1. PICK a, b, c : /\ a = Kind!Go("CmpInst") /\ b = Kind!Stop("ICmpInst")
                     /\ c = Kind!Stop("FCmpInst")
  OBVIOUS
<1>2. /\ a \in RowType /\ b \in RowType /\ c \in RowType
      /\ a.class = "CmpInst" /\ b.class = "ICmpInst" /\ c.class = "FCmpInst"
  BY <1>1, RowIs DEF Tested
<1>3. PICK s : s = Comparisons
  OBVIOUS
<1>4. s \in Seq(RowType) /\ Len(s) = 3 /\ s[1] = a /\ s[2] = b /\ s[3] = c
  BY <1>1, <1>2, <1>3 DEF Comparisons
<1>5. /\ ~ Derives("CmpInst", "ICmpInst") /\ ~ Derives("CmpInst", "FCmpInst")
      /\ ~ Derives("ICmpInst", "FCmpInst")
  BY DEF Derives
<1>6. Table(s, {"CmpInst", "ICmpInst", "FCmpInst"})
  BY <1>2, <1>4, <1>5 DEF Table
<1>7. QED
  BY <1>1, <1>3, <1>4, <1>6 DEF Has

Unaries == <<Kind!Go("UnaryInstruction"), Kind!Stop("AllocaInst"), Kind!Stop("CastInst")>>

LEMMA UnariesTable ==
  /\ Table(Unaries, {"UnaryInstruction", "AllocaInst", "CastInst"})
  /\ Has(Unaries, Kind!Stop("AllocaInst")) /\ Has(Unaries, Kind!Stop("CastInst"))
<1>1. PICK a, b, c : /\ a = Kind!Go("UnaryInstruction") /\ b = Kind!Stop("AllocaInst")
                     /\ c = Kind!Stop("CastInst")
  OBVIOUS
<1>2. /\ a \in RowType /\ b \in RowType /\ c \in RowType
      /\ a.class = "UnaryInstruction" /\ b.class = "AllocaInst" /\ c.class = "CastInst"
  BY <1>1, RowIs DEF Tested
<1>3. PICK s : s = Unaries
  OBVIOUS
<1>4. s \in Seq(RowType) /\ Len(s) = 3 /\ s[1] = a /\ s[2] = b /\ s[3] = c
  BY <1>1, <1>2, <1>3 DEF Unaries
<1>5. /\ ~ Derives("UnaryInstruction", "AllocaInst")
      /\ ~ Derives("UnaryInstruction", "CastInst")
      /\ ~ Derives("AllocaInst", "CastInst")
  BY DEF Derives, ToSet, Kind!Casts
<1>6. Table(s, {"UnaryInstruction", "AllocaInst", "CastInst"})
  BY <1>2, <1>4, <1>5 DEF Table
<1>7. QED
  BY <1>1, <1>3, <1>4, <1>6 DEF Has

LEMMA CallTable == Table(Kind!CallRows, InCalls)
<1>1. \A x \in InCalls : Kind!Stop(x) \in RowType /\ Kind!Go(x) \in RowType
  BY RowIs DEF Tested
<1>2. PICK s : s = Kind!CallRows
  OBVIOUS
<1>3. s \in Seq(RowType) /\ Len(s) = 11
  BY <1>1, <1>2 DEF Kind!CallRows, InCalls, Intrinsics
<1>4. /\ s[1] = Kind!Go("IntrinsicInst") /\ s[2] = Kind!Go("DbgInfoIntrinsic")
      /\ s[3] = Kind!Stop("DbgValueInst") /\ s[4] = Kind!Stop("DbgDeclareInst")
      /\ s[5] = Kind!Go("MemIntrinsic") /\ s[6] = Kind!Go("MemSetInst")
      /\ s[7] = Kind!Stop("MemTransferInst") /\ s[8] = Kind!Stop("MemCpyInst")
      /\ s[9] = Kind!Stop("VACopyInst") /\ s[10] = Kind!Stop("VAEndInst")
      /\ s[11] = Kind!Stop("VAStartInst")
  BY <1>2 DEF Kind!CallRows
<1>5. /\ s[1].class = "IntrinsicInst" /\ s[2].class = "DbgInfoIntrinsic"
      /\ s[3].class = "DbgValueInst" /\ s[4].class = "DbgDeclareInst"
      /\ s[5].class = "MemIntrinsic" /\ s[6].class = "MemSetInst"
      /\ s[7].class = "MemTransferInst" /\ s[8].class = "MemCpyInst"
      /\ s[9].class = "VACopyInst" /\ s[10].class = "VAEndInst"
      /\ s[11].class = "VAStartInst"
  BY <1>4, RowIs, ZenonT(40)
<1>6. \A k \in 1..11 : s[k].class \in InCalls
  BY <1>5 DEF InCalls, Intrinsics
<1>a. \A k \in 1..11 : /\ k # 1 => s[k].class # "IntrinsicInst"
                       /\ k # 2 => s[k].class # "DbgInfoIntrinsic"
                       /\ k # 5 => s[k].class # "MemIntrinsic"
                       /\ k # 7 => s[k].class # "MemTransferInst"
  <2>1. SUFFICES ASSUME NEW k \in 1..11
                 PROVE  /\ k # 1 => s[k].class # "IntrinsicInst"
                        /\ k # 2 => s[k].class # "DbgInfoIntrinsic"
                        /\ k # 5 => s[k].class # "MemIntrinsic"
                        /\ k # 7 => s[k].class # "MemTransferInst"
    OBVIOUS
  <2>2. k \in {1, 2, 3, 4, 5, 6, 7, 8, 9, 10, 11}
    OBVIOUS
  <2>3. QED
    BY <1>5, <2>2
<1>7. ASSUME NEW k \in 1..11, NEW j \in 1..(k - 1), Derives(s[j].class, s[k].class)
      PROVE  s[j].class = s[k].class
  <2>1. PICK a, b : a = s[j].class /\ b = s[k].class
    OBVIOUS
  <2>2. CASE b = "IntrinsicInst"
    <3>1. k = 1
      BY <1>a, <2>1, <2>2, Zenon
    <3>2. QED
      BY <3>1
  <2>3. CASE b = "DbgInfoIntrinsic"
    <3>1. k = 2
      BY <1>a, <2>1, <2>3, Zenon
    <3>2. a = "IntrinsicInst"
      BY <1>5, <2>1, <3>1
    <3>3. QED
      BY <1>7, <2>1, <2>3, <3>2 DEF Derives
  <2>4. CASE b = "MemIntrinsic"
    <3>1. k = 5
      BY <1>a, <2>1, <2>4, Zenon
    <3>2. a \in {"IntrinsicInst", "DbgInfoIntrinsic", "DbgValueInst", "DbgDeclareInst"}
      BY <1>5, <2>1, <3>1
    <3>3. QED
      BY <1>7, <2>1, <2>4, <3>2 DEF Derives
  <2>5. CASE b = "MemTransferInst"
    <3>1. k = 7
      BY <1>a, <2>1, <2>5, Zenon
    <3>2. a # "MemCpyInst"
      BY <1>5, <2>1, <3>1
    <3>3. QED
      BY <1>7, <2>1, <2>5, <3>2 DEF Derives
  <2>6. CASE b \notin {"IntrinsicInst", "DbgInfoIntrinsic", "MemIntrinsic",
                       "MemTransferInst"}
    BY <1>6, <1>7, <2>1, <2>6 DEF Derives, InCalls, Intrinsics
  <2>7. QED
    BY <2>2, <2>3, <2>4, <2>5, <2>6
<1>8. \A x \in InCalls : \E k \in 1..11 : s[k].class = x
  BY <1>5 DEF InCalls, Intrinsics
<1>9. QED
  BY <1>2, <1>3, <1>6, <1>7, <1>8, Zenon DEF Table

--------------------------------------------------------------------------------
(* The whole tables.                                                       *)
InOther == {"CmpInst", "ICmpInst", "FCmpInst", "UnaryInstruction", "AllocaInst",
            "CastInst"} \cup InStops \cup InCasts \cup InUnary
InFirst == {"BinaryOperator", "CallInst"}

LEMMA OtherTable ==
  /\ Table(Kind!OtherRows, InOther)
  /\ \A x \in InOther \ Kind!Groups : Has(Kind!OtherRows, Kind!Stop(x))
<1>1. PICK a, b, c, d, e :
        /\ a = Comparisons /\ b = Kind!Stops(FarNames) /\ c = Unaries
        /\ d = Kind!Stops(Kind!Casts) /\ e = Kind!Stops(UnaryNames)
  OBVIOUS
<1>2. PICK A, B, C, D, E :
        /\ A = {"CmpInst", "ICmpInst", "FCmpInst"} /\ B = InStops
        /\ C = {"UnaryInstruction", "AllocaInst", "CastInst"}
        /\ D = InCasts /\ E = InUnary
  OBVIOUS
<1>3. Table(a, A) /\ Table(b, B) /\ Table(c, C) /\ Table(d, D) /\ Table(e, E)
  BY <1>1, <1>2, ComparisonsTable, FarTable, UnariesTable, CastsTable, UnaryTable
<1>4. /\ \A x \in A, y \in B : Derives(x, y) => x = y
      /\ \A x \in A \cup B, y \in C : Derives(x, y) => x = y
      /\ \A x \in A \cup B \cup C, y \in D : Derives(x, y) => x = y
      /\ \A x \in A \cup B \cup C \cup D, y \in E : Derives(x, y) => x = y
  <2>1. ToSet(Kind!Casts) = InCasts
    BY DEF ToSet, Kind!Casts, InCasts
  <2>2. \A x \in A, y \in B : Derives(x, y) => x = y
    BY <1>2, <2>1 DEF Derives, InStops, Intrinsics
  <2>3. \A x \in A \cup B, y \in C : Derives(x, y) => x = y
    BY <1>2, <2>1 DEF Derives, InStops, InCasts, Intrinsics
  <2>4. \A x \in A \cup B \cup C, y \in D : Derives(x, y) => x = y
    BY <1>2, <2>1 DEF Derives, InStops, InCasts, Intrinsics
  <2>5. \A x \in A \cup B \cup C \cup D, y \in E : Derives(x, y) => x = y
    BY <1>2, <2>1 DEF Derives, InStops, InCasts, InUnary, Intrinsics
  <2>6. QED
    BY <2>2, <2>3, <2>4, <2>5
<1>5. /\ Table(a \o b, A \cup B)
      /\ \A r : Has(a, r) \/ Has(b, r) => Has(a \o b, r)
  BY <1>3, <1>4, JoinedTable, SMTT(30)
<1>6. /\ Table(a \o b \o c, A \cup B \cup C)
      /\ \A r : Has(a \o b, r) \/ Has(c, r) => Has(a \o b \o c, r)
  BY <1>3, <1>4, <1>5, JoinedTable, SMTT(30)
<1>7. /\ Table(a \o b \o c \o d, A \cup B \cup C \cup D)
      /\ \A r : Has(a \o b \o c, r) \/ Has(d, r) => Has(a \o b \o c \o d, r)
  BY <1>3, <1>4, <1>6, JoinedTable, SMTT(30)
<1>8. /\ Table(a \o b \o c \o d \o e, A \cup B \cup C \cup D \cup E)
      /\ \A r : Has(a \o b \o c \o d, r) \/ Has(e, r)
               => Has(a \o b \o c \o d \o e, r)
  BY <1>3, <1>4, <1>7, JoinedTable, SMTT(30)
<1>9. Kind!OtherRows = a \o b \o c \o d \o e
  BY <1>1 DEF Kind!OtherRows, Comparisons, FarNames, Unaries, UnaryNames
<1>10. A \cup B \cup C \cup D \cup E = InOther
  BY <1>2 DEF InOther
<1>11. ASSUME NEW x \in InOther \ Kind!Groups
       PROVE  Has(Kind!OtherRows, Kind!Stop(x))
  <2>1. \/ x \in {"ICmpInst", "FCmpInst"} \/ x \in InStops
        \/ x \in {"AllocaInst", "CastInst"} \/ x \in InCasts \/ x \in InUnary
    BY <1>11 DEF InOther, Kind!Groups
  <2>2. \/ Has(a, Kind!Stop(x)) \/ Has(b, Kind!Stop(x)) \/ Has(c, Kind!Stop(x))
        \/ Has(d, Kind!Stop(x)) \/ Has(e, Kind!Stop(x))
    BY <1>1, <2>1, ComparisonsTable, FarTable, UnariesTable, CastsTable, UnaryTable
  <2>3. QED
    BY <1>5, <1>6, <1>7, <1>8, <1>9, <2>2
<1>12. QED
  BY <1>8, <1>9, <1>10, <1>11

LEMMA NoCallTable ==
  /\ Table(Kind!FirstRows \o Kind!OtherRows, InFirst \cup InOther)
  /\ \A x \in InOther \ Kind!Groups :
       Has(Kind!FirstRows \o Kind!OtherRows, Kind!Stop(x))
  /\ Has(Kind!FirstRows \o Kind!OtherRows, Kind!Stop("BinaryOperator"))
<1>1. \A x \in InFirst, y \in InOther : Derives(x, y) => x = y
  BY DEF InFirst, InOther, InStops, InCasts, InUnary, Derives, ToSet, Kind!Casts
<1>2. Table(Kind!FirstRows, InFirst) /\ Table(Kind!OtherRows, InOther)
  BY FirstTable, OtherTable DEF InFirst
<1>3. /\ Table(Kind!FirstRows \o Kind!OtherRows, InFirst \cup InOther)
      /\ \A r : Has(Kind!FirstRows, r) \/ Has(Kind!OtherRows, r)
               => Has(Kind!FirstRows \o Kind!OtherRows, r)
  BY <1>1, <1>2, JoinedTable
<1>4. QED
  BY <1>3, FirstTable, OtherTable

LEMMA CallsTable == Table(Kind!FirstRows \o Kind!CallRows, InFirst \cup InCalls)
<1>1. \A x \in InFirst, y \in InCalls : Derives(x, y) => x = y
  BY DEF InFirst, InCalls, Intrinsics, Derives, ToSet, Kind!Casts
<1>2. Table(Kind!FirstRows, InFirst) /\ Table(Kind!CallRows, InCalls)
  BY FirstTable, CallTable DEF InFirst
<1>3. QED
  BY <1>1, <1>2, JoinedTable

(* The classes that the table tests.                                       *)
LEMMA ListedIs ==
  /\ Kind!Listed = InFirst \cup InCalls \cup InOther
  /\ Kind!Listed \subseteq Tested
<1>1. \A x \in InFirst \cup InCalls, y \in InOther : Derives(x, y) => x = y
  BY DEF InFirst, InCalls, Intrinsics, InOther, InStops, InCasts, InUnary,
         Derives, ToSet, Kind!Casts
<1>2. PICK s : s = Kind!FirstRows \o Kind!CallRows \o Kind!OtherRows
  OBVIOUS
<1>3. Table(s, InFirst \cup InCalls \cup InOther)
  BY <1>1, <1>2, CallsTable, OtherTable, JoinedTable
<1>4. DOMAIN s = 1..Len(s)
  BY <1>3 DEF Table
<1>5. Kind!Listed = {s[k].class : k \in 1..Len(s)}
  BY <1>2, <1>4 DEF Kind!Listed, Kind!ToSet
<1>6. Kind!Listed = InFirst \cup InCalls \cup InOther
  BY <1>3, <1>5 DEF Table
<1>7. QED
  BY <1>6 DEF InFirst, InCalls, InOther, Tested

--------------------------------------------------------------------------------
(* The walk down the table that the instruction meets.                     *)

(* The order of the rows, and of those for what is no call each that stops.*)
LEMMA RowsFacts ==
  /\ Kind!Rows \in Seq(RowType) /\ Len(Kind!Rows) \in Nat
  /\ \A k \in 1..Len(Kind!Rows) : Kind!Rows[k].class \in Kind!Listed
  /\ \A k \in 1..Len(Kind!Rows) : \A j \in 1..(k - 1) :
       Derives(Kind!Rows[j].class, Kind!Rows[k].class)
         => Kind!Rows[j].class = Kind!Rows[k].class
  /\ ~ Kind!Isa("CallInst") =>
       \A x \in (InOther \ Kind!Groups) \cup {"BinaryOperator"} :
         Has(Kind!Rows, Kind!Stop(x))
<1>1. PICK C : C \subseteq Kind!Listed /\ Table(Kind!Rows, C)
  <2>1. CASE ~ Kind!Isa("CallInst")
    BY <2>1, NoCallTable, ListedIs DEF Kind!Rows
  <2>2. CASE Kind!Isa("CallInst") /\ inst.asm
    BY <2>2, FirstTable, ListedIs DEF Kind!Rows, InFirst
  <2>3. CASE Kind!Isa("CallInst") /\ ~ inst.asm
    BY <2>3, CallsTable, ListedIs DEF Kind!Rows
  <2>4. QED
    BY <2>1, <2>2, <2>3
<1>2. PICK s : s = Kind!Rows
  OBVIOUS
<1>3. s \in Seq(RowType) /\ Len(s) \in Nat
  BY <1>1, <1>2 DEF Table
<1>4. \A k \in 1..Len(s) : s[k].class \in Kind!Listed
  BY <1>1, <1>2 DEF Table
<1>5. \A k \in 1..Len(s) : \A j \in 1..(k - 1) :
        Derives(s[j].class, s[k].class) => s[j].class = s[k].class
  BY <1>1, <1>2, Zenon DEF Table
<1>6. ~ Kind!Isa("CallInst") =>
        \A x \in (InOther \ Kind!Groups) \cup {"BinaryOperator"} :
          Has(Kind!Rows, Kind!Stop(x))
  BY NoCallTable DEF Kind!Rows
<1>7. QED
  BY <1>2, <1>3, <1>4, <1>5, <1>6, Zenon

(* No row that was met stopped; the last class printed is that of a row    *)
(* that was met.                                                           *)
MetSoFar ==
  /\ \A k \in 1..(kindAt - 1) :
       Kind!Isa(Kind!Rows[k].class) => Kind!Rows[k].stops = FALSE
  /\ printed # <<>> =>
       \E k \in 1..(kindAt - 1) :
         /\ Kind!Isa(Kind!Rows[k].class)
         /\ printed[Len(printed)] = Kind!Rows[k].class

KindOK ==
  /\ inst \in Instructions /\ kindPc \in {"loop", "done", "aborted"}
  /\ kindAt \in 1..(Len(Kind!Rows) + 1)
  /\ printed \in Seq(Tested \cup Kind!Markers)
  /\ kindPc # "done" => MetSoFar
  /\ kindPc = "aborted" => kindAt = Len(Kind!Rows) + 1 /\ ~ Kind!Isa("CallInst")
  /\ Kind!ChainDescends

LEMMA KindInit ==
  ASSUME Kind!Init
  PROVE  KindOK
<1>1. inst \in Instructions /\ kindAt = 1 /\ printed = <<>> /\ kindPc = "loop"
  BY DEF Kind!Init
<1>2. Len(Kind!Rows) \in Nat
  BY RowsFacts
<1>3. printed \in Seq(Tested \cup Kind!Markers) /\ Len(printed) = 0
  BY <1>1
<1>4. MetSoFar
  BY <1>1 DEF MetSoFar
<1>5. Kind!ChainDescends
  BY <1>3 DEF Kind!ChainDescends
<1>6. QED
  BY <1>1, <1>2, <1>3, <1>4, <1>5 DEF KindOK

LEMMA RowsStay ==
  ASSUME inst' = inst
  PROVE  Kind!Rows' = Kind!Rows /\ \A c : Kind!Isa(c)' <=> Kind!Isa(c)
BY DEF Kind!Rows, Kind!Isa

(* One more class at the end of the chain.                                 *)
Follows(c, last) ==
  IF c \in Kind!Markers THEN "CallInst" \in Kind!Classes(last)
  ELSE last \in Kind!Classes(c)

LEMMA ChainGrows ==
  ASSUME NEW T, printed \in Seq(T), Kind!ChainDescends, NEW c \in T,
         printed' = Append(printed, c),
         printed # <<>> => Follows(c, printed[Len(printed)])
  PROVE  Kind!ChainDescends'
<1>1. PICK n \in Nat : n = Len(printed)
  OBVIOUS
<1>2. /\ Len(printed') = n + 1 /\ printed'[n + 1] = c
      /\ \A k \in 1..n : printed'[k] = printed[k]
  BY <1>1
<1>3. SUFFICES ASSUME NEW k \in 1..n
               PROVE  Follows(printed'[k + 1], printed'[k])
  BY <1>2 DEF Kind!ChainDescends, Follows
<1>4. CASE k = n
  <2>1. printed # <<>> /\ printed'[k] = printed[n]
    BY <1>1, <1>2, <1>4
  <2>2. QED
    BY <1>1, <1>2, <1>4, <2>1
<1>5. CASE k # n
  <2>1. k \in 1..(n - 1) /\ k + 1 \in 1..n
    BY <1>5
  <2>2. Follows(printed[k + 1], printed[k])
    BY <1>1, <2>1 DEF Kind!ChainDescends, Follows
  <2>3. QED
    BY <1>2, <2>1, <2>2
<1>6. QED
  BY <1>4, <1>5

LEMMA OwnClass == \A c : c \in Kind!Classes(c)
BY ClassesAre

LEMMA PassOverStep ==
  ASSUME KindOK, Kind!PassOver
  PROVE  KindOK'
<1>1. /\ kindPc = "loop" /\ kindAt <= Len(Kind!Rows)
      /\ ~ Kind!Isa(Kind!Rows[kindAt].class)
      /\ kindAt' = kindAt + 1 /\ inst' = inst /\ printed' = printed
      /\ kindPc' = kindPc
  BY DEF Kind!PassOver
<1>2. PICK R, n : R = Kind!Rows /\ n = Len(R)
  OBVIOUS
<1>3. /\ Kind!Rows' = R /\ \A c : Kind!Isa(c)' <=> Kind!Isa(c)
      /\ n \in Nat /\ kindAt \in 1..n
  BY <1>1, <1>2, RowsStay, RowsFacts DEF KindOK
<1>4. MetSoFar
  BY <1>1 DEF KindOK
<1>5. \A k \in 1..(kindAt' - 1) : k \in 1..(kindAt - 1) \/ k = kindAt
  BY <1>1, <1>3
<1>6. \A k \in 1..(kindAt - 1) : k \in 1..(kindAt' - 1)
  BY <1>1, <1>3
<1>7. MetSoFar'
  BY <1>1, <1>2, <1>3, <1>4, <1>5, <1>6, Zenon DEF MetSoFar
<1>8. Kind!ChainDescends'
  BY <1>1 DEF KindOK, Kind!ChainDescends
<1>9. QED
  BY <1>1, <1>2, <1>3, <1>7, <1>8 DEF KindOK

LEMMA PrintClassStep ==
  ASSUME KindOK, Kind!PrintClass
  PROVE  KindOK'
<1>1. /\ kindPc = "loop" /\ kindAt <= Len(Kind!Rows)
      /\ Kind!Isa(Kind!Rows[kindAt].class)
      /\ printed' = Append(printed, Kind!Rows[kindAt].class)
      /\ kindAt' = kindAt + 1 /\ inst' = inst
      /\ kindPc' = IF Kind!Rows[kindAt].stops THEN "done" ELSE "loop"
  BY DEF Kind!PrintClass
<1>2. PICK R, n, c : R = Kind!Rows /\ n = Len(R) /\ c = R[kindAt].class
  OBVIOUS
<1>3. /\ Kind!Rows' = R /\ \A x : Kind!Isa(x)' <=> Kind!Isa(x)
      /\ n \in Nat /\ kindAt \in 1..n
  BY <1>1, <1>2, RowsStay, RowsFacts DEF KindOK
<1>4. /\ R[kindAt].stops \in BOOLEAN
      /\ c \in Kind!Listed /\ c \in Tested /\ c \notin Kind!Markers
  <2>1. R \in Seq(RowType) /\ c \in Kind!Listed
    BY <1>2, <1>3, RowsFacts
  <2>2. R[kindAt] \in RowType
    BY <1>2, <1>3, <2>1
  <2>3. c \in Tested
    BY <2>1, ListedIs
  <2>4. c \notin Kind!Markers
    BY <2>3 DEF Tested, InCalls, Intrinsics, InStops, InCasts, InUnary, Kind!Markers
  <2>5. QED
    BY <2>1, <2>2, <2>3, <2>4 DEF RowType
<1>5. MetSoFar
  BY <1>1 DEF KindOK
<1>6. ASSUME printed # <<>>
      PROVE  printed[Len(printed)] \in Kind!Classes(c)
  <2>1. PICK k \in 1..(kindAt - 1) :
          Kind!Isa(R[k].class) /\ printed[Len(printed)] = R[k].class
    BY <1>2, <1>5, <1>6 DEF MetSoFar
  <2>2. PICK b : b = R[k].class
    OBVIOUS
  <2>3. b \in Kind!Classes(inst.class) /\ c \in Kind!Classes(inst.class)
    BY <1>1, <1>2, <2>1, <2>2 DEF Kind!Isa
  <2>4. b \in Kind!Classes(c) \/ c \in Kind!Classes(b)
    BY <2>3, Comparable
  <2>5. k \in 1..n
    BY <1>3
  <2>6. b \in Kind!Listed /\ (Derives(b, c) => b = c)
    BY <1>2, <1>3, <2>1, <2>2, <2>5, RowsFacts, Zenon
  <2>7. c \in Kind!Classes(b) => Derives(b, c)
    BY <1>4, <2>6, HierarchyAssumption
  <2>8. QED
    BY <2>1, <2>2, <2>4, <2>6, <2>7, OwnClass
<1>7. Kind!ChainDescends'
  <2>1. printed # <<>> => Follows(c, printed[Len(printed)])
    BY <1>4, <1>6 DEF Follows
  <2>2. c \in Tested \cup Kind!Markers /\ printed' = Append(printed, c)
    BY <1>1, <1>2, <1>4
  <2>3. printed \in Seq(Tested \cup Kind!Markers) /\ Kind!ChainDescends
    BY DEF KindOK
  <2>4. QED
    BY <2>1, <2>2, <2>3, ChainGrows
<1>8. printed' \in Seq(Tested \cup Kind!Markers)
  BY <1>1, <1>2, <1>4 DEF KindOK
<1>9. ASSUME kindPc' # "done"
      PROVE  MetSoFar'
  <2>1. R[kindAt].stops = FALSE
    BY <1>1, <1>2, <1>4, <1>9
  <2>2. \A k \in 1..(kindAt' - 1) : k \in 1..(kindAt - 1) \/ k = kindAt
    BY <1>1, <1>3
  <2>3. \A k \in 1..(kindAt' - 1) : Kind!Isa(R[k].class) => R[k].stops = FALSE
    BY <1>2, <1>5, <2>1, <2>2, Zenon DEF MetSoFar
  <2>4. printed'[Len(printed')] = c
    BY <1>1, <1>2 DEF KindOK
  <2>5. kindAt \in 1..(kindAt' - 1)
    BY <1>1, <1>3
  <2>6. QED
    BY <1>1, <1>2, <1>3, <2>3, <2>4, <2>5, Zenon DEF MetSoFar
<1>10. kindAt' \in 1..(n + 1)
  BY <1>1, <1>3
<1>11. kindPc' \in {"loop", "done"}
  BY <1>1
<1>12. QED
  BY <1>1, <1>2, <1>3, <1>7, <1>8, <1>9, <1>10, <1>11 DEF KindOK

LEMMA PlainCallStep ==
  ASSUME KindOK, Kind!PlainCall
  PROVE  KindOK'
<1>1. PICK c \in Kind!Markers :
        /\ kindPc = "loop" /\ Kind!Isa("CallInst")
        /\ printed' = Append(printed, c) /\ kindPc' = "done"
        /\ inst' = inst /\ kindAt' = kindAt
  BY DEF Kind!PlainCall, Kind!Markers
<1>2. Kind!Rows' = Kind!Rows
  BY <1>1, RowsStay
<1>3. printed \in Seq(Tested \cup Kind!Markers) /\ Kind!ChainDescends /\ MetSoFar
  BY <1>1 DEF KindOK
<1>4. ASSUME printed # <<>>
      PROVE  "CallInst" \in Kind!Classes(printed[Len(printed)])
  <2>1. PICK k \in 1..(kindAt - 1) : /\ Kind!Isa(Kind!Rows[k].class)
                                     /\ printed[Len(printed)] = Kind!Rows[k].class
    BY <1>3, <1>4 DEF MetSoFar
  <2>2. PICK b : b = Kind!Rows[k].class
    OBVIOUS
  <2>3. b \in Kind!Classes(inst.class) /\ "CallInst" \in Kind!Classes(inst.class)
    BY <1>1, <2>1, <2>2 DEF Kind!Isa
  <2>4. b \in Kind!Classes("CallInst") \/ "CallInst" \in Kind!Classes(b)
    BY <2>3, Comparable
  <2>5. k \in 1..Len(Kind!Rows)
    BY RowsFacts DEF KindOK
  <2>6. b \in Kind!Listed /\ "CallInst" \in Kind!Listed
    BY <2>2, <2>5, RowsFacts, ListedIs DEF InFirst
  <2>7. b \in Kind!Classes("CallInst") => Derives("CallInst", b)
    BY <2>6, HierarchyAssumption
  <2>8. Derives("CallInst", b) => b = "CallInst"
    BY DEF Derives, Intrinsics, ToSet, Kind!Casts
  <2>9. QED
    BY <2>1, <2>2, <2>4, <2>7, <2>8, OwnClass
<1>5. Kind!ChainDescends'
  <2>1. printed # <<>> => Follows(c, printed[Len(printed)])
    BY <1>4 DEF Follows
  <2>2. c \in Tested \cup Kind!Markers
    OBVIOUS
  <2>3. QED
    BY <1>1, <1>3, <2>1, <2>2, ChainGrows
<1>6. printed' \in Seq(Tested \cup Kind!Markers)
  BY <1>1, <1>3
<1>7. QED
  BY <1>1, <1>2, <1>5, <1>6 DEF KindOK

LEMMA UnknownStep ==
  ASSUME KindOK, Kind!Unknown
  PROVE  KindOK'
<1>1. /\ kindPc = "loop" /\ kindAt > Len(Kind!Rows) /\ ~ Kind!Isa("CallInst")
      /\ kindPc' = "aborted" /\ inst' = inst /\ kindAt' = kindAt
      /\ printed' = printed
  BY DEF Kind!Unknown, Kind!Aborts
<1>2. Kind!Rows' = Kind!Rows /\ \A c : Kind!Isa(c)' <=> Kind!Isa(c)
  BY <1>1, RowsStay
<1>3. Len(Kind!Rows) \in Nat
  BY RowsFacts
<1>4. kindAt = Len(Kind!Rows) + 1
  BY <1>1, <1>3 DEF KindOK
<1>5. MetSoFar' /\ Kind!ChainDescends'
  BY <1>1, <1>2 DEF KindOK, MetSoFar, Kind!ChainDescends
<1>6. QED
  BY <1>1, <1>2, <1>3, <1>4, <1>5 DEF KindOK

LEMMA KindRestStep ==
  ASSUME KindOK, UNCHANGED kindVars
  PROVE  KindOK'
<1>1. inst' = inst /\ kindAt' = kindAt /\ printed' = printed /\ kindPc' = kindPc
  BY DEF kindVars
<1>2. Kind!Rows' = Kind!Rows /\ \A c : Kind!Isa(c)' <=> Kind!Isa(c)
  BY <1>1, RowsStay
<1>3. (MetSoFar' <=> MetSoFar) /\ (Kind!ChainDescends' <=> Kind!ChainDescends)
  BY <1>1, <1>2 DEF MetSoFar, Kind!ChainDescends
<1>4. QED
  BY <1>1, <1>2, <1>3 DEF KindOK

LEMMA KindAlways == Spec => []KindOK
<1>1. Init => KindOK
  BY KindInit DEF Init, KindRests
<1>2. ASSUME KindOK, [Next]_vars PROVE KindOK'
  <2>1. CASE PrintInstKind
    BY <1>2, <2>1, PassOverStep, PrintClassStep, PlainCallStep, UnknownStep,
       KindRestStep
       DEF PrintInstKind, Kind!Next, Kind!Stopped, Kind!vars, kindVars
  <2>2. CASE UNCHANGED kindVars
    BY <1>2, <2>2, KindRestStep
  <2>3. QED
    BY <1>2, <2>1, <2>2
       DEF Next, PrettyPrintStep, DumpConstsStep, IRDumpStep, Stopped, vars
<1>3. QED
  BY <1>1, <1>2, PTL DEF Spec

(* Whatever classes there are below those that printInstKind tests, each   *)
(* line it prints leads from a class to one that derives from it.          *)
THEOREM ChainsDescend == Spec => []ChainDescends
<1>1. KindOK => ChainDescends
  BY DEF KindOK, ChainDescends
<1>2. QED
  BY <1>1, KindAlways, PTL

(* And it gives up on none that it has a name for.                         *)
THEOREM ListedAreNamed == Spec => []ListedNeverAborts
<1>1. KindOK => ListedNeverAborts
  <2> SUFFICES ASSUME KindOK, kindPc = "aborted",
                      NEW x \in Kind!Classes(inst.class), x \in Kind!Listed \ Kind!Groups
               PROVE  FALSE
    BY DEF ListedNeverAborts, Kind!ListedNeverAborts
  <2>1. /\ inst \in Instructions /\ kindAt = Len(Kind!Rows) + 1 /\ MetSoFar
        /\ ~ Kind!Isa("CallInst") /\ Len(Kind!Rows) \in Nat
    BY RowsFacts DEF KindOK
  <2>2. CASE x \in InCalls \cup {"CallInst"}
    <3>1. Derives(x, "CallInst") /\ "CallInst" \in Kind!Listed
      BY <2>2, ListedIs DEF Derives, InCalls, InFirst
    <3>2. "CallInst" \in Kind!Classes(x)
      BY <3>1, HierarchyAssumption
    <3>3. QED
      BY <2>1, <3>2, CallsBelow DEF Kind!Isa
  <2>3. CASE x \in (InOther \ Kind!Groups) \cup {"BinaryOperator"}
    <3>1. Has(Kind!Rows, Kind!Stop(x))
      BY <2>1, <2>3, RowsFacts
    <3>2. PICK k \in 1..Len(Kind!Rows) : Kind!Rows[k] = Kind!Stop(x)
      BY <3>1 DEF Has
    <3>3. Kind!Rows[k].class = x /\ Kind!Rows[k].stops
      BY <3>2, RowIs
    <3>4. k \in 1..(kindAt - 1)
      BY <2>1
    <3>5. Kind!Isa(Kind!Rows[k].class)
      BY <3>3 DEF Kind!Isa
    <3>6. Kind!Rows[k].stops = FALSE
      BY <2>1, <3>4, <3>5 DEF MetSoFar
    <3>7. QED
      BY <3>3, <3>6
  <2>4. QED
    BY <2>2, <2>3, ListedIs DEF InFirst
<1>2. QED
  BY <1>1, KindAlways, PTL

================================================================================
