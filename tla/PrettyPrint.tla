------------------------------- MODULE PrettyPrint -----------------------------
(***************************************************************************)
(* prettyPrint (lib/mybase/LLDump.cc): a value with empty lines before and *)
(* after it, its parts in colours of the terminal.  WITH_COLOR changes the *)
(* colour, prints, and resets; what it prints may end the process between. *)
(* An unsigned holds 0..MaxUnsigned.                                       *)
(***************************************************************************)
EXTENDS Naturals, Sequences

CONSTANTS
  PrintedValues,   \* [class, named, attached, breaks, fnBreaks]: has a name;
                   \* is in a function; line ends in what is printed of it,
                   \* its name or (a switch has several) its whole text; and
                   \* in the name of its function
  MaxUnsigned

VARIABLES
  V,                    \* the value; class "null" for nullptr
  startLine, endLine,   \* the parameters, counted down
  asked,                \* ghost: their values at the call
  section,              \* the WITH_COLOR under way, or the next
  newlines,             \* written so far
  color,                \* of the terminal
  step                  \* start, text, inside, reset, end, returned, died

prettyVars == <<V, startLine, endLine, asked, section, newlines, color, step>>

Section(c, lines, looksUp) == [color |-> c, lines |-> lines, looksUp |-> looksUp]

(* The WITH_COLORs of each branch: the first prints the name or the text   *)
(* of V, the second of an instruction or argument looks up the name of its *)
(* function.                                                               *)
Own(c, lines) == Section(c, V.breaks + lines, FALSE)
Its == Section("green", V.fnBreaks + 1, TRUE)

Sections ==
  CASE V.class = "GlobalVariable" -> <<Own("red", 0)>>
    [] V.class = "GlobalAlias"    -> <<Own("magenta", 0)>>
    [] V.class = "Function"       -> <<Own("green", 0)>>
    [] V.class = "BasicBlock"     -> <<Own("yellow", 0)>>
    [] V.class = "Instruction"    -> <<Own("red", 0), Its>>
    [] V.class = "Argument"       -> <<Own("yellow", 0), Its>>
    [] OTHER -> IF V.named THEN <<Own("yellow", 0)>> ELSE <<Own("red", 1)>>

Now == Sections[section]

PrettyInit ==
  /\ V \in PrintedValues
  /\ startLine \in 0..MaxUnsigned /\ endLine \in 0..MaxUnsigned
  /\ asked = [start |-> startLine, end |-> endLine]
  /\ section = 1 /\ newlines = 0
  /\ color = "plain"
  /\ step = "start"

Null ==
  /\ step = "start" /\ V.class = "null"
  /\ step' = "returned"
  /\ UNCHANGED <<V, startLine, endLine, asked, section, newlines, color>>

StartLine ==
  /\ step = "start" /\ V.class # "null" /\ startLine > 0
  /\ startLine' = startLine - 1
  /\ newlines' = newlines + 1
  /\ UNCHANGED <<V, endLine, asked, section, color, step>>

(* Mutant: every value gets the line that only a variable needs.           *)
OneMoreLineAlways(n) == IF n = MaxUnsigned THEN 0 ELSE n + 1

(* A variable ends its line with one more; endLine++ wraps.                *)
OneMoreLine(n) ==
  IF V.class # "GlobalVariable" THEN n
  ELSE IF n = MaxUnsigned THEN 0 ELSE n + 1

Choose ==
  /\ step = "start" /\ V.class # "null" /\ startLine = 0
  /\ endLine' = OneMoreLine(endLine)
  /\ step' = "text"
  /\ UNCHANGED <<V, startLine, asked, section, newlines, color>>

ChangeColor ==
  /\ step = "text" /\ section <= Len(Sections)
  /\ color' = Now.color
  /\ step' = "inside"
  /\ UNCHANGED <<V, startLine, endLine, asked, section, newlines>>

Text ==
  /\ step = "inside"
  /\ IF Now.looksUp /\ ~ V.attached
     THEN step' = "died" /\ UNCHANGED newlines
     ELSE step' = "reset" /\ newlines' = newlines + Now.lines
  /\ UNCHANGED <<V, startLine, endLine, asked, section, color>>

(* Mutant: the line returns before the colour is reset.                    *)
ResetColorNot ==
  /\ step = "reset"
  /\ section' = section + 1
  /\ step' = "text"
  /\ UNCHANGED <<V, startLine, endLine, asked, newlines, color>>

ResetColor ==
  /\ step = "reset"
  /\ color' = "plain"
  /\ section' = section + 1
  /\ step' = "text"
  /\ UNCHANGED <<V, startLine, endLine, asked, newlines>>

TextDone ==
  /\ step = "text" /\ section > Len(Sections)
  /\ step' = "end"
  /\ UNCHANGED <<V, startLine, endLine, asked, section, newlines, color>>

EndLine ==
  /\ step = "end" /\ endLine > 0
  /\ endLine' = endLine - 1
  /\ newlines' = newlines + 1
  /\ UNCHANGED <<V, startLine, asked, section, color, step>>

Return ==
  /\ step = "end" /\ endLine = 0
  /\ step' = "returned"
  /\ UNCHANGED <<V, startLine, endLine, asked, section, newlines, color>>

PrettyNext ==
  \/ Null \/ StartLine \/ Choose \/ ChangeColor \/ Text \/ ResetColor
  \/ TextDone \/ EndLine \/ Return

--------------------------------------------------------------------------------
(* A call that returns, or dies of anything but a detached instruction or  *)
(* argument, leaves the terminal in its own colour.                        *)
ColorComesBack ==
  step \in {"start", "text", "end", "returned", "died"} /\ color # "plain" =>
    step = "died" /\ V.class \in {"Instruction", "Argument"} /\ ~ V.attached

(* However a value is shown, it ends its line exactly if nothing else can  *)
(* stand there (a variable's, an instruction's, an argument's, a constant  *)
(* without a name); the lines in its text, in its function's name and the  *)
(* lines asked for come on top.  Asked for the largest number of them      *)
(* after a variable, it ends not even that line.                           *)
OwnLine ==
  IF \/ V.class \in {"GlobalVariable", "Instruction", "Argument"}
     \/ V.class = "Constant" /\ ~ V.named
  THEN 1 ELSE 0

InText ==
  IF V.class \in {"Instruction", "Argument"} THEN V.breaks + V.fnBreaks
  ELSE V.breaks

LinesAsAsked ==
  step = "returned" /\ V.class # "null" =>
    newlines = IF V.class = "GlobalVariable" /\ asked.end = MaxUnsigned
               THEN asked.start + InText
               ELSE asked.start + asked.end + InText + OwnLine

================================================================================
