----------------------------- MODULE CFGPathReport -----------------------------
(***************************************************************************)
(* What the cfg-path pass promises, without saying how it searches: for    *)
(* each block of the function, in list order, one line with exactly the    *)
(* other blocks that can be reached from it.  A line is a set: names and   *)
(* separators are layout, and the order inside a line is the list's.       *)
(***************************************************************************)
EXTENDS CFG

CONSTANT Functions   \* control-flow graphs: \A f \in Functions : IsCFG(f)

VARIABLES
  F,       \* the function the pass runs on
  lines    \* the lines printed so far

ReachableOthers(b1) == {b2 \in Blocks(F) : b2 # b1 /\ Reaches(F, b1, b2)}

Init ==
  /\ F \in Functions
  /\ lines = <<>>

PrintLine ==
  /\ Len(lines) < Len(F.blocks)
  /\ lines' = Append(lines, ReachableOthers(F.blocks[Len(lines) + 1]))
  /\ UNCHANGED F

Spec == Init /\ [][PrintLine]_<<F, lines>>

================================================================================
