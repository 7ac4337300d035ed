--------------------------------- MODULE ExecCount -----------------------------
(***************************************************************************)
(* What count-bb promises of a program it has instrumented: "Counts no. of *)
(* executed BasicBlocks" (CountExecBB.cc:53).  The number goes up by one   *)
(* for each block executed (by one per run of the pass), and a report      *)
(* shows the number as it is when it is printed.                           *)
(***************************************************************************)
EXTENDS Naturals, Sequences

CONSTANTS
  Modulus,    \* the number is kept modulo this
  Shown(_)    \* what a number looks like when printed

VARIABLES
  weight,     \* how often the pass ran
  executed,   \* blocks executed
  reported    \* the numbers printed

Init == executed = 0 /\ reported = <<>>

Block == executed' = executed + 1 /\ UNCHANGED <<weight, reported>>

Report ==
  /\ reported' = Append(reported, Shown((weight * executed) % Modulus))
  /\ UNCHANGED <<weight, executed>>

Next == Block \/ Report

Spec == Init /\ [][Next]_<<weight, executed, reported>>

================================================================================
