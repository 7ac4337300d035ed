----------------------------- MODULE MCOptAnalyses -----------------------------
(***************************************************************************)
(* Instances for OptAnalyses: every control-flow graph of three blocks     *)
(* with at most two successors each (repeated successors included), every  *)
(* one of four blocks up to the order of the two successors, and the two   *)
(* graphs drawn in res/FLOW.                                               *)
(***************************************************************************)
EXTENDS OptAnalyses

Targets(n) == 2..n

AnyTwo(n) ==
  {<<>>} \cup {<<x>> : x \in Targets(n)}
         \cup {<<x, y>> : x, y \in Targets(n)}

OrderedTwo(n) ==
  {<<>>} \cup {<<x>> : x \in Targets(n)}
         \cup {<<xy[1], xy[2]>> :
                 xy \in {p \in Targets(n) \X Targets(n) : p[1] < p[2]}}

Graph(n, succLists) ==
  {[blocks |-> [k \in 1..n |-> k], succ |-> s] : s \in [1..n -> succLists]}

(* res/FLOW/f1.dot: entry, while_cond, while_body, exit.                   *)
F1 == [blocks |-> <<1, 2, 3, 4>>,
       succ   |-> <<<<2>>, <<3, 4>>, <<2>>, <<>>>>]

(* res/FLOW/f2.dot: entry, ph, loop_ph, critical, exit.                    *)
F2 == [blocks |-> <<1, 2, 3, 4, 5>>,
       succ   |-> <<<<2, 5>>, <<3>>, <<4>>, <<3, 5>>, <<>>>>]

MCFunctions ==
  Graph(3, AnyTwo(3)) \cup Graph(4, OrderedTwo(4)) \cup {F1, F2}

================================================================================
