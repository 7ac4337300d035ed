---------------------------------- MODULE CFG ----------------------------------
(***************************************************************************)
(* Control-flow graphs of functions, as the passes under lib/snippets see  *)
(* them: the block list that `for (auto &B : F)` walks and the successor   *)
(* list that succ_begin/succ_end walk.  A successor may occur more than    *)
(* once (a switch with two cases to one block), and no block branches back *)
(* to the entry block: the verifier of LLVM rejects such a function.       *)
(*                                                                         *)
(* Reachability is defined without recursion, by closed sets, so that the  *)
(* same definition serves TLC and the proofs.                              *)
(***************************************************************************)
EXTENDS Naturals, Sequences

Blocks(F) == {F.blocks[k] : k \in 1..Len(F.blocks)}

Succs(F, b) == {F.succ[b][k] : k \in 1..Len(F.succ[b])}

IsCFG(F) ==
  /\ F.blocks \in Seq(Blocks(F))
  /\ F.blocks # <<>>
  /\ \A k, m \in 1..Len(F.blocks) : F.blocks[k] = F.blocks[m] => k = m
  /\ F.succ \in [Blocks(F) -> Seq(Blocks(F))]
  /\ \A b \in Blocks(F) : F.blocks[1] \notin Succs(F, b)

(* S is left by no edge, except into V.                                    *)
ClosedBut(F, S, V) == \A x \in S : Succs(F, x) \subseteq S \cup V

(* b is reached from a along edges: no closed set separates them.          *)
Reaches(F, a, b) ==
  \A S \in SUBSET Blocks(F) : a \in S /\ ClosedBut(F, S, {}) => b \in S

(* Every path from n to t runs through a block of V.                       *)
DeadEnd(F, n, V, t) ==
  \E S \in SUBSET Blocks(F) : n \in S /\ t \notin S /\ ClosedBut(F, S, V)

================================================================================
