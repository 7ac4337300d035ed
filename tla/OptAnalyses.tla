------------------------------- MODULE OptAnalyses -----------------------------
(***************************************************************************)
(* `opt -count-li -cfg-path`: opt runs the two function passes one after   *)
(* the other on the same function, which neither of them changes.  What    *)
(* the one prints about loops must agree with what the other prints about  *)
(* reachability.                                                           *)
(***************************************************************************)
EXTENDS DumpCFGPath

VARIABLES LI, blockAt, report, noLoop, counting   \* as in CountLI

Loops == INSTANCE CountLI

countVars == <<LI, blockAt, report, noLoop, counting>>
searchVars == <<i, j, visited, frames, ret, line, lines, pc>>
optVars == <<vars, countVars>>

OptInit == Init /\ Loops!CountInit

CountLIStep == Loops!CountNext /\ UNCHANGED searchVars

CFGPathStep == counting = "done" /\ Next /\ UNCHANGED countVars

OptNext == CountLIStep \/ CFGPathStep

OptSpec == OptInit /\ [][OptNext]_optVars

(* opt is one sequential computation.                                      *)
FairOptSpec == OptSpec /\ WF_optVars(OptNext)

--------------------------------------------------------------------------------
LineOf(b) == lines[CHOOSE k \in 1..Len(F.blocks) : F.blocks[k] = b]

(* The two outputs agree: the preheader count-li prints for a block is one *)
(* block, from which cfg-path prints that the block can be reached, and    *)
(* its only successor is on a cycle with the block; and a function said to *)
(* have no loop has no block that branches to itself.                      *)
LoopsAgreeWithPaths ==
  pc = "done" =>
    /\ \A k \in DOMAIN report : \A p \in report[k].preheader :
         LET b == report[k].block
             header == F.succ[p][1]
         IN  /\ report[k].preheader = {p} /\ p # b
             /\ b \in LineOf(p)
             /\ b # header => b \in LineOf(header) /\ header \in LineOf(b)
    /\ noLoop => \A b \in Blocks(F) : Reaches(F, F.blocks[1], b) => b \notin Succs(F, b)

================================================================================
