--------------------------------- MODULE CountLI -------------------------------
(***************************************************************************)
(* The count-li pass (lib/snippets/CountLI.cc): for a function with loops, *)
(* each block, and under a block in a loop the preheader of its innermost  *)
(* loop, twice if there is one.  The loops are LLVM's natural loops        *)
(* (LoopInfo, external), defined here over the control-flow graph: a loop  *)
(* has a header that dominates the blocks branching back to it.            *)
(***************************************************************************)
EXTENDS CFG, FiniteSets

VARIABLES
  F,          \* the function
  LI,         \* the loops: per header, the blocks of its loop
  blockAt,    \* the position of the next block
  report,     \* per printed block: its preheader lines
  noLoop,     \* "no loop inside" is printed
  counting    \* required: LoopInfo is yet to run; running; done

countVars == <<LI, blockAt, report, noLoop, counting>>

Entry == F.blocks[1]
Reachable == {b \in Blocks(F) : Reaches(F, Entry, b)}

(* Every path from the entry to b runs through a; in particular, b = a.    *)
Dominates(a, b) == a = b \/ a = Entry \/ DeadEnd(F, Entry, {a}, b)

(* A latch branches back to a header that dominates it; the loop is what   *)
(* reaches a latch without passing the header.                             *)
LoopInfo ==
  LET Latches == [h \in Reachable |-> {p \in Reachable : /\ h \in Succs(F, p)
                                                         /\ Dominates(h, p)}]
      Headers == {h \in Reachable : Latches[h] # {}}
  IN  [h \in Headers |->
         {h} \cup {b \in Reachable : \E l \in Latches[h] : ~ DeadEnd(F, b, {h}, l)}]

HeadersOf(b) == {h \in DOMAIN LI : b \in LI[h]}

(* Loops are nested or disjoint: the innermost has the fewest blocks.      *)
InnermostHeader(b) ==
  CHOOSE h \in HeadersOf(b) :
    \A g \in HeadersOf(b) : Cardinality(LI[h]) <= Cardinality(LI[g])

Outside(h) == {p \in Blocks(F) \ LI[h] : h \in Succs(F, p)}

(* getLoopPreheader: the one block outside that branches to the header and *)
(* nowhere else, as a set of at most one block.                            *)
Preheaders(h) ==
  {p \in Outside(h) : Outside(h) = {p} /\ F.succ[p] = <<h>>}

CountInit ==
  /\ LI = <<>>
  /\ blockAt = 1
  /\ report = <<>>
  /\ noLoop = FALSE
  /\ counting = "required"

(* addRequired: the analysis runs before the pass.                         *)
Analysis ==
  /\ counting = "required"
  /\ LI' = LoopInfo
  /\ counting' = "running"
  /\ UNCHANGED <<F, blockAt, report, noLoop>>

NoLoopInside ==
  /\ counting = "running" /\ DOMAIN LI = {}
  /\ noLoop' = TRUE /\ counting' = "done"
  /\ UNCHANGED <<F, LI, blockAt, report>>

(* Mutant: the header is asked for in place of the preheader.              *)
LinesForHeader(b) ==
  LET headers == IF HeadersOf(b) = {} THEN {} ELSE {InnermostHeader(b)}
  IN  [block |-> b, pred |-> headers, preheader |-> headers]

(* The lines "pred" and "preheader" are of the same function's result.     *)
LinesFor(b) ==
  LET preheaders == IF HeadersOf(b) = {} THEN {}
                    ELSE Preheaders(InnermostHeader(b))
  IN  [block |-> b, pred |-> preheaders, preheader |-> preheaders]

Block ==
  /\ counting = "running" /\ blockAt <= Len(F.blocks) /\ DOMAIN LI # {}
  /\ report' = Append(report, LinesFor(F.blocks[blockAt]))
  /\ blockAt' = blockAt + 1
  /\ UNCHANGED <<F, LI, noLoop, counting>>

BlocksDone ==
  /\ counting = "running" /\ blockAt > Len(F.blocks)
  /\ counting' = "done"
  /\ UNCHANGED <<F, LI, blockAt, report, noLoop>>

CountNext == Analysis \/ NoLoopInside \/ Block \/ BlocksDone

================================================================================
