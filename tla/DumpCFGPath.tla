------------------------------ MODULE DumpCFGPath ------------------------------
(***************************************************************************)
(* The cfg-path pass (lib/snippets/DumpCFGPath.cc).  traversePath asks     *)
(* hasPath about every ordered pair of distinct blocks; hasPath is a       *)
(* depth-first search whose set of visited blocks is passed BY VALUE, so   *)
(* each activation owns a copy and what a callee adds is lost when it      *)
(* returns.  The activations of hasPath are the elements of `frames`.      *)
(***************************************************************************)
EXTENDS CFG

CONSTANT Functions   \* the functions the pass may be run on

ASSUME FunctionsAssumption == \A f \in Functions : IsCFG(f)

VARIABLES
  F,         \* the function the pass runs on
  i, j,      \* positions of B1 and B2 in the block list
  visited,   \* the set declared in traversePath
  frames,    \* activations of hasPath: its bb1, its own visited, its pi
  ret,       \* the value the last activation returned
  line,      \* the blocks printed for B1 so far
  lines,     \* the finished lines
  pc         \* pair: in traversePath; succ: in the loop of hasPath;
             \* return: an activation is about to return ret; done

vars == <<F, i, j, visited, frames, ret, line, lines, pc>>

B1 == F.blocks[i]
B2 == F.blocks[j]
Top == frames[Len(frames)]
Below == SubSeq(frames, 1, Len(frames) - 1)

Init ==
  /\ F \in Functions
  /\ i = 1 /\ j = 1
  /\ visited = {}
  /\ frames = <<>>
  /\ ret = FALSE
  /\ line = {}
  /\ lines = <<>>
  /\ pc = "pair"

(* Mutant: the block is not inserted into the activation's set.            *)
CallForgetsBlock(b, V, below) ==
  /\ frames' = Append(below, [bb1 |-> b, visited |-> V, pi |-> 1])
  /\ ret' = (b = B2)
  /\ pc' = IF b = B2 THEN "return" ELSE "succ"

(* hasPath(b, B2, V) is entered on top of the activations `below`: b goes  *)
(* into its copy of V, and it returns at once when b is the target.        *)
Call(b, V, below) ==
  /\ frames' = Append(below, [bb1 |-> b, visited |-> V \cup {b}, pi |-> 1])
  /\ ret' = (b = B2)
  /\ pc' = IF b = B2 THEN "return" ELSE "succ"

--------------------------------------------------------------------------------
(* traversePath *)

SkipSelf ==
  /\ pc = "pair" /\ i <= Len(F.blocks) /\ j <= Len(F.blocks)
  /\ B1 = B2
  /\ j' = j + 1
  /\ UNCHANGED <<F, i, visited, frames, ret, line, lines, pc>>

Query ==
  /\ pc = "pair" /\ i <= Len(F.blocks) /\ j <= Len(F.blocks)
  /\ B1 # B2
  /\ Call(B1, visited, <<>>)
  /\ UNCHANGED <<F, i, j, visited, line, lines>>

(* Mutant: visited passed by reference, as after `BBVisitInfo &visited`.   *)
AnswerByReference ==
  /\ pc = "return" /\ Len(frames) = 1
  /\ frames' = <<>>
  /\ visited' = frames[1].visited
  /\ line' = IF ret THEN line \cup {B2} ELSE line
  /\ j' = j + 1
  /\ pc' = "pair"
  /\ UNCHANGED <<F, i, ret, lines>>

(* The outermost activation returns to traversePath.                       *)
Answer ==
  /\ pc = "return" /\ Len(frames) = 1
  /\ frames' = <<>>
  /\ line' = IF ret THEN line \cup {B2} ELSE line
  /\ j' = j + 1
  /\ pc' = "pair"
  /\ UNCHANGED <<F, i, visited, ret, lines>>

(* Mutant: a line is not ended, the next block goes on with it.            *)
EndLineNoNewline ==
  /\ pc = "pair" /\ i <= Len(F.blocks) /\ j > Len(F.blocks)
  /\ visited' = {}
  /\ i' = i + 1 /\ j' = 1
  /\ UNCHANGED <<F, frames, ret, line, lines, pc>>

EndLine ==
  /\ pc = "pair" /\ i <= Len(F.blocks) /\ j > Len(F.blocks)
  /\ lines' = Append(lines, line)
  /\ line' = {}
  /\ visited' = {}
  /\ i' = i + 1 /\ j' = 1
  /\ UNCHANGED <<F, frames, ret, pc>>

Finish ==
  /\ pc = "pair" /\ i > Len(F.blocks)
  /\ pc' = "done"
  /\ UNCHANGED <<F, i, j, visited, frames, ret, line, lines>>

--------------------------------------------------------------------------------
(* hasPath *)

MoreSuccessors == pc = "succ" /\ Top.pi <= Len(F.succ[Top.bb1])
Successor == F.succ[Top.bb1][Top.pi]
Advance(frame) == [frame EXCEPT !.pi = @ + 1]

(* Mutant: `pi` is not advanced past a visited successor.                  *)
SkipVisitedStuck == MoreSuccessors /\ Successor \in Top.visited /\ UNCHANGED vars

SkipVisited ==
  /\ MoreSuccessors
  /\ Successor \in Top.visited
  /\ frames' = Append(Below, Advance(Top))
  /\ UNCHANGED <<F, i, j, visited, ret, line, lines, pc>>

Descend ==
  /\ MoreSuccessors
  /\ Successor \notin Top.visited
  /\ Call(Successor, Top.visited, frames)
  /\ UNCHANGED <<F, i, j, visited, line, lines>>

Exhausted ==
  /\ pc = "succ" /\ ~ MoreSuccessors
  /\ ret' = FALSE
  /\ pc' = "return"
  /\ UNCHANGED <<F, i, j, visited, frames, line, lines>>

(* Mutant: the early return is missing, the loop overwrites `reachable`.   *)
ReturnTrueKeepsLooking ==
  /\ pc = "return" /\ Len(frames) > 1 /\ ret
  /\ frames' = [Below EXCEPT ![Len(frames) - 1] = Advance(@)]
  /\ pc' = "succ"
  /\ UNCHANGED <<F, i, j, visited, ret, line, lines>>

(* A recursive call is over: a caller that was told TRUE returns TRUE      *)
(* itself, one that was told FALSE goes on with its next successor.        *)
ReturnTrue ==
  /\ pc = "return" /\ Len(frames) > 1 /\ ret
  /\ frames' = Below
  /\ UNCHANGED <<F, i, j, visited, ret, line, lines, pc>>

ReturnFalse ==
  /\ pc = "return" /\ Len(frames) > 1 /\ ~ ret
  /\ frames' = [Below EXCEPT ![Len(frames) - 1] = Advance(@)]
  /\ pc' = "succ"
  /\ UNCHANGED <<F, i, j, visited, ret, line, lines>>

Done == pc = "done" /\ UNCHANGED vars

Next ==
  \/ SkipSelf \/ Query \/ Answer \/ EndLine \/ Finish
  \/ SkipVisited \/ Descend \/ Exhausted \/ ReturnTrue \/ ReturnFalse
  \/ Done

Spec == Init /\ [][Next]_vars

(* The pass is one sequential computation: while it can step, it steps.    *)
FairSpec == Spec /\ WF_vars(Next)

--------------------------------------------------------------------------------
(* Every variable has its type; a finished line per finished block.        *)
Frame == [bb1 : Blocks(F), visited : SUBSET Blocks(F), pi : Nat \ {0}]

TypeOK ==
  /\ IsCFG(F)
  /\ i \in 1..Len(F.blocks) + 1
  /\ j \in 1..Len(F.blocks) + 1
  /\ visited \in SUBSET Blocks(F)
  /\ frames \in Seq(Frame)
  /\ ret \in BOOLEAN
  /\ line \in SUBSET Blocks(F)
  /\ lines \in Seq(SUBSET Blocks(F))
  /\ Len(lines) = i - 1
  /\ pc \in {"pair", "succ", "return", "done"}

CallerVisited(k) == IF k = 1 THEN visited ELSE frames[k - 1].visited

(* The copies made by passing `visited` by value keep the search on simple *)
(* paths: an activation's set is its caller's plus its own block, which    *)
(* the caller had not visited, and it runs for the successor its caller is *)
(* looking at.                                                             *)
StackIsSimplePath ==
  \A k \in 1..Len(frames) :
    /\ frames[k].bb1 \notin CallerVisited(k)
    /\ frames[k].visited = CallerVisited(k) \cup {frames[k].bb1}
    /\ k = 1 => frames[k].bb1 = B1
    /\ k > 1 => LET caller == frames[k - 1] IN
                  /\ caller.pi <= Len(F.succ[caller.bb1])
                  /\ frames[k].bb1 = F.succ[caller.bb1][caller.pi]

(* A successor an activation has passed over is one from which B2 can only *)
(* be reached through blocks of that activation's own set: forgetting what *)
(* the callees visited loses no path.                                      *)
PassedOverIsDeadEnd ==
  \A k \in 1..Len(frames) : \A m \in 1..(frames[k].pi - 1) :
    LET s == F.succ[frames[k].bb1][m] IN
      s \in frames[k].visited \/ DeadEnd(F, s, frames[k].visited, B2)

(* A TRUE on its way up is a path, a FALSE excludes every path that avoids *)
(* the blocks the caller has visited.                                      *)
ReturnedValueRight ==
  pc = "return" =>
    IF ret THEN Reaches(F, B1, B2)
           ELSE DeadEnd(F, Top.bb1, CallerVisited(Len(frames)), B2)

(* What else holds between the steps of a query: traversePath's own set    *)
(* never receives what the activations collect, every activation runs for  *)
(* a block reached from B1, and B2 can only be the block of an activation  *)
(* that is returning TRUE.                                                 *)
QueryInProgress ==
  /\ visited = {}
  /\ frames = <<>> <=> pc \in {"pair", "done"}
  /\ pc = "done" => i = Len(F.blocks) + 1
  /\ frames # <<>> => i <= Len(F.blocks) /\ j <= Len(F.blocks) /\ B1 # B2
  /\ \A k \in 1..Len(frames) :
       /\ Reaches(F, B1, frames[k].bb1)
       /\ frames[k].pi <= Len(F.succ[frames[k].bb1]) + 1
       /\ frames[k].bb1 = B2 => pc = "return" /\ ret

(* The line under way holds the reached blocks among the first j - 1.      *)
LineSoFar ==
  i <= Len(F.blocks) =>
    line = {b \in Blocks(F) : /\ \E m \in 1..(j - 1) : b = F.blocks[m]
                              /\ b # B1
                              /\ Reaches(F, B1, b)}

(* The inductive invariant: what traversePath, hasPath and the output      *)
(* agree on between any two steps.                                         *)
IInv ==
  /\ TypeOK
  /\ StackIsSimplePath
  /\ PassedOverIsDeadEnd
  /\ ReturnedValueRight
  /\ QueryInProgress
  /\ LineSoFar

(* The pass prints exactly what CFGPathReport promises.                    *)
Report == INSTANCE CFGPathReport
ImplementsReport == Report!Spec

(* The pass terminates on every function, cyclic ones included.            *)
Terminates == <>(pc = "done")

================================================================================
