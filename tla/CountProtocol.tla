------------------------------ MODULE CountProtocol ----------------------------
(***************************************************************************)
(* The protocol by which the threads of an instrumented program share      *)
(* bbCounter, and nothing else of that program: what runOnBasicBlock       *)
(* inserts (load, add one, store) is three steps of a thread, and what     *)
(* create_atexitCall inserts (load, printf) two.  Any number of threads,   *)
(* any program around them; a thread may stop anywhere for ever.           *)
(***************************************************************************)
EXTENDS Naturals, Sequences

CONSTANTS
  Threads,
  Modulus,    \* the counter's type holds 0 .. Modulus - 1
  Shown(_)    \* what a number looks like when printed

(* What the proofs need of it: a type of at least one bit.                 *)
HasWidth == Modulus \in Nat \ {0, 1}

VARIABLES
  counter,    \* bbCounter
  reg,        \* per thread: the SSA value of the load or the add
  at,         \* per thread: idle, loaded, added
  stores,     \* ghost: increments carried out, by any thread
  reported    \* ghost: the numbers printed

vars == <<counter, reg, at, stores, reported>>

Words == 0..Modulus - 1

Init ==
  /\ counter = 0
  /\ reg = [t \in Threads |-> 0]
  /\ at = [t \in Threads |-> "idle"]
  /\ stores = 0
  /\ reported = <<>>

Load(t) ==
  /\ at[t] = "idle"
  /\ reg' = [reg EXCEPT ![t] = counter]
  /\ at' = [at EXCEPT ![t] = "loaded"]
  /\ UNCHANGED <<counter, stores, reported>>

(* An add of the counter's width wraps round.                              *)
Wrap(n) == IF n = Modulus THEN 0 ELSE n

Add(t) ==
  /\ at[t] = "loaded"
  /\ reg' = [reg EXCEPT ![t] = Wrap(@ + 1)]
  /\ at' = [at EXCEPT ![t] = "added"]
  /\ UNCHANGED <<counter, stores, reported>>

Store(t) ==
  /\ at[t] = "added"
  /\ counter' = reg[t]
  /\ stores' = stores + 1
  /\ reg' = [reg EXCEPT ![t] = 0]
  /\ at' = [at EXCEPT ![t] = "idle"]
  /\ UNCHANGED reported

(* The value loaded goes to printf instead of into the add.                *)
Report(t) ==
  /\ at[t] = "loaded"
  /\ reported' = Append(reported, Shown(reg[t]))
  /\ reg' = [reg EXCEPT ![t] = 0]
  /\ at' = [at EXCEPT ![t] = "idle"]
  /\ UNCHANGED <<counter, stores>>

Next == \E t \in Threads : Load(t) \/ Add(t) \/ Store(t) \/ Report(t)

Spec == Init /\ [][Next]_vars

--------------------------------------------------------------------------------
(* Every variable but `reported`, whose elements Shown makes, has its type.*)
TypeOK ==
  /\ counter \in Words
  /\ reg \in [Threads -> Words]
  /\ at \in [Threads -> {"idle", "loaded", "added"}]
  /\ stores \in Nat

(* However the threads interleave, updates are only ever lost: neither the *)
(* counter nor a value on its way to printf or back to the counter exceeds *)
(* the increments carried out.                                             *)
NeverAhead ==
  /\ counter <= stores
  /\ \A t \in Threads :
       /\ at[t] = "loaded" => reg[t] <= stores
       /\ at[t] = "added" => reg[t] <= stores + 1

(* No thread is between its load and its store while another one is.       *)
OneAtATime ==
  \A t, u \in Threads : at[t] # "idle" /\ at[u] # "idle" => t = u

(* The counter has lost nothing but what its width loses.  Threads that    *)
(* keep out of each other's way keep this; those that do not may lose it.  *)
Exact == counter = stores % Modulus

(* With one thread this is the counter that count-bb promises.             *)
Promise == INSTANCE ExecCount WITH
  weight   <- 1,
  executed <- stores

================================================================================
