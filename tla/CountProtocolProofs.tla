--------------------------- MODULE CountProtocolProofs -------------------------
(***************************************************************************)
(* What the load/add/store of count-bb guarantees for any number of        *)
(* threads and any width of the counter: it is never ahead of the          *)
(* increments carried out, it is exact as long as threads keep out of each *)
(* other's way, and with one thread it is the counter count-bb promises.   *)
(***************************************************************************)
EXTENDS CountProtocol, TLAPS

LEMMA WrapIsWord ==
  ASSUME HasWidth, NEW n \in Words
  PROVE  /\ Wrap(n + 1) \in Words
         /\ Wrap(n + 1) <= n + 1
BY DEF Words, Wrap, HasWidth

(* Every variable keeps its type, whatever the threads do.                 *)
THEOREM TypeCorrect ==
  ASSUME HasWidth
  PROVE  Spec => []TypeOK
<1>1. Init => TypeOK
  BY DEF Init, TypeOK, Words, HasWidth
<1>2. TypeOK /\ [Next]_vars => TypeOK'
  <2> SUFFICES ASSUME TypeOK, [Next]_vars PROVE TypeOK'
    OBVIOUS
  <2>1. ASSUME NEW t \in Threads, Load(t) PROVE TypeOK'
    BY <2>1 DEF Load, TypeOK
  <2>2. ASSUME NEW t \in Threads, Add(t) PROVE TypeOK'
    <3>1. Wrap(reg[t] + 1) \in Words
      BY WrapIsWord DEF TypeOK
    <3>2. QED
      BY <2>2, <3>1 DEF Add, TypeOK
  <2>3. ASSUME NEW t \in Threads, Store(t) PROVE TypeOK'
    BY <2>3 DEF Store, TypeOK, Words, HasWidth
  <2>4. ASSUME NEW t \in Threads, Report(t) PROVE TypeOK'
    BY <2>4 DEF Report, TypeOK, Words, HasWidth
  <2>5. CASE UNCHANGED vars
    BY <2>5 DEF vars, TypeOK
  <2>6. QED
    BY <2>1, <2>2, <2>3, <2>4, <2>5 DEF Next
<1>3. QED
  BY <1>1, <1>2, PTL DEF Spec

--------------------------------------------------------------------------------
(* A stale register is one that was loaded when there had been fewer       *)
(* stores: so the bound survives every interleaving, with no word about    *)
(* what other threads have loaded.                                         *)
LEMMA NeverAheadNext ==
  ASSUME HasWidth, TypeOK, NeverAhead, [Next]_vars
  PROVE  NeverAhead'
<1> USE DEF TypeOK, NeverAhead, Words
<1>1. ASSUME NEW t \in Threads, Load(t) PROVE NeverAhead'
  BY <1>1 DEF Load
<1>2. ASSUME NEW t \in Threads, Add(t) PROVE NeverAhead'
  <2>1. Wrap(reg[t] + 1) <= reg[t] + 1 /\ Wrap(reg[t] + 1) \in Nat
    BY WrapIsWord
  <2>2. reg[t] <= stores
    BY <1>2 DEF Add
  <2>3. QED
    BY <1>2, <2>1, <2>2 DEF Add
<1>3. ASSUME NEW t \in Threads, Store(t) PROVE NeverAhead'
  BY <1>3 DEF Store, HasWidth
<1>4. ASSUME NEW t \in Threads, Report(t) PROVE NeverAhead'
  BY <1>4 DEF Report
<1>5. CASE UNCHANGED vars
  BY <1>5 DEF vars
<1>6. QED
  BY <1>1, <1>2, <1>3, <1>4, <1>5 DEF Next

(* No interleaving of any number of threads makes the counter, or a value  *)
(* on its way to printf, exceed the number of increments carried out.      *)
THEOREM NeverOvercountsByRaces ==
  ASSUME HasWidth
  PROVE  Spec => []NeverAhead
<1>1. Init => NeverAhead
  BY DEF Init, NeverAhead
<1>2. QED
  BY <1>1, NeverAheadNext, TypeCorrect, PTL DEF Spec

--------------------------------------------------------------------------------
(* A remainder is unique: the quotients of one number cannot differ.       *)
LEMMA UniqueRemainder ==
  ASSUME NEW m \in Nat, m > 0, NEW q \in Nat, NEW p \in Nat,
         NEW r \in 0..m - 1, NEW s \in 0..m - 1,
         m * q + r = m * p + s
  PROVE  r = s
<1>1. ASSUME NEW x \in Nat, NEW y \in Nat, NEW v \in 0..m - 1,
             NEW w \in 0..m - 1, x < y, m * x + v = m * y + w
      PROVE  FALSE
  <2>1. y = x + 1 + (y - x - 1) /\ y - x - 1 \in Nat
    BY <1>1
  <2> DEFINE d == y - x - 1
  <2>2. m * (x + 1 + d) = m * x + m + m * d
    BY <2>1
  <2>3. m * d >= 0
    BY <2>1
  <2>4. m * x \in Nat /\ m * d \in Nat
    BY <2>1
  <2>5. m * y >= m * x + m
    BY <2>1, <2>2, <2>3, <2>4
  <2>6. QED
    BY <1>1, <2>4, <2>5
<1>2. ~ (q < p) /\ ~ (p < q)
  BY <1>1
<1>3. QED
  BY <1>2

LEMMA DivisionOf ==
  ASSUME HasWidth, NEW n \in Nat
  PROVE  /\ n \div Modulus \in Nat
         /\ n % Modulus \in Words
         /\ n = Modulus * (n \div Modulus) + (n % Modulus)
<1>1. Modulus \in Nat /\ Modulus > 0
  BY DEF HasWidth
<1>2. QED
  BY <1>1 DEF Words

LEMMA RemainderOf ==
  ASSUME HasWidth, NEW n \in Nat, NEW q \in Nat, NEW r \in Words, n = Modulus * q + r
  PROVE  n % Modulus = r
<1>1. Modulus \in Nat /\ Modulus > 0
  BY DEF HasWidth
<1>2. /\ n \div Modulus \in Nat
      /\ n % Modulus \in Words
      /\ n = Modulus * (n \div Modulus) + (n % Modulus)
  BY DivisionOf
<1>3. QED
  BY <1>1, <1>2, UniqueRemainder DEF Words

(* The wrapping add computes modulo the width.                             *)
LEMMA RemainderStep ==
  ASSUME HasWidth, NEW n \in Nat
  PROVE  (n + 1) % Modulus = Wrap((n % Modulus) + 1)
<1> DEFINE q == n \div Modulus
           r == n % Modulus
<1>1. Modulus \in Nat /\ Modulus > 1
  BY DEF HasWidth
<1>2. q \in Nat /\ r \in Words /\ n = Modulus * q + r
  BY DivisionOf
<1>3. CASE r + 1 < Modulus
  <2>1. n + 1 = Modulus * q + (r + 1)
    BY <1>1, <1>2
  <2>2. r + 1 \in Words
    BY <1>1, <1>2, <1>3 DEF Words
  <2>3. (n + 1) % Modulus = r + 1
    BY <1>2, <2>1, <2>2, RemainderOf
  <2>4. QED
    BY <1>1, <1>2, <1>3, <2>3 DEF Wrap
<1>4. CASE r + 1 = Modulus
  <2>1. n + 1 = Modulus * (q + 1) + 0
    BY <1>1, <1>2, <1>4
  <2>2. 0 \in Words
    BY <1>1 DEF Words
  <2>3. (n + 1) % Modulus = 0
    BY <1>2, <2>1, <2>2, RemainderOf
  <2>4. QED
    BY <1>4, <2>3 DEF Wrap
<1>5. QED
  BY <1>1, <1>2, <1>3, <1>4 DEF Words

LEMMA NoStoresNoRemainder ==
  ASSUME HasWidth
  PROVE  0 % Modulus = 0
BY RemainderOf DEF Words, HasWidth

--------------------------------------------------------------------------------
(* Serial threads.  Exact is not inductive: it says nothing of the value a *)
(* thread is about to store, which is right as long as no other thread     *)
(* has stored since it was loaded - that is, as long as no other is at it. *)
ExactRegisters ==
  /\ Exact
  /\ \A t \in Threads :
       /\ at[t] = "loaded" => reg[t] = stores % Modulus
       /\ at[t] = "added" => reg[t] = (stores + 1) % Modulus

LEMMA ExactNext ==
  ASSUME HasWidth, TypeOK, OneAtATime, ExactRegisters, [Next]_vars
  PROVE  ExactRegisters'
<1> USE DEF ExactRegisters, Exact
<1>1. ASSUME NEW t \in Threads, Load(t) PROVE ExactRegisters'
  BY <1>1 DEF Load, TypeOK
<1>2. ASSUME NEW t \in Threads, Add(t) PROVE ExactRegisters'
  <2>1. Wrap(reg[t] + 1) = (stores + 1) % Modulus
    BY <1>2, RemainderStep DEF Add, TypeOK
  <2>2. QED
    BY <1>2, <2>1 DEF Add, TypeOK
<1>3. ASSUME NEW t \in Threads, Store(t) PROVE ExactRegisters'
  <2>1. \A u \in Threads : u # t => at[u] = "idle"
    BY <1>3 DEF Store, OneAtATime, TypeOK
  <2>2. \A u \in Threads : at'[u] = "idle"
    BY <1>3, <2>1 DEF Store, TypeOK
  <2>3. counter' = stores' % Modulus
    BY <1>3 DEF Store
  <2>4. QED
    BY <2>2, <2>3
<1>4. ASSUME NEW t \in Threads, Report(t) PROVE ExactRegisters'
  BY <1>4 DEF Report, TypeOK
<1>5. CASE UNCHANGED vars
  BY <1>5 DEF vars
<1>6. QED
  BY <1>1, <1>2, <1>3, <1>4, <1>5 DEF Next

LEMMA ExactInit ==
  ASSUME HasWidth, Init
  PROVE  ExactRegisters
BY NoStoresNoRemainder DEF Init, ExactRegisters, Exact

(* Any number of threads that never overlap in the counting code, as those *)
(* that are joined before the next one starts, lose no update.             *)
THEOREM SerialThreadsLoseNothing ==
  ASSUME HasWidth
  PROVE  Spec /\ []OneAtATime => []Exact
<1>1. ExactRegisters => Exact
  BY DEF ExactRegisters
<1>2. QED
  BY <1>1, ExactInit, ExactNext, TypeCorrect, PTL DEF Spec

--------------------------------------------------------------------------------
LEMMA AloneIsSerial ==
  ASSUME NEW t, Threads = {t}
  PROVE  OneAtATime
BY DEF OneAtATime

(* With a single thread the instructions that count-bb inserts implement   *)
(* its promise: the printed number is that of the increments carried out.  *)
THEOREM AloneImplementsPromise ==
  ASSUME HasWidth, NEW t, Threads = {t}
  PROVE  Spec => Promise!Spec
<1>1. Init => Promise!Init
  BY DEF Init, Promise!Init
<1>2. ASSUME TypeOK, ExactRegisters, [Next]_vars
      PROVE  [Promise!Next]_<<1, stores, reported>>
  <2>1. ASSUME NEW u \in Threads, Store(u) PROVE Promise!Block
    BY <2>1 DEF Store, Promise!Block
  <2>2. ASSUME NEW u \in Threads, Report(u) PROVE Promise!Report
    <3>1. reg[u] = stores % Modulus
      BY <1>2, <2>2 DEF Report, ExactRegisters
    <3>2. reported' = Append(reported, Shown(reg[u]))
      BY <2>2 DEF Report
    <3>3. (1 * stores) % Modulus = stores % Modulus
      BY <1>2 DEF TypeOK
    <3>4. QED
      BY <2>2, <3>1, <3>2, <3>3 DEF Report, Promise!Report
  <2>3. ASSUME NEW u \in Threads, Load(u) \/ Add(u)
        PROVE  UNCHANGED <<1, stores, reported>>
    BY <2>3 DEF Load, Add
  <2>4. QED
    BY <1>2, <2>1, <2>2, <2>3 DEF Next, vars, Promise!Next
<1>3. []OneAtATime
  BY AloneIsSerial, PTL
<1>4. QED
  BY <1>1, <1>2, <1>3, ExactInit, ExactNext, TypeCorrect, PTL
     DEF Spec, Promise!Spec

================================================================================
