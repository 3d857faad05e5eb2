------------------------ MODULE TreePassClockProofs ------------------------
(***************************************************************************)
(* What becomes of an entry whose count has carried above its clock, for   *)
(* any number of readers and accesses.  The run clock_carry shows how two  *)
(* readers carry it; here it is shown that the hand never undoes it.       *)
(***************************************************************************)
EXTENDS TreePassClock, TLAPS

\* The count fits into its bits of the status word.
CountInv == count \in 0 .. CountModulus - 1

\* There are more bits for the count than the clock has.
LEMMA MaxFits == CountModulus \in Nat /\ CLOCK_MAX \in Nat /\ CLOCK_MAX + 1 < CountModulus
  BY DEF CountModulus, CLOCK_MAX

\* What is below the modulus is what the masks leave.
LEMMA Low ==
  ASSUME NEW m \in Nat, NEW n \in Nat, n < m
  PROVE  n % m = n
<1> DEFINE q == n \div m
           k == n % m
<1>1. q \in Int /\ k \in Int /\ 0 <= k /\ k < m /\ n = m * q + k
  OBVIOUS
<1> HIDE DEF q, k
<1>2. CASE q >= 1
  <2>1. m * q >= m
    BY <1>1, <1>2
  <2> QED
    BY <1>1, <2>1
<1>3. CASE q <= -1
  <2>1. m * (0 - q) >= m
    BY <1>1, <1>3
  <2>2. m * q = 0 - m * (0 - q)
    BY <1>1
  <2> QED
    BY <1>1, <2>1, <2>2
<1>4. CASE q = 0
  BY <1>1, <1>4
<1>5. k = n
  BY <1>1, <1>2, <1>3, <1>4
<1> QED
  BY <1>5 DEF k

\* Subtracting one is adding all bits.
LEMMA OneLess ==
  ASSUME NEW m \in Nat, NEW n \in Nat, 1 <= n, n < m
  PROVE  (n + m - 1) % m = n - 1
<1> DEFINE q == (n + m - 1) \div m
           k == (n + m - 1) % m
<1>1. q \in Int /\ k \in Int /\ 0 <= k /\ k < m /\ n + m - 1 = m * q + k
  OBVIOUS
<1> HIDE DEF q, k
<1>2. CASE q >= 2
  <2>1. m * q >= m * 2
    BY <1>1, <1>2
  <2> QED
    BY <1>1, <2>1
<1>3. CASE q <= 0
  <2>1. m * (0 - q) >= 0
    BY <1>1, <1>3
  <2>2. m * q = 0 - m * (0 - q)
    BY <1>1
  <2> QED
    BY <1>1, <2>1, <2>2
<1>4. CASE q = 1
  BY <1>1, <1>4
<1>5. k = n - 1
  BY <1>1, <1>2, <1>3, <1>4
<1> QED
  BY <1>5 DEF k

\* The count is reduced to its bits after every access.
LEMMA CountStep == CountInv /\ [Next]_vars => CountInv'
<1> SUFFICES ASSUME CountInv, [Next]_vars PROVE CountInv'
  OBVIOUS
<1>1. CountModulus \in Nat /\ 8 < CountModulus /\ count \in Nat /\ count < CountModulus
  BY MaxFits DEF CountInv, CLOCK_MAX
<1> HIDE DEF CountModulus
<1>2. CASE LowerClock
  BY <1>1, <1>2 DEF LowerClock, CountInv
<1>3. ASSUME NEW c \in InitialClock, Install(c)
      PROVE  CountInv'
  BY <1>1, <1>3 DEF Install, InitialClock, CountInv, CLOCK_MAX
<1>4. ASSUME NEW r \in Reader, RaiseClock(r)
      PROVE  CountInv'
  BY <1>1, <1>4 DEF RaiseClock, CountInv
<1>5. ASSUME UNCHANGED count PROVE CountInv'
  BY <1>5 DEF CountInv
<1>6. ASSUME NEW r \in Reader, Enter(r) \/ ReadClock(r) \/ Conflict(r)
      PROVE  UNCHANGED count
  BY <1>6 DEF Enter, ReadClock, Conflict
<1>7. DecLoad \/ FastTest \/ TryLock \/ Verify \/ NextPass \/ UNCHANGED vars => UNCHANGED count
  BY DEF DecLoad, FastTest, TryLock, Verify, NextPass, vars
<1> QED
  BY <1>2, <1>3, <1>4, <1>5, <1>6, <1>7 DEF Next, Sweep, Access

\* No access lowers a carried count to a value of the clock, evicts the page
\* or finds the entry free.
LEMMA CarriedStep ==
  ASSUME CountInv, [Next]_vars, Carried, count < CountModulus - 1
  PROVE  Carried' /\ state' = state
<1>1. /\ CountModulus \in Nat /\ 8 < CountModulus /\ CLOCK_MAX = 7
      /\ count \in Nat /\ 8 <= count /\ count < CountModulus - 1 /\ (count = 8 => sweep # "dec")
  BY MaxFits DEF CountInv, CLOCK_MAX, Carried
<1> HIDE DEF CountModulus, CLOCK_MAX
<1>2. CASE DecLoad
  <2>1. count = 8 => Clock = 0
    BY <1>1 DEF Clock
  <2> QED
    BY <1>1, <1>2, <2>1 DEF DecLoad, Carried
<1>3. CASE LowerClock
  <2>1. count >= 9 /\ count' = count - 1
    BY <1>1, <1>3, OneLess DEF LowerClock
  <2> QED
    BY <1>1, <1>3, <2>1 DEF LowerClock, Carried
<1>4. CASE FastTest \/ TryLock \/ Verify \/ NextPass
  BY <1>1, <1>4 DEF FastTest, TryLock, Verify, NextPass, Carried
<1>5. ASSUME NEW c \in InitialClock, Install(c)
      PROVE  FALSE
  BY <1>1, <1>5 DEF Install
<1>6. ASSUME NEW r \in Reader, Access(r)
      PROVE  Carried' /\ state' = state
  <2>1. CASE Enter(r) \/ ReadClock(r) \/ Conflict(r)
    BY <1>1, <2>1 DEF Enter, ReadClock, Conflict, Carried
  <2>2. CASE RaiseClock(r)
    <3>1. count + 1 < CountModulus /\ (count + 1) % CountModulus = count + 1
      BY <1>1, Low
    <3>2. count' \in {count, count + 1} /\ sweep' = sweep /\ state' = state
      BY <2>2, <3>1 DEF RaiseClock
    <3> QED
      BY <1>1, <3>2 DEF Carried
  <2> QED
    BY <1>6, <2>1, <2>2 DEF Access
<1>7. CASE UNCHANGED vars
  BY <1>1, <1>7 DEF vars, Carried
<1> QED
  BY <1>2, <1>3, <1>4, <1>5, <1>6, <1>7 DEF Next, Sweep

(***************************************************************************)
(* "Overflow beyond TP_CLOCK_MAX is safe (handled in eviction)", says the  *)
(* comment on treepass_set_clock_accessed.  Eviction does not handle it:   *)
(* for any number of readers, whatever they, the hand and the search for a *)
(* free entry do, a page whose count has carried is never evicted, and a   *)
(* freed entry is never used again, until the count of accesses wraps.     *)
(***************************************************************************)
THEOREM CarriedEntryIsStuck == Spec => CarriedStays
<1>1. Init => CountInv
  BY MaxFits DEF Init, CountInv
<1>2. CountInv /\ [Next]_vars =>
        [Carried /\ count < CountModulus - 1 => Carried' /\ state' = state]_vars
  BY CarriedStep
<1> QED
  BY <1>1, <1>2, CountStep, PTL DEF Spec, CarriedStays
=============================================================================
