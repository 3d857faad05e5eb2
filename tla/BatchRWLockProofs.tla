-------------------------- MODULE BatchRWLockProofs --------------------------
(***************************************************************************)
(* BatchRWLock implements RWLock for every number of threads.              *)
(***************************************************************************)
EXTENDS BatchRWLock, TLAPS

\* The walk of lock() from the first counter to the last.
LEMMA Walk ==
    /\ 0 \in Thread
    /\ \A u \in Thread : ~(u < 0)
    /\ \A k \in Thread : k # MAX_THREADS - 1 => k + 1 \in Thread
    /\ \A u, k \in Thread : u < k + 1 => u < k \/ u = k
    /\ \A u \in Thread : u < MAX_THREADS - 1 \/ u = MAX_THREADS - 1
  BY ThreadsAssumption DEF Thread

\* The lock starts with all bytes clear and nobody in an operation.
LEMMA InitInv == Init => Inv
  <1> SUFFICES ASSUME Init PROVE Inv
    OBVIOUS
  <1> USE DEF Init
  <1>1. TypeOK
    BY Walk DEF TypeOK, PC
  <1>2. BytesExact
    BY DEF BytesExact, Counted, Claiming, Locking
  <1>3. ClaimUnique /\ NoReaderBehind
    BY DEF ClaimUnique, NoReaderBehind, Claiming, Reading
  <1> QED
    BY <1>1, <1>2, <1>3 DEF Inv

\* Every access of every operation preserves the inductive invariant.
LEMMA StepInv == Inv /\ [Next]_vars => Inv'
  <1> SUFFICES ASSUME Inv, [Next]_vars PROVE Inv'
    OBVIOUS
  <1> USE DEF Inv, Goto, Raise, Lower
  <1>1. ASSUME NEW t \in Thread, Get(t) PROVE Inv'
    BY <1>1 DEF Get, TypeOK, BytesExact, ClaimUnique, NoReaderBehind, PC,
       Counted, Reading, Claiming, Locking
  <1>2. ASSUME NEW t \in Thread, GetWait(t) PROVE Inv'
    BY <1>2 DEF GetWait, TypeOK, BytesExact, ClaimUnique, NoReaderBehind, PC,
       Counted, Reading, Claiming, Locking
  <1>3. ASSUME NEW t \in Thread, GetInc(t) PROVE Inv'
    <2>1. TypeOK'
      BY <1>3 DEF GetInc, TypeOK, BytesExact, PC, Counted, Reading, Claiming
    <2>2. BytesExact'
      BY <1>3, <2>1 DEF GetInc, TypeOK, BytesExact, ClaimUnique, Counted,
         Claiming, Locking
    <2>3. ClaimUnique'
      BY <1>3 DEF GetInc, TypeOK, BytesExact, ClaimUnique, Claiming
    <2>4. NoReaderBehind'
      BY <1>3 DEF GetInc, TypeOK, BytesExact, ClaimUnique, NoReaderBehind,
         Counted, Reading, Claiming, Locking
    <2> QED
      BY <2>1, <2>2, <2>3, <2>4
  <1>4. ASSUME NEW t \in Thread, GetRetest(t) PROVE Inv'
    <2>1. TypeOK'
      BY <1>4 DEF GetRetest, TypeOK, BytesExact, PC, Counted, Reading, Claiming
    <2>2. BytesExact'
      BY <1>4, <2>1 DEF GetRetest, TypeOK, BytesExact, ClaimUnique, Counted,
         Claiming, Locking
    <2>3. ClaimUnique'
      BY <1>4 DEF GetRetest, TypeOK, BytesExact, ClaimUnique, Claiming
    <2>4. NoReaderBehind'
      BY <1>4 DEF GetRetest, TypeOK, BytesExact, ClaimUnique, NoReaderBehind,
         Counted, Reading, Claiming, Locking
    <2> QED
      BY <2>1, <2>2, <2>3, <2>4
  <1>5. ASSUME NEW t \in Thread, GetRetry(t) PROVE Inv'
    <2>1. TypeOK'
      BY <1>5 DEF GetRetry, TypeOK, BytesExact, PC, Counted, Reading, Claiming
    <2>2. BytesExact'
      BY <1>5, <2>1 DEF GetRetry, TypeOK, BytesExact, ClaimUnique, Counted,
         Claiming, Locking
    <2>3. ClaimUnique'
      BY <1>5 DEF GetRetry, TypeOK, BytesExact, ClaimUnique, Claiming
    <2>4. NoReaderBehind'
      BY <1>5 DEF GetRetry, TypeOK, BytesExact, ClaimUnique, NoReaderBehind,
         Counted, Reading, Claiming, Locking
    <2> QED
      BY <2>1, <2>2, <2>3, <2>4
  <1>6. ASSUME NEW t \in Thread, Unget(t) PROVE Inv'
    <2>1. TypeOK'
      BY <1>6 DEF Unget, TypeOK, BytesExact, PC, Counted, Reading, Claiming
    <2>2. BytesExact'
      BY <1>6, <2>1 DEF Unget, TypeOK, BytesExact, ClaimUnique, Counted,
         Claiming, Locking
    <2>3. ClaimUnique'
      BY <1>6 DEF Unget, TypeOK, BytesExact, ClaimUnique, Claiming
    <2>4. NoReaderBehind'
      BY <1>6 DEF Unget, TypeOK, BytesExact, ClaimUnique, NoReaderBehind,
         Counted, Reading, Claiming, Locking
    <2> QED
      BY <2>1, <2>2, <2>3, <2>4
  <1>7. ASSUME NEW t \in Thread, TryClaim(t) PROVE Inv'
    <2>1. TypeOK'
      BY <1>7 DEF TryClaim, TypeOK, BytesExact, PC, Counted, Reading, Claiming
    <2>2. BytesExact'
      BY <1>7, <2>1 DEF TryClaim, TypeOK, BytesExact, ClaimUnique, Counted,
         Claiming, Locking
    <2>3. ClaimUnique'
      BY <1>7 DEF TryClaim, TypeOK, BytesExact, ClaimUnique, Claiming
    <2>4. NoReaderBehind'
      BY <1>7 DEF TryClaim, TypeOK, BytesExact, ClaimUnique, NoReaderBehind,
         Counted, Reading, Claiming, Locking
    <2> QED
      BY <2>1, <2>2, <2>3, <2>4
  <1>8. ASSUME NEW t \in Thread, ClaimDec(t) PROVE Inv'
    <2>1. TypeOK'
      BY <1>8 DEF ClaimDec, TypeOK, BytesExact, PC, Counted, Reading, Claiming
    <2>2. BytesExact'
      BY <1>8, <2>1 DEF ClaimDec, TypeOK, BytesExact, ClaimUnique, Counted,
         Claiming, Locking
    <2>3. ClaimUnique'
      BY <1>8 DEF ClaimDec, TypeOK, BytesExact, ClaimUnique, Claiming
    <2>4. NoReaderBehind'
      BY <1>8 DEF ClaimDec, TypeOK, BytesExact, ClaimUnique, NoReaderBehind,
         Counted, Reading, Claiming, Locking
    <2> QED
      BY <2>1, <2>2, <2>3, <2>4
  <1>9. ASSUME NEW t \in Thread, Backoff(t) PROVE Inv'
    <2>1. TypeOK'
      BY <1>9 DEF Backoff, TypeOK, BytesExact, PC, Counted, Reading, Claiming
    <2>2. BytesExact'
      BY <1>9, <2>1 DEF Backoff, TypeOK, BytesExact, ClaimUnique, Counted,
         Claiming, Locking
    <2>3. ClaimUnique'
      BY <1>9 DEF Backoff, TypeOK, BytesExact, ClaimUnique, Claiming
    <2>4. NoReaderBehind'
      BY <1>9 DEF Backoff, TypeOK, BytesExact, ClaimUnique, NoReaderBehind,
         Counted, Reading, Claiming, Locking
    <2> QED
      BY <2>1, <2>2, <2>3, <2>4
  <1>10. ASSUME NEW t \in Thread, UnclaimInc(t) PROVE Inv'
    <2>1. TypeOK'
      BY <1>10 DEF UnclaimInc, TypeOK, BytesExact, PC, Counted, Reading, Claiming
    <2>2. BytesExact'
      BY <1>10, <2>1 DEF UnclaimInc, TypeOK, BytesExact, ClaimUnique, Counted,
         Claiming, Locking
    <2>3. ClaimUnique'
      BY <1>10 DEF UnclaimInc, TypeOK, BytesExact, ClaimUnique, Claiming
    <2>4. NoReaderBehind'
      BY <1>10 DEF UnclaimInc, TypeOK, BytesExact, ClaimUnique, NoReaderBehind,
         Counted, Reading, Claiming, Locking
    <2> QED
      BY <2>1, <2>2, <2>3, <2>4
  <1>11. ASSUME NEW t \in Thread, UnclaimRelease(t) PROVE Inv'
    <2>1. TypeOK'
      BY <1>11 DEF UnclaimRelease, TypeOK, BytesExact, PC, Counted, Reading, Claiming
    <2>2. BytesExact'
      BY <1>11, <2>1 DEF UnclaimRelease, TypeOK, BytesExact, ClaimUnique, Counted,
         Claiming, Locking
    <2>3. ClaimUnique'
      BY <1>11 DEF UnclaimRelease, TypeOK, BytesExact, ClaimUnique, Claiming
    <2>4. NoReaderBehind'
      BY <1>11 DEF UnclaimRelease, TypeOK, BytesExact, ClaimUnique, NoReaderBehind,
         Counted, Reading, Claiming, Locking
    <2> QED
      BY <2>1, <2>2, <2>3, <2>4
  <1>12. ASSUME NEW t \in Thread, Lock(t) PROVE Inv'
    <2>1. TypeOK'
      BY <1>12, Walk DEF Lock, TypeOK, BytesExact, PC, Counted, Reading, Claiming
    <2>2. BytesExact'
      BY <1>12, <2>1 DEF Lock, TypeOK, BytesExact, ClaimUnique, Counted,
         Claiming, Locking
    <2>3. ClaimUnique'
      BY <1>12 DEF Lock, TypeOK, BytesExact, ClaimUnique, Claiming
    <2>4. NoReaderBehind'
      BY <1>12, Walk DEF Lock, TypeOK, BytesExact, ClaimUnique, NoReaderBehind,
         Counted, Reading, Claiming, Locking
    <2> QED
      BY <2>1, <2>2, <2>3, <2>4
  <1>13. ASSUME NEW t \in Thread, Drain(t) PROVE Inv'
    <2>1. TypeOK'
      BY <1>13, Walk DEF Drain, TypeOK, BytesExact, PC, Counted, Reading, Claiming
    <2>2. BytesExact'
      BY <1>13, <2>1 DEF Drain, TypeOK, BytesExact, ClaimUnique, Counted,
         Claiming, Locking
    <2>3. ClaimUnique'
      BY <1>13 DEF Drain, TypeOK, BytesExact, ClaimUnique, Claiming
    <2>4. NoReaderBehind'
      BY <1>13, Walk DEF Drain, TypeOK, BytesExact, ClaimUnique, NoReaderBehind,
         Counted, Reading, Claiming, Locking
    <2> QED
      BY <2>1, <2>2, <2>3, <2>4
  <1>14. ASSUME NEW t \in Thread, Unlock(t) PROVE Inv'
    <2>1. TypeOK'
      BY <1>14 DEF Unlock, TypeOK, BytesExact, PC, Counted, Reading, Claiming
    <2>2. BytesExact'
      BY <1>14, <2>1 DEF Unlock, TypeOK, BytesExact, ClaimUnique, Counted,
         Claiming, Locking
    <2>3. ClaimUnique'
      BY <1>14 DEF Unlock, TypeOK, BytesExact, ClaimUnique, Claiming
    <2>4. NoReaderBehind'
      BY <1>14 DEF Unlock, TypeOK, BytesExact, ClaimUnique, NoReaderBehind,
         Counted, Reading, Claiming, Locking
    <2> QED
      BY <2>1, <2>2, <2>3, <2>4
  <1>15. CASE UNCHANGED vars
    BY <1>15 DEF vars, TypeOK, BytesExact, ClaimUnique, NoReaderBehind
  <1> QED
    BY <1>1, <1>2, <1>3, <1>4, <1>5, <1>6, <1>7, <1>8,
       <1>9, <1>10, <1>11, <1>12, <1>13, <1>14, <1>15 DEF Next, Step, Release

-----------------------------------------------------------------------------
(***************************************************************************)
(* The bytes of the lock say exactly where the threads are, and no reader  *)
(* is behind the walk of lock(), in every state.                           *)
(***************************************************************************)
THEOREM Invariance == Spec => []Inv
  BY InitInv, StepInv, PTL DEF Spec

\* An access is a step of the abstract lock, or leaves it as it is.
LEMMA StepImplements == Inv /\ Inv' /\ [Next]_vars => [RW!Next]_(RW!vars)
  <1> SUFFICES ASSUME Inv, Inv', [Next]_vars PROVE [RW!Next]_(RW!vars)
    OBVIOUS
  <1> USE DEF Inv, Goto
  <1>1. ASSUME NEW t \in Thread, Get(t) PROVE [RW!Next]_(RW!vars)
    BY <1>1 DEF Get, TypeOK, RW!vars, Reading, Claiming
  <1>2. ASSUME NEW t \in Thread, GetWait(t) PROVE [RW!Next]_(RW!vars)
    BY <1>2 DEF GetWait, TypeOK, RW!vars, Reading, Claiming
  <1>3. ASSUME NEW t \in Thread, GetInc(t) PROVE [RW!Next]_(RW!vars)
    BY <1>3 DEF GetInc, TypeOK, RW!vars, Reading, Claiming
  <1>4. ASSUME NEW t \in Thread, GetRetest(t) PROVE [RW!Next]_(RW!vars)
    <2>1. CASE lock
      BY <1>4, <2>1 DEF GetRetest, TypeOK, RW!vars, Reading, Claiming
    <2>2. CASE ~lock
      <3>1. RW!Get(t)
        BY <1>4, <2>2 DEF GetRetest, TypeOK, BytesExact, RW!Get, Reading, Claiming,
           Locking
      <3> QED
        BY <3>1 DEF RW!Next
    <2> QED
      BY <2>1, <2>2
  <1>5. ASSUME NEW t \in Thread, GetRetry(t) PROVE [RW!Next]_(RW!vars)
    BY <1>5 DEF GetRetry, TypeOK, RW!vars, Reading, Claiming
  <1>6. ASSUME NEW t \in Thread, Unget(t) PROVE [RW!Next]_(RW!vars)
    <2>1. RW!Unget(t)
      BY <1>6 DEF Unget, TypeOK, RW!Unget, Reading, Claiming
    <2> QED
      BY <2>1 DEF RW!Next
  <1>7. ASSUME NEW t \in Thread, TryClaim(t) PROVE [RW!Next]_(RW!vars)
    <2>1. CASE claim
      BY <1>7, <2>1 DEF TryClaim, TypeOK, RW!vars, Reading, Claiming
    <2>2. CASE ~claim
      <3>1. RW!Claim(t)
        BY <1>7, <2>2 DEF TryClaim, TypeOK, BytesExact, RW!Claim, Reading, Claiming
      <3> QED
        BY <3>1 DEF RW!Next
    <2> QED
      BY <2>1, <2>2
  <1>8. ASSUME NEW t \in Thread, ClaimDec(t) PROVE [RW!Next]_(RW!vars)
    BY <1>8 DEF ClaimDec, TypeOK, RW!vars, Reading, Claiming
  <1>9. ASSUME NEW t \in Thread, Backoff(t) PROVE [RW!Next]_(RW!vars)
    <2>1. RW!Unget(t)
      BY <1>9 DEF Backoff, TypeOK, RW!Unget, Reading, Claiming
    <2> QED
      BY <2>1 DEF RW!Next
  <1>10. ASSUME NEW t \in Thread, UnclaimInc(t) PROVE [RW!Next]_(RW!vars)
    BY <1>10 DEF UnclaimInc, TypeOK, RW!vars, Reading, Claiming
  <1>11. ASSUME NEW t \in Thread, UnclaimRelease(t) PROVE [RW!Next]_(RW!vars)
    <2>1. RW!Unclaim(t)
      BY <1>11 DEF UnclaimRelease, TypeOK, ClaimUnique, RW!Unclaim, Reading, Claiming
    <2> QED
      BY <2>1 DEF RW!Next
  <1>12. ASSUME NEW t \in Thread, Lock(t) PROVE [RW!Next]_(RW!vars)
    BY <1>12 DEF Lock, TypeOK, RW!vars, Reading, Claiming
  <1>13. ASSUME NEW t \in Thread, Drain(t) PROVE [RW!Next]_(RW!vars)
    <2>1. CASE i[t] = MAX_THREADS - 1
      <3>1. RW!Lock(t)
        BY <1>13, <2>1 DEF Drain, TypeOK, ClaimUnique, NoReaderBehind, RW!Lock,
           Reading, Claiming
      <3> QED
        BY <3>1 DEF RW!Next
    <2>2. CASE i[t] # MAX_THREADS - 1
      BY <1>13, <2>2 DEF Drain, RW!vars
    <2> QED
      BY <2>1, <2>2
  <1>14. ASSUME NEW t \in Thread, Unlock(t) PROVE [RW!Next]_(RW!vars)
    <2>1. RW!Unlock(t)
      BY <1>14 DEF Unlock, TypeOK, ClaimUnique, RW!Unlock, Reading, Claiming
    <2> QED
      BY <2>1 DEF RW!Next
  <1>15. CASE UNCHANGED vars
    BY <1>15 DEF vars, RW!vars
  <1> QED
    BY <1>1, <1>2, <1>3, <1>4, <1>5, <1>6, <1>7, <1>8,
       <1>9, <1>10, <1>11, <1>12, <1>13, <1>14, <1>15 DEF Next, Step, Release

(***************************************************************************)
(* The lock made of bytes implements the lock of platform_types.h: a write *)
(* lock excludes readers and the other claims, whatever the interleaving   *)
(* of the accesses of get, try_claim, lock, unlock and unclaim.            *)
(***************************************************************************)
THEOREM Refinement == Spec => Implements
  <1>1. Init => RW!Init
    BY DEF Init, RW!Init, Reading, Claiming
  <1> QED
    BY <1>1, Invariance, StepImplements, PTL DEF Spec, Implements, RW!Spec
=============================================================================
