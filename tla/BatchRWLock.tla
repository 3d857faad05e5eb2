----------------------------- MODULE BatchRWLock -----------------------------
(***************************************************************************)
(* One lock of a platform_batch_rwlock (platform_linux/platform.c): a      *)
(* claim byte, a lock byte and one read counter per thread, each in a      *)
(* cache line of its own.  Every access to one of them is a step, so that  *)
(* a reader may be anywhere between its test of the lock, its increment    *)
(* and its second test while a writer sets the lock and walks through the  *)
(* counters.  The accesses are locked instructions or loads of volatile    *)
(* bytes behind them, hence sequentially consistent on the target.         *)
(*                                                                         *)
(* The other locks of the batch share the cache lines and no state, so one *)
(* lock_idx is modelled.                                                   *)
(***************************************************************************)
EXTENDS Naturals

CONSTANT MAX_THREADS

ASSUME ThreadsAssumption == MAX_THREADS \in Nat \ {0}

Thread == 0 .. MAX_THREADS - 1

VARIABLES lock,          \* write_lock[].lock
          claim,         \* write_lock[].claim
          read_counter,  \* read_counter[tid][]
          pc,            \* where each thread is in the lock's operations
          loop,          \* the thread is in claim_loop
          i              \* next counter the thread's lock() looks at

vars == <<lock, claim, read_counter, pc, loop, i>>

(***************************************************************************)
(*  idle        no lock                                                    *)
(*  get         get: waits for the lock byte to be clear                   *)
(*  inc         get: saw it clear, is about to raise its counter           *)
(*  retest      get: has raised its counter, tests the lock byte again     *)
(*  dec         get: found it set, is about to lower the counter           *)
(*  read        holds a read lock                                          *)
(*  failed      lost a try_claim, must give its read lock back             *)
(*  claiming    try_claim: won the claim byte, counter still raised        *)
(*  claim       holds the claim                                            *)
(*  drain       lock: the lock byte is set, the counters are awaited       *)
(*  write       holds the write lock                                       *)
(*  unclaiming  unclaim: counter raised, claim byte still set              *)
(***************************************************************************)
Counted   == {"retest", "dec", "read", "failed", "claiming", "unclaiming"}
Reading   == {"read", "failed"}
Claiming  == {"claiming", "claim", "drain", "write", "unclaiming"}
Locking   == {"drain", "write"}
PC        == Counted \cup Reading \cup Claiming \cup {"idle", "get", "inc"}

TypeOK ==
    /\ lock \in BOOLEAN
    /\ claim \in BOOLEAN
    /\ read_counter \in [Thread -> {0, 1}]
    /\ pc \in [Thread -> PC]
    /\ loop \in [Thread -> BOOLEAN]
    /\ i \in [Thread -> Thread]

Goto(t, l) == pc' = [pc EXCEPT ![t] = l]
Raise(t)   == read_counter' = [read_counter EXCEPT ![t] = @ + 1]
Lower(t)   == read_counter' = [read_counter EXCEPT ![t] = @ - 1]

Init ==
    /\ lock = FALSE
    /\ claim = FALSE
    /\ read_counter = [t \in Thread |-> 0]
    /\ pc = [t \in Thread |-> "idle"]
    /\ loop = [t \in Thread |-> FALSE]
    /\ i = [t \in Thread |-> 0]

-----------------------------------------------------------------------------
\* Faulty variants of steps below, for the mutation runs.

\* get that does not wait for the lock byte before it raises its counter
GetSpin(t) ==
    /\ pc[t] = "get"
    /\ Goto(t, "inc")
    /\ UNCHANGED <<lock, claim, read_counter, loop, i>>

\* get without the second test of the lock byte
GetBlind(t) ==
    /\ pc[t] = "retest"
    /\ Goto(t, "read")
    /\ UNCHANGED <<lock, claim, read_counter, loop, i>>

\* try_claim that keeps its read counter raised
ClaimKeep(t) ==
    /\ pc[t] = "claiming"
    /\ loop' = [loop EXCEPT ![t] = FALSE]
    /\ Goto(t, "claim")
    /\ UNCHANGED <<lock, claim, read_counter, i>>

-----------------------------------------------------------------------------
\* platform_batch_rwlock_get

Get(t) ==
    /\ pc[t] = "idle"
    /\ Goto(t, "get")
    /\ UNCHANGED <<lock, claim, read_counter, loop, i>>

GetWait(t) ==
    /\ pc[t] = "get"
    /\ ~lock
    /\ Goto(t, "inc")
    /\ UNCHANGED <<lock, claim, read_counter, loop, i>>

GetInc(t) ==
    /\ pc[t] = "inc"
    /\ Raise(t)
    /\ Goto(t, "retest")
    /\ UNCHANGED <<lock, claim, loop, i>>

GetRetest(t) ==
    /\ pc[t] = "retest"
    /\ Goto(t, IF lock THEN "dec" ELSE "read")
    /\ UNCHANGED <<lock, claim, read_counter, loop, i>>

GetRetry(t) ==
    /\ pc[t] = "dec"
    /\ Lower(t)
    /\ Goto(t, "get")
    /\ UNCHANGED <<lock, claim, loop, i>>

Unget(t) ==
    /\ pc[t] = "read"
    /\ ~loop[t]
    /\ Lower(t)
    /\ Goto(t, "idle")
    /\ UNCHANGED <<lock, claim, loop, i>>

-----------------------------------------------------------------------------
\* platform_batch_rwlock_try_claim, alone or as a turn of claim_loop

TryClaim(t) ==
    /\ pc[t] = "read"
    /\ \E l \in BOOLEAN :
         /\ loop[t] => l
         /\ loop' = [loop EXCEPT ![t] = l]
    /\ claim' = TRUE
    /\ Goto(t, IF claim THEN "failed" ELSE "claiming")
    /\ UNCHANGED <<lock, read_counter, i>>

ClaimDec(t) ==
    /\ pc[t] = "claiming"
    /\ Lower(t)
    /\ loop' = [loop EXCEPT ![t] = FALSE]
    /\ Goto(t, "claim")
    /\ UNCHANGED <<lock, claim, i>>

\* A failed claim gives the read lock back; claim_loop asks for it again.
Backoff(t) ==
    /\ pc[t] = "failed"
    /\ Lower(t)
    /\ Goto(t, IF loop[t] THEN "get" ELSE "idle")
    /\ UNCHANGED <<lock, claim, loop, i>>

\* platform_batch_rwlock_unclaim
UnclaimInc(t) ==
    /\ pc[t] = "claim"
    /\ Raise(t)
    /\ Goto(t, "unclaiming")
    /\ UNCHANGED <<lock, claim, loop, i>>

UnclaimRelease(t) ==
    /\ pc[t] = "unclaiming"
    /\ claim' = FALSE
    /\ Goto(t, "read")
    /\ UNCHANGED <<lock, read_counter, loop, i>>

-----------------------------------------------------------------------------
\* platform_batch_rwlock_lock: set the byte, then wait for every counter

Lock(t) ==
    /\ pc[t] = "claim"
    /\ lock' = TRUE
    /\ i' = [i EXCEPT ![t] = 0]
    /\ Goto(t, "drain")
    /\ UNCHANGED <<claim, read_counter, loop>>

Drain(t) ==
    /\ pc[t] = "drain"
    /\ read_counter[i[t]] = 0
    /\ IF i[t] = MAX_THREADS - 1
         THEN Goto(t, "write") /\ UNCHANGED i
         ELSE i' = [i EXCEPT ![t] = @ + 1] /\ UNCHANGED pc
    /\ UNCHANGED <<lock, claim, read_counter, loop>>

\* platform_batch_rwlock_unlock; full_unlock is Unlock, UnclaimInc,
\* UnclaimRelease and Unget of the same thread in this order.
Unlock(t) ==
    /\ pc[t] = "write"
    /\ lock' = FALSE
    /\ Goto(t, "claim")
    /\ UNCHANGED <<claim, read_counter, loop, i>>

\* A holder that neither wants nor waits: what it does next is its own choice.
Step(t) ==
    \/ GetWait(t) \/ GetInc(t) \/ GetRetest(t) \/ GetRetry(t)
    \/ ClaimDec(t) \/ Backoff(t) \/ UnclaimRelease(t) \/ Drain(t)

Release(t) == Unget(t) \/ UnclaimInc(t) \/ Unlock(t)

Next ==
    \E t \in Thread :
        Step(t) \/ Release(t) \/ Get(t) \/ TryClaim(t) \/ Lock(t)

(***************************************************************************)
(* A thread inside an operation keeps running, and a thread that holds a   *)
(* read lock gives it back or claims: no caller sleeps with a read lock on *)
(* a lock somebody else wants to write.                                    *)
(***************************************************************************)
Fairness ==
    \A t \in Thread : WF_vars(Step(t)) /\ WF_vars(Unget(t) \/ TryClaim(t))

Spec == Init /\ [][Next]_vars

FairSpec == Spec /\ Fairness

-----------------------------------------------------------------------------
\* The debug assertions on old_counter and on was_locked, and the claim that
\* lock() asserts: the bytes say exactly where the threads are.
BytesExact ==
    /\ \A t \in Thread : read_counter[t] = IF pc[t] \in Counted THEN 1 ELSE 0
    /\ claim <=> \E t \in Thread : pc[t] \in Claiming
    /\ lock  <=> \E t \in Thread : pc[t] \in Locking

RW == INSTANCE RWLock WITH
        readers   <- {t \in Thread : pc[t] \in Reading},
        claimants <- {t \in Thread : pc[t] \in Claiming},
        writers   <- {t \in Thread : pc[t] = "write"}

(***************************************************************************)
(* The distributed lock implements the lock of platform_types.h: get, for  *)
(* example, takes effect when it finds the lock byte clear the second      *)
(* time, lock when the last counter is seen at zero, and at that moment no *)
(* thread is reading, however the accesses interleaved.                    *)
(***************************************************************************)
Implements == RW!Spec

(***************************************************************************)
(* The inductive invariant.  The counters already passed by the walk of    *)
(* lock() may rise again, but only while their owners back off: no reader  *)
(* is behind the walk.                                                     *)
(***************************************************************************)
ClaimUnique ==
    \A t, u \in Thread : pc[t] \in Claiming /\ pc[u] \in Claiming => t = u

NoReaderBehind ==
    \A t, u \in Thread :
        /\ pc[t] = "drain" /\ u < i[t] => pc[u] \notin Reading
        /\ pc[t] = "write" => pc[u] \notin Reading

Inv == TypeOK /\ BytesExact /\ ClaimUnique /\ NoReaderBehind

(***************************************************************************)
(* The wait of lock() ends: new readers stop at the lock byte before they  *)
(* raise their counter, so each of them disturbs the walk at most once.    *)
(***************************************************************************)
Drained ==
    \A t \in Thread : pc[t] = "drain" ~> pc[t] = "write"

=============================================================================
