--------------------------- MODULE TreePassClock ---------------------------
(***************************************************************************)
(* The clock of one cache entry (src/splinterdb/src/treepass.c): a counter *)
(* in the status word, above the flags, that every access raises and every *)
(* pass of the eviction hand lowers.  Access and eviction read the clock   *)
(* and add or subtract in separate atomic accesses, so that what they read *)
(* may be out of date.                                                     *)
(*                                                                         *)
(* Abstractions.  The page is clean and unpinned, so that only its readers *)
(* and its clock keep it; the batch has this one entry, and one thread at  *)
(* a time sweeps it (batch_busy).  The flags of the status word are the    *)
(* residency of the page and the write lock, held from "verify" on.        *)
(***************************************************************************)
EXTENDS Integers

CONSTANTS
    Reader,         \* the threads that access the page
    MaxAccess       \* bound: accesses to a page between load and eviction

CLOCK_MAX == 7              \* TP_CLOCK_BITS = 3 bits
CountModulus == 2^26        \* bits TP_CLOCK_SHIFT = 6 to 31 of the status
\* of a page that is loaded, allocated, or allocated by a compaction
InitialClock == {0, 1, CLOCK_MAX}

VARIABLES
    state,      \* "free" (TP_FREE) or "clean" (TP_CLEAN)
    count,      \* bits 6 to 31 of the status word
    rpc, seen,  \* per reader: next access, and the clock it read
    sweep,      \* the next access of the thread that sweeps the batch
    left        \* accesses left to this page

vars == <<state, count, rpc, seen, sweep, left>>
readers == <<rpc, seen, left>>

Init ==
    /\ state = "free"
    /\ count = 0
    /\ rpc = [r \in Reader |-> "idle"]
    /\ seen = [r \in Reader |-> 0]
    /\ sweep = "load"
    /\ left = 0

\* treepass_get_clock: the low TP_CLOCK_BITS bits of the count.
Clock == count % (CLOCK_MAX + 1)
Free == state = "free"
WriteLocked == sweep = "verify"
Quiet == \A r \in Reader : rpc[r] = "idle"

-----------------------------------------------------------------------------
(* treepass_try_get_read and treepass_set_clock_accessed.                  *)

\* The reference is counted, and the entry found not to be free.
Enter(r) ==
    /\ rpc[r] = "idle" /\ ~Free /\ left > 0
    /\ rpc' = [rpc EXCEPT ![r] = "entered"]
    /\ left' = left - 1
    /\ UNCHANGED <<state, count, seen, sweep>>

\* The entry is not write locked.  It may have become free since it was
\* tested: storing the free status releases the write lock too.
ReadClock(r) ==
    /\ rpc[r] = "entered" /\ ~WriteLocked
    /\ seen' = [seen EXCEPT ![r] = Clock]
    /\ rpc' = [rpc EXCEPT ![r] = "read"]
    /\ UNCHANGED <<state, count, sweep, left>>

Conflict(r) ==
    /\ rpc[r] = "entered" /\ WriteLocked
    /\ rpc' = [rpc EXCEPT ![r] = "idle"]
    /\ UNCHANGED <<state, count, seen, sweep, left>>

\* The fetch-and-add, decided by the clock read before.
RaiseClock(r) ==
    /\ rpc[r] = "read"
    /\ IF seen[r] < CLOCK_MAX
         THEN count' = (count + 1) % CountModulus
         ELSE UNCHANGED count
    /\ rpc' = [rpc EXCEPT ![r] = "idle"]
    /\ seen' = [seen EXCEPT ![r] = 0]
    /\ UNCHANGED <<state, sweep, left>>

-----------------------------------------------------------------------------
(* treepass_try_evict and treepass_get_free_page.                          *)

\* treepass_try_dec_clock: the clock is read, whatever the flags are.
DecLoad ==
    /\ sweep = "load"
    /\ sweep' = IF Clock = 0 THEN "test" ELSE "dec"
    /\ UNCHANGED <<state, count, readers>>

\* A pass that does not evict goes on to scan the batch for a free entry.
LowerClock ==
    /\ sweep = "dec"
    /\ count' = (count + CountModulus - 1) % CountModulus
    /\ sweep' = "scan"
    /\ UNCHANGED <<state, readers>>

\* The fast test compares the whole status word, all bits of the count too.
FastTest ==
    /\ sweep = "test"
    /\ sweep' = IF ~Free /\ count = 0 THEN "lock" ELSE "scan"
    /\ UNCHANGED <<state, count, readers>>

\* The read lock, the claim and the write lock: readers make it give up.
TryLock ==
    /\ sweep = "lock"
    /\ sweep' = IF Quiet THEN "verify" ELSE "scan"
    /\ UNCHANGED <<state, count, readers>>

\* The status again, under the write lock; then the free status is stored.
Verify ==
    /\ sweep = "verify"
    /\ state' = IF count = 0 THEN "free" ELSE state
    /\ sweep' = "scan"
    /\ UNCHANGED <<count, readers>>

\* The compare-and-swap on TP_FREE_STATUS, and the store of the status the
\* new page is installed with.
Install(c) ==
    /\ sweep = "scan" /\ Free /\ count = 0
    /\ state' = "clean" /\ count' = c /\ sweep' = "load"
    /\ left' = MaxAccess
    /\ UNCHANGED <<rpc, seen>>

\* No free entry: the hand moves on and comes back to this batch.
NextPass ==
    /\ sweep = "scan" /\ ~(Free /\ count = 0)
    /\ sweep' = "load"
    /\ UNCHANGED <<state, count, readers>>

-----------------------------------------------------------------------------

Access(r) == Enter(r) \/ ReadClock(r) \/ Conflict(r) \/ RaiseClock(r)

Sweep ==
    \/ DecLoad \/ LowerClock \/ FastTest \/ TryLock \/ Verify \/ NextPass
    \/ \E c \in InitialClock : Install(c)

Next == Sweep \/ \E r \in Reader : Access(r)

\* Threads in need of pages keep the hand moving, and an access goes on.
Spec ==
    /\ Init /\ [][Next]_vars
    /\ WF_vars(Sweep)
    /\ \A r \in Reader : WF_vars(ReadClock(r) \/ Conflict(r) \/ RaiseClock(r))

-----------------------------------------------------------------------------
(* Properties.                                                             *)

\* "Overflow beyond TP_CLOCK_MAX is safe (handled in eviction)", says the
\* comment on treepass_set_clock_accessed.  So the entry is used for one page
\* after the other: the page it holds is evicted, and a free entry, its clock
\* raised by a late reader or not, is found by treepass_get_free_page.
Recycled == []<>(state = "free") /\ []<>(state = "clean")

\* The count has a carry above the clock that the hand is not about to take
\* away again.
Carried == count > CLOCK_MAX /\ (count = CLOCK_MAX + 1 => sweep # "dec")

\* A page whose count has carried is not evicted any more, and an entry that
\* was freed under a late reader is not used any more, until readers have
\* carried it all the way round: passes of the hand lower the clock only
\* (treepass_try_dec_clock), while eviction and the search for a free entry
\* compare the whole status word (treepass_try_evict, treepass_get_free_page).
CarriedStays ==
    [][Carried /\ count < CountModulus - 1 => Carried' /\ state' = state]_vars
=============================================================================
