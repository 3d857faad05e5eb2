--------------------------- MODULE TreePassCache ---------------------------
(***************************************************************************)
(* The page cache of TreePass (src/splinterdb/src/treepass.c): entries,    *)
(* the address-to-entry lookup table, striped read reference counts, the   *)
(* claim and write locks kept in the entry's status word, writeback,       *)
(* eviction, loading, allocation and discard.                              *)
(*                                                                         *)
(* One action is one atomic access to shared memory of the C code (an      *)
(* atomic read-modify-write, a load that decides a branch, a store other   *)
(* threads can see).  pc[t] names the access thread t performs next.       *)
(*                                                                         *)
(* Abstractions.  The clock bits of the status word and entry_time only    *)
(* decide whether the sweep of a batch passes over a page: here the sweep  *)
(* may pass over any page (module TreePassClock models the counter).  The  *)
(* position of the shared evict_hand is any batch that is not busy.        *)
(* Writeback takes one page at a time: that the write of a page carries    *)
(* its neighbours in the extent along is not modelled.                     *)
(***************************************************************************)
EXTENDS Naturals, FiniteSets

CONSTANTS
    Thread,      \* thread ids (platform_get_tid)
    RCWidth,     \* TP_RC_WIDTH, the number of reference count stripes
    Entry,       \* cache entries, cfg->page_capacity of them
    Batch,       \* batches of entries, the unit of eviction
    BatchOf,     \* the batch of an entry
    Addr,        \* disk addresses of pages
    PageType,    \* page types other than PAGE_TYPE_INVALID
    TypeOf,      \* the type a page at an address is got and allocated with
    NONE,        \* TP_UNMAPPED_ENTRY, TP_UNMAPPED_ADDR, PAGE_TYPE_INVALID
    Discarders,  \* threads that discard pages (treepass_extent_discard)
    Pinners      \* threads that pin pages (memtable btrees, mini allocator)

ASSUME ThreadAssumption == Thread \subseteq Nat /\ IsFiniteSet(Thread)
ASSUME WidthAssumption == RCWidth \in Nat \ {0}
ASSUME EntryAssumption == BatchOf \in [Entry -> Batch]
ASSUME AddrAssumption == TypeOf \in [Addr -> PageType]
ASSUME NoneAssumption == NONE \notin Entry \cup Addr \cup Batch \cup PageType
ASSUME RoleAssumption == Discarders \cup Pinners \subseteq Thread

VARIABLES
    status,     \* entry->status without the clock bits: a set of flags
    ref,        \* cc->refcount: per entry, one counter per stripe
    pin,        \* cc->pincount
    disk_addr,  \* entry->page.disk_addr
    type,       \* entry->type
    lookup,     \* cc->lookup: address -> entry
    free_hand,  \* cc->per_thread[tid].free_hand, the batch the thread owns
    data,       \* the address whose latest contents are in entry->page.data
    disk,       \* the addresses whose latest contents the disk holds
    io,         \* the write in flight for an entry, and its callback's step
    ioaddr,     \* the disk address that write goes to
    iodata,     \* the address whose latest contents that write carries
    live,       \* addresses whose extent is allocated and not being discarded
    pinned,     \* addresses their owner has pinned
    pc, op, addr, ent, scan,  \* per thread: control and arguments
    evicting    \* the threads inside treepass_try_evict

mapping == <<disk_addr, type, lookup>>
content == <<data, disk, io, ioaddr, iodata>>
owned == <<live, pinned>>
rest == <<pin, free_hand, content, owned>>
memory == <<status, ref, mapping, rest>>
args == <<op, addr, ent, scan, evicting>>
vars == <<memory, pc, args>>

FREE == "FREE"
CLEAN == "CLEAN"
WRITEBACK == "WRITEBACK"
LOADING == "LOADING"
WRITELOCKED == "WRITELOCKED"
CLAIMED == "CLAIMED"
Flag == {FREE, CLEAN, WRITEBACK, LOADING, WRITELOCKED, CLAIMED}

FREE_STATUS == {FREE}
EVICTABLE_STATUS == {CLEAN}
LOCKED_EVICTABLE_STATUS == {CLEAN, CLAIMED, WRITELOCKED}
ALLOC_STATUS == {WRITELOCKED, CLAIMED}
READ_LOADING_STATUS == {CLEAN, LOADING}

Stripe == 0 .. (RCWidth - 1)
StripeOf(t) == t % RCWidth

PC == {"idle", "lookup",
       "rd_test", "rd_inc", "rd_free", "rd_writing", "rd_conflict",
       "rd_evicted", "chk_addr", "wait_load", "recheck", "chk_type",
       "unref", "reading", "claim", "claimed", "set_lock", "wait_wb",
       "wait_refs",
       "locked", "dirty", "verify", "ev_unlock", "ev_unclaim", "ev_unref",
       "cl_lookup", "cl_addr", "cl_free", "cl_pin", "cl_unref",
       "free", "release", "hand", "sweep", "fr_inc", "fr_status",
       "ld_cas", "ld_unref", "ld_abort", "ld_addr", "ld_read", "ld_finish",
       "al_addr", "al_lookup", "failed"}

-----------------------------------------------------------------------------

Init ==
    /\ status = [e \in Entry |-> FREE_STATUS]
    /\ ref = [e \in Entry |-> [s \in Stripe |-> 0]]
    /\ pin = [e \in Entry |-> 0]
    /\ disk_addr = [e \in Entry |-> NONE]
    /\ type = [e \in Entry |-> NONE]
    /\ lookup = [a \in Addr |-> NONE]
    /\ free_hand = [t \in Thread |-> NONE]
    /\ data = [e \in Entry |-> NONE]
    /\ disk = Addr
    /\ io = [e \in Entry |-> "none"]
    /\ ioaddr = [e \in Entry |-> NONE]
    /\ iodata = [e \in Entry |-> NONE]
    /\ live \in SUBSET Addr
    /\ pinned = {}
    /\ pc = [t \in Thread |-> "idle"]
    /\ op = [t \in Thread |-> "none"]
    /\ addr = [t \in Thread |-> NONE]
    /\ ent = [t \in Thread |-> NONE]
    /\ scan = [t \in Thread |-> 0]
    /\ evicting = {}

At(t, label) == pc[t] = label
Goto(t, label) == pc' = [pc EXCEPT ![t] = label]

\* The call returns: the thread forgets its arguments.
Return(t) ==
    /\ Goto(t, "idle")
    /\ op' = [op EXCEPT ![t] = "none"]
    /\ addr' = [addr EXCEPT ![t] = NONE]
    /\ ent' = [ent EXCEPT ![t] = NONE]
    /\ UNCHANGED <<scan, evicting>>

SetFlag(e, f) == status' = [status EXCEPT ![e] = @ \cup {f}]
ClearFlag(e, f) == status' = [status EXCEPT ![e] = @ \ {f}]
Test(e, f) == f \in status[e]
IncRef(t) == ref' = [ref EXCEPT ![ent[t]][StripeOf(t)] = @ + 1]
DecRef(t) == ref' = [ref EXCEPT ![ent[t]][StripeOf(t)] = @ - 1]

\* batch_busy[b]: the flag is set exactly while a thread owns the batch.
Busy(b) == \E t \in Thread : free_hand[t] = b

\* No call on the address is under way.
Unused(a) == \A t \in Thread : addr[t] # a

-----------------------------------------------------------------------------
(* The calls.  A page is got only while its extent is allocated; an extent *)
(* is discarded once its reference count is AL_NO_REFS, when nobody uses   *)
(* it, and only then is it allocated again (allocator and mini allocator). *)

Get(t, a) ==
    /\ At(t, "idle") /\ a \in live
    /\ op' = [op EXCEPT ![t] = "get"]
    /\ addr' = [addr EXCEPT ![t] = a]
    /\ Goto(t, "lookup")
    /\ UNCHANGED <<memory, ent, scan, evicting>>

Alloc(t, a) ==
    /\ At(t, "idle") /\ a \notin live /\ Unused(a)
    /\ op' = [op EXCEPT ![t] = "alloc"]
    /\ addr' = [addr EXCEPT ![t] = a]
    /\ Goto(t, "free")
    /\ UNCHANGED <<memory, ent, scan, evicting>>

Discard(t, a) ==
    /\ At(t, "idle") /\ t \in Discarders /\ a \in live /\ Unused(a)
    /\ live' = live \ {a}
    /\ pinned' = pinned \ {a}
    /\ op' = [op EXCEPT ![t] = "discard"]
    /\ addr' = [addr EXCEPT ![t] = a]
    /\ Goto(t, "lookup")
    /\ UNCHANGED <<status, ref, mapping, pin, free_hand, content, ent, scan,
                   evicting>>

\* treepass_lookup: the unlocked read of the table that opens get and discard.
LookupHit(t) ==
    /\ At(t, "lookup") /\ lookup[addr[t]] # NONE
    /\ ent' = [ent EXCEPT ![t] = lookup[addr[t]]]
    /\ Goto(t, "rd_test")
    /\ UNCHANGED <<memory, op, addr, scan, evicting>>

LookupMiss(t) ==
    /\ At(t, "lookup") /\ lookup[addr[t]] = NONE
    /\ IF op[t] = "get"
         THEN Goto(t, "free") /\ UNCHANGED args
         ELSE Return(t)
    /\ UNCHANGED memory

-----------------------------------------------------------------------------
(* treepass_try_get_read, and treepass_get_read, which repeats it.         *)

\* The write lock test before the count is raised.  Eviction gives up on a
\* conflict, the other callers spin until the lock is released.
RdTest(t) ==
    /\ At(t, "rd_test")
    /\ IF Test(ent[t], WRITELOCKED)
         THEN /\ t \in evicting
              /\ Goto(t, "sweep")
              /\ ent' = [ent EXCEPT ![t] = NONE]
              /\ evicting' = evicting \ {t}
         ELSE Goto(t, "rd_inc") /\ UNCHANGED <<ent, evicting>>
    /\ UNCHANGED <<memory, op, addr, scan>>

RdInc(t) ==
    /\ At(t, "rd_inc")
    /\ IncRef(t)
    /\ Goto(t, "rd_free")
    /\ UNCHANGED <<status, mapping, rest, args>>

RdFree(t) ==
    /\ At(t, "rd_free")
    /\ Goto(t, IF Test(ent[t], FREE) THEN "rd_evicted" ELSE "rd_writing")
    /\ UNCHANGED <<memory, args>>

\* Mutant: the write lock is not tested again after the count was raised.
RdWritingUnchecked(t) ==
    /\ At(t, "rd_writing")
    /\ Goto(t, IF t \in evicting THEN "claim"
               ELSE IF op[t] = "get" THEN "chk_addr" ELSE "wait_load")
    /\ UNCHANGED <<memory, args>>

RdWriting(t) ==
    /\ At(t, "rd_writing")
    /\ Goto(t, IF Test(ent[t], WRITELOCKED) THEN "rd_conflict"
               ELSE IF t \in evicting THEN "claim"
               ELSE IF op[t] = "get" THEN "chk_addr" ELSE "wait_load")
    /\ UNCHANGED <<memory, args>>

\* The read lock was not obtained: the count is lowered; a conflict is
\* retried on the same entry, an eviction from the lookup on.
RdUndo(t) ==
    /\ pc[t] \in {"rd_conflict", "rd_evicted"}
    /\ DecRef(t)
    /\ IF t \in evicting
         THEN /\ Goto(t, "sweep")
              /\ ent' = [ent EXCEPT ![t] = NONE]
              /\ evicting' = evicting \ {t}
         ELSE /\ UNCHANGED evicting
              /\ IF At(t, "rd_conflict")
                   THEN Goto(t, "rd_test") /\ UNCHANGED ent
                   ELSE Goto(t, "lookup") /\ ent' = [ent EXCEPT ![t] = NONE]
    /\ UNCHANGED <<status, mapping, rest, op, addr, scan>>

-----------------------------------------------------------------------------
(* treepass_get_in_cache and treepass_try_page_discard: the read lock is   *)
(* held, but the entry may have been given to another address meanwhile.   *)

ChkAddr(t) ==
    /\ At(t, "chk_addr")
    /\ Goto(t, IF disk_addr[ent[t]] = addr[t] THEN "wait_load" ELSE "unref")
    /\ UNCHANGED <<memory, args>>

\* Mutant: the page is used while it is being loaded.
WaitLoadNot(t) ==
    /\ At(t, "wait_load")
    /\ Goto(t, "recheck")
    /\ UNCHANGED <<memory, args>>

WaitLoad(t) ==
    /\ At(t, "wait_load") /\ ~Test(ent[t], LOADING)
    /\ Goto(t, "recheck")
    /\ UNCHANGED <<memory, args>>

Recheck(t) ==
    /\ At(t, "recheck")
    /\ Goto(t, IF disk_addr[ent[t]] # addr[t] THEN "unref"
               ELSE IF op[t] = "discard" THEN "claim" ELSE "chk_type")
    /\ UNCHANGED <<memory, args>>

\* A page of another type than the caller's fails an assertion (here without
\* the third look at the address by which the code may still be saved).
ChkType(t) ==
    /\ At(t, "chk_type")
    /\ Goto(t, IF type[ent[t]] = TypeOf[addr[t]] THEN "reading" ELSE "failed")
    /\ UNCHANGED <<memory, args>>

\* The entry was lost (or its claim was): release it and look up again.
Unref(t) ==
    /\ At(t, "unref")
    /\ DecRef(t)
    /\ Goto(t, "lookup")
    /\ ent' = [ent EXCEPT ![t] = NONE]
    /\ UNCHANGED <<status, mapping, rest, op, addr, scan, evicting>>

-----------------------------------------------------------------------------
(* What the holder of a page does: treepass_unget, try_claim, unclaim,     *)
(* lock, mark_dirty, unlock and pin.                                       *)

Unget(t) ==
    /\ At(t, "reading")
    /\ DecRef(t)
    /\ Return(t)
    /\ UNCHANGED <<status, mapping, rest>>

\* treepass_try_claim.  A holder whose claim fails keeps its read lock and
\* has to unget the page before it tries again.
TryClaim(t) ==
    /\ At(t, "reading") /\ ~Test(ent[t], CLAIMED)
    /\ SetFlag(ent[t], CLAIMED)
    /\ Goto(t, "claimed")
    /\ UNCHANGED <<ref, mapping, rest, args>>

Unclaim(t) ==
    /\ At(t, "claimed")
    /\ ClearFlag(ent[t], CLAIMED)
    /\ Goto(t, "reading")
    /\ UNCHANGED <<ref, mapping, rest, args>>

Lock(t) ==
    /\ At(t, "claimed")
    /\ Goto(t, "set_lock")
    /\ UNCHANGED <<memory, args>>

MarkDirty(t) ==
    /\ At(t, "locked")
    /\ ClearFlag(ent[t], CLEAN)
    /\ Goto(t, "dirty")
    /\ UNCHANGED <<ref, mapping, rest, args>>

\* The contents of the page change: every other copy, in another entry, on
\* disk or in a write already issued, is out of date from here on.
Change(e, a) ==
    /\ data' = [x \in Entry |-> IF x = e THEN a
                                ELSE IF data[x] = a THEN NONE ELSE data[x]]
    /\ iodata' = [x \in Entry |-> IF iodata[x] = a THEN NONE ELSE iodata[x]]
    /\ disk' = disk \ {a}

Modify(t) ==
    /\ At(t, "dirty")
    /\ Change(ent[t], addr[t])
    /\ UNCHANGED <<status, ref, mapping, pin, free_hand, io, ioaddr, owned,
                   pc, args>>

Pin(t) ==
    /\ At(t, "dirty") /\ t \in Pinners /\ addr[t] \notin pinned
    /\ pin' = [pin EXCEPT ![ent[t]] = @ + 1]
    /\ pinned' = pinned \cup {addr[t]}
    /\ UNCHANGED <<status, ref, mapping, free_hand, content, live, pc, args>>

Unlock(t) ==
    /\ pc[t] \in {"locked", "dirty"}
    /\ ClearFlag(ent[t], WRITELOCKED)
    /\ Goto(t, "claimed")
    /\ UNCHANGED <<ref, mapping, rest, args>>

-----------------------------------------------------------------------------
(* treepass_try_get_claim, treepass_get_write and treepass_try_get_write   *)
(* as eviction and discard use them.                                       *)

Claim(t) ==
    /\ At(t, "claim")
    /\ IF Test(ent[t], CLAIMED)
         THEN Goto(t, IF t \in evicting THEN "ev_unref" ELSE "unref")
              /\ UNCHANGED status
         ELSE SetFlag(ent[t], CLAIMED) /\ Goto(t, "set_lock")
    /\ UNCHANGED <<ref, mapping, rest, args>>

\* Eviction tests LOADING first: only it could load into its own batch.
SetLock(t) ==
    /\ At(t, "set_lock")
    /\ IF t \in evicting /\ Test(ent[t], LOADING)
         THEN Goto(t, "ev_unclaim") /\ UNCHANGED status
         ELSE SetFlag(ent[t], WRITELOCKED) /\ Goto(t, "wait_wb")
    /\ UNCHANGED <<ref, mapping, rest, args>>

\* treepass_get_write waits for the writeback to end, try_get_write gives up.
WaitWriteback(t) ==
    /\ At(t, "wait_wb")
    /\ IF Test(ent[t], WRITEBACK)
         THEN t \in evicting /\ Goto(t, "ev_unlock") /\ UNCHANGED scan
         ELSE Goto(t, "wait_refs") /\ scan' = [scan EXCEPT ![t] = 0]
    /\ UNCHANGED <<memory, op, addr, ent, evicting>>

\* Mutant: the caller's own stripe, which other threads share, is skipped.
OtherStripeQuiet(t, s) == s = StripeOf(t) \/ ref[ent[t]][s] = 0

\* No reader but the caller itself is counted on the stripe.
StripeQuiet(t, s) == ref[ent[t]][s] <= IF s = StripeOf(t) THEN 1 ELSE 0

\* One stripe of the scan: get_write waits for it, try_get_write gives up.
WaitRefs(t) ==
    /\ At(t, "wait_refs") /\ scan[t] < RCWidth
    /\ IF StripeQuiet(t, scan[t])
         THEN scan' = [scan EXCEPT ![t] = @ + 1] /\ UNCHANGED pc
         ELSE t \in evicting /\ Goto(t, "ev_unlock") /\ UNCHANGED scan
    /\ UNCHANGED <<memory, op, addr, ent, evicting>>

Locked(t) ==
    /\ At(t, "wait_refs") /\ scan[t] = RCWidth
    /\ Goto(t, IF t \in evicting THEN "verify"
               ELSE IF op[t] = "get" THEN "locked" ELSE "cl_lookup")
    /\ scan' = [scan EXCEPT ![t] = 0]
    /\ UNCHANGED <<memory, op, addr, ent, evicting>>

-----------------------------------------------------------------------------
(* treepass_move_hand, treepass_evict_batch and treepass_try_evict.        *)

\* The scan of treepass_get_free_page ends without an entry.  It may end so
\* although one is free: freed behind the scan, or with a clock that a late
\* reader raised, so that its status is not TP_FREE_STATUS.
BatchFull(t) ==
    /\ At(t, "free")
    /\ Goto(t, "release")
    /\ UNCHANGED <<memory, args>>

MoveHand(t) ==
    /\ At(t, "release")
    /\ free_hand' = [free_hand EXCEPT ![t] = NONE]
    /\ Goto(t, "hand")
    /\ UNCHANGED <<status, ref, mapping, pin, content, owned, args>>

Cleanable(e) == status[e] = {}

\* treepass_try_set_writeback, and the write that is then issued.
StartWriteback(e) ==
    /\ Cleanable(e)
    /\ SetFlag(e, WRITEBACK)
    /\ io' = [io EXCEPT ![e] = "issued"]
    /\ ioaddr' = [ioaddr EXCEPT ![e] = disk_addr[e]]
    /\ iodata' = [iodata EXCEPT ![e] = data[e]]

\* treepass_batch_start_writeback: a page of the batch ahead, which is taken
\* for the time, or a neighbour in its extent, which may be in any batch.
CleanPage(t, e) ==
    /\ At(t, "hand")
    /\ StartWriteback(e)
    /\ UNCHANGED <<ref, mapping, pin, free_hand, data, disk, owned, pc, args>>

TakeBatch(t, b) ==
    /\ At(t, "hand") /\ ~Busy(b)
    /\ free_hand' = [free_hand EXCEPT ![t] = b]
    /\ Goto(t, "sweep")
    /\ UNCHANGED <<status, ref, mapping, pin, content, owned, args>>

Evictable(e, s) == status[e] = s /\ pin[e] = 0

\* The sweep finds a page of its batch that passes try_evict's fast tests.
TryEvict(t, e) ==
    /\ At(t, "sweep") /\ BatchOf[e] = free_hand[t]
    /\ Evictable(e, EVICTABLE_STATUS)
    /\ ref[e][StripeOf(t)] = 0
    /\ ent' = [ent EXCEPT ![t] = e]
    /\ evicting' = evicting \cup {t}
    /\ Goto(t, "rd_test")
    /\ UNCHANGED <<memory, op, addr, scan>>

SweepDone(t) ==
    /\ At(t, "sweep")
    /\ Goto(t, "free")
    /\ UNCHANGED <<memory, args>>

\* Mutant: the tests are not repeated under the write lock.
VerifyNot(t) ==
    /\ At(t, "verify")
    /\ Goto(t, "cl_lookup")
    /\ UNCHANGED <<memory, args>>

\* The fast tests again, under the write lock.
Verify(t) ==
    /\ At(t, "verify")
    /\ Goto(t, IF Evictable(ent[t], LOCKED_EVICTABLE_STATUS)
                 THEN "cl_lookup" ELSE "ev_unlock")
    /\ UNCHANGED <<memory, args>>

EvUnlock(t) ==
    /\ At(t, "ev_unlock")
    /\ ClearFlag(ent[t], WRITELOCKED)
    /\ Goto(t, "ev_unclaim")
    /\ UNCHANGED <<ref, mapping, rest, args>>

EvUnclaim(t) ==
    /\ At(t, "ev_unclaim")
    /\ ClearFlag(ent[t], CLAIMED)
    /\ Goto(t, "ev_unref")
    /\ UNCHANGED <<ref, mapping, rest, args>>

\* Mutant: discard leaves the lookup to eviction.
ClLookupOfEviction(t) ==
    /\ At(t, "cl_lookup")
    /\ lookup' = [a \in Addr |-> IF t \in evicting /\ a = disk_addr[ent[t]]
                                   THEN NONE ELSE lookup[a]]
    /\ Goto(t, "cl_addr")
    /\ UNCHANGED <<status, ref, disk_addr, type, rest, args>>

\* The page is removed: by eviction, or by treepass_try_page_discard.
ClLookup(t) ==
    /\ At(t, "cl_lookup")
    /\ LET gone == IF t \in evicting THEN disk_addr[ent[t]] ELSE addr[t]
       IN  lookup' = [a \in Addr |-> IF a = gone THEN NONE ELSE lookup[a]]
    /\ Goto(t, "cl_addr")
    /\ UNCHANGED <<status, ref, disk_addr, type, rest, args>>

ClAddr(t) ==
    /\ At(t, "cl_addr")
    /\ disk_addr' = [disk_addr EXCEPT ![ent[t]] = NONE]
    /\ Goto(t, "cl_free")
    /\ UNCHANGED <<status, ref, type, lookup, rest, args>>

\* Storing the free status also releases the claim and the write lock.
ClFree(t) ==
    /\ At(t, "cl_free")
    /\ type' = [type EXCEPT ![ent[t]] = NONE]
    /\ status' = [status EXCEPT ![ent[t]] = FREE_STATUS]
    /\ Goto(t, IF t \in evicting THEN "ev_unref" ELSE "cl_pin")
    /\ UNCHANGED <<ref, disk_addr, lookup, rest, args>>

\* treepass_reset_pin, of discard only.
ClPin(t) ==
    /\ At(t, "cl_pin")
    /\ pin' = [pin EXCEPT ![ent[t]] = 0]
    /\ Goto(t, "cl_unref")
    /\ UNCHANGED <<status, ref, mapping, free_hand, content, owned, args>>

ClUnref(t) ==
    /\ At(t, "cl_unref")
    /\ DecRef(t)
    /\ Return(t)
    /\ UNCHANGED <<status, mapping, rest>>

EvUnref(t) ==
    /\ At(t, "ev_unref")
    /\ DecRef(t)
    /\ ent' = [ent EXCEPT ![t] = NONE]
    /\ evicting' = evicting \ {t}
    /\ Goto(t, "sweep")
    /\ UNCHANGED <<status, mapping, rest, op, addr, scan>>

-----------------------------------------------------------------------------
(* treepass_get_free_page: the first free entry of the thread's batch.     *)

GetFreePage(t, e) ==
    /\ At(t, "free") /\ BatchOf[e] = free_hand[t]
    /\ status[e] = FREE_STATUS
    /\ status' = [status EXCEPT ![e] = ALLOC_STATUS]
    /\ ent' = [ent EXCEPT ![t] = e]
    /\ Goto(t, "fr_inc")
    /\ UNCHANGED <<ref, mapping, rest, op, addr, scan, evicting>>

FrInc(t) ==
    /\ At(t, "fr_inc")
    /\ IncRef(t)
    /\ Goto(t, "fr_status")
    /\ UNCHANGED <<status, mapping, rest, args>>

\* Mutant: the type of the new page is not stored.
FrStatusUntyped(t) ==
    /\ At(t, "fr_status")
    /\ status' = [status EXCEPT ![ent[t]] = IF op[t] = "alloc"
                                              THEN ALLOC_STATUS
                                              ELSE READ_LOADING_STATUS]
    /\ Goto(t, IF op[t] = "alloc" THEN "al_addr" ELSE "ld_cas")
    /\ UNCHANGED <<ref, mapping, rest, args>>

\* The plain stores of the status and type the caller asked for.
FrStatus(t) ==
    /\ At(t, "fr_status")
    /\ status' = [status EXCEPT ![ent[t]] = IF op[t] = "alloc"
                                              THEN ALLOC_STATUS
                                              ELSE READ_LOADING_STATUS]
    /\ type' = [type EXCEPT ![ent[t]] = TypeOf[addr[t]]]
    /\ Goto(t, IF op[t] = "alloc" THEN "al_addr" ELSE "ld_cas")
    /\ UNCHANGED <<ref, disk_addr, lookup, rest, args>>

-----------------------------------------------------------------------------
(* treepass_acquire_entry_for_load, treepass_get_from_disk, finish_load.   *)

LdCas(t) ==
    /\ At(t, "ld_cas")
    /\ IF lookup[addr[t]] = NONE
         THEN /\ lookup' = [lookup EXCEPT ![addr[t]] = ent[t]]
              /\ Goto(t, "ld_addr")
         ELSE Goto(t, "ld_unref") /\ UNCHANGED lookup
    /\ UNCHANGED <<status, ref, disk_addr, type, rest, args>>

\* Another thread reserved the lookup: its load is used, this entry is freed.
LdUnref(t) ==
    /\ At(t, "ld_unref")
    /\ DecRef(t)
    /\ Goto(t, "ld_abort")
    /\ UNCHANGED <<status, mapping, rest, args>>

\* Mutant: the reference is released a second time.
LdAbortTwice(t) ==
    /\ At(t, "ld_abort")
    /\ DecRef(t)
    /\ type' = [type EXCEPT ![ent[t]] = NONE]
    /\ status' = [status EXCEPT ![ent[t]] = FREE_STATUS]
    /\ ent' = [ent EXCEPT ![t] = NONE]
    /\ Goto(t, "lookup")
    /\ UNCHANGED <<disk_addr, lookup, rest, op, addr, scan, evicting>>

LdAbort(t) ==
    /\ At(t, "ld_abort")
    /\ type' = [type EXCEPT ![ent[t]] = NONE]
    /\ status' = [status EXCEPT ![ent[t]] = FREE_STATUS]
    /\ ent' = [ent EXCEPT ![t] = NONE]
    /\ Goto(t, "lookup")
    /\ UNCHANGED <<ref, disk_addr, lookup, rest, op, addr, scan, evicting>>

LdAddr(t) ==
    /\ At(t, "ld_addr")
    /\ disk_addr' = [disk_addr EXCEPT ![ent[t]] = addr[t]]
    /\ Goto(t, "ld_read")
    /\ UNCHANGED <<status, ref, type, lookup, rest, args>>

\* io_read: the buffer holds the latest contents if the disk does.
LdRead(t) ==
    /\ At(t, "ld_read")
    /\ data' = [data EXCEPT ![ent[t]] =
                  IF addr[t] \in disk THEN addr[t] ELSE NONE]
    /\ Goto(t, "ld_finish")
    /\ UNCHANGED <<status, ref, mapping, pin, free_hand, disk, io, ioaddr,
                   iodata, owned, args>>

LdFinish(t) ==
    /\ At(t, "ld_finish")
    /\ ClearFlag(ent[t], LOADING)
    /\ Goto(t, "reading")
    /\ UNCHANGED <<ref, mapping, rest, args>>

-----------------------------------------------------------------------------
(* treepass_alloc: the page is returned with the write lock held.          *)

AlAddr(t) ==
    /\ At(t, "al_addr")
    /\ disk_addr' = [disk_addr EXCEPT ![ent[t]] = addr[t]]
    /\ Goto(t, "al_lookup")
    /\ UNCHANGED <<status, ref, type, lookup, rest, args>>

\* A plain store: the compare-and-swap with its assertion is commented out.
AlLookup(t) ==
    /\ At(t, "al_lookup")
    /\ lookup' = [lookup EXCEPT ![addr[t]] = ent[t]]
    /\ Change(ent[t], addr[t])
    /\ live' = live \cup {addr[t]}
    /\ op' = [op EXCEPT ![t] = "get"]
    /\ Goto(t, "dirty")
    /\ UNCHANGED <<status, ref, disk_addr, type, pin, free_hand, io, ioaddr,
                   pinned, addr, ent, scan, evicting>>

-----------------------------------------------------------------------------
(* treepass_write_callback: the write is on disk, the page is marked clean *)
(* and only then its writeback flag is cleared.                            *)

WriteDone(e) ==
    /\ io[e] = "issued"
    /\ disk' = IF iodata[e] = ioaddr[e] THEN disk \cup {ioaddr[e]}
                                        ELSE disk \ {ioaddr[e]}
    /\ SetFlag(e, CLEAN)
    /\ io' = [io EXCEPT ![e] = "cleaned"]
    /\ UNCHANGED <<ref, mapping, pin, free_hand, data, ioaddr, iodata,
                   owned, pc, args>>

WritebackDone(e) ==
    /\ io[e] = "cleaned"
    /\ ClearFlag(e, WRITEBACK)
    /\ io' = [io EXCEPT ![e] = "none"]
    /\ ioaddr' = [ioaddr EXCEPT ![e] = NONE]
    /\ iodata' = [iodata EXCEPT ![e] = NONE]
    /\ UNCHANGED <<ref, mapping, pin, free_hand, data, disk, owned, pc, args>>

-----------------------------------------------------------------------------

Call(t) == \E a \in Addr : Get(t, a) \/ Alloc(t, a) \/ Discard(t, a)

ReadLock(t) ==
    \/ LookupHit(t) \/ LookupMiss(t)
    \/ RdTest(t) \/ RdInc(t) \/ RdFree(t) \/ RdWriting(t) \/ RdUndo(t)
    \/ ChkAddr(t) \/ WaitLoad(t) \/ Recheck(t) \/ ChkType(t) \/ Unref(t)

Holder(t) ==
    \/ Unget(t) \/ TryClaim(t) \/ Unclaim(t) \/ Lock(t)
    \/ MarkDirty(t) \/ Modify(t) \/ Pin(t) \/ Unlock(t)

WriteLock(t) ==
    \/ Claim(t) \/ SetLock(t) \/ WaitWriteback(t) \/ WaitRefs(t) \/ Locked(t)

Evict(t) ==
    \/ BatchFull(t) \/ MoveHand(t) \/ SweepDone(t) \/ Verify(t)
    \/ EvUnlock(t) \/ EvUnclaim(t) \/ EvUnref(t)
    \/ \E e \in Entry : CleanPage(t, e) \/ TryEvict(t, e)
    \/ \E b \in Batch : TakeBatch(t, b)

Remove(t) ==
    ClLookup(t) \/ ClAddr(t) \/ ClFree(t) \/ ClPin(t) \/ ClUnref(t)

Install(t) ==
    \/ \E e \in Entry : GetFreePage(t, e)
    \/ FrInc(t) \/ FrStatus(t)
    \/ LdCas(t) \/ LdUnref(t) \/ LdAbort(t)
    \/ LdAddr(t) \/ LdRead(t) \/ LdFinish(t)
    \/ AlAddr(t) \/ AlLookup(t)

Step(t) ==
    \/ Call(t) \/ ReadLock(t) \/ Holder(t) \/ WriteLock(t)
    \/ Evict(t) \/ Remove(t) \/ Install(t)

Callback(e) == WriteDone(e) \/ WritebackDone(e)

Next == (\E t \in Thread : Step(t)) \/ (\E e \in Entry : Callback(e))

Spec == Init /\ [][Next]_vars

-----------------------------------------------------------------------------
(* Properties.                                                             *)

\* The threads that use the page they got: between get and unget, with the
\* lock or on their way to it.
Holding(t) ==
    \/ pc[t] \in {"reading", "claimed", "locked", "dirty"}
    \/ /\ pc[t] \in {"set_lock", "wait_wb", "wait_refs"}
       /\ op[t] = "get" /\ t \notin evicting

\* The threads that change an entry under the write lock: a holder, or
\* eviction and discard removing the page.
Writing(t) == pc[t] \in {"locked", "dirty", "cl_lookup", "cl_addr", "cl_free"}

\* Every variable keeps its type: no reference count is lowered below zero
\* by a release that was not counted, no write goes to an unmapped address.
TypeOK ==
    /\ status \in [Entry -> SUBSET Flag]
    /\ ref \in [Entry -> [Stripe -> Nat]]
    /\ pin \in [Entry -> Nat]
    /\ disk_addr \in [Entry -> Addr \cup {NONE}]
    /\ type \in [Entry -> PageType \cup {NONE}]
    /\ lookup \in [Addr -> Entry \cup {NONE}]
    /\ free_hand \in [Thread -> Batch \cup {NONE}]
    /\ data \in [Entry -> Addr \cup {NONE}]
    /\ disk \in SUBSET Addr
    /\ io \in [Entry -> {"none", "issued", "cleaned"}]
    /\ ioaddr \in [Entry -> Addr \cup {NONE}]
    /\ iodata \in [Entry -> Addr \cup {NONE}]
    /\ live \in SUBSET Addr
    /\ pinned \in SUBSET Addr
    /\ pc \in [Thread -> PC]
    /\ op \in [Thread -> {"none", "get", "alloc", "discard"}]
    /\ addr \in [Thread -> Addr \cup {NONE}]
    /\ ent \in [Thread -> Entry \cup {NONE}]
    /\ scan \in [Thread -> 0 .. RCWidth]
    /\ evicting \in SUBSET Thread

\* The write lock of treepass_get_write and treepass_try_get_write excludes
\* every other user of the page, whichever reference count stripe it is on.
MutualExclusion ==
    \A t, u \in Thread :
        t # u /\ Writing(t) /\ (Holding(u) \/ Writing(u)) => ent[t] # ent[u]

\* A page handle treepass_get returned stays the handle of the page asked
\* for: neither eviction nor discard gives its entry to another address
\* (the races the checks in treepass_get_in_cache are there for).
HandleValid ==
    \A t \in Thread : Holding(t) =>
        /\ disk_addr[ent[t]] = addr[t]
        /\ type[ent[t]] = TypeOf[addr[t]]
        /\ lookup[addr[t]] = ent[t]

\* Whoever holds a page sees the last contents written to its address, also
\* when the page was written back, evicted and loaded again in between.
HoldersReadLatest == \A t \in Thread : Holding(t) => data[ent[t]] = addr[t]

\* A pin is "an anonymous read lock" (treepass_pin): a pinned page stays in
\* the cache, pinned and with its last contents, until its extent is
\* discarded.
PinnedStay ==
    \A a \in pinned : \E e \in Entry :
        lookup[a] = e /\ pin[e] > 0 /\ data[e] = a

\* Holders and pins both keep the latest contents of their page in reach.
ReadLatest == HoldersReadLatest /\ PinnedStay

\* The last contents of an allocated page are never lost: they are on disk
\* or in the entry the lookup table leads to.
NothingLost ==
    \A a \in live : a \in disk \/ \E e \in Entry : lookup[a] = e /\ data[e] = a

\* What the commented-out compare-and-swap of treepass_alloc asserted: the
\* lookup of an address being allocated is not in use.
AllocUnmapped ==
    \A t \in Thread : At(t, "al_lookup") => lookup[addr[t]] = NONE

\* The assertion of treepass_get_in_cache on the page type cannot fail.
NoFailure == \A t \in Thread : pc[t] # "failed"
=============================================================================
