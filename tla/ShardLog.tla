------------------------------ MODULE ShardLog ------------------------------
(***************************************************************************)
(* The write-ahead log (src/splinterdb/src/shard_log.c) as a client of the *)
(* page cache: every thread appends to a page of its own.  shard_log_write *)
(* gets, claims and locks that page, changes it and releases it; a page    *)
(* with no room left is synced and another one allocated.  The room left   *)
(* (thread_data->offset) is abstracted to a choice.                        *)
(***************************************************************************)
EXTENDS TreePassCache

CONSTANT LogAddr    \* the addresses of log pages

VARIABLES
    log_page,   \* thread_data->addr, the page a thread appends to
    full        \* the threads that found their page full

logVars == <<vars, log_page, full>>

LogInit ==
    /\ Init
    /\ live \cap LogAddr = {}
    /\ log_page = [t \in Thread |-> NONE]
    /\ full = {}

-----------------------------------------------------------------------------

\* shard_log_write takes the thread's page, or allocates one.
LogGet(t) ==
    /\ log_page[t] # NONE
    /\ Get(t, log_page[t])
    /\ UNCHANGED <<log_page, full>>

LogAlloc(t, a) ==
    /\ log_page[t] = NONE /\ \A u \in Thread : log_page[u] # a
    /\ Alloc(t, a)
    /\ log_page' = [log_page EXCEPT ![t] = a]
    /\ UNCHANGED full

\* The entry, or the end mark and the checksum of a full page, is written.
\* The page is not marked dirty.
LogChange(t) ==
    /\ pc[t] \in {"locked", "dirty"} /\ addr[t] \in LogAddr
    /\ Change(ent[t], addr[t])
    /\ Goto(t, "log_unlock")
    /\ UNCHANGED <<status, ref, mapping, pin, free_hand, io, ioaddr, owned,
                   args, log_page>>

LogAppend(t) == LogChange(t) /\ UNCHANGED full

LogFull(t) == LogChange(t) /\ full' = full \cup {t}

LogUnlock(t) ==
    /\ At(t, "log_unlock")
    /\ ClearFlag(ent[t], WRITELOCKED)
    /\ Goto(t, "log_unclaim")
    /\ UNCHANGED <<ref, mapping, rest, args, log_page, full>>

LogUnclaim(t) ==
    /\ At(t, "log_unclaim")
    /\ ClearFlag(ent[t], CLAIMED)
    /\ Goto(t, IF t \in full THEN "log_sync" ELSE "log_unget")
    /\ UNCHANGED <<ref, mapping, rest, args, log_page, full>>

\* treepass_page_sync, not blocking: a page that cannot be written back is
\* asserted to be clean.
LogSync(t) ==
    /\ At(t, "log_sync")
    /\ \/ StartWriteback(ent[t]) /\ Goto(t, "log_unget")
       \/ /\ ~Cleanable(ent[t])
          /\ Goto(t, IF Test(ent[t], CLEAN) THEN "log_unget" ELSE "failed")
          /\ UNCHANGED <<status, io, ioaddr, iodata>>
    /\ UNCHANGED <<ref, mapping, pin, free_hand, data, disk, owned, args,
                   log_page, full>>

\* A thread whose page was full goes on with a new one.
LogUnget(t) ==
    /\ At(t, "log_unget")
    /\ DecRef(t)
    /\ Return(t)
    /\ log_page' = [log_page EXCEPT ![t] = IF t \in full THEN NONE ELSE @]
    /\ full' = full \ {t}
    /\ UNCHANGED <<status, mapping, rest>>

LogStep(t) ==
    \/ LogGet(t) \/ LogAppend(t) \/ LogFull(t)
    \/ LogUnlock(t) \/ LogUnclaim(t) \/ LogSync(t) \/ LogUnget(t)
    \/ \E a \in LogAddr : LogAlloc(t, a)

\* Everybody else uses the other pages; claiming and locking a page, and
\* what the cache does by itself, is the same for all.
OtherStep(t) ==
    \/ \E a \in Addr \ LogAddr : Get(t, a) \/ Alloc(t, a) \/ Discard(t, a)
    \/ addr[t] \notin LogAddr /\ Holder(t)
    \/ TryClaim(t) \/ Lock(t)
    \/ ReadLock(t) \/ WriteLock(t) \/ Evict(t) \/ Remove(t) \/ Install(t)

LogNext ==
    \/ \E t \in Thread : LogStep(t)
    \/ (\E t \in Thread : OtherStep(t)) /\ UNCHANGED <<log_page, full>>
    \/ (\E e \in Entry : Callback(e)) /\ UNCHANGED <<log_page, full>>

LogSpec == LogInit /\ [][LogNext]_logVars
=============================================================================
