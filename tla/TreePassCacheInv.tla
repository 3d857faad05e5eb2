------------------------- MODULE TreePassCacheInv -------------------------
(***************************************************************************)
(* The inductive invariant of TreePassCache: why the write lock excludes   *)
(* every other user of a page, why a page handle stays valid, and why the  *)
(* latest contents of a page are never lost.                               *)
(***************************************************************************)
EXTENDS TreePassCache

\* Where a thread has its reference counted on ent[t].
CountedPC ==
    {"rd_free", "rd_writing", "rd_conflict", "rd_evicted", "chk_addr",
     "wait_load", "recheck", "chk_type", "unref", "reading", "claim",
     "claimed", "set_lock", "wait_wb", "wait_refs", "locked", "dirty",
     "verify", "ev_unlock", "ev_unclaim", "ev_unref", "cl_lookup", "cl_addr", "cl_free",
     "cl_pin", "cl_unref", "fr_status", "ld_cas", "ld_unref", "ld_addr",
     "ld_read", "ld_finish", "al_addr", "al_lookup", "failed"}

Counted(e, s) ==
    {t \in Thread : ent[t] = e /\ StripeOf(t) = s /\ pc[t] \in CountedPC}

\* Where a thread owns the claim, and the write lock, of ent[t].
ClaimPC ==
    {"claimed", "set_lock", "wait_wb", "wait_refs", "locked", "dirty",
     "verify", "ev_unlock", "ev_unclaim", "cl_lookup", "cl_addr", "cl_free",
     "fr_inc", "fr_status", "al_addr", "al_lookup"}
LockPC == ClaimPC \ {"claimed", "set_lock", "ev_unclaim"}

\* Where a thread has filled in, but not yet published, a free entry.
FreshPC ==
    {"fr_inc", "fr_status", "ld_cas", "ld_unref", "ld_abort", "ld_addr",
     "al_addr", "al_lookup"}

\* Where a thread relies on the read lock that try_get_read returned.
PassedPC ==
    {"chk_addr", "wait_load", "recheck", "chk_type", "reading", "claim",
     "claimed", "set_lock", "wait_wb", "wait_refs", "locked", "dirty",
     "verify", "ev_unlock", "ev_unclaim", "cl_lookup", "cl_addr", "cl_free",
     "ld_read", "ld_finish", "failed"}

\* Where a thread loads its entry.
LoadPC ==
    {"ld_cas", "ld_unref", "ld_abort", "ld_addr", "ld_read", "ld_finish"}

\* Where only a sweep's try_evict can be, and where it can be at all.
EvictOnlyPC == {"verify", "ev_unlock", "ev_unclaim", "ev_unref"}
EvictPC ==
    EvictOnlyPC \cup
    {"rd_test", "rd_inc", "rd_free", "rd_writing", "rd_conflict",
     "rd_evicted", "claim", "set_lock", "wait_wb", "wait_refs",
     "cl_lookup", "cl_addr", "cl_free"}

NoEntryPC == {"idle", "lookup", "free", "release", "hand", "sweep"}

\* The call each label belongs to.
GetPC == {"chk_addr", "chk_type", "reading", "claimed", "locked", "dirty",
          "ld_cas", "ld_unref", "ld_abort", "ld_addr", "ld_read", "ld_finish",
          "failed"}
AllocPC == {"al_addr", "al_lookup"}
DiscardPC == {"cl_pin", "cl_unref"}
InstallPC == {"free", "release", "hand", "sweep", "fr_inc", "fr_status"}

LocalInv ==
    \A t \in Thread :
        /\ (ent[t] = NONE) <=> (pc[t] \in NoEntryPC)
        /\ (addr[t] = NONE) <=> (pc[t] = "idle")
        /\ (op[t] = "none") <=> (pc[t] = "idle")
        /\ t \in evicting => pc[t] \in EvictPC /\ op[t] \in {"get", "alloc"}
        /\ pc[t] \in EvictOnlyPC => t \in evicting
        /\ pc[t] \in GetPC => op[t] = "get"
        /\ pc[t] \in AllocPC => op[t] = "alloc"
        /\ pc[t] \in DiscardPC => op[t] = "discard"
        /\ pc[t] \in InstallPC => op[t] \in {"get", "alloc"}
        /\ op[t] = "alloc" =>
             \/ t \in evicting
             \/ pc[t] \in InstallPC \cup AllocPC
        /\ pc[t] \in {"claim", "cl_lookup", "cl_addr", "cl_free"} =>
             t \in evicting \/ op[t] = "discard"

\* An address being allocated or discarded has no other user; the pages of
\* the others are allocated.
AddrInv ==
    \A t \in Thread :
        /\ op[t] \in {"alloc", "discard"} =>
             addr[t] \notin live /\ \A u \in Thread \ {t} : addr[u] # addr[t]
        /\ op[t] = "get" => addr[t] \in live

\* Batches have one owner, and only the owner evicts or fills their entries.
BatchInv ==
    /\ \A t, u \in Thread :
         t # u /\ free_hand[t] = free_hand[u] => free_hand[t] = NONE
    /\ \A t \in Thread, e \in Entry :
         ent[t] = e /\ (t \in evicting \/ pc[t] \in FreshPC)
            => BatchOf[e] = free_hand[t]

\* Every reference count is the number of threads that hold it.
RefInv ==
    \A e \in Entry, s \in Stripe : ref[e][s] = Cardinality(Counted(e, s))

\* The claim flag has one owner; the write lock is held under the claim.
ClaimInv ==
    /\ \A t \in Thread, e \in Entry : ent[t] = e =>
         /\ pc[t] \in ClaimPC => CLAIMED \in status[e]
         /\ pc[t] \in LockPC => WRITELOCKED \in status[e]
    /\ \A t, u \in Thread :
         t # u /\ pc[t] \in ClaimPC /\ pc[u] \in ClaimPC => ent[t] # ent[u]

\* A thread that obtained the read lock on an entry that was free, or about
\* to be filled in, finds out when it looks at the disk address.
Stale(u) ==
    /\ u \notin evicting
    /\ \/ op[u] = "get" /\ pc[u] = "chk_addr"
       \/ op[u] = "discard" /\ pc[u] \in {"wait_load", "recheck"}
    /\ addr[u] # disk_addr[ent[u]]

FreeInv ==
    \A e \in Entry : FREE \in status[e] =>
        /\ disk_addr[e] = NONE
        /\ \A u \in Thread : ent[u] = e =>
             /\ pc[u] \notin FreshPC
             /\ pc[u] \in PassedPC =>
                  \/ Stale(u)
                  \/ /\ u \in evicting
                     /\ pc[u] \notin {"cl_lookup", "cl_addr", "cl_free"}

FreshInv ==
    \A t \in Thread : pc[t] \in FreshPC =>
        /\ disk_addr[ent[t]] = IF pc[t] = "al_lookup" THEN addr[t] ELSE NONE
        /\ \A u \in Thread \ {t} : ent[u] = ent[t] =>
             pc[u] \notin FreshPC /\ (pc[u] \in PassedPC => Stale(u))

\* The writer has looked at the stripe of u's counter, and found it quiet.
Scanned(t, u) ==
    \/ pc[t] = "wait_refs" /\ scan[t] > StripeOf(u)
    \/ pc[t] \in {"locked", "dirty", "verify", "cl_lookup", "cl_addr",
                  "cl_free"}

ScanInv ==
    \A t, u \in Thread :
        t # u /\ ent[t] = ent[u] /\ Scanned(t, u) /\ pc[u] \in PassedPC
            => Stale(u)

\* The entry of a thread that checked its disk address keeps that address.
Validated(t) ==
    /\ t \notin evicting
    /\ \/ /\ op[t] = "get"
          /\ pc[t] \in {"wait_load", "recheck", "chk_type", "reading",
                        "claimed", "set_lock", "wait_wb", "wait_refs", "locked", "dirty",
                        "ld_read", "ld_finish"}
       \/ /\ op[t] = "discard"
          /\ pc[t] \in {"claim", "set_lock", "wait_wb", "wait_refs",
                        "cl_lookup", "cl_addr"}

ValidInv ==
    \A t \in Thread :
        /\ Validated(t) => disk_addr[ent[t]] = addr[t]
        /\ pc[t] = "cl_free" => disk_addr[ent[t]] = NONE

\* The loading flag has one owner.
LoadInv ==
    /\ \A t \in Thread, e \in Entry :
         ent[t] = e /\ pc[t] \in LoadPC => LOADING \in status[e]
    /\ \A t, u \in Thread :
         t # u /\ pc[t] \in LoadPC /\ pc[u] \in LoadPC => ent[t] # ent[u]

\* An entry in use has an address, so a write in flight has a target.
MappedInv ==
    \A e \in Entry :
        /\ disk_addr[e] = NONE =>
             \/ FREE \in status[e]
             \/ \E t \in Thread :
                    ent[t] = e /\ pc[t] \in FreshPC \cup {"cl_free"}
        /\ io[e] # "none" => ioaddr[e] # NONE

\* The lookup table and the addresses of the entries agree, except while a
\* page is being installed or removed.
Transit(e) ==
    \E t \in Thread : ent[t] = e /\ pc[t] \in {"cl_addr", "al_lookup"}

MapInv ==
    /\ \A e \in Entry, a \in Addr : disk_addr[e] = a =>
         Transit(e) \/ (lookup[a] = e /\ type[e] = TypeOf[a])
    /\ \A e \in Entry, a \in Addr : lookup[a] = e =>
         \/ disk_addr[e] = a
         \/ \E t \in Thread : ent[t] = e /\ addr[t] = a /\ pc[t] = "ld_addr"
    /\ \A t \in Thread :
         /\ pc[t] = "ld_addr" => lookup[addr[t]] = ent[t]
         /\ pc[t] = "cl_addr" => \A a \in Addr : lookup[a] # ent[t]
         /\ pc[t] \in {"ld_cas", "ld_addr", "al_addr", "al_lookup"} =>
              type[ent[t]] = TypeOf[addr[t]]

\* The lookup of an address whose extent is not allocated is not in use, or
\* the discard that will clear it is under way.
DeadInv ==
    \A a \in Addr : a \notin live /\ lookup[a] # NONE =>
        \E t \in Thread :
            /\ op[t] = "discard" /\ addr[t] = a
            /\ pc[t] \notin {"cl_addr", "cl_free", "cl_pin", "cl_unref"}

IInv ==
    /\ TypeOK
    /\ LocalInv
    /\ AddrInv
    /\ BatchInv
    /\ RefInv
    /\ ClaimInv
    /\ FreeInv
    /\ FreshInv
    /\ ScanInv
    /\ ValidInv
    /\ LoadInv
    /\ MappedInv
    /\ MapInv
    /\ DeadInv

-----------------------------------------------------------------------------
(* The contents of the pages: why a cached page is the latest version, and *)
(* why the disk has it when eviction drops the page.                       *)

\* Where a thread knows that no write of ent[t] is in flight: it waited for
\* the writeback to end under the claim, or took the entry free.
QuietPC ==
    {"wait_refs", "locked", "dirty", "verify", "cl_lookup", "cl_addr",
     "cl_free", "fr_inc", "fr_status", "al_addr", "al_lookup"}

\* The flag covers the write from the issue to the end of its callback; the
\* entry keeps the address, and while it is issued the contents, it writes.
WritebackInv ==
    /\ \A e \in Entry :
         /\ io[e] # "none" <=> WRITEBACK \in status[e]
         /\ io[e] # "none" => ioaddr[e] = disk_addr[e]
         /\ io[e] = "issued" => iodata[e] = ioaddr[e]
         /\ WRITEBACK \in status[e] => status[e] \cap {FREE, LOADING} = {}
    /\ \A t \in Thread, e \in Entry :
         ent[t] = e /\ pc[t] \in QuietPC => WRITEBACK \notin status[e]

\* Where a caller of treepass_get uses a page that was not loading.
LoadedPC ==
    {"recheck", "chk_type", "reading", "claimed", "set_lock", "wait_wb",
     "wait_refs", "locked", "dirty"}

LoadedInv ==
    /\ \A t \in Thread, e \in Entry : ent[t] = e =>
         /\ Validated(t) /\ op[t] = "get" /\ pc[t] \in LoadedPC =>
              LOADING \notin status[e]
         /\ pc[t] \in {"al_addr", "al_lookup"} => LOADING \notin status[e]
    /\ \A e \in Entry : LOADING \in status[e] => CLEAN \in status[e]

\* A writer marks its page dirty before it changes it; eviction removes
\* clean pages only.
DirtyInv ==
    \A t \in Thread, e \in Entry : ent[t] = e =>
        /\ pc[t] \in {"dirty", "al_addr", "al_lookup"} =>
             CLEAN \notin status[e]
        /\ t \in evicting /\ pc[t] = "cl_lookup" => CLEAN \in status[e]

\* A mapped entry holds the latest version, unless it is still to be read;
\* of a clean one the disk has it too.
DataInv ==
    \A a \in Addr, e \in Entry : lookup[a] = e =>
        /\ \/ data[e] = a
           \/ \E t \in Thread : ent[t] = e /\ pc[t] \in {"ld_addr", "ld_read"}
        /\ CLEAN \in status[e] => a \in disk

ContentInv ==
    /\ WritebackInv
    /\ LoadedInv
    /\ DirtyInv
    /\ DataInv
    /\ NothingLost
=============================================================================
