------------------------------ MODULE Storage ------------------------------
(***************************************************************************)
(* Space on disk: extents with reference counts (rc_allocator.c), the mini *)
(* allocators that hand out their pages to threads (mini_allocator.c), and *)
(* the super block that names the root across sessions (core.c,            *)
(* splinterdb.c), with crashes.  A tree stands for what a root refers to:  *)
(* a finished mini allocator, known by the address of its first meta page. *)
(* Extent 0 holds the super block and the saved reference counts.          *)
(***************************************************************************)
EXTENDS Integers, Sequences, SequencesExt, FiniteSetsExt

CONSTANTS
  NumExtents,
  PagesPerExtent,
  EntriesPerMeta,  \* extents that a meta page lists
  NumBatches,      \* at most, of a mini allocator
  Threads,
  Bounds           \* what a behaviour may do: see Init

Extents == 0 .. NumExtents - 1

ASSUME StorageAssumption ==
  /\ IsFiniteSet(Threads)
  /\ NumExtents \in Nat \ {0} /\ PagesPerExtent \in Nat \ {0}
  /\ EntriesPerMeta \in Nat \ {0} /\ NumBatches \in Nat \ {0}

VARIABLES
  ref,      \* reference counts of the extents
  hand,     \* where the allocator looks next
  page,     \* contents of the meta pages, by address
  mini,     \* the mini allocator that threads take pages from
  root,     \* the current root, 0 if there is none
  thread,   \* where each thread is
  disk,     \* what is on disk: super block, reference counts, meta pages
  session,  \* the phase of the session and the crashes so far
  bound,    \* what may still happen
  err       \* assertions that have failed
vars == <<ref, hand, page, mini, root, thread, disk, session, bound, err>>

MiniNoRefs == 2
Wait == -1        \* MINI_WAIT
NoMini == [state |-> "none"]
Address(e) == e * PagesPerExtent
ExtentOf(addr) == addr \div PagesPerExtent

\* A thread: where it is, the tree it holds, and the locals of what it calls.
Idle ==
  [pc |-> "idle", held |-> 0,
   ret |-> "idle", first |-> 0, hand |-> 0, free |-> {}, got |-> 0,  \* rc_allocator_alloc
   batch |-> 0, addr |-> 0,                                          \* mini_alloc
   head |-> 0, at |-> 0, entry |-> 0, extent |-> 0]                  \* mini_dec_ref
With(t, fields) == [x \in DOMAIN t |-> IF x \in DOMAIN fields THEN fields[x] ELSE t[x]]
Goes(t, fields) == thread' = [thread EXCEPT ![t] = With(thread[t], fields)]
Becomes(t) == thread' = [thread EXCEPT ![t] = With(Idle, [held |-> thread[t].held])]
At(t, pc) == thread[t].pc = pc

Check(cond, what) == err' = IF cond THEN err ELSE err \cup {what}

-----------------------------------------------------------------------------
(***************************************************************************)
(* rc_allocator_alloc: threads share the hand; one that comes round to     *)
(* where it began gives up, and the process with it.  free is what was     *)
(* free all along.                                                         *)
(***************************************************************************)

CallAlloc(t, ret, batch) == Goes(t, [pc |-> "first", ret |-> ret, batch |-> batch])

AllocFirst(t) ==
  /\ At(t, "first")
  /\ Goes(t, [pc |-> "scan", first |-> hand, free |-> {e \in Extents : ref[e] = 0}])
  /\ UNCHANGED <<ref, hand, page, mini, root, disk, session, bound, err>>

AllocScan(t) ==
  /\ At(t, "scan")
  /\ hand' = (hand + 1) % NumExtents
  /\ Goes(t, [pc |-> "test", hand |-> hand])
  /\ UNCHANGED <<ref, page, mini, root, disk, session, bound, err>>

\* Faulty: the search ends one extent early.
FaultyRoundIsOver(t) == (thread[t].hand + 2) % NumExtents = thread[t].first
RoundIsOver(t) == (thread[t].hand + 1) % NumExtents = thread[t].first

AllocTest(t) ==
  /\ At(t, "test")
  /\ LET e == thread[t].hand
         found == [pc |-> thread[t].ret, got |-> e, ret |-> "idle", first |-> 0, hand |-> 0, free |-> {}]
     IN IF ref[e] = 0
        THEN /\ ref' = [ref EXCEPT ![e] = 2]
             /\ thread' = [u \in Threads |->
                             With(thread[u], IF u = t THEN found ELSE [free |-> thread[u].free \ {e}])]
        ELSE /\ Goes(t, [pc |-> IF RoundIsOver(t) THEN "no_space" ELSE "scan"])
             /\ UNCHANGED ref
  /\ UNCHANGED <<hand, page, mini, root, disk, session, bound, err>>

-----------------------------------------------------------------------------
(***************************************************************************)
(* mini_init: a meta page with an extra reference, an extent ahead for     *)
(* each batch.                                                             *)
(***************************************************************************)

Running(t) == session.phase = "up" /\ At(t, "idle")

MiniInit(t, num_batches) ==
  /\ Running(t) /\ mini = NoMini /\ bound.trees > 0
  /\ mini' = [state |-> "init", head |-> 0, tail |-> 0, locked |-> FALSE,
              next_addr |-> [b \in 1 .. num_batches |-> 0],
              next_extent |-> [b \in 1 .. num_batches |-> 0], given |-> {}]
  /\ bound' = [bound EXCEPT !.trees = @ - 1]
  /\ CallAlloc(t, "meta", 0)
  /\ UNCHANGED <<ref, hand, page, root, disk, session, err>>

EmptyMetaPage == [next |-> 0, entries |-> <<>>]
PageSet(pages, addr, contents) ==
  [a \in DOMAIN pages \cup {addr} |-> IF a = addr THEN contents ELSE pages[a]]

MiniInitMeta(t) ==
  /\ At(t, "meta")
  /\ LET e == thread[t].got
     IN /\ ref' = [ref EXCEPT ![e] = @ + 1]
        /\ Check(ref'[e] = MiniNoRefs + 1, "mini_init")
        /\ page' = PageSet(page, Address(e), EmptyMetaPage)
        /\ mini' = [mini EXCEPT !.head = Address(e), !.tail = Address(e)]
  /\ CallAlloc(t, "batch", 1)
  /\ UNCHANGED <<hand, root, disk, session, bound>>

MiniInitBatch(t) ==
  /\ At(t, "batch")
  /\ LET b == thread[t].batch
     IN IF b < Len(mini.next_extent)
        THEN /\ mini' = [mini EXCEPT !.next_extent[b] = thread[t].got]
             /\ CallAlloc(t, "batch", b + 1)
        ELSE /\ mini' = [mini EXCEPT !.next_extent[b] = thread[t].got, !.state = "open"]
             /\ Becomes(t)
  /\ UNCHANGED <<ref, hand, page, root, disk, session, bound, err>>

-----------------------------------------------------------------------------
(***************************************************************************)
(* mini_alloc                                                              *)
(***************************************************************************)

\* Faulty: a batch is not locked while its next page is allocated.
FaultyLockBatch(b) == mini
\* mini_lock_batch_get_next_addr
LockBatch(b) == [mini EXCEPT !.next_addr[b] = Wait]

MiniAlloc(t, b) ==
  /\ Running(t) /\ mini.state = "open" /\ bound.pages > 0
  /\ mini.next_addr[b] # Wait
  /\ mini' = LockBatch(b)
  /\ bound' = [bound EXCEPT !.pages = @ - 1]
  /\ IF mini.next_addr[b] % PagesPerExtent = 0
     THEN CallAlloc(t, "next", b)
     ELSE Goes(t, [pc |-> "give", batch |-> b, addr |-> mini.next_addr[b]])
  /\ UNCHANGED <<ref, hand, page, root, disk, session, err>>

\* The extent ahead is used now, and the one just allocated is ahead.
MiniNextExtent(t) ==
  /\ At(t, "next")
  /\ mini' = [mini EXCEPT !.next_extent[thread[t].batch] = thread[t].got]
  /\ Goes(t, [pc |-> "append", addr |-> Address(mini.next_extent[thread[t].batch])])
  /\ UNCHANGED <<ref, hand, page, root, disk, session, bound, err>>

\* A new meta page behind the tail, with the entry of thread t.
NewMetaTail(t, addr) ==
  /\ page' = PageSet([page EXCEPT ![mini.tail].next = addr], addr,
                     [next |-> 0, entries |-> <<ExtentOf(thread[t].addr)>>])
  /\ mini' = [mini EXCEPT !.tail = addr, !.locked = FALSE]
  /\ Goes(t, [pc |-> "give"])

\* mini_append_entry: under the lock of the last meta page.
MiniAppendEntry(t) ==
  /\ At(t, "append") /\ ~mini.locked
  /\ CASE Len(page[mini.tail].entries) < EntriesPerMeta ->
            /\ page' = [page EXCEPT ![mini.tail].entries = Append(@, ExtentOf(thread[t].addr))]
            /\ Goes(t, [pc |-> "give"])
            /\ UNCHANGED mini
       [] Len(page[mini.tail].entries) = EntriesPerMeta /\ (mini.tail + 1) % PagesPerExtent # 0 ->
            NewMetaTail(t, mini.tail + 1)
       [] OTHER ->
            /\ mini' = [mini EXCEPT !.locked = TRUE]
            /\ CallAlloc(t, "meta_extent", thread[t].batch)
            /\ UNCHANGED page
  /\ UNCHANGED <<ref, hand, root, disk, session, bound, err>>

MiniMetaExtent(t) ==
  /\ At(t, "meta_extent")
  /\ NewMetaTail(t, Address(thread[t].got))
  /\ UNCHANGED <<ref, hand, root, disk, session, bound, err>>

\* mini_unlock_batch_set_next_addr, and the page is the caller's.
MiniGive(t) ==
  /\ At(t, "give")
  /\ LET addr == thread[t].addr
     IN /\ mini' = [mini EXCEPT !.next_addr[thread[t].batch] = addr + 1, !.given = @ \cup {addr}]
        /\ Check(addr \notin mini.given, "given_twice")
  /\ Becomes(t)
  /\ UNCHANGED <<ref, hand, page, root, disk, session, bound>>

-----------------------------------------------------------------------------
(***************************************************************************)
(* mini_release: the extents ahead are given back.  The callers make sure  *)
(* that no thread is in mini_alloc.                                        *)
(***************************************************************************)

\* Inside mini_dec_ref.
Dropping == {"dec_ref", "entries", "deinit", "dealloc", "discard", "free"}

MiniRelease(t) ==
  /\ Running(t) /\ mini.state = "open"
  /\ \A u \in Threads : At(u, "idle") \/ thread[u].pc \in Dropping
  /\ mini' = [mini EXCEPT !.state = "released"]
  /\ Goes(t, [pc |-> "release", batch |-> 1])
  /\ UNCHANGED <<ref, hand, page, root, disk, session, bound, err>>

ReleaseBatch(t) ==
  /\ At(t, "release")
  /\ LET b == thread[t].batch
         e == mini.next_extent[b]
     IN /\ ref' = [ref EXCEPT ![e] = @ - 2]
        /\ Check(ref'[e] = 0, "mini_release")
        /\ Goes(t, IF b < Len(mini.next_extent) THEN [batch |-> b + 1] ELSE [pc |-> "released"])
  /\ UNCHANGED <<hand, page, mini, root, disk, session, bound>>

\* The tree becomes the root, and the old root loses the reference of the
\* context (trunk_modification_end); or nobody wants it.
Install(t) ==
  /\ At(t, "released")
  /\ root' = mini.head
  /\ mini' = NoMini
  /\ IF root = 0 THEN Becomes(t) ELSE Goes(t, [pc |-> "dec_ref", head |-> root])
  /\ UNCHANGED <<ref, hand, page, disk, session, bound, err>>

Abandon(t) ==
  /\ At(t, "released")
  /\ mini' = NoMini
  /\ Goes(t, [pc |-> "dec_ref", head |-> mini.head])
  /\ UNCHANGED <<ref, hand, page, root, disk, session, bound, err>>

\* mini_inc_ref of the root, and the end of its use.
Acquire(t) ==
  /\ Running(t) /\ root # 0 /\ thread[t].held = 0 /\ bound.readers > 0
  /\ ref' = [ref EXCEPT ![ExtentOf(root)] = @ + 1]
  /\ Check(ref'[ExtentOf(root)] > MiniNoRefs, "mini_inc_ref")
  /\ Goes(t, [held |-> root])
  /\ bound' = [bound EXCEPT !.readers = @ - 1]
  /\ UNCHANGED <<hand, page, mini, root, disk, session>>

GiveBack(t) ==
  /\ Running(t) /\ thread[t].held # 0
  /\ Goes(t, [pc |-> "dec_ref", head |-> thread[t].held, held |-> 0])
  /\ UNCHANGED <<ref, hand, page, mini, root, disk, session, bound, err>>

-----------------------------------------------------------------------------
(***************************************************************************)
(* mini_dec_ref: with the last reference go the data extents and then the  *)
(* meta extents, each discarded from the cache while it cannot be reused.  *)
(***************************************************************************)

\* cache_get of a meta page: its extent is not free, and the page has contents.
Readable(a) == ref[ExtentOf(a)] # 0 /\ a \in DOMAIN page
MetaPage(a) == IF a \in DOMAIN page THEN page[a] ELSE EmptyMetaPage

MiniDecRef(t) ==
  /\ At(t, "dec_ref")
  /\ LET head == thread[t].head
         count == ref[ExtentOf(head)] - 1
     IN /\ ref' = [ref EXCEPT ![ExtentOf(head)] = count]
        /\ Check(count >= MiniNoRefs /\ head \in DOMAIN page, "mini_dec_ref")
        /\ IF count = MiniNoRefs
           THEN Goes(t, [pc |-> "entries", at |-> head, entry |-> 1])
           ELSE Becomes(t)
  /\ UNCHANGED <<hand, page, mini, root, disk, session, bound>>

\* mini_for_each: the data extents, entry by entry and page by page.
MiniForEach(t) ==
  /\ At(t, "entries")
  /\ Check(Readable(thread[t].at), "mini_for_each")
  /\ LET meta == MetaPage(thread[t].at)
         n == thread[t].entry
     IN CASE n <= Len(meta.entries) ->
               Goes(t, [pc |-> "dealloc", extent |-> meta.entries[n], entry |-> n + 1])
          [] n > Len(meta.entries) /\ meta.next # 0 -> Goes(t, [at |-> meta.next, entry |-> 1])
          [] OTHER -> Goes(t, [pc |-> "deinit", at |-> thread[t].head, entry |-> 0])
  /\ UNCHANGED <<ref, hand, page, mini, root, disk, session, bound>>

\* Faulty: only the extent of the last meta page is given back.
FaultyPagesShareExtent(a, b) == b # 0
PagesShareExtent(a, b) == ExtentOf(a) = ExtentOf(b)

\* mini_deinit: the meta extents, each at the last of its pages.
MiniDeinit(t) ==
  /\ At(t, "deinit")
  /\ Check(Readable(thread[t].at), "mini_deinit")
  /\ LET at == thread[t].at
         next == MetaPage(at).next
     IN IF PagesShareExtent(at, next)
        THEN Goes(t, [at |-> next])
        ELSE Goes(t, [pc |-> "dealloc", extent |-> ExtentOf(at), at |-> next])
  /\ UNCHANGED <<ref, hand, page, mini, root, disk, session, bound>>

Dealloc(t) ==
  /\ At(t, "dealloc")
  /\ LET e == thread[t].extent
     IN /\ ref' = [ref EXCEPT ![e] = @ - 1]
        /\ Check(ref'[e] = 1, "dealloc")
  /\ Goes(t, [pc |-> "discard"])
  /\ UNCHANGED <<hand, page, mini, root, disk, session, bound>>

Discard(t) ==
  /\ At(t, "discard")
  /\ page' = [a \in {x \in DOMAIN page : ExtentOf(x) # thread[t].extent} |-> page[a]]
  /\ Goes(t, [pc |-> "free"])
  /\ UNCHANGED <<ref, hand, mini, root, disk, session, bound, err>>

Free(t) ==
  /\ At(t, "free")
  /\ LET e == thread[t].extent
     IN /\ ref' = [ref EXCEPT ![e] = @ - 1]
        /\ Check(ref'[e] = 0, "free")
        /\ IF thread[t].at = 0 THEN Becomes(t)
           ELSE Goes(t, [pc |-> IF thread[t].entry = 0 THEN "deinit" ELSE "entries"])
  /\ UNCHANGED <<hand, page, mini, root, disk, session, bound>>

-----------------------------------------------------------------------------
(***************************************************************************)
(* Sessions.  core_set_super_block is called at the start and at the end   *)
(* of a session; the reference counts are written after the last one.      *)
(***************************************************************************)

Quiet == mini = NoMini /\ \A t \in Threads : thread[t] = Idle
Phase(p) == session' = [session EXCEPT !.phase = p]

\* core_prepare_for_shutdown: all threads have returned and all tasks are done.
Shutdown ==
  /\ session.phase = "up" /\ Quiet
  /\ session' = [session EXCEPT !.phase = "set_super", !.unmount = TRUE]
  /\ disk' = [disk EXCEPT !.page = page]
  /\ UNCHANGED <<ref, hand, page, mini, root, thread, bound, err>>

\* Faulty: the super block holds no reference to its root.
FaultyIncRoot == ref
\* The super block's own reference to the root it names.
IncRoot == IF root = 0 THEN ref ELSE [ref EXCEPT ![ExtentOf(root)] = @ + 1]

SetSuperBlock ==
  /\ session.phase = "set_super"
  /\ ref' = IncRoot
  /\ session' = [session EXCEPT !.phase = "sync", !.old = disk.super.root]
  /\ UNCHANGED <<hand, page, mini, root, thread, disk, bound, err>>

SyncSuperBlock ==
  /\ session.phase = "sync"
  /\ disk' = [disk EXCEPT !.super = [root |-> root, unmounted |-> session.unmount]]
  /\ Phase("dec_old")
  /\ UNCHANGED <<ref, hand, page, mini, root, thread, bound, err>>

\* A reference to a tree is dropped, and the next phase begins once it is gone.
DropTree(t, head, next) ==
  /\ Quiet
  /\ IF head = 0 THEN UNCHANGED thread ELSE Goes(t, [pc |-> "dec_ref", head |-> head])
  /\ Phase(next)

DecOldRoot(t) ==
  /\ session.phase = "dec_old"
  /\ DropTree(t, session.old, IF session.unmount THEN "deinit" ELSE "up")
  /\ UNCHANGED <<ref, hand, page, mini, root, disk, bound, err>>

\* trunk_context_deinit
ContextDeinit(t) ==
  /\ session.phase = "deinit"
  /\ DropTree(t, root, "persist")
  /\ root' = 0
  /\ UNCHANGED <<ref, hand, page, mini, disk, bound, err>>

\* rc_allocator_unmount
AllocatorUnmount ==
  /\ session.phase = "persist" /\ Quiet
  /\ disk' = [disk EXCEPT !.ref = ref, !.saved = TRUE]
  /\ Phase("down")
  /\ UNCHANGED <<ref, hand, page, mini, root, thread, bound, err>>

\* core_mount opens the root of a super block that was written at the end of a
\* session; after a crash it begins with an empty tree.
RootToMount == IF disk.super.unmounted THEN disk.super.root ELSE 0

\* rc_allocator_mount and core_mount, where the reference counts were saved
\* with the super block; else the mount has nothing to rely on.
Mount ==
  /\ session.phase = "down" /\ ~session.exposed /\ bound.sessions > 0
  /\ root' = RootToMount
  /\ ref' = IF root' = 0 THEN disk.ref ELSE [disk.ref EXCEPT ![ExtentOf(root')] = @ + 1]
  /\ Check(root' # 0 => ref'[ExtentOf(root')] > 1, "inc_ref_of_free_extent")
  /\ hand' = 0
  /\ session' = [session EXCEPT !.phase = "set_super", !.unmount = FALSE]
  /\ bound' = [bound EXCEPT !.sessions = @ - 1]
  /\ UNCHANGED <<page, mini, thread, disk>>

\* The super block on disk names a root whose counts are not on disk: the
\* counts have never been saved, or not since.
CountsBehind ==
  \/ ~disk.saved
  \/ disk.super.unmounted /\ session.unmount /\ session.phase \in {"dec_old", "deinit", "persist"}

\* Pages written since the last flush may or may not be on disk.
Crash ==
  /\ session.phase # "down" /\ bound.crashes > 0
  /\ session' = [session EXCEPT !.phase = "down", !.exposed = CountsBehind, !.crashes = @ + 1]
  /\ bound' = [bound EXCEPT !.crashes = @ - 1]
  /\ page' \in {disk.page, [a \in DOMAIN page \cup DOMAIN disk.page |->
                              IF a \in DOMAIN page THEN page[a] ELSE disk.page[a]]}
  /\ disk' = [disk EXCEPT !.page = page']
  /\ thread' = [t \in Threads |-> Idle]
  /\ mini' = NoMini
  /\ root' = 0
  /\ UNCHANGED <<ref, hand, err>>

-----------------------------------------------------------------------------
\* rc_allocator_init and core_create have just returned.
Init ==
  /\ ref = [e \in Extents |-> IF e = 0 THEN 2 ELSE 0]
  /\ hand = 1 % NumExtents
  /\ page = <<>> /\ mini = NoMini /\ root = 0
  /\ thread = [t \in Threads |-> Idle]
  /\ disk = [super |-> [root |-> 0, unmounted |-> FALSE], ref |-> [e \in Extents |-> 0],
             saved |-> FALSE, page |-> <<>>]
  /\ session = [phase |-> "up", unmount |-> FALSE, old |-> 0, exposed |-> FALSE, crashes |-> 0]
  /\ bound \in Bounds
  /\ err = {}

ThreadStep(t) ==
  \/ AllocFirst(t) \/ AllocScan(t) \/ AllocTest(t)
  \/ \E n \in 1 .. NumBatches : MiniInit(t, n)
  \/ MiniInitMeta(t) \/ MiniInitBatch(t)
  \/ mini # NoMini /\ \E b \in DOMAIN mini.next_addr : MiniAlloc(t, b)
  \/ MiniNextExtent(t) \/ MiniAppendEntry(t) \/ MiniMetaExtent(t) \/ MiniGive(t)
  \/ MiniRelease(t) \/ ReleaseBatch(t) \/ Install(t) \/ Abandon(t)
  \/ Acquire(t) \/ GiveBack(t)
  \/ MiniDecRef(t) \/ MiniForEach(t) \/ MiniDeinit(t) \/ Dealloc(t) \/ Discard(t) \/ Free(t)
  \/ DecOldRoot(t) \/ ContextDeinit(t)

\* A thread that finds no space takes the process down.
Next ==
  \/ /\ \A t \in Threads : ~At(t, "no_space")
     /\ \E t \in Threads : ThreadStep(t)
  \/ Shutdown \/ SetSuperBlock \/ SyncSuperBlock \/ AllocatorUnmount \/ Mount \/ Crash

Spec == Init /\ [][Next]_vars

-----------------------------------------------------------------------------
(***************************************************************************)
(* Properties                                                              *)
(***************************************************************************)

HeldBy(t) == thread[t].held
LiveTrees == ({root, disk.super.root} \cup {HeldBy(t) : t \in Threads}) \ {0}
Holders(head) ==
    (IF root = head THEN 1 ELSE 0) + (IF disk.super.root = head THEN 1 ELSE 0)
  + Cardinality({t \in Threads : HeldBy(t) = head})

MiniTrees == IF mini.state = "open" THEN {mini.head} ELSE {}
Ahead == IF mini.state = "open" THEN mini.next_extent ELSE <<>>

\* The meta pages of a tree: with a page, the next one.
MetaPages(head) ==
  {a \in DOMAIN page :
     \A S \in SUBSET DOMAIN page :
       /\ head \in DOMAIN page => head \in S
       /\ \A x \in S : page[x].next \in DOMAIN page => page[x].next \in S
       => a \in S}

Owned(head) == UNION {ToSet(page[a].entries) \cup {ExtentOf(a)} : a \in MetaPages(head)}

\* The references to an extent that its owners account for.
Expected(e) ==
  IF e = 0 THEN 2
  ELSE IF e \in (UNION {Owned(h) : h \in LiveTrees \cup MiniTrees}) \cup ToSet(Ahead)
  THEN 2 + Holders(Address(e)) + (IF Address(e) \in MiniTrees THEN 1 ELSE 0)
  ELSE 0

(***************************************************************************)
(* Between operations the count of every extent is what its owners account *)
(* for: the root of the context, the root that the super block names,      *)
(* threads that use a tree, the open mini allocator and the extents it has *)
(* ahead (rc_allocator_inc_ref and _dec_ref, mini_release, mini_dec_ref,   *)
(* core_set_super_block).  Nothing leaks over any number of sessions and   *)
(* one crash; a second crash may leak what the first one orphaned, never   *)
(* free what is used.                                                      *)
(***************************************************************************)
RefsExact ==
  session.phase = "up" /\ (\A t \in Threads : At(t, "idle")) =>
    \A e \in Extents : IF session.crashes < 2 THEN ref[e] = Expected(e) ELSE ref[e] >= Expected(e)

(***************************************************************************)
(* While the program runs, an extent belongs to one tree, or to the mini   *)
(* allocator, or lies ahead of one batch; what a live tree needs is        *)
(* readable and not free (mini_alloc next to mini_dec_ref of another tree, *)
(* and core_mount after a clean end or a crash).                           *)
(***************************************************************************)
OneOwner ==
  session.phase = "up" =>
    /\ \A h \in LiveTrees \cup MiniTrees :
         /\ h \in DOMAIN page
         /\ \A e \in Owned(h) : ref[e] >= MiniNoRefs
         /\ \A g \in LiveTrees \cup MiniTrees : g # h => Owned(g) \cap Owned(h) = {}
         /\ Owned(h) \cap ToSet(Ahead) = {}
         /\ 0 \notin Owned(h)
    /\ IsInjective(Ahead)

(***************************************************************************)
(* rc_allocator_alloc gives up only if no extent was free all along: each  *)
(* one that was free when it began has been taken by another thread, or    *)
(* one that passed over it is about to take it.                            *)
(***************************************************************************)
SpaceFound ==
  \A t \in Threads : At(t, "no_space") =>
    thread[t].free \subseteq {thread[u].hand : u \in {v \in Threads \ {t} : At(v, "test")}}

(***************************************************************************)
(* The assertions on the reference counts in mini_init, mini_release,      *)
(* mini_inc_ref, mini_dec_ref and rc_allocator_inc_ref hold, and           *)
(* mini_alloc gives no page away twice.                                    *)
(***************************************************************************)
AssertionsHold == err = {}
=============================================================================
