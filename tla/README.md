# TreePass: a verification of the page cache and the store above it

The repository (`src/`) is TreePass, a page cache with tree-aware eviction,
embedded in a fork of the SplinterDB key-value store.  This directory holds
TLA+ modules that model its concurrent core, the TLC configurations that check
them, and TLAPS proofs.

## 1. Inventory

SplinterDB is an Lsm-like store.  A write goes to the log and to a *memtable*
(a btree in the cache); full memtables are compacted into *branches* and
incorporated into the *trunk*, a copy-on-write tree whose nodes refer to
branches, each with a *routing filter*.  All of these are pages of extents
handed out by a reference counting allocator, and all pages are read and
written through one page cache, TreePass.

| Component | State | Operations | What is hard |
|---|---|---|---|
| TreePass cache (`treepass.c`, `cache.h`) | per entry: status word (flags and clock), striped reference counts, pin count, address, type; the address-to-entry lookup; busy flags of batches; a free hand per thread | get, unget, try_claim, lock, unlock, mark_dirty, pin, alloc, extent_discard, page_sync, extent_sync, prefetch, async get; inside: load, writeback, eviction | every step is an atomic access of its own: read locks against eviction, stale lookups, loads that race, writeback against write locks, reuse of entries |
| Clock (`treepass.c`) | bits 6 to 31 of the status word | raise on access, lower by the hand, set on writeback and inheritance | read and add are two accesses; overflow and underflow |
| Eviction interval, hints | sweep times, thresholds | update at cycle boundaries | several threads at a boundary |
| Sharded log (`shard_log.c`) | per thread: page and offset | write, iterate, zap | client of the cache's locking and dirty protocol |
| Core, memtable (`core.c`, `memtable.c`) | ring of memtables, generations, super block | insert, lookup, rotate, compact, incorporate, mount, unmount | order of incorporation, readers of retired memtables, back pressure |
| Trunk (`trunk.c`) | copy-on-write nodes, bundles, pivots with tree counters | incorporate, flush, compact, split | concurrent compactions whose results may be stale |
| B-tree (`btree.c`) | nodes in pages, locks through the cache | insert, split, pack, iterate | hand-over-hand locking |
| Allocators (`rc_allocator.c`, `mini_allocator.c`) | reference count per extent, hand, super block table | alloc, inc_ref, dec_ref, mount, unmount | extents freed and taken concurrently, discard before reuse |
| Routing filter (`routing_filter.c`) | packed fingerprints | add, lookup | a pure algorithm: no false negatives |
| Merge iterator (`merge.c`) | min array of iterators | next, prev, resolve | equal keys, order of messages |
| Task system (`task.c`) | queues per kind, worker threads | enqueue, perform, stop, wait | shutdown against running tasks |
| Platform (`platform_linux/`) | batch_rwlock, aio contexts, shared memory heap | lock, get, claim, submit, wait | readers against writers per batch |

Interactions: every component reaches pages through the cache; the allocator
calls `cache_extent_discard` when an extent's count drops to nothing, and only
then hands the extent out again; writes complete in a callback
(`treepass_write_callback`) that runs in whichever thread reaps the I/O.

What makes the cache correct: the write lock excludes every other user; a
handle stays the handle of its page until it is released; a reader sees the
last contents, whatever was evicted and loaded in between; an eviction loses
nothing; the references are balanced; a page in use, pinned or just accessed
stays; the hand always finds a page in the end.  `PROJECT.json` lists the
hazards that threaten these properties, at their lines.

## 2. Modules

| Module | Models |
|---|---|
| `TreePassCache` | the cache, one action per atomic access of the C code |
| `TreePassCacheInv` | its inductive invariants `IInv` and `ContentInv`, in named parts |
| `TreePassCacheProofs` | counting lemmas for the striped reference counts, the proofs that the invariants are inductive, and the theorems |
| `ShardLog` | `shard_log_write` as a client of the cache (extends `TreePassCache`) |
| `TreePassClock` | the clock of one entry, its readers and the eviction hand |
| `TreePassClockProofs` | an entry whose clock has carried is stuck |
| `RWLock` | what a reader/writer lock with a claim promises |
| `BatchRWLock` | `platform_batch_rwlock`, one action per atomic access |
| `BatchRWLockProofs` | its invariant is inductive, and it implements `RWLock` |
| `Memtable` | memtables, their incorporation into the trunk, lookups and iterators across both |
| `KeyStore` | what the store promises to the users of one key |
| `MemtableInv` | the inductive invariant `IInv` of `Memtable`, in named parts |
| `MemtableStore` | the mapping under which `Memtable` implements `KeyStore` |
| `MemtableProofs`, `MemtableTheorems` | `IInv` is inductive (frames and counting, inserts and incorporation; queries), and the theorems |
| `MemtableRefinement` | `Memtable` implements `KeyStore` |
| `Trunk` | the copy-on-write tree: references, bundles, flushes, splits, compactions, readers |
| `BTree` | the memtable's btree, lock by lock: insert, split, lookup, iterate |
| `MergeIterator` | the merge of sorted inputs in both directions, as operators |
| `RangeIterator` | range iterators over trunk leaves (extends `MergeIterator`) |
| `RoutingFilter` | the quotient filter with its packed arrays, as operators |
| `BTreePack` | packing a branch, ranks and counts, as operators |
| `Compaction` | what memtable and bundle compactions compute, with filter and lookup (extends the three above) |
| `Storage` | extents, mini allocators, super block, mount, unmount, crashes |
| `StorageInv` | its inductive invariant `LedgerInv`: who claims which extent, and what the counts add up to |
| `StorageProofs` | the shared search for a free extent misses none; what the operations that build and hold a tree do to the ledger |
| `StorageLedger` | the walk that gives a tree back, the steps between sessions; `LedgerInv` is inductive; all properties of `Storage` hold |
| `MC...` | instances for TLC |

### TreePassCache

`status[e]` is the set of flags of `entry->status`; `ref[e][s]` the counter of
stripe `s`; `lookup`, `disk_addr`, `type`, `pin` and `free_hand` are the fields
of the same name.  `batch_busy` is set exactly while some thread's free hand is
on the batch (`Busy`).  Contents are abstracted to the question whether they
are the latest: `data[e] = a` says that entry `e` holds the last contents
written to address `a`, `disk` is the set of addresses whose last contents the
disk holds, and `iodata[e]` what the write in flight carries.  `live` and
`pinned` record what the callers did.  `pc[t]` names the next access of thread
`t`; the labels follow the functions:

* `lookup`, `rd_*`: `treepass_lookup`, `treepass_try_get_read`;
* `chk_addr`, `wait_load`, `recheck`, `chk_type`, `unref`:
  `treepass_get_in_cache`, and the same tests in `treepass_try_page_discard`;
* `claim`, `set_lock`, `wait_wb`, `wait_refs`: claim and write lock, for a
  holder, for discard (both wait) and for eviction (which gives up);
* `free`, `release`, `hand`, `sweep`, `verify`, `ev_*`: the free page search,
  the hand, and `treepass_try_evict`; `cl_*`: the removal of a page, shared by
  eviction and discard;
* `fr_*`, `ld_*`, `al_*`: taking a free entry, loading, allocating;
* `WriteDone`, `WritebackDone`: the write callback's two steps.

Callers.  Pages are got only while their extent is allocated, discarded when
nobody uses them, and allocated again only after that: the allocators
guarantee it, by reference counts (the guards of `Get`, `Alloc` and `Discard`).
`Discarders` and `Pinners` say which threads discard and pin.

Abstractions.  The clock and `entry_time` decide only which page the sweep
passes over: here any page may be passed over.  The hand may reach any batch
that is not busy.  One writeback writes one page.  The search for a free page
does not give up (the code aborts the program after the maximal I/O latency).
Two adjacent stores to the same entry under its lock (type and status) are one
step.  Asynchronous and non-blocking gets, prefetch, extent_sync, flush and
evict_all are not modelled yet.

### ShardLog

Each thread owns a log page (`log_page`); `shard_log_write` gets, claims and
locks it, changes it and releases it; a full page is synced with
`treepass_page_sync` and replaced.  All other steps are those of the cache.

### TreePassClock

`count` is bits 6 to 31 of the status word, modulo 2^26; the clock is its low
three bits, up to `CLOCK_MAX` = 7, as in the code.  A page is installed with
clock 0 (loaded), 1 (allocated) or 7 (allocated by a compaction).  A reader
enters, reads the clock and adds in separate steps; the hand reads, subtracts,
tests, locks and verifies in separate steps.  A reader may enter just before
the entry becomes free and raise the clock of a free entry.  `MaxAccess` bounds
the accesses to a page between its load and its eviction; 9 is enough to
saturate a 3-bit clock from 0 and to go past it.

### RWLock and BatchRWLock

`RWLock` is the state machine that `platform_types.h` draws: sets of readers,
claimants and writers, and the six operations.  `BatchRWLock` is one lock of a
batch: `lock`, `claim` and `read_counter` are the bytes of the same name.
`get` is four steps (wait for the lock byte, raise the counter, test the byte
again, back off), a claim two, `lock` one step for the byte and one for each
counter it awaits.  A lost `try_claim` must be followed by `unget`, as the
header demands.  The mapping that `Implements` uses takes as readers the
threads past their second test, as claimants those from the atomic test of the
claim byte to its release, as writer the one whose walk has ended.  The code
uses x86 locked instructions and loads of volatile bytes, so interleaving is
the memory model.

### Memtable

`generation`, `generation_to_incorporate`, `generation_retired` and `is_empty`
are the fields of `memtable_context`; `mt[s]` has the state, generation and
reference count of a memtable and what its tree says about one key; `compacted`
is `compacted_memtable[].branch`; `root`, `post_root` and `pre_root` are the
sets of branches reached from the three roots of the trunk; `tasks` is the
queue of the memtable task group.  The operations in order of the code:

* insert: `BeginInsert`, `Insert`, `InsertFails`, and for a full memtable
  `Full`, `Rotate`, `Enqueue`;
* the task: `TakeTask`, `Compact`, `Pack`, `TryStart`, then for one generation
  after the other `Prepare`, `Block`, `Commit`, `Cleanup`, `DecRef`, `Recycle`,
  `Ready`, `Continue`;
* lookup: `BeginLookup`, `LookMemtable`, `LookTrunk`, `EndLookup`;
* iterator: `BeginScan`, `ScanMemtable`, `ScanTrunk`, `Close`,
  `CloseMemtable`, `CloseEnd`;
* shutdown: `Shutdown`, `TakeTask`, `Quiescent`.

The insert lock, the lookup lock and the claim on the root are used through
what `RWLock` promises; which of them a thread holds follows from its `pc`.
One step is what happens under one lock or between two accesses to shared
state; the two transitions, the retirement and the switch of the root in
`Commit` happen under the lookup lock, and the stores that another thread can
see without it (the memtable's state) are seen together.

Data.  One key is followed.  Its n-th insert writes the value n, so a lookup
is fresh if it returns at least the value of its start.  All other inserts
only fill the memtable: any insert may be the one that makes it full.
`err` collects the names of the assertions that failed; a `platform_assert`
stops the process, the `debug_assert` of `memtable_try_transition`
(`DebugOnly`) does not, as in a release build.

`KeyStore` is what a user of the key sees: the latest value, and for each
reader whether it is idle, busy, or has an answer, and which.  A lookup answers
with a value the key has had since it began; an iterator, once it is there,
gives such a value and may come to give a later one, never an earlier one; the
closed store keeps the latest value.  In the mapping of `MemtableStore` a query
is busy while it walks over the memtables, the answer of an iterator is the
newest value its memtables and branches know (`Given`), and what is kept is
what the trunk holds when the handle is closed.

Left out: compactions of the trunk, which keep the answers of a root
(`Trunk` and `Compaction` show it); updates and deletions of the key; the log,
which is a client of its own; failures of the heap.

### Trunk

`t` is the trunk context with everything on disk it refers to: `node`,
`branch` and `maplet` with their reference counts, the roots (`root`, `pre`,
`post`, `super`), the list `pending_gcs`, the pivot states (`state`, and `map`
for those still in the hash table) and the queue of tasks.  A modification
(incorporation, application of a maplet) runs under the claim of the root
lock, so it is one step between the points where tasks and readers see the
trunk: `IncorporatePrepare`, `IncorporateCommit`, cleanup; taking and packing
of a bundle compaction, its failure, the maplet task's start, `MapletApply` and
`MapletApplied`; begin and end of lookups and scans; unmount and remount.

A maplet task fails in two ways.  `MapletFail`: the change of the tree fails,
or an append before it, and the maplet built so far is dropped once.
`FilterFail`: `routing_filter_add` runs out of memory for one of the outputs.
The maplet built for the outputs before is dropped right after the call,
`new_maplet` still names it, and the error exit, a step of its own
(`MapletUndo`), drops it again.  Either its extent is free, which
`rc_allocator_dec_ref` asserts it is not (`dec_ref_free`), or it belongs to
another maplet by then (`dec_ref_other`).

Inside a step the operators keep the functions' names: `ReceiveBundles`,
`FlushToOneChild`, `RestoreBalanceLeaf`, `LeafSplit`, `IndexSplit`,
`BuildNewRoots`, `NodeSerialize`, `NodeGc`, `PivotMatchesCompaction`, ...
Contents.  A branch maps a key to the generations of the incorporations whose
messages it holds; a maplet maps a key to the indexes of the branches that have
it.  A lookup is right if it finds every generation of the key once, the newest
first.  Which of several children is flushed and where a leaf is cut follow
from the tuple counts as in the code.  `Check` collects failed assertions in
`t.err`; whatever follows a failed assertion is not looked at.

Left out: failures of the heap and of I/O except those that a compaction and
its maplet task meet; the spin lock on `pending_gcs`; space reclamation by compaction of old
branches.

### BTree

`node[a]` is a page: height, generation, links, entries with sizes and the
place of the next entry, so that updates leave dead space, defragmentation
recovers it and a leaf may be too full for one insert and not for another.
`thread[t]` holds the pages the thread has, has claimed and has locked, and its
next step.  A get waits for writers, a claim fails, a lock waits for readers:
the promises that `TreePassCache` shows of the cache.  One step goes from one
such point to the next; `btree_insert` alone has sixteen.  A thread that gives
up or retries does what the code does: it lets go of its pages and rebuilds its
spec, restarts from the root, or (a split that cannot claim the next leaf) gives
up after `MaxRetries`, 100 in the code and 1 here.

### MergeIterator and RangeIterator

`MergeIterator` has no variables: `mi` is the record of the C structure, with
the inputs, their positions, the array of ordered inputs, the flags for equal
keys and the current entry.  A message is its class and the list of inputs whose
messages went into it, so that an update merged twice, or in the wrong order,
shows.  `RangeIterator` opens, steps and closes an iterator; `InitStep` is one
call of `core_range_iterator_init`, which calls itself for the next leaf.
Between the steps others insert keys and split leaves.

`core_range_iterator_init` hands the inner call a start key that lies in the
buffer `local_max_key`, and the inner call copies the bound of the next leaf
into that buffer: the start key of the branch iterators becomes the leaf's upper
bound, and the leaf is passed.  The model follows what the buffer holds, and
`skipped` collects the keys between the two.  `NothingSkipped` says that an
iterator gives every key, and fails; `StepRight` says that it gives every key
but those, and holds.  Only turns on a key of which several inputs have a copy
are left out of both (`Defined`).

### RoutingFilter, BTreePack and Compaction

One pivot of a trunk node, with its inflight branches, its compactions and its
pivot bundle.  `Flush` packs a memtable into a branch, `EnqueueCompaction`
makes a bundle compaction of everything not yet taken, `CompactBundles` merges
and packs its inputs, `BuildMaplet` adds the outputs of the oldest finished
ones to the pivot's filter.  The filter is computed bit by bit as in the code:
quotient, remainder, value, encoding, packed array.  `BTreePack` builds the
tree node by node and extent by extent.  `Lookup` goes through the filter to
the trees.  These operators are recursive and are only model-checked.

### Storage

`ref` and `hand` are the allocator's arrays, `page` the contents of the meta
pages, `mini` the mini allocator that threads share, `disk` what a crash
leaves: super block, saved counts, meta pages.  `AllocFirst`, `AllocScan` and
`AllocTest` are the accesses of `rc_allocator_alloc`; `LockBatch`, `MiniAlloc`,
`MiniNextExtent`, `MiniAppendEntry`, `MiniMetaExtent` and `MiniGive` those of
`mini_alloc`.  A release is `MiniDecRef`, then `MiniForEach` for each entry of
each meta page in turn, then `MiniDeinit` for each meta page once more, both
reading the page where the walk is (`at`, `entry`) at that moment; each extent
they come to goes through `Dealloc`, `Discard` and `Free`, and `MiniDeinit`
leaves an extent to the last of its pages (`PagesShareExtent`).  `Readable` is
the assertion of `cache_get` that the extent of the page is allocated, and that
the page has contents.
`Shutdown`, `IncRoot`, `SetSuperBlock`, `SyncSuperBlock`, `DecOldRoot`,
`DropTree`, `ContextDeinit` and `AllocatorUnmount` are the end of a session,
`Mount` the next one, `Crash` an end at any other time.

A tree stands for a root node with the one mini allocator it refers to, so its
count is the sum of both.  The counts on disk are those of the last unmount.  A
crash before the first unmount, or between the sync of the super block and the
write of the counts, leaves counts that are behind the super block
(`CountsBehind`); the code has no recovery for it, and the model does not mount
such a disk.

## 3. Runs

| Run | Expect | Shows |
|---|---|---|
| `cache` | pass | seven invariants of `TreePassCache`, about a million states |
| `log_lost` | violation | `NothingLost` fails for log pages |
| `clock_carry` | violation | `Recycled`: with two readers a page stays in its entry for ever |
| `rwlock` | pass | the batch lock implements `RWLock`; a writer's wait ends; 33,000 states |
| `memtable` | pass | `Memtable` implements `KeyStore`, three invariants, and every memtable the inserts have left is incorporated; 510,000 states |
| `trunk` | pass | six invariants of `Trunk`, 268,000 states |
| `trunk_stale` | violation | `NewBundlesFound`: an assertion of `bundle_compaction_create` fails |
| `btree` | pass | five invariants of `BTree`, and every operation returns; 128,000 states |
| `range` | pass | steps of range iterators over all small databases; 200,000 states |
| `range_skip` | violation | `NothingSkipped`: an iterator passes a leaf with its keys |
| `compaction` | pass | compactions, filters and lookups agree with the memtables; 25,000 states |
| `storage` | pass | four invariants of `Storage`, with two crashes; 253,000 states |

The modules' `TypeOK` documents the values of the variables; the one of the
cache, which says that references are balanced, is checked and proved.

Bounds of `cache`.  Two threads with ids 0 and 2 and two stripes: both share
stripe 0, and stripe 1 is empty; so the writer's own reference and a foreign
one meet on a stripe, and the scan has a second stripe to visit.  Two entries,
each a batch, and two addresses: an entry can be evicted and reused for the
other address, a page can move to the other entry, and both threads can load
the same page at once.  Entries and addresses are symmetric.  Thread 0
discards and pins.  The same thread doing both keeps pins from the race of
discard with pin (section 3, what else the models show), so that `ReadLatest`
says what eviction does to pins.  All other combinations (more threads,
stripes, entries per batch) are covered by the theorems for the properties that
are proved.

Properties of `cache`: `MutualExclusion` (a write locked page has no other
user), `HandleValid` (a handle keeps its address, type and lookup),
`ReadLatest` and `NothingLost` (contents survive writeback, eviction and
reload, and pinned pages stay), `AllocUnmapped` (the assertion commented out in
`treepass_alloc` would hold), `NoFailure` (the assertion on page types), and
the type invariant, which says that references are balanced.

Bounds of `rwlock`: three threads, so that a writer, the next claimant and a
reader that comes and goes meet, and the walk has counters before and behind
the reader.  The theorems cover any number.

Bounds of `memtable`: two memtables, so that generation 2 reuses the first one
(with the code's four the same steps happen two generations later); the
memtable of generation 2 never fills.  Two threads insert and compete for the
rotation.  Either runs a task while it waits for a memtable, and one of them
(`Volunteers`) also after any insert, beside the background thread, so that two
generations are compacted at once and finish in both orders.  The key is
inserted once: a query that misses the one memtable, branch or root that has it
shows.  That a walk in the wrong order finds an older value needs a second
insert, which the theorem covers (`KeepsPromise` is proved for any `MaxValue`).

Properties of `memtable`: `AssertionsHold` (no `platform_assert` of these
functions fails before the shutdown), `Promised` (`KeyStore` is implemented; a
lookup is fresh, as `LookupFresh` also says), `SnapshotIntact` (an open
iterator still has what was there when it was opened, and a branch that lookups
are sent to has a reference), `NotStranded` (a compacted memtable whose turn it
is has somebody who will incorporate it, and nothing is left when the handle is
closed), `Incorporated` (what the inserts have left is incorporated in the end,
in whichever order its task and its neighbours' tasks run).

Bounds of `trunk`: five sets of bounds, each for one kind of interference
(`MCBounds`).  Three keys and a fanout of 2 give a tree of height 2 with three
leaves after two incorporations, with a flush, leaf splits, an index split and
a new root, one reader, one failure and one remount; one key and three
incorporations give up to three compactions of one leaf that two threads finish
in both orders, next to a reader or a failure; two keys give two leaves
compacted side by side; and memtables that miss one leaf give empty outputs.
Four incorporations with two threads reach the race of `trunk_stale`, which is
why the passing run stops at three.

Properties of `trunk`: `LookupsRight` and `SnapshotIntact` (the current root,
the ones being replaced, and the ones readers and the super block hold give
every message once and in order), `RefsBalanced` (counts of nodes, branches and
maplets are exactly the references to them, also after failures, until an
assertion fails or a maplet is dropped twice), `StatsExact` (tuple counts stay
exact through splits, flushes and subtractions), `NotStranded`, and
`AssertionsHold`.  The last one says which assertions may fail: none without a
failure in three incorporations (a fourth one may find `first_new_bundle`
wrong, `trunk_stale`); after a failure that one, and the second drop of a
maplet; the other nine never.

Bounds of `btree`: leaves of two large or four small entries, index nodes of
three, so that five inserts give three levels.  Ten scenarios (`MCScenarios`)
begin with a tree that is about to split in a given way and let two threads
with two operations, or three threads with three, run from there.

Bounds of `range`: three keys, up to three leaves, all contents of two inputs
with insertions below and updates and deletions above, some of three inputs,
and single inputs that change twice while the iterator is open; two changes of
direction.

Bounds of `compaction`: nine keys, of which the pivot has seven; nodes of two
entries and extents of two pages, so that nine tuples need four levels and
several extents; three flushes out of five memtables, so that a filter has one
to eight indexes and up to three values; two hash functions, one with
collisions across the whole range and one that fills a single index.

Bounds of `storage`: seven extents of two pages, one entry per meta page.  One
tree with five pages crosses extents and meta pages with two batches; two trees
and a reader fill the disk; three sessions with two crashes.  After the second
crash in a row the root of the first session is leaked, so `RefsExact` then
says that counts are at least what is referred to.

Fairness.  `BatchRWLock`: weak fairness of each thread's steps inside an
operation, and a holder of a read lock releases it or claims in the end (the
callers hold read locks for one insert or one walk over the memtables); nobody
is obliged to ask for a lock, and a holder of a claim may keep it.  `Drained` needs no more, because a reader that finds the lock byte set
waits before it raises its counter again.  `Memtable`: weak fairness of each
thread inside an operation, including a worker's taking of a queued task, and
of an iterator's owner, who closes it in the end, as `splinterdb.h` demands;
nobody is obliged to insert, look up or shut down.  `BTree`: strong fairness of
each thread.  A thread that spins on a page with growing sleeps finds it free
some time if it is free again and again; nothing is assumed of who wins a
claim.  The number of operations is bounded, so `Returns` says that none of
them waits or retries for ever.  `TreePassClock`: weak fairness of the sweep says
that some thread keeps needing pages; weak fairness of a reader says that a
thread which entered `treepass_try_get_read` runs on.  Entering is not fair: a
page need not be accessed.  Readers are bounded by `MaxAccess`, without which
a page that is used for ever is, rightly, never evicted.

### What the violations say

1. `log_lost`: `shard_log_write` never marks its page dirty.  A page that was
   written back between two appends is taken for clean and its new entry is
   lost on eviction.
2. `trunk_stale`: the maplet task tests whether its state is abandoned, builds
   a filter, and applies the result to any pivot with the same keys, maplet and
   oldest branch.  A leaf that was rebuilt with the same bounds in between has
   all three, so the result of the abandoned state is applied, and the state
   that replaced it counts bundles that are gone.  The next incorporation that
   reaches the leaf fails `first_new_bundle == node->num_old_bundles`.
3. `clock_carry`: two readers read a clock of 6 and both add one, so that the
   count is 8.  The hand reads the three bits of the clock, finds 0, and
   lowers nothing; eviction compares the whole status word and finds it not
   evictable.  From then on, as long as nobody accesses it, every pass does the
   same: the comments that call an overflow safe are wrong.
4. `range_skip`: the leaves hold the keys below 2, key 2, and the keys from 3
   on, and only key 2 is in the database.  An iterator from the beginning finds
   the first leaf empty and goes on at its bound, 2.  The inner call copies the
   next leaf's bound, 3, over it, positions its inputs at 3, finds this leaf
   empty too, and in the end reports that there is nothing to read.

What else the models show when their constants or properties are changed; the
hazards in `PROJECT.json` give the lines:

* `treepass_try_page_discard` frees the entry before it resets its pin count:
  with different threads as `Discarders` and `Pinners`, `ReadLatest` fails.
* `shard_log_write` syncs a page it no longer locks or claims: under `LogSpec`,
  `NoFailure` fails at the assertion of `treepass_page_sync`.
* One reader is enough for a carry when compactions allocate pages: it reads the
  clock of an entry that has just become free, `treepass_alloc_compaction_hot`
  installs a page there with clock 7, and the reader adds one.  With one reader
  `Recycled` fails too.
* `maplet_compaction_task` drops a maplet twice when `routing_filter_add` fails
  for the second or a later output: without `dec_ref_free` and `dec_ref_other`
  among the assertions that may fail, `AssertionsHold` of `Trunk` fails.
* A thread that has compacted a memtable may find it assigned already by the
  thread that incorporated the previous generation.  It does the right thing,
  but a debug assertion says that this cannot be; `AssertionsHold` leaves it
  out (`DebugOnly`), as it leaves out the bound of `memtable_force_finalize`,
  which a shutdown exceeds while all other memtables are still queued.
* `routing_filter_add` counts an old fingerprint twice in `num_unique` when it
  is the first of a new index and the loop for the index before has looked at
  it and put it back; and
  `routing_filter_get_next_value` builds its mask in an `int`, which is too
  narrow from 32 branches on (`IntBits`).

## 4. Proofs

All theorems hold for every value of the constants that satisfies the named
assumptions of the module that declares them.  Each inductive invariant was
checked with TLC on the instance of the component's run before it was proved.

### The cache

`TreePassCacheProofs`, for finitely many threads with numbers, at least one
stripe, every entry in a batch, and `NONE` outside all sets:

* `Invariance`: `Spec => []IInv`;
* `TypeCorrect`, `WriteLockExcludes`, `HandlesStayValid`,
  `TypeAssertionHolds`, `AllocFindsUnmapped`: `TypeOK`, `MutualExclusion`,
  `HandleValid`, `NoFailure` and `AllocUnmapped` hold always;
* `ContentInvariance`: `Spec => []ContentInv`, and from it `ContentsNeverLost`
  (`NothingLost`) and `HoldersSeeLatest`;
* no theorem states `ReadLatest`, which also speaks of pinned pages: it is false
  when one thread discards while another pins (section 3), so it is checked for
  one thread that does both; `HoldersSeeLatest` is the part that always holds.

The argument.  `MutualExclusion` is not inductive: the scan of the stripes is
many steps, and readers come and go behind it.  `RefInv` says that a counter
is the number of threads of its stripe that have counted themselves on the
entry, which needs the lemmas on cardinalities at the head of the module.
`ScanInv` says what a writer knows of the stripes it has passed: the threads
counted there are only ones that still have to test the write lock, and will
back off.  `ClaimInv` and `LocalInv` tie the claim and lock flags to the one
thread that owns them.  `FreeInv` and `BatchInv` say that a free entry, and an
entry being taken, belongs to the owner of its batch; `FreshInv` and `LoadInv`
describe entries between being taken and being mapped; `AddrInv`, `MappedInv`,
`MapInv` and `ValidInv` relate lookup and addresses in both directions, with
the threads in the middle of changing one of them as the only exceptions;
`DeadInv` says that an address that is not allocated and not being discarded
is mapped nowhere.  `IInv` is their conjunction.

For the contents, `DataInv` says that the entry the lookup table gives for an
address has its latest contents or is still to be read from the disk, and that
it is clean only while the disk has them; `WritebackInv` that a write
in flight carries the latest contents to the address the entry still has, since
nobody changes a page between the issue and the callback; `DirtyInv` that a
writer clears the clean flag before it changes the page, and that what eviction
has verified under the write lock stays so; `LoadedInv` that a reader past its
wait for a load has loaded contents before it.  They need `IInv` for one fact
above all (`WriterAlone`): whoever changes a page is the only user of its
mapping, so that no other copy can pass for the latest.

### The batch lock

`BatchRWLockProofs` proves for every `MAX_THREADS` > 0:

* `Invariance`: `Spec => []Inv`;
* `Refinement`: `Spec => Implements`, the abstract lock's specification under
  the mapping.

The argument.  That a writer excludes readers does not follow from the state
of the counters alone, since a reader may raise its counter after the writer
has looked at it.  `Inv` therefore says of every counter the writer has passed
that its thread does not hold a read lock, and is, if it is counted at all, at
its second test or backing off; with the lock byte set it can only back off.
The rest of `Inv` ties each counter to its thread's place and the two bytes to
the one thread that set them.  Refinement then needs `Inv` for two steps only:
the end of the walk, where no reader is left, and the second test of `get`,
where a clear byte says that there is no writer.

### The memtables

For at least two memtables, finitely many readers, any number of writers and
workers, and any bounds on generations and inserts:

* `MemtableTheorems`: `Invariance` (`Spec => []IInv`), `AssertionsNeverFail`
  (`AssertionsHold`), `LookupsFresh` (`LookupFresh`), `SnapshotsIntact`
  (`SnapshotIntact`) and `NothingStranded` (`NotStranded`);
* `MemtableRefinement`: `KeepsPromise`, `Spec => Promised`.

The argument.  A generation lives in the memtable `generation mod
max_memtables` as long as it can be met: `WindowInv` says that the generations
from the last retired to the current one are in the memtables, each in its
state, and that the rest are being recycled or ready.  Who moves a memtable on
is never a matter of its state alone: `TaskInv`, `FlushInv` and `OwnerInv` give
every finalized, compacting or assigned one exactly one task or thread, and
`TurnInv` says that one thread at a time incorporates, the generation after the
last retired one.  The one case without an owner is a compacted memtable whose
turn has not come; `TurnInv` and `OwnerInv` together say that the thread which
makes its turn come will look at it (`NotStranded`).  `RecycleInv` and
`RefsInv` account for the references: the memtable's own until the
incorporation has dropped it, and one for each iterator; so a memtable an
iterator holds keeps its generation.  `ValueInv` says that younger generations
have later values and that the latest value is somewhere among the live ones,
`RootInv` that the trunk holds exactly the retired generations, and `QueryInv`
that what a walk has still to visit, or has taken, leads to the value the key
had when it began; this is what makes lookups fresh across a commit that moves
a generation from the memtables to the trunk under the lookup lock.

Refinement.  All steps of the tasks map to stutters: the lemmas show that they
change neither what an open iterator gives nor what a walk will answer.  The
steps that need `IInv` are the hit of a lookup and the end of the walk of an
iterator (the answer lies between the value at the start and the latest one),
an insert under an open iterator (it sees the insert or not, according to
whether it holds the current memtable), and the shutdown (`NothingStranded`).

### Space on disk

For at least one extent, page per extent, entry per meta page and batch, any
finite set of threads, and any bounds on what a behaviour may do:

* `StorageProofs`: `StorageInvariance` (`Spec => []SInv`) and, as a step to
  `SpaceIsFound`, `SpaceAlwaysFound` (`Spec => [](AssertionsHold => SpaceFound)`);
* `StorageLedger`: `LedgerInvariance` (`Spec => [](SInv /\ LedgerInv)`),
  `CountAssertions` (`AssertionsHold`), `SpaceIsFound` (`SpaceFound`),
  `OneOwnerAlways` (`OneOwner`) and `RefsExactAlways` (`RefsExact`).

The search.  A thread that comes round has not looked at every extent: the
hand gives each one to one thread.  `SearchInv` says that of the extents that
were free all along, each one that the hand has passed since the search began
is with a thread that still has to test it, and that all have been passed when
the round is over.  This needs that the count of a free extent is not changed
but by `rc_allocator_alloc`, which is what the code's assertions stand for, and
what the ledger shows.

The ledger.  That counts are exact between operations says nothing of the
states in between, where an extent has been taken and is not yet listed, has
left its batch and is not yet an entry, or has been discarded and not yet
freed; and that trees do not share extents says nothing of trees that are being
given back.  `StorageInv` therefore names the owners of an extent: a tree, as
the extent of its meta pages (`Meta`) or by one of its entries (`Data`); a
thread in `mini_dec_ref`, for what is left of the tree it gives back
(`DeadMeta`, `DeadData`) and the extent it has in hand (`DroppedBy`); a thread
that has just taken an extent (`TakenBy`) or moved one from its batch
(`MovedBy`); a batch (`AheadOf`).  Which claims there are follows from the
state once the meta pages of each tree are given in order.  `LedgerInv` says
that such chains exist (`\E chain, dead, idx`) for which no extent has two
owners (`OwnerInv`) and every count is the owner's part plus the holders of
the tree (`CountInv`).  To say that a chain exists, instead of computing it,
is what keeps the proof free of induction over the pages: a step says which
chain changes, and how.  `TreeOK` and `DeadOK` tie the chains to the contents
of the pages, from the head on or from where the walk is; `MiniTreeInv` says
that nobody else knows the tree of the mini allocator; `GivenInv` that the
addresses a batch still has to give lie behind those it has given, in extents
of its own; `DiskInv` that what a mount would find fits the tree that the super
block names, unless the counts are behind.  `Control` says which operations
meet: at most one thread opens or closes the mini allocator, one holds each
batch, one the last meta page.

Each action moves the claims to one or two extents, or the holders of one tree.
The lemmas `OwnersKept` and `CountsKept` carry all other extents over a step,
`TreesKept`, `DeadsKept` and `OthersPages` the chains whose pages the step does
not write; an action has a lemma that says what it changes (`...Effect`) and
one that shows the ledger (`...Ledger`).  Two facts do the work.  A page
written or discarded lies in an extent with a known owner, so by `OwnerInv` it
is no page of any other tree, or of another walk.  And a thread that lowers the
count of a tree to what its owner accounts for was the last holder, so the tree
has no name left and its chain becomes the thread's (`LastLedger`).

From the ledger to the properties.  `OneOwner` and `RefsExact` find the meta
pages of a tree by following the links; `PagesOfTree` shows that this finds the
chain and nothing else, for which page 0 must not be a meta page
(`PageZeroFree`).  Between operations only trees and batches are owners
(`BetweenFacts`), so an extent without any is free, or has been leaked by a
second crash.

### The clock

`TreePassClockProofs`, for any readers and accesses, without an assumption:
`CarriedEntryIsStuck`, `Spec => CarriedStays`.  The run `clock_carry` shows that
a clock carries; the theorem shows that nothing but accesses undoes it.  While
the count is above 7 and below its last value, no step of the readers, the hand
or the search for a free entry brings it back to 7 or less, evicts the page, or
uses the free entry.  `Carried` excludes one state, a count of 8 with the hand
between its read and its subtraction: it read a clock of 7 before the carry and
is about to take the carry back.  Once it has passed, it reads 0 at a count of
8 and subtracts nothing.  The invariant `CountInv` keeps the count within its 26
bits.

### Only model-checked

`ReadLatest` of the cache.  All properties of `Trunk`, `BTree`, `RangeIterator`
and `Compaction`.  `Trunk`,
`RangeIterator` and `Compaction` are built from recursive operators.  What a
leaf of `BTree` holds after a defragmentation or a split is a fold over its
entries, and that the copy has room (`AssertionsHold`) and loses no entry
(`CommittedFound`, and with it `UniqueOnce`, `LookupFresh` and `ScanComplete`)
is an induction over them, which the provers cannot do.  Also out of the
prover's reach are the liveness properties (`Recycled` of the clock, which
fails, `Drained`
of the lock, `Incorporated` of the memtables, `Returns` of the btree) and what
the recursive operators of `Trunk`, `BTreePack`, `MergeIterator` and
`RoutingFilter` compute.

## 5. Plan

1. Proofs: the locks of the btree (who holds which page), and what a split
   does to the pages next to it.
2. Eviction hand and writeback: the extension of writebacks over an extent
   with its stale lookups, `extent_sync`, `flush`, `prefetch`, asynchronous
   gets with their wait queues, `set_clock` and discard against the clock.
3. Task system: stop of the workers.  Shared memory heap.

### Not modelled

Configuration, statistics, tracing, printing and the benchmarks; the Linux aio
wrappers, which the cache sees as writes that complete some time later; the
eviction interval and the ghost buffer, which give hints and change no result;
the shared memory heap, an alternative to `malloc`; the suspensions of the
asynchronous lookups, whose steps are those of the synchronous ones with the
same locks held; vectors and string helpers.
