---------------------------- MODULE StorageInv -----------------------------
(***************************************************************************)
(* The inductive invariant of Storage.                                     *)
(*                                                                         *)
(* Every extent in use is claimed by one owner: a tree, as an extent of    *)
(* its meta pages or as one of its entries; a thread that has just taken   *)
(* it, or is giving it back; a batch of the mini allocator.  The claims    *)
(* are read off the state, given the meta pages of every tree in order     *)
(* (chain), those of the tree that a thread in mini_dec_ref gives back     *)
(* (dead), and how far it is (idx).  The invariant says that there are     *)
(* such chains under which no extent is claimed twice and every count is   *)
(* what the claims and the holders of the trees add up to.                 *)
(***************************************************************************)
EXTENDS Storage

\* The fields of a thread.
Fields == {"pc", "held", "ret", "first", "hand", "free", "got", "batch", "addr", "head", "at", "entry", "extent"}

\* Where rc_allocator_alloc searches, and where it returns to.
SearchPC == {"scan", "test", "no_space"}
ReturnPC == {"meta", "batch", "next", "meta_extent"}

\* What a thread does: a search is part of the operation that called it.
Op(t) == IF thread[t].pc \in {"first"} \cup SearchPC THEN thread[t].ret ELSE thread[t].pc
HasGot(t) == thread[t].pc \in ReturnPC

InitOp == {"meta", "batch"}
AllocOp == {"next", "append", "meta_extent", "give"}
ReleaseOp == {"release", "released"}
Moving == {"append", "meta_extent"}
Freeing == {"dealloc", "discard", "free"}
Walking == {"entries", "deinit"} \cup Freeing
Walks(t) == Op(t) \in Walking

-----------------------------------------------------------------------------
(* Trees and the references to them. *)

MiniHead == IF mini.state = "none" THEN 0 ELSE mini.head
Users(h) == {t \in Threads : thread[t].held = h}
Droppers(h) == {t \in Threads : Op(t) = "dec_ref" /\ thread[t].head = h}

One(cond) == IF cond THEN 1 ELSE 0

Holds(h) ==
    One(root = h) + One(disk.super.root = h) + One(MiniHead = h)
  + One(session.phase = "sync" /\ root = h) + One(session.phase = "dec_old" /\ session.old = h)
  + Cardinality(Users(h)) + Cardinality(Droppers(h))

Named(h) == h # 0 /\ Holds(h) > 0

\* Meta pages in order.  Those of one extent follow each other.
IsChain(c) ==
  /\ c \in Seq(Nat) /\ Len(c) > 0
  /\ \A k \in 1 .. Len(c) : c[k] # 0
  /\ \A j, k \in 1 .. Len(c) : j < k /\ ExtentOf(c[j]) = ExtentOf(c[k]) =>
       c[j] < c[k] /\ ExtentOf(c[j + 1]) = ExtentOf(c[j])

Linked(c, k, pages) ==
  c[k] \in DOMAIN pages /\ pages[c[k]].next = IF k < Len(c) THEN c[k + 1] ELSE 0

TreeOK(c, h) ==
  /\ h \in Nat /\ h = Address(ExtentOf(h))
  /\ IsChain(c) /\ c[1] = h
  /\ \A k \in 1 .. Len(c) : Linked(c, k, page)

\* A tree that t gives back has its pages from where t is.
DeadOK(c, x, t) ==
  /\ IsChain(c) /\ x \in 1 .. Len(c) + 1 /\ thread[t].entry \in Nat
  /\ thread[t].at = IF x <= Len(c) THEN c[x] ELSE 0
  /\ thread[t].entry # 0 => x <= Len(c) /\ thread[t].head = c[1]
  /\ Op(t) = "entries" => thread[t].entry # 0
  /\ Op(t) = "deinit" => thread[t].entry = 0 /\ x <= Len(c)
  /\ \A k \in 1 .. Len(c) : thread[t].entry # 0 \/ k >= x => Linked(c, k, page)

-----------------------------------------------------------------------------
(* Claims: extent e is owner o's. *)

Meta(h) == <<"meta", h, 0, 0>>            \* holds meta pages of tree h
Data(h, k, i) == <<"data", h, k, i>>      \* entry i of the k-th meta page of h
DeadMeta(t) == <<"dead_meta", t, 0, 0>>   \* the same, of the tree that t gives back
DeadData(t, k, i) == <<"dead_data", t, k, i>>
AheadOf(b) == <<"ahead", b, 0, 0>>        \* lies ahead of batch b
TakenBy(t) == <<"taken", t, 0, 0>>        \* rc_allocator_alloc has returned it to t
MovedBy(t) == <<"moved", t, 0, 0>>        \* no longer ahead, and not yet an entry
DroppedBy(t) == <<"dropped", t, 0, 0>>    \* mini_dealloc_extent

IsEntry(a, i, e) == i \in 1 .. Len(page[a].entries) /\ page[a].entries[i] = e

TreeHas(c, h, o, e) ==
  \E k \in 1 .. Len(c) :
    \/ o = Meta(h) /\ ExtentOf(c[k]) = e
    \/ \E i : o = Data(h, k, i) /\ IsEntry(c[k], i, e)

DeadHas(c, x, t, o, e) ==
  \E k \in 1 .. Len(c) :
    \/ o = DeadMeta(t) /\ ExtentOf(c[k]) = e /\ (thread[t].entry # 0 \/ k >= x)
    \/ \E i : /\ o = DeadData(t, k, i) /\ IsEntry(c[k], i, e)
              /\ thread[t].entry # 0 /\ (k > x \/ (k = x /\ i >= thread[t].entry))

ThreadHas(t, o, e) ==
  \/ o = TakenBy(t) /\ HasGot(t) /\ thread[t].got = e
  \/ o = MovedBy(t) /\ Op(t) \in Moving /\ ExtentOf(thread[t].addr) = e
  \/ o = DroppedBy(t) /\ Op(t) \in Freeing /\ thread[t].extent = e

\* What lies ahead of batch b.
HasAhead(b) ==
  /\ mini.state # "none" /\ b \in DOMAIN mini.next_extent
  /\ \/ mini.state = "open"
     \/ \E t \in Threads : Op(t) = "batch" /\ b < thread[t].batch
     \/ \E t \in Threads : Op(t) = "release" /\ b >= thread[t].batch

ByTree(chain, o, e) == \E h : Named(h) /\ TreeHas(chain[h], h, o, e)
ByDead(dead, idx, o, e) == \E t \in Threads : Walks(t) /\ DeadHas(dead[t], idx[t], t, o, e)
ByThread(o, e) == \E t \in Threads : ThreadHas(t, o, e)
ByBatch(o, e) == \E b : o = AheadOf(b) /\ HasAhead(b) /\ mini.next_extent[b] = e

Has(chain, dead, idx, o, e) ==
  ByTree(chain, o, e) \/ ByDead(dead, idx, o, e) \/ ByThread(o, e) \/ ByBatch(o, e)

-----------------------------------------------------------------------------
(* Control. *)

PagesOK(pages) ==
  \A a \in DOMAIN pages : a \in Nat /\ pages[a] \in [next : Nat, entries : Seq(Extents)]

MiniOK ==
  mini = NoMini \/
    /\ DOMAIN mini = {"state", "head", "tail", "locked", "next_addr", "next_extent", "given"}
    /\ mini.state \in {"init", "open", "released"}
    /\ mini.head \in Nat /\ mini.tail \in Nat /\ mini.given \subseteq Nat
    /\ mini.next_addr \in Seq(Int) /\ mini.next_extent \in Seq(Extents)
    /\ Len(mini.next_addr) = Len(mini.next_extent) /\ Len(mini.next_extent) > 0

\* What a thread relies on when it returns from a search or a lock.
OpOK(t) ==
  /\ Op(t) \in {"idle"} \cup InitOp \cup AllocOp \cup ReleaseOp \cup Dropping
  /\ Op(t) \in InitOp => mini.state = "init" /\ (mini.head = 0 <=> Op(t) = "meta")
  /\ Op(t) \in AllocOp =>
       /\ mini.state = "open"
       /\ thread[t].batch \in DOMAIN mini.next_addr /\ mini.next_addr[thread[t].batch] = Wait
  /\ Op(t) \in Moving \cup {"give"} => thread[t].addr \in Nat
  /\ Op(t) = "meta_extent" => mini.locked
  /\ Op(t) \in ReleaseOp => mini.state = "released"
  /\ Op(t) = "dec_ref" => thread[t].head # 0
  /\ Op(t) \in {"batch", "release"} => thread[t].batch \in DOMAIN mini.next_extent

\* What no two threads do at once.
Apart(t, u) ==
  /\ ~(Op(t) \in InitOp \cup ReleaseOp /\ Op(u) \in InitOp \cup ReleaseOp)
  /\ ~(Op(t) \in AllocOp /\ Op(u) \in AllocOp /\ thread[t].batch = thread[u].batch)
  /\ ~(Op(t) = "meta_extent" /\ Op(u) = "meta_extent")

OpInv == \A t \in Threads : OpOK(t) /\ \A u \in Threads : u # t => Apart(t, u)

MiniInv ==
  /\ mini.state # "none" => session.phase = "up"
  /\ mini.state \in {"open", "released"} => mini.head # 0
  /\ mini.state = "init" =>
       /\ mini.given = {} /\ \A b \in DOMAIN mini.next_addr : mini.next_addr[b] = 0
       /\ \E t \in Threads : Op(t) \in InitOp
  /\ mini.state = "released" => \E t \in Threads : Op(t) \in ReleaseOp

PhaseFacts ==
  /\ session.phase \in {"up", "set_super", "sync", "dec_old", "deinit", "persist", "down"}
  /\ session.unmount \in BOOLEAN /\ session.exposed \in BOOLEAN /\ session.crashes \in Nat
  /\ disk.saved \in BOOLEAN /\ DOMAIN disk.super = {"root", "unmounted"} /\ disk.super.unmounted \in BOOLEAN
  /\ session.phase = "up" => ~session.unmount
  /\ session.phase \in {"deinit", "persist"} => session.unmount
  /\ session.phase \in {"up", "dec_old", "deinit", "persist"} => disk.super.unmounted = session.unmount
  /\ session.exposed => session.phase = "down"
  /\ session.phase = "down" =>
       /\ root = 0 /\ (session.exposed \/ disk.saved)
       /\ disk.super.root # 0 /\ ~disk.super.unmounted => session.crashes > 0
  /\ session.phase \in {"set_super", "sync"} /\ ~session.unmount =>
       /\ disk.saved /\ root \in {0, disk.super.root}
       /\ root = 0 /\ disk.super.root # 0 => session.crashes > 0
  /\ session.phase = "sync" => session.old = disk.super.root
  /\ session.phase = "persist" => root = 0

Control == PagesOK(page) /\ PagesOK(disk.page) /\ MiniOK /\ OpInv /\ MiniInv /\ PhaseFacts

-----------------------------------------------------------------------------
(* The ledger. *)

TreeInv(chain) == \A h : Named(h) => TreeOK(chain[h], h)

DeadInv(dead, idx) == \A t \in Threads : Walks(t) => DeadOK(dead[t], idx[t], t)

\* An extent has one owner.
OwnerInv(chain, dead, idx) ==
  \A e, o : Has(chain, dead, idx, o, e) =>
    e \in Extents \ {0} /\ \A p : Has(chain, dead, idx, p, e) => p = o

\* An extent that is given away and discarded has lost its reference.
Base(o) == IF \E t \in Threads : o = DroppedBy(t) /\ Op(t) \in {"discard", "free"} THEN 1 ELSE 2

\* Its count is what its owner and the holders of its tree add up to.  A second
\* crash may leave counts on disk that nothing accounts for.
CountOK(chain, dead, idx, e) ==
  /\ \A o : Has(chain, dead, idx, o, e) => ref[e] = Base(o) + Holds(Address(e))
  /\ (\A o : ~Has(chain, dead, idx, o, e)) => ref[e] = 0 \/ (ref[e] > 0 /\ session.crashes >= 2)

CountInv(chain, dead, idx) ==
  session.phase # "down" => ref[0] = 2 /\ \A e \in Extents \ {0} : CountOK(chain, dead, idx, e)

\* Only the mini allocator knows its tree, and it appends at the end.
MiniTreeInv(chain) ==
  MiniHead # 0 => Holds(MiniHead) = 1 /\ mini.tail = chain[MiniHead][Len(chain[MiniHead])]

\* The extents of a tree's entries, and all extents of a tree.
InData(c, e) == \E k \in 1 .. Len(c) : \E i : IsEntry(c[k], i, e)
InTree(c, e) == InData(c, e) \/ \E k \in 1 .. Len(c) : ExtentOf(c[k]) = e

\* The next page of batch b.
Filling(b, a) ==
  \/ b \in DOMAIN mini.next_addr /\ mini.next_addr[b] = a /\ a # Wait /\ a % PagesPerExtent # 0
  \/ \E t \in Threads : Op(t) = "give" /\ thread[t].batch = b /\ thread[t].addr = a

\* Pages are given to callers in order, from extents that the tree lists.
GivenInv(chain) ==
  mini.state = "open" =>
    /\ \A x \in mini.given : InData(chain[mini.head], ExtentOf(x))
    /\ \A b, a : Filling(b, a) =>
         /\ a \in Nat /\ InData(chain[mini.head], ExtentOf(a))
         /\ \A x \in mini.given : ExtentOf(x) = ExtentOf(a) => x < a
         /\ \A c, d : Filling(c, d) /\ c # b => ExtentOf(d) # ExtentOf(a)

Flushed(c) == \A k \in 1 .. Len(c) : c[k] \in DOMAIN disk.page /\ disk.page[c[k]] = page[c[k]]

MayLose == session.crashes + One(session.phase # "down") >= 2

\* The counts on disk, if they are those of the super block.
SavedOK(chain, e) ==
  LET s == disk.super.root
  IN IF e = 0 \/ (s # 0 /\ InTree(chain[s], e))
     THEN disk.ref[e] = 2 + One(e # 0 /\ Address(e) = s)
     ELSE disk.ref[e] = 0 \/ (disk.ref[e] > 0 /\ MayLose)

DiskInv(chain) ==
  /\ disk.super.root # 0 => Flushed(chain[disk.super.root])
  /\ session.phase \in {"set_super", "sync"} /\ root # 0 => Flushed(chain[root])
  /\ ~CountsBehind => \A e \in Extents : SavedOK(chain, e)

Ledger(chain, dead, idx) ==
  /\ TreeInv(chain) /\ DeadInv(dead, idx)
  /\ OwnerInv(chain, dead, idx) /\ CountInv(chain, dead, idx)
  /\ MiniTreeInv(chain) /\ GivenInv(chain) /\ DiskInv(chain)

\* A super block whose counts are not on disk cannot be mounted, and nothing
\* is said of it.
LedgerInv ==
  /\ Control /\ AssertionsHold
  /\ session.exposed \/ \E chain, dead, idx : Ledger(chain, dead, idx)
=============================================================================
