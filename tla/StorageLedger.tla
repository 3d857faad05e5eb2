--------------------------- MODULE StorageLedger ---------------------------
(***************************************************************************)
(* Every extent has one owner, and every count is exact: the invariant of  *)
(* StorageInv is inductive, for any number of extents, threads, batches    *)
(* and entries of a meta page, over any number of sessions and crashes.    *)
(*                                                                         *)
(* StorageProofs treats the operations that build and hold a tree.  Here   *)
(* are the walk that gives it back, the steps between sessions, the        *)
(* control of all operations, the theorems, and what the properties of     *)
(* Storage say of the ledger.                                              *)
(***************************************************************************)
EXTENDS StorageProofs

-----------------------------------------------------------------------------
(* The walk of mini_dec_ref over the tree that it gives back. *)

Walked(t) ==
  /\ Others(t) /\ UNCHANGED <<mini, root, disk, session>> /\ thread'[t].held = thread[t].held
  /\ Op(t) \in Walking /\ Op(t)' \in Walking \cup {"idle"} /\ ~HasGot(t) /\ ~HasGot(t)'
  /\ session.phase \notin QuietPhase

\* What the trees and the other walks need of the pages is left.
PagesLeft(t, chain, dead, idx) ==
  /\ \A h : Named(h) => SamePages(chain[h])
  /\ \A u \in Threads : u # t /\ Walks(u) => SameDead(dead[u], idx[u], u)

LEMMA WalkRest ==
  ASSUME Control, NEW t \in Threads, Walked(t),
         NEW chain, NEW dead, NEW idx, Ledger(chain, dead, idx), PagesLeft(t, chain, dead, idx)
  PROVE  /\ \A h : h # 0 => Holds(h)' = Holds(h)
         /\ TreeInv(chain)' /\ MiniTreeInv(chain)' /\ GivenInv(chain)' /\ DiskInv(chain)'
         /\ \A o, e : (ByTree(chain, o, e)' <=> ByTree(chain, o, e)) /\ (ByBatch(o, e)' <=> ByBatch(o, e))
<1>1. /\ Others(t) /\ UNCHANGED <<mini, root, disk, session>> /\ thread'[t].held = thread[t].held
      /\ session.phase \notin QuietPhase
      /\ Op(t) \notin {"batch", "release", "dec_ref", "give"} /\ Op(t)' \notin {"batch", "release", "dec_ref", "give"}
  BY DEF Walked, Walking, Freeing
<1>2. \A h : h # 0 => Holds(h)' = Holds(h)
  <2>1. ASSUME NEW h
        PROVE  Holds(h)' = Holds(h)
    <3>1. Share(t, h)' = Share(t, h)
      BY <1>1 DEF Share
    <3> QED
      BY <1>1, <3>1, LocalHolds
  <2> QED
    BY <2>1
<1>3. \A h : Named(h)' <=> Named(h)
  BY <1>2, SameNames
<1>4. /\ TreeInv(chain) /\ MiniTreeInv(chain) /\ GivenInv(chain) /\ DiskInv(chain)
      /\ \A h : Named(h) => SamePages(chain[h])
  BY DEF Ledger, PagesLeft
<1>5. TreeInv(chain)' /\ \A o, e : ByTree(chain, o, e)' <=> ByTree(chain, o, e)
  BY <1>3, <1>4, TreesKept DEF SameTrees
<1>6. \A o, e : ByBatch(o, e)' <=> ByBatch(o, e)
  BY <1>1, BatchesKept
<1>7. MiniTreeInv(chain)'
  BY <1>1, <1>2, <1>4 DEF MiniTreeInv, MiniHead
<1>8. GivenInv(chain)'
  <2>1. \A b, a : Filling(b, a)' => Filling(b, a)
    BY <1>1, FillingKept
  <2>2. ASSUME mini.state = "open"
        PROVE  \A e : InData(chain[mini.head], e)' <=> InData(chain[mini.head], e)
    <3>1. MiniHead = mini.head /\ MiniHead # 0
      BY <2>2 DEF Control, MiniInv, MiniHead
    <3>2. Named(MiniHead)
      BY <3>1, NamedBy, Zenon
    <3>3. SamePages(chain[mini.head])
      BY <1>4, <3>1, <3>2
    <3>4. ASSUME NEW c, c = chain[mini.head]
          PROVE  \A e : InData(c, e)' <=> InData(c, e)
      <4>1. SamePages(c)
        BY <3>3, <3>4
      <4> QED
        BY <4>1, OneTree, Zenon
    <3>5. \A c : c = chain[mini.head] => \A e : InData(c, e)' <=> InData(c, e)
      BY <3>4, Zenon
    <3> QED
      BY <1>1, <3>5
  <2> QED
    BY <1>1, <1>4, <2>1, <2>2, GivenKept
<1>9. DiskInv(chain)'
  <2>1. disk.super.root # 0 => Named(disk.super.root)
    BY NamedBy
  <2> QED
    BY <1>1, <1>4, <2>1, DiskKept DEF QuietPhase
<1> QED
  BY <1>2, <1>5, <1>6, <1>7, <1>8, <1>9

\* The claims of the thread that walks, and those of the rest.
Mine(dead, idx, t, o, e) == (Walks(t) /\ DeadHas(dead[t], idx[t], t, o, e)) \/ ThreadHas(t, o, e)
Theirs(chain, dead, idx, t, o, e) ==
  ByTree(chain, o, e) \/ OtherDead(t, dead, idx, o, e) \/ OtherThread(t, o, e) \/ ByBatch(o, e)

\* The walk goes on to page x.
OnTo(t, idx, idx2, x) == idx2[t] = x /\ \A u \in Threads : u # t => idx2[u] = idx[u]

LEMMA WalkClaims ==
  ASSUME Control, NEW t \in Threads, Walked(t),
         NEW chain, NEW dead, NEW idx, Ledger(chain, dead, idx), PagesLeft(t, chain, dead, idx),
         NEW x, NEW idx2, OnTo(t, idx, idx2, x)
  PROVE  /\ (Walks(t)' => DeadOK(dead[t], idx2[t], t)') => DeadInv(dead, idx2)'
         /\ \A o, e : Has(chain, dead, idx, o, e) <=>
              Theirs(chain, dead, idx, t, o, e) \/ Mine(dead, idx, t, o, e)
         /\ \A o, e : Has(chain, dead, idx2, o, e)' <=>
              Theirs(chain, dead, idx, t, o, e) \/ Mine(dead, idx2, t, o, e)'
<1>1. Others(t) /\ DeadInv(dead, idx)
  BY DEF Walked, Ledger
<1>2. \A o, e : (ByTree(chain, o, e)' <=> ByTree(chain, o, e)) /\ (ByBatch(o, e)' <=> ByBatch(o, e))
  BY WalkRest
<1>3. \A u \in Threads : u # t /\ Walks(u) =>
        dead[u] = dead[u] /\ idx2[u] = idx[u] /\ SameDead(dead[u], idx[u], u)
  BY DEF PagesLeft, OnTo
<1>4. /\ (Walks(t)' => DeadOK(dead[t], idx2[t], t)') => DeadInv(dead, idx2)'
      /\ \A o, e : ByDead(dead, idx, o, e) <=>
           (Walks(t) /\ DeadHas(dead[t], idx[t], t, o, e)) \/ OtherDead(t, dead, idx, o, e)
      /\ \A o, e : ByDead(dead, idx2, o, e)' <=>
           (Walks(t) /\ DeadHas(dead[t], idx2[t], t, o, e))' \/ OtherDead(t, dead, idx, o, e)
  BY <1>1, <1>3, DeadsKept
<1>5. \A o, e : /\ ByThread(o, e) <=> ThreadHas(t, o, e) \/ OtherThread(t, o, e)
                /\ ByThread(o, e)' <=> ThreadHas(t, o, e)' \/ OtherThread(t, o, e)
  BY <1>1, ThreadsKept
<1>6. \A o, e : Has(chain, dead, idx, o, e) <=> Theirs(chain, dead, idx, t, o, e) \/ Mine(dead, idx, t, o, e)
  BY <1>4, <1>5 DEF Has, Theirs, Mine
<1>7. \A o, e : Has(chain, dead, idx2, o, e)' <=> Theirs(chain, dead, idx, t, o, e) \/ Mine(dead, idx2, t, o, e)'
  BY <1>2, <1>4, <1>5 DEF Has, Theirs, Mine
<1> QED
  BY <1>4, <1>6, <1>7

\* Nobody else claims what the thread that walks does.
LEMMA WalksAlone ==
  ASSUME NEW t \in Threads, NEW chain, NEW dead, NEW idx, NEW o1, NEW e1, Mine(dead, idx, t, o1, e1)
  PROVE  \A e : ~Theirs(chain, dead, idx, t, o1, e)
<1>1. /\ o1[1] \in {"dead_meta", "dead_data", "taken", "moved", "dropped"} /\ o1[2] = t
      /\ o1[1] \in {"dead_meta", "dead_data"} \/ o1[1] \in {"taken", "moved", "dropped"}
  BY Tags DEF Mine, DeadHas, ThreadHas
<1>2. \A e : ~ByTree(chain, o1, e) /\ ~ByBatch(o1, e)
  BY <1>1, Kinds
<1>3. \A e : ~OtherDead(t, dead, idx, o1, e)
  BY <1>1, Tags DEF OtherDead, DeadHas
<1>4. \A e : ~OtherThread(t, o1, e)
  BY <1>1, Tags DEF OtherThread, ThreadHas
<1> QED
  BY <1>2, <1>3, <1>4 DEF Theirs

\* What becomes of the claims to an extent.
LEMMA WalkHas ==
  ASSUME Control, NEW t \in Threads, Walked(t),
         NEW chain, NEW dead, NEW idx, Ledger(chain, dead, idx), PagesLeft(t, chain, dead, idx),
         NEW x, NEW idx2, OnTo(t, idx, idx2, x), NEW o1, NEW e1, Mine(dead, idx, t, o1, e1)
  PROVE  /\ Has(chain, dead, idx, o1, e1) /\ e1 \in Extents \ {0}
         /\ \A o : Mine(dead, idx, t, o, e1) => o = o1
         /\ \A o : Has(chain, dead, idx2, o, e1)' <=> Mine(dead, idx2, t, o, e1)'
<1>1. /\ \A o, e : Has(chain, dead, idx, o, e) <=>
           Theirs(chain, dead, idx, t, o, e) \/ Mine(dead, idx, t, o, e)
      /\ \A o, e : Has(chain, dead, idx2, o, e)' <=>
           Theirs(chain, dead, idx, t, o, e) \/ Mine(dead, idx2, t, o, e)'
  BY WalkClaims
<1>2. Has(chain, dead, idx, o1, e1)
  BY <1>1
<1>3. e1 \in Extents \ {0} /\ \A p : Has(chain, dead, idx, p, e1) => p = o1
  BY <1>2 DEF Ledger, OwnerInv
<1>4. \A o : ~Theirs(chain, dead, idx, t, o, e1)
  <2>1. ~Theirs(chain, dead, idx, t, o1, e1)
    BY WalksAlone
  <2> QED
    BY <1>1, <1>3, <2>1
<1> QED
  BY <1>1, <1>2, <1>3, <1>4

\* The walk moves its claims to the extents in E, and to no other.
WalkMoves(E, t, dead, idx, idx2) ==
  /\ \A o, e : e \notin E => (Mine(dead, idx2, t, o, e)' <=> Mine(dead, idx, t, o, e))
  /\ \A e \in E : \E o : Mine(dead, idx, t, o, e)
  /\ \A e \in E : \E q : \A o : Mine(dead, idx2, t, o, e)' => o = q

LEMMA WalkLedger ==
  ASSUME Control, NEW t \in Threads, Walked(t),
         NEW chain, NEW dead, NEW idx, Ledger(chain, dead, idx), PagesLeft(t, chain, dead, idx),
         NEW x, NEW idx2, OnTo(t, idx, idx2, x), Walks(t)' => DeadOK(dead[t], idx2[t], t)',
         NEW E, WalkMoves(E, t, dead, idx, idx2),
         \A e \in Extents : e \notin E => ref'[e] = ref[e],
         \A o, e : e \notin E /\ Has(chain, dead, idx, o, e) => Base(o)' = Base(o),
         \A e \in E : CountOK(chain, dead, idx2, e)'
  PROVE  Ledger(chain, dead, idx2)'
<1>1. /\ \A h : h # 0 => Holds(h)' = Holds(h)
      /\ TreeInv(chain)' /\ MiniTreeInv(chain)' /\ GivenInv(chain)' /\ DiskInv(chain)'
  BY WalkRest
<1>2. /\ DeadInv(dead, idx2)'
      /\ \A o, e : Has(chain, dead, idx, o, e) <=>
           Theirs(chain, dead, idx, t, o, e) \/ Mine(dead, idx, t, o, e)
      /\ \A o, e : Has(chain, dead, idx2, o, e)' <=>
           Theirs(chain, dead, idx, t, o, e) \/ Mine(dead, idx2, t, o, e)'
  BY WalkClaims
<1>3. /\ \A o, e : e \notin E => (Mine(dead, idx2, t, o, e)' <=> Mine(dead, idx, t, o, e))
      /\ \A e \in E : \E o : Mine(dead, idx, t, o, e)
      /\ \A e \in E : \E q : \A o : Mine(dead, idx2, t, o, e)' => o = q
  BY DEF WalkMoves
<1>4. \A e \in E : e \in Extents \ {0} /\ \A o : Has(chain, dead, idx2, o, e)' <=> Mine(dead, idx2, t, o, e)'
  <2>1. TAKE e \in E
  <2>2. PICK o1 : Mine(dead, idx, t, o1, e)
    BY <1>3
  <2> QED
    BY <2>2, WalkHas
<1>5. SameClaims(E, chain, dead, idx, chain, dead, idx2)
  BY <1>2, <1>3 DEF SameClaims
<1>6. OwnerInv(chain, dead, idx) /\ CountInv(chain, dead, idx)
  BY DEF Ledger
<1>7. OwnerInv(chain, dead, idx2)'
  <2>1. \A e \in E : \E q : \A o : Has(chain, dead, idx2, o, e)' => o = q
    BY <1>3, <1>4
  <2>2. E \subseteq Extents \ {0}
    BY <1>4
  <2> QED
    BY <1>5, <1>6, <2>1, <2>2, OwnersKept
<1>8. CountInv(chain, dead, idx2)'
  <2>1. session' = session
    BY DEF Walked
  <2>2. 0 \notin E
    BY <1>4
  <2>3. \A e \in Extents : e # 0 /\ e \notin E => Holds(Address(e))' = Holds(Address(e))
    BY <1>1, AddressOf, ExtentsNat
  <2> QED
    BY <1>5, <1>6, <2>1, <2>2, <2>3, CountsKept
<1> QED
  BY <1>1, <1>2, <1>7, <1>8 DEF Ledger

\* A step of a walk without a new claim leaves the pages of everybody.
LEMMA PagesAll ==
  ASSUME page' = page, NEW t \in Threads, NEW chain, NEW dead, NEW idx, Ledger(chain, dead, idx)
  PROVE  PagesLeft(t, chain, dead, idx)
<1>1. TreeInv(chain) /\ DeadInv(dead, idx)
  BY DEF Ledger
<1> QED
  BY <1>1, PagesThere DEF PagesLeft

\* The page that a walk is at can be read.
LEMMA WalkReads ==
  ASSUME Control, NEW t \in Threads, Op(t) \in {"entries", "deinit"}, session.phase # "down",
         NEW chain, NEW dead, NEW idx, Ledger(chain, dead, idx),
         NEW c, c = dead[t], NEW x, x = idx[t], NEW at, at = thread[t].at
  PROVE  /\ DeadOK(c, x, t) /\ IsChain(c) /\ c \in Seq(Nat) /\ Len(c) \in Nat /\ x \in 1 .. Len(c)
         /\ at = c[x] /\ Linked(c, x, page) /\ at \in DOMAIN page /\ at # 0 /\ at \in Nat
         /\ MetaPage(at) = page[at] /\ page[at].entries \in Seq(Extents)
         /\ page[at].next = IF x < Len(c) THEN c[x + 1] ELSE 0
         /\ Mine(dead, idx, t, DeadMeta(t), ExtentOf(at))
         /\ ExtentOf(at) \in Extents \ {0} /\ Readable(at)
<1>1. DeadOK(c, x, t) /\ Walks(t)
  BY DEF Ledger, DeadInv, Walks, Walking
<1>2. /\ IsChain(c) /\ c \in Seq(Nat) /\ Len(c) \in Nat /\ x \in 1 .. Len(c) + 1
      /\ (thread[t].entry # 0 => x <= Len(c)) /\ (Op(t) = "deinit" => x <= Len(c))
      /\ (Op(t) = "entries" => thread[t].entry # 0)
      /\ at = IF x <= Len(c) THEN c[x] ELSE 0
      /\ \A k \in 1 .. Len(c) : thread[t].entry # 0 \/ k >= x => Linked(c, k, page)
  BY <1>1, SMTT(30) DEF DeadOK, IsChain
<1>3. x \in 1 .. Len(c) /\ at = c[x] /\ x >= x
  BY <1>2
<1>4. Linked(c, x, page) /\ at # 0 /\ at \in Nat
  BY <1>2, <1>3 DEF IsChain
<1>5. at \in DOMAIN page /\ page[at].next = IF x < Len(c) THEN c[x + 1] ELSE 0
  BY <1>3, <1>4 DEF Linked
<1>6. MetaPage(at) = page[at] /\ page[at].entries \in Seq(Extents)
  BY <1>5 DEF MetaPage, Control, PagesOK
<1>7. Mine(dead, idx, t, DeadMeta(t), ExtentOf(at))
  BY <1>1, <1>3 DEF Mine, DeadHas
<1>8. Has(chain, dead, idx, DeadMeta(t), ExtentOf(at))
  BY <1>1, <1>3 DEF DeadHas, Has, ByDead
<1>9. ExtentOf(at) \in Extents \ {0}
  BY <1>8 DEF Ledger, OwnerInv
<1>10. Readable(at)
  <2>1. ref[ExtentOf(at)] = Base(DeadMeta(t)) + Holds(Address(ExtentOf(at)))
    BY <1>8, <1>9 DEF Ledger, CountInv, CountOK
  <2>2. Base(DeadMeta(t)) = 2
    BY Tags DEF Base
  <2>3. Holds(Address(ExtentOf(at))) \in Nat
    BY HoldsCounted
  <2> QED
    BY <1>5, <2>1, <2>2, <2>3 DEF Readable
<1> QED
  BY <1>1, <1>2, <1>3, <1>4, <1>5, <1>6, <1>7, <1>9, <1>10

-----------------------------------------------------------------------------
(* mini_for_each *)

LEMMA ForEachEffect ==
  ASSUME SInv, NEW t \in Threads, MiniForEach(t), NEW meta, meta = MetaPage(thread[t].at),
         NEW n, n = thread[t].entry, n \in Nat, Len(meta.entries) \in Nat
  PROVE  /\ session.phase \notin QuietPhase /\ Op(t) = "entries" /\ ~HasGot(t)
         /\ Walked(t) /\ UNCHANGED <<ref, page>> /\ thread'[t].head = thread[t].head
         /\ err' = IF Readable(thread[t].at) THEN err ELSE err \cup {"mini_for_each"}
         /\ \/ /\ n <= Len(meta.entries) /\ Op(t)' = "dealloc" /\ thread'[t].extent = meta.entries[n]
               /\ thread'[t].at = thread[t].at /\ thread'[t].entry = n + 1
            \/ /\ n > Len(meta.entries) /\ meta.next # 0 /\ Op(t)' = "entries"
               /\ thread'[t].at = meta.next /\ thread'[t].entry = 1
            \/ /\ ~(n <= Len(meta.entries)) /\ ~(n > Len(meta.entries) /\ meta.next # 0) /\ Op(t)' = "deinit"
               /\ thread'[t].at = thread[t].head /\ thread'[t].entry = 0
<1>1. /\ StoreType /\ thread[t].pc = "entries" /\ UNCHANGED <<ref, page, mini, root, disk, session>>
      /\ err' = IF Readable(thread[t].at) THEN err ELSE err \cup {"mini_for_each"}
  BY DEF SInv, MiniForEach, At, Check
<1>2. Op(t) = "entries" /\ ~HasGot(t) /\ session.phase \notin QuietPhase
  BY <1>1, Runs DEF Op, HasGot, SearchPC, ReturnPC
<1>3. CASE n <= Len(meta.entries)
  <2> DEFINE f == [pc |-> "dealloc", extent |-> meta.entries[n], entry |-> n + 1]
  <2>1. /\ Goes(t, f) /\ DOMAIN f = {"pc", "extent", "entry"} /\ f["pc"] = "dealloc"
        /\ f["extent"] = meta.entries[n] /\ f["entry"] = n + 1
    BY <1>3 DEF MiniForEach
  <2> HIDE DEF f
  <2>2. /\ \A u \in Threads : u # t => thread'[u] = thread[u]
        /\ thread'[t].pc = "dealloc" /\ thread'[t].held = thread[t].held /\ thread'[t].head = thread[t].head
        /\ thread'[t].at = thread[t].at /\ thread'[t].entry = n + 1 /\ thread'[t].extent = meta.entries[n]
    BY <1>1, <2>1, StepFields DEF Set
  <2>3. Others(t) /\ ~HasGot(t)' /\ Op(t)' = "dealloc"
    BY <2>2, OthersView DEF Op, HasGot, SearchPC, ReturnPC
  <2>4. Walked(t)
    BY <1>1, <1>2, <2>2, <2>3 DEF Walked, Walking, Freeing
  <2> QED
    BY <1>1, <1>2, <1>3, <2>2, <2>3, <2>4
<1>4. CASE n > Len(meta.entries) /\ meta.next # 0
  <2> DEFINE f == [at |-> meta.next, entry |-> 1]
  <2>1. /\ Goes(t, f) /\ DOMAIN f = {"at", "entry"} /\ f["at"] = meta.next /\ f["entry"] = 1
    <3>1. ~(n <= Len(meta.entries))
      BY <1>4
    <3> QED
      BY <1>4, <3>1 DEF MiniForEach
  <2> HIDE DEF f
  <2>2. /\ \A u \in Threads : u # t => thread'[u] = thread[u]
        /\ thread'[t].pc = "entries" /\ thread'[t].held = thread[t].held /\ thread'[t].head = thread[t].head
        /\ thread'[t].at = meta.next /\ thread'[t].entry = 1
    BY <1>1, <2>1, StepFields DEF Set
  <2>3. Others(t) /\ ~HasGot(t)' /\ Op(t)' = "entries"
    BY <2>2, OthersView DEF Op, HasGot, SearchPC, ReturnPC
  <2>4. Walked(t)
    BY <1>1, <1>2, <2>2, <2>3 DEF Walked, Walking, Freeing
  <2> QED
    BY <1>1, <1>2, <1>4, <2>2, <2>3, <2>4
<1>5. CASE ~(n <= Len(meta.entries)) /\ ~(n > Len(meta.entries) /\ meta.next # 0)
  <2> DEFINE f == [pc |-> "deinit", at |-> thread[t].head, entry |-> 0]
  <2>1. /\ Goes(t, f) /\ DOMAIN f = {"pc", "at", "entry"} /\ f["pc"] = "deinit"
        /\ f["at"] = thread[t].head /\ f["entry"] = 0
    BY <1>5 DEF MiniForEach
  <2> HIDE DEF f
  <2>2. /\ \A u \in Threads : u # t => thread'[u] = thread[u]
        /\ thread'[t].pc = "deinit" /\ thread'[t].held = thread[t].held /\ thread'[t].head = thread[t].head
        /\ thread'[t].at = thread[t].head /\ thread'[t].entry = 0
    BY <1>1, <2>1, StepFields DEF Set
  <2>3. Others(t) /\ ~HasGot(t)' /\ Op(t)' = "deinit"
    BY <2>2, OthersView DEF Op, HasGot, SearchPC, ReturnPC
  <2>4. Walked(t)
    BY <1>1, <1>2, <2>2, <2>3 DEF Walked, Walking, Freeing
  <2> QED
    BY <1>1, <1>2, <1>5, <2>2, <2>3, <2>4
<1> QED
  BY <1>3, <1>4, <1>5

LEMMA GoesOnTo ==
  ASSUME NEW t \in Threads, NEW idx, NEW x
  PROVE  \E idx2 : OnTo(t, idx, idx2, x)
<1> DEFINE new == [u \in Threads |-> IF u = t THEN x ELSE idx[u]]
<1>1. OnTo(t, idx, new, x)
  BY DEF OnTo
<1> QED
  BY <1>1

Only(E, e1) == \A e : e \in E <=> e = e1

LEMMA SingleExtent ==
  ASSUME NEW e1
  PROVE  \E E : Only(E, e1)
<1>1. Only({e1}, e1)
  BY DEF Only
<1> QED
  BY <1>1

\* An entry of the tree is given back.
LEMMA TakesEntry ==
  ASSUME SInv, Control, NEW t \in Threads, Walked(t), UNCHANGED <<ref, page>>, Op(t) = "entries",
         NEW chain, NEW dead, NEW idx, Ledger(chain, dead, idx),
         NEW at, at = thread[t].at, NEW n \in Nat, n = thread[t].entry,
         n <= Len(page[at].entries), Op(t)' = "dealloc", thread'[t].extent = page[at].entries[n],
         thread'[t].at = at, thread'[t].entry = n + 1, thread'[t].head = thread[t].head
  PROVE  \E idx2 : Ledger(chain, dead, idx2)'
<1> SUFFICES ASSUME NEW c, c = dead[t], NEW x, x = idx[t], NEW e1, e1 = page[at].entries[n]
             PROVE  \E idx2 : Ledger(chain, dead, idx2)'
  BY Zenon
<1>1. PICK idx2 : OnTo(t, idx, idx2, x)
  BY GoesOnTo, Zenon
<1>2. /\ Others(t) /\ ~HasGot(t) /\ ~HasGot(t)' /\ session.phase \notin QuietPhase
      /\ UNCHANGED <<mini, root, disk, session>>
  BY DEF Walked
<1>3. /\ DeadOK(c, x, t) /\ IsChain(c) /\ c \in Seq(Nat) /\ Len(c) \in Nat /\ x \in 1 .. Len(c)
      /\ at = c[x] /\ at \in DOMAIN page /\ page[at].entries \in Seq(Extents)
  BY <1>2, WalkReads DEF QuietPhase
<1>4. Walks(t) /\ Walks(t)' /\ n # 0 /\ idx2[t] = x /\ c = dead[t]
  BY <1>1, <1>3 DEF Walks, Walking, Freeing, OnTo, DeadOK
<1>5. n \in 1 .. Len(page[at].entries) /\ IsEntry(c[x], n, e1)
  BY <1>3, <1>4 DEF IsEntry
<1>6. DeadOK(c, x, t)'
  <2>1. thread[t].entry # 0 /\ n + 1 \in Nat /\ n + 1 # 0 /\ x <= Len(c) /\ x \in 1 .. Len(c) + 1
    BY <1>3, <1>4, SMTT(30)
  <2>2. thread[t].head = c[1] /\ \A k \in 1 .. Len(c) : Linked(c, k, page)
    BY <1>3, <2>1 DEF DeadOK
  <2>3. \A k \in 1 .. Len(c) : Linked(c, k, page)'
    BY <2>2 DEF Linked
  <2> QED
    BY <1>3, <2>1, <2>2, <2>3 DEF DeadOK
<1>7. \A o, e : DeadHas(c, x, t, o, e)' <=> DeadHas(c, x, t, o, e) /\ ~(o = DeadData(t, x, n) /\ e = e1)
  <2>1. \A k \in 1 .. Len(c) : \A i, e : IsEntry(c[k], i, e)' <=> IsEntry(c[k], i, e)
    BY DEF IsEntry
  <2>2. \A k \in 1 .. Len(c) : \A i, e : IsEntry(c[k], i, e) =>
          ((k > x \/ (k = x /\ i >= n + 1)) <=> (k > x \/ (k = x /\ i >= n)) /\ ~(k = x /\ i = n))
    BY <1>3, SMTT(30) DEF IsEntry
  <2>3. \A e : IsEntry(c[x], n, e) => e = e1
    BY <1>3 DEF IsEntry
  <2>4. ASSUME NEW o, NEW e, DeadHas(c, x, t, o, e)'
        PROVE  DeadHas(c, x, t, o, e) /\ ~(o = DeadData(t, x, n) /\ e = e1)
    <3>1. PICK k \in 1 .. Len(c) :
            \/ o = DeadMeta(t) /\ ExtentOf(c[k]) = e
            \/ \E i : o = DeadData(t, k, i) /\ IsEntry(c[k], i, e) /\ (k > x \/ (k = x /\ i >= n + 1))
      BY <2>1, <2>4 DEF DeadHas
    <3>2. CASE o = DeadMeta(t) /\ ExtentOf(c[k]) = e
      BY <1>4, <3>2, Tags DEF DeadHas
    <3>3. CASE \E i : o = DeadData(t, k, i) /\ IsEntry(c[k], i, e) /\ (k > x \/ (k = x /\ i >= n + 1))
      <4>1. PICK i : o = DeadData(t, k, i) /\ IsEntry(c[k], i, e) /\ (k > x \/ (k = x /\ i >= n + 1))
        BY <3>3
      <4>2. (k > x \/ (k = x /\ i >= n)) /\ ~(k = x /\ i = n)
        BY <2>2, <4>1
      <4>3. DeadHas(c, x, t, o, e)
        BY <1>4, <4>1, <4>2 DEF DeadHas
      <4> QED
        BY <4>1, <4>2, <4>3, Tags
    <3> QED
      BY <3>1, <3>2, <3>3
  <2>5. ASSUME NEW o, NEW e, DeadHas(c, x, t, o, e), ~(o = DeadData(t, x, n) /\ e = e1)
        PROVE  DeadHas(c, x, t, o, e)'
    <3>1. PICK k \in 1 .. Len(c) :
            \/ o = DeadMeta(t) /\ ExtentOf(c[k]) = e
            \/ \E i : o = DeadData(t, k, i) /\ IsEntry(c[k], i, e) /\ (k > x \/ (k = x /\ i >= n))
      BY <2>5 DEF DeadHas
    <3>2. n + 1 # 0
      BY <1>4
    <3>3. CASE o = DeadMeta(t) /\ ExtentOf(c[k]) = e
      BY <3>2, <3>3 DEF DeadHas
    <3>4. CASE \E i : o = DeadData(t, k, i) /\ IsEntry(c[k], i, e) /\ (k > x \/ (k = x /\ i >= n))
      <4>1. PICK i : o = DeadData(t, k, i) /\ IsEntry(c[k], i, e) /\ (k > x \/ (k = x /\ i >= n))
        BY <3>4
      <4>2. ~(k = x /\ i = n)
        BY <2>3, <2>5, <4>1
      <4>3. (k > x \/ (k = x /\ i >= n + 1)) /\ IsEntry(c[k], i, e)'
        BY <2>1, <2>2, <4>1, <4>2
      <4> QED
        BY <3>2, <4>1, <4>3 DEF DeadHas
    <3> QED
      BY <3>1, <3>3, <3>4
  <2> QED
    BY <2>4, <2>5
<1>8. \A o, e : /\ ~ThreadHas(t, o, e)
                /\ ThreadHas(t, o, e)' <=> o = DroppedBy(t) /\ e = e1
  BY <1>2 DEF ThreadHas, Freeing, Moving
<1>9. \A o, e : /\ Mine(dead, idx, t, o, e) <=> DeadHas(c, x, t, o, e)
                /\ Mine(dead, idx2, t, o, e)' <=> DeadHas(c, x, t, o, e)' \/ (o = DroppedBy(t) /\ e = e1)
  BY <1>4, <1>8 DEF Mine
<1>10. Mine(dead, idx, t, DeadData(t, x, n), e1)
  <2>1. DeadHas(c, x, t, DeadData(t, x, n), e1)
    <3>1. x \in 1 .. Len(c) /\ IsEntry(c[x], n, e1) /\ n # 0 /\ n >= n
      BY <1>3, <1>4, <1>5, SMTT(30)
    <3> QED
      BY <3>1 DEF DeadHas
  <2> QED
    BY <1>9, <2>1
<1>11. PagesLeft(t, chain, dead, idx)
  BY PagesAll
<1>12. /\ Has(chain, dead, idx, DeadData(t, x, n), e1) /\ e1 \in Extents \ {0}
       /\ \A o : Mine(dead, idx, t, o, e1) => o = DeadData(t, x, n)
       /\ \A o : Has(chain, dead, idx2, o, e1)' <=> Mine(dead, idx2, t, o, e1)'
  BY <1>1, <1>10, <1>11, WalkHas, SMTT(30)
<1>13. \A o : Mine(dead, idx2, t, o, e1)' <=> o = DroppedBy(t)
  BY <1>7, <1>9, <1>12
<1>14. PICK E : Only(E, e1)
  BY SingleExtent, Zenon
<1>15. WalkMoves(E, t, dead, idx, idx2)
  <2>1. \A o, e : e \notin E => (Mine(dead, idx2, t, o, e)' <=> Mine(dead, idx, t, o, e))
    BY <1>7, <1>9, <1>14 DEF Only
  <2>2. \A e \in E : \E o : Mine(dead, idx, t, o, e)
    BY <1>10, <1>14 DEF Only
  <2>3. \A e \in E : \A o : Mine(dead, idx2, t, o, e)' => o = DroppedBy(t)
    BY <1>13, <1>14 DEF Only
  <2>4. \A e \in E : \E q : \A o : Mine(dead, idx2, t, o, e)' => o = q
    BY <2>3
  <2> QED
    BY <2>1, <2>2, <2>4 DEF WalkMoves
<1>16. \A o : Base(o)' = Base(o)
  BY <1>2, BaseKept DEF Freeing
<1>17. CountOK(chain, dead, idx2, e1)'
  <2>1. ref[e1] = Base(DeadData(t, x, n)) + Holds(Address(e1))
    BY <1>2, <1>12 DEF Ledger, CountInv, CountOK, QuietPhase
  <2>2. Base(DeadData(t, x, n)) = 2
    BY Tags DEF Base
  <2>3. Base(DroppedBy(t))' = 2
    BY <1>2, Tags DEF Base, Others, SameView
  <2>4. (Holds(Address(e1)))' = Holds(Address(e1))
    <3>1. \A h : h # 0 => Holds(h)' = Holds(h)
      BY <1>11, WalkRest
    <3> QED
      BY <1>12, <3>1, AddressOf, ExtentsNat
  <2> QED
    BY <1>12, <1>13, <2>1, <2>2, <2>3, <2>4 DEF CountOK
<1>18. Ledger(chain, dead, idx2)'
  <2>1. DeadOK(dead[t], idx2[t], t)'
    BY <1>4, <1>6
  <2>2. \A e \in E : CountOK(chain, dead, idx2, e)'
    BY <1>14, <1>17 DEF Only
  <2>3. \A e \in Extents : e \notin E => ref'[e] = ref[e]
    OBVIOUS
  <2> QED
    BY <1>1, <1>11, <1>15, <1>16, <2>1, <2>2, <2>3, WalkLedger
<1> QED
  BY <1>18

\* A walk that goes on without giving an extent back.
LEMMA WalkSame ==
  ASSUME Control, NEW t \in Threads, Walked(t), UNCHANGED <<ref, page>>,
         Op(t) \in {"entries", "deinit"}, Op(t)' \in {"entries", "deinit"},
         NEW chain, NEW dead, NEW idx, Ledger(chain, dead, idx),
         NEW c, c = dead[t], NEW x, x = idx[t], NEW x2, DeadOK(c, x2, t)',
         \A o, e : DeadHas(c, x2, t, o, e)' <=> DeadHas(c, x, t, o, e)
  PROVE  \E idx2 : Ledger(chain, dead, idx2)'
<1>1. PICK idx2 : OnTo(t, idx, idx2, x2)
  BY GoesOnTo, Zenon
<1>2. Others(t) /\ ~HasGot(t) /\ ~HasGot(t)'
  BY DEF Walked
<1>3. Walks(t) /\ Walks(t)' /\ idx2[t] = x2
  BY <1>1 DEF Walks, Walking, OnTo
<1>4. \A o, e : ~ThreadHas(t, o, e) /\ ~ThreadHas(t, o, e)'
  BY <1>2 DEF ThreadHas, Freeing, Moving
<1>5. \A o, e : Mine(dead, idx2, t, o, e)' <=> Mine(dead, idx, t, o, e)
  BY <1>3, <1>4 DEF Mine
<1>6. PICK E : E = {}
  OBVIOUS
<1>7. WalkMoves(E, t, dead, idx, idx2)
  BY <1>5, <1>6 DEF WalkMoves
<1>8. \A o : Base(o)' = Base(o)
  BY <1>2, BaseKept
<1>9. PagesLeft(t, chain, dead, idx)
  BY PagesAll
<1>10. Ledger(chain, dead, idx2)'
  <2>1. DeadOK(dead[t], idx2[t], t)'
    BY <1>3
  <2>2. \A e \in E : CountOK(chain, dead, idx2, e)'
    BY <1>6
  <2>3. \A e \in Extents : e \notin E => ref'[e] = ref[e]
    OBVIOUS
  <2> QED
    BY <1>1, <1>7, <1>8, <1>9, <2>1, <2>2, <2>3, WalkLedger
<1> QED
  BY <1>10

\* One that moves its claim to extent e1.
LEMMA WalkOne ==
  ASSUME Control, NEW t \in Threads, Walked(t),
         NEW chain, NEW dead, NEW idx, Ledger(chain, dead, idx), PagesLeft(t, chain, dead, idx),
         NEW x, NEW idx2, OnTo(t, idx, idx2, x), Walks(t)' => DeadOK(dead[t], idx2[t], t)',
         NEW o1, NEW e1, Mine(dead, idx, t, o1, e1),
         \A o, e : e # e1 => (Mine(dead, idx2, t, o, e)' <=> Mine(dead, idx, t, o, e)),
         NEW q, \A o : Mine(dead, idx2, t, o, e1)' => o = q,
         \A e \in Extents : e # e1 => ref'[e] = ref[e],
         \A o, e : e # e1 /\ Has(chain, dead, idx, o, e) => Base(o)' = Base(o),
         CountOK(chain, dead, idx2, e1)'
  PROVE  Ledger(chain, dead, idx2)'
<1>1. PICK E : Only(E, e1)
  BY SingleExtent, Zenon
<1>2. WalkMoves(E, t, dead, idx, idx2)
  <2>1. \A o, e : e \notin E => (Mine(dead, idx2, t, o, e)' <=> Mine(dead, idx, t, o, e))
    BY <1>1 DEF Only
  <2>2. \A e \in E : \E o : Mine(dead, idx, t, o, e)
    BY <1>1 DEF Only
  <2>3. \A e \in E : \A o : Mine(dead, idx2, t, o, e)' => o = q
    BY <1>1 DEF Only
  <2>4. \A e \in E : \E p : \A o : Mine(dead, idx2, t, o, e)' => o = p
    BY <2>3
  <2> QED
    BY <2>1, <2>2, <2>4 DEF WalkMoves
<1>3. \A e \in E : CountOK(chain, dead, idx2, e)'
  BY <1>1 DEF Only
<1>4. \A e \in Extents : e \notin E => ref'[e] = ref[e]
  BY <1>1 DEF Only
<1>5. \A o, e : e \notin E /\ Has(chain, dead, idx, o, e) => Base(o)' = Base(o)
  BY <1>1 DEF Only
<1> QED
  BY <1>2, <1>3, <1>4, <1>5, WalkLedger

\* The next page of the tree, or the first one once all entries are given back.
LEMMA NextEntries ==
  ASSUME SInv, Control, NEW t \in Threads, Walked(t), UNCHANGED <<ref, page>>, Op(t) = "entries",
         NEW chain, NEW dead, NEW idx, Ledger(chain, dead, idx),
         NEW at, at = thread[t].at, NEW n \in Nat, n = thread[t].entry,
         ~(n <= Len(page[at].entries)), page[at].next # 0, Op(t)' = "entries",
         thread'[t].at = page[at].next, thread'[t].entry = 1, thread'[t].head = thread[t].head
  PROVE  \E idx2 : Ledger(chain, dead, idx2)'
<1> SUFFICES ASSUME NEW c, c = dead[t], NEW x, x = idx[t]
             PROVE  \E idx2 : Ledger(chain, dead, idx2)'
  BY Zenon
<1>1. session.phase \notin QuietPhase
  BY DEF Walked
<1>2. /\ DeadOK(c, x, t) /\ IsChain(c) /\ c \in Seq(Nat) /\ Len(c) \in Nat /\ x \in 1 .. Len(c)
      /\ at = c[x] /\ at \in DOMAIN page /\ page[at].entries \in Seq(Extents)
      /\ page[at].next = IF x < Len(c) THEN c[x + 1] ELSE 0
  <2>1. session.phase # "down" /\ Op(t) \in {"entries", "deinit"}
    BY <1>1 DEF QuietPhase
  <2> QED
    BY <2>1, WalkReads, SMTT(30)
<1>3. n # 0 /\ x < Len(c) /\ page[at].next = c[x + 1] /\ x + 1 \in 1 .. Len(c)
  BY <1>2, SMTT(30) DEF DeadOK
<1>4. DeadOK(c, x + 1, t)'
  <2>1. thread[t].entry # 0 /\ x + 1 <= Len(c) /\ x + 1 \in 1 .. Len(c) + 1
    BY <1>2, <1>3
  <2>2. thread[t].head = c[1] /\ \A k \in 1 .. Len(c) : Linked(c, k, page)
    BY <1>2, <2>1 DEF DeadOK
  <2>3. \A k \in 1 .. Len(c) : Linked(c, k, page)'
    BY <2>2 DEF Linked
  <2> QED
    BY <1>2, <1>3, <2>1, <2>2, <2>3 DEF DeadOK
<1>5. \A o, e : DeadHas(c, x + 1, t, o, e)' <=> DeadHas(c, x, t, o, e)
  <2>1. \A k \in 1 .. Len(c) : \A i, e : IsEntry(c[k], i, e)' <=> IsEntry(c[k], i, e)
    BY DEF IsEntry
  <2>2. \A k \in 1 .. Len(c) : \A i, e : IsEntry(c[k], i, e) =>
          ((k > x + 1 \/ (k = x + 1 /\ i >= 1)) <=> (k > x \/ (k = x /\ i >= n)))
    <3>1. ASSUME NEW k \in 1 .. Len(c), NEW i, NEW e, IsEntry(c[k], i, e)
          PROVE  i >= 1 /\ (k = x => ~(i >= n))
      <4>1. c[k] \in DOMAIN page
        BY <1>2, <1>3 DEF DeadOK, Linked
      <4>2. page[c[k]].entries \in Seq(Extents)
        BY <4>1 DEF Control, PagesOK
      <4>3. Len(page[c[k]].entries) \in Nat
        BY <4>2
      <4>4. k = x => ~(n <= Len(page[c[k]].entries))
        BY <1>2
      <4>5. i \in 1 .. Len(page[c[k]].entries)
        BY <3>1 DEF IsEntry
      <4> QED
        BY <4>3, <4>4, <4>5
    <3>2. TAKE k \in 1 .. Len(c)
    <3> TAKE i, e
    <3>3. HAVE IsEntry(c[k], i, e)
    <3>4. i >= 1 /\ (k = x => ~(i >= n))
      BY <3>1, <3>3
    <3> QED
      BY <1>2, <3>4
  <2>3. ASSUME NEW o, NEW e, DeadHas(c, x + 1, t, o, e)'
        PROVE  DeadHas(c, x, t, o, e)
    <3>1. PICK k \in 1 .. Len(c) :
            \/ o = DeadMeta(t) /\ ExtentOf(c[k]) = e
            \/ \E i : o = DeadData(t, k, i) /\ IsEntry(c[k], i, e) /\ (k > x + 1 \/ (k = x + 1 /\ i >= 1))
      BY <2>1, <2>3 DEF DeadHas
    <3>2. \/ o = DeadMeta(t) /\ ExtentOf(c[k]) = e
          \/ \E i : o = DeadData(t, k, i) /\ IsEntry(c[k], i, e) /\ (k > x \/ (k = x /\ i >= n))
      BY <2>2, <3>1
    <3> QED
      BY <1>3, <3>2 DEF DeadHas
  <2>4. ASSUME NEW o, NEW e, DeadHas(c, x, t, o, e)
        PROVE  DeadHas(c, x + 1, t, o, e)'
    <3>1. PICK k \in 1 .. Len(c) :
            \/ o = DeadMeta(t) /\ ExtentOf(c[k]) = e
            \/ \E i : o = DeadData(t, k, i) /\ IsEntry(c[k], i, e) /\ (k > x \/ (k = x /\ i >= n))
      BY <2>4 DEF DeadHas
    <3>2. \/ o = DeadMeta(t) /\ ExtentOf(c[k]) = e
          \/ \E i : o = DeadData(t, k, i) /\ IsEntry(c[k], i, e)' /\ (k > x + 1 \/ (k = x + 1 /\ i >= 1))
      BY <2>1, <2>2, <3>1
    <3> QED
      BY <3>2 DEF DeadHas
  <2> QED
    BY <2>3, <2>4
<1>6. \A x2 : x2 = x + 1 => \E idx2 : Ledger(chain, dead, idx2)'
  <2>1. SUFFICES ASSUME NEW x2, x2 = x + 1
                 PROVE  \E idx2 : Ledger(chain, dead, idx2)'
    OBVIOUS
  <2>2. DeadOK(c, x2, t)' /\ \A o, e : DeadHas(c, x2, t, o, e)' <=> DeadHas(c, x, t, o, e)
    BY <1>4, <1>5, <2>1
  <2> QED
    BY <2>2, WalkSame
<1> QED
  BY <1>6

LEMMA LastEntry ==
  ASSUME SInv, Control, NEW t \in Threads, Walked(t), UNCHANGED <<ref, page>>, Op(t) = "entries",
         NEW chain, NEW dead, NEW idx, Ledger(chain, dead, idx),
         NEW at, at = thread[t].at, NEW n \in Nat, n = thread[t].entry,
         ~(n <= Len(page[at].entries)), page[at].next = 0, Op(t)' = "deinit",
         thread'[t].at = thread[t].head, thread'[t].entry = 0
  PROVE  \E idx2 : Ledger(chain, dead, idx2)'
<1> SUFFICES ASSUME NEW c, c = dead[t], NEW x, x = idx[t]
             PROVE  \E idx2 : Ledger(chain, dead, idx2)'
  BY Zenon
<1>1. session.phase \notin QuietPhase
  BY DEF Walked
<1>2. /\ DeadOK(c, x, t) /\ IsChain(c) /\ c \in Seq(Nat) /\ Len(c) \in Nat /\ x \in 1 .. Len(c)
      /\ at = c[x] /\ at \in DOMAIN page /\ page[at].entries \in Seq(Extents)
      /\ page[at].next = IF x < Len(c) THEN c[x + 1] ELSE 0
  BY <1>1, WalkReads DEF QuietPhase
<1>3. n # 0 /\ x = Len(c) /\ 1 \in 1 .. Len(c)
  <2>1. x < Len(c) => x + 1 \in 1 .. Len(c) /\ c[x + 1] # 0
    BY <1>2, SMTT(30) DEF IsChain
  <2>2. n # 0
    BY <1>2 DEF DeadOK
  <2> QED
    BY <1>2, <2>1, <2>2
<1>4. DeadOK(c, 1, t)'
  <2>1. thread[t].entry # 0 /\ 1 <= Len(c) /\ 1 \in 1 .. Len(c) + 1
    BY <1>2, <1>3
  <2>2. thread[t].head = c[1] /\ \A k \in 1 .. Len(c) : Linked(c, k, page)
    BY <1>2, <2>1 DEF DeadOK
  <2>3. \A k \in 1 .. Len(c) : Linked(c, k, page)'
    BY <2>2 DEF Linked
  <2> QED
    BY <1>2, <1>3, <2>1, <2>2, <2>3 DEF DeadOK
<1>5. \A o, e : DeadHas(c, 1, t, o, e)' <=> DeadHas(c, x, t, o, e)
  <2>1. \A k \in 1 .. Len(c) : \A i, e : IsEntry(c[k], i, e) => ~(k > x \/ (k = x /\ i >= n))
    BY <1>2, <1>3 DEF IsEntry
  <2>2. \A o, e : DeadHas(c, x, t, o, e) <=> \E k \in 1 .. Len(c) : o = DeadMeta(t) /\ ExtentOf(c[k]) = e
    BY <1>3, <2>1 DEF DeadHas
  <2>3. \A o, e : DeadHas(c, 1, t, o, e)' <=> \E k \in 1 .. Len(c) : o = DeadMeta(t) /\ ExtentOf(c[k]) = e
    BY DEF DeadHas
  <2> QED
    BY <2>2, <2>3
<1> QED
  BY <1>4, <1>5, WalkSame

LEMMA ForEachLedger ==
  ASSUME SInv, Control, NEW t \in Threads, MiniForEach(t),
         NEW chain, NEW dead, NEW idx, Ledger(chain, dead, idx)
  PROVE  (\E idx2 : Ledger(chain, dead, idx2)') /\ (AssertionsHold => AssertionsHold')
<1> SUFFICES ASSUME NEW at, at = thread[t].at, NEW n, n = thread[t].entry
             PROVE  (\E idx2 : Ledger(chain, dead, idx2)') /\ (AssertionsHold => AssertionsHold')
  BY Zenon
<1>1. /\ Op(t) = "entries" /\ session.phase # "down"
      /\ err' = IF Readable(at) THEN err ELSE err \cup {"mini_for_each"}
  <2>1. SInv /\ thread[t].pc = "entries" /\ err' = IF Readable(at) THEN err ELSE err \cup {"mini_for_each"}
    BY DEF MiniForEach, At, Check
  <2> QED
    BY <2>1, Runs DEF Op, SearchPC, QuietPhase
<1>2. /\ DeadOK(dead[t], idx[t], t) /\ MetaPage(at) = page[at] /\ page[at].entries \in Seq(Extents)
      /\ Readable(at)
  BY <1>1, WalkReads
<1>3. n \in Nat /\ Len(page[at].entries) \in Nat
  <2>1. n \in Nat
    BY <1>2 DEF DeadOK
  <2>2. Len(page[at].entries) \in Nat
    BY <1>2
  <2> QED
    BY <2>1, <2>2
<1>4. /\ Walked(t) /\ UNCHANGED <<ref, page>> /\ thread'[t].head = thread[t].head
      /\ \/ /\ n <= Len(page[at].entries) /\ Op(t)' = "dealloc" /\ thread'[t].extent = page[at].entries[n]
            /\ thread'[t].at = thread[t].at /\ thread'[t].entry = n + 1
         \/ /\ n > Len(page[at].entries) /\ page[at].next # 0 /\ Op(t)' = "entries"
            /\ thread'[t].at = page[at].next /\ thread'[t].entry = 1
         \/ /\ ~(n <= Len(page[at].entries)) /\ ~(n > Len(page[at].entries) /\ page[at].next # 0) /\ Op(t)' = "deinit"
            /\ thread'[t].at = thread[t].head /\ thread'[t].entry = 0
  BY <1>2, <1>3, ForEachEffect
<1>5. CASE /\ n <= Len(page[at].entries) /\ Op(t)' = "dealloc" /\ thread'[t].extent = page[at].entries[n]
           /\ thread'[t].at = thread[t].at /\ thread'[t].entry = n + 1
  <2>1. \E idx2 : Ledger(chain, dead, idx2)'
    BY <1>1, <1>3, <1>4, <1>5, TakesEntry
  <2> QED
    BY <1>1, <1>2, <2>1 DEF AssertionsHold
<1>6. CASE /\ n > Len(page[at].entries) /\ page[at].next # 0 /\ Op(t)' = "entries"
           /\ thread'[t].at = page[at].next /\ thread'[t].entry = 1
  <2>1. ~(n <= Len(page[at].entries))
    BY <1>3, <1>6
  <2>2. \E idx2 : Ledger(chain, dead, idx2)'
    BY <1>1, <1>3, <1>4, <1>6, <2>1, NextEntries
  <2> QED
    BY <1>1, <1>2, <2>2 DEF AssertionsHold
<1>7. CASE /\ ~(n <= Len(page[at].entries)) /\ ~(n > Len(page[at].entries) /\ page[at].next # 0) /\ Op(t)' = "deinit"
           /\ thread'[t].at = thread[t].head /\ thread'[t].entry = 0
  <2>1. ~(n <= Len(page[at].entries)) /\ page[at].next = 0
    BY <1>3, <1>7
  <2>2. \E idx2 : Ledger(chain, dead, idx2)'
    BY <1>1, <1>3, <1>4, <1>7, <2>1, LastEntry
  <2> QED
    BY <1>1, <1>2, <2>2 DEF AssertionsHold
<1> QED
  BY <1>4, <1>5, <1>6, <1>7

-----------------------------------------------------------------------------
(* mini_deinit *)

LEMMA DeinitEffect ==
  ASSUME SInv, NEW t \in Threads, MiniDeinit(t), NEW at, at = thread[t].at,
         NEW next, next = MetaPage(at).next
  PROVE  /\ session.phase \notin QuietPhase /\ Op(t) = "deinit" /\ ~HasGot(t)
         /\ Walked(t) /\ UNCHANGED <<ref, page>>
         /\ thread'[t].head = thread[t].head /\ thread'[t].entry = thread[t].entry
         /\ thread'[t].at = next
         /\ err' = IF Readable(at) THEN err ELSE err \cup {"mini_deinit"}
         /\ \/ ExtentOf(at) = ExtentOf(next) /\ Op(t)' = "deinit"
            \/ ExtentOf(at) # ExtentOf(next) /\ Op(t)' = "dealloc" /\ thread'[t].extent = ExtentOf(at)
<1>1. /\ StoreType /\ thread[t].pc = "deinit" /\ UNCHANGED <<ref, page, mini, root, disk, session>>
      /\ err' = IF Readable(at) THEN err ELSE err \cup {"mini_deinit"}
  BY DEF SInv, MiniDeinit, At, Check
<1>2. Op(t) = "deinit" /\ ~HasGot(t) /\ session.phase \notin QuietPhase
  BY <1>1, Runs DEF Op, HasGot, SearchPC, ReturnPC
<1>3. CASE ExtentOf(at) = ExtentOf(next)
  <2> DEFINE f == [at |-> next]
  <2>1. /\ Goes(t, f) /\ DOMAIN f = {"at"} /\ f["at"] = next
    BY <1>3 DEF MiniDeinit, PagesShareExtent
  <2> HIDE DEF f
  <2>2. /\ \A u \in Threads : u # t => thread'[u] = thread[u]
        /\ thread'[t].pc = "deinit" /\ thread'[t].held = thread[t].held /\ thread'[t].head = thread[t].head
        /\ thread'[t].at = next /\ thread'[t].entry = thread[t].entry
    BY <1>1, <2>1, StepFields DEF Set
  <2>3. Others(t) /\ ~HasGot(t)' /\ Op(t)' = "deinit"
    BY <2>2, OthersView DEF Op, HasGot, SearchPC, ReturnPC
  <2>4. Walked(t)
    BY <1>1, <1>2, <2>2, <2>3 DEF Walked, Walking, Freeing
  <2> QED
    BY <1>1, <1>2, <1>3, <2>2, <2>3, <2>4
<1>4. CASE ExtentOf(at) # ExtentOf(next)
  <2> DEFINE f == [pc |-> "dealloc", extent |-> ExtentOf(at), at |-> next]
  <2>1. /\ Goes(t, f) /\ DOMAIN f = {"pc", "extent", "at"} /\ f["pc"] = "dealloc"
        /\ f["extent"] = ExtentOf(at) /\ f["at"] = next
    BY <1>4 DEF MiniDeinit, PagesShareExtent
  <2> HIDE DEF f
  <2>2. /\ \A u \in Threads : u # t => thread'[u] = thread[u]
        /\ thread'[t].pc = "dealloc" /\ thread'[t].held = thread[t].held /\ thread'[t].head = thread[t].head
        /\ thread'[t].at = next /\ thread'[t].entry = thread[t].entry /\ thread'[t].extent = ExtentOf(at)
    BY <1>1, <2>1, StepFields DEF Set
  <2>3. Others(t) /\ ~HasGot(t)' /\ Op(t)' = "dealloc"
    BY <2>2, OthersView DEF Op, HasGot, SearchPC, ReturnPC
  <2>4. Walked(t)
    BY <1>1, <1>2, <2>2, <2>3 DEF Walked, Walking, Freeing
  <2> QED
    BY <1>1, <1>2, <1>4, <2>2, <2>3, <2>4
<1> QED
  BY <1>3, <1>4

\* A page that is not the last of its extent.
LEMMA SharesExtent ==
  ASSUME SInv, Control, NEW t \in Threads, Walked(t), UNCHANGED <<ref, page>>, Op(t) = "deinit",
         NEW chain, NEW dead, NEW idx, Ledger(chain, dead, idx),
         NEW at, at = thread[t].at, ExtentOf(at) = ExtentOf(page[at].next), Op(t)' = "deinit",
         thread'[t].at = page[at].next, thread'[t].entry = thread[t].entry
  PROVE  \E idx2 : Ledger(chain, dead, idx2)'
<1> SUFFICES ASSUME NEW c, c = dead[t], NEW x, x = idx[t]
             PROVE  \E idx2 : Ledger(chain, dead, idx2)'
  BY Zenon
<1>1. session.phase \notin QuietPhase
  BY DEF Walked
<1>2. /\ DeadOK(c, x, t) /\ IsChain(c) /\ c \in Seq(Nat) /\ Len(c) \in Nat /\ x \in 1 .. Len(c)
      /\ at = c[x] /\ at \in DOMAIN page /\ ExtentOf(at) \in Extents \ {0}
      /\ page[at].next = IF x < Len(c) THEN c[x + 1] ELSE 0
  BY <1>1, WalkReads, SMTT(30) DEF QuietPhase
<1>3. thread[t].entry = 0
  BY <1>2 DEF DeadOK
<1>4. x < Len(c) /\ page[at].next = c[x + 1] /\ x + 1 \in 1 .. Len(c) /\ ExtentOf(c[x + 1]) = ExtentOf(c[x])
  BY <1>2, ZeroAddress
<1>5. SUFFICES ASSUME NEW x2, x2 = x + 1
               PROVE  \E idx2 : Ledger(chain, dead, idx2)'
  OBVIOUS
<1>6. x2 \in 1 .. Len(c) /\ \A k \in 1 .. Len(c) : (k >= x <=> k = x \/ k >= x2)
  BY <1>2, <1>4, <1>5
<1>7. DeadOK(c, x2, t)'
  <2>1. \A k \in 1 .. Len(c) : k >= x => Linked(c, k, page)
    BY <1>2 DEF DeadOK
  <2>2. \A k \in 1 .. Len(c) : k >= x2 => Linked(c, k, page)'
    BY <1>6, <2>1 DEF Linked
  <2>3. x2 <= Len(c) /\ x2 \in 1 .. Len(c) + 1
    BY <1>2, <1>6
  <2> QED
    BY <1>2, <1>3, <1>4, <1>5, <2>2, <2>3 DEF DeadOK
<1>8. \A o, e : DeadHas(c, x2, t, o, e)' <=> DeadHas(c, x, t, o, e)
  <2>1. \A o, e : DeadHas(c, x, t, o, e) <=>
          \E k \in 1 .. Len(c) : o = DeadMeta(t) /\ ExtentOf(c[k]) = e /\ k >= x
    BY <1>3 DEF DeadHas
  <2>2. \A o, e : DeadHas(c, x2, t, o, e)' <=>
          \E k \in 1 .. Len(c) : o = DeadMeta(t) /\ ExtentOf(c[k]) = e /\ k >= x2
    BY <1>3 DEF DeadHas
  <2>3. \A e : (\E k \in 1 .. Len(c) : ExtentOf(c[k]) = e /\ k >= x) <=>
               (\E k \in 1 .. Len(c) : ExtentOf(c[k]) = e /\ k >= x2)
    <3>1. x2 \in 1 .. Len(c) /\ x2 >= x2 /\ ExtentOf(c[x2]) = ExtentOf(c[x])
      BY <1>4, <1>5, <1>6
    <3> QED
      BY <1>6, <3>1
  <2> QED
    BY <2>1, <2>2, <2>3
<1> QED
  BY <1>7, <1>8, WalkSame

\* The last page of an extent: the extent is given back.
LEMMA LeavesExtent ==
  ASSUME SInv, Control, NEW t \in Threads, Walked(t), UNCHANGED <<ref, page>>, Op(t) = "deinit",
         NEW chain, NEW dead, NEW idx, Ledger(chain, dead, idx),
         NEW at, at = thread[t].at, ExtentOf(at) # ExtentOf(page[at].next), Op(t)' = "dealloc",
         thread'[t].extent = ExtentOf(at),
         thread'[t].at = page[at].next, thread'[t].entry = thread[t].entry
  PROVE  \E idx2 : Ledger(chain, dead, idx2)'
<1> SUFFICES ASSUME NEW c, c = dead[t], NEW x, x = idx[t], NEW e1, e1 = ExtentOf(at), NEW x2, x2 = x + 1
             PROVE  \E idx2 : Ledger(chain, dead, idx2)'
  BY Zenon
<1>1. PICK idx2 : OnTo(t, idx, idx2, x2)
  BY GoesOnTo, Zenon
<1>2. /\ Others(t) /\ ~HasGot(t) /\ ~HasGot(t)' /\ session.phase \notin QuietPhase
  BY DEF Walked
<1>3. /\ DeadOK(c, x, t) /\ IsChain(c) /\ c \in Seq(Nat) /\ Len(c) \in Nat /\ x \in 1 .. Len(c)
      /\ at = c[x] /\ at \in DOMAIN page /\ ExtentOf(at) \in Extents \ {0}
      /\ page[at].next = IF x < Len(c) THEN c[x + 1] ELSE 0
      /\ Mine(dead, idx, t, DeadMeta(t), ExtentOf(at))
  BY <1>2, WalkReads DEF QuietPhase
<1>4. /\ thread[t].entry = 0 /\ Walks(t) /\ Walks(t)' /\ idx2[t] = x2 /\ c = dead[t]
  BY <1>1, <1>3 DEF DeadOK, Walks, Walking, Freeing, OnTo
<1>5. \A k \in 1 .. Len(c) : (k >= x2 <=> k >= x /\ k # x) /\ (k >= x2 => ExtentOf(c[k]) # e1)
  <2>1. TAKE k \in 1 .. Len(c)
  <2>2. k >= x2 <=> k >= x /\ k # x
    BY <1>3
  <2>3. ASSUME k >= x2, ExtentOf(c[k]) = e1
        PROVE  FALSE
    <3>1. x < k /\ x < Len(c)
      BY <1>3, <2>3
    <3>2. ExtentOf(c[x + 1]) = ExtentOf(c[x])
      BY <1>3, <2>3, <3>1 DEF IsChain
    <3> QED
      BY <1>3, <3>1, <3>2
  <2> QED
    BY <2>2, <2>3
<1>6. DeadOK(c, x2, t)'
  <2>1. \A k \in 1 .. Len(c) : k >= x => Linked(c, k, page)
    BY <1>3 DEF DeadOK
  <2>2. \A k \in 1 .. Len(c) : k >= x2 => Linked(c, k, page)'
    BY <1>5, <2>1 DEF Linked
  <2>3. x2 \in 1 .. Len(c) + 1 /\ (x2 <= Len(c) <=> x < Len(c))
    BY <1>3
  <2> QED
    BY <1>3, <1>4, <2>2, <2>3 DEF DeadOK
<1>7. /\ \A o, e : DeadHas(c, x, t, o, e) <=>
           \E k \in 1 .. Len(c) : o = DeadMeta(t) /\ ExtentOf(c[k]) = e /\ k >= x
      /\ \A o, e : DeadHas(c, x2, t, o, e)' <=>
           \E k \in 1 .. Len(c) : o = DeadMeta(t) /\ ExtentOf(c[k]) = e /\ k >= x2
  BY <1>4 DEF DeadHas
<1>8. \A o, e : DeadHas(c, x2, t, o, e)' <=> DeadHas(c, x, t, o, e) /\ e # e1
  <2>1. ExtentOf(c[x]) = e1 /\ \A k \in 1 .. Len(c) : k >= x2 => k >= x
    BY <1>3, <1>5
  <2>2. \A e : (\E k \in 1 .. Len(c) : ExtentOf(c[k]) = e /\ k >= x2) <=>
               (\E k \in 1 .. Len(c) : ExtentOf(c[k]) = e /\ k >= x) /\ e # e1
    BY <1>5, <2>1
  <2> QED
    BY <1>7, <2>2
<1>9. \A o, e : /\ ~ThreadHas(t, o, e)
                /\ ThreadHas(t, o, e)' <=> o = DroppedBy(t) /\ e = e1
  BY <1>2 DEF ThreadHas, Freeing, Moving
<1>10. \A o, e : /\ Mine(dead, idx, t, o, e) <=> DeadHas(c, x, t, o, e)
                 /\ Mine(dead, idx2, t, o, e)' <=> DeadHas(c, x2, t, o, e)' \/ (o = DroppedBy(t) /\ e = e1)
  BY <1>4, <1>9 DEF Mine
<1>11. PagesLeft(t, chain, dead, idx)
  BY PagesAll
<1>12. /\ Has(chain, dead, idx, DeadMeta(t), e1) /\ e1 \in Extents \ {0}
       /\ \A o : Has(chain, dead, idx2, o, e1)' <=> Mine(dead, idx2, t, o, e1)'
  BY <1>1, <1>3, <1>11, WalkHas
<1>13. \A o : Mine(dead, idx2, t, o, e1)' <=> o = DroppedBy(t)
  BY <1>8, <1>10
<1>14. \A o, e : e # e1 => (Mine(dead, idx2, t, o, e)' <=> Mine(dead, idx, t, o, e))
  BY <1>8, <1>10
<1>15. \A o : Base(o)' = Base(o)
  BY <1>2, BaseKept
<1>16. CountOK(chain, dead, idx2, e1)'
  <2>1. ref[e1] = Base(DeadMeta(t)) + Holds(Address(e1))
    BY <1>2, <1>12 DEF Ledger, CountInv, CountOK, QuietPhase
  <2>2. Base(DeadMeta(t)) = 2
    BY Tags DEF Base
  <2>3. Base(DroppedBy(t))' = 2
    BY <1>2, Tags DEF Base, Others, SameView
  <2>4. (Holds(Address(e1)))' = Holds(Address(e1))
    <3>1. \A h : h # 0 => Holds(h)' = Holds(h)
      BY <1>11, WalkRest
    <3> QED
      BY <1>12, <3>1, AddressOf, ExtentsNat
  <2> QED
    BY <1>12, <1>13, <2>1, <2>2, <2>3, <2>4 DEF CountOK
<1>17. Ledger(chain, dead, idx2)'
  <2>1. DeadOK(dead[t], idx2[t], t)'
    BY <1>4, <1>6
  <2>2. Mine(dead, idx, t, DeadMeta(t), e1)
    BY <1>3
  <2>3. \A o : Mine(dead, idx2, t, o, e1)' => o = DroppedBy(t)
    BY <1>13
  <2>4. \A e \in Extents : e # e1 => ref'[e] = ref[e]
    OBVIOUS
  <2> QED
    BY <1>1, <1>11, <1>14, <1>15, <1>16, <2>1, <2>2, <2>3, <2>4, WalkOne
<1> QED
  BY <1>17

LEMMA DeinitLedger ==
  ASSUME SInv, Control, NEW t \in Threads, MiniDeinit(t),
         NEW chain, NEW dead, NEW idx, Ledger(chain, dead, idx)
  PROVE  (\E idx2 : Ledger(chain, dead, idx2)') /\ (AssertionsHold => AssertionsHold')
<1> SUFFICES ASSUME NEW at, at = thread[t].at, NEW next, next = MetaPage(at).next
             PROVE  (\E idx2 : Ledger(chain, dead, idx2)') /\ (AssertionsHold => AssertionsHold')
  BY Zenon
<1>1. /\ session.phase \notin QuietPhase /\ Op(t) = "deinit" /\ ~HasGot(t)
      /\ Walked(t) /\ UNCHANGED <<ref, page>>
      /\ thread'[t].head = thread[t].head /\ thread'[t].entry = thread[t].entry
      /\ thread'[t].at = next
      /\ err' = IF Readable(at) THEN err ELSE err \cup {"mini_deinit"}
      /\ \/ ExtentOf(at) = ExtentOf(next) /\ Op(t)' = "deinit"
         \/ ExtentOf(at) # ExtentOf(next) /\ Op(t)' = "dealloc" /\ thread'[t].extent = ExtentOf(at)
  BY DeinitEffect
<1>2. MetaPage(at) = page[at] /\ Readable(at)
  BY <1>1, WalkReads DEF QuietPhase
<1>3. next = page[at].next
  BY <1>2
<1>4. AssertionsHold => AssertionsHold'
  BY <1>1, <1>2 DEF AssertionsHold
<1>5. CASE ExtentOf(at) = ExtentOf(next) /\ Op(t)' = "deinit"
  BY <1>1, <1>3, <1>4, <1>5, SharesExtent
<1>6. CASE ExtentOf(at) # ExtentOf(next) /\ Op(t)' = "dealloc" /\ thread'[t].extent = ExtentOf(at)
  BY <1>1, <1>3, <1>4, <1>6, LeavesExtent
<1> QED
  BY <1>1, <1>5, <1>6

-----------------------------------------------------------------------------
(* mini_dealloc_extent *)

\* The place of a walk that gives an extent back.
LEMMA SamePlace ==
  ASSUME NEW t \in Threads, NEW c, NEW x, DeadOK(c, x, t), SameDead(c, x, t),
         thread'[t].at = thread[t].at, thread'[t].entry = thread[t].entry, thread'[t].head = thread[t].head,
         Op(t)' = "entries" => thread[t].entry # 0,
         Op(t)' = "deinit" => thread[t].entry = 0 /\ x <= Len(c)
  PROVE  /\ DeadOK(c, x, t)'
         /\ \A o, e : DeadHas(c, x, t, o, e)' <=> DeadHas(c, x, t, o, e)
<1>1. DeadOK(c, x, t)'
  BY DEF DeadOK, SameDead, Linked
<1>2. \A o, e : DeadHas(c, x, t, o, e)' <=> DeadHas(c, x, t, o, e)
  <2>1. thread[t].entry # 0 => \A k \in 1 .. Len(c) : \A i, e : IsEntry(c[k], i, e)' <=> IsEntry(c[k], i, e)
    BY DEF SameDead, IsEntry
  <2>2. CASE thread[t].entry # 0
    BY <2>1, <2>2 DEF DeadHas
  <2>3. CASE thread[t].entry = 0
    BY <2>3 DEF DeadHas
  <2> QED
    BY <2>2, <2>3
<1> QED
  BY <1>1, <1>2

LEMMA FreeingEffect ==
  ASSUME SInv, NEW t \in Threads, Dealloc(t) \/ Discard(t) \/ Free(t), NEW e1, e1 = thread[t].extent
  PROVE  /\ session.phase \notin QuietPhase /\ ~HasGot(t) /\ Walked(t)
         /\ \/ Op(t) = "dealloc" /\ Op(t)' = "discard" /\ SameWork(t) /\ page' = page
               /\ ref' = [ref EXCEPT ![e1] = @ - 1] /\ err' = IF ref'[e1] = 1 THEN err ELSE err \cup {"dealloc"}
            \/ Op(t) = "discard" /\ Op(t)' = "free" /\ SameWork(t)
               /\ page' = [a \in {x \in DOMAIN page : ExtentOf(x) # e1} |-> page[a]]
               /\ UNCHANGED <<ref, err>>
            \/ /\ Op(t) = "free" /\ page' = page
               /\ ref' = [ref EXCEPT ![e1] = @ - 1] /\ err' = IF ref'[e1] = 0 THEN err ELSE err \cup {"free"}
               /\ \/ thread[t].at = 0 /\ Op(t)' = "idle"
                  \/ /\ thread[t].at # 0 /\ SameWork(t)
                     /\ Op(t)' = IF thread[t].entry = 0 THEN "deinit" ELSE "entries"
<1>1. /\ StoreType /\ thread[t].pc \in {"dealloc", "discard", "free"} /\ UNCHANGED <<mini, root, disk, session>>
  BY DEF SInv, Dealloc, Discard, Free, At
<1>2. Op(t) = thread[t].pc /\ ~HasGot(t) /\ session.phase \notin QuietPhase
  BY <1>1, Runs DEF Op, HasGot, SearchPC, ReturnPC
<1>3. CASE Dealloc(t)
  <2>1. /\ Goes(t, [pc |-> "discard"]) /\ page' = page /\ thread[t].pc = "dealloc"
        /\ ref' = [ref EXCEPT ![e1] = @ - 1] /\ err' = IF ref'[e1] = 1 THEN err ELSE err \cup {"dealloc"}
    BY <1>3 DEF Dealloc, Check, At
  <2>2. Others(t) /\ Op(t)' = "discard" /\ ~HasGot(t)' /\ SameWork(t)
    BY <1>1, <2>1, PcEffect DEF ReturnPC
  <2>3. Walked(t)
    BY <1>1, <1>2, <2>1, <2>2 DEF Walked, Walking, Freeing, SameWork
  <2> QED
    BY <1>2, <2>1, <2>2, <2>3
<1>4. CASE Discard(t)
  <2>1. /\ Goes(t, [pc |-> "free"]) /\ thread[t].pc = "discard"
        /\ page' = [a \in {x \in DOMAIN page : ExtentOf(x) # e1} |-> page[a]] /\ UNCHANGED <<ref, err>>
    BY <1>4 DEF Discard, At
  <2>2. Others(t) /\ Op(t)' = "free" /\ ~HasGot(t)' /\ SameWork(t)
    BY <1>1, <2>1, PcEffect DEF ReturnPC
  <2>3. Walked(t)
    BY <1>1, <1>2, <2>1, <2>2 DEF Walked, Walking, Freeing, SameWork
  <2> QED
    BY <1>2, <2>1, <2>2, <2>3
<1>5. CASE Free(t)
  <2>1. /\ page' = page /\ thread[t].pc = "free"
        /\ ref' = [ref EXCEPT ![e1] = @ - 1] /\ err' = IF ref'[e1] = 0 THEN err ELSE err \cup {"free"}
    BY <1>5 DEF Free, Check, At
  <2>2. CASE thread[t].at = 0
    <3>1. Becomes(t)
      BY <1>5, <2>2 DEF Free
    <3>2. Others(t) /\ Op(t)' = "idle" /\ ~HasGot(t)' /\ thread'[t].held = thread[t].held
      BY <1>1, <3>1, BecomesEffect
    <3>3. Walked(t)
      BY <1>1, <1>2, <2>1, <3>2 DEF Walked, Walking, Freeing
    <3> QED
      BY <1>2, <2>1, <2>2, <3>2, <3>3
  <2>3. CASE thread[t].at # 0
    <3> DEFINE p == IF thread[t].entry = 0 THEN "deinit" ELSE "entries"
    <3>1. Goes(t, [pc |-> p])
      BY <1>5, <2>3 DEF Free
    <3>2. p \in {"deinit", "entries"}
      OBVIOUS
    <3>3. Others(t) /\ Op(t)' = p /\ ~HasGot(t)' /\ SameWork(t)
      <4> HIDE DEF p
      <4> QED
        BY <1>1, <3>1, <3>2, PcEffect DEF ReturnPC
    <3>4. Walked(t)
      BY <1>1, <1>2, <2>1, <3>2, <3>3 DEF Walked, Walking, Freeing, SameWork
    <3> QED
      BY <1>2, <2>1, <2>3, <3>3, <3>4
  <2> QED
    BY <2>2, <2>3
<1> QED
  BY <1>3, <1>4, <1>5

\* The extent that a walk gives back holds no tree, and its count is known.
LEMMA FreeingCount ==
  ASSUME NEW t \in Threads, Op(t) \in Freeing, session.phase # "down", NEW e1, e1 = thread[t].extent,
         NEW chain, NEW dead, NEW idx, Ledger(chain, dead, idx)
  PROVE  /\ e1 \in Extents \ {0} /\ Has(chain, dead, idx, DroppedBy(t), e1)
         /\ Mine(dead, idx, t, DroppedBy(t), e1)
         /\ Holds(Address(e1)) = 0 /\ ref[e1] = Base(DroppedBy(t))
         /\ \A o, e : e # e1 /\ Has(chain, dead, idx, o, e) => o # DroppedBy(t)
         /\ \A o : Has(chain, dead, idx, o, e1) => o = DroppedBy(t)
<1>1. e1 \in Extents \ {0} /\ Has(chain, dead, idx, DroppedBy(t), e1)
  BY ThreadClaims
<1>2. Mine(dead, idx, t, DroppedBy(t), e1)
  BY DEF Mine, ThreadHas
<1>3. \A o : Has(chain, dead, idx, o, e1) => o = DroppedBy(t)
  BY <1>1 DEF Ledger, OwnerInv
<1>4. Holds(Address(e1)) = 0
  <2>1. ~Has(chain, dead, idx, Meta(Address(e1)), e1)
    BY <1>3, Tags
  <2> QED
    BY <1>1, <2>1, NoTree DEF Ledger
<1>5. ref[e1] = Base(DroppedBy(t))
  <2>1. ref[e1] = Base(DroppedBy(t)) + Holds(Address(e1))
    BY <1>1 DEF Ledger, CountInv, CountOK
  <2>2. Base(DroppedBy(t)) \in {1, 2}
    BY DEF Base
  <2> QED
    BY <1>4, <2>1, <2>2
<1>6. \A o, e : e # e1 /\ Has(chain, dead, idx, o, e) => o # DroppedBy(t)
  <2>1. WhoHas(chain, dead, idx)
    BY Who
  <2>2. \A e : Has(chain, dead, idx, DroppedBy(t), e) => e = e1
    BY <2>1 DEF WhoHas
  <2> QED
    BY <2>2
<1> QED
  BY <1>1, <1>2, <1>3, <1>4, <1>5, <1>6

LEMMA DeallocLedger ==
  ASSUME SInv, Control, NEW t \in Threads, Dealloc(t),
         NEW chain, NEW dead, NEW idx, Ledger(chain, dead, idx)
  PROVE  Ledger(chain, dead, idx)' /\ (AssertionsHold => AssertionsHold')
<1> SUFFICES ASSUME NEW e1, e1 = thread[t].extent
             PROVE  Ledger(chain, dead, idx)' /\ (AssertionsHold => AssertionsHold')
  BY Zenon
<1>1. /\ session.phase \notin QuietPhase /\ ~HasGot(t) /\ Walked(t)
      /\ Op(t) = "dealloc" /\ Op(t)' = "discard" /\ SameWork(t) /\ page' = page
      /\ ref' = [ref EXCEPT ![e1] = @ - 1] /\ err' = IF ref'[e1] = 1 THEN err ELSE err \cup {"dealloc"}
  <2>1. StoreType /\ thread[t].pc = "dealloc"
    BY DEF SInv, Dealloc, At
  <2>2. Op(t) = "dealloc"
    BY <2>1 DEF Op, SearchPC
  <2> QED
    BY <2>2, FreeingEffect
<1>2. /\ e1 \in Extents \ {0} /\ Has(chain, dead, idx, DroppedBy(t), e1)
      /\ Mine(dead, idx, t, DroppedBy(t), e1)
      /\ Holds(Address(e1)) = 0 /\ ref[e1] = Base(DroppedBy(t))
      /\ \A o, e : e # e1 /\ Has(chain, dead, idx, o, e) => o # DroppedBy(t)
      /\ \A o : Has(chain, dead, idx, o, e1) => o = DroppedBy(t)
  BY <1>1, FreeingCount DEF Freeing, QuietPhase
<1>3. Others(t) /\ ~HasGot(t)' /\ Walks(t) /\ Walks(t)' /\ StoreType
  BY <1>1 DEF Walked, Walks, Walking, Freeing, SInv
<1>4. PagesLeft(t, chain, dead, idx) /\ OnTo(t, idx, idx, idx[t])
  BY <1>1, PagesAll DEF OnTo
<1>5. Base(DroppedBy(t)) = 2 /\ Base(DroppedBy(t))' = 1
  BY <1>1, <1>3, Tags DEF Base, Others, SameView
<1>6. \A o : o # DroppedBy(t) => Base(o)' = Base(o)
  BY <1>3, BaseKept
<1>7. ref'[e1] = 1 /\ \A e \in Extents : e # e1 => ref'[e] = ref[e]
  BY <1>1, <1>2, <1>3, <1>5 DEF StoreType
<1>8. /\ DeadOK(dead[t], idx[t], t)'
      /\ \A o, e : DeadHas(dead[t], idx[t], t, o, e)' <=> DeadHas(dead[t], idx[t], t, o, e)
  <2>1. DeadOK(dead[t], idx[t], t)
    BY <1>3 DEF Ledger, DeadInv
  <2>2. SameDead(dead[t], idx[t], t)
    BY <1>1, <1>3, PagesThere DEF Ledger
  <2> QED
    BY <1>1, <2>1, <2>2, SamePlace DEF SameWork
<1>9. \A o, e : ThreadHas(t, o, e)' <=> ThreadHas(t, o, e)
  BY <1>1, <1>3 DEF ThreadHas, Freeing, Moving, SameWork
<1>10. \A o, e : Mine(dead, idx, t, o, e)' <=> Mine(dead, idx, t, o, e)
  BY <1>3, <1>8, <1>9 DEF Mine
<1>11. \A o : Has(chain, dead, idx, o, e1)' => o = DroppedBy(t)
  <2>1. \A o : Mine(dead, idx, t, o, e1) => o = DroppedBy(t)
    BY <1>1, <1>2, <1>4, WalkHas
  <2>2. \A o : Has(chain, dead, idx, o, e1)' => Mine(dead, idx, t, o, e1)'
    BY <1>1, <1>2, <1>4, WalkHas
  <2> QED
    BY <1>10, <2>1, <2>2
<1>12. CountOK(chain, dead, idx, e1)'
  <2>1. (Holds(Address(e1)))' = 0
    <3>1. \A h : h # 0 => Holds(h)' = Holds(h)
      BY <1>1, <1>4, WalkRest
    <3> QED
      BY <1>2, <3>1, AddressOf, ExtentsNat
  <2>2. Has(chain, dead, idx, DroppedBy(t), e1)'
    BY <1>1, <1>2, <1>4, <1>10, WalkHas
  <2> QED
    BY <1>5, <1>7, <1>11, <2>1, <2>2 DEF CountOK
<1>13. Ledger(chain, dead, idx)'
  <2>1. \A o : Mine(dead, idx, t, o, e1)' => o = DroppedBy(t)
    BY <1>1, <1>2, <1>4, <1>10, WalkHas
  <2>2. \A o, e : e # e1 /\ Has(chain, dead, idx, o, e) => Base(o)' = Base(o)
    BY <1>2, <1>6
  <2>3. Walks(t)' => DeadOK(dead[t], idx[t], t)'
    BY <1>8
  <2>4. \A o, e : e # e1 => (Mine(dead, idx, t, o, e)' <=> Mine(dead, idx, t, o, e))
    BY <1>10
  <2>5. Walked(t) /\ Mine(dead, idx, t, DroppedBy(t), e1) /\ \A e \in Extents : e # e1 => ref'[e] = ref[e]
    BY <1>1, <1>2, <1>7
  <2> QED
    BY <1>4, <1>12, <2>1, <2>2, <2>3, <2>4, <2>5, WalkOne, SMTT(30)
<1> QED
  BY <1>1, <1>7, <1>13 DEF AssertionsHold

LEMMA DiscardLedger ==
  ASSUME SInv, Control, NEW t \in Threads, Discard(t),
         NEW chain, NEW dead, NEW idx, Ledger(chain, dead, idx)
  PROVE  Ledger(chain, dead, idx)' /\ (AssertionsHold => AssertionsHold')
<1> SUFFICES ASSUME NEW e1, e1 = thread[t].extent
             PROVE  Ledger(chain, dead, idx)' /\ (AssertionsHold => AssertionsHold')
  BY Zenon
<1>1. /\ session.phase \notin QuietPhase /\ ~HasGot(t) /\ Walked(t)
      /\ Op(t) = "discard" /\ Op(t)' = "free" /\ SameWork(t)
      /\ page' = [a \in {x \in DOMAIN page : ExtentOf(x) # e1} |-> page[a]]
      /\ UNCHANGED <<ref, err>>
  <2>1. StoreType /\ thread[t].pc = "discard"
    BY DEF SInv, Discard, At
  <2>2. Op(t) = "discard"
    BY <2>1 DEF Op, SearchPC
  <2> QED
    BY <2>2, FreeingEffect
<1>2. /\ e1 \in Extents \ {0} /\ Has(chain, dead, idx, DroppedBy(t), e1)
      /\ Mine(dead, idx, t, DroppedBy(t), e1)
      /\ Holds(Address(e1)) = 0 /\ ref[e1] = Base(DroppedBy(t))
      /\ \A o, e : e # e1 /\ Has(chain, dead, idx, o, e) => o # DroppedBy(t)
  BY <1>1, FreeingCount DEF Freeing, QuietPhase
<1>3. Others(t) /\ ~HasGot(t)' /\ Walks(t) /\ Walks(t)' /\ StoreType
  BY <1>1 DEF Walked, Walks, Walking, Freeing, SInv
<1>4. TreeInv(chain) /\ DeadInv(dead, idx) /\ OwnerInv(chain, dead, idx)
  BY DEF Ledger
<1>5. /\ \A h : Named(h) => SamePages(chain[h])
      /\ \A u \in Threads : Walks(u) => SameDead(dead[u], idx[u], u)
  <2>1. PICK E : Only(E, e1)
    BY SingleExtent, Zenon
  <2>2. OffExtents(E)
    BY <1>1, <2>1 DEF OffExtents, Only
  <2>3. /\ \A h : Foreign(E, chain, dead, idx, Meta(h))
        /\ \A u \in Threads : Foreign(E, chain, dead, idx, DeadMeta(u))
    BY <1>2, <2>1, Tags DEF Foreign, Only
  <2> QED
    BY <1>4, <2>2, <2>3, OthersPages
<1>6. PagesLeft(t, chain, dead, idx) /\ OnTo(t, idx, idx, idx[t])
  BY <1>5 DEF OnTo, PagesLeft
<1>7. \A o : Base(o)' = Base(o)
  BY <1>1, <1>3, BaseKept
<1>8. /\ DeadOK(dead[t], idx[t], t)'
      /\ \A o, e : DeadHas(dead[t], idx[t], t, o, e)' <=> DeadHas(dead[t], idx[t], t, o, e)
  <2>1. DeadOK(dead[t], idx[t], t) /\ SameDead(dead[t], idx[t], t)
    BY <1>3, <1>4, <1>5 DEF DeadInv
  <2> QED
    BY <1>1, <2>1, SamePlace DEF SameWork
<1>9. \A o, e : ThreadHas(t, o, e)' <=> ThreadHas(t, o, e)
  BY <1>1, <1>3 DEF ThreadHas, Freeing, Moving, SameWork
<1>10. \A o, e : Mine(dead, idx, t, o, e)' <=> Mine(dead, idx, t, o, e)
  BY <1>3, <1>8, <1>9 DEF Mine
<1>11. CountOK(chain, dead, idx, e1)'
  <2>1. (Holds(Address(e1)))' = 0
    <3>1. \A h : h # 0 => Holds(h)' = Holds(h)
      BY <1>1, <1>6, WalkRest
    <3> QED
      BY <1>2, <3>1, AddressOf, ExtentsNat
  <2>2. \A o : Has(chain, dead, idx, o, e1)' <=> o = DroppedBy(t)
    BY <1>1, <1>2, <1>6, <1>10, WalkHas
  <2>3. ref'[e1] = Base(DroppedBy(t))' /\ Base(DroppedBy(t)) \in {1, 2}
    BY <1>1, <1>2, <1>7 DEF Base
  <2> QED
    BY <1>7, <2>1, <2>2, <2>3 DEF CountOK
<1>12. Ledger(chain, dead, idx)'
  <2>1. \A o : Mine(dead, idx, t, o, e1)' => o = DroppedBy(t)
    BY <1>1, <1>2, <1>6, <1>10, WalkHas
  <2>2. \A o, e : e # e1 /\ Has(chain, dead, idx, o, e) => Base(o)' = Base(o)
    BY <1>7
  <2>3. Walks(t)' => DeadOK(dead[t], idx[t], t)'
    BY <1>8
  <2>4. \A o, e : e # e1 => (Mine(dead, idx, t, o, e)' <=> Mine(dead, idx, t, o, e))
    BY <1>10
  <2>5. \A e \in Extents : e # e1 => ref'[e] = ref[e]
    BY <1>1
  <2> QED
    BY <1>1, <1>2, <1>6, <1>11, <2>1, <2>2, <2>3, <2>4, <2>5, WalkOne
<1> QED
  BY <1>1, <1>12 DEF AssertionsHold

LEMMA FreeLedger ==
  ASSUME SInv, Control, NEW t \in Threads, Free(t),
         NEW chain, NEW dead, NEW idx, Ledger(chain, dead, idx)
  PROVE  Ledger(chain, dead, idx)' /\ (AssertionsHold => AssertionsHold')
<1> SUFFICES ASSUME NEW e1, e1 = thread[t].extent, NEW c, c = dead[t], NEW x, x = idx[t]
             PROVE  Ledger(chain, dead, idx)' /\ (AssertionsHold => AssertionsHold')
  BY Zenon
<1>1. /\ session.phase \notin QuietPhase /\ ~HasGot(t) /\ Walked(t)
      /\ Op(t) = "free" /\ page' = page
      /\ ref' = [ref EXCEPT ![e1] = @ - 1] /\ err' = IF ref'[e1] = 0 THEN err ELSE err \cup {"free"}
      /\ \/ thread[t].at = 0 /\ Op(t)' = "idle"
         \/ /\ thread[t].at # 0 /\ SameWork(t)
            /\ Op(t)' = IF thread[t].entry = 0 THEN "deinit" ELSE "entries"
  <2>1. StoreType /\ thread[t].pc = "free"
    BY DEF SInv, Free, At
  <2>2. Op(t) = "free"
    BY <2>1 DEF Op, SearchPC
  <2> QED
    BY <2>2, FreeingEffect
<1>2. /\ e1 \in Extents \ {0} /\ Has(chain, dead, idx, DroppedBy(t), e1)
      /\ Mine(dead, idx, t, DroppedBy(t), e1)
      /\ Holds(Address(e1)) = 0 /\ ref[e1] = Base(DroppedBy(t))
      /\ \A o, e : e # e1 /\ Has(chain, dead, idx, o, e) => o # DroppedBy(t)
      /\ \A o : Has(chain, dead, idx, o, e1) => o = DroppedBy(t)
  BY <1>1, FreeingCount DEF Freeing, QuietPhase
<1>3. Others(t) /\ ~HasGot(t)' /\ Walks(t) /\ StoreType /\ c = dead[t] /\ x = idx[t]
  BY <1>1 DEF Walked, Walks, Walking, Freeing, SInv
<1>4. PagesLeft(t, chain, dead, idx) /\ OnTo(t, idx, idx, x)
  BY <1>1, PagesAll DEF OnTo
<1>5. Base(DroppedBy(t)) = 1
  BY <1>1 DEF Base
<1>6. \A o : o # DroppedBy(t) => Base(o)' = Base(o)
  BY <1>3, BaseKept
<1>7. ref'[e1] = 0 /\ \A e \in Extents : e # e1 => ref'[e] = ref[e]
  BY <1>1, <1>2, <1>3, <1>5 DEF StoreType
<1>8. DeadOK(c, x, t) /\ SameDead(c, x, t)
  <2>1. DeadInv(dead, idx) /\ TreeInv(chain)
    BY DEF Ledger
  <2> QED
    BY <1>1, <1>3, <2>1, PagesThere DEF DeadInv
<1>9. \A o, e : /\ ~ThreadHas(t, o, e)'
                /\ ThreadHas(t, o, e) <=> o = DroppedBy(t) /\ e = e1
  BY <1>1, <1>3 DEF ThreadHas, Freeing, Moving
<1>10. /\ Walks(t)' => DeadOK(c, x, t)'
       /\ \A o, e : (Walks(t) /\ DeadHas(c, x, t, o, e))' <=> DeadHas(c, x, t, o, e)
  <2>1. CASE thread[t].at = 0 /\ Op(t)' = "idle"
    <3>1. ~Walks(t)'
      BY <2>1 DEF Walks, Walking, Freeing
    <3>2. Len(c) \in Nat /\ x \in 1 .. Len(c) + 1 /\ ~(x <= Len(c)) /\ thread[t].entry = 0
      <4>1. IsChain(c) /\ x \in 1 .. Len(c) + 1
        BY <1>8 DEF DeadOK
      <4>2. Len(c) \in Nat
        BY <4>1 DEF IsChain
      <4>3. x <= Len(c) => x \in 1 .. Len(c) /\ c[x] # 0 /\ thread[t].at = c[x]
        BY <1>8, <4>1, <4>2 DEF IsChain, DeadOK
      <4>4. thread[t].entry # 0 => x <= Len(c)
        BY <1>8 DEF DeadOK
      <4> QED
        BY <2>1, <4>1, <4>2, <4>3, <4>4
    <3>3. \A o, e : ~DeadHas(c, x, t, o, e)
      BY <3>2 DEF DeadHas
    <3> QED
      BY <3>1, <3>3
  <2>2. CASE /\ thread[t].at # 0 /\ SameWork(t)
             /\ Op(t)' = IF thread[t].entry = 0 THEN "deinit" ELSE "entries"
    <3>1. x <= Len(c)
      BY <1>8, <2>2 DEF DeadOK
    <3>2. DeadOK(c, x, t)' /\ \A o, e : DeadHas(c, x, t, o, e)' <=> DeadHas(c, x, t, o, e)
      BY <1>8, <2>2, <3>1, SamePlace DEF SameWork
    <3>3. Walks(t)'
      BY <2>2 DEF Walks, Walking
    <3> QED
      BY <3>2, <3>3
  <2> QED
    BY <1>1, <2>1, <2>2
<1>11. \A o, e : /\ Mine(dead, idx, t, o, e) <=> DeadHas(c, x, t, o, e) \/ (o = DroppedBy(t) /\ e = e1)
                 /\ Mine(dead, idx, t, o, e)' <=> DeadHas(c, x, t, o, e)
  BY <1>3, <1>9, <1>10 DEF Mine
<1>12. \A o : ~Mine(dead, idx, t, o, e1)'
  <2>1. \A o : Mine(dead, idx, t, o, e1) => o = DroppedBy(t)
    BY <1>1, <1>2, <1>4, WalkHas
  <2>2. \A o : DeadHas(c, x, t, o, e1) => o # DroppedBy(t)
    BY Tags DEF DeadHas
  <2> QED
    BY <1>11, <2>1, <2>2
<1>13. CountOK(chain, dead, idx, e1)'
  <2>1. \A o : ~Has(chain, dead, idx, o, e1)'
    BY <1>1, <1>2, <1>4, <1>12, WalkHas
  <2> QED
    BY <1>7, <2>1 DEF CountOK
<1>14. Ledger(chain, dead, idx)'
  <2>1. \A o : Mine(dead, idx, t, o, e1)' => o = DroppedBy(t)
    BY <1>12
  <2>2. \A o, e : e # e1 /\ Has(chain, dead, idx, o, e) => Base(o)' = Base(o)
    BY <1>2, <1>6
  <2>3. Walks(t)' => DeadOK(dead[t], idx[t], t)'
    BY <1>3, <1>10
  <2>4. \A o, e : e # e1 => (Mine(dead, idx, t, o, e)' <=> Mine(dead, idx, t, o, e))
    BY <1>11, Zenon
  <2>5. Walked(t) /\ Mine(dead, idx, t, DroppedBy(t), e1) /\ \A e \in Extents : e # e1 => ref'[e] = ref[e]
    BY <1>1, <1>2, <1>7
  <2> QED
    BY <1>4, <1>13, <2>1, <2>2, <2>3, <2>4, <2>5, WalkOne
<1> QED
  BY <1>1, <1>7, <1>14 DEF AssertionsHold

-----------------------------------------------------------------------------
(* Between sessions no thread runs, and there is no mini allocator. *)

Still == mini = NoMini /\ \A t \in Threads : thread[t] = Idle

StillFacts ==
  /\ \A t \in Threads : ~Walks(t) /\ Op(t) = "idle" /\ ~HasGot(t) /\ thread[t].held = 0
  /\ MiniHead = 0 /\ mini.state = "none"
  /\ \A o, e : ~ByThread(o, e) /\ ~ByBatch(o, e)
  /\ \A dead, idx, o, e : ~ByDead(dead, idx, o, e)
  /\ \A o : Base(o) = 2
  /\ \A h : h # 0 =>
       Holds(h) = One(root = h) + One(disk.super.root = h)
                + One(session.phase = "sync" /\ root = h) + One(session.phase = "dec_old" /\ session.old = h)

LEMMA StillIs == Still => StillFacts
<1> SUFFICES ASSUME Still
             PROVE  StillFacts
  OBVIOUS
<1>1. \A t \in Threads : thread[t] = Idle
  BY DEF Still
<1>2. \A t \in Threads : Op(t) = "idle" /\ ~HasGot(t) /\ thread[t].held = 0
  BY <1>1 DEF Op, HasGot, SearchPC, ReturnPC, Idle
<1>3. \A t \in Threads : ~Walks(t)
  BY <1>2 DEF Walks, Walking, Freeing
<1>4. MiniHead = 0 /\ mini.state = "none"
  BY DEF Still, NoMini, MiniHead
<1>5. \A o, e : ~ByThread(o, e)
  BY <1>2 DEF ByThread, ThreadHas, Moving, Freeing
<1>6. \A o, e : ~ByBatch(o, e)
  BY <1>4 DEF ByBatch, HasAhead
<1>7. \A dead, idx, o, e : ~ByDead(dead, idx, o, e)
  BY <1>3 DEF ByDead
<1>8. \A o : Base(o) = 2
  BY <1>2 DEF Base
<1>9. ASSUME NEW h, h # 0
      PROVE  Holds(h) = One(root = h) + One(disk.super.root = h)
                      + One(session.phase = "sync" /\ root = h) + One(session.phase = "dec_old" /\ session.old = h)
  <2>1. Users(h) = {} /\ Droppers(h) = {}
    BY <1>2, <1>9 DEF Users, Droppers
  <2>2. Cardinality(Users(h)) = 0 /\ Cardinality(Droppers(h)) = 0
    BY <2>1, FS_EmptySet
  <2>3. One(MiniHead = h) = 0
    BY <1>4, <1>9 DEF One
  <2> QED
    BY <2>2, <2>3 DEF Holds, One
<1> QED
  BY <1>2, <1>3, <1>4, <1>5, <1>6, <1>7, <1>8, <1>9 DEF StillFacts

LEMMA StillNext == (Still => StillFacts)'
BY StillIs, PTL

\* Such a step leaves all claims.
LEMMA StillKept ==
  ASSUME Still, Still', page' = page, NEW chain, NEW dead, NEW idx, Ledger(chain, dead, idx),
         \A h : Named(h)' <=> Named(h)
  PROVE  /\ TreeInv(chain)' /\ DeadInv(dead, idx)' /\ OwnerInv(chain, dead, idx)'
         /\ MiniTreeInv(chain)' /\ GivenInv(chain)'
         /\ \A o, e : Has(chain, dead, idx, o, e)' <=> Has(chain, dead, idx, o, e)
         /\ \A c, e : InTree(c, e)' <=> InTree(c, e)
<1>1. StillFacts /\ StillFacts'
  BY StillIs, StillNext
<1>2. Steady
  <2>1. \A u \in Threads : ~Walks(u) /\ ~Walks(u)'
    BY <1>1 DEF StillFacts
  <2>2. \A o, e : ~ByThread(o, e) /\ ~ByBatch(o, e) /\ ~ByThread(o, e)' /\ ~ByBatch(o, e)'
    BY <1>1 DEF StillFacts
  <2> QED
    BY <2>1, <2>2 DEF Steady
<1>3. /\ TreeInv(chain)' /\ DeadInv(dead, idx)' /\ OwnerInv(chain, dead, idx)'
      /\ \A o, e : Has(chain, dead, idx, o, e)' <=> Has(chain, dead, idx, o, e)
  BY <1>2, SteadyKept
<1>4. MiniTreeInv(chain)' /\ GivenInv(chain)'
  BY <1>1 DEF StillFacts, MiniTreeInv, GivenInv
<1>5. \A c, e : InTree(c, e)' <=> InTree(c, e)
  BY DEF InTree, InData, IsEntry
<1> QED
  BY <1>3, <1>4, <1>5

\* What the claims are to.
LEMMA StillHas ==
  ASSUME Still, NEW chain, NEW dead, NEW idx, NEW s, s = disk.super.root, root \in {0, s},
         session.phase \notin {"sync", "dec_old"}
  PROVE  \A e : /\ (\E o : Has(chain, dead, idx, o, e)) <=> s # 0 /\ InTree(chain[s], e)
                /\ \A h : h # 0 => Holds(h) = One(root = h) + One(s = h)
<1>1. StillFacts
  BY StillIs
<1>2. \A h : h # 0 => Holds(h) = One(root = h) + One(s = h)
  BY <1>1 DEF StillFacts, One
<1>3. \A h : Named(h) <=> h # 0 /\ h = s
  BY <1>2 DEF Named, One
<1>4. \A o, e : Has(chain, dead, idx, o, e) <=> s # 0 /\ TreeHas(chain[s], s, o, e)
  BY <1>1, <1>3 DEF StillFacts, Has, ByTree
<1>5. \A e : (\E o : TreeHas(chain[s], s, o, e)) <=> InTree(chain[s], e)
  <2>1. ASSUME NEW e, NEW o, TreeHas(chain[s], s, o, e)
        PROVE  InTree(chain[s], e)
    BY <2>1 DEF TreeHas, InTree, InData
  <2>2. ASSUME NEW e, InTree(chain[s], e)
        PROVE  \E o : TreeHas(chain[s], s, o, e)
    <3>1. CASE \E k \in 1 .. Len(chain[s]) : ExtentOf(chain[s][k]) = e
      <4>1. TreeHas(chain[s], s, Meta(s), e)
        BY <3>1 DEF TreeHas
      <4> QED
        BY <4>1
    <3>2. CASE \E k \in 1 .. Len(chain[s]) : \E i : IsEntry(chain[s][k], i, e)
      <4>1. PICK k \in 1 .. Len(chain[s]) : \E i : IsEntry(chain[s][k], i, e)
        BY <3>2
      <4>2. PICK i : IsEntry(chain[s][k], i, e)
        BY <4>1
      <4>3. TreeHas(chain[s], s, Data(s, k, i), e)
        BY <4>1, <4>2 DEF TreeHas
      <4> QED
        BY <4>3
    <3> QED
      BY <2>2, <3>1, <3>2 DEF InTree, InData
  <2> QED
    BY <2>1, <2>2
<1> QED
  BY <1>2, <1>4, <1>5

LEMMA QuietIsStill ==
  ASSUME SInv, Control, session.phase \in QuietPhase
  PROVE  Still
<1>1. \A t \in Threads : thread[t] = Idle
  BY DEF SInv, PhaseInv, QuietPhase
<1>2. mini.state = "none"
  BY DEF Control, MiniInv, QuietPhase
<1>3. mini = NoMini
  BY <1>2 DEF Control, MiniOK
<1> QED
  BY <1>1, <1>3 DEF Still

\* The pages of a tree that is in use can be written to disk.
LEMMA FlushTree ==
  ASSUME NEW c, NEW h, TreeOK(c, h), disk'.page = page, page' = page
  PROVE  Flushed(c)'
  BY DEF TreeOK, Linked, Flushed

LEMMA SessionFields ==
  ASSUME StoreType
  PROVE  DOMAIN session = {"phase", "unmount", "old", "exposed", "crashes"}
         /\ DOMAIN disk = {"super", "ref", "saved", "page"}
  BY DEF StoreType

LEMMA ShutdownLedger ==
  ASSUME SInv, Control, Shutdown, NEW chain, NEW dead, NEW idx, Ledger(chain, dead, idx)
  PROVE  Ledger(chain, dead, idx)'
<1>1. /\ Still /\ session.phase = "up" /\ StoreType
      /\ session' = [session EXCEPT !.phase = "set_super", !.unmount = TRUE]
      /\ disk' = [disk EXCEPT !.page = page]
      /\ UNCHANGED <<ref, page, mini, root, thread>>
  BY DEF Shutdown, Quiet, Still, SInv
<1>2. /\ session'.phase = "set_super" /\ session'.crashes = session.crashes /\ session'.old = session.old
      /\ session'.unmount = TRUE
      /\ disk'.page = page /\ disk'.super = disk.super /\ disk'.ref = disk.ref /\ disk'.saved = disk.saved
  BY <1>1, SessionFields
<1>3. Still'
  BY <1>1 DEF Still
<1>4. StillFacts /\ StillFacts'
  BY <1>1, <1>3, StillIs, StillNext
<1>5. \A h : h # 0 => Holds(h)' = Holds(h)
  BY <1>1, <1>2, <1>4 DEF StillFacts, One
<1>6. \A h : Named(h)' <=> Named(h)
  BY <1>5, SameNames
<1>7. /\ TreeInv(chain)' /\ DeadInv(dead, idx)' /\ OwnerInv(chain, dead, idx)'
      /\ MiniTreeInv(chain)' /\ GivenInv(chain)'
      /\ \A c, e : InTree(c, e)' <=> InTree(c, e)
  BY <1>1, <1>3, <1>6, StillKept
<1>8. CountInv(chain, dead, idx)'
  <2>1. Steady
    BY <1>1, <1>4, <1>6 DEF Steady, StillFacts
  <2>2. Counted
    BY <1>1, <1>2, <1>5, NoneCounted
  <2>3. StoreType'
    BY SessionKeeps DEF SInv
  <2> QED
    BY <1>1, <2>1, <2>2, <2>3, CountedKept
<1>9. DiskInv(chain)'
  <2>1. disk.super.root # 0 => Flushed(chain[disk.super.root])'
    <3>1. ASSUME disk.super.root # 0
          PROVE  TreeOK(chain[disk.super.root], disk.super.root)
      BY <3>1, NamedBy DEF Ledger, TreeInv
    <3> QED
      BY <1>1, <1>2, <3>1, FlushTree
  <2>2. root # 0 => Flushed(chain[root])'
    <3>1. ASSUME root # 0
          PROVE  TreeOK(chain[root], root)
      BY <3>1, NamedBy DEF Ledger, TreeInv
    <3> QED
      BY <1>1, <1>2, <3>1, FlushTree
  <2>3. ~CountsBehind' => ~CountsBehind
    BY <1>1, <1>2 DEF CountsBehind
  <2>4. \A e : SavedOK(chain, e) => SavedOK(chain, e)'
    <3>1. MayLose' <=> MayLose
      BY <1>1, <1>2 DEF MayLose, One
    <3> QED
      BY <1>2, <1>7, <3>1 DEF SavedOK
  <2> QED
    BY <1>1, <1>2, <2>1, <2>2, <2>3, <2>4 DEF DiskInv, Ledger
<1> QED
  BY <1>7, <1>8, <1>9 DEF Ledger

LEMMA SetSuperLedger ==
  ASSUME SInv, SInv', Control, SetSuperBlock, NEW chain, NEW dead, NEW idx, Ledger(chain, dead, idx)
  PROVE  Ledger(chain, dead, idx)'
<1>1. /\ session.phase = "set_super" /\ StoreType /\ StoreType'
      /\ ref' = IncRoot
      /\ session' = [session EXCEPT !.phase = "sync", !.old = disk.super.root]
      /\ UNCHANGED <<page, mini, root, thread, disk>>
  BY DEF SetSuperBlock, SInv
<1>2. /\ session'.phase = "sync" /\ session'.crashes = session.crashes /\ session'.unmount = session.unmount
  BY <1>1, SessionFields
<1>3. Still /\ Still'
  <2>1. Still
    BY <1>1, QuietIsStill DEF QuietPhase
  <2> QED
    BY <1>1, <2>1 DEF Still
<1>4. StillFacts /\ StillFacts'
  BY <1>3, StillIs, StillNext
<1>5. \A h : h # 0 => Holds(h)' = Holds(h) + (IF h = root THEN 1 ELSE 0)
  BY <1>1, <1>2, <1>4 DEF StillFacts, One
<1>6. \A h : Named(h)' <=> Named(h)
  <2>1. ASSUME NEW h, h # 0
        PROVE  Holds(h)' > 0 <=> Holds(h) > 0
    <3>1. Holds(h) \in Nat /\ Holds(h)' = Holds(h) + (IF h = root THEN 1 ELSE 0)
      BY <1>5, <2>1, HoldsCounted
    <3>2. h = root => Holds(h) > 0
      BY <2>1, NamedBy DEF Named
    <3> QED
      BY <3>1, <3>2
  <2> QED
    BY <2>1 DEF Named
<1>7. /\ TreeInv(chain)' /\ DeadInv(dead, idx)' /\ OwnerInv(chain, dead, idx)'
      /\ MiniTreeInv(chain)' /\ GivenInv(chain)'
      /\ \A c, e : InTree(c, e)' <=> InTree(c, e)
  BY <1>1, <1>3, <1>6, StillKept
<1>8. CountInv(chain, dead, idx)'
  <2>1. Steady
    BY <1>1, <1>4, <1>6 DEF Steady, StillFacts
  <2>2. CASE root = 0
    <3>1. ref' = ref /\ \A h : h # 0 => Holds(h)' = Holds(h)
      <4>1. \A h : h # 0 => Holds(h) \in Nat /\ h # root
        BY <2>2, HoldsCounted
      <4> QED
        BY <1>1, <1>5, <2>2, <4>1 DEF IncRoot
    <3>2. Counted
      BY <1>1, <1>2, <3>1, NoneCounted
    <3> QED
      BY <1>1, <2>1, <3>2, CountedKept
  <2>3. CASE root # 0
    <3>1. ref' = [ref EXCEPT ![ExtentOf(root)] = @ + 1] /\ Named(root)
      BY <1>1, <2>3, NamedBy DEF IncRoot
    <3>2. Counted
      <4>1. 1 \in Int
        OBVIOUS
      <4>2. session'.crashes = session.crashes /\ (session'.phase # "down" => session.phase # "down") /\ StoreType
        BY <1>1, <1>2
      <4> QED
        BY <1>5, <3>1, <4>1, <4>2, OneCounted
    <3> QED
      BY <1>1, <2>1, <3>2, CountedKept
  <2> QED
    BY <2>2, <2>3
<1>9. DiskInv(chain)'
  <2>1. \A c : Flushed(c)' <=> Flushed(c)
    BY <1>1 DEF Flushed
  <2>2. ~CountsBehind' => ~CountsBehind
    BY <1>1, <1>2 DEF CountsBehind
  <2>3. \A e : SavedOK(chain, e) => SavedOK(chain, e)'
    <3>1. MayLose' <=> MayLose
      BY <1>1, <1>2 DEF MayLose, One
    <3> QED
      BY <1>1, <1>7, <3>1 DEF SavedOK
  <2> QED
    BY <1>1, <1>2, <2>1, <2>2, <2>3 DEF DiskInv, Ledger
<1> QED
  BY <1>7, <1>8, <1>9 DEF Ledger

\* The super block names the root, which all of the last session can be read from.
LEMMA SyncSuperLedger ==
  ASSUME SInv, SInv', Control, SyncSuperBlock, NEW chain, NEW dead, NEW idx, Ledger(chain, dead, idx)
  PROVE  Ledger(chain, dead, idx)'
<1>1. /\ session.phase = "sync" /\ StoreType /\ StoreType'
      /\ disk' = [disk EXCEPT !.super = [root |-> root, unmounted |-> session.unmount]]
      /\ session' = [session EXCEPT !.phase = "dec_old"]
      /\ UNCHANGED <<ref, page, mini, root, thread>>
  BY DEF SyncSuperBlock, SInv, Phase
<1>2. /\ session'.phase = "dec_old" /\ session'.crashes = session.crashes /\ session'.unmount = session.unmount
      /\ session'.old = session.old
      /\ disk'.page = disk.page /\ disk'.ref = disk.ref /\ disk'.saved = disk.saved
      /\ disk'.super.root = root /\ disk'.super.unmounted = session.unmount
  BY <1>1, SessionFields
<1>3. Still /\ Still'
  <2>1. Still
    BY <1>1, QuietIsStill DEF QuietPhase
  <2> QED
    BY <1>1, <2>1 DEF Still
<1>4. StillFacts /\ StillFacts'
  BY <1>3, StillIs, StillNext
<1>5. session.old = disk.super.root
  BY <1>1 DEF Control, PhaseFacts
<1>6. \A h : h # 0 => Holds(h)' = Holds(h)
  BY <1>1, <1>2, <1>4, <1>5 DEF StillFacts, One
<1>7. \A h : Named(h)' <=> Named(h)
  BY <1>6, SameNames
<1>8. /\ TreeInv(chain)' /\ DeadInv(dead, idx)' /\ OwnerInv(chain, dead, idx)'
      /\ MiniTreeInv(chain)' /\ GivenInv(chain)'
      /\ \A c, e : InTree(c, e)' <=> InTree(c, e)
  BY <1>1, <1>3, <1>7, StillKept
<1>9. CountInv(chain, dead, idx)'
  <2>1. Steady
    BY <1>1, <1>4, <1>7 DEF Steady, StillFacts
  <2>2. Counted
    BY <1>1, <1>2, <1>6, NoneCounted
  <2> QED
    BY <1>1, <2>1, <2>2, CountedKept
<1>10. DiskInv(chain)'
  <2>1. \A c : Flushed(c)' <=> Flushed(c)
    BY <1>1, <1>2 DEF Flushed
  <2>2. (disk.super.root # 0 => Flushed(chain[disk.super.root]))'
    <3>1. SUFFICES ASSUME NEW r, r = root, r # 0
                   PROVE  Flushed(chain[r])'
      BY <1>2
    <3>2. Flushed(chain[r])
      BY <1>1, <3>1 DEF Ledger, DiskInv
    <3> QED
      BY <2>1, <3>2
  <2>3. ASSUME ~CountsBehind', NEW e \in Extents
        PROVE  SavedOK(chain, e)'
    <3>1. /\ ~session.unmount /\ disk.saved /\ ~CountsBehind
      BY <1>1, <1>2, <2>3 DEF CountsBehind, Control, PhaseFacts
    <3>2. SavedOK(chain, e)
      BY <3>1 DEF Ledger, DiskInv
    <3>3. /\ root \in {0, disk.super.root} /\ session.crashes \in Nat
          /\ root = 0 /\ disk.super.root # 0 => session.crashes > 0
      BY <1>1, <3>1 DEF Control, PhaseFacts
    <3>4. MayLose' <=> MayLose
      BY <1>1, <1>2 DEF MayLose, One
    <3>5. CASE root = disk.super.root
      BY <1>2, <1>8, <3>2, <3>4, <3>5 DEF SavedOK
    <3>6. CASE root = 0 /\ disk.super.root # 0
      <4>1. MayLose'
        BY <1>1, <3>3, <3>4, <3>6 DEF MayLose, One
      <4>2. disk.ref[e] \in {0, 2, 3} \/ disk.ref[e] > 0
        BY <3>2 DEF SavedOK, One
      <4>3. e = 0 => disk.ref[e] = 2
        BY <3>2 DEF SavedOK, One
      <4>4. e # 0 => disk.ref[e] = 0 \/ disk.ref[e] > 0
        BY <4>2
      <4> QED
        BY <1>2, <3>6, <4>1, <4>3, <4>4 DEF SavedOK, One
    <3> QED
      BY <3>3, <3>5, <3>6
  <2> QED
    BY <1>2, <2>2, <2>3 DEF DiskInv
<1> QED
  BY <1>8, <1>9, <1>10 DEF Ledger

-----------------------------------------------------------------------------
(* The end of a session: the references to the old root and to the root. *)

LEMMA DropEffect ==
  ASSUME SInv, NEW t \in Threads, NEW head, NEW next, DropTree(t, head, next), mini' = mini
  PROVE  /\ Still /\ Others(t) /\ ~HasGot(t)' /\ thread'[t].held = 0 /\ session'.phase = next
         /\ session'.crashes = session.crashes /\ session'.unmount = session.unmount
         /\ session'.old = session.old /\ session'.exposed = session.exposed
         /\ \/ head = 0 /\ Op(t)' = "idle" /\ thread' = thread
            \/ head # 0 /\ Op(t)' = "dec_ref" /\ thread'[t].head = head
<1>1. StoreType /\ Still /\ session' = [session EXCEPT !.phase = next]
  BY DEF SInv, DropTree, Quiet, Still, Phase
<1>2. /\ session'.phase = next /\ session'.crashes = session.crashes /\ session'.unmount = session.unmount
      /\ session'.old = session.old /\ session'.exposed = session.exposed
  BY <1>1, SessionFields
<1>3. StillFacts
  BY <1>1, StillIs
<1>4. CASE head = 0
  <2>1. thread' = thread
    BY <1>4 DEF DropTree
  <2>2. Others(t)
    BY <2>1, OthersView
  <2>3. Op(t)' = "idle" /\ ~HasGot(t)' /\ thread'[t].held = 0
    BY <1>3, <2>1 DEF StillFacts, Op, HasGot
  <2> QED
    BY <1>1, <1>2, <1>4, <2>1, <2>2, <2>3
<1>5. CASE head # 0
  <2> DEFINE f == [pc |-> "dec_ref", head |-> head]
  <2>1. Goes(t, f) /\ DOMAIN f = {"pc", "head"} /\ f["pc"] = "dec_ref" /\ f["head"] = head
    BY <1>5 DEF DropTree
  <2> HIDE DEF f
  <2>2. /\ \A u \in Threads : u # t => thread'[u] = thread[u]
        /\ thread'[t].pc = "dec_ref" /\ thread'[t].held = thread[t].held /\ thread'[t].head = head
    BY <1>1, <2>1, StepFields DEF Set
  <2>3. Others(t) /\ ~HasGot(t)' /\ Op(t)' = "dec_ref"
    BY <2>2, OthersView DEF Op, HasGot, SearchPC, ReturnPC
  <2>4. thread'[t].held = 0
    BY <1>3, <2>2 DEF StillFacts
  <2> QED
    BY <1>1, <1>2, <1>5, <2>2, <2>3, <2>4
<1> QED
  BY <1>4, <1>5

\* The reference of the context, or of the super block, becomes that of the
\* thread that drops it.
LEMMA DropLedger ==
  ASSUME SInv, SInv', Control, NEW t \in Threads, DecOldRoot(t) \/ ContextDeinit(t),
         NEW chain, NEW dead, NEW idx, Ledger(chain, dead, idx)
  PROVE  Ledger(chain, dead, idx)'
<1>1. PICK head, next :
        /\ DropTree(t, head, next) /\ UNCHANGED <<ref, page, mini, disk>>
        /\ \/ /\ session.phase = "dec_old" /\ head = session.old /\ root' = root
              /\ next = IF session.unmount THEN "deinit" ELSE "up"
           \/ session.phase = "deinit" /\ head = root /\ root' = 0 /\ next = "persist"
  BY DEF DecOldRoot, ContextDeinit
<1>2. /\ Still /\ Others(t) /\ ~HasGot(t)' /\ thread'[t].held = 0 /\ session'.phase = next
      /\ session'.crashes = session.crashes /\ session'.unmount = session.unmount
      /\ \/ head = 0 /\ Op(t)' = "idle"
         \/ head # 0 /\ Op(t)' = "dec_ref" /\ thread'[t].head = head
  BY <1>1, DropEffect
<1>3. StillFacts /\ StoreType /\ StoreType' /\ mini'.state = "none" /\ mini.state = "none"
  BY <1>1, <1>2, StillIs DEF SInv, StillFacts
<1>4. Op(t)' \in {"idle", "dec_ref"} /\ next \in {"deinit", "up", "persist"}
  BY <1>1, <1>2
<1>5. \A h : h # 0 => Holds(h)' = Holds(h)
  <2>1. ASSUME NEW h, h # 0
        PROVE  Holds(h)' = Holds(h)
    <3>1. Share(t, h) = 0
      BY <1>3, <2>1 DEF Share, One, StillFacts
    <3>2. Share(t, h)' = One(head = h)
      BY <1>2, <2>1 DEF Share, One
    <3>3. Rest(h)' + One(head = h) = Rest(h)
      BY <1>1, <1>2, <1>3, <2>1 DEF Rest, One, MiniHead
    <3>4. /\ Holds(h)' - (Rest(h)' + Share(t, h)') = Holds(h) - (Rest(h) + Share(t, h))
          /\ Holds(h) \in Nat /\ Holds(h)' \in Nat
          /\ Rest(h) \in Nat /\ Rest(h)' \in Nat /\ Share(t, h) \in Nat /\ Share(t, h)' \in Nat
      BY <1>2, HoldsStep
    <3> QED
      BY <3>1, <3>2, <3>3, <3>4
  <2> QED
    BY <2>1
<1>6. Steady
  <2>1. \A o, e : ~ByBatch(o, e) /\ ~ByBatch(o, e)'
    BY <1>3 DEF ByBatch, HasAhead
  <2>2. \A o, e : ~ByThread(o, e) /\ ~ByThread(o, e)'
    <3>1. \A o, e : ~ThreadHas(t, o, e)'
      BY <1>2, <1>4 DEF ThreadHas, Moving, Freeing
    <3>2. \A o, e : ~ByThread(o, e)
      BY <1>3 DEF StillFacts
    <3>3. \A o, e : ~OtherThread(t, o, e)
      BY <3>2 DEF OtherThread, ByThread
    <3> QED
      BY <1>2, <3>1, <3>2, <3>3, ThreadsKept
  <2>3. \A u \in Threads : ~Walks(u) /\ ~Walks(u)'
    <3>1. \A u \in Threads : ~Walks(u)
      BY <1>3 DEF StillFacts
    <3> QED
      BY <1>2, <1>4, <3>1 DEF Others, SameView, Walks, Walking, Freeing
  <2>4. \A h : Named(h)' <=> Named(h)
    BY <1>5, SameNames
  <2> QED
    BY <1>1, <2>1, <2>2, <2>3, <2>4 DEF Steady
<1>7. session.phase # "down" /\ session'.phase # "down"
  BY <1>1, <1>2, <1>4
<1>8. /\ TreeInv(chain)' /\ DeadInv(dead, idx)' /\ OwnerInv(chain, dead, idx)'
  BY <1>6, SteadyKept
<1>9. CountInv(chain, dead, idx)'
  <2>1. Counted
    BY <1>1, <1>2, <1>3, <1>5, <1>7, NoneCounted
  <2> QED
    BY <1>3, <1>6, <2>1, CountedKept
<1>10. MiniTreeInv(chain)' /\ GivenInv(chain)'
  BY <1>3 DEF MiniTreeInv, GivenInv, MiniHead
<1>11. DiskInv(chain)'
  <2>1. \A c : Flushed(c)' <=> Flushed(c)
    BY <1>1 DEF Flushed
  <2>2. ~CountsBehind' => ~CountsBehind
    BY <1>1, <1>2 DEF CountsBehind
  <2>3. \A e : SavedOK(chain, e) => SavedOK(chain, e)'
    <3>1. MayLose' <=> MayLose
      BY <1>2, <1>7 DEF MayLose, One
    <3>2. \A c, e : InTree(c, e)' <=> InTree(c, e)
      BY <1>1 DEF InTree, InData, IsEntry
    <3> QED
      BY <1>1, <3>1, <3>2 DEF SavedOK
  <2>4. session'.phase \notin {"set_super", "sync"}
    BY <1>2, <1>4
  <2> QED
    BY <1>1, <2>1, <2>2, <2>3, <2>4 DEF DiskInv, Ledger
<1> QED
  BY <1>8, <1>9, <1>10, <1>11 DEF Ledger

-----------------------------------------------------------------------------
(* The counts are written, and read by the next session. *)

LEMMA UnmountLedger ==
  ASSUME SInv, Control, AllocatorUnmount, NEW chain, NEW dead, NEW idx, Ledger(chain, dead, idx)
  PROVE  Ledger(chain, dead, idx)'
<1>1. /\ Still /\ session.phase = "persist" /\ StoreType
      /\ session' = [session EXCEPT !.phase = "down"]
      /\ disk' = [disk EXCEPT !.ref = ref, !.saved = TRUE]
      /\ UNCHANGED <<ref, page, mini, root, thread>>
  BY DEF AllocatorUnmount, Quiet, Still, SInv, Phase
<1>2. /\ session'.phase = "down" /\ session'.crashes = session.crashes /\ session'.old = session.old
      /\ disk'.page = disk.page /\ disk'.super = disk.super /\ disk'.ref = ref
  BY <1>1, SessionFields
<1>3. Still' /\ root = 0 /\ session.crashes \in Nat
  BY <1>1 DEF Still, Control, PhaseFacts
<1>4. StillFacts /\ StillFacts'
  BY <1>1, <1>3, StillIs, StillNext
<1>5. \A h : h # 0 => Holds(h)' = Holds(h)
  BY <1>1, <1>2, <1>4 DEF StillFacts, One
<1>6. \A h : Named(h)' <=> Named(h)
  BY <1>5, SameNames
<1>7. /\ TreeInv(chain)' /\ DeadInv(dead, idx)' /\ OwnerInv(chain, dead, idx)'
      /\ MiniTreeInv(chain)' /\ GivenInv(chain)'
      /\ \A c, e : InTree(c, e)' <=> InTree(c, e)
  BY <1>1, <1>3, <1>6, StillKept
<1>8. CountInv(chain, dead, idx)'
  BY <1>2 DEF CountInv
<1>9. DiskInv(chain)'
  <2>1. \A c : Flushed(c)' <=> Flushed(c)
    BY <1>1, <1>2 DEF Flushed
  <2>2. PICK s : s = disk.super.root
    OBVIOUS
  <2>3. \A e : /\ (\E o : Has(chain, dead, idx, o, e)) <=> s # 0 /\ InTree(chain[s], e)
               /\ \A h : h # 0 => Holds(h) = One(root = h) + One(s = h)
    BY <1>1, <1>3, <2>2, StillHas
  <2>4. ASSUME NEW e \in Extents
        PROVE  SavedOK(chain, e)'
    <3>1. MayLose' <=> session.crashes >= 2
      BY <1>2, <1>3 DEF MayLose, One
    <3>2. CASE e = 0
      <4>1. ref[0] = 2
        BY <1>1 DEF Ledger, CountInv
      <4> QED
        BY <1>2, <3>2, <4>1 DEF SavedOK, One
    <3>3. CASE e # 0
      <4>1. CountOK(chain, dead, idx, e)
        BY <1>1, <3>3 DEF Ledger, CountInv
      <4>2. Address(e) # 0
        BY <3>3, AddressOf, ExtentsNat
      <4>3. CASE s # 0 /\ InTree(chain[s], e)
        <5>1. PICK o : Has(chain, dead, idx, o, e)
          BY <2>3, <4>3
        <5>2. ref[e] = Base(o) + Holds(Address(e)) /\ Base(o) = 2
          BY <1>4, <4>1, <5>1 DEF CountOK, StillFacts
        <5>3. Holds(Address(e)) = One(s = Address(e))
          BY <1>3, <2>3, <4>2 DEF One
        <5>4. ref[e] = 2 + One(Address(e) = s)
          BY <5>2, <5>3 DEF One
        <5> QED
          BY <1>2, <1>7, <2>2, <3>3, <4>3, <5>4 DEF SavedOK
      <4>4. CASE ~(s # 0 /\ InTree(chain[s], e))
        <5>1. ref[e] = 0 \/ (ref[e] > 0 /\ session.crashes >= 2)
          BY <2>3, <4>1, <4>4 DEF CountOK
        <5> QED
          BY <1>2, <1>7, <2>2, <3>1, <3>3, <4>4, <5>1 DEF SavedOK
      <4> QED
        BY <4>3, <4>4
    <3> QED
      BY <3>2, <3>3
  <2> QED
    BY <1>2, <2>1, <2>4 DEF DiskInv, Ledger
<1> QED
  BY <1>7, <1>8, <1>9 DEF Ledger

LEMMA MountLedger ==
  ASSUME SInv, SInv', Control, Mount, NEW chain, NEW dead, NEW idx, Ledger(chain, dead, idx)
  PROVE  Ledger(chain, dead, idx)' /\ (AssertionsHold => AssertionsHold')
<1>1. /\ session.phase = "down" /\ ~session.exposed /\ StoreType /\ StoreType'
      /\ session' = [session EXCEPT !.phase = "set_super", !.unmount = FALSE]
      /\ root' = RootToMount
      /\ ref' = IF root' = 0 THEN disk.ref ELSE [disk.ref EXCEPT ![ExtentOf(root')] = @ + 1]
      /\ err' = IF root' # 0 => ref'[ExtentOf(root')] > 1 THEN err ELSE err \cup {"inc_ref_of_free_extent"}
      /\ UNCHANGED <<page, mini, thread, disk>>
  BY DEF Mount, SInv, Check
<1>2. session'.phase = "set_super" /\ session'.crashes = session.crashes /\ session'.unmount = FALSE
  BY <1>1, SessionFields
<1>3. Still /\ Still'
  <2>1. Still
    BY <1>1, QuietIsStill DEF QuietPhase
  <2> QED
    BY <1>1, <2>1 DEF Still
<1>4. StillFacts /\ StillFacts'
  BY <1>3, StillIs, StillNext
<1>5. root = 0 /\ disk.saved /\ session.crashes \in Nat
  BY <1>1 DEF Control, PhaseFacts
<1>6. PICK s, r : s = disk.super.root /\ r = root' /\ r \in {0, s}
  BY <1>1 DEF RootToMount
<1>7. \A h : h # 0 => Holds(h) = One(s = h) /\ Holds(h)' = One(r = h) + One(s = h)
  BY <1>1, <1>2, <1>4, <1>5, <1>6 DEF StillFacts, One
<1>8. \A h : Named(h)' <=> Named(h)
  BY <1>6, <1>7 DEF Named, One
<1>9. /\ TreeInv(chain)' /\ DeadInv(dead, idx)' /\ OwnerInv(chain, dead, idx)'
      /\ MiniTreeInv(chain)' /\ GivenInv(chain)'
      /\ \A o, e : Has(chain, dead, idx, o, e)' <=> Has(chain, dead, idx, o, e)
      /\ \A c, e : InTree(c, e)' <=> InTree(c, e)
  BY <1>1, <1>3, <1>8, StillKept
<1>10. \A e \in Extents : SavedOK(chain, e)
  BY <1>1, <1>5 DEF Ledger, DiskInv, CountsBehind
<1>11. \A e : (\E o : Has(chain, dead, idx, o, e)) <=> s # 0 /\ InTree(chain[s], e)
  <2>1. root \in {0, s} /\ session.phase \notin {"sync", "dec_old"}
    BY <1>1, <1>5
  <2> QED
    BY <1>3, <1>6, <2>1, StillHas
<1>12. r # 0 => /\ ExtentOf(r) \in Extents \ {0} /\ Has(chain, dead, idx, Meta(r), ExtentOf(r))
               /\ Address(ExtentOf(r)) = r
               /\ \A e \in Extents \ {0} : Address(e) = r <=> e = ExtentOf(r)
  <2>1. r # 0 => Named(r)
    BY <1>6, NamedBy
  <2> QED
    BY <2>1, TreeExtent
<1>13. disk.ref \in [Extents -> Int] /\ ref' = IF r = 0 THEN disk.ref ELSE [disk.ref EXCEPT ![ExtentOf(r)] = @ + 1]
  BY <1>1, <1>6 DEF StoreType
<1>14. ASSUME NEW e \in Extents \ {0}
       PROVE  /\ Address(e) # 0
              /\ ref'[e] = disk.ref[e] + One(r = Address(e))
              /\ s # 0 /\ InTree(chain[s], e) => disk.ref[e] = 2 + One(s = Address(e))
              /\ ~(s # 0 /\ InTree(chain[s], e)) => disk.ref[e] = 0 \/ (disk.ref[e] > 0 /\ session.crashes >= 2)
  <2>1. Address(e) # 0
    BY AddressOf, ExtentsNat
  <2>2. r # 0 => (r = Address(e) <=> e = ExtentOf(r))
    BY <1>12
  <2>3. ref'[e] = disk.ref[e] + One(r = Address(e))
    BY <1>13, <2>1, <2>2 DEF One
  <2>4. SavedOK(chain, e) /\ (MayLose <=> session.crashes >= 2)
    BY <1>1, <1>5, <1>10 DEF MayLose, One
  <2> QED
    BY <1>6, <2>1, <2>3, <2>4 DEF SavedOK, One
<1>15. CountInv(chain, dead, idx)'
  <2>1. ref'[0] = 2
    <3>1. disk.ref[0] = 2
      BY <1>10, ExtentsNat DEF SavedOK, One
    <3> QED
      BY <1>12, <1>13, <3>1, ExtentsNat
  <2>2. ASSUME NEW e \in Extents \ {0}
        PROVE  CountOK(chain, dead, idx, e)'
    <3>1. ASSUME NEW o, Has(chain, dead, idx, o, e)
          PROVE  ref'[e] = Base(o)' + Holds(Address(e))'
      <4>1. s # 0 /\ InTree(chain[s], e)
        BY <1>11, <3>1
      <4>2. ref'[e] = 2 + One(s = Address(e)) + One(r = Address(e)) /\ Address(e) # 0
        BY <1>14, <4>1
      <4>3. Holds(Address(e))' = One(r = Address(e)) + One(s = Address(e))
        BY <1>7, <4>2
      <4>4. Base(o)' = 2
        BY <1>4 DEF StillFacts
      <4> QED
        BY <4>2, <4>3, <4>4 DEF One
    <3>2. ASSUME \A o : ~Has(chain, dead, idx, o, e)
          PROVE  ref'[e] = 0 \/ (ref'[e] > 0 /\ session'.crashes >= 2)
      <4>1. ~(s # 0 /\ InTree(chain[s], e))
        BY <1>11, <3>2
      <4>2. r # Address(e)
        BY <1>12, <1>14, <3>2
      <4>3. ref'[e] = disk.ref[e]
        BY <1>13, <1>14, <4>2 DEF One
      <4> QED
        BY <1>2, <1>14, <4>1, <4>3
    <3> QED
      BY <1>9, <3>1, <3>2 DEF CountOK
  <2> QED
    BY <2>1, <2>2 DEF CountInv
<1>16. DiskInv(chain)'
  <2>1. \A c : Flushed(c)' <=> Flushed(c)
    BY <1>1 DEF Flushed
  <2>2. MayLose => MayLose'
    BY <1>1, <1>2, <1>5 DEF MayLose, One
  <2>3. \A e \in Extents : SavedOK(chain, e)'
    BY <1>1, <1>9, <1>10, <2>2 DEF SavedOK
  <2>4. s # 0 => Flushed(chain[s])
    BY <1>6 DEF Ledger, DiskInv
  <2>5. (s # 0 => Flushed(chain[s])') /\ (r # 0 => Flushed(chain[r])')
    BY <1>6, <2>1, <2>4
  <2>6. disk'.super.root = s /\ root' = r
    BY <1>1, <1>6
  <2> QED
    BY <2>3, <2>5, <2>6 DEF DiskInv
<1>17. AssertionsHold => AssertionsHold'
  <2>1. r # 0 => ref'[ExtentOf(r)] > 1
    <3>1. SUFFICES ASSUME r # 0
                   PROVE  ref'[ExtentOf(r)] > 1
      OBVIOUS
    <3>2. PICK e \in Extents \ {0} : e = ExtentOf(r) /\ Has(chain, dead, idx, Meta(r), e)
      BY <1>12, <3>1
    <3>3. s # 0 /\ InTree(chain[s], e)
      BY <1>11, <3>2
    <3> QED
      BY <1>14, <3>2, <3>3 DEF One
  <2> QED
    BY <1>1, <1>6, <2>1 DEF AssertionsHold
<1> QED
  BY <1>9, <1>15, <1>16, <1>17 DEF Ledger

\* A crash keeps what the super block names, if its counts are on disk.
LEMMA CrashLedger ==
  ASSUME SInv, SInv', Control, Crash, ~CountsBehind, NEW chain, NEW dead, NEW idx, Ledger(chain, dead, idx)
  PROVE  Ledger(chain, dead, idx)'
<1>1. /\ session.phase # "down" /\ StoreType
      /\ session' = [session EXCEPT !.phase = "down", !.exposed = CountsBehind, !.crashes = @ + 1]
      /\ page' \in {disk.page, [a \in DOMAIN page \cup DOMAIN disk.page |->
                                  IF a \in DOMAIN page THEN page[a] ELSE disk.page[a]]}
      /\ disk' = [disk EXCEPT !.page = page']
      /\ mini' = NoMini /\ root' = 0 /\ thread' = [t \in Threads |-> Idle]
  BY DEF Crash, SInv
<1>2. /\ session'.phase = "down" /\ session'.crashes = session.crashes + 1 /\ session.crashes \in Nat
      /\ disk'.page = page' /\ disk'.super = disk.super /\ disk'.ref = disk.ref
  BY <1>1, SessionFields DEF Control, PhaseFacts
<1>3. Still'
  BY <1>1 DEF Still
<1>4. StillFacts'
  BY <1>3, StillNext
<1>5. PICK s : s = disk.super.root
  OBVIOUS
<1>6. \A h : Named(h)' <=> h # 0 /\ h = s
  <2>1. \A h : h # 0 => Holds(h)' = One(s = h)
    BY <1>1, <1>2, <1>4, <1>5 DEF StillFacts, One
  <2> QED
    BY <2>1 DEF Named, One
<1>7. s # 0 => Named(s) /\ TreeOK(chain[s], s) /\ Flushed(chain[s])
  BY <1>5, NamedBy DEF Ledger, TreeInv, DiskInv
<1>8. s # 0 => SamePages(chain[s])
  BY <1>1, <1>7 DEF TreeOK, Linked, Flushed, SamePages
<1>9. s # 0 => /\ TreeOK(chain[s], s)'
               /\ \A o, e : TreeHas(chain[s], s, o, e)' <=> TreeHas(chain[s], s, o, e)
               /\ \A e : InTree(chain[s], e)' <=> InTree(chain[s], e)
  BY <1>7, <1>8, OneTree
<1>10. TreeInv(chain)'
  <2>1. ASSUME NEW h, Named(h)'
        PROVE  TreeOK(chain[h], h)'
    BY <1>6, <1>9, <2>1
  <2> QED
    BY <2>1 DEF TreeInv
<1>11. DeadInv(dead, idx)' /\ MiniTreeInv(chain)' /\ GivenInv(chain)'
  BY <1>4 DEF StillFacts, DeadInv, MiniTreeInv, GivenInv
<1>12. OwnerInv(chain, dead, idx)'
  <2>1. ASSUME NEW o, NEW e, Has(chain, dead, idx, o, e)'
        PROVE  Has(chain, dead, idx, o, e)
    <3>1. ByTree(chain, o, e)'
      BY <1>4, <2>1 DEF StillFacts, Has
    <3>2. PICK h : (Named(h) /\ TreeHas(chain[h], h, o, e))'
      BY <3>1 DEF ByTree
    <3>3. h = s /\ s # 0
      BY <1>6, <3>2
    <3>4. TreeHas(chain[s], s, o, e)
      BY <1>9, <3>2, <3>3
    <3> QED
      BY <1>7, <3>3, <3>4 DEF Has, ByTree
  <2>2. OwnerInv(chain, dead, idx)
    BY DEF Ledger
  <2> QED
    BY <2>1, <2>2 DEF OwnerInv
<1>13. CountInv(chain, dead, idx)'
  BY <1>2 DEF CountInv
<1>14. DiskInv(chain)'
  <2>1. s # 0 => Flushed(chain[s])'
    BY <1>2, <1>8 DEF Flushed, SamePages
  <2>2. MayLose' <=> MayLose
    BY <1>1, <1>2 DEF MayLose, One
  <2>3. ASSUME NEW e \in Extents
        PROVE  SavedOK(chain, e)'
    <3>1. SavedOK(chain, e)
      BY DEF Ledger, DiskInv
    <3>2. s # 0 => (InTree(chain[s], e)' <=> InTree(chain[s], e))
      BY <1>9
    <3> QED
      BY <1>2, <1>5, <2>2, <3>1, <3>2 DEF SavedOK
  <2>4. disk'.super.root = s /\ session'.phase \notin {"set_super", "sync"}
    BY <1>2, <1>5
  <2> QED
    BY <2>1, <2>3, <2>4 DEF DiskInv
<1> QED
  BY <1>10, <1>11, <1>12, <1>13, <1>14 DEF Ledger

-----------------------------------------------------------------------------
(* Control: what each thread does, and what the others may do meanwhile. *)

\* A thread that stays in its operation.
SameOp(u) ==
  /\ Op(u)' = Op(u) /\ thread'[u].batch = thread[u].batch
  /\ thread'[u].addr = thread[u].addr /\ thread'[u].head = thread[u].head

LEMMA OpKept ==
  ASSUME NEW u \in Threads, SameOp(u), OpOK(u), mini'.state = mini.state, mini'.head = mini.head,
         mini'.locked = mini.locked, mini'.next_addr = mini.next_addr,
         DOMAIN mini'.next_extent = DOMAIN mini.next_extent
  PROVE  OpOK(u)'
BY DEF OpOK, SameOp

\* A thread that the mini allocator has nothing to do with.
Outside(t) == Op(t) \in {"idle"} \cup Dropping /\ (Op(t) = "dec_ref" => thread[t].head # 0)

LEMMA OutsideOK == \A t \in Threads : Outside(t) => OpOK(t)
<1> SUFFICES ASSUME NEW t \in Threads, Outside(t)
             PROVE  OpOK(t)
  OBVIOUS
<1>1. Op(t) \in {"idle", "dec_ref", "entries", "deinit", "dealloc", "discard", "free"}
  BY DEF Outside, Dropping
<1>2. Op(t) = "dec_ref" => thread[t].head # 0
  BY DEF Outside
<1> QED
  BY <1>1, <1>2 DEF OpOK, InitOp, AllocOp, ReleaseOp, Moving, Dropping

LEMMA OutsideOKNext == (\A t \in Threads : Outside(t) => OpOK(t))'
BY OutsideOK, PTL

\* Such a thread is apart from all others.
LEMMA OpsApart ==
  ASSUME OpInv, NEW t \in Threads, Others(t), OpOK(t)', \A u \in Threads : u # t => OpOK(u)',
         Op(t)' \in InitOp \cup ReleaseOp => \A u \in Threads : u # t => Op(u) \notin InitOp \cup ReleaseOp,
         Op(t)' \in AllocOp =>
           \A u \in Threads : u # t => ~(Op(u) \in AllocOp /\ thread[u].batch = thread'[t].batch),
         Op(t)' = "meta_extent" => \A u \in Threads : u # t => Op(u) # "meta_extent"
  PROVE  OpInv'
<1>1. ASSUME NEW v \in Threads, NEW u \in Threads, u # v
      PROVE  Apart(v, u)'
  <2>1. CASE v # t /\ u # t
    <3>1. Apart(v, u)
      BY <1>1 DEF OpInv
    <3> QED
      BY <2>1, <3>1 DEF Others, SameView, Apart
  <2>2. CASE v = t
    BY <1>1, <2>2 DEF Others, SameView, Apart
  <2>3. CASE u = t
    BY <1>1, <2>3 DEF Others, SameView, Apart
  <2> QED
    BY <2>1, <2>2, <2>3
<1>2. ASSUME NEW v \in Threads
      PROVE  OpOK(v)'
  BY <1>2
<1> QED
  BY <1>1, <1>2 DEF OpInv

\* The operation that the mini allocator waits for goes on.
LEMMA MiniInvKept ==
  ASSUME MiniInv, NEW t \in Threads, Others(t), session'.phase = session.phase,
         mini'.state = mini.state, mini'.head # 0 <=> mini.head # 0, mini'.given = mini.given,
         mini'.next_addr = mini.next_addr,
         Op(t) \in InitOp => Op(t)' \in InitOp, Op(t) \in ReleaseOp => Op(t)' \in ReleaseOp
  PROVE  MiniInv'
BY DEF MiniInv, Others, SameView

\* The session is what it was.
LEMMA PhaseKept ==
  ASSUME PhaseFacts, UNCHANGED <<disk, session>>, root' = root \/ session.phase = "up"
  PROVE  PhaseFacts'
BY DEF PhaseFacts

\* A step that leaves the mini allocator alone.
LEMMA LocalControl ==
  ASSUME Control, NEW t \in Threads, Others(t), UNCHANGED <<mini, root, disk, session>>, PagesOK(page)',
         SameOp(t) \/ (Op(t) \notin InitOp \cup ReleaseOp /\ Outside(t)')
  PROVE  Control'
<1>1. MiniOK' /\ PagesOK(disk.page)'
  BY DEF Control, MiniOK, PagesOK
<1>2. PhaseFacts'
  BY PhaseKept DEF Control
<1>3. \A u \in Threads : u # t => OpOK(u)'
  <2>1. ASSUME NEW u \in Threads, u # t
        PROVE  OpOK(u)'
    <3>1. SameOp(u) /\ OpOK(u)
      BY <2>1 DEF Others, SameView, SameOp, Control, OpInv
    <3> QED
      BY <3>1, OpKept
  <2> QED
    BY <2>1
<1>4. OpOK(t)'
  <2>1. CASE SameOp(t)
    BY <2>1, OpKept DEF Control, OpInv
  <2>2. CASE Outside(t)'
    BY <2>2, OutsideOKNext
  <2> QED
    BY <2>1, <2>2
<1>5. /\ Op(t)' \in InitOp \cup ReleaseOp => \A u \in Threads : u # t => Op(u) \notin InitOp \cup ReleaseOp
      /\ Op(t)' \in AllocOp =>
           \A u \in Threads : u # t => ~(Op(u) \in AllocOp /\ thread[u].batch = thread'[t].batch)
      /\ Op(t)' = "meta_extent" => \A u \in Threads : u # t => Op(u) # "meta_extent"
  <2>1. CASE SameOp(t)
    <3>1. \A u \in Threads : u # t => Apart(t, u)
      BY DEF Control, OpInv
    <3> QED
      BY <2>1, <3>1 DEF SameOp, Apart
  <2>2. CASE Outside(t)'
    BY <2>2 DEF Outside, InitOp, AllocOp, ReleaseOp, Dropping
  <2> QED
    BY <2>1, <2>2
<1>6. OpInv'
  BY <1>3, <1>4, <1>5, OpsApart DEF Control
<1>7. MiniInv'
  <2>1. /\ Op(t) \in InitOp => Op(t)' \in InitOp
        /\ Op(t) \in ReleaseOp => Op(t)' \in ReleaseOp
    BY DEF SameOp
  <2> QED
    BY <2>1, MiniInvKept DEF Control
<1> QED
  BY <1>1, <1>2, <1>6, <1>7 DEF Control

\* rc_allocator_alloc
LEMMA SearchControl ==
  ASSUME SInv, Control, NEW t \in Threads, AllocFirst(t) \/ AllocScan(t) \/ AllocTest(t)
  PROVE  Control' /\ err' = err
<1>1. Local(t) /\ SameOp(t) /\ err' = err
  <2>1. CASE AllocTest(t) /\ ref[thread[t].hand] = 0
    BY <2>1, TakeEffect DEF SInv, SameOp
  <2>2. CASE ~(AllocTest(t) /\ ref[thread[t].hand] = 0)
    <3>1. AllocFirst(t) \/ AllocScan(t) \/ (AllocTest(t) /\ ref[thread[t].hand] # 0)
      BY <2>2
    <3> QED
      BY <3>1, SearchEffect DEF SameView, SameOp
  <2> QED
    BY <2>1, <2>2
<1>2. PagesOK(page)' /\ Others(t) /\ UNCHANGED <<mini, root, disk, session>>
  BY <1>1 DEF Control, PagesOK, Local
<1> QED
  BY <1>1, <1>2, LocalControl

\* mini_inc_ref and mini_dec_ref
LEMMA RefControl ==
  ASSUME SInv, Control, NEW t \in Threads, Acquire(t) \/ GiveBack(t) \/ MiniDecRef(t)
  PROVE  Control'
<1>1. /\ Others(t) /\ UNCHANGED <<mini, root, disk, session, page>>
      /\ Op(t) \in {"idle", "dec_ref"} /\ Op(t)' \in {"idle", "dec_ref", "entries"}
      /\ Op(t)' = "dec_ref" => thread'[t].head # 0
  <2>1. CASE Acquire(t)
    BY <2>1, AcquireEffect
  <2>2. CASE GiveBack(t)
    BY <2>2, GiveBackEffect DEF Drops
  <2>3. CASE MiniDecRef(t)
    BY <2>3, DecEffect
  <2> QED
    BY <2>1, <2>2, <2>3
<1>2. Op(t) \notin InitOp \cup ReleaseOp /\ Outside(t)'
  BY <1>1 DEF InitOp, ReleaseOp, Outside, Dropping
<1>3. PagesOK(page)'
  BY <1>1 DEF Control, PagesOK
<1> QED
  BY <1>1, <1>2, <1>3, LocalControl

\* The walk of mini_dec_ref.
LEMMA WalkedControl ==
  ASSUME Control, NEW t \in Threads, Walked(t), PagesOK(page)'
  PROVE  Control'
<1>1. Op(t) \notin InitOp \cup ReleaseOp /\ Outside(t)'
  BY DEF Walked, InitOp, ReleaseOp, Outside, Dropping, Walking, Freeing
<1> QED
  BY <1>1, LocalControl DEF Walked

LEMMA ForEachControl ==
  ASSUME SInv, Control, NEW t \in Threads, MiniForEach(t),
         NEW chain, NEW dead, NEW idx, Ledger(chain, dead, idx)
  PROVE  Control'
<1>1. PICK n, meta : n = thread[t].entry /\ meta = MetaPage(thread[t].at)
  OBVIOUS
<1>2. Op(t) = "entries" /\ session.phase # "down"
  <2>1. thread[t].pc = "entries" /\ thread[t].pc # "idle"
    BY DEF MiniForEach, At
  <2> QED
    BY <2>1, Runs DEF Op, SearchPC, QuietPhase
<1>3. /\ DeadOK(dead[t], idx[t], t) /\ meta = page[thread[t].at] /\ page[thread[t].at].entries \in Seq(Extents)
  BY <1>1, <1>2, WalkReads
<1>4. n \in Nat /\ Len(meta.entries) \in Nat
  BY <1>1, <1>3 DEF DeadOK
<1>5. Walked(t) /\ page' = page
  BY <1>1, <1>4, ForEachEffect
<1>6. PagesOK(page)'
  BY <1>5 DEF Control, PagesOK
<1> QED
  BY <1>5, <1>6, WalkedControl

LEMMA FreeingControl ==
  ASSUME SInv, Control, NEW t \in Threads, MiniDeinit(t) \/ Dealloc(t) \/ Discard(t) \/ Free(t)
  PROVE  Control'
<1>1. Walked(t) /\ \A a \in DOMAIN page' : a \in DOMAIN page /\ page'[a] = page[a]
  <2>1. CASE MiniDeinit(t)
    BY <2>1, DeinitEffect
  <2>2. CASE Dealloc(t) \/ Discard(t) \/ Free(t)
    <3>1. PICK e1 : e1 = thread[t].extent
      OBVIOUS
    <3>2. /\ Walked(t)
          /\ page' = page \/ page' = [a \in {x \in DOMAIN page : ExtentOf(x) # e1} |-> page[a]]
      BY <2>2, <3>1, FreeingEffect
    <3> QED
      BY <3>2
  <2> QED
    BY <2>1, <2>2
<1>2. PagesOK(page)'
  BY <1>1 DEF Control, PagesOK
<1> QED
  BY <1>1, <1>2, WalkedControl

\* Nobody else has to do with a mini allocator that is not open.
LEMMA OthersOutside ==
  ASSUME Control, NEW t \in Threads,
         mini.state = "none" \/ Op(t) \in InitOp \cup ReleaseOp
  PROVE  \A u \in Threads : u # t => Outside(u)
<1>1. ASSUME NEW u \in Threads, u # t
      PROVE  Outside(u)
  <2>1. OpOK(u) /\ OpOK(t) /\ Apart(t, u)
    BY <1>1 DEF Control, OpInv
  <2>2. Op(u) \notin AllocOp
    BY <2>1 DEF OpOK, InitOp, ReleaseOp
  <2>3. Op(u) \notin InitOp \cup ReleaseOp
    BY <2>1 DEF OpOK, Apart
  <2> QED
    BY <2>1, <2>2, <2>3 DEF OpOK, Outside
<1> QED
  BY <1>1

LEMMA SoleOp ==
  ASSUME Control, NEW t \in Threads, Others(t), \A u \in Threads : u # t => Outside(u), OpOK(t)'
  PROVE  OpInv'
<1>1. \A u \in Threads : u # t => OpOK(u)'
  <2>1. ASSUME NEW u \in Threads, u # t
        PROVE  Outside(u)'
    BY <2>1 DEF Outside, Others, SameView
  <2> QED
    BY <2>1, OutsideOKNext
<1>2. \A u \in Threads : u # t => Op(u) \notin InitOp \cup ReleaseOp \cup AllocOp /\ Op(u) # "meta_extent"
  BY DEF Outside, InitOp, ReleaseOp, AllocOp, Dropping
<1> QED
  BY <1>1, <1>2, OpsApart DEF Control

\* mini_init
LEMMA MiniInitControl ==
  ASSUME SInv, Control, NEW t \in Threads, NEW n \in 1 .. NumBatches, MiniInit(t, n)
  PROVE  Control' /\ err' = err
<1>1. /\ session.phase = "up" /\ mini = NoMini /\ Op(t) = "idle"
      /\ Others(t) /\ Op(t)' = "meta"
      /\ UNCHANGED <<ref, page, root, disk, session, err>>
      /\ DOMAIN mini' = {"state", "head", "tail", "locked", "next_addr", "next_extent", "given"}
      /\ mini'.state = "init" /\ mini'.head = 0 /\ mini'.tail = 0
      /\ mini'.locked = FALSE /\ mini'.given = {}
      /\ mini'.next_addr = [b \in 1 .. n |-> 0] /\ mini'.next_extent = [b \in 1 .. n |-> 0]
  BY MiniInitEffect
<1>2. n \in Nat /\ n > 0
  BY StorageAssumption
<1>3. MiniOK'
  <2>1. mini'.next_addr \in Seq(Int) /\ Len(mini'.next_addr) = n
    BY <1>1, <1>2
  <2>2. mini'.next_extent \in Seq(Extents) /\ Len(mini'.next_extent) = n
    BY <1>1, <1>2, ExtentsNat
  <2> QED
    BY <1>1, <1>2, <2>1, <2>2 DEF MiniOK
<1>4. OpInv'
  <2>1. OpOK(t)'
    BY <1>1 DEF OpOK, InitOp, AllocOp, ReleaseOp, Moving
  <2>2. \A u \in Threads : u # t => Outside(u)
    BY <1>1, OthersOutside DEF NoMini
  <2> QED
    BY <1>1, <2>1, <2>2, SoleOp
<1>5. MiniInv'
  BY <1>1 DEF MiniInv, InitOp
<1>6. PagesOK(page)' /\ PagesOK(disk.page)' /\ PhaseFacts'
  BY <1>1, PhaseKept DEF Control, PagesOK
<1> QED
  BY <1>1, <1>3, <1>4, <1>5, <1>6 DEF Control

LEMMA InitMetaControl ==
  ASSUME SInv, Control, NEW t \in Threads, MiniInitMeta(t),
         NEW chain, NEW dead, NEW idx, Ledger(chain, dead, idx)
  PROVE  Control'
<1>1. PICK e, h : e = thread[t].got /\ h = Address(e)
  OBVIOUS
<1>2. /\ session.phase = "up" /\ mini.state = "init" /\ mini.head = 0 /\ Op(t) = "meta" /\ HasGot(t)
      /\ Others(t) /\ Op(t)' = "batch" /\ thread'[t].batch = 1
      /\ UNCHANGED <<root, disk, session>>
      /\ page' = PageSet(page, h, EmptyMetaPage)
      /\ DOMAIN mini = {"state", "head", "tail", "locked", "next_addr", "next_extent", "given"}
      /\ DOMAIN mini' = DOMAIN mini /\ mini'.state = mini.state
      /\ mini'.head = h /\ mini'.tail = h /\ mini'.locked = mini.locked
      /\ mini'.next_addr = mini.next_addr /\ mini'.given = mini.given
      /\ mini'.next_extent = mini.next_extent
      /\ mini.next_extent \in Seq(Extents) /\ Len(mini.next_extent) > 0
  BY <1>1, InitMetaEffect
<1>3. e \in Extents \ {0} /\ h \in Nat /\ h # 0
  <2>1. e \in Extents \ {0}
    BY <1>1, <1>2, ThreadClaims
  <2> QED
    BY <1>1, <2>1, AddressOf, ExtentsNat
<1>4. PagesOK(page)'
  <2>1. EmptyMetaPage \in [next : Nat, entries : Seq(Extents)]
    BY DEF EmptyMetaPage
  <2>2. /\ DOMAIN page' = DOMAIN page \cup {h}
        /\ \A a \in DOMAIN page' : page'[a] = IF a = h THEN EmptyMetaPage ELSE page[a]
    BY <1>2 DEF PageSet
  <2> QED
    BY <1>3, <2>1, <2>2 DEF Control, PagesOK
<1>5. MiniOK'
  <2>1. MiniOK /\ mini # NoMini
    BY <1>2 DEF Control, NoMini
  <2> QED
    BY <1>2, <1>3, <2>1 DEF MiniOK
<1>6. OpInv'
  <2>1. 1 \in DOMAIN mini'.next_extent
    BY <1>2
  <2>2. OpOK(t)'
    BY <1>2, <1>3, <2>1 DEF OpOK, InitOp, AllocOp, ReleaseOp, Moving
  <2>3. \A u \in Threads : u # t => Outside(u)
    BY <1>2, OthersOutside DEF InitOp
  <2> QED
    BY <1>2, <2>2, <2>3, SoleOp
<1>7. MiniInv'
  BY <1>2 DEF MiniInv, Control, InitOp
<1>8. PagesOK(disk.page)' /\ PhaseFacts'
  BY <1>2, PhaseKept DEF Control, PagesOK
<1> QED
  BY <1>4, <1>5, <1>6, <1>7, <1>8 DEF Control

LEMMA InitBatchControl ==
  ASSUME SInv, Control, NEW t \in Threads, MiniInitBatch(t),
         NEW chain, NEW dead, NEW idx, Ledger(chain, dead, idx)
  PROVE  Control' /\ err' = err
<1>1. PICK b, e1 : b = thread[t].batch /\ e1 = thread[t].got
  OBVIOUS
<1>2. e1 \in Extents
  <2>1. HasGot(t)
    BY DEF MiniInitBatch, At, HasGot, ReturnPC
  <2> QED
    BY <1>1, <2>1, ThreadClaims
<1>3. /\ HasGot(t) /\ Op(t) = "batch" /\ mini.state = "init" /\ b \in DOMAIN mini.next_extent
      /\ Others(t) /\ UNCHANGED <<ref, page, root, disk, session, err>>
      /\ DOMAIN mini' = DOMAIN mini
      /\ mini'.head = mini.head /\ mini'.tail = mini.tail /\ mini'.locked = mini.locked
      /\ mini'.next_addr = mini.next_addr /\ mini'.given = mini.given
      /\ mini'.next_extent = [mini.next_extent EXCEPT ![b] = e1]
      /\ mini.next_extent \in Seq(Extents) /\ Len(mini.next_addr) = Len(mini.next_extent)
      /\ \/ b < Len(mini.next_extent) /\ Op(t)' = "batch" /\ thread'[t].batch = b + 1 /\ mini'.state = "init"
         \/ b = Len(mini.next_extent) /\ Op(t)' = "idle" /\ mini'.state = "open"
  BY <1>1, <1>2, InitBatchEffect
<1>4. mini'.next_extent \in Seq(Extents) /\ Len(mini'.next_extent) = Len(mini.next_extent)
      /\ DOMAIN mini'.next_extent = 1 .. Len(mini.next_extent)
  BY <1>2, <1>3
<1>5. MiniOK'
  <2>1. MiniOK /\ mini # NoMini
    BY <1>3 DEF Control, NoMini
  <2> QED
    BY <1>3, <1>4, <2>1 DEF MiniOK
<1>6. mini.head # 0
  BY <1>3 DEF Control, OpInv, OpOK, InitOp
<1>7. OpInv'
  <2>1. OpOK(t)'
    <3>1. CASE Op(t)' = "batch"
      <4>1. b + 1 \in DOMAIN mini'.next_extent
        BY <1>3, <1>4, <3>1
      <4> QED
        BY <1>3, <1>6, <3>1, <4>1 DEF OpOK, InitOp, AllocOp, ReleaseOp, Moving
    <3>2. CASE Op(t)' = "idle"
      <4>1. Outside(t)'
        BY <3>2 DEF Outside
      <4> QED
        BY <4>1, OutsideOKNext
    <3> QED
      BY <1>3, <3>1, <3>2
  <2>2. \A u \in Threads : u # t => Outside(u)
    BY <1>3, OthersOutside DEF InitOp
  <2> QED
    BY <1>3, <2>1, <2>2, SoleOp
<1>8. MiniInv'
  BY <1>3, <1>6 DEF MiniInv, Control, InitOp
<1>9. PagesOK(page)' /\ PagesOK(disk.page)' /\ PhaseFacts'
  BY <1>3, PhaseKept DEF Control, PagesOK
<1> QED
  BY <1>3, <1>5, <1>7, <1>8, <1>9 DEF Control

\* A step of a thread while the mini allocator is open.
StaysOpen(t) ==
  /\ Others(t) /\ mini.state = "open" /\ mini'.state = "open" /\ mini'.head = mini.head
  /\ DOMAIN mini'.next_extent = DOMAIN mini.next_extent /\ DOMAIN mini'.next_addr = DOMAIN mini.next_addr
  /\ UNCHANGED <<root, disk, session>>

LEMMA OpenControl ==
  ASSUME Control, NEW t \in Threads, StaysOpen(t), MiniOK', PagesOK(page)', OpOK(t)',
         Op(t)' \notin InitOp \cup ReleaseOp,
         \A u \in Threads : u # t /\ Op(u) \in AllocOp => mini'.next_addr[thread[u].batch] = Wait,
         \A u \in Threads : u # t /\ Op(u) = "meta_extent" => mini'.locked /\ Op(t)' # "meta_extent",
         Op(t)' \in AllocOp =>
           \A u \in Threads : u # t => ~(Op(u) \in AllocOp /\ thread[u].batch = thread'[t].batch)
  PROVE  Control'
<1>1. \A u \in Threads : u # t => OpOK(u)'
  <2>1. ASSUME NEW u \in Threads, u # t
        PROVE  OpOK(u)'
    <3>1. OpOK(u) /\ SameView(u)
      BY <2>1 DEF Control, OpInv, StaysOpen, Others
    <3>2. Op(u) \notin InitOp \cup ReleaseOp
      BY <3>1 DEF OpOK, StaysOpen, InitOp, ReleaseOp
    <3>3. Op(u)' = Op(u) /\ thread'[u].batch = thread[u].batch /\ thread'[u].addr = thread[u].addr
          /\ thread'[u].head = thread[u].head
      BY <3>1 DEF SameView
    <3>4. Op(u) \notin {"meta", "batch", "release", "released"}
      BY <3>2 DEF InitOp, ReleaseOp
    <3> QED
      BY <2>1, <3>1, <3>3, <3>4 DEF OpOK, StaysOpen, InitOp, ReleaseOp
  <2> QED
    BY <2>1
<1>2. OpInv'
  BY <1>1, OpsApart DEF Control, StaysOpen
<1>3. MiniInv'
  BY DEF MiniInv, Control, StaysOpen
<1>4. PhaseFacts' /\ PagesOK(disk.page)'
  BY PhaseKept DEF Control, StaysOpen, PagesOK
<1> QED
  BY <1>2, <1>3, <1>4 DEF Control

\* mini_alloc
LEMMA MiniAllocControl ==
  ASSUME SInv, Control, NEW t \in Threads, NEW b, b \in DOMAIN mini.next_addr, mini # NoMini, MiniAlloc(t, b),
         NEW chain, NEW dead, NEW idx, Ledger(chain, dead, idx)
  PROVE  Control' /\ err' = err
<1>1. /\ mini.state = "open" /\ Op(t) = "idle"
      /\ mini.next_addr[b] # Wait /\ mini.next_addr \in Seq(Int) /\ mini.next_extent \in Seq(Extents)
      /\ Len(mini.next_addr) = Len(mini.next_extent)
      /\ Others(t) /\ thread'[t].batch = b
      /\ UNCHANGED <<ref, page, root, disk, session, err>>
      /\ DOMAIN mini' = DOMAIN mini /\ mini'.state = mini.state
      /\ mini'.head = mini.head /\ mini'.tail = mini.tail /\ mini'.locked = mini.locked
      /\ mini'.next_addr = [mini.next_addr EXCEPT ![b] = Wait] /\ mini'.given = mini.given
      /\ mini'.next_extent = mini.next_extent
      /\ \/ mini.next_addr[b] % PagesPerExtent = 0 /\ Op(t)' = "next"
         \/ mini.next_addr[b] % PagesPerExtent # 0 /\ Op(t)' = "give" /\ thread'[t].addr = mini.next_addr[b]
  BY MiniAllocEffect
<1>2. Wait \in Int
  BY DEF Wait
<1>3. mini'.next_addr \in Seq(Int) /\ Len(mini'.next_addr) = Len(mini.next_addr)
      /\ DOMAIN mini'.next_addr = DOMAIN mini.next_addr /\ mini'.next_addr[b] = Wait
      /\ \A d \in DOMAIN mini.next_addr : d # b => mini'.next_addr[d] = mini.next_addr[d]
  BY <1>1, <1>2
<1>4. StaysOpen(t)
  BY <1>1, <1>3 DEF StaysOpen
<1>5. MiniOK'
  <2>1. MiniOK /\ mini # NoMini
    BY DEF Control
  <2> QED
    BY <1>1, <1>3, <2>1 DEF MiniOK
<1>6. Op(t)' = "give" => thread'[t].addr \in Nat
  <2>1. SUFFICES ASSUME Op(t)' = "give"
                 PROVE  mini.next_addr[b] \in Nat
    BY <1>1
  <2>2. Filling(b, mini.next_addr[b])
    BY <1>1, <2>1 DEF Filling
  <2> QED
    BY <1>1, <2>2 DEF Ledger, GivenInv
<1>7. OpOK(t)'
  BY <1>1, <1>3, <1>6 DEF OpOK, InitOp, AllocOp, ReleaseOp, Moving
<1>8. \A u \in Threads : OpOK(u)
  BY DEF Control, OpInv
<1>9. ASSUME NEW u \in Threads, u # t, Op(u) \in AllocOp
      PROVE  mini'.next_addr[thread[u].batch] = Wait /\ thread[u].batch # b
  BY <1>1, <1>3, <1>8, <1>9 DEF OpOK
<1>10. \A u \in Threads : u # t /\ Op(u) = "meta_extent" => mini'.locked /\ Op(t)' # "meta_extent"
  BY <1>1, <1>8 DEF OpOK
<1>11. PagesOK(page)' /\ Op(t)' \notin InitOp \cup ReleaseOp
  BY <1>1 DEF Control, PagesOK, InitOp, ReleaseOp
<1> QED
  BY <1>1, <1>4, <1>5, <1>7, <1>9, <1>10, <1>11, OpenControl

LEMMA NextExtentControl ==
  ASSUME SInv, Control, NEW t \in Threads, MiniNextExtent(t),
         NEW chain, NEW dead, NEW idx, Ledger(chain, dead, idx)
  PROVE  Control' /\ err' = err
<1>1. PICK b, e1, e2 : b = thread[t].batch /\ e2 = thread[t].got /\ e1 = mini.next_extent[b]
  OBVIOUS
<1>2. e2 \in Extents
  <2>1. HasGot(t)
    BY DEF MiniNextExtent, At, HasGot, ReturnPC
  <2> QED
    BY <1>1, <2>1, ThreadClaims
<1>3. /\ Op(t) = "next" /\ mini.state = "open" /\ b \in DOMAIN mini.next_extent
      /\ Others(t) /\ Op(t)' = "append" /\ thread'[t].batch = b
      /\ thread'[t].addr = Address(e1) /\ e1 \in Extents
      /\ UNCHANGED <<ref, page, root, disk, session, err>>
      /\ DOMAIN mini' = DOMAIN mini /\ mini'.state = mini.state
      /\ mini'.head = mini.head /\ mini'.tail = mini.tail /\ mini'.locked = mini.locked
      /\ mini'.next_addr = mini.next_addr /\ mini'.given = mini.given
      /\ mini'.next_extent = [mini.next_extent EXCEPT ![b] = e2]
      /\ mini.next_extent \in Seq(Extents)
      /\ DOMAIN mini = {"state", "head", "tail", "locked", "next_addr", "next_extent", "given"}
  BY <1>1, <1>2, NextExtentEffect
<1>4. mini'.next_extent \in Seq(Extents) /\ Len(mini'.next_extent) = Len(mini.next_extent)
      /\ DOMAIN mini'.next_extent = DOMAIN mini.next_extent
  BY <1>2, <1>3
<1>5. StaysOpen(t)
  BY <1>3, <1>4 DEF StaysOpen
<1>6. MiniOK'
  <2>1. MiniOK /\ mini # NoMini
    BY <1>3 DEF Control, NoMini
  <2> QED
    BY <1>3, <1>4, <2>1 DEF MiniOK
<1>7. \A u \in Threads : OpOK(u) /\ (u # t => Apart(t, u))
  BY DEF Control, OpInv
<1>8. OpOK(t)'
  <2>1. thread'[t].addr \in Nat
    BY <1>3, AddressOf, ExtentsNat
  <2>2. b \in DOMAIN mini.next_addr /\ mini.next_addr[b] = Wait
    BY <1>1, <1>3, <1>7 DEF OpOK, AllocOp
  <2> QED
    BY <1>3, <2>1, <2>2 DEF OpOK, InitOp, AllocOp, ReleaseOp, Moving
<1>9. \A u \in Threads : u # t /\ Op(u) \in AllocOp =>
        mini'.next_addr[thread[u].batch] = Wait /\ thread[u].batch # b
  BY <1>1, <1>3, <1>7 DEF OpOK, Apart, AllocOp
<1>10. \A u \in Threads : u # t /\ Op(u) = "meta_extent" => mini'.locked /\ Op(t)' # "meta_extent"
  BY <1>3, <1>7 DEF OpOK
<1>11. PagesOK(page)' /\ Op(t)' \notin InitOp \cup ReleaseOp
  BY <1>3 DEF Control, PagesOK, InitOp, ReleaseOp
<1> QED
  BY <1>3, <1>5, <1>6, <1>8, <1>9, <1>10, <1>11, OpenControl

\* mini_append_entry
LEMMA AppendedControl ==
  ASSUME Control, NEW t \in Threads, mini.state = "open", Op(t) \in Moving,
         Others(t), Op(t)' \in {"give", "meta_extent"},
         thread'[t].batch = thread[t].batch, thread'[t].addr = thread[t].addr,
         UNCHANGED <<root, disk, session>>,
         mini'.state = mini.state, mini'.head = mini.head, mini'.given = mini.given,
         mini'.next_addr = mini.next_addr, mini'.next_extent = mini.next_extent,
         DOMAIN mini' = DOMAIN mini, mini'.tail \in Nat, PagesOK(page)',
         Op(t)' = "meta_extent" => mini'.locked,
         \A u \in Threads : u # t /\ Op(u) = "meta_extent" => mini'.locked /\ Op(t)' # "meta_extent"
  PROVE  Control'
<1>1. StaysOpen(t)
  BY DEF StaysOpen
<1>2. MiniOK'
  <2>1. MiniOK /\ mini # NoMini
    BY DEF Control, NoMini
  <2> QED
    BY <2>1 DEF MiniOK
<1>3. \A u \in Threads : OpOK(u) /\ (u # t => Apart(t, u))
  BY DEF Control, OpInv
<1>4. /\ thread[t].batch \in DOMAIN mini.next_addr /\ mini.next_addr[thread[t].batch] = Wait
      /\ thread[t].addr \in Nat /\ Op(t) \in AllocOp
  BY <1>3 DEF OpOK, AllocOp, Moving
<1>5. OpOK(t)'
  BY <1>4 DEF OpOK, InitOp, AllocOp, ReleaseOp, Moving
<1>6. \A u \in Threads : u # t /\ Op(u) \in AllocOp =>
        mini'.next_addr[thread[u].batch] = Wait /\ thread[u].batch # thread'[t].batch
  BY <1>3, <1>4 DEF OpOK, Apart
<1>7. Op(t)' \notin InitOp \cup ReleaseOp
  BY DEF InitOp, ReleaseOp
<1> QED
  BY <1>1, <1>2, <1>5, <1>6, <1>7, OpenControl

LEMMA NewTailControl ==
  ASSUME SInv, Control, NEW t \in Threads, thread[t].pc \in {"append", "meta_extent"},
         UNCHANGED <<ref, root, disk, session, err>>, NEW addr \in Nat, NewMetaTail(t, addr),
         NEW chain, NEW dead, NEW idx, Ledger(chain, dead, idx),
         thread[t].pc = "append" => ~mini.locked
  PROVE  Control'
<1>1. PICK mh, tail, e1 : mh = mini.head /\ tail = mini.tail /\ e1 = ExtentOf(thread[t].addr)
  OBVIOUS
<1>2. /\ mini.state = "open" /\ Op(t) = thread[t].pc /\ Op(t) \in Moving
      /\ Others(t) /\ Op(t)' = "give"
      /\ thread'[t].batch = thread[t].batch /\ thread'[t].addr = thread[t].addr
      /\ mini'.state = mini.state /\ mini'.head = mini.head /\ mini'.given = mini.given
      /\ mini'.next_addr = mini.next_addr /\ mini'.next_extent = mini.next_extent
      /\ DOMAIN mini' = DOMAIN mini /\ mini'.tail = addr /\ thread[t].addr \in Nat
  BY NewTailEffect DEF GivesOn
<1>3. tail \in DOMAIN page /\ DOMAIN page[tail] = {"next", "entries"} /\ page[tail].entries \in Seq(Extents)
  BY <1>1, <1>2, TailPage
<1>4. e1 \in Extents
  BY <1>1, <1>2, ThreadClaims
<1>5. LinkedTo(tail, addr, e1) /\ DOMAIN page' = DOMAIN page \cup {addr}
  <2>1. page' = PageSet([page EXCEPT ![tail].next = addr], addr, [next |-> 0, entries |-> <<e1>>])
    BY <1>1 DEF NewMetaTail
  <2>2. LinkedTo(tail, addr, e1)
    BY <1>3, <2>1, LinkedPage
  <2> QED
    BY <2>2 DEF LinkedTo
<1>6. PagesOK(page)'
  <2>1. page' = PageSet([page EXCEPT ![tail].next = addr], addr, [next |-> 0, entries |-> <<e1>>])
    BY <1>1 DEF NewMetaTail
  <2>2. [next |-> 0, entries |-> <<e1>>] \in [next : Nat, entries : Seq(Extents)]
    BY <1>4
  <2>3. PagesOK(page)
    BY DEF Control
  <2>4. \A a \in DOMAIN page : [page EXCEPT ![tail].next = addr][a] \in [next : Nat, entries : Seq(Extents)]
    BY <1>3, <2>3 DEF PagesOK
  <2>5. \A a \in DOMAIN page' : page'[a] = IF a = addr THEN [next |-> 0, entries |-> <<e1>>]
                                          ELSE [page EXCEPT ![tail].next = addr][a]
    BY <2>1 DEF PageSet
  <2>6. \A a \in DOMAIN page' : a \in Nat
    BY <1>5, <2>3 DEF PagesOK
  <2>7. \A a \in DOMAIN page' : page'[a] \in [next : Nat, entries : Seq(Extents)]
    BY <1>5, <2>2, <2>4, <2>5
  <2> QED
    BY <2>6, <2>7 DEF PagesOK
<1>7. \A u \in Threads : u # t => Op(u) # "meta_extent"
  <2>1. \A u \in Threads : OpOK(u) /\ (u # t => Apart(t, u))
    BY DEF Control, OpInv
  <2>2. CASE thread[t].pc = "append"
    <3>1. ~mini.locked
      BY <2>2
    <3> QED
      BY <2>1, <3>1 DEF OpOK
  <2>3. CASE thread[t].pc = "meta_extent"
    BY <1>2, <2>1, <2>3 DEF Apart
  <2> QED
    BY <2>2, <2>3
<1>8. Op(t)' \in {"give", "meta_extent"} /\ mini'.tail \in Nat /\ Op(t)' # "meta_extent"
  BY <1>2
<1> QED
  BY <1>2, <1>6, <1>7, <1>8, AppendedControl

LEMMA LockControl ==
  ASSUME SInv, Control, NEW t \in Threads, MiniAppendEntry(t),
         ~(Len(page[mini.tail].entries) < EntriesPerMeta),
         ~(Len(page[mini.tail].entries) = EntriesPerMeta /\ (mini.tail + 1) % PagesPerExtent # 0)
  PROVE  Control'
<1>1. /\ mini.state = "open" /\ Op(t) = "append"
      /\ Others(t) /\ Op(t)' = "meta_extent"
      /\ thread'[t].batch = thread[t].batch /\ thread'[t].addr = thread[t].addr
      /\ UNCHANGED <<ref, page, root, disk, session, err>>
      /\ DOMAIN mini' = DOMAIN mini /\ mini'.state = mini.state
      /\ mini'.head = mini.head /\ mini'.tail = mini.tail /\ mini'.locked = TRUE
      /\ mini'.next_addr = mini.next_addr /\ mini'.given = mini.given
      /\ mini'.next_extent = mini.next_extent
  BY LockEffect
<1>2. ~mini.locked
  BY DEF MiniAppendEntry
<1>3. \A u \in Threads : Op(u) # "meta_extent"
  <2>1. \A u \in Threads : OpOK(u)
    BY DEF Control, OpInv
  <2> QED
    BY <1>2, <2>1 DEF OpOK
<1>4. mini'.tail \in Nat /\ PagesOK(page)' /\ Op(t) \in Moving
  <2>1. MiniOK /\ mini # NoMini
    BY <1>1 DEF Control, NoMini
  <2> QED
    BY <1>1, <2>1 DEF MiniOK, Control, PagesOK, Moving
<1> QED
  BY <1>1, <1>3, <1>4, AppendedControl

LEMMA AppendControl ==
  ASSUME SInv, Control, NEW t \in Threads, MiniAppendEntry(t) \/ MiniMetaExtent(t),
         NEW chain, NEW dead, NEW idx, Ledger(chain, dead, idx)
  PROVE  Control' /\ err' = err
<1>1. err' = err
  BY DEF MiniAppendEntry, MiniMetaExtent
<1>2. CASE MiniAppendEntry(t)
  <2>1. thread[t].pc = "append" /\ ~mini.locked /\ UNCHANGED <<ref, root, disk, session, err>>
    BY <1>2 DEF MiniAppendEntry, At
  <2>2. CASE Len(page[mini.tail].entries) < EntriesPerMeta
    <3> SUFFICES ASSUME NEW mh, mh = mini.head, NEW tail, tail = mini.tail, NEW e1, e1 = ExtentOf(thread[t].addr),
                        NEW c, c = chain[mh], NEW n, n = Len(c), NEW old, old = page[tail].entries
                 PROVE  Control'
      BY <1>1, Zenon
    <3>1. Len(old) < EntriesPerMeta
      BY <2>2
    <3>2. /\ mini.state = "open" /\ Op(t) = "append" /\ GivesOn(t) /\ mini' = mini
          /\ page' = [page EXCEPT ![tail].entries = Append(@, e1)]
      <4>1. mini.state = "open" /\ Op(t) = "append" /\ GivesOn(t) /\ mini' = mini
        BY <1>2, <3>1, AppendHere
      <4>2. page' = [page EXCEPT ![tail].entries = Append(@, e1)]
        BY <1>2, <2>2 DEF MiniAppendEntry
      <4> QED
        BY <4>1, <4>2
    <3>3. tail \in DOMAIN page /\ DOMAIN page[tail] = {"next", "entries"} /\ old \in Seq(Extents) /\ tail \in Nat
      BY <3>2, TailPage
    <3>4. e1 \in Extents
      BY <3>2, ThreadClaims DEF Moving
    <3>5. PagesOK(page)'
      <4>1. PagesOK(page) /\ Append(old, e1) \in Seq(Extents)
        BY <3>3, <3>4 DEF Control
      <4> QED
        BY <3>2, <3>3, <4>1 DEF PagesOK
    <3>6. /\ Others(t) /\ Op(t)' = "give" /\ mini'.tail \in Nat /\ Op(t) \in Moving
          /\ thread'[t].batch = thread[t].batch /\ thread'[t].addr = thread[t].addr
          /\ UNCHANGED <<root, disk, session, mini>>
      BY <3>2, <3>3 DEF GivesOn, Moving
    <3>7. \A u \in Threads : Op(u) # "meta_extent"
      <4>1. \A u \in Threads : OpOK(u)
        BY DEF Control, OpInv
      <4> QED
        BY <2>1, <4>1 DEF OpOK
    <3> QED
      BY <3>2, <3>5, <3>6, <3>7, AppendedControl
  <2>3. CASE /\ ~(Len(page[mini.tail].entries) < EntriesPerMeta)
             /\ ~(Len(page[mini.tail].entries) = EntriesPerMeta /\ (mini.tail + 1) % PagesPerExtent # 0)
    BY <1>1, <1>2, <2>3, LockControl
  <2>4. CASE /\ ~(Len(page[mini.tail].entries) < EntriesPerMeta)
             /\ Len(page[mini.tail].entries) = EntriesPerMeta /\ (mini.tail + 1) % PagesPerExtent # 0
    <3>1. NewMetaTail(t, mini.tail + 1)
      BY <1>2, <2>4 DEF MiniAppendEntry
    <3>2. mini.tail + 1 \in Nat
      BY <2>1, <2>4, <3>1, NewTailLedger
    <3> QED
      BY <1>1, <2>1, <3>1, <3>2, NewTailControl
  <2> QED
    BY <2>2, <2>3, <2>4
<1>3. CASE MiniMetaExtent(t)
  <2>1. /\ thread[t].pc = "meta_extent" /\ NewMetaTail(t, Address(thread[t].got))
        /\ UNCHANGED <<ref, root, disk, session, err>>
    BY <1>3 DEF MiniMetaExtent, At
  <2>2. Address(thread[t].got) \in Nat
    BY <2>1, NewTailLedger
  <2> QED
    BY <1>1, <2>1, <2>2, NewTailControl
<1> QED
  BY <1>1, <1>2, <1>3

\* The page is the caller's.
LEMMA GiveControl ==
  ASSUME SInv, Control, NEW t \in Threads, MiniGive(t)
  PROVE  Control'
<1>1. PICK b, addr : b = thread[t].batch /\ addr = thread[t].addr
  OBVIOUS
<1>2. /\ mini.state = "open" /\ Op(t) = "give"
      /\ addr \in Nat /\ b \in DOMAIN mini.next_addr
      /\ Others(t) /\ Op(t)' = "idle"
      /\ UNCHANGED <<ref, page, root, disk, session>>
      /\ DOMAIN mini' = DOMAIN mini /\ mini'.state = mini.state
      /\ mini'.head = mini.head /\ mini'.tail = mini.tail /\ mini'.locked = mini.locked
      /\ mini.next_addr \in Seq(Int) /\ mini'.next_extent = mini.next_extent
      /\ mini'.next_addr = [mini.next_addr EXCEPT ![b] = addr + 1]
      /\ mini'.given = mini.given \cup {addr}
  BY <1>1, GiveEffect
<1>3. mini'.next_addr \in Seq(Int) /\ Len(mini'.next_addr) = Len(mini.next_addr)
      /\ DOMAIN mini'.next_addr = DOMAIN mini.next_addr
      /\ \A d \in DOMAIN mini.next_addr : d # b => mini'.next_addr[d] = mini.next_addr[d]
  BY <1>2
<1>4. StaysOpen(t)
  BY <1>2, <1>3 DEF StaysOpen
<1>5. MiniOK'
  <2>1. MiniOK /\ mini # NoMini
    BY <1>2 DEF Control, NoMini
  <2> QED
    BY <1>2, <1>3, <2>1 DEF MiniOK
<1>6. \A u \in Threads : OpOK(u) /\ (u # t => Apart(t, u))
  BY DEF Control, OpInv
<1>7. OpOK(t)'
  <2>1. Outside(t)'
    BY <1>2 DEF Outside
  <2> QED
    BY <2>1, OutsideOKNext
<1>8. ASSUME NEW u \in Threads, u # t, Op(u) \in AllocOp
      PROVE  mini'.next_addr[thread[u].batch] = Wait
  <2>1. thread[u].batch # b
    BY <1>1, <1>2, <1>6, <1>8 DEF Apart, AllocOp
  <2> QED
    BY <1>3, <1>6, <1>8, <2>1 DEF OpOK
<1>9. \A u \in Threads : Op(u) = "meta_extent" => mini'.locked
  BY <1>2, <1>6 DEF OpOK
<1>10. PagesOK(page)' /\ Op(t)' \notin InitOp \cup ReleaseOp \cup AllocOp
  BY <1>2 DEF Control, PagesOK, InitOp, ReleaseOp, AllocOp
<1> QED
  BY <1>2, <1>4, <1>5, <1>7, <1>8, <1>9, <1>10, OpenControl

\* mini_release
LEMMA MiniReleaseControl ==
  ASSUME SInv, Control, NEW t \in Threads, MiniRelease(t)
  PROVE  Control' /\ err' = err
<1>1. /\ session.phase = "up" /\ mini.state = "open" /\ Op(t) = "idle"
      /\ \A u \in Threads : Op(u) \in {"idle"} \cup Dropping
      /\ Others(t) /\ Op(t)' = "release" /\ thread'[t].batch = 1
      /\ UNCHANGED <<ref, page, root, disk, session, err>>
      /\ DOMAIN mini = {"state", "head", "tail", "locked", "next_addr", "next_extent", "given"}
      /\ DOMAIN mini' = DOMAIN mini /\ mini'.state = "released"
      /\ mini'.head = mini.head /\ mini'.tail = mini.tail /\ mini'.locked = mini.locked
      /\ mini'.next_addr = mini.next_addr /\ mini'.given = mini.given
      /\ mini.next_extent \in Seq(Extents) /\ Len(mini.next_extent) > 0
      /\ mini'.next_extent = mini.next_extent
  BY MiniReleaseEffect
<1>2. MiniOK'
  <2>1. MiniOK /\ mini # NoMini
    BY <1>1 DEF Control, NoMini
  <2> QED
    BY <1>1, <2>1 DEF MiniOK
<1>3. OpInv'
  <2>1. 1 \in DOMAIN mini'.next_extent
    BY <1>1
  <2>2. OpOK(t)'
    BY <1>1, <2>1 DEF OpOK, InitOp, AllocOp, ReleaseOp, Moving
  <2>3. \A u \in Threads : Outside(u)
    BY <1>1 DEF Control, OpInv, OpOK, Outside
  <2> QED
    BY <1>1, <2>2, <2>3, SoleOp
<1>4. MiniInv'
  BY <1>1 DEF MiniInv, Control, ReleaseOp
<1>5. PagesOK(page)' /\ PagesOK(disk.page)' /\ PhaseFacts'
  BY <1>1, PhaseKept DEF Control, PagesOK
<1> QED
  BY <1>1, <1>2, <1>3, <1>4, <1>5 DEF Control

LEMMA ReleaseControl ==
  ASSUME SInv, Control, NEW t \in Threads, ReleaseBatch(t)
  PROVE  Control'
<1>1. PICK b, e1 : b = thread[t].batch /\ e1 = mini.next_extent[b]
  OBVIOUS
<1>2. /\ session.phase = "up" /\ mini.state = "released" /\ Op(t) = "release"
      /\ b \in DOMAIN mini.next_extent /\ mini.next_extent \in Seq(Extents)
      /\ Others(t) /\ UNCHANGED <<page, mini, root, disk, session>>
      /\ \/ b < Len(mini.next_extent) /\ Op(t)' = "release" /\ thread'[t].batch = b + 1
         \/ b = Len(mini.next_extent) /\ Op(t)' = "released"
  BY <1>1, ReleaseEffect
<1>3. MiniOK'
  BY <1>2 DEF Control, MiniOK
<1>4. OpInv'
  <2>1. OpOK(t)'
    <3>1. Op(t)' = "release" => thread'[t].batch \in DOMAIN mini'.next_extent
      BY <1>2
    <3> QED
      BY <1>2, <3>1 DEF OpOK, InitOp, AllocOp, ReleaseOp, Moving
  <2>2. \A u \in Threads : u # t => Outside(u)
    BY <1>2, OthersOutside DEF ReleaseOp
  <2> QED
    BY <1>2, <2>1, <2>2, SoleOp
<1>5. MiniInv'
  BY <1>2, MiniInvKept DEF Control, InitOp, ReleaseOp
<1>6. PagesOK(page)' /\ PagesOK(disk.page)' /\ PhaseFacts'
  BY <1>2, PhaseKept DEF Control, PagesOK
<1> QED
  BY <1>3, <1>4, <1>5, <1>6 DEF Control

LEMMA FinishControl ==
  ASSUME SInv, Control, NEW t \in Threads, Install(t) \/ Abandon(t)
  PROVE  Control' /\ err' = err
<1>1. /\ session.phase = "up" /\ mini.head # 0 /\ Op(t) = "released"
      /\ Others(t) /\ UNCHANGED <<ref, page, disk, session, err>> /\ mini' = NoMini
      /\ \/ root' = mini.head /\ root = 0 /\ Op(t)' = "idle"
         \/ root' = mini.head /\ root # 0 /\ Op(t)' = "dec_ref" /\ thread'[t].head = root
         \/ root' = root /\ Op(t)' = "dec_ref" /\ thread'[t].head = mini.head
  BY FinishEffect
<1>2. OpInv'
  <2>1. Outside(t)'
    BY <1>1 DEF Outside, Dropping
  <2>2. OpOK(t)'
    BY <2>1, OutsideOKNext
  <2>3. \A u \in Threads : u # t => Outside(u)
    BY <1>1, OthersOutside DEF ReleaseOp
  <2> QED
    BY <1>1, <2>2, <2>3, SoleOp
<1>3. MiniInv' /\ MiniOK'
  BY <1>1 DEF MiniInv, MiniOK, NoMini
<1>4. PagesOK(page)' /\ PagesOK(disk.page)' /\ PhaseFacts'
  BY <1>1, PhaseKept DEF Control, PagesOK
<1> QED
  BY <1>1, <1>2, <1>3, <1>4 DEF Control

\* Between sessions.
LEMMA StillOps == Still => OpInv /\ MiniInv /\ MiniOK
<1> SUFFICES ASSUME Still
             PROVE  OpInv /\ MiniInv /\ MiniOK
  OBVIOUS
<1>1. \A t \in Threads : Op(t) = "idle"
  BY StillIs DEF StillFacts
<1>2. \A t \in Threads : OpOK(t)
  BY <1>1, OutsideOK DEF Outside
<1>3. \A t, u \in Threads : Apart(t, u)
  BY <1>1 DEF Apart, InitOp, ReleaseOp, AllocOp
<1> QED
  BY <1>2, <1>3 DEF OpInv, MiniInv, MiniOK, Still, NoMini

LEMMA StillOpsNext == (Still => OpInv /\ MiniInv /\ MiniOK)'
BY StillOps, PTL

LEMMA DropControl ==
  ASSUME SInv, Control, NEW t \in Threads, DecOldRoot(t) \/ ContextDeinit(t)
  PROVE  Control' /\ err' = err
<1>1. PICK head, next :
        /\ DropTree(t, head, next) /\ UNCHANGED <<ref, page, mini, disk, err>>
        /\ \/ /\ session.phase = "dec_old" /\ root' = root
              /\ next = IF session.unmount THEN "deinit" ELSE "up"
           \/ session.phase = "deinit" /\ root' = 0 /\ next = "persist"
  BY DEF DecOldRoot, ContextDeinit
<1>2. /\ Still /\ Others(t) /\ session'.phase = next
      /\ session'.crashes = session.crashes /\ session'.unmount = session.unmount
      /\ session'.exposed = session.exposed
      /\ \/ head = 0 /\ Op(t)' = "idle"
         \/ head # 0 /\ Op(t)' = "dec_ref" /\ thread'[t].head = head
  BY <1>1, DropEffect
<1>3. mini = NoMini /\ mini' = NoMini /\ mini.state = "none"
  BY <1>1, <1>2 DEF Still, NoMini
<1>4. OpInv'
  <2>1. Outside(t)'
    BY <1>2 DEF Outside, Dropping
  <2>2. OpOK(t)'
    BY <2>1, OutsideOKNext
  <2>3. \A u \in Threads : u # t => Outside(u)
    BY <1>3, OthersOutside
  <2> QED
    BY <1>2, <2>2, <2>3, SoleOp
<1>5. MiniInv' /\ MiniOK'
  BY <1>3 DEF MiniInv, MiniOK, NoMini
<1>6. PhaseFacts'
  BY <1>1, <1>2 DEF Control, PhaseFacts
<1>7. PagesOK(page)' /\ PagesOK(disk.page)'
  BY <1>1 DEF Control, PagesOK
<1> QED
  BY <1>1, <1>4, <1>5, <1>6, <1>7 DEF Control

LEMMA ShutdownControl ==
  ASSUME SInv, Control, Shutdown
  PROVE  Control' /\ err' = err
<1>1. /\ Still /\ session.phase = "up" /\ StoreType
      /\ session' = [session EXCEPT !.phase = "set_super", !.unmount = TRUE]
      /\ disk' = [disk EXCEPT !.page = page]
      /\ UNCHANGED <<ref, page, mini, root, thread, err>>
  BY DEF Shutdown, Quiet, Still, SInv
<1>2. /\ session'.phase = "set_super" /\ session'.crashes = session.crashes /\ session'.old = session.old
      /\ session'.unmount = TRUE /\ session'.exposed = session.exposed
      /\ disk'.page = page /\ disk'.super = disk.super /\ disk'.ref = disk.ref /\ disk'.saved = disk.saved
  BY <1>1, SessionFields
<1>3. Still'
  BY <1>1 DEF Still
<1>4. PhaseFacts'
  BY <1>1, <1>2 DEF Control, PhaseFacts
<1>5. PagesOK(page)' /\ PagesOK(disk.page)'
  BY <1>1, <1>2 DEF Control, PagesOK
<1> QED
  BY <1>1, <1>3, <1>4, <1>5, StillOpsNext DEF Control

LEMMA SetSuperControl ==
  ASSUME SInv, Control, SetSuperBlock
  PROVE  Control' /\ err' = err
<1>1. /\ session.phase = "set_super" /\ StoreType
      /\ session' = [session EXCEPT !.phase = "sync", !.old = disk.super.root]
      /\ UNCHANGED <<page, mini, root, thread, disk, err>>
  BY DEF SetSuperBlock, SInv
<1>2. /\ session'.phase = "sync" /\ session'.crashes = session.crashes /\ session'.unmount = session.unmount
      /\ session'.exposed = session.exposed /\ session'.old = disk.super.root
  BY <1>1, SessionFields
<1>3. Still'
  <2>1. Still
    BY <1>1, QuietIsStill DEF QuietPhase
  <2> QED
    BY <1>1, <2>1 DEF Still
<1>4. PhaseFacts'
  BY <1>1, <1>2 DEF Control, PhaseFacts
<1>5. PagesOK(page)' /\ PagesOK(disk.page)'
  BY <1>1 DEF Control, PagesOK
<1> QED
  BY <1>1, <1>3, <1>4, <1>5, StillOpsNext DEF Control

LEMMA SyncSuperControl ==
  ASSUME SInv, Control, SyncSuperBlock
  PROVE  Control' /\ err' = err
<1>1. /\ session.phase = "sync" /\ StoreType
      /\ disk' = [disk EXCEPT !.super = [root |-> root, unmounted |-> session.unmount]]
      /\ session' = [session EXCEPT !.phase = "dec_old"]
      /\ UNCHANGED <<ref, page, mini, root, thread, err>>
  BY DEF SyncSuperBlock, SInv, Phase
<1>2. /\ session'.phase = "dec_old" /\ session'.crashes = session.crashes /\ session'.unmount = session.unmount
      /\ session'.exposed = session.exposed
      /\ disk'.page = disk.page /\ disk'.saved = disk.saved
      /\ DOMAIN disk'.super = {"root", "unmounted"} /\ disk'.super.unmounted = session.unmount
  BY <1>1, SessionFields
<1>3. Still'
  <2>1. Still
    BY <1>1, QuietIsStill DEF QuietPhase
  <2> QED
    BY <1>1, <2>1 DEF Still
<1>4. PhaseFacts'
  BY <1>1, <1>2 DEF Control, PhaseFacts
<1>5. PagesOK(page)' /\ PagesOK(disk.page)'
  BY <1>1, <1>2 DEF Control, PagesOK
<1> QED
  BY <1>1, <1>3, <1>4, <1>5, StillOpsNext DEF Control

LEMMA UnmountControl ==
  ASSUME SInv, Control, AllocatorUnmount
  PROVE  Control' /\ err' = err
<1>1. /\ Still /\ session.phase = "persist" /\ StoreType
      /\ session' = [session EXCEPT !.phase = "down"]
      /\ disk' = [disk EXCEPT !.ref = ref, !.saved = TRUE]
      /\ UNCHANGED <<ref, page, mini, root, thread, err>>
  BY DEF AllocatorUnmount, Quiet, Still, SInv, Phase
<1>2. /\ session'.phase = "down" /\ session'.crashes = session.crashes /\ session'.unmount = session.unmount
      /\ session'.exposed = session.exposed
      /\ disk'.page = disk.page /\ disk'.super = disk.super /\ disk'.saved = TRUE
  BY <1>1, SessionFields
<1>3. Still'
  BY <1>1 DEF Still
<1>4. PhaseFacts'
  BY <1>1, <1>2 DEF Control, PhaseFacts
<1>5. PagesOK(page)' /\ PagesOK(disk.page)'
  BY <1>1, <1>2 DEF Control, PagesOK
<1> QED
  BY <1>1, <1>3, <1>4, <1>5, StillOpsNext DEF Control

LEMMA MountControl ==
  ASSUME SInv, Control, Mount
  PROVE  Control'
<1>1. /\ session.phase = "down" /\ ~session.exposed /\ StoreType
      /\ session' = [session EXCEPT !.phase = "set_super", !.unmount = FALSE]
      /\ root' = RootToMount
      /\ UNCHANGED <<page, mini, thread, disk>>
  BY DEF Mount, SInv
<1>2. /\ session'.phase = "set_super" /\ session'.crashes = session.crashes /\ session'.unmount = FALSE
      /\ session'.exposed = session.exposed
  BY <1>1, SessionFields
<1>3. Still'
  <2>1. Still
    BY <1>1, QuietIsStill DEF QuietPhase
  <2> QED
    BY <1>1, <2>1 DEF Still
<1>4. PhaseFacts'
  <2>1. /\ root' = disk.super.root \/ (root' = 0 /\ ~disk.super.unmounted)
    BY <1>1 DEF RootToMount
  <2> QED
    BY <1>1, <1>2, <2>1 DEF Control, PhaseFacts
<1>5. PagesOK(page)' /\ PagesOK(disk.page)'
  BY <1>1 DEF Control, PagesOK
<1> QED
  BY <1>3, <1>4, <1>5, StillOpsNext DEF Control

LEMMA CrashControl ==
  ASSUME SInv, Control, Crash
  PROVE  /\ Control' /\ err' = err /\ (~CountsBehind => ~session'.exposed)
         /\ CountsBehind => session'.exposed
<1>1. /\ session.phase # "down" /\ StoreType
      /\ session' = [session EXCEPT !.phase = "down", !.exposed = CountsBehind, !.crashes = @ + 1]
      /\ page' \in {disk.page, [a \in DOMAIN page \cup DOMAIN disk.page |->
                                  IF a \in DOMAIN page THEN page[a] ELSE disk.page[a]]}
      /\ disk' = [disk EXCEPT !.page = page']
      /\ mini' = NoMini /\ root' = 0 /\ thread' = [t \in Threads |-> Idle] /\ err' = err
  BY DEF Crash, SInv
<1>2. /\ session'.phase = "down" /\ session'.crashes = session.crashes + 1 /\ session'.exposed = CountsBehind
      /\ session'.unmount = session.unmount
      /\ disk'.page = page' /\ disk'.super = disk.super /\ disk'.saved = disk.saved
  BY <1>1, SessionFields
<1>3. Still'
  BY <1>1 DEF Still
<1>4. PhaseFacts'
  <2>1. CountsBehind \in BOOLEAN /\ (CountsBehind \/ disk.saved)
    BY DEF CountsBehind
  <2> QED
    BY <1>1, <1>2, <2>1 DEF Control, PhaseFacts
<1>5. PagesOK(page)'
  BY <1>1 DEF Control, PagesOK
<1>6. PagesOK(disk.page)'
  BY <1>2, <1>5 DEF PagesOK
<1> QED
  BY <1>1, <1>2, <1>3, <1>4, <1>5, <1>6, StillOpsNext DEF Control

-----------------------------------------------------------------------------
(* Every step. *)

\* The ledger after a step of thread t.
LedgerNext(t) ==
  Control' /\ AssertionsHold' /\ \E chain, dead, idx : Ledger(chain, dead, idx)'

LEMMA MiniNext ==
  ASSUME SInv, SInv', Control, AssertionsHold, NEW t \in Threads,
         NEW chain, NEW dead, NEW idx, Ledger(chain, dead, idx),
         \/ AllocFirst(t) \/ AllocScan(t) \/ AllocTest(t)
         \/ \E n \in 1 .. NumBatches : MiniInit(t, n)
         \/ MiniInitMeta(t) \/ MiniInitBatch(t)
         \/ mini # NoMini /\ \E b \in DOMAIN mini.next_addr : MiniAlloc(t, b)
         \/ MiniNextExtent(t) \/ MiniAppendEntry(t) \/ MiniMetaExtent(t) \/ MiniGive(t)
  PROVE  LedgerNext(t)
<1>1. err' = err => AssertionsHold'
  BY DEF AssertionsHold
<1>2. CASE AllocFirst(t) \/ AllocScan(t) \/ AllocTest(t)
  <2>1. Ledger(chain, dead, idx)'
    BY <1>2, SearchLedger
  <2>2. Control' /\ AssertionsHold'
    BY <1>1, <1>2, SearchControl
  <2> QED
    BY <2>1, <2>2 DEF LedgerNext
<1>3. ASSUME NEW n \in 1 .. NumBatches, MiniInit(t, n)
      PROVE  LedgerNext(t)
  <2>1. Ledger(chain, dead, idx)'
    BY <1>3, MiniInitLedger
  <2>2. Control' /\ AssertionsHold'
    BY <1>1, <1>3, MiniInitControl
  <2> QED
    BY <2>1, <2>2 DEF LedgerNext
<1>4. CASE MiniInitMeta(t)
  <2>1. (\E chain2 : Ledger(chain2, dead, idx)') /\ AssertionsHold'
    BY <1>4, InitMetaLedger
  <2>2. Control'
    BY <1>4, InitMetaControl
  <2> QED
    BY <2>1, <2>2 DEF LedgerNext
<1>5. CASE MiniInitBatch(t)
  <2>1. Ledger(chain, dead, idx)'
    <3> SUFFICES ASSUME NEW b, b = thread[t].batch, NEW e1, e1 = thread[t].got
                 PROVE  Ledger(chain, dead, idx)'
      BY Zenon
    <3> QED
      BY <1>5, InitBatchLedger
  <2>2. Control' /\ AssertionsHold'
    BY <1>1, <1>5, InitBatchControl
  <2> QED
    BY <2>1, <2>2 DEF LedgerNext
<1>6. ASSUME mini # NoMini, NEW b \in DOMAIN mini.next_addr, MiniAlloc(t, b)
      PROVE  LedgerNext(t)
  <2>1. Ledger(chain, dead, idx)'
    BY <1>6, MiniAllocLedger
  <2>2. Control' /\ AssertionsHold'
    BY <1>1, <1>6, MiniAllocControl
  <2> QED
    BY <2>1, <2>2 DEF LedgerNext
<1>7. CASE MiniNextExtent(t)
  <2>1. Ledger(chain, dead, idx)'
    <3> SUFFICES ASSUME NEW b, b = thread[t].batch, NEW e2, e2 = thread[t].got, NEW e1, e1 = mini.next_extent[b]
                 PROVE  Ledger(chain, dead, idx)'
      BY Zenon
    <3> QED
      BY <1>7, NextExtentLedger
  <2>2. Control' /\ AssertionsHold'
    BY <1>1, <1>7, NextExtentControl
  <2> QED
    BY <2>1, <2>2 DEF LedgerNext
<1>8. CASE MiniAppendEntry(t) \/ MiniMetaExtent(t)
  <2>1. \E chain2 : Ledger(chain2, dead, idx)'
    BY <1>8, AppendLedger
  <2>2. Control' /\ AssertionsHold'
    BY <1>1, <1>8, AppendControl
  <2> QED
    BY <2>1, <2>2 DEF LedgerNext
<1>9. CASE MiniGive(t)
  <2>1. Ledger(chain, dead, idx)' /\ Control'
    BY <1>9, GiveLedger, GiveControl
  <2>2. AssertionsHold'
    BY <1>9, GivesNew DEF Ledger
  <2> QED
    BY <2>1, <2>2 DEF LedgerNext
<1> QED
  BY <1>2, <1>3, <1>4, <1>5, <1>6, <1>7, <1>8, <1>9

LEMMA RefNext ==
  ASSUME SInv, SInv', Control, AssertionsHold, NEW t \in Threads,
         NEW chain, NEW dead, NEW idx, Ledger(chain, dead, idx),
         \/ MiniRelease(t) \/ ReleaseBatch(t) \/ Install(t) \/ Abandon(t)
         \/ Acquire(t) \/ GiveBack(t)
         \/ MiniDecRef(t) \/ MiniForEach(t) \/ MiniDeinit(t) \/ Dealloc(t) \/ Discard(t) \/ Free(t)
         \/ DecOldRoot(t) \/ ContextDeinit(t)
  PROVE  LedgerNext(t)
<1>1. err' = err => AssertionsHold'
  BY DEF AssertionsHold
<1>2. CASE MiniRelease(t)
  <2>1. Ledger(chain, dead, idx)' /\ Control' /\ err' = err
    BY <1>2, MiniReleaseLedger, MiniReleaseControl
  <2> QED
    BY <1>1, <2>1 DEF LedgerNext
<1>3. CASE ReleaseBatch(t)
  <2>1. Ledger(chain, dead, idx)' /\ AssertionsHold' /\ Control'
    BY <1>3, ReleaseLedger, ReleaseControl
  <2> QED
    BY <2>1 DEF LedgerNext
<1>4. CASE Install(t) \/ Abandon(t)
  <2>1. Ledger(chain, dead, idx)' /\ Control' /\ err' = err
    BY <1>4, FinishLedger, FinishControl
  <2> QED
    BY <1>1, <2>1 DEF LedgerNext
<1>5. CASE Acquire(t)
  <2>1. Ledger(chain, dead, idx)' /\ AssertionsHold' /\ Control'
    BY <1>5, AcquireLedger, RefControl
  <2> QED
    BY <2>1 DEF LedgerNext
<1>6. CASE GiveBack(t)
  <2>1. Ledger(chain, dead, idx)' /\ Control' /\ err' = err
    BY <1>6, GiveBackLedger, RefControl DEF GiveBack
  <2> QED
    BY <1>1, <2>1 DEF LedgerNext
<1>7. CASE MiniDecRef(t)
  <2>1. \E dead2, idx2 : Ledger(chain, dead2, idx2)'
    <3>1. CASE ref[ExtentOf(thread[t].head)] # 3
      BY <1>7, <3>1, DecLedger
    <3>2. CASE ref[ExtentOf(thread[t].head)] = 3
      BY <1>7, <3>2, LastLedger
    <3> QED
      BY <3>1, <3>2
  <2>2. Control' /\ AssertionsHold'
    BY <1>7, RefControl, DecAsserts
  <2> QED
    BY <2>1, <2>2 DEF LedgerNext
<1>8. CASE MiniForEach(t)
  <2>1. (\E idx2 : Ledger(chain, dead, idx2)') /\ AssertionsHold' /\ Control'
    BY <1>8, ForEachLedger, ForEachControl
  <2> QED
    BY <2>1 DEF LedgerNext
<1>9. CASE MiniDeinit(t)
  <2>1. (\E idx2 : Ledger(chain, dead, idx2)') /\ AssertionsHold' /\ Control'
    BY <1>9, DeinitLedger, FreeingControl
  <2> QED
    BY <2>1 DEF LedgerNext
<1>10. CASE Dealloc(t) \/ Discard(t) \/ Free(t)
  <2>1. Ledger(chain, dead, idx)' /\ AssertionsHold' /\ Control'
    BY <1>10, DeallocLedger, DiscardLedger, FreeLedger, FreeingControl
  <2> QED
    BY <2>1 DEF LedgerNext
<1>11. CASE DecOldRoot(t) \/ ContextDeinit(t)
  <2>1. Ledger(chain, dead, idx)' /\ Control' /\ err' = err
    BY <1>11, DropLedger, DropControl
  <2> QED
    BY <1>1, <2>1 DEF LedgerNext
<1> QED
  BY <1>2, <1>3, <1>4, <1>5, <1>6, <1>7, <1>8, <1>9, <1>10, <1>11

\* Where no session runs, no thread does.
LEMMA DownStill ==
  ASSUME SInv, session.phase = "down", NEW t \in Threads, ThreadStep(t)
  PROVE  FALSE
<1>1. thread[t].pc = "idle"
  BY DEF SInv, PhaseInv, Idle
<1>2. ~Running(t) /\ \A p : p # "idle" => ~At(t, p)
  BY <1>1 DEF Running, At
<1>3. ~(AllocFirst(t) \/ AllocScan(t) \/ AllocTest(t))
  BY <1>2 DEF AllocFirst, AllocScan, AllocTest
<1>4. /\ \A n : ~MiniInit(t, n)
      /\ \A b : ~MiniAlloc(t, b)
  BY <1>2 DEF MiniInit, MiniAlloc
<1>5. ~(MiniInitMeta(t) \/ MiniInitBatch(t) \/ MiniNextExtent(t) \/ MiniAppendEntry(t) \/ MiniMetaExtent(t)
        \/ MiniGive(t))
  BY <1>2 DEF MiniInitMeta, MiniInitBatch, MiniNextExtent, MiniAppendEntry, MiniMetaExtent, MiniGive
<1>6. ~(MiniRelease(t) \/ ReleaseBatch(t) \/ Install(t) \/ Abandon(t) \/ Acquire(t) \/ GiveBack(t))
  BY <1>2 DEF MiniRelease, ReleaseBatch, Install, Abandon, Acquire, GiveBack
<1>7. ~(MiniDecRef(t) \/ MiniForEach(t) \/ MiniDeinit(t) \/ Dealloc(t) \/ Discard(t) \/ Free(t))
  BY <1>2 DEF MiniDecRef, MiniForEach, MiniDeinit, Dealloc, Discard, Free
<1>8. ~(DecOldRoot(t) \/ ContextDeinit(t))
  BY DEF DecOldRoot, ContextDeinit
<1> QED
  BY <1>3, <1>4, <1>5, <1>6, <1>7, <1>8 DEF ThreadStep

\* A step that changes nothing.
LEMMA StutterControl ==
  ASSUME Control, UNCHANGED vars
  PROVE  Control'
<1>1. UNCHANGED <<ref, page, mini, root, thread, disk, session, err>>
  BY DEF vars
<1>2. \A u \in Threads : Op(u)' = Op(u)
  BY <1>1 DEF Op
<1>3. \A u \in Threads : OpOK(u)'
  BY <1>1, <1>2, OpKept DEF SameOp, Control, OpInv
<1>4. OpInv'
  BY <1>1, <1>2, <1>3 DEF Control, OpInv, Apart
<1>5. MiniInv' /\ MiniOK'
  BY <1>1, <1>2 DEF Control, MiniInv, MiniOK
<1>6. PhaseFacts' /\ PagesOK(page)' /\ PagesOK(disk.page)'
  BY <1>1, PhaseKept DEF Control, PagesOK
<1> QED
  BY <1>4, <1>5, <1>6 DEF Control

LEMMA StutterLedger ==
  ASSUME SInv, SInv', UNCHANGED vars, NEW chain, NEW dead, NEW idx, Ledger(chain, dead, idx)
  PROVE  Ledger(chain, dead, idx)'
<1>1. UNCHANGED <<ref, page, mini, root, thread, disk, session>>
  BY DEF vars
<1>2. /\ \A u \in Threads : Op(u)' = Op(u) /\ (HasGot(u)' <=> HasGot(u))
      /\ MiniHead' = MiniHead
  BY <1>1 DEF Op, HasGot, MiniHead
<1>3. \A h : Holds(h)' = Holds(h)
  BY <1>1, <1>2 DEF Holds, Users, Droppers, One
<1>4. \A u \in Threads : SameView(u)
  BY <1>1, <1>2 DEF SameView
<1>5. Steady
  <2>1. \A o, e : ByThread(o, e)' <=> ByThread(o, e)
    BY <1>1, <1>2 DEF ByThread, ThreadHas
  <2>2. \A o, e : ByBatch(o, e)' <=> ByBatch(o, e)
    BY <1>1, <1>2 DEF ByBatch, HasAhead
  <2>3. \A h : Named(h)' <=> Named(h)
    BY <1>3 DEF Named
  <2>4. \A u \in Threads : Walks(u)' <=> Walks(u)
    BY <1>2 DEF Walks
  <2> QED
    BY <1>1, <1>4, <2>1, <2>2, <2>3, <2>4 DEF Steady
<1>6. /\ TreeInv(chain)' /\ DeadInv(dead, idx)' /\ OwnerInv(chain, dead, idx)'
  BY <1>5, SteadyKept
<1>7. CountInv(chain, dead, idx)'
  <2>1. Counted
    BY <1>1, <1>3, NoneCounted DEF SInv
  <2> QED
    BY <1>5, <2>1, CountedKept DEF SInv
<1>8. MiniTreeInv(chain)'
  BY <1>1, <1>2, <1>3 DEF Ledger, MiniTreeInv
<1>9. \A c, e : (InData(c, e)' <=> InData(c, e)) /\ (InTree(c, e)' <=> InTree(c, e))
  BY <1>1 DEF InTree, InData, IsEntry
<1>10. GivenInv(chain)'
  <2>1. \A b, a : Filling(b, a)' => Filling(b, a)
    BY <1>1, <1>2 DEF Filling
  <2> QED
    BY <1>1, <1>9, <2>1, GivenKept DEF Ledger
<1>11. DiskInv(chain)'
  <2>1. \A c : Flushed(c)' <=> Flushed(c)
    BY <1>1 DEF Flushed
  <2>2. CountsBehind' <=> CountsBehind
    BY <1>1 DEF CountsBehind
  <2>3. \A e : SavedOK(chain, e) => SavedOK(chain, e)'
    <3>1. MayLose' <=> MayLose
      BY <1>1 DEF MayLose, One
    <3> QED
      BY <1>1, <1>9, <3>1 DEF SavedOK
  <2> QED
    BY <1>1, <2>1, <2>2, <2>3 DEF DiskInv, Ledger
<1> QED
  BY <1>6, <1>7, <1>8, <1>10, <1>11 DEF Ledger

LEMMA SessionNext ==
  ASSUME SInv, SInv', LedgerInv,
         Shutdown \/ SetSuperBlock \/ SyncSuperBlock \/ AllocatorUnmount \/ Mount \/ Crash
  PROVE  LedgerInv'
<1>1. Control /\ AssertionsHold
  BY DEF LedgerInv
<1>2. err' = err => AssertionsHold'
  BY <1>1 DEF AssertionsHold
<1>3. ~session.exposed
  <2>1. session.exposed => session.phase = "down"
    BY <1>1 DEF Control, PhaseFacts
  <2>2. CASE Mount
    BY <2>2 DEF Mount
  <2>3. CASE ~Mount
    BY <2>1, <2>3 DEF Shutdown, SetSuperBlock, SyncSuperBlock, AllocatorUnmount, Crash
  <2> QED
    BY <2>2, <2>3
<1>4. PICK chain, dead, idx : Ledger(chain, dead, idx)
  BY <1>3 DEF LedgerInv
<1>5. CASE Shutdown \/ SetSuperBlock \/ SyncSuperBlock \/ AllocatorUnmount
  <2>1. Ledger(chain, dead, idx)'
    BY <1>1, <1>4, <1>5, ShutdownLedger, SetSuperLedger, SyncSuperLedger, UnmountLedger
  <2>2. Control' /\ AssertionsHold'
    BY <1>1, <1>2, <1>5, ShutdownControl, SetSuperControl, SyncSuperControl, UnmountControl
  <2> QED
    BY <2>1, <2>2 DEF LedgerInv
<1>6. CASE Mount
  <2>1. Ledger(chain, dead, idx)' /\ AssertionsHold' /\ Control'
    BY <1>1, <1>4, <1>6, MountLedger, MountControl
  <2> QED
    BY <2>1 DEF LedgerInv
<1>7. CASE Crash
  <2>1. Control' /\ AssertionsHold'
    BY <1>1, <1>2, <1>7, CrashControl
  <2>2. CASE CountsBehind
    <3>1. session'.exposed
      BY <1>1, <1>7, <2>2, CrashControl
    <3> QED
      BY <2>1, <3>1 DEF LedgerInv
  <2>3. CASE ~CountsBehind
    <3>1. Ledger(chain, dead, idx)'
      BY <1>1, <1>4, <1>7, <2>3, CrashLedger
    <3> QED
      BY <2>1, <3>1 DEF LedgerInv
  <2> QED
    BY <2>2, <2>3
<1> QED
  BY <1>5, <1>6, <1>7

LEMMA NextLedgerInv == SInv /\ SInv' /\ LedgerInv /\ [Next]_vars => LedgerInv'
<1> SUFFICES ASSUME SInv, SInv', LedgerInv, [Next]_vars
             PROVE  LedgerInv'
  OBVIOUS
<1>1. Control /\ AssertionsHold
  BY DEF LedgerInv
<1>2. ASSUME NEW t \in Threads, ThreadStep(t)
      PROVE  LedgerInv'
  <2>1. ~session.exposed
    BY <1>1, <1>2, DownStill DEF Control, PhaseFacts
  <2>2. PICK chain, dead, idx : Ledger(chain, dead, idx)
    BY <2>1 DEF LedgerInv
  <2>3. LedgerNext(t)
    BY <1>1, <1>2, <2>2, MiniNext, RefNext DEF ThreadStep
  <2> QED
    BY <2>3 DEF LedgerNext, LedgerInv
<1>3. CASE Shutdown \/ SetSuperBlock \/ SyncSuperBlock \/ AllocatorUnmount \/ Mount \/ Crash
  BY <1>3, SessionNext
<1>4. CASE UNCHANGED vars
  <2>1. Control' /\ AssertionsHold'
    BY <1>1, <1>4, StutterControl DEF AssertionsHold, vars
  <2>2. CASE session.exposed
    <3>1. session'.exposed
      BY <1>4, <2>2 DEF vars
    <3> QED
      BY <2>1, <3>1 DEF LedgerInv
  <2>3. CASE ~session.exposed
    <3>1. PICK chain, dead, idx : Ledger(chain, dead, idx)
      BY <2>3 DEF LedgerInv
    <3>2. Ledger(chain, dead, idx)'
      BY <1>4, <3>1, StutterLedger
    <3> QED
      BY <2>1, <3>2 DEF LedgerInv
  <2> QED
    BY <2>2, <2>3
<1> QED
  BY <1>2, <1>3, <1>4 DEF Next

\* rc_allocator_init and core_create: nothing is claimed.
LEMMA InitLedgerInv == Init => LedgerInv
<1> SUFFICES ASSUME Init
             PROVE  LedgerInv
  OBVIOUS
<1>1. /\ ref = [e \in Extents |-> IF e = 0 THEN 2 ELSE 0]
      /\ page = <<>> /\ mini = NoMini /\ root = 0 /\ thread = [t \in Threads |-> Idle]
      /\ disk = [super |-> [root |-> 0, unmounted |-> FALSE], ref |-> [e \in Extents |-> 0],
                 saved |-> FALSE, page |-> <<>>]
      /\ session = [phase |-> "up", unmount |-> FALSE, old |-> 0, exposed |-> FALSE, crashes |-> 0]
      /\ err = {}
  BY DEF Init
<1>2. Still
  BY <1>1 DEF Still
<1>3. Control
  <2>1. PagesOK(page) /\ PagesOK(disk.page)
    BY <1>1 DEF PagesOK
  <2>2. PhaseFacts
    BY <1>1 DEF PhaseFacts
  <2> QED
    BY <1>2, <2>1, <2>2, StillOps DEF Control
<1> SUFFICES ASSUME NEW chain, NEW dead, NEW idx
             PROVE  Ledger(chain, dead, idx)
  BY <1>1, <1>3 DEF LedgerInv, AssertionsHold
<1>4. StillFacts /\ disk.super.root = 0 /\ session.phase = "up" /\ CountsBehind
  BY <1>1, <1>2, StillIs DEF CountsBehind
<1>5. \A h : ~Named(h)
  BY <1>1, <1>4 DEF StillFacts, Named, One
<1>6. \A o, e : ~Has(chain, dead, idx, o, e)
  BY <1>4, <1>5 DEF StillFacts, Has, ByTree
<1>7. TreeInv(chain) /\ DeadInv(dead, idx) /\ OwnerInv(chain, dead, idx)
  BY <1>4, <1>5, <1>6 DEF TreeInv, DeadInv, OwnerInv, StillFacts
<1>8. CountInv(chain, dead, idx)
  BY <1>1, <1>6, ExtentsNat DEF CountInv, CountOK
<1>9. MiniTreeInv(chain) /\ GivenInv(chain) /\ DiskInv(chain)
  BY <1>1, <1>4 DEF MiniTreeInv, GivenInv, DiskInv, StillFacts
<1> QED
  BY <1>7, <1>8, <1>9 DEF Ledger

(***************************************************************************)
(* Every extent in use has one owner and a count that is what its owner    *)
(* and the holders of its tree add up to, always: next to other threads,   *)
(* over sessions and after crashes that leave the counts on disk behind    *)
(* nothing (rc_allocator.c, mini_allocator.c, core_set_super_block).       *)
(***************************************************************************)
THEOREM LedgerInvariance == Spec => [](SInv /\ LedgerInv)
<1>1. Init => SInv /\ LedgerInv
  BY InitSInv, InitLedgerInv
<1>2. (SInv /\ LedgerInv) /\ [Next]_vars => (SInv /\ LedgerInv)'
  BY NextSInv, NextLedgerInv
<1> QED
  BY <1>1, <1>2, PTL DEF Spec

(***************************************************************************)
(* The assertions on the counts in mini_init, mini_release, mini_inc_ref,  *)
(* mini_dec_ref, mini_dealloc_extent and rc_allocator_inc_ref never fail,  *)
(* every page that cache_get is asked for in mini_for_each and mini_deinit *)
(* can be read, and mini_alloc gives no page away twice.                   *)
(***************************************************************************)
THEOREM CountAssertions == Spec => []AssertionsHold
<1>1. LedgerInv => AssertionsHold
  BY DEF LedgerInv
<1> QED
  BY <1>1, LedgerInvariance, PTL

(***************************************************************************)
(* rc_allocator_alloc gives up only when nothing was free all along.       *)
(***************************************************************************)
THEOREM SpaceIsFound == Spec => []SpaceFound
  BY CountAssertions, SpaceAlwaysFound, PTL

-----------------------------------------------------------------------------
(* The meta pages of a tree are those of its chain. *)

\* Page 0 holds the super block.
NoPageZero == 0 \notin DOMAIN page /\ 0 \notin DOMAIN disk.page

\* rc_allocator_alloc does not return extent 0.
LEMMA GotExtent ==
  ASSUME LedgerInv, session.phase = "up", NEW t \in Threads, HasGot(t)
  PROVE  Address(thread[t].got) # 0
<1>1. ~session.exposed
  BY DEF LedgerInv, Control, PhaseFacts
<1>2. PICK chain, dead, idx : Ledger(chain, dead, idx)
  BY <1>1 DEF LedgerInv
<1>3. Has(chain, dead, idx, TakenBy(t), thread[t].got)
  <2>1. WhoHas(chain, dead, idx)
    BY Who, Zenon
  <2> QED
    BY <2>1 DEF WhoHas
<1>4. thread[t].got \in Extents \ {0}
  BY <1>2, <1>3 DEF Ledger, OwnerInv
<1>5. thread[t].got \in Nat /\ thread[t].got # 0
  BY <1>4, ExtentsNat
<1> QED
  BY <1>5, AddressOf, Zenon

\* A page behind the last one is not page 0.
LEMMA TailNotZero ==
  ASSUME SInv, LedgerInv, NoPageZero, NEW t \in Threads, MiniAppendEntry(t) \/ MiniMetaExtent(t)
  PROVE  0 \notin DOMAIN page'
<1>1. Control /\ StoreType
  BY DEF LedgerInv, SInv
<1>2. ASSUME NEW addr, NewMetaTail(t, addr), addr # 0
      PROVE  0 \notin DOMAIN page'
  BY <1>2 DEF NewMetaTail, PageSet, NoPageZero
<1>3. CASE MiniAppendEntry(t)
  <2>1. Op(t) = "append"
    BY <1>1, <1>3, OpIs DEF MiniAppendEntry, At
  <2>2. mini.state = "open"
    BY <1>1, <2>1 DEF Control, OpInv, OpOK, AllocOp
  <2>3. mini.tail + 1 # 0
    BY <1>1, <2>2 DEF Control, MiniOK, NoMini
  <2>4. DOMAIN page' = DOMAIN page \/ NewMetaTail(t, mini.tail + 1)
    BY <1>3 DEF MiniAppendEntry
  <2> QED
    BY <1>2, <2>3, <2>4 DEF NoPageZero
<1>4. CASE MiniMetaExtent(t)
  <2>1. Op(t) = "meta_extent" /\ HasGot(t)
    BY <1>1, <1>4, OpIs DEF MiniMetaExtent, At, HasGot, ReturnPC
  <2>2. mini.state = "open"
    BY <1>1, <2>1 DEF Control, OpInv, OpOK, AllocOp
  <2>3. session.phase = "up"
    BY <1>1, <2>2 DEF Control, MiniInv
  <2> QED
    BY <1>2, <1>4, <2>1, <2>3, GotExtent DEF MiniMetaExtent
<1> QED
  BY <1>3, <1>4

LEMMA InitMetaNotZero ==
  ASSUME SInv, LedgerInv, NoPageZero, NEW t \in Threads, MiniInitMeta(t)
  PROVE  0 \notin DOMAIN page'
<1>1. Control
  BY DEF LedgerInv
<1>2. session.phase = "up" /\ HasGot(t) /\ page' = PageSet(page, Address(thread[t].got), EmptyMetaPage)
  BY <1>1, InitMetaEffect
<1>3. Address(thread[t].got) # 0
  BY <1>2, GotExtent
<1> QED
  BY <1>2, <1>3 DEF PageSet, NoPageZero

\* The steps of a thread that write no meta page.
LEMMA ThreadKeepsPages ==
  ASSUME NEW t \in Threads, ThreadStep(t)
  PROVE  \/ MiniInitMeta(t) \/ MiniAppendEntry(t) \/ MiniMetaExtent(t)
         \/ DOMAIN page' \subseteq DOMAIN page
<1>1. CASE AllocFirst(t) \/ AllocScan(t) \/ AllocTest(t) \/ \E n \in 1 .. NumBatches : MiniInit(t, n)
  BY <1>1 DEF AllocFirst, AllocScan, AllocTest, MiniInit
<1>2. CASE MiniInitBatch(t) \/ (mini # NoMini /\ \E b \in DOMAIN mini.next_addr : MiniAlloc(t, b))
  BY <1>2 DEF MiniInitBatch, MiniAlloc
<1>3. CASE MiniNextExtent(t) \/ MiniGive(t) \/ MiniRelease(t) \/ ReleaseBatch(t)
  BY <1>3 DEF MiniNextExtent, MiniGive, MiniRelease, ReleaseBatch
<1>4. CASE Install(t) \/ Abandon(t) \/ Acquire(t) \/ GiveBack(t)
  BY <1>4 DEF Install, Abandon, Acquire, GiveBack
<1>5. CASE MiniDecRef(t) \/ MiniForEach(t) \/ MiniDeinit(t) \/ Dealloc(t) \/ Free(t)
  BY <1>5 DEF MiniDecRef, MiniForEach, MiniDeinit, Dealloc, Free
<1>6. CASE Discard(t)
  BY <1>6 DEF Discard
<1>7. CASE DecOldRoot(t) \/ ContextDeinit(t)
  BY <1>7 DEF DecOldRoot, ContextDeinit
<1> QED
  BY <1>1, <1>2, <1>3, <1>4, <1>5, <1>6, <1>7 DEF ThreadStep
LEMMA ThreadKeepsDisk ==
  ASSUME NEW t \in Threads, ThreadStep(t)
  PROVE  disk' = disk
<1>1. CASE AllocFirst(t) \/ AllocScan(t) \/ AllocTest(t) \/ \E n \in 1 .. NumBatches : MiniInit(t, n)
  BY <1>1 DEF AllocFirst, AllocScan, AllocTest, MiniInit
<1>2. CASE \/ MiniInitMeta(t) \/ MiniInitBatch(t)
           \/ mini # NoMini /\ \E b \in DOMAIN mini.next_addr : MiniAlloc(t, b)
  BY <1>2 DEF MiniInitMeta, MiniInitBatch, MiniAlloc
<1>3. CASE \/ MiniNextExtent(t) \/ MiniAppendEntry(t) \/ MiniMetaExtent(t) \/ MiniGive(t)
           \/ MiniRelease(t) \/ ReleaseBatch(t)
  BY <1>3 DEF MiniNextExtent, MiniAppendEntry, MiniMetaExtent, MiniGive, MiniRelease, ReleaseBatch
<1>4. CASE Install(t) \/ Abandon(t) \/ Acquire(t) \/ GiveBack(t)
  BY <1>4 DEF Install, Abandon, Acquire, GiveBack
<1>5. CASE MiniDecRef(t) \/ MiniForEach(t) \/ MiniDeinit(t) \/ Dealloc(t) \/ Free(t) \/ Discard(t)
  BY <1>5 DEF MiniDecRef, MiniForEach, MiniDeinit, Dealloc, Free, Discard
<1>6. CASE DecOldRoot(t) \/ ContextDeinit(t)
  BY <1>6 DEF DecOldRoot, ContextDeinit
<1> QED
  BY <1>1, <1>2, <1>3, <1>4, <1>5, <1>6 DEF ThreadStep

\* No step makes a meta page of page 0.
LEMMA NextNoPageZero == SInv /\ LedgerInv /\ NoPageZero /\ [Next]_vars => NoPageZero'
<1> SUFFICES ASSUME SInv, LedgerInv, NoPageZero, [Next]_vars
             PROVE  NoPageZero'
  OBVIOUS
<1>1. ASSUME NEW t \in Threads, ThreadStep(t)
      PROVE  NoPageZero'
  <2>1. 0 \notin DOMAIN page'
    BY <1>1, ThreadKeepsPages, TailNotZero, InitMetaNotZero DEF NoPageZero
  <2>2. disk' = disk
    BY <1>1, ThreadKeepsDisk
  <2> QED
    BY <2>1, <2>2 DEF NoPageZero
<1>2. CASE Shutdown \/ SetSuperBlock \/ SyncSuperBlock \/ AllocatorUnmount \/ Mount
  <2>1. DOMAIN disk = {"super", "ref", "saved", "page"}
    BY DEF SInv, StoreType
  <2>2. page' = page /\ disk'.page \in {disk.page, page}
    BY <1>2, <2>1 DEF Shutdown, SetSuperBlock, SyncSuperBlock, AllocatorUnmount, Mount
  <2> QED
    BY <2>2 DEF NoPageZero
<1>3. CASE Crash
  <2>1. DOMAIN disk = {"super", "ref", "saved", "page"}
    BY DEF SInv, StoreType
  <2>2. page' = disk.page \/ DOMAIN page' = DOMAIN page \cup DOMAIN disk.page
    BY <1>3 DEF Crash
  <2>3. disk'.page = page'
    BY <1>3, <2>1 DEF Crash
  <2> QED
    BY <2>2, <2>3 DEF NoPageZero
<1>4. CASE UNCHANGED vars
  BY <1>4 DEF vars, NoPageZero
<1> QED
  BY <1>1, <1>2, <1>3, <1>4 DEF Next

\* The smallest of some numbers.
LEMMA Smallest ==
  ASSUME NEW S \in SUBSET Nat, S # {}
  PROVE  \E x \in S : \A y \in S : x <= y
<1> DEFINE Less == {xy \in Nat \X Nat : xy[1] < xy[2]}
<1>1. IsWellFoundedOn(Less, Nat)
  BY NatLessThanWellFounded DEF OpToRel
<1>2. PICK x \in S : \A y \in S : <<y, x>> \notin Less
  <2> HIDE DEF Less
  <2> QED
    BY <1>1, WFMin
<1>3. \A y \in S : ~(y < x)
  BY <1>2
<1> QED
  BY <1>3

\* Following the pages from the head finds the chain, and nothing else.
LEMMA PagesOfTree ==
  ASSUME NoPageZero, NEW c, NEW h, TreeOK(c, h)
  PROVE  MetaPages(h) = {c[k] : k \in 1 .. Len(c)}
<1> DEFINE P == {c[k] : k \in 1 .. Len(c)}
<1>1. /\ IsChain(c) /\ c[1] = h /\ Len(c) \in Nat /\ 1 \in 1 .. Len(c)
      /\ \A k \in 1 .. Len(c) : c[k] \in DOMAIN page /\ page[c[k]].next = IF k < Len(c) THEN c[k + 1] ELSE 0
  BY ChainPages DEF TreeOK, Linked
<1>2. P \in SUBSET DOMAIN page /\ h \in P
  BY <1>1
<1>3. \A x \in P : page[x].next \in DOMAIN page => page[x].next \in P
  <2> SUFFICES ASSUME NEW k \in 1 .. Len(c), page[c[k]].next \in DOMAIN page
               PROVE  page[c[k]].next \in P
    OBVIOUS
  <2>1. k < Len(c)
    BY <1>1 DEF NoPageZero
  <2>2. k + 1 \in 1 .. Len(c) /\ page[c[k]].next = c[k + 1]
    BY <1>1, <2>1
  <2> QED
    BY <2>2
<1>4. MetaPages(h) \subseteq P
  <2> HIDE DEF P
  <2> QED
    BY <1>2, <1>3 DEF MetaPages
<1>5. ASSUME NEW S \in SUBSET DOMAIN page, h \in S,
             \A x \in S : page[x].next \in DOMAIN page => page[x].next \in S
      PROVE  \A k \in 1 .. Len(c) : c[k] \in S
  <2> DEFINE B == {k \in 1 .. Len(c) : c[k] \notin S}
  <2> SUFFICES ASSUME B # {}
               PROVE  FALSE
    OBVIOUS
  <2>1. B \in SUBSET Nat
    BY <1>1
  <2>2. PICK k \in B : \A j \in B : k <= j
    <3> HIDE DEF B
    <3> QED
      BY <2>1, Smallest
  <2>3. k \in 1 .. Len(c) /\ c[k] \notin S /\ k # 1
    BY <1>1, <1>5
  <2>4. k - 1 \in 1 .. Len(c) /\ k - 1 < Len(c) /\ ~(k <= k - 1) /\ (k - 1) + 1 = k
    BY <1>1, <2>3
  <2>5. c[k - 1] \in S
    BY <2>2, <2>4
  <2>6. page[c[k - 1]].next = c[k] /\ c[k] \in DOMAIN page
    BY <1>1, <2>3, <2>4
  <2> QED
    BY <1>5, <2>3, <2>5, <2>6
<1>6. P \subseteq MetaPages(h)
  <2> SUFFICES ASSUME NEW k \in 1 .. Len(c)
               PROVE  c[k] \in MetaPages(h)
    OBVIOUS
  <2>1. h \in DOMAIN page /\ c[k] \in DOMAIN page
    BY <1>1, <1>2
  <2> QED
    BY <1>5, <2>1 DEF MetaPages
<1> QED
  BY <1>4, <1>6

\* What a tree owns is what its chain lists.
LEMMA OwnedOfTree ==
  ASSUME NoPageZero, PagesOK(page), NEW c, NEW h, TreeOK(c, h), NEW e
  PROVE  e \in Owned(h) <=> InTree(c, e)
<1>1. MetaPages(h) = {c[k] : k \in 1 .. Len(c)}
  BY PagesOfTree
<1>2. \A k \in 1 .. Len(c) : c[k] \in DOMAIN page
  BY DEF TreeOK, Linked
<1>3. \A k \in 1 .. Len(c) : page[c[k]].entries \in Seq(Extents)
  BY <1>2 DEF PagesOK
<1>4. \A k \in 1 .. Len(c) : e \in ToSet(page[c[k]].entries) <=> \E i : IsEntry(c[k], i, e)
  BY <1>3 DEF ToSet, IsEntry
<1>5. e \in Owned(h) <=> \E k \in 1 .. Len(c) : e \in ToSet(page[c[k]].entries) \/ e = ExtentOf(c[k])
  BY <1>1 DEF Owned
<1> QED
  BY <1>4, <1>5 DEF InTree, InData

-----------------------------------------------------------------------------
(* What the properties of Storage say, from the ledger. *)

Up(chain, dead, idx) ==
  /\ session.phase = "up" /\ Control /\ NoPageZero /\ Ledger(chain, dead, idx)

\* The trees that the properties speak of are named.
LEMMA LiveNamed ==
  ASSUME Control, NEW h \in LiveTrees \cup MiniTrees
  PROVE  Named(h)
<1>1. CASE h \in LiveTrees
  BY <1>1, NamedBy DEF LiveTrees, HeldBy
<1>2. CASE h \in MiniTrees
  <2>1. mini.state = "open" /\ h = mini.head
    BY <1>2 DEF MiniTrees
  <2>2. h # 0 /\ MiniHead = h
    BY <2>1 DEF Control, MiniInv, MiniHead
  <2> QED
    BY <2>2, NamedBy
<1> QED
  BY <1>1, <1>2

\* An extent of a tree is claimed by the tree.
LEMMA OwnedClaim ==
  ASSUME NEW chain, NEW dead, NEW idx, Up(chain, dead, idx),
         NEW h, Named(h), NEW e \in Owned(h)
  PROVE  \E o : o[1] \in {"meta", "data"} /\ o[2] = h /\ Has(chain, dead, idx, o, e)
<1>1. TreeOK(chain[h], h)
  BY DEF Up, Ledger, TreeInv
<1>2. InTree(chain[h], e)
  BY <1>1, OwnedOfTree DEF Up, Control
<1>3. PICK k \in 1 .. Len(chain[h]) : ExtentOf(chain[h][k]) = e \/ \E i : IsEntry(chain[h][k], i, e)
  BY <1>2 DEF InTree, InData
<1>4. CASE ExtentOf(chain[h][k]) = e
  <2>1. Has(chain, dead, idx, Meta(h), e)
    BY <1>3, <1>4 DEF Has, ByTree, TreeHas
  <2> QED
    BY <2>1, Tags
<1>5. CASE \E i : IsEntry(chain[h][k], i, e)
  <2>1. PICK i : IsEntry(chain[h][k], i, e)
    BY <1>5
  <2>2. Has(chain, dead, idx, Data(h, k, i), e)
    BY <1>3, <2>1 DEF Has, ByTree, TreeHas
  <2> QED
    BY <2>2, Tags
<1> QED
  BY <1>3, <1>4, <1>5

\* And what a tree claims is an extent of it.
LEMMA ClaimOwned ==
  ASSUME NEW chain, NEW dead, NEW idx, Up(chain, dead, idx), NEW o, NEW e, ByTree(chain, o, e)
  PROVE  \E h : Named(h) /\ e \in Owned(h)
<1>1. PICK h : Named(h) /\ TreeHas(chain[h], h, o, e)
  BY DEF ByTree
<1>2. TreeOK(chain[h], h)
  BY <1>1 DEF Up, Ledger, TreeInv
<1>3. InTree(chain[h], e)
  BY <1>1 DEF TreeHas, InTree, InData
<1>4. e \in Owned(h)
  BY <1>2, <1>3, OwnedOfTree DEF Up, Control
<1> QED
  BY <1>1, <1>4

\* What lies ahead of a batch of the open mini allocator.
LEMMA AheadClaim ==
  ASSUME NEW chain, NEW dead, NEW idx, NEW b \in DOMAIN Ahead
  PROVE  Has(chain, dead, idx, AheadOf(b), Ahead[b])
<1>1. mini.state = "open" /\ Ahead = mini.next_extent
  BY DEF Ahead
<1>2. HasAhead(b) /\ mini.next_extent[b] = Ahead[b]
  BY <1>1 DEF HasAhead
<1> QED
  BY <1>2 DEF Has, ByBatch

\* The properties of one tree.
LEMMA OneTreeOwns ==
  ASSUME NEW chain, NEW dead, NEW idx, Up(chain, dead, idx), NEW h \in LiveTrees \cup MiniTrees
  PROVE  /\ h \in DOMAIN page
         /\ \A e \in Owned(h) : ref[e] >= MiniNoRefs /\ e # 0
         /\ \A g \in LiveTrees \cup MiniTrees : g # h => Owned(g) \cap Owned(h) = {}
         /\ Owned(h) \cap ToSet(Ahead) = {}
<1>1. Named(h) /\ \A g \in LiveTrees \cup MiniTrees : Named(g)
  BY LiveNamed DEF Up
<1>2. OwnerInv(chain, dead, idx) /\ CountInv(chain, dead, idx) /\ TreeOK(chain[h], h)
  BY <1>1 DEF Up, Ledger, TreeInv
<1>3. h \in DOMAIN page
  BY <1>2 DEF TreeOK, IsChain, Linked
<1>4. ASSUME NEW e \in Owned(h)
      PROVE  ref[e] >= MiniNoRefs /\ e # 0
  <2>1. PICK o : o[1] \in {"meta", "data"} /\ Has(chain, dead, idx, o, e)
    BY <1>1, OwnedClaim
  <2>2. e \in Extents \ {0}
    BY <1>2, <2>1 DEF OwnerInv
  <2>3. ref[e] = Base(o) + Holds(Address(e))
    BY <1>2, <2>1, <2>2 DEF CountInv, CountOK, Up
  <2>4. Base(o) = 2
    BY <2>1, Tags DEF Base
  <2>5. Holds(Address(e)) \in Nat
    BY HoldsNat, Zenon
  <2> QED
    BY <2>2, <2>3, <2>4, <2>5 DEF MiniNoRefs
<1>5. ASSUME NEW g \in LiveTrees \cup MiniTrees, g # h, NEW e \in Owned(g) \cap Owned(h)
      PROVE  FALSE
  <2>1. PICK o : o[2] = h /\ Has(chain, dead, idx, o, e)
    BY <1>1, OwnedClaim
  <2>2. PICK p : p[2] = g /\ Has(chain, dead, idx, p, e)
    BY <1>1, OwnedClaim
  <2>3. p = o
    BY <1>2, <2>1, <2>2 DEF OwnerInv
  <2> QED
    BY <1>5, <2>1, <2>2, <2>3
<1>6. ASSUME NEW e \in Owned(h), e \in ToSet(Ahead)
      PROVE  FALSE
  <2>1. PICK o : o[1] \in {"meta", "data"} /\ Has(chain, dead, idx, o, e)
    BY <1>1, OwnedClaim
  <2>2. PICK b \in DOMAIN Ahead : Ahead[b] = e
    BY <1>6 DEF ToSet
  <2>3. Has(chain, dead, idx, AheadOf(b), e)
    BY <2>2, AheadClaim
  <2>4. AheadOf(b) = o
    BY <1>2, <2>1, <2>3 DEF OwnerInv
  <2> QED
    BY <2>1, <2>4, Tags
<1> QED
  BY <1>3, <1>4, <1>5, <1>6

LEMMA OwnersApart ==
  ASSUME NEW chain, NEW dead, NEW idx, Up(chain, dead, idx)
  PROVE  OneOwner
<1>1. IsInjective(Ahead)
  <2> SUFFICES ASSUME NEW a \in DOMAIN Ahead, NEW b \in DOMAIN Ahead, Ahead[a] = Ahead[b]
               PROVE  a = b
    BY DEF IsInjective
  <2>1. Has(chain, dead, idx, AheadOf(a), Ahead[a]) /\ Has(chain, dead, idx, AheadOf(b), Ahead[a])
    BY AheadClaim
  <2>2. AheadOf(a) = AheadOf(b)
    BY <2>1 DEF Up, Ledger, OwnerInv
  <2> QED
    BY <2>2, Tags
<1>2. \A h \in LiveTrees \cup MiniTrees :
        /\ h \in DOMAIN page
        /\ \A e \in Owned(h) : ref[e] >= MiniNoRefs /\ e # 0
        /\ \A g \in LiveTrees \cup MiniTrees : g # h => Owned(g) \cap Owned(h) = {}
        /\ Owned(h) \cap ToSet(Ahead) = {}
  BY OneTreeOwns
<1> QED
  BY <1>1, <1>2 DEF OneOwner

\* Between operations the holders of a tree are those that the property counts.
Between == session.phase = "up" /\ Control /\ \A t \in Threads : At(t, "idle")

LEMMA BetweenFacts ==
  ASSUME Between
  PROVE  /\ \A t \in Threads : Op(t) = "idle" /\ ~HasGot(t) /\ ~Walks(t)
         /\ mini.state \in {"none", "open"}
         /\ \A h : Droppers(h) = {}
<1>1. \A t \in Threads : Op(t) = "idle" /\ ~HasGot(t) /\ ~Walks(t)
  BY DEF Between, At, Op, SearchPC, HasGot, ReturnPC, Walks, Walking, Freeing
<1>2. mini.state \in {"none", "open"}
  <2>1. mini.state \in {"none", "init", "open", "released"}
    BY DEF Between, Control, MiniOK, NoMini
  <2>2. mini.state # "init" /\ mini.state # "released"
    BY <1>1 DEF Between, Control, MiniInv, InitOp, ReleaseOp
  <2> QED
    BY <2>1, <2>2
<1> QED
  BY <1>1, <1>2 DEF Droppers

LEMMA BetweenHolds ==
  ASSUME Between, NEW h, h # 0
  PROVE  Holders(h) \in Nat /\ Holds(h) = Holders(h) + (IF h \in MiniTrees THEN 1 ELSE 0)
<1>1. Cardinality(Droppers(h)) = 0 /\ Cardinality(Users(h)) \in Nat
  BY BetweenFacts, HoldsNat, FS_EmptySet
<1>2. MiniHead = h <=> h \in MiniTrees
  BY BetweenFacts DEF MiniHead, MiniTrees
<1>3. Users(h) = {t \in Threads : HeldBy(t) = h}
  BY DEF Users, HeldBy
<1>4. Holders(h) = (IF root = h THEN 1 ELSE 0) + (IF disk.super.root = h THEN 1 ELSE 0)
                 + Cardinality(Users(h))
  BY <1>3 DEF Holders
<1>5. Holds(h) = One(root = h) + One(disk.super.root = h) + One(MiniHead = h) + Cardinality(Users(h))
  BY <1>1 DEF Holds, Between, One
<1> QED
  BY <1>1, <1>2, <1>4, <1>5 DEF One

\* Whoever is named then is live, or the tree of the mini allocator.
LEMMA BetweenNamed ==
  ASSUME Between, NEW h, Named(h)
  PROVE  h \in LiveTrees \cup MiniTrees
<1>1. h # 0 /\ Holds(h) > 0
  BY DEF Named
<1>2. CASE h \in MiniTrees
  BY <1>2
<1>3. CASE h \notin MiniTrees
  <2>1. Holders(h) > 0
    BY <1>1, <1>3, BetweenHolds
  <2>2. CASE root = h \/ disk.super.root = h
    BY <1>1, <2>2 DEF LiveTrees
  <2>3. CASE root # h /\ disk.super.root # h
    <3>1. Cardinality(Users(h)) \in Nat /\ Users(h) = {t \in Threads : HeldBy(t) = h}
      BY HoldsNat DEF Users, HeldBy
    <3>2. Cardinality(Users(h)) > 0
      BY <2>1, <2>3, <3>1 DEF Holders
    <3>3. Users(h) # {}
      BY <3>2, FS_EmptySet
    <3> QED
      BY <1>1, <3>1, <3>3 DEF LiveTrees
  <2> QED
    BY <2>2, <2>3
<1> QED
  BY <1>2, <1>3

\* The extents that the property expects to be in use.
InUse == (UNION {Owned(h) : h \in LiveTrees \cup MiniTrees}) \cup ToSet(Ahead)

LEMMA UsedExact ==
  ASSUME NEW chain, NEW dead, NEW idx, Up(chain, dead, idx), Between, NEW e \in Extents \ {0}, e \in InUse
  PROVE  ref[e] = 2 + Holds(Address(e))
<1>1. \E o : o[1] \in {"meta", "data", "ahead"} /\ Has(chain, dead, idx, o, e)
  <2>1. CASE e \in ToSet(Ahead)
    <3>1. PICK b \in DOMAIN Ahead : Ahead[b] = e
      BY <2>1 DEF ToSet
    <3>2. Has(chain, dead, idx, AheadOf(b), e)
      BY <3>1, AheadClaim
    <3> QED
      BY <3>2, Tags
  <2>2. CASE e \notin ToSet(Ahead)
    <3>1. PICK h \in LiveTrees \cup MiniTrees : e \in Owned(h)
      BY <2>2 DEF InUse
    <3>2. Named(h)
      BY <3>1, LiveNamed DEF Up
    <3> QED
      BY <3>1, <3>2, OwnedClaim
  <2> QED
    BY <2>1, <2>2
<1>2. PICK o : o[1] \in {"meta", "data", "ahead"} /\ Has(chain, dead, idx, o, e)
  BY <1>1
<1>3. Base(o) = 2
  BY <1>2, Tags DEF Base
<1> QED
  BY <1>2, <1>3 DEF Up, Ledger, CountInv, CountOK

LEMMA UnusedFree ==
  ASSUME NEW chain, NEW dead, NEW idx, Up(chain, dead, idx), Between, NEW e \in Extents \ {0}, e \notin InUse
  PROVE  ref[e] = 0 \/ (ref[e] > 0 /\ session.crashes >= 2)
<1>1. ASSUME NEW o, Has(chain, dead, idx, o, e)
      PROVE  FALSE
  <2>1. CASE ByTree(chain, o, e)
    <3>1. PICK h : Named(h) /\ e \in Owned(h)
      BY <2>1, ClaimOwned
    <3>2. h \in LiveTrees \cup MiniTrees
      BY <3>1, BetweenNamed
    <3> QED
      BY <3>1, <3>2, <1>1 DEF InUse
  <2>2. CASE ByDead(dead, idx, o, e)
    BY <2>2, BetweenFacts DEF ByDead
  <2>3. CASE ByThread(o, e)
    BY <2>3, BetweenFacts DEF ByThread, ThreadHas, Moving, Freeing
  <2>4. CASE ByBatch(o, e)
    <3>1. PICK b : HasAhead(b) /\ mini.next_extent[b] = e
      BY <2>4 DEF ByBatch
    <3>2. mini.state = "open" /\ b \in DOMAIN mini.next_extent
      BY <3>1, BetweenFacts DEF HasAhead
    <3>3. e \in ToSet(Ahead)
      BY <3>1, <3>2 DEF Ahead, ToSet
    <3> QED
      BY <3>3 DEF InUse
  <2> QED
    BY <1>1, <2>1, <2>2, <2>3, <2>4 DEF Has
<1> QED
  BY <1>1 DEF Up, Ledger, CountInv, CountOK

LEMMA CountsExact ==
  ASSUME StoreType, NEW chain, NEW dead, NEW idx, Up(chain, dead, idx)
  PROVE  RefsExact
<1> SUFFICES ASSUME \A t \in Threads : At(t, "idle"), NEW e \in Extents
             PROVE  IF session.crashes < 2 THEN ref[e] = Expected(e) ELSE ref[e] >= Expected(e)
  BY DEF RefsExact
<1>1. Between
  BY DEF Between, Up
<1>0. session.crashes \in Nat /\ ref[e] \in Int
  BY DEF Up, Control, PhaseFacts, StoreType
<1>2. CASE e = 0
  <2>1. ref[e] = 2
    BY <1>2 DEF Up, Ledger, CountInv
  <2>2. Expected(e) = 2
    BY <1>2 DEF Expected
  <2> QED
    BY <2>1, <2>2
<1>3. CASE e # 0 /\ e \in InUse
  <2>1. Address(e) # 0
    <3>1. e \in Nat
      BY ExtentsNat
    <3> QED
      BY <1>3, <3>1, AddressOf, Zenon
  <2>2. Expected(e) = 2 + Holders(Address(e)) + (IF Address(e) \in MiniTrees THEN 1 ELSE 0)
    BY <1>3 DEF Expected, InUse
  <2>3. Holds(Address(e)) = Holders(Address(e)) + (IF Address(e) \in MiniTrees THEN 1 ELSE 0)
    BY <1>1, <2>1, BetweenHolds
  <2>4. ref[e] = 2 + Holds(Address(e))
    BY <1>1, <1>3, UsedExact
  <2>5. Holders(Address(e)) \in Nat
    BY <1>1, <2>1, BetweenHolds
  <2>6. ref[e] = Expected(e)
    BY <2>2, <2>3, <2>4, <2>5
  <2> QED
    BY <1>0, <2>6
<1>4. CASE e # 0 /\ e \notin InUse
  <2>1. Expected(e) = 0
    BY <1>4 DEF Expected, InUse
  <2>2. ref[e] = 0 \/ (ref[e] > 0 /\ session.crashes >= 2)
    BY <1>1, <1>4, UnusedFree
  <2> QED
    BY <1>0, <2>1, <2>2
<1> QED
  BY <1>2, <1>3, <1>4

\* While the program runs the ledger is there.
LEMMA LedgerShows == SInv /\ LedgerInv /\ NoPageZero => OneOwner /\ RefsExact
<1> SUFFICES ASSUME SInv, LedgerInv, NoPageZero, session.phase = "up"
             PROVE  OneOwner /\ RefsExact
  BY DEF OneOwner, RefsExact
<1>1. Control /\ ~session.exposed
  BY DEF LedgerInv, Control, PhaseFacts
<1>2. PICK chain, dead, idx : Ledger(chain, dead, idx)
  BY <1>1 DEF LedgerInv
<1>3. Up(chain, dead, idx)
  BY <1>1, <1>2 DEF Up
<1> QED
  BY <1>3, OwnersApart, CountsExact DEF SInv

\* And page 0 is never a meta page.
LEMMA PageZeroFree == Spec => []NoPageZero
<1>1. Init => NoPageZero
  <2> SUFFICES ASSUME Init
               PROVE  NoPageZero
    OBVIOUS
  <2>1. page = <<>> /\ disk.page = <<>>
    BY DEF Init
  <2> QED
    BY <2>1 DEF NoPageZero
<1>2. (SInv /\ LedgerInv) /\ NoPageZero /\ [Next]_vars => NoPageZero'
  BY NextNoPageZero
<1> QED
  BY <1>1, <1>2, LedgerInvariance, PTL DEF Spec

(***************************************************************************)
(* While the program runs, an extent belongs to one live tree, or to the   *)
(* mini allocator, or lies ahead of one batch, and what a live tree needs  *)
(* is readable and not free (mini_alloc and mini_dec_ref of any number of  *)
(* threads, core_mount after a clean end or a crash).                      *)
(***************************************************************************)
THEOREM OneOwnerAlways == Spec => []OneOwner
  BY LedgerShows, LedgerInvariance, PageZeroFree, PTL

(***************************************************************************)
(* Between operations the count of every extent is exactly what its owners *)
(* account for, over any number of sessions and one crash; after more, no  *)
(* count is too low (rc_allocator_inc_ref and _dec_ref, mini_release,      *)
(* mini_dec_ref, core_set_super_block).                                    *)
(***************************************************************************)
THEOREM RefsExactAlways == Spec => []RefsExact
  BY LedgerShows, LedgerInvariance, PageZeroFree, PTL
=============================================================================
