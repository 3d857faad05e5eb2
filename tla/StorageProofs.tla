--------------------------- MODULE StorageProofs ---------------------------
(***************************************************************************)
(* rc_allocator_alloc finds what is free, for any number of threads that   *)
(* share the hand, next to everything else that changes the counts.        *)
(*                                                                         *)
(* A thread that comes round has not looked at every extent itself: the    *)
(* hand gives each one to one thread.  The invariant says that of the      *)
(* extents that were free all along, those the hand has passed since the   *)
(* search began are in the hands of threads that still have to test them.  *)
(*                                                                         *)
(* The second part is about the ledger of StorageInv.  A step moves the    *)
(* claim to one or two extents from one owner to another, or changes the   *)
(* holders of one tree; lemmas say what follows for all other extents, and *)
(* each operation that opens, fills, takes or drops a tree shows what it   *)
(* changes.  StorageLedger goes on with the walk that gives a tree back.   *)
(***************************************************************************)
EXTENDS StorageInv, FiniteSetTheorems, SequenceTheorems, TLAPS

\* A thread that does not search, or is about to.
Off(r) ==
  /\ DOMAIN r = Fields /\ r.pc \notin SearchPC
  /\ r.pc = "first" => r.ret \in ReturnPC

\* A thread that searches.
On(r) ==
  /\ DOMAIN r = Fields /\ r.pc \in SearchPC
  /\ r.ret \in ReturnPC
  /\ r.first \in Extents /\ r.free \subseteq Extents
  /\ r.pc # "scan" => r.hand \in Extents

StoreType ==
  /\ ref \in [Extents -> Int]
  /\ hand \in Extents
  /\ DOMAIN disk = {"super", "ref", "saved", "page"} /\ disk.ref \in [Extents -> Int]
  /\ DOMAIN session = {"phase", "unmount", "old", "exposed", "crashes"}
  /\ thread = [t \in Threads |-> thread[t]]
  /\ \A t \in Threads : Off(thread[t]) \/ On(thread[t])

\* Nobody runs while the super block is written, or before the mount.
PhaseInv ==
  session.phase \in {"set_super", "sync", "dec_old", "down"} =>
    \A t \in Threads : thread[t] = Idle

\* The hand has passed extent e since it was at first.
Passed(first, e) ==
  IF first <= hand THEN first <= e /\ e < hand ELSE first <= e \/ e < hand

\* Some thread is about to test e.
InHand(e) == \E v \in Threads : At(v, "test") /\ thread[v].hand = e

\* What was free when the search of t began and has not been taken is free, and
\* what the hand has passed of it is about to be tested: all of it, once the
\* round is over.
Searches(t) ==
  \A e \in thread[t].free :
    /\ ref[e] = 0
    /\ Passed(thread[t].first, e) => InHand(e)
    /\ At(t, "test") /\ RoundIsOver(t) => InHand(e)
    /\ At(t, "no_space") => InHand(e)

SearchInv == \A t \in Threads : thread[t].pc \in SearchPC => Searches(t)

\* A failed assertion stops the process, so that nothing is said after one.
SInv == StoreType /\ PhaseInv /\ (AssertionsHold => SearchInv)

-----------------------------------------------------------------------------
\* The hand goes to the next extent, and from the last one to the first.
LEMMA NextHand ==
  ASSUME NEW h \in Extents
  PROVE  (h + 1) % NumExtents = IF h + 1 = NumExtents THEN 0 ELSE h + 1
<1> DEFINE q == (h + 1) \div NumExtents
           m == (h + 1) % NumExtents
<1>1. /\ NumExtents \in Nat /\ NumExtents >= 1 /\ h \in Nat /\ h + 1 <= NumExtents
      /\ q \in Int /\ m \in Int /\ 0 <= m /\ m < NumExtents
      /\ h + 1 = NumExtents * q + m
  BY StorageAssumption DEF Extents
<1>2. m = IF h + 1 = NumExtents THEN 0 ELSE h + 1
  <2> HIDE DEF q, m
  <2>1. CASE q >= 2
    <3>1. NumExtents * q >= NumExtents * 2
      BY <1>1, <2>1
    <3> QED
      BY <1>1, <3>1
  <2>2. CASE q = 1
    BY <1>1, <2>2
  <2>3. CASE q = 0
    BY <1>1, <2>3
  <2>4. CASE q <= -1
    <3>1. NumExtents * (0 - q) >= NumExtents
      BY <1>1, <2>4
    <3>2. NumExtents * q = 0 - NumExtents * (0 - q)
      BY <1>1
    <3> QED
      BY <1>1, <3>1, <3>2
  <2> QED
    BY <1>1, <2>1, <2>2, <2>3, <2>4
<1> QED
  BY <1>2

\* It stays on the disk.
LEMMA HandType == \A h \in Extents : (h + 1) % NumExtents \in Extents
  BY NextHand, StorageAssumption DEF Extents

\* Thread t goes on, outside the search.
Moves(t) == \E r : Off(r) /\ thread' = [thread EXCEPT ![t] = r]

\* A call of rc_allocator_alloc by a thread that does not search.
LEMMA CallOff ==
  ASSUME StoreType, NEW t \in Threads, Off(thread[t]), NEW ret \in ReturnPC, NEW b,
         CallAlloc(t, ret, b)
  PROVE  Moves(t)
<1> DEFINE f == [pc |-> "first", ret |-> ret, batch |-> b]
           r == With(thread[t], f)
<1>1. thread' = [thread EXCEPT ![t] = r]
  BY DEF CallAlloc, Goes
<1>2. DOMAIN f = {"pc", "ret", "batch"} /\ f["pc"] = "first" /\ f["ret"] = ret
  OBVIOUS
<1> HIDE DEF f
<1>3. DOMAIN r = Fields /\ r["pc"] = "first" /\ r["ret"] = ret
  BY <1>2 DEF With, Off, Fields
<1> HIDE DEF r
<1>4. Off(r)
  BY <1>3 DEF Off, SearchPC
<1> QED
  BY <1>1, <1>4 DEF Moves

\* Any other step of a thread that does not search.
LEMMA GoesOff ==
  ASSUME NEW t \in Threads, Off(thread[t]), NEW f, Goes(t, f), "ret" \notin DOMAIN f,
         "pc" \in DOMAIN f => f["pc"] \notin SearchPC \cup {"first"}
  PROVE  Moves(t)
<1> DEFINE r == With(thread[t], f)
<1>1. thread' = [thread EXCEPT ![t] = r]
  BY DEF Goes
<1>2. /\ DOMAIN r = Fields
      /\ r["pc"] = (IF "pc" \in DOMAIN f THEN f["pc"] ELSE thread[t]["pc"]) /\ r["ret"] = thread[t]["ret"]
  BY DEF With, Off, Fields
<1> HIDE DEF r
<1>3. Off(r)
  BY <1>2 DEF Off
<1> QED
  BY <1>1, <1>3 DEF Moves

\* The fields of a thread.
LEMMA IdleFields == DOMAIN Idle = Fields /\ Idle.pc = "idle" /\ Idle.held = 0
  BY DEF Idle, Fields

\* A thread whose call has returned.
LEMMA BecomesOff ==
  ASSUME NEW t \in Threads, Becomes(t)
  PROVE  Moves(t)
<1> DEFINE f == [held |-> thread[t].held]
           r == With(Idle, f)
<1>1. thread' = [thread EXCEPT ![t] = r]
  BY DEF Becomes
<1>2. DOMAIN f = {"held"}
  OBVIOUS
<1> HIDE DEF f
<1>3. DOMAIN r = Fields /\ r["pc"] = "idle"
  BY <1>2, IdleFields DEF With, Fields
<1> HIDE DEF r
<1>4. Off(r)
  BY <1>3 DEF Off, SearchPC
<1> QED
  BY <1>1, <1>4 DEF Moves

\* The phases in which no thread runs.
QuietPhase == {"set_super", "sync", "dec_old", "down"}

\* A step of a thread outside the search disturbs no search, if it changes only
\* the counts of extents that are in use.
LEMMA LocalStep ==
  ASSUME SInv, NEW t \in Threads, Off(thread[t]),
         Moves(t),
         UNCHANGED <<hand, disk>>, ref' \in [Extents -> Int],
         DOMAIN session' = DOMAIN session, session'.phase \notin QuietPhase,
         AssertionsHold' => AssertionsHold /\ \A e \in Extents : ref[e] = 0 => ref'[e] = 0
  PROVE  SInv'
<1>1. PICK r : Off(r) /\ thread' = [thread EXCEPT ![t] = r]
  BY DEF Moves
<1>2. StoreType
  BY DEF SInv
<1>3. thread' = [u \in Threads |-> thread'[u]] /\ thread'[t] = r /\ \A u \in Threads \ {t} : thread'[u] = thread[u]
  BY <1>1, <1>2 DEF StoreType
<1>4. StoreType'
  BY <1>1, <1>2, <1>3 DEF StoreType
<1>5. PhaseInv'
  BY DEF PhaseInv, QuietPhase
<1>6. ASSUME AssertionsHold', NEW u \in Threads, thread'[u].pc \in SearchPC
      PROVE  Searches(u)'
  <2>1. u # t /\ thread'[u] = thread[u]
    BY <1>1, <1>3, <1>6 DEF Off
  <2>2. Searches(u) /\ On(thread[u])
    BY <1>2, <1>6, <2>1 DEF SInv, SearchInv, StoreType, Off
  <2>3. \A e : InHand(e) => InHand(e)'
    <3> SUFFICES ASSUME NEW e, NEW v \in Threads, thread[v].pc = "test", thread[v].hand = e
                 PROVE  InHand(e)'
      BY DEF InHand, At
    <3>1. v # t
      BY DEF Off, SearchPC
    <3> QED
      BY <1>3, <3>1 DEF InHand, At
  <2>4. \A e \in thread[u].free : e \in Extents
    BY <2>2 DEF On
  <2>5. \A e : Passed(thread[u].first, e)' <=> Passed(thread[u].first, e)
    BY <2>1 DEF Passed
  <2>6. RoundIsOver(u)' <=> RoundIsOver(u)
    BY <2>1 DEF RoundIsOver
  <2> QED
    BY <1>6, <2>1, <2>2, <2>3, <2>4, <2>5, <2>6 DEF Searches, At
<1> QED
  BY <1>4, <1>5, <1>6 DEF SInv, SearchInv

-----------------------------------------------------------------------------
\* A thread inside an operation, or in a session that is up, keeps its session.
LEMMA Runs ==
  ASSUME SInv, NEW t \in Threads, thread[t].pc # "idle" \/ session.phase = "up"
  PROVE  session.phase \notin QuietPhase
  BY IdleFields DEF SInv, PhaseInv, QuietPhase

\* The thread does not search.
LEMMA OffAt ==
  ASSUME SInv, NEW t \in Threads, thread[t].pc \notin SearchPC
  PROVE  Off(thread[t])
  BY DEF SInv, StoreType, On

\* What the operations of a mini allocator do that leave the counts alone.
MiniStep(t) ==
  \/ \E n \in 1 .. NumBatches : MiniInit(t, n)
  \/ MiniInitBatch(t)
  \/ mini # NoMini /\ \E b \in DOMAIN mini.next_addr : MiniAlloc(t, b)
  \/ MiniNextExtent(t) \/ MiniAppendEntry(t) \/ MiniMetaExtent(t) \/ MiniGive(t)
  \/ MiniRelease(t) \/ Install(t) \/ Abandon(t) \/ GiveBack(t)
  \/ MiniForEach(t) \/ MiniDeinit(t) \/ Discard(t)

\* They move one thread, which does not search.
LEMMA MiniMoves ==
  ASSUME SInv, NEW t \in Threads, MiniStep(t)
  PROVE  Off(thread[t]) /\ Moves(t)
<1>1. Off(thread[t])
  <2>1. thread[t].pc \notin SearchPC
    BY DEF MiniStep, MiniInit, MiniInitBatch, MiniAlloc, MiniNextExtent, MiniAppendEntry,
       MiniMetaExtent, MiniGive, MiniRelease, Install, Abandon, GiveBack, MiniForEach, MiniDeinit,
       Discard, At, Running, SearchPC
  <2> QED
    BY <2>1, OffAt
<1>2. StoreType
  BY DEF SInv
<1> SUFFICES Moves(t)
  BY <1>1
<1>3. CASE \E n \in 1 .. NumBatches : MiniInit(t, n)
  <2>1. CallAlloc(t, "meta", 0)
    BY <1>3 DEF MiniInit
  <2> QED
    BY <1>1, <1>2, <2>1, CallOff DEF ReturnPC
<1>4. CASE MiniInitBatch(t)
  <2>1. Becomes(t) \/ CallAlloc(t, "batch", thread[t].batch + 1)
    BY <1>4 DEF MiniInitBatch
  <2> QED
    BY <1>1, <1>2, <2>1, BecomesOff, CallOff DEF ReturnPC
<1>5. ASSUME NEW b, MiniAlloc(t, b)
      PROVE  Moves(t)
  <2> DEFINE g == [pc |-> "give", batch |-> b, addr |-> mini.next_addr[b]]
  <2>1. CallAlloc(t, "next", b) \/ Goes(t, g)
    BY <1>5 DEF MiniAlloc
  <2>2. DOMAIN g = {"pc", "batch", "addr"} /\ g["pc"] = "give"
    OBVIOUS
  <2> HIDE DEF g
  <2>3. CASE CallAlloc(t, "next", b)
    BY <1>1, <1>2, <2>3, CallOff DEF ReturnPC
  <2>4. CASE Goes(t, g)
    BY <1>1, <2>2, <2>4, GoesOff DEF SearchPC
  <2> QED
    BY <2>1, <2>3, <2>4
<1>6. ASSUME NEW f, Goes(t, f), DOMAIN f \subseteq {"pc", "addr", "batch", "head", "held", "at", "entry", "extent"},
             "pc" \in DOMAIN f => f["pc"] \in {"append", "give", "release", "dec_ref", "free", "dealloc", "deinit"}
      PROVE  Moves(t)
  BY <1>1, <1>6, GoesOff DEF SearchPC
<1>7. CASE MiniNextExtent(t)
  <2> DEFINE f == [pc |-> "append", addr |-> Address(mini.next_extent[thread[t].batch])]
  <2>1. Goes(t, f)
    BY <1>7 DEF MiniNextExtent
  <2>2. DOMAIN f = {"pc", "addr"} /\ f["pc"] = "append"
    OBVIOUS
  <2> HIDE DEF f
  <2> QED
    BY <1>6, <2>1, <2>2
<1>8. ASSUME Goes(t, [pc |-> "give"])
      PROVE  Moves(t)
  <2> DEFINE f == [pc |-> "give"]
  <2>1. DOMAIN f = {"pc"} /\ f["pc"] = "give"
    OBVIOUS
  <2> QED
    BY <1>6, <1>8, <2>1
<1>9. CASE MiniAppendEntry(t)
  <2>1. Goes(t, [pc |-> "give"]) \/ CallAlloc(t, "meta_extent", thread[t].batch)
    BY <1>9 DEF MiniAppendEntry, NewMetaTail
  <2>2. CASE CallAlloc(t, "meta_extent", thread[t].batch)
    BY <1>1, <1>2, <2>2, CallOff DEF ReturnPC
  <2> QED
    BY <1>8, <2>1, <2>2
<1>10. CASE MiniMetaExtent(t)
  BY <1>8, <1>10 DEF MiniMetaExtent, NewMetaTail
<1>11. CASE MiniGive(t)
  BY <1>11, BecomesOff DEF MiniGive
<1>12. CASE MiniRelease(t)
  <2> DEFINE f == [pc |-> "release", batch |-> 1]
  <2>1. Goes(t, f)
    BY <1>12 DEF MiniRelease
  <2>2. DOMAIN f = {"pc", "batch"} /\ f["pc"] = "release"
    OBVIOUS
  <2> HIDE DEF f
  <2> QED
    BY <1>6, <2>1, <2>2
<1>13. ASSUME NEW h, Goes(t, [pc |-> "dec_ref", head |-> h])
       PROVE  Moves(t)
  <2> DEFINE f == [pc |-> "dec_ref", head |-> h]
  <2>1. DOMAIN f = {"pc", "head"} /\ f["pc"] = "dec_ref"
    OBVIOUS
  <2> QED
    BY <1>6, <1>13, <2>1
<1>14. CASE Install(t) \/ Abandon(t)
  BY <1>13, <1>14, BecomesOff DEF Install, Abandon
<1>15. CASE GiveBack(t)
  <2> DEFINE f == [pc |-> "dec_ref", head |-> thread[t].held, held |-> 0]
  <2>1. Goes(t, f)
    BY <1>15 DEF GiveBack
  <2>2. DOMAIN f = {"pc", "head", "held"} /\ f["pc"] = "dec_ref"
    OBVIOUS
  <2> HIDE DEF f
  <2> QED
    BY <1>6, <2>1, <2>2
<1>16. CASE Discard(t)
  <2> DEFINE f == [pc |-> "free"]
  <2>1. Goes(t, f)
    BY <1>16 DEF Discard
  <2>2. DOMAIN f = {"pc"} /\ f["pc"] = "free"
    OBVIOUS
  <2> HIDE DEF f
  <2> QED
    BY <1>6, <2>1, <2>2
<1>17. CASE MiniForEach(t)
  <2> DEFINE meta == MetaPage(thread[t].at)
             f == [pc |-> "dealloc", extent |-> meta.entries[thread[t].entry], entry |-> thread[t].entry + 1]
             g == [at |-> meta.next, entry |-> 1]
             d == [pc |-> "deinit", at |-> thread[t].head, entry |-> 0]
  <2>1. Goes(t, f) \/ Goes(t, g) \/ Goes(t, d)
    BY <1>17 DEF MiniForEach
  <2>2. /\ DOMAIN f = {"pc", "extent", "entry"} /\ f["pc"] = "dealloc"
        /\ DOMAIN g = {"at", "entry"}
        /\ DOMAIN d = {"pc", "at", "entry"} /\ d["pc"] = "deinit"
    OBVIOUS
  <2> HIDE DEF f, g, d
  <2>3. CASE Goes(t, f)
    BY <1>6, <2>2, <2>3
  <2>4. CASE Goes(t, g)
    BY <1>6, <2>2, <2>4
  <2>5. CASE Goes(t, d)
    BY <1>6, <2>2, <2>5
  <2> QED
    BY <2>1, <2>3, <2>4, <2>5
<1>18. CASE MiniDeinit(t)
  <2> DEFINE at == thread[t].at
             next == MetaPage(at).next
             f == [pc |-> "dealloc", extent |-> ExtentOf(at), at |-> next]
             g == [at |-> next]
  <2>1. Goes(t, f) \/ Goes(t, g)
    BY <1>18 DEF MiniDeinit
  <2>2. /\ DOMAIN f = {"pc", "extent", "at"} /\ f["pc"] = "dealloc"
        /\ DOMAIN g = {"at"}
    OBVIOUS
  <2> HIDE DEF f, g
  <2>3. CASE Goes(t, f)
    BY <1>6, <2>2, <2>3
  <2>4. CASE Goes(t, g)
    BY <1>6, <2>2, <2>4
  <2> QED
    BY <2>1, <2>3, <2>4
<1> QED
  BY <1>1, <1>3, <1>4, <1>5, <1>7, <1>9, <1>10, <1>11, <1>12, <1>14, <1>15, <1>16, <1>17, <1>18 DEF MiniStep

\* The operations of a mini allocator that leave the counts alone.
LEMMA MiniKeeps ==
  ASSUME SInv, NEW t \in Threads, MiniStep(t)
  PROVE  SInv'
<1>1. /\ UNCHANGED <<ref, hand, disk, session>>
      /\ err' = err \/ \E c, w : Check(c, w)
      /\ thread[t].pc # "idle" \/ session.phase = "up"
  BY DEF MiniStep, MiniInit, MiniInitBatch, MiniAlloc, MiniNextExtent, MiniAppendEntry,
     MiniMetaExtent, MiniGive, MiniRelease, Install, Abandon, GiveBack, MiniForEach, MiniDeinit,
       Discard, At, Running
<1>2. session'.phase \notin QuietPhase
  BY <1>1, Runs
<1>3. AssertionsHold' => AssertionsHold
  BY <1>1 DEF AssertionsHold, Check
<1>4. ref' \in [Extents -> Int]
  BY <1>1 DEF SInv, StoreType
<1> QED
  BY <1>1, <1>2, <1>3, <1>4, MiniMoves, LocalStep

\* A step that changes the count of one extent, and asserts that it was in use.
LEMMA CountKeeps ==
  ASSUME SInv, NEW t \in Threads, Off(thread[t]), Moves(t),
         thread[t].pc # "idle" \/ session.phase = "up",
         UNCHANGED <<hand, disk, session>>,
         NEW e, NEW n, ref' = [ref EXCEPT ![e] = n], e \in Extents => n \in Int,
         AssertionsHold' => AssertionsHold /\ (e \in Extents => ref[e] # 0)
  PROVE  SInv'
<1>1. session'.phase \notin QuietPhase
  BY Runs
<1>2. ref \in [Extents -> Int]
  BY DEF SInv, StoreType
<1>3. ref' \in [Extents -> Int] /\ \A x \in Extents : ref'[x] # ref[x] => x = e
  BY <1>2
<1> QED
  BY <1>1, <1>2, <1>3, LocalStep

\* mini_init, mini_release and mini_inc_ref
LEMMA MiniCounts ==
  ASSUME SInv, NEW t \in Threads, MiniInitMeta(t) \/ ReleaseBatch(t) \/ Acquire(t)
  PROVE  SInv'
<1>1. /\ Off(thread[t]) /\ StoreType /\ ref \in [Extents -> Int]
      /\ thread[t].pc # "idle" \/ session.phase = "up"
      /\ UNCHANGED <<hand, disk, session>>
  <2>1. thread[t].pc \notin SearchPC
    BY DEF MiniInitMeta, ReleaseBatch, Acquire, At, Running, SearchPC
  <2> QED
    BY <2>1, OffAt DEF SInv, StoreType, MiniInitMeta, ReleaseBatch, Acquire, At, Running
<1>2. CASE MiniInitMeta(t)
  <2> DEFINE e == thread[t].got
  <2>1. /\ ref' = [ref EXCEPT ![e] = ref[e] + 1]
        /\ Check(ref'[e] = MiniNoRefs + 1, "mini_init")
        /\ CallAlloc(t, "batch", 1)
    BY <1>2 DEF MiniInitMeta
  <2> HIDE DEF e
  <2>3. Moves(t)
    BY <1>1, <2>1, CallOff DEF ReturnPC
  <2>4. AssertionsHold' => AssertionsHold /\ ref'[e] = 3
    BY <2>1 DEF AssertionsHold, Check, MiniNoRefs
  <2>5. AssertionsHold' => AssertionsHold /\ (e \in Extents => ref[e] # 0)
    BY <1>1, <2>1, <2>4
  <2>6. e \in Extents => ref[e] + 1 \in Int
    BY <1>1
  <2> QED
    BY <1>1, <2>1, <2>3, <2>5, <2>6, CountKeeps
<1>3. CASE ReleaseBatch(t)
  <2> DEFINE e == mini.next_extent[thread[t].batch]
             f == [batch |-> thread[t].batch + 1]
             g == [pc |-> "released"]
  <2>1. /\ ref' = [ref EXCEPT ![e] = ref[e] - 2]
        /\ Check(ref'[e] = 0, "mini_release")
        /\ Goes(t, f) \/ Goes(t, g)
    BY <1>3 DEF ReleaseBatch
  <2>2. DOMAIN f = {"batch"} /\ DOMAIN g = {"pc"} /\ g["pc"] = "released"
    OBVIOUS
  <2> HIDE DEF e, f, g
  <2>3. Moves(t)
    <3>1. CASE Goes(t, f)
      BY <1>1, <2>2, <3>1, GoesOff
    <3>2. CASE Goes(t, g)
      BY <1>1, <2>2, <3>2, GoesOff DEF SearchPC
    <3> QED
      BY <2>1, <3>1, <3>2
  <2>4. AssertionsHold' => AssertionsHold /\ (e \in Extents => ref[e] # 0)
    BY <1>1, <2>1 DEF AssertionsHold, Check
  <2>5. e \in Extents => ref[e] - 2 \in Int
    BY <1>1
  <2> QED
    BY <1>1, <2>1, <2>3, <2>4, <2>5, CountKeeps
<1>4. CASE Acquire(t)
  <2> DEFINE e == ExtentOf(root)
             f == [held |-> root]
  <2>1. /\ ref' = [ref EXCEPT ![e] = ref[e] + 1]
        /\ Check(ref'[e] > MiniNoRefs, "mini_inc_ref")
        /\ Goes(t, f)
    BY <1>4 DEF Acquire
  <2>2. DOMAIN f = {"held"}
    OBVIOUS
  <2> HIDE DEF e, f
  <2>3. Moves(t)
    BY <1>1, <2>1, <2>2, GoesOff
  <2>4. AssertionsHold' => AssertionsHold /\ (e \in Extents => ref[e] # 0)
    BY <1>1, <2>1 DEF AssertionsHold, Check, MiniNoRefs
  <2>5. e \in Extents => ref[e] + 1 \in Int
    BY <1>1
  <2> QED
    BY <1>1, <2>1, <2>3, <2>4, <2>5, CountKeeps
<1> QED
  BY <1>2, <1>3, <1>4

\* mini_dec_ref and the deallocation of its extents
LEMMA DecCounts ==
  ASSUME SInv, NEW t \in Threads, MiniDecRef(t) \/ Dealloc(t) \/ Free(t)
  PROVE  SInv'
<1>1. /\ Off(thread[t]) /\ StoreType /\ ref \in [Extents -> Int]
      /\ thread[t].pc # "idle"
      /\ UNCHANGED <<hand, disk, session>>
  <2>1. thread[t].pc \notin SearchPC
    BY DEF MiniDecRef, Dealloc, Free, At, SearchPC
  <2> QED
    BY <2>1, OffAt DEF SInv, StoreType, MiniDecRef, Dealloc, Free, At
<1>2. ASSUME NEW f, Goes(t, f), DOMAIN f \subseteq {"pc", "at", "entry"},
             "pc" \in DOMAIN f => f["pc"] \notin SearchPC \cup {"first"}
      PROVE  Moves(t)
  BY <1>1, <1>2, GoesOff
<1>4. CASE MiniDecRef(t)
  <2> DEFINE e == ExtentOf(thread[t].head)
             n == ref[e] - 1
  <2>1. /\ ref' = [ref EXCEPT ![e] = n]
        /\ Check(n >= MiniNoRefs /\ thread[t].head \in DOMAIN page, "mini_dec_ref")
        /\ Becomes(t) \/ Goes(t, [pc |-> "entries", at |-> thread[t].head, entry |-> 1])
    BY <1>4 DEF MiniDecRef
  <2>2. Moves(t)
    <3> DEFINE f == [pc |-> "entries", at |-> thread[t].head, entry |-> 1]
    <3>1. DOMAIN f = {"pc", "at", "entry"} /\ f["pc"] = "entries"
      OBVIOUS
    <3> HIDE DEF f
    <3>2. CASE Goes(t, f)
      BY <1>2, <3>1, <3>2 DEF SearchPC
    <3> QED
      BY <2>1, <3>2, BecomesOff DEF f
  <2>3. AssertionsHold' => AssertionsHold /\ n >= 2
    BY <2>1 DEF AssertionsHold, Check, MiniNoRefs
  <2>4. e \in Extents => n \in Int
    BY <1>1
  <2>5. AssertionsHold' => AssertionsHold /\ (e \in Extents => ref[e] # 0)
    BY <1>1, <2>3
  <2> HIDE DEF e, n
  <2> QED
    BY <1>1, <2>1, <2>2, <2>4, <2>5, CountKeeps
<1>5. CASE Dealloc(t)
  <2> DEFINE e == thread[t].extent
             f == [pc |-> "discard"]
  <2>1. /\ ref' = [ref EXCEPT ![e] = ref[e] - 1]
        /\ Check(ref'[e] = 1, "dealloc")
        /\ Goes(t, f)
    BY <1>5 DEF Dealloc
  <2>2. DOMAIN f = {"pc"} /\ f["pc"] = "discard"
    OBVIOUS
  <2> HIDE DEF e, f
  <2>3. Moves(t)
    BY <1>2, <2>1, <2>2 DEF SearchPC
  <2>4. AssertionsHold' => AssertionsHold /\ (e \in Extents => ref[e] # 0)
    BY <1>1, <2>1 DEF AssertionsHold, Check
  <2>5. e \in Extents => ref[e] - 1 \in Int
    BY <1>1
  <2> QED
    BY <1>1, <2>1, <2>3, <2>4, <2>5, CountKeeps
<1>6. CASE Free(t)
  <2> DEFINE e == thread[t].extent
             f == [pc |-> IF thread[t].entry = 0 THEN "deinit" ELSE "entries"]
  <2>1. /\ ref' = [ref EXCEPT ![e] = ref[e] - 1]
        /\ Check(ref'[e] = 0, "free")
        /\ Becomes(t) \/ Goes(t, f)
    BY <1>6 DEF Free
  <2>2. Moves(t)
    <3>1. DOMAIN f = {"pc"} /\ f["pc"] \in {"deinit", "entries"}
      OBVIOUS
    <3> HIDE DEF f
    <3>2. CASE Goes(t, f)
      BY <1>2, <3>1, <3>2 DEF SearchPC
    <3> QED
      BY <2>1, <3>2, BecomesOff
  <2> HIDE DEF e, f
  <2>3. AssertionsHold' => AssertionsHold /\ (e \in Extents => ref[e] # 0)
    BY <1>1, <2>1 DEF AssertionsHold, Check
  <2>4. e \in Extents => ref[e] - 1 \in Int
    BY <1>1
  <2> QED
    BY <1>1, <2>1, <2>2, <2>3, <2>4, CountKeeps
<1> QED
  BY <1>4, <1>5, <1>6

-----------------------------------------------------------------------------
\* A reference to a tree is given up at the end of a session.
LEMMA DropKeeps ==
  ASSUME SInv, NEW t \in Threads, DecOldRoot(t) \/ ContextDeinit(t)
  PROVE  SInv'
<1>1. /\ thread[t] = Idle /\ UNCHANGED <<ref, hand, disk, err>>
      /\ \E p \in {"up", "deinit", "persist"} : Phase(p)
      /\ UNCHANGED thread \/ \E h : Goes(t, [pc |-> "dec_ref", head |-> h])
  BY DEF DecOldRoot, ContextDeinit, DropTree, Quiet
<1>2. Off(thread[t])
  BY <1>1, IdleFields DEF Off, SearchPC
<1>3. Moves(t)
  <2>1. CASE UNCHANGED thread
    <3>1. thread = [u \in Threads |-> thread[u]]
      BY DEF SInv, StoreType
    <3>2. thread' = [thread EXCEPT ![t] = thread[t]]
      BY <2>1, <3>1
    <3> QED
      BY <1>2, <3>2 DEF Moves
  <2>2. ASSUME NEW h, Goes(t, [pc |-> "dec_ref", head |-> h])
        PROVE  Moves(t)
    <3> DEFINE f == [pc |-> "dec_ref", head |-> h]
    <3>1. DOMAIN f = {"pc", "head"} /\ f["pc"] = "dec_ref" /\ Goes(t, f)
      BY <2>2
    <3> HIDE DEF f
    <3> QED
      BY <1>2, <3>1, GoesOff DEF SearchPC
  <2> QED
    BY <1>1, <2>1, <2>2
<1>4. DOMAIN session' = DOMAIN session /\ session'.phase \in {"up", "deinit", "persist"}
  BY <1>1 DEF SInv, StoreType, Phase
<1>5. ref' \in [Extents -> Int] /\ (AssertionsHold' => AssertionsHold)
  BY <1>1 DEF SInv, StoreType, AssertionsHold
<1> QED
  BY <1>1, <1>2, <1>3, <1>4, <1>5, LocalStep DEF QuietPhase

\* While no thread runs there is nothing to search.
LEMMA IdleStep ==
  ASSUME thread' = [t \in Threads |-> Idle], ref' \in [Extents -> Int], hand' \in Extents,
         DOMAIN disk' = {"super", "ref", "saved", "page"}, disk'.ref \in [Extents -> Int],
         DOMAIN session' = {"phase", "unmount", "old", "exposed", "crashes"}
  PROVE  SInv'
<1>1. \A t \in Threads : thread'[t] = Idle
  OBVIOUS
<1>2. Off(Idle) /\ Idle.pc \notin SearchPC
  BY IdleFields DEF Off, SearchPC
<1>3. StoreType'
  BY <1>1, <1>2 DEF StoreType, Off
<1>4. PhaseInv' /\ SearchInv'
  BY <1>1, <1>2 DEF PhaseInv, SearchInv
<1> QED
  BY <1>3, <1>4 DEF SInv

\* The initial state, before any thread runs.
LEMMA InitSInv == Init => SInv
<1> SUFFICES ASSUME Init PROVE SInv
  OBVIOUS
<1>1. \A t \in Threads : thread[t] = Idle
  BY DEF Init
<1>2. Off(Idle) /\ Idle.pc \notin SearchPC
  BY IdleFields DEF Off, SearchPC
<1>3. hand \in Extents
  BY StorageAssumption DEF Init, Extents
<1>4. ref \in [Extents -> Int] /\ thread = [t \in Threads |-> thread[t]]
  BY DEF Init
<1>5. DOMAIN disk = {"super", "ref", "saved", "page"} /\ disk.ref \in [Extents -> Int]
  BY DEF Init
<1>6. DOMAIN session = {"phase", "unmount", "old", "exposed", "crashes"}
  BY DEF Init
<1>7. StoreType
  BY <1>1, <1>2, <1>3, <1>4, <1>5, <1>6 DEF StoreType
<1>8. PhaseInv /\ SearchInv
  BY <1>1, <1>2 DEF PhaseInv, SearchInv
<1> QED
  BY <1>7, <1>8 DEF SInv

\* The ends and beginnings of sessions, and crashes.
LEMMA SessionKeeps ==
  ASSUME SInv,
         Shutdown \/ SetSuperBlock \/ SyncSuperBlock \/ AllocatorUnmount \/ Mount \/ Crash
  PROVE  SInv'
<1>1. /\ StoreType /\ PhaseInv /\ ref \in [Extents -> Int] /\ hand \in Extents
      /\ DOMAIN disk = {"super", "ref", "saved", "page"} /\ disk.ref \in [Extents -> Int]
      /\ DOMAIN session = {"phase", "unmount", "old", "exposed", "crashes"}
      /\ thread = [t \in Threads |-> thread[t]]
  BY DEF SInv, StoreType
<1>2. thread' = [t \in Threads |-> Idle]
  <2>1. CASE Crash
    BY <2>1 DEF Crash
  <2>2. CASE Shutdown \/ SetSuperBlock \/ SyncSuperBlock \/ AllocatorUnmount \/ Mount
    <3>1. thread' = thread /\ \A t \in Threads : thread[t] = Idle
      BY <1>1, <2>2 DEF Shutdown, SetSuperBlock, SyncSuperBlock, AllocatorUnmount, Mount, Quiet, PhaseInv
    <3> QED
      BY <1>1, <3>1
  <2> QED
    BY <2>1, <2>2
<1>3. hand' \in Extents
  <2>1. 0 \in Extents
    BY StorageAssumption DEF Extents
  <2> QED
    BY <1>1, <2>1 DEF Shutdown, SetSuperBlock, SyncSuperBlock, AllocatorUnmount, Mount, Crash
<1>4. DOMAIN session' = DOMAIN session
  BY <1>1 DEF Shutdown, SetSuperBlock, SyncSuperBlock, AllocatorUnmount, Mount, Crash, Phase
<1>5. DOMAIN disk' = DOMAIN disk /\ disk'.ref \in [Extents -> Int]
  BY <1>1 DEF Shutdown, SetSuperBlock, SyncSuperBlock, AllocatorUnmount, Mount, Crash
<1>6. ref' \in [Extents -> Int]
  <2>1. ASSUME NEW f \in [Extents -> Int], NEW x
        PROVE  [f EXCEPT ![x] = f[x] + 1] \in [Extents -> Int]
    <3>1. CASE x \in Extents
      BY <2>1, <3>1
    <3>2. CASE x \notin Extents
      BY <2>1, <3>2
    <3> QED
      BY <3>1, <3>2
  <2>2. CASE SetSuperBlock
    BY <1>1, <2>1, <2>2 DEF SetSuperBlock, IncRoot
  <2>3. CASE Mount
    BY <1>1, <2>1, <2>3 DEF Mount
  <2>4. CASE Shutdown \/ SyncSuperBlock \/ AllocatorUnmount \/ Crash
    BY <1>1, <2>4 DEF Shutdown, SyncSuperBlock, AllocatorUnmount, Crash
  <2> QED
    BY <2>2, <2>3, <2>4
<1> QED
  BY <1>1, <1>2, <1>3, <1>4, <1>5, <1>6, IdleStep

-----------------------------------------------------------------------------
\* The hand passes one extent more.
LEMMA PassedNext ==
  ASSUME hand \in Extents, hand' = (hand + 1) % NumExtents,
         NEW f \in Extents, NEW e \in Extents, Passed(f, e)' \/ hand' = f
  PROVE  e = hand \/ Passed(f, e)
<1>1. hand' = IF hand + 1 = NumExtents THEN 0 ELSE hand + 1
  BY NextHand
<1>2. NumExtents \in Nat /\ hand \in 0 .. NumExtents - 1 /\ f \in 0 .. NumExtents - 1
      /\ e \in 0 .. NumExtents - 1
  BY StorageAssumption DEF Extents
<1> QED
  BY <1>1, <1>2 DEF Passed

\* rc_allocator_alloc begins.
LEMMA FirstKeeps ==
  ASSUME SInv, NEW t \in Threads, AllocFirst(t)
  PROVE  SInv'
<1> DEFINE f == [pc |-> "scan", first |-> hand, free |-> {e \in Extents : ref[e] = 0}]
           r == With(thread[t], f)
<1>1. /\ StoreType /\ Off(thread[t]) /\ thread[t].pc = "first" /\ hand \in Extents
      /\ UNCHANGED <<ref, hand, disk, session, err>>
      /\ thread' = [thread EXCEPT ![t] = r]
      /\ thread = [u \in Threads |-> thread[u]]
  BY OffAt DEF SInv, StoreType, AllocFirst, At, SearchPC, Goes
<1>2. /\ DOMAIN f = {"pc", "first", "free"} /\ f["pc"] = "scan" /\ f["first"] = hand
      /\ f["free"] = {e \in Extents : ref[e] = 0}
  OBVIOUS
<1> HIDE DEF f
<1>3. /\ DOMAIN r = Fields
      /\ r["pc"] = "scan" /\ r["first"] = hand /\ r["free"] = {e \in Extents : ref[e] = 0}
      /\ r["ret"] = thread[t]["ret"]
  BY <1>1, <1>2 DEF With, Off, Fields
<1> HIDE DEF r
<1>4. thread'[t] = r /\ \A u \in Threads \ {t} : thread'[u] = thread[u]
  BY <1>1
<1>5. On(r)
  BY <1>1, <1>3 DEF On, Off, SearchPC
<1>6. StoreType'
  <2>1. thread' = [u \in Threads |-> thread'[u]]
    BY <1>1
  <2> QED
    BY <1>1, <1>4, <1>5, <2>1 DEF StoreType
<1>7. PhaseInv'
  <2>1. session.phase \notin QuietPhase
    BY <1>1, Runs
  <2> QED
    BY <1>1, <2>1 DEF PhaseInv, QuietPhase
<1>8. ASSUME AssertionsHold', NEW u \in Threads, thread'[u].pc \in SearchPC
      PROVE  Searches(u)'
  <2>1. CASE u = t
    <3>1. /\ thread'[u].free = {e \in Extents : ref[e] = 0}
          /\ thread'[u].first = hand /\ thread'[u].pc = "scan"
      BY <1>3, <1>4, <2>1
    <3>2. \A e \in Extents : ~Passed(thread[u].first, e)'
      BY <1>1, <3>1, StorageAssumption DEF Passed, Extents
    <3> QED
      BY <1>1, <3>1, <3>2 DEF Searches, At
  <2>2. CASE u # t
    <3>1. thread'[u] = thread[u] /\ Searches(u)
      BY <1>1, <1>4, <1>8, <2>2 DEF SInv, SearchInv, AssertionsHold
    <3>2. \A e : InHand(e) => InHand(e)'
      <4> SUFFICES ASSUME NEW e, NEW v \in Threads, thread[v].pc = "test", thread[v].hand = e
                   PROVE  InHand(e)'
        BY DEF InHand, At
      <4>1. v # t
        BY <1>1
      <4> QED
        BY <1>4, <4>1 DEF InHand, At
    <3>3. \A e : Passed(thread[u].first, e)' <=> Passed(thread[u].first, e)
      BY <1>1, <3>1 DEF Passed
    <3>4. RoundIsOver(u)' <=> RoundIsOver(u)
      BY <3>1 DEF RoundIsOver
    <3> QED
      BY <1>1, <3>1, <3>2, <3>3, <3>4 DEF Searches, At
  <2> QED
    BY <2>1, <2>2
<1> QED
  BY <1>6, <1>7, <1>8 DEF SInv, SearchInv

\* It takes an extent from the hand.
LEMMA ScanKeeps ==
  ASSUME SInv, NEW t \in Threads, AllocScan(t)
  PROVE  SInv'
<1> DEFINE f == [pc |-> "test", hand |-> hand]
           r == With(thread[t], f)
<1>1. /\ StoreType /\ On(thread[t]) /\ thread[t].pc = "scan" /\ hand \in Extents
      /\ UNCHANGED <<ref, disk, session, err>>
      /\ hand' = (hand + 1) % NumExtents
      /\ thread' = [thread EXCEPT ![t] = r]
      /\ thread = [u \in Threads |-> thread[u]]
  BY DEF SInv, StoreType, AllocScan, At, SearchPC, Goes, Off
<1>2. DOMAIN f = {"pc", "hand"} /\ f["pc"] = "test" /\ f["hand"] = hand
  OBVIOUS
<1> HIDE DEF f
<1>3. /\ DOMAIN r = Fields
      /\ r["pc"] = "test" /\ r["hand"] = hand
      /\ r["ret"] = thread[t]["ret"] /\ r["first"] = thread[t]["first"] /\ r["free"] = thread[t]["free"]
  BY <1>1, <1>2 DEF With, On, Fields
<1> HIDE DEF r
<1>4. thread'[t] = r /\ \A u \in Threads \ {t} : thread'[u] = thread[u]
  BY <1>1
<1>5. On(r)
  BY <1>1, <1>3 DEF On, SearchPC
<1>6. StoreType'
  <2>1. thread' = [u \in Threads |-> thread'[u]]
    BY <1>1
  <2> QED
    BY <1>1, <1>4, <1>5, <2>1, HandType DEF StoreType
<1>7. PhaseInv'
  <2>1. session.phase \notin QuietPhase
    BY <1>1, Runs
  <2> QED
    BY <1>1, <2>1 DEF PhaseInv, QuietPhase
<1>8. \A e : InHand(e) \/ e = hand => InHand(e)'
  <2>1. ASSUME NEW e, NEW v \in Threads, thread[v].pc = "test", thread[v].hand = e
        PROVE  InHand(e)'
    <3>1. v # t
      BY <1>1, <2>1
    <3> QED
      BY <1>4, <2>1, <3>1 DEF InHand, At
  <2>2. ASSUME NEW e, e = hand
        PROVE  InHand(e)'
    BY <1>3, <1>4, <2>2 DEF InHand, At
  <2> QED
    BY <2>1, <2>2 DEF InHand, At
<1>9. ASSUME AssertionsHold', NEW u \in Threads, thread'[u].pc \in SearchPC
      PROVE  Searches(u)'
  <2>1. /\ thread'[u].first = thread[u].first /\ thread'[u].free = thread[u].free
        /\ thread[u].pc \in SearchPC
    BY <1>1, <1>3, <1>4, <1>9 DEF SearchPC
  <2>2. On(thread[u]) /\ Searches(u)
    BY <1>1, <1>9, <2>1 DEF SInv, SearchInv, AssertionsHold, StoreType, Off
  <2>3. thread[u].first \in Extents /\ \A e \in thread[u].free : e \in Extents
    BY <2>2 DEF On
  <2>4. ASSUME NEW e \in thread'[u].free
        PROVE  ref'[e] = 0 /\ (Passed(thread[u].first, e)' => InHand(e)')
    <3>1. e \in Extents /\ ref'[e] = 0 /\ (Passed(thread[u].first, e) => InHand(e))
      BY <1>1, <2>1, <2>2, <2>3 DEF Searches
    <3>2. Passed(thread[u].first, e)' => e = hand \/ Passed(thread[u].first, e)
      <4>1. Passed(thread[u].first, e)' => e = hand \/ Passed(thread[u].first, e)
        <5> DEFINE c == thread[u].first
        <5>1. c \in Extents /\ (Passed(thread[u].first, e)' <=> IF c <= hand' THEN c <= e /\ e < hand' ELSE c <= e \/ e < hand')
          BY <2>1, <2>3 DEF Passed
        <5> HIDE DEF c
        <5>2. (IF c <= hand' THEN c <= e /\ e < hand' ELSE c <= e \/ e < hand') => e = hand \/ Passed(c, e)
          BY <1>1, <3>1, <5>1, PassedNext DEF Passed
        <5> QED
          BY <5>1, <5>2 DEF c
      <4> QED
        BY <4>1
    <3> QED
      BY <1>8, <3>1, <3>2
  <2>5. CASE u = t
    <3>1. RoundIsOver(u)' <=> hand' = thread[u].first
      BY <1>1, <1>3, <1>4, <2>1, <2>5 DEF RoundIsOver
    <3>2. ASSUME NEW e \in thread'[u].free, RoundIsOver(u)'
          PROVE  InHand(e)'
      <4>1. e \in Extents /\ (Passed(thread[u].first, e) => InHand(e))
        BY <2>1, <2>2, <2>3 DEF Searches
      <4>2. e = hand \/ Passed(thread[u].first, e)
        BY <1>1, <2>3, <3>1, <3>2, <4>1, PassedNext
      <4> QED
        BY <1>8, <4>1, <4>2
    <3>3. ~At(u, "no_space")'
      BY <1>3, <1>4, <2>5 DEF At
    <3> QED
      BY <2>1, <2>4, <3>2, <3>3 DEF Searches
  <2>6. CASE u # t
    <3>1. thread'[u] = thread[u]
      BY <1>4, <2>6
    <3>2. RoundIsOver(u)' <=> RoundIsOver(u)
      BY <3>1 DEF RoundIsOver
    <3> QED
      BY <1>8, <2>1, <2>2, <2>4, <3>1, <3>2 DEF Searches, At
  <2> QED
    BY <2>5, <2>6
<1> QED
  BY <1>6, <1>7, <1>9 DEF SInv, SearchInv

\* It tests the extent it has from the hand, and takes it if it is free.
LEMMA TestTakes ==
  ASSUME SInv, NEW t \in Threads, AllocTest(t), ref[thread[t].hand] = 0
  PROVE  SInv'
<1> DEFINE e == thread[t].hand
           f == [pc |-> thread[t].ret, got |-> e, ret |-> "idle", first |-> 0, hand |-> 0, free |-> {}]
           r == With(thread[t], f)
           g(u) == [free |-> thread[u].free \ {e}]
<1>1. /\ StoreType /\ On(thread[t]) /\ thread[t].pc = "test"
      /\ UNCHANGED <<hand, disk, session, err>>
      /\ ref' = [ref EXCEPT ![e] = 2]
      /\ thread' = [u \in Threads |-> With(thread[u], IF u = t THEN f ELSE g(u))]
  BY DEF SInv, StoreType, AllocTest, At, SearchPC, Off
<1>2. e \in Extents /\ ref \in [Extents -> Int] /\ thread[t].ret \in ReturnPC
  BY <1>1 DEF StoreType, On
<1>3. Off(r)
  <2>1. DOMAIN f = {"pc", "got", "ret", "first", "hand", "free"} /\ f["pc"] = thread[t].ret
    OBVIOUS
  <2> HIDE DEF f
  <2>2. DOMAIN r = Fields /\ r["pc"] = thread[t].ret
    BY <1>1, <2>1 DEF With, On, Fields
  <2> HIDE DEF r
  <2> QED
    BY <1>2, <2>2 DEF Off, SearchPC, ReturnPC
<1>4. thread'[t] = r /\ \A u \in Threads \ {t} : thread'[u] = With(thread[u], g(u))
  BY <1>1
<1> HIDE DEF r, f
<1>5. ref' \in [Extents -> Int] /\ \A x \in Extents : x # e => ref'[x] = ref[x]
  BY <1>1, <1>2
<1>6. ASSUME NEW u \in Threads, u # t
      PROVE  /\ DOMAIN thread[u] = Fields /\ DOMAIN thread'[u] = Fields
             /\ thread'[u].free = thread[u].free \ {e}
             /\ \A x \in Fields \ {"free"} : thread'[u][x] = thread[u][x]
  <2>1. DOMAIN thread[u] = Fields
    BY <1>1 DEF StoreType, On, Off
  <2>2. DOMAIN g(u) = {"free"} /\ g(u)["free"] = thread[u].free \ {e}
    OBVIOUS
  <2>3. thread'[u] = With(thread[u], g(u))
    BY <1>4, <1>6
  <2> HIDE DEF g
  <2> QED
    BY <2>1, <2>2, <2>3 DEF With, Fields
<1> HIDE DEF g, e
<1>7. ASSUME NEW u \in Threads, u # t, Off(thread[u])
      PROVE  Off(thread'[u])
  <2>1. thread'[u]["pc"] = thread[u]["pc"] /\ thread'[u]["ret"] = thread[u]["ret"]
    BY <1>6, <1>7 DEF Fields
  <2> QED
    BY <1>6, <1>7, <2>1 DEF Off
<1>8. ASSUME NEW u \in Threads, u # t, On(thread[u])
      PROVE  On(thread'[u])
  <2>1. /\ thread'[u]["pc"] = thread[u]["pc"] /\ thread'[u]["ret"] = thread[u]["ret"]
        /\ thread'[u]["first"] = thread[u]["first"] /\ thread'[u]["hand"] = thread[u]["hand"]
    BY <1>6, <1>8 DEF Fields
  <2> QED
    BY <1>6, <1>8, <2>1 DEF On
<1>9. StoreType'
  <2>1. \A u \in Threads : Off(thread'[u]) \/ On(thread'[u])
    BY <1>1, <1>3, <1>4, <1>7, <1>8 DEF StoreType
  <2>2. thread' = [u \in Threads |-> thread'[u]]
    BY <1>1
  <2> QED
    BY <1>1, <1>5, <2>1, <2>2 DEF StoreType
<1>10. PhaseInv'
  <2>1. session.phase \notin QuietPhase
    BY <1>1, Runs
  <2> QED
    BY <1>1, <2>1 DEF PhaseInv, QuietPhase
<1>11. \A x : x # e /\ InHand(x) => InHand(x)'
  <2> SUFFICES ASSUME NEW x, x # e, NEW v \in Threads, thread[v].pc = "test", thread[v].hand = x
               PROVE  InHand(x)'
    BY DEF InHand, At
  <2>1. v # t
    BY DEF e
  <2>4. thread'[v]["pc"] = "test" /\ thread'[v]["hand"] = x
    BY <1>6, <2>1 DEF Fields
  <2> QED
    BY <2>4 DEF InHand, At
<1>12. ASSUME AssertionsHold', NEW u \in Threads, thread'[u].pc \in SearchPC
       PROVE  Searches(u)'
  <2>1. u # t
    BY <1>3, <1>4, <1>12 DEF Off
  <2>4. /\ thread'[u]["pc"] = thread[u]["pc"] /\ thread'[u]["first"] = thread[u]["first"]
        /\ thread'[u]["hand"] = thread[u]["hand"]
        /\ thread'[u].free = thread[u].free \ {e}
    BY <1>6, <2>1 DEF Fields
  <2>2. On(thread[u])
    BY <1>1, <1>12, <2>4 DEF StoreType, Off
  <2>3. thread[u].pc \in SearchPC /\ thread[u].free \subseteq Extents
    BY <2>2 DEF On
  <2>5. Searches(u)
    BY <1>1, <1>12, <2>3 DEF SInv, SearchInv, AssertionsHold
  <2>6. \A x : Passed(thread[u].first, x)' <=> Passed(thread[u].first, x)
    BY <1>1, <2>4 DEF Passed
  <2>7. At(u, "test")' /\ RoundIsOver(u)' => At(u, "test") /\ RoundIsOver(u)
    BY <2>4 DEF RoundIsOver, At
  <2>8. At(u, "no_space")' => At(u, "no_space")
    BY <2>4 DEF At
  <2>9. ASSUME NEW x \in thread'[u].free
        PROVE  /\ ref'[x] = 0
               /\ Passed(thread[u].first, x)' => InHand(x)'
               /\ At(u, "test")' /\ RoundIsOver(u)' => InHand(x)'
               /\ At(u, "no_space")' => InHand(x)'
    <3>1. x \in thread[u].free /\ x # e /\ x \in Extents
      BY <2>3, <2>4, <2>9
    <3>2. /\ ref[x] = 0
          /\ Passed(thread[u].first, x) => InHand(x)
          /\ At(u, "test") /\ RoundIsOver(u) => InHand(x)
          /\ At(u, "no_space") => InHand(x)
      BY <2>5, <3>1 DEF Searches
    <3> QED
      BY <1>5, <1>11, <2>6, <2>7, <2>8, <3>1, <3>2
  <2> QED
    BY <2>9 DEF Searches
<1> QED
  BY <1>9, <1>10, <1>12 DEF SInv, SearchInv

\* One that is in use sends it on, or ends the search.
LEMMA TestGoesOn ==
  ASSUME SInv, NEW t \in Threads, AllocTest(t), ref[thread[t].hand] # 0
  PROVE  SInv'
<1> DEFINE e == thread[t].hand
           f == [pc |-> IF RoundIsOver(t) THEN "no_space" ELSE "scan"]
           r == With(thread[t], f)
<1>1. /\ StoreType /\ On(thread[t]) /\ thread[t].pc = "test"
      /\ UNCHANGED <<ref, hand, disk, session, err>>
      /\ thread' = [thread EXCEPT ![t] = r]
      /\ thread = [u \in Threads |-> thread[u]]
  BY DEF SInv, StoreType, AllocTest, At, SearchPC, Off, Goes
<1>2. DOMAIN f = {"pc"} /\ f["pc"] = IF RoundIsOver(t) THEN "no_space" ELSE "scan"
  OBVIOUS
<1> HIDE DEF f
<1>3. /\ DOMAIN r = Fields
      /\ r["pc"] = IF RoundIsOver(t) THEN "no_space" ELSE "scan"
      /\ r["ret"] = thread[t]["ret"] /\ r["first"] = thread[t]["first"]
      /\ r["free"] = thread[t]["free"] /\ r["hand"] = thread[t]["hand"]
  BY <1>1, <1>2 DEF With, On, Fields
<1> HIDE DEF r
<1>4. thread'[t] = r /\ \A u \in Threads \ {t} : thread'[u] = thread[u]
  BY <1>1
<1>5. On(r)
  BY <1>1, <1>3 DEF On, SearchPC
<1>6. StoreType'
  <2>1. thread' = [u \in Threads |-> thread'[u]]
    BY <1>1
  <2> QED
    BY <1>1, <1>4, <1>5, <2>1 DEF StoreType
<1>7. PhaseInv'
  <2>1. session.phase \notin QuietPhase
    BY <1>1, Runs
  <2> QED
    BY <1>1, <2>1 DEF PhaseInv, QuietPhase
<1>8. \A x : x # e /\ InHand(x) => InHand(x)'
  <2> SUFFICES ASSUME NEW x, x # e, NEW v \in Threads, thread[v].pc = "test", thread[v].hand = x
               PROVE  InHand(x)'
    BY DEF InHand, At
  <2>1. v # t
    OBVIOUS
  <2> QED
    BY <1>4, <2>1 DEF InHand, At
<1>9. ASSUME AssertionsHold', NEW u \in Threads, thread'[u].pc \in SearchPC
      PROVE  Searches(u)'
  <2>1. /\ thread'[u].first = thread[u].first /\ thread'[u].free = thread[u].free
        /\ thread[u].pc \in SearchPC
    BY <1>1, <1>3, <1>4, <1>9 DEF SearchPC
  <2>2. Searches(u)
    BY <1>1, <1>9, <2>1 DEF SInv, SearchInv, AssertionsHold
  <2>3. ASSUME NEW x \in thread'[u].free
        PROVE  /\ x # e /\ ref'[x] = 0
               /\ Passed(thread[u].first, x)' => InHand(x)'
    <3>1. ref[x] = 0 /\ (Passed(thread[u].first, x) => InHand(x))
      BY <2>1, <2>2, <2>3 DEF Searches
    <3>2. x # e
      BY <3>1
    <3>3. Passed(thread[u].first, x)' <=> Passed(thread[u].first, x)
      BY <1>1, <2>1 DEF Passed
    <3> QED
      BY <1>1, <1>8, <3>1, <3>2, <3>3
  <2>4. CASE u = t
    <3>1. ~At(u, "test")' /\ (At(u, "no_space")' => At(u, "test") /\ RoundIsOver(u))
      BY <1>1, <1>3, <1>4, <2>4 DEF At
    <3>2. ASSUME NEW x \in thread'[u].free, At(u, "no_space")'
          PROVE  InHand(x)'
      BY <1>8, <2>1, <2>2, <2>3, <3>1, <3>2 DEF Searches
    <3> QED
      BY <2>3, <3>1, <3>2 DEF Searches
  <2>5. CASE u # t
    <3>1. thread'[u] = thread[u]
      BY <1>4, <2>5
    <3>2. RoundIsOver(u)' <=> RoundIsOver(u)
      BY <3>1 DEF RoundIsOver
    <3>3. At(u, "test")' => At(u, "test")
      BY <3>1 DEF At
    <3>4. At(u, "no_space")' => At(u, "no_space")
      BY <3>1 DEF At
    <3>5. ASSUME NEW x \in thread'[u].free
          PROVE  /\ At(u, "test")' /\ RoundIsOver(u)' => InHand(x)'
                 /\ At(u, "no_space")' => InHand(x)'
      BY <1>8, <2>1, <2>2, <2>3, <3>2, <3>3, <3>4 DEF Searches
    <3> QED
      BY <2>3, <3>5 DEF Searches
  <2> QED
    BY <2>4, <2>5
<1> QED
  BY <1>6, <1>7, <1>9 DEF SInv, SearchInv

-----------------------------------------------------------------------------
\* Every step.
LEMMA NextSInv == SInv /\ [Next]_vars => SInv'
<1> SUFFICES ASSUME SInv, [Next]_vars PROVE SInv'
  OBVIOUS
<1>1. ASSUME NEW t \in Threads, ThreadStep(t)
      PROVE  SInv'
  <2>1. CASE AllocFirst(t)
    BY <2>1, FirstKeeps
  <2>2. CASE AllocScan(t)
    BY <2>2, ScanKeeps
  <2>3. CASE AllocTest(t)
    BY <2>3, TestTakes, TestGoesOn
  <2>4. CASE MiniStep(t)
    BY <2>4, MiniKeeps
  <2>5. CASE MiniInitMeta(t) \/ ReleaseBatch(t) \/ Acquire(t)
    BY <2>5, MiniCounts
  <2>6. CASE MiniDecRef(t) \/ Dealloc(t) \/ Free(t)
    BY <2>6, DecCounts
  <2>7. CASE DecOldRoot(t) \/ ContextDeinit(t)
    BY <2>7, DropKeeps
  <2> QED
    BY <1>1, <2>1, <2>2, <2>3, <2>4, <2>5, <2>6, <2>7 DEF ThreadStep, MiniStep
<1>2. CASE Shutdown \/ SetSuperBlock \/ SyncSuperBlock \/ AllocatorUnmount \/ Mount \/ Crash
  BY <1>2, SessionKeeps
<1>3. CASE UNCHANGED vars
  BY <1>3 DEF vars, SInv, StoreType, PhaseInv, AssertionsHold, SearchInv, Searches, Passed, InHand,
     At, RoundIsOver
<1> QED
  BY <1>1, <1>2, <1>3 DEF Next

(***************************************************************************)
(* The invariant of the search holds always, for any number of extents and *)
(* threads, with crashes and sessions in between (rc_allocator_alloc,      *)
(* rc_allocator_inc_ref and _dec_ref, mini_allocator.c).                   *)
(***************************************************************************)
THEOREM StorageInvariance == Spec => []SInv
<1> QED
  BY InitSInv, NextSInv, PTL DEF Spec

(***************************************************************************)
(* rc_allocator_alloc gives up only when nothing was free all along, unless*)
(* an assertion of the counts has failed before, which stops the process:  *)
(* what the threads find free between them is never missed, however they   *)
(* share the hand.                                                         *)
(***************************************************************************)
THEOREM SpaceAlwaysFound == Spec => [](AssertionsHold => SpaceFound)
<1>1. SInv => (AssertionsHold => SpaceFound)
  <2> SUFFICES ASSUME SInv, AssertionsHold, NEW t \in Threads, thread[t].pc = "no_space",
                      NEW e \in thread[t].free
               PROVE  e \in {thread[u].hand : u \in {v \in Threads \ {t} : At(v, "test")}}
    BY DEF SpaceFound, At
  <2>1. Searches(t)
    BY DEF SInv, SearchInv, SearchPC
  <2>2. PICK v \in Threads : At(v, "test") /\ thread[v].hand = e
    BY <2>1 DEF Searches, InHand, At
  <2>3. v # t
    BY <2>2 DEF At
  <2> QED
    BY <2>2, <2>3
<1> QED
  BY <1>1, StorageInvariance, PTL

-----------------------------------------------------------------------------
(* Addresses and extents. *)

\* Division with remainder.
LEMMA Quotient ==
  ASSUME NEW a \in Nat
  PROVE  /\ ExtentOf(a) \in Nat /\ a % PagesPerExtent \in Nat
         /\ a = PagesPerExtent * ExtentOf(a) + (a % PagesPerExtent)
         /\ a % PagesPerExtent < PagesPerExtent
<1>1. PagesPerExtent \in Nat /\ PagesPerExtent >= 1
  BY StorageAssumption
<1>2. /\ ExtentOf(a) \in Int /\ a % PagesPerExtent \in Int
      /\ a = PagesPerExtent * ExtentOf(a) + (a % PagesPerExtent)
      /\ 0 <= a % PagesPerExtent /\ a % PagesPerExtent < PagesPerExtent
  BY <1>1 DEF ExtentOf
<1>3. ExtentOf(a) >= 0
  <2> SUFFICES ASSUME ExtentOf(a) <= -1
               PROVE  FALSE
    BY <1>2
  <2>1. PagesPerExtent * (0 - ExtentOf(a)) >= PagesPerExtent
    BY <1>1, <1>2
  <2>2. PagesPerExtent * ExtentOf(a) = 0 - PagesPerExtent * (0 - ExtentOf(a))
    BY <1>1, <1>2
  <2> QED
    BY <1>1, <1>2, <2>1, <2>2
<1> QED
  BY <1>2, <1>3

\* The quotient is the only number that leaves such a remainder.
LEMMA QuotientIs ==
  ASSUME NEW a \in Nat, NEW q \in Nat, NEW m \in Nat, a = PagesPerExtent * q + m, m < PagesPerExtent
  PROVE  ExtentOf(a) = q /\ a % PagesPerExtent = m
<1> DEFINE p == ExtentOf(a)
           n == a % PagesPerExtent
<1>1. p \in Nat /\ n \in Nat /\ a = PagesPerExtent * p + n /\ n < PagesPerExtent
  BY Quotient, Zenon
<1>0. PagesPerExtent \in Nat /\ PagesPerExtent >= 1
  BY StorageAssumption
<1> HIDE DEF p, n
<1>2. CASE p > q
  <2>1. PagesPerExtent * (p - q) >= PagesPerExtent
    BY <1>0, <1>1, <1>2
  <2>2. PagesPerExtent * (p - q) = PagesPerExtent * p - PagesPerExtent * q
    BY <1>0, <1>1
  <2> QED
    BY <1>0, <1>1, <2>1, <2>2
<1>3. CASE p < q
  <2>1. PagesPerExtent * (q - p) >= PagesPerExtent
    BY <1>0, <1>1, <1>3
  <2>2. PagesPerExtent * (q - p) = PagesPerExtent * q - PagesPerExtent * p
    BY <1>0, <1>1
  <2> QED
    BY <1>0, <1>1, <2>1, <2>2
<1>4. CASE p = q
  BY <1>0, <1>1, <1>4 DEF p, n
<1> QED
  BY <1>0, <1>1, <1>2, <1>3, <1>4

\* An extent and the address of its first page.
LEMMA AddressOf ==
  ASSUME NEW e \in Nat
  PROVE  /\ Address(e) \in Nat /\ ExtentOf(Address(e)) = e
         /\ e # 0 => Address(e) # 0
<1>1. PagesPerExtent \in Nat /\ PagesPerExtent >= 1
  BY StorageAssumption
<1>2. Address(e) \in Nat /\ Address(e) = PagesPerExtent * e
  BY <1>1 DEF Address
<1>3. ExtentOf(Address(e)) = e
  <2>1. Address(e) = PagesPerExtent * e + 0
    BY <1>1, <1>2
  <2> QED
    BY <1>1, <1>2, <2>1, QuotientIs
<1>4. e # 0 => PagesPerExtent * e >= 1
  BY <1>1
<1> QED
  BY <1>2, <1>3, <1>4

\* Address 0 is in extent 0.
LEMMA ZeroAddress == ExtentOf(0) = 0 /\ Address(0) = 0
<1>1. PagesPerExtent \in Nat /\ PagesPerExtent >= 1 /\ 0 = PagesPerExtent * 0 + 0
  BY StorageAssumption
<1> QED
  BY <1>1, QuotientIs DEF Address

\* The next page is in the same extent, unless it begins one.
LEMMA NextPage ==
  ASSUME NEW a \in Nat, (a + 1) % PagesPerExtent # 0
  PROVE  ExtentOf(a + 1) = ExtentOf(a)
<1> DEFINE q == ExtentOf(a)
           m == a % PagesPerExtent
<1>1. q \in Nat /\ m \in Nat /\ a = PagesPerExtent * q + m /\ m < PagesPerExtent
  BY Quotient, Zenon
<1>0. PagesPerExtent \in Nat /\ PagesPerExtent >= 1 /\ a + 1 \in Nat
  BY StorageAssumption
<1> HIDE DEF q, m
<1>2. CASE m + 1 < PagesPerExtent
  <2>1. a + 1 = PagesPerExtent * q + (m + 1)
    BY <1>0, <1>1
  <2>2. ExtentOf(a + 1) = q
    BY <1>0, <1>1, <1>2, <2>1, QuotientIs
  <2> QED
    BY <2>2 DEF q
<1>3. CASE m + 1 = PagesPerExtent
  <2>1. a + 1 = PagesPerExtent * (q + 1) + 0
    BY <1>0, <1>1, <1>3
  <2>2. (a + 1) % PagesPerExtent = 0
    BY <1>0, <1>1, <2>1, QuotientIs
  <2> QED
    BY <2>2
<1> QED
  BY <1>0, <1>1, <1>2, <1>3

\* Extents are numbers.
LEMMA ExtentsNat == 0 \in Extents /\ Extents \subseteq Nat
  BY StorageAssumption DEF Extents

-----------------------------------------------------------------------------
(* Owners. *)

\* An owner is known by its kind and what it is the owner of.
LEMMA Tags ==
  /\ \A h : Meta(h)[1] = "meta" /\ Meta(h)[2] = h
  /\ \A h, k, i : Data(h, k, i)[1] = "data" /\ Data(h, k, i)[2] = h /\ Data(h, k, i)[3] = k /\ Data(h, k, i)[4] = i
  /\ \A t : DeadMeta(t)[1] = "dead_meta" /\ DeadMeta(t)[2] = t
  /\ \A t, k, i : /\ DeadData(t, k, i)[1] = "dead_data" /\ DeadData(t, k, i)[2] = t
                  /\ DeadData(t, k, i)[3] = k /\ DeadData(t, k, i)[4] = i
  /\ \A b : AheadOf(b)[1] = "ahead" /\ AheadOf(b)[2] = b
  /\ \A t : TakenBy(t)[1] = "taken" /\ TakenBy(t)[2] = t
  /\ \A t : MovedBy(t)[1] = "moved" /\ MovedBy(t)[2] = t
  /\ \A t : DroppedBy(t)[1] = "dropped" /\ DroppedBy(t)[2] = t
  BY DEF Meta, Data, DeadMeta, DeadData, AheadOf, TakenBy, MovedBy, DroppedBy

-----------------------------------------------------------------------------
(* Threads. *)

\* What a step leaves of a field.
Set(f, x, old) == IF x \in DOMAIN f THEN f[x] ELSE old

\* The thread that takes a step, and the others.
LEMMA StepFields ==
  ASSUME StoreType, NEW t \in Threads, NEW f, Goes(t, f)
  PROVE  /\ \A u \in Threads : u # t => thread'[u] = thread[u]
         /\ thread'[t].pc = Set(f, "pc", thread[t].pc) /\ thread'[t].held = Set(f, "held", thread[t].held)
         /\ thread'[t].ret = Set(f, "ret", thread[t].ret) /\ thread'[t].got = Set(f, "got", thread[t].got)
         /\ thread'[t].batch = Set(f, "batch", thread[t].batch) /\ thread'[t].addr = Set(f, "addr", thread[t].addr)
         /\ thread'[t].head = Set(f, "head", thread[t].head) /\ thread'[t].at = Set(f, "at", thread[t].at)
         /\ thread'[t].entry = Set(f, "entry", thread[t].entry)
         /\ thread'[t].extent = Set(f, "extent", thread[t].extent)
<1> DEFINE r == With(thread[t], f)
<1>1. thread' = [thread EXCEPT ![t] = r] /\ thread = [u \in Threads |-> thread[u]]
  BY DEF Goes, StoreType
<1>2. DOMAIN thread[t] = Fields
  BY DEF StoreType, On, Off
<1>3. \A x \in Fields : r[x] = Set(f, x, thread[t][x])
  BY <1>2 DEF With, Set
<1> HIDE DEF r
<1>4. thread'[t] = r /\ \A u \in Threads : u # t => thread'[u] = thread[u]
  BY <1>1
<1>5. {"pc", "held", "ret", "got", "batch", "addr", "head", "at", "entry", "extent"} \subseteq Fields
  BY DEF Fields
<1> HIDE DEF Set, Fields
<1> QED
  BY <1>3, <1>4, <1>5

\* A search is part of the operation that called it.
LEMMA OpIs ==
  ASSUME StoreType, NEW t \in Threads
  PROVE  /\ thread[t].pc \notin {"first", "scan", "test", "no_space"} => Op(t) = thread[t].pc
         /\ thread[t].pc \in {"first", "scan", "test", "no_space"} =>
              Op(t) = thread[t].ret /\ Op(t) \in ReturnPC /\ ~HasGot(t)
         /\ HasGot(t) => Op(t) = thread[t].pc
  BY DEF StoreType, On, Off, Op, HasGot, SearchPC, ReturnPC

\* What the other operations see of a thread is as before.
SameView(u) ==
  /\ Op(u)' = Op(u) /\ (HasGot(u)' <=> HasGot(u))
  /\ thread'[u].held = thread[u].held /\ thread'[u].got = thread[u].got
  /\ thread'[u].batch = thread[u].batch /\ thread'[u].addr = thread[u].addr
  /\ thread'[u].head = thread[u].head /\ thread'[u].at = thread[u].at
  /\ thread'[u].entry = thread[u].entry /\ thread'[u].extent = thread[u].extent

\* Only t takes a step.
Others(t) == \A u \in Threads : u # t => SameView(u)

LEMMA OthersView ==
  ASSUME NEW t \in Threads, \A u \in Threads : u # t => thread'[u] = thread[u]
  PROVE  Others(t)
  BY DEF Others, SameView, Op, HasGot

-----------------------------------------------------------------------------
(* Holders. *)

\* The references to a tree that are not a thread's.
Rest(h) ==
    One(root = h) + One(disk.super.root = h) + One(MiniHead = h)
  + One(session.phase = "sync" /\ root = h) + One(session.phase = "dec_old" /\ session.old = h)

\* Those of thread t.
Share(t, h) == One(thread[t].held = h) + One(Op(t) = "dec_ref" /\ thread[t].head = h)

\* A thread in a set of threads, and the rest of the set.
LEMMA CountedOnce ==
  ASSUME NEW t \in Threads, NEW S \in SUBSET Threads
  PROVE  /\ Cardinality(S \ {t}) \in Nat
         /\ Cardinality(S) = Cardinality(S \ {t}) + IF t \in S THEN 1 ELSE 0
<1>1. IsFiniteSet(S) /\ IsFiniteSet(S \ {t})
  <2>1. IsFiniteSet(S)
    BY FS_Subset, StorageAssumption
  <2> QED
    BY <2>1, FS_RemoveElement
<1>2. Cardinality(S \ {t}) \in Nat
  BY <1>1, FS_CardinalityType
<1>3. CASE t \in S
  <2>1. S = (S \ {t}) \cup {t} /\ t \notin S \ {t}
    BY <1>3
  <2>2. Cardinality((S \ {t}) \cup {t}) = Cardinality(S \ {t}) + 1
    BY <1>1, <2>1, FS_AddElement
  <2>3. Cardinality(S) = Cardinality(S \ {t}) + 1
    BY <2>1, <2>2, Zenon
  <2> QED
    BY <1>2, <1>3, <2>3
<1>4. CASE t \notin S
  <2>1. S = S \ {t}
    BY <1>4
  <2>2. Cardinality(S) = Cardinality(S \ {t})
    BY <2>1, Zenon
  <2> QED
    BY <1>2, <1>4, <2>2
<1> QED
  BY <1>2, <1>3, <1>4

\* The references of thread t and of the others.
Split(t, h) ==
  /\ Cardinality(Users(h) \ {t}) \in Nat /\ Cardinality(Droppers(h) \ {t}) \in Nat
  /\ Rest(h) \in Nat /\ Share(t, h) \in Nat
  /\ Holds(h) = Rest(h) + Share(t, h)
                + (Cardinality(Users(h) \ {t}) + Cardinality(Droppers(h) \ {t}))

LEMMA HoldsSplit == \A t \in Threads : \A h : Split(t, h)
<1> SUFFICES ASSUME NEW t \in Threads, NEW h
             PROVE  Split(t, h)
  OBVIOUS
<1>1. /\ Users(h) \in SUBSET Threads /\ Droppers(h) \in SUBSET Threads
      /\ t \in Users(h) <=> thread[t].held = h
      /\ t \in Droppers(h) <=> Op(t) = "dec_ref" /\ thread[t].head = h
  BY DEF Users, Droppers
<1> DEFINE a == Cardinality(Users(h) \ {t})
           b == Cardinality(Droppers(h) \ {t})
<1>2. /\ a \in Nat /\ b \in Nat /\ Share(t, h) \in Nat
      /\ Cardinality(Users(h)) + Cardinality(Droppers(h)) = a + b + Share(t, h)
      /\ Cardinality(Users(h)) \in Nat /\ Cardinality(Droppers(h)) \in Nat
  <2>1. /\ a \in Nat /\ Cardinality(Users(h)) = a + One(thread[t].held = h)
        /\ b \in Nat /\ Cardinality(Droppers(h)) = b + One(Op(t) = "dec_ref" /\ thread[t].head = h)
    BY <1>1, CountedOnce DEF One
  <2> HIDE DEF a, b
  <2> QED
    BY <2>1 DEF Share, One
<1>3. Rest(h) \in Nat
  BY DEF Rest, One
<1> HIDE DEF a, b
<1>4. Holds(h) = Rest(h) + Cardinality(Users(h)) + Cardinality(Droppers(h))
  BY DEF Holds, Rest
<1>5. Holds(h) = Rest(h) + Share(t, h) + (a + b)
  BY <1>2, <1>3, <1>4
<1> QED
  BY <1>2, <1>3, <1>5 DEF a, b, Split

LEMMA HoldsSplitNext == (\A t \in Threads : \A h : Split(t, h))'
  BY HoldsSplit, PTL

\* Holders are counted.
LEMMA HoldsNat ==
  ASSUME NEW h
  PROVE  /\ Holds(h) \in Nat /\ Rest(h) \in Nat
         /\ Cardinality(Users(h)) \in Nat /\ Cardinality(Droppers(h)) \in Nat
         /\ Holds(h) = Rest(h) + Cardinality(Users(h)) + Cardinality(Droppers(h))
<1>1. IsFiniteSet(Users(h)) /\ IsFiniteSet(Droppers(h))
  BY FS_Subset, StorageAssumption DEF Users, Droppers
<1>2. Cardinality(Users(h)) \in Nat /\ Cardinality(Droppers(h)) \in Nat
  BY <1>1, FS_CardinalityType
<1>3. Rest(h) \in Nat
  BY DEF Rest, One
<1>4. Holds(h) = Rest(h) + Cardinality(Users(h)) + Cardinality(Droppers(h))
  BY DEF Holds, Rest
<1> QED
  BY <1>2, <1>3, <1>4

\* A step of t changes the holders by what it does itself.
LEMMA HoldsStep ==
  ASSUME NEW t \in Threads, Others(t), NEW h
  PROVE  /\ Holds(h)' - (Rest(h)' + Share(t, h)') = Holds(h) - (Rest(h) + Share(t, h))
         /\ Holds(h) \in Nat /\ Holds(h)' \in Nat
         /\ Holds(h) >= Rest(h) + Share(t, h)
         /\ Rest(h) \in Nat /\ Rest(h)' \in Nat /\ Share(t, h) \in Nat /\ Share(t, h)' \in Nat
<1>1. Users(h)' \ {t} = Users(h) \ {t}
  BY DEF Users, Others, SameView
<1>2. Droppers(h)' \ {t} = Droppers(h) \ {t}
  BY DEF Droppers, Others, SameView
<1>3. Split(t, h) /\ Split(t, h)'
  BY HoldsSplit, HoldsSplitNext
<1> DEFINE a == Cardinality(Users(h) \ {t})
           b == Cardinality(Droppers(h) \ {t})
<1>4. /\ a \in Nat /\ b \in Nat /\ Rest(h) \in Nat /\ Share(t, h) \in Nat
      /\ Holds(h) = Rest(h) + Share(t, h) + (a + b)
  BY <1>3 DEF Split
<1>5. Rest(h)' \in Nat /\ Share(t, h)' \in Nat /\ Holds(h)' = Rest(h)' + Share(t, h)' + (a + b)
  BY <1>1, <1>2, <1>3 DEF Split
<1> HIDE DEF a, b
<1> QED
  BY <1>4, <1>5

\* Who holds a tree names it.
LEMMA NamedBy ==
  ASSUME NEW h, h # 0,
         \/ root = h \/ disk.super.root = h \/ MiniHead = h
         \/ session.phase = "dec_old" /\ session.old = h
         \/ \E t \in Threads : thread[t].held = h \/ (Op(t) = "dec_ref" /\ thread[t].head = h)
  PROVE  Named(h)
<1>1. CASE \/ root = h \/ disk.super.root = h \/ MiniHead = h
           \/ session.phase = "dec_old" /\ session.old = h
  <2>1. Rest(h) >= 1
    BY <1>1 DEF Rest, One
  <2> QED
    BY <2>1, HoldsNat DEF Named
<1>2. ASSUME NEW t \in Threads, thread[t].held = h \/ (Op(t) = "dec_ref" /\ thread[t].head = h)
      PROVE  Named(h)
  <2>1. Share(t, h) >= 1
    BY <1>2 DEF Share, One
  <2>2. Split(t, h)
    BY HoldsSplit
  <2>3. Holds(h) > 0
    BY <2>1, <2>2 DEF Split
  <2> QED
    BY <2>3 DEF Named
<1> QED
  BY <1>1, <1>2

-----------------------------------------------------------------------------
(* What a step leaves alone. *)

\* The meta pages of a tree.
SamePages(c) == \A k \in 1 .. Len(c) : c[k] \in DOMAIN page' /\ page'[c[k]] = page[c[k]]

LEMMA OneTree ==
  ASSUME NEW c, NEW h, SamePages(c)
  PROVE  /\ TreeOK(c, h) => TreeOK(c, h)'
         /\ \A o, e : TreeHas(c, h, o, e)' <=> TreeHas(c, h, o, e)
         /\ \A e : InData(c, e)' <=> InData(c, e)
         /\ \A e : InTree(c, e)' <=> InTree(c, e)
<1>1. \A k \in 1 .. Len(c) : \A i, e : IsEntry(c[k], i, e)' <=> IsEntry(c[k], i, e)
  BY DEF SamePages, IsEntry
<1>2. \A k \in 1 .. Len(c) : Linked(c, k, page) => Linked(c, k, page)'
  BY DEF SamePages, Linked
<1>3. TreeOK(c, h) => TreeOK(c, h)'
  BY <1>2 DEF TreeOK
<1>4. \A o, e : TreeHas(c, h, o, e)' <=> TreeHas(c, h, o, e)
  BY <1>1 DEF TreeHas
<1>5. \A e : InData(c, e)' <=> InData(c, e)
  BY <1>1 DEF InData
<1>6. \A e : InTree(c, e)' <=> InTree(c, e)
  BY <1>5 DEF InTree
<1> QED
  BY <1>3, <1>4, <1>5, <1>6

\* Those that a walk still needs.
SameDead(c, x, t) ==
  \A k \in 1 .. Len(c) : thread[t].entry # 0 \/ k >= x => c[k] \in DOMAIN page' /\ page'[c[k]] = page[c[k]]

LEMMA OneDead ==
  ASSUME NEW t \in Threads, NEW c, NEW x, SameView(t), DeadOK(c, x, t), SameDead(c, x, t)
  PROVE  /\ DeadOK(c, x, t)'
         /\ \A o, e : DeadHas(c, x, t, o, e)' <=> DeadHas(c, x, t, o, e)
<1>1. x \in Nat /\ Len(c) \in Nat
  BY DEF DeadOK, IsChain
<1>2. thread'[t].entry = thread[t].entry
  BY DEF SameView
<1>3. \A k \in 1 .. Len(c) : thread[t].entry # 0 \/ k >= x =>
        (\A i, e : IsEntry(c[k], i, e)' <=> IsEntry(c[k], i, e)) /\ (Linked(c, k, page) => Linked(c, k, page)')
  BY DEF SameDead, IsEntry, Linked
<1>4. DeadOK(c, x, t)'
  BY <1>3 DEF DeadOK, SameView
<1>5. ASSUME NEW o, NEW e, NEW k \in 1 .. Len(c), NEW i
      PROVE  (IsEntry(c[k], i, e) /\ thread[t].entry # 0 /\ (k > x \/ (k = x /\ i >= thread[t].entry)))' <=>
             IsEntry(c[k], i, e) /\ thread[t].entry # 0 /\ (k > x \/ (k = x /\ i >= thread[t].entry))
  BY <1>1, <1>2, <1>3
<1>6. \A o, e : DeadHas(c, x, t, o, e)' <=> DeadHas(c, x, t, o, e)
  BY <1>2, <1>5 DEF DeadHas
<1> QED
  BY <1>4, <1>6

\* The trees.
SameTrees(chain, new) ==
  \A h : /\ Named(h)' <=> Named(h)
         /\ Named(h) => new[h] = chain[h] /\ SamePages(chain[h])

LEMMA TreesKept ==
  ASSUME NEW chain, NEW new, TreeInv(chain), SameTrees(chain, new)
  PROVE  /\ TreeInv(new)'
         /\ \A o, e : ByTree(new, o, e)' <=> ByTree(chain, o, e)
<1>1. ASSUME NEW h, Named(h)
      PROVE  TreeOK(new[h], h)' /\ \A o, e : TreeHas(new[h], h, o, e)' <=> TreeHas(chain[h], h, o, e)
  BY <1>1, OneTree DEF SameTrees, TreeInv
<1> QED
  BY <1>1 DEF SameTrees, TreeInv, ByTree

\* What the other threads claim.
OtherThread(t, o, e) == \E u \in Threads : u # t /\ ThreadHas(u, o, e)
OtherDead(t, dead, idx, o, e) == \E u \in Threads : u # t /\ Walks(u) /\ DeadHas(dead[u], idx[u], u, o, e)

LEMMA ThreadsKept ==
  ASSUME NEW t \in Threads, Others(t), NEW o, NEW e
  PROVE  /\ ByThread(o, e) <=> ThreadHas(t, o, e) \/ OtherThread(t, o, e)
         /\ ByThread(o, e)' <=> ThreadHas(t, o, e)' \/ OtherThread(t, o, e)
<1>1. \A u \in Threads : u # t => (ThreadHas(u, o, e)' <=> ThreadHas(u, o, e))
  BY DEF Others, SameView, ThreadHas
<1> QED
  BY <1>1 DEF ByThread, OtherThread

LEMMA DeadsKept ==
  ASSUME NEW t \in Threads, Others(t), NEW dead, NEW idx, NEW dead2, NEW idx2,
         DeadInv(dead, idx),
         \A u \in Threads : u # t /\ Walks(u) =>
           dead2[u] = dead[u] /\ idx2[u] = idx[u] /\ SameDead(dead[u], idx[u], u)
  PROVE  /\ (Walks(t)' => DeadOK(dead2[t], idx2[t], t)') => DeadInv(dead2, idx2)'
         /\ \A o, e : ByDead(dead, idx, o, e) <=>
              (Walks(t) /\ DeadHas(dead[t], idx[t], t, o, e)) \/ OtherDead(t, dead, idx, o, e)
         /\ \A o, e : ByDead(dead2, idx2, o, e)' <=>
              (Walks(t) /\ DeadHas(dead2[t], idx2[t], t, o, e))' \/ OtherDead(t, dead, idx, o, e)
<1>1. \A u \in Threads : u # t => (Walks(u)' <=> Walks(u))
  BY DEF Others, SameView, Walks
<1>2. ASSUME NEW u \in Threads, u # t, Walks(u)
      PROVE  /\ DeadOK(dead2[u], idx2[u], u)'
             /\ \A o, e : DeadHas(dead2[u], idx2[u], u, o, e)' <=> DeadHas(dead[u], idx[u], u, o, e)
  <2>1. SameView(u) /\ DeadOK(dead[u], idx[u], u) /\ SameDead(dead[u], idx[u], u)
    BY <1>2 DEF Others, DeadInv
  <2>2. dead2[u] = dead[u] /\ idx2[u] = idx[u]
    BY <1>2
  <2> QED
    BY <2>1, <2>2, OneDead
<1>3. (Walks(t)' => DeadOK(dead2[t], idx2[t], t)') => DeadInv(dead2, idx2)'
  BY <1>1, <1>2 DEF DeadInv
<1>4. \A o, e : ByDead(dead, idx, o, e) <=>
        (Walks(t) /\ DeadHas(dead[t], idx[t], t, o, e)) \/ OtherDead(t, dead, idx, o, e)
  BY DEF ByDead, OtherDead
<1>5. \A o, e : ByDead(dead2, idx2, o, e)' <=>
        (Walks(t) /\ DeadHas(dead2[t], idx2[t], t, o, e))' \/ OtherDead(t, dead, idx, o, e)
  BY <1>1, <1>2 DEF ByDead, OtherDead
<1> QED
  BY <1>3, <1>4, <1>5

\* The claims to all extents but those in E.
SameClaims(E, chain, dead, idx, chain2, dead2, idx2) ==
  \A o, e : e \notin E => (Has(chain2, dead2, idx2, o, e)' <=> Has(chain, dead, idx, o, e))

LEMMA OwnersKept ==
  ASSUME NEW chain, NEW dead, NEW idx, NEW chain2, NEW dead2, NEW idx2, NEW E,
         OwnerInv(chain, dead, idx), SameClaims(E, chain, dead, idx, chain2, dead2, idx2),
         E \subseteq Extents \ {0},
         \A e \in E : \E q : \A o : Has(chain2, dead2, idx2, o, e)' => o = q
  PROVE  OwnerInv(chain2, dead2, idx2)'
<1> SUFFICES ASSUME NEW e, NEW o, Has(chain2, dead2, idx2, o, e)',
                    NEW p, Has(chain2, dead2, idx2, p, e)'
             PROVE  e \in Extents \ {0} /\ p = o
  BY DEF OwnerInv
<1>1. CASE e \in E
  BY <1>1
<1>2. CASE e \notin E
  <2>1. Has(chain, dead, idx, o, e) /\ Has(chain, dead, idx, p, e)
    BY <1>2 DEF SameClaims
  <2> QED
    BY <2>1 DEF OwnerInv
<1> QED
  BY <1>1, <1>2

LEMMA CountsKept ==
  ASSUME NEW chain, NEW dead, NEW idx, NEW chain2, NEW dead2, NEW idx2, NEW E,
         CountInv(chain, dead, idx), SameClaims(E, chain, dead, idx, chain2, dead2, idx2),
         session'.phase # "down" => session.phase # "down", session'.crashes = session.crashes,
         0 \notin E, \A e \in Extents : e \notin E => ref'[e] = ref[e],
         \A e \in Extents : e # 0 /\ e \notin E => Holds(Address(e))' = Holds(Address(e)),
         \A o, e : e \notin E /\ Has(chain, dead, idx, o, e) => Base(o)' = Base(o),
         session.phase # "down" => \A e \in E : CountOK(chain2, dead2, idx2, e)'
  PROVE  CountInv(chain2, dead2, idx2)'
<1>1. 0 \in Extents
  BY ExtentsNat
<1>2. ASSUME session'.phase # "down"
      PROVE  ref'[0] = 2
  BY <1>1, <1>2 DEF CountInv
<1>3. ASSUME session'.phase # "down", NEW e \in Extents \ {0}
      PROVE  CountOK(chain2, dead2, idx2, e)'
  <2>1. CASE e \in E
    BY <1>3, <2>1
  <2>2. CASE e \notin E
    <3>1. CountOK(chain, dead, idx, e)
      BY <1>3 DEF CountInv
    <3>2. ref'[e] = ref[e] /\ Holds(Address(e))' = Holds(Address(e))
      BY <1>3, <2>2
    <3>3. \A o : Has(chain2, dead2, idx2, o, e)' <=> Has(chain, dead, idx, o, e)
      BY <2>2 DEF SameClaims
    <3>4. \A o : Has(chain, dead, idx, o, e) => Base(o)' = Base(o)
      BY <2>2
    <3> QED
      BY <3>1, <3>2, <3>3, <3>4 DEF CountOK
  <2> QED
    BY <2>1, <2>2
<1> QED
  BY <1>2, <1>3 DEF CountInv

\* What is left of the references to an extent that is given back.
LEMMA BaseKept ==
  ASSUME NEW t \in Threads, Others(t)
  PROVE  /\ \A o : o # DroppedBy(t) => Base(o)' = Base(o)
         /\ (Op(t)' \in {"discard", "free"} <=> Op(t) \in {"discard", "free"}) => \A o : Base(o)' = Base(o)
  BY DEF Others, SameView, Base

\* What lies ahead.
LEMMA BatchesKept ==
  ASSUME NEW t \in Threads, Others(t), mini'.state = mini.state, mini'.next_extent = mini.next_extent,
         SameView(t) \/ (Op(t) \notin {"batch", "release"} /\ Op(t)' \notin {"batch", "release"})
  PROVE  \A o, e : ByBatch(o, e)' <=> ByBatch(o, e)
<1>1. \A u \in Threads :
        /\ (Op(u) = "batch")' <=> Op(u) = "batch"
        /\ (Op(u) = "release")' <=> Op(u) = "release"
        /\ Op(u) \in {"batch", "release"} => thread'[u].batch = thread[u].batch
  BY DEF Others, SameView
<1>2. \A b : HasAhead(b)' <=> HasAhead(b)
  BY <1>1 DEF HasAhead
<1> QED
  BY <1>2 DEF ByBatch

\* The pages that batches have left.
LEMMA FillingKept ==
  ASSUME NEW t \in Threads, Others(t), mini'.next_addr = mini.next_addr,
         SameView(t) \/ Op(t)' # "give"
  PROVE  \A b, a : Filling(b, a)' => Filling(b, a)
<1>1. \A u \in Threads : Op(u)' = "give" =>
        Op(u) = "give" /\ thread'[u].batch = thread[u].batch /\ thread'[u].addr = thread[u].addr
  BY DEF Others, SameView
<1> QED
  BY <1>1 DEF Filling

LEMMA GivenKept ==
  ASSUME NEW chain, NEW new, GivenInv(chain),
         mini'.state = "open" => mini.state = "open" /\ mini'.head = mini.head /\ mini'.given = mini.given,
         \A b, a : Filling(b, a)' => Filling(b, a),
         mini'.state = "open" => \A e : InData(chain[mini.head], e) => InData(new[mini.head], e)'
  PROVE  GivenInv(new)'
  BY DEF GivenInv

\* What is on disk.
LEMMA DiskKept ==
  ASSUME NEW chain, NEW new, DiskInv(chain), UNCHANGED <<disk, session>>,
         session.phase \notin {"set_super", "sync"},
         disk.super.root # 0 =>
           new[disk.super.root] = chain[disk.super.root] /\ SamePages(chain[disk.super.root])
  PROVE  DiskInv(new)'
<1> DEFINE s == disk.super.root
<1>1. s # 0 => Flushed(new[s])'
  BY DEF DiskInv, Flushed, SamePages
<1>2. CountsBehind' <=> CountsBehind
  BY DEF CountsBehind
<1>3. s # 0 => \A e : InTree(new[s], e)' <=> InTree(chain[s], e)
  BY OneTree
<1>4. \A e : SavedOK(chain, e) => SavedOK(new, e)'
  <2>1. MayLose' <=> MayLose
    BY DEF MayLose
  <2> QED
    BY <1>3, <2>1 DEF SavedOK
<1> QED
  BY <1>1, <1>2, <1>4 DEF DiskInv

-----------------------------------------------------------------------------
(* Who claims an extent. *)

WhoHas(chain, dead, idx) ==
  /\ \A t \in Threads : \A e :
       /\ Has(chain, dead, idx, TakenBy(t), e) <=> HasGot(t) /\ thread[t].got = e
       /\ Has(chain, dead, idx, MovedBy(t), e) <=> Op(t) \in Moving /\ ExtentOf(thread[t].addr) = e
       /\ Has(chain, dead, idx, DroppedBy(t), e) <=> Op(t) \in Freeing /\ thread[t].extent = e
       /\ Has(chain, dead, idx, DeadMeta(t), e) <=>
            Walks(t) /\ \E k \in 1 .. Len(dead[t]) : ExtentOf(dead[t][k]) = e /\ (thread[t].entry # 0 \/ k >= idx[t])
  /\ \A b, e : Has(chain, dead, idx, AheadOf(b), e) <=> HasAhead(b) /\ mini.next_extent[b] = e
  /\ \A h, e : Has(chain, dead, idx, Meta(h), e) <=>
       Named(h) /\ \E k \in 1 .. Len(chain[h]) : ExtentOf(chain[h][k]) = e
  /\ \A h, k, i, e : Has(chain, dead, idx, Data(h, k, i), e) <=>
       Named(h) /\ k \in 1 .. Len(chain[h]) /\ IsEntry(chain[h][k], i, e)

\* Claims of different kinds are different.
LEMMA Kinds ==
  /\ \A chain, o, e : ByTree(chain, o, e) => o[1] \in {"meta", "data"}
  /\ \A dead, idx, o, e : ByDead(dead, idx, o, e) => o[1] \in {"dead_meta", "dead_data"}
  /\ \A o, e : ByThread(o, e) => o[1] \in {"taken", "moved", "dropped"}
  /\ \A o, e : ByBatch(o, e) => o[1] = "ahead"
<1>1. \A chain, o, e : ByTree(chain, o, e) => o[1] \in {"meta", "data"}
  BY Tags DEF ByTree, TreeHas
<1>2. \A dead, idx, o, e : ByDead(dead, idx, o, e) => o[1] \in {"dead_meta", "dead_data"}
  BY Tags DEF ByDead, DeadHas
<1>3. \A o, e : ByThread(o, e) => o[1] \in {"taken", "moved", "dropped"}
  BY Tags DEF ByThread, ThreadHas
<1>4. \A o, e : ByBatch(o, e) => o[1] = "ahead"
  BY Tags DEF ByBatch
<1> QED
  BY <1>1, <1>2, <1>3, <1>4

LEMMA Who == \A chain, dead, idx : WhoHas(chain, dead, idx)
<1> SUFFICES ASSUME NEW chain, NEW dead, NEW idx
             PROVE  WhoHas(chain, dead, idx)
  OBVIOUS
<1>1. ASSUME NEW t \in Threads, NEW e
      PROVE  /\ Has(chain, dead, idx, TakenBy(t), e) <=> HasGot(t) /\ thread[t].got = e
             /\ Has(chain, dead, idx, MovedBy(t), e) <=> Op(t) \in Moving /\ ExtentOf(thread[t].addr) = e
             /\ Has(chain, dead, idx, DroppedBy(t), e) <=> Op(t) \in Freeing /\ thread[t].extent = e
  <2>1. \A o : o[1] \in {"taken", "moved", "dropped"} => (Has(chain, dead, idx, o, e) <=> ByThread(o, e))
    BY Kinds DEF Has
  <2>2. ByThread(TakenBy(t), e) <=> HasGot(t) /\ thread[t].got = e
    BY Tags DEF ByThread, ThreadHas
  <2>3. ByThread(MovedBy(t), e) <=> Op(t) \in Moving /\ ExtentOf(thread[t].addr) = e
    BY Tags DEF ByThread, ThreadHas
  <2>4. ByThread(DroppedBy(t), e) <=> Op(t) \in Freeing /\ thread[t].extent = e
    BY Tags DEF ByThread, ThreadHas
  <2> QED
    BY <2>1, <2>2, <2>3, <2>4, Tags
<1>2. ASSUME NEW t \in Threads, NEW e
      PROVE  Has(chain, dead, idx, DeadMeta(t), e) <=>
               Walks(t) /\ \E k \in 1 .. Len(dead[t]) : ExtentOf(dead[t][k]) = e /\ (thread[t].entry # 0 \/ k >= idx[t])
  <2>1. Has(chain, dead, idx, DeadMeta(t), e) <=> ByDead(dead, idx, DeadMeta(t), e)
    BY Kinds, Tags DEF Has
  <2>2. \A u, k, i : DeadMeta(t) # DeadData(u, k, i) /\ (DeadMeta(t) = DeadMeta(u) => u = t)
    BY Tags
  <2>3. ByDead(dead, idx, DeadMeta(t), e) <=> Walks(t) /\ DeadHas(dead[t], idx[t], t, DeadMeta(t), e)
    BY <2>2 DEF ByDead, DeadHas
  <2>4. DeadHas(dead[t], idx[t], t, DeadMeta(t), e) <=>
          \E k \in 1 .. Len(dead[t]) : ExtentOf(dead[t][k]) = e /\ (thread[t].entry # 0 \/ k >= idx[t])
    BY <2>2 DEF DeadHas
  <2> QED
    BY <2>1, <2>3, <2>4
<1>3. ASSUME NEW b, NEW e
      PROVE  Has(chain, dead, idx, AheadOf(b), e) <=> HasAhead(b) /\ mini.next_extent[b] = e
  <2>1. Has(chain, dead, idx, AheadOf(b), e) <=> ByBatch(AheadOf(b), e)
    BY Kinds, Tags DEF Has
  <2> QED
    BY <2>1, Tags DEF ByBatch
<1>4. ASSUME NEW h, NEW e
      PROVE  Has(chain, dead, idx, Meta(h), e) <=> Named(h) /\ \E k \in 1 .. Len(chain[h]) : ExtentOf(chain[h][k]) = e
  <2>1. Has(chain, dead, idx, Meta(h), e) <=> ByTree(chain, Meta(h), e)
    BY Kinds, Tags DEF Has
  <2>2. \A g, k, i : Meta(h) # Data(g, k, i) /\ (Meta(h) = Meta(g) => g = h)
    BY Tags
  <2> QED
    BY <2>1, <2>2 DEF ByTree, TreeHas
<1>5. ASSUME NEW h, NEW k, NEW i, NEW e
      PROVE  Has(chain, dead, idx, Data(h, k, i), e) <=>
               Named(h) /\ k \in 1 .. Len(chain[h]) /\ IsEntry(chain[h][k], i, e)
  <2>1. Has(chain, dead, idx, Data(h, k, i), e) <=> ByTree(chain, Data(h, k, i), e)
    BY Kinds, Tags DEF Has
  <2>2. \A g, l, j : Data(h, k, i) # Meta(g) /\ (Data(h, k, i) = Data(g, l, j) => g = h /\ l = k /\ j = i)
    BY Tags
  <2> QED
    BY <2>1, <2>2 DEF ByTree, TreeHas
<1> QED
  BY <1>1, <1>2, <1>3, <1>4, <1>5 DEF WhoHas

-----------------------------------------------------------------------------
(* A step of one thread that changes neither pages nor mini allocator. *)

Local(t) == Others(t) /\ UNCHANGED <<page, mini, root, disk, session>>

\* Its own references to trees are all that it can change of the holders.
LEMMA LocalHolds ==
  ASSUME NEW t \in Threads, Others(t), UNCHANGED <<mini, root, disk, session>>, NEW h
  PROVE  /\ Rest(h)' = Rest(h)
         /\ Holds(h)' = Holds(h) - Share(t, h) + Share(t, h)'
         /\ Holds(h) \in Nat /\ Holds(h)' \in Nat /\ Share(t, h) \in Nat /\ Share(t, h)' \in Nat
         /\ Holds(h) >= Share(t, h)
<1>1. Rest(h)' = Rest(h)
  BY DEF Rest, MiniHead
<1>2. /\ Holds(h)' - (Rest(h)' + Share(t, h)') = Holds(h) - (Rest(h) + Share(t, h))
      /\ Holds(h) \in Nat /\ Holds(h)' \in Nat
      /\ Holds(h) >= Rest(h) + Share(t, h)
      /\ Rest(h) \in Nat /\ Rest(h)' \in Nat /\ Share(t, h) \in Nat /\ Share(t, h)' \in Nat
  BY HoldsStep
<1> QED
  BY <1>1, <1>2

\* The pages of the trees that are in use are there.
LEMMA PagesThere ==
  ASSUME page' = page, NEW chain, NEW dead, NEW idx, TreeInv(chain), DeadInv(dead, idx)
  PROVE  /\ \A h : Named(h) => SamePages(chain[h])
         /\ \A u \in Threads : Walks(u) => SameDead(dead[u], idx[u], u)
<1>1. \A h : Named(h) => SamePages(chain[h])
  BY DEF TreeInv, TreeOK, Linked, SamePages
<1>2. \A u \in Threads : Walks(u) => SameDead(dead[u], idx[u], u)
  BY DEF DeadInv, DeadOK, Linked, SameDead
<1> QED
  BY <1>1, <1>2

\* The holders of a tree name it.
LEMMA SameNames ==
  ASSUME \A h : h # 0 => Holds(h)' = Holds(h)
  PROVE  \A h : Named(h)' <=> Named(h)
  BY DEF Named

LEMMA LocalKept ==
  ASSUME NEW t \in Threads, Local(t), session.phase \notin {"set_super", "sync"},
         NEW chain, NEW dead, NEW idx, Ledger(chain, dead, idx),
         \A h : h # 0 => Holds(h)' = Holds(h),
         \/ SameView(t)
         \/ Op(t) \notin {"batch", "release"} /\ Op(t)' \notin {"batch", "release", "give"}
  PROVE  /\ TreeInv(chain)' /\ MiniTreeInv(chain)' /\ GivenInv(chain)' /\ DiskInv(chain)'
         /\ \A o, e : ByTree(chain, o, e)' <=> ByTree(chain, o, e)
         /\ \A o, e : ByBatch(o, e)' <=> ByBatch(o, e)
<1>1. \A h : Named(h)' <=> Named(h)
  BY SameNames
<1>2. TreeInv(chain) /\ DeadInv(dead, idx) /\ MiniTreeInv(chain) /\ GivenInv(chain) /\ DiskInv(chain)
  BY DEF Ledger
<1>3. \A h : Named(h) => SamePages(chain[h])
  BY <1>2, PagesThere DEF Local
<1>4. TreeInv(chain)' /\ \A o, e : ByTree(chain, o, e)' <=> ByTree(chain, o, e)
  BY <1>1, <1>2, <1>3, TreesKept DEF SameTrees
<1>5. MiniTreeInv(chain)'
  BY <1>2 DEF MiniTreeInv, MiniHead, Local
<1>6. \A o, e : ByBatch(o, e)' <=> ByBatch(o, e)
  BY BatchesKept DEF Local
<1>7. GivenInv(chain)'
  <2>1. \A b, a : Filling(b, a)' => Filling(b, a)
    BY FillingKept DEF Local
  <2>2. \A c, e : InData(c, e)' <=> InData(c, e)
    BY DEF InData, IsEntry, Local
  <2> QED
    BY <1>2, <2>1, <2>2, GivenKept DEF Local
<1>8. DiskInv(chain)'
  <2>1. disk.super.root # 0 => SamePages(chain[disk.super.root])
    BY <1>3, NamedBy
  <2> QED
    BY <1>2, <2>1, DiskKept DEF Local
<1> QED
  BY <1>4, <1>5, <1>6, <1>7, <1>8

\* A thread that goes on searching claims what it did.
LEMMA ViewKept ==
  ASSUME NEW t \in Threads, Local(t), SameView(t), UNCHANGED ref,
         session.phase \notin {"set_super", "sync"},
         NEW chain, NEW dead, NEW idx, Ledger(chain, dead, idx)
  PROVE  Ledger(chain, dead, idx)'
<1>1. \A h : Holds(h)' = Holds(h)
  <2>1. ASSUME NEW h
        PROVE  Share(t, h)' = Share(t, h)
    BY DEF SameView, Share
  <2> QED
    BY <2>1, LocalHolds DEF Local
<1>2. /\ TreeInv(chain)' /\ MiniTreeInv(chain)' /\ GivenInv(chain)' /\ DiskInv(chain)'
      /\ \A o, e : ByTree(chain, o, e)' <=> ByTree(chain, o, e)
      /\ \A o, e : ByBatch(o, e)' <=> ByBatch(o, e)
  BY <1>1, LocalKept
<1>3. DeadInv(dead, idx) /\ TreeInv(chain) /\ OwnerInv(chain, dead, idx) /\ CountInv(chain, dead, idx)
  BY DEF Ledger
<1>4. \A u \in Threads : SameView(u)
  BY DEF Local, Others
<1>5. ASSUME NEW u \in Threads
      PROVE  /\ Walks(u)' <=> Walks(u)
             /\ Walks(u) => /\ DeadOK(dead[u], idx[u], u)'
                            /\ \A o, e : DeadHas(dead[u], idx[u], u, o, e)' <=> DeadHas(dead[u], idx[u], u, o, e)
             /\ \A o, e : ThreadHas(u, o, e)' <=> ThreadHas(u, o, e)
  <2>1. SameView(u)
    BY <1>4
  <2>2. Walks(u)' <=> Walks(u)
    BY <2>1 DEF Walks, SameView
  <2>3. \A o, e : ThreadHas(u, o, e)' <=> ThreadHas(u, o, e)
    BY <2>1 DEF ThreadHas, SameView
  <2>4. Walks(u) => SameDead(dead[u], idx[u], u) /\ DeadOK(dead[u], idx[u], u)
    BY <1>3, PagesThere DEF Local, DeadInv
  <2> QED
    BY <2>1, <2>2, <2>3, <2>4, OneDead
<1>6. DeadInv(dead, idx)'
  BY <1>5 DEF DeadInv
<1>7. \A o, e : ByDead(dead, idx, o, e)' <=> ByDead(dead, idx, o, e)
  BY <1>5 DEF ByDead
<1>8. \A o, e : ByThread(o, e)' <=> ByThread(o, e)
  BY <1>5 DEF ByThread
<1>9. \A o, e : Has(chain, dead, idx, o, e)' <=> Has(chain, dead, idx, o, e)
  BY <1>2, <1>7, <1>8 DEF Has
<1>10. OwnerInv(chain, dead, idx)'
  BY <1>3, <1>9 DEF OwnerInv
<1>11. CountInv(chain, dead, idx)'
  <2>1. \A o : Base(o)' = Base(o)
    BY BaseKept DEF Local, SameView
  <2>2. \A e : CountOK(chain, dead, idx, e) => CountOK(chain, dead, idx, e)'
    BY <1>1, <1>9, <2>1 DEF CountOK, Local
  <2> QED
    BY <1>3, <2>2 DEF CountInv, Local
<1> QED
  BY <1>2, <1>6, <1>10, <1>11 DEF Ledger

-----------------------------------------------------------------------------
(* rc_allocator_alloc *)

\* A tree has the extent of its first page.
LEMMA HeadOwned ==
  ASSUME NEW chain, NEW dead, NEW idx, TreeInv(chain), NEW h, Named(h)
  PROVE  /\ Has(chain, dead, idx, Meta(h), ExtentOf(h))
         /\ h \in Nat /\ h # 0 /\ h = Address(ExtentOf(h)) /\ h \in DOMAIN page
<1>1. TreeOK(chain[h], h)
  BY DEF TreeInv
<1>2. Len(chain[h]) \in Nat /\ 1 \in 1 .. Len(chain[h]) /\ chain[h][1] = h
  BY <1>1 DEF TreeOK, IsChain
<1>3. Has(chain, dead, idx, Meta(h), ExtentOf(h))
  BY <1>2, Who DEF WhoHas
<1> QED
  BY <1>1, <1>2, <1>3 DEF TreeOK, Named, Linked

\* An extent that holds no meta pages is no tree.
LEMMA NoTree ==
  ASSUME NEW chain, NEW dead, NEW idx, TreeInv(chain), NEW e \in Extents \ {0},
         ~Has(chain, dead, idx, Meta(Address(e)), e)
  PROVE  Holds(Address(e)) = 0
<1>1. Address(e) # 0 /\ ExtentOf(Address(e)) = e
  BY AddressOf, ExtentsNat
<1>2. ~Named(Address(e))
  BY <1>1, HeadOwned
<1> QED
  BY <1>1, <1>2, HoldsNat DEF Named

\* Nobody claims an extent whose count is zero.
LEMMA FreeUnclaimed ==
  ASSUME NEW chain, NEW dead, NEW idx, Ledger(chain, dead, idx), session.phase # "down",
         NEW e \in Extents, ref[e] = 0
  PROVE  e # 0 /\ \A o : ~Has(chain, dead, idx, o, e)
<1>1. CountInv(chain, dead, idx)
  BY DEF Ledger
<1>2. e # 0
  BY <1>1 DEF CountInv
<1>3. CountOK(chain, dead, idx, e)
  BY <1>1, <1>2 DEF CountInv
<1>4. ASSUME NEW o, Has(chain, dead, idx, o, e)
      PROVE  FALSE
  <2>1. ref[e] = Base(o) + Holds(Address(e)) /\ Holds(Address(e)) \in Nat /\ Base(o) \in {1, 2}
    BY <1>3, <1>4, HoldsNat DEF CountOK, Base
  <2> QED
    BY <2>1
<1> QED
  BY <1>2, <1>4

\* What a search does to its thread, where it ends with an extent.
LEMMA TakeEffect ==
  ASSUME StoreType, NEW t \in Threads, AllocTest(t), ref[thread[t].hand] = 0
  PROVE  /\ Local(t) /\ UNCHANGED err /\ thread[t].hand \in Extents
         /\ ref' = [ref EXCEPT ![thread[t].hand] = 2]
         /\ ~HasGot(t) /\ HasGot(t)' /\ Op(t)' = Op(t) /\ Op(t) \in ReturnPC
         /\ thread'[t].got = thread[t].hand /\ thread'[t].pc = thread[t].ret
         /\ thread'[t].held = thread[t].held
         /\ thread'[t].batch = thread[t].batch /\ thread'[t].addr = thread[t].addr
         /\ thread'[t].head = thread[t].head /\ thread'[t].at = thread[t].at
         /\ thread'[t].entry = thread[t].entry /\ thread'[t].extent = thread[t].extent
<1> DEFINE e == thread[t].hand
           f == [pc |-> thread[t].ret, got |-> e, ret |-> "idle", first |-> 0, hand |-> 0, free |-> {}]
           r == With(thread[t], f)
           g(u) == [free |-> thread[u].free \ {e}]
<1>1. /\ On(thread[t]) /\ thread[t].pc = "test" /\ UNCHANGED <<page, mini, root, disk, session, err>>
      /\ ref' = [ref EXCEPT ![e] = 2]
      /\ thread' = [u \in Threads |-> With(thread[u], IF u = t THEN f ELSE g(u))]
  BY DEF StoreType, AllocTest, At, SearchPC, Off
<1>2. e \in Extents /\ thread[t].ret \in ReturnPC /\ DOMAIN thread[t] = Fields
  BY <1>1 DEF On
<1>3. thread'[t] = r /\ \A u \in Threads \ {t} : thread'[u] = With(thread[u], g(u))
  BY <1>1
<1>4. /\ r["pc"] = thread[t].ret /\ r["got"] = e /\ r["held"] = thread[t]["held"]
      /\ r["batch"] = thread[t]["batch"] /\ r["addr"] = thread[t]["addr"] /\ r["head"] = thread[t]["head"]
      /\ r["at"] = thread[t]["at"] /\ r["entry"] = thread[t]["entry"] /\ r["extent"] = thread[t]["extent"]
  <2>1. /\ DOMAIN f = {"pc", "got", "ret", "first", "hand", "free"}
        /\ f["pc"] = thread[t].ret /\ f["got"] = e
    OBVIOUS
  <2> HIDE DEF f, e
  <2> QED
    BY <1>2, <2>1 DEF With, Fields
<1>5. ASSUME NEW u \in Threads, u # t
      PROVE  SameView(u)
  <2>1. DOMAIN thread[u] = Fields
    BY DEF StoreType, On, Off
  <2>2. DOMAIN g(u) = {"free"}
    OBVIOUS
  <2>3. thread'[u] = With(thread[u], g(u))
    BY <1>3, <1>5
  <2> HIDE DEF g
  <2>4. \A x \in Fields \ {"free"} : thread'[u][x] = thread[u][x]
    BY <2>1, <2>2, <2>3 DEF With, Fields
  <2> QED
    BY <2>4 DEF SameView, Op, HasGot, Fields
<1> HIDE DEF r, e
<1>6. ~HasGot(t) /\ HasGot(t)' /\ Op(t)' = Op(t) /\ Op(t) \in ReturnPC
  BY <1>1, <1>2, <1>3, <1>4 DEF HasGot, Op, SearchPC, ReturnPC
<1> QED
  BY <1>1, <1>2, <1>3, <1>4, <1>5, <1>6 DEF Local, Others, e

LEMMA TakeLedger ==
  ASSUME SInv, NEW t \in Threads, AllocTest(t), NEW e1, e1 = thread[t].hand, ref[e1] = 0,
         NEW chain, NEW dead, NEW idx, Ledger(chain, dead, idx)
  PROVE  Ledger(chain, dead, idx)'
<1>1. /\ Local(t) /\ e1 \in Extents /\ ref' = [ref EXCEPT ![e1] = 2]
      /\ ~HasGot(t) /\ HasGot(t)' /\ Op(t)' = Op(t) /\ Op(t) \in ReturnPC
      /\ thread'[t].got = e1 /\ thread'[t].held = thread[t].held /\ thread'[t].head = thread[t].head
      /\ thread'[t].batch = thread[t].batch /\ thread'[t].addr = thread[t].addr
  BY TakeEffect DEF SInv
<1>2. session.phase \notin {"set_super", "sync", "down"} /\ ref \in [Extents -> Int]
  <2>1. thread[t].pc # "idle"
    BY DEF AllocTest, At
  <2> QED
    BY <2>1, Runs DEF QuietPhase, SInv, StoreType
<1>3. /\ TreeInv(chain) /\ DeadInv(dead, idx) /\ OwnerInv(chain, dead, idx) /\ CountInv(chain, dead, idx)
      /\ MiniTreeInv(chain) /\ GivenInv(chain) /\ DiskInv(chain)
  BY DEF Ledger
<1>4. e1 # 0 /\ \A o : ~Has(chain, dead, idx, o, e1)
  BY <1>1, <1>2, FreeUnclaimed
<1>5. Others(t) /\ page' = page /\ ~Walks(t) /\ ~Walks(t)'
  BY <1>1 DEF Local, Walks, Walking, Freeing, ReturnPC
<1>6. \A h : Holds(h)' = Holds(h)
  <2>1. ASSUME NEW h
        PROVE  Share(t, h)' = Share(t, h)
    BY <1>1 DEF Share
  <2> QED
    BY <1>1, <2>1, LocalHolds DEF Local
<1>7. /\ TreeInv(chain)' /\ \A o, e : ByTree(chain, o, e)' <=> ByTree(chain, o, e)
      /\ MiniTreeInv(chain)' /\ DiskInv(chain)'
  <2>1. \A h : Named(h)' <=> Named(h)
    BY <1>6, SameNames
  <2>2. \A h : Named(h) => SamePages(chain[h])
    BY <1>3, <1>5, PagesThere
  <2>3. disk.super.root # 0 => SamePages(chain[disk.super.root])
    BY <2>2, NamedBy
  <2>4. MiniTreeInv(chain)'
    BY <1>1, <1>3, <1>6 DEF MiniTreeInv, MiniHead, Local
  <2> QED
    BY <1>1, <1>2, <1>3, <2>1, <2>2, <2>3, <2>4, TreesKept, DiskKept DEF SameTrees, Local
<1>8. \A o, e : ByBatch(o, e)' <=> ByBatch(o, e)
  <2>1. \A u \in Threads : Op(u)' = Op(u) /\ thread'[u].batch = thread[u].batch
    BY <1>1, <1>5 DEF Others, SameView
  <2> QED
    BY <1>1, <2>1 DEF ByBatch, HasAhead, Local
<1>9. GivenInv(chain)'
  <2>1. \A b, a : Filling(b, a)' => Filling(b, a)
    BY <1>1, <1>5, FillingKept DEF ReturnPC, Local
  <2>2. \A c, e : InData(c, e)' <=> InData(c, e)
    BY <1>5 DEF InData, IsEntry
  <2> QED
    BY <1>1, <1>3, <2>1, <2>2, GivenKept DEF Local
<1>10. DeadInv(dead, idx)' /\ \A o, e : ByDead(dead, idx, o, e)' <=> ByDead(dead, idx, o, e)
  BY <1>3, <1>5, DeadsKept, PagesThere
<1>11. \A o, e : ByThread(o, e)' <=> ByThread(o, e) \/ (o = TakenBy(t) /\ e = e1)
  <2>1. \A o, e : ThreadHas(t, o, e)' <=> ThreadHas(t, o, e) \/ (o = TakenBy(t) /\ e = e1)
    BY <1>1 DEF ThreadHas, Freeing, ReturnPC
  <2> QED
    BY <1>5, <2>1, ThreadsKept
<1>12. \A o, e : Has(chain, dead, idx, o, e)' <=> Has(chain, dead, idx, o, e) \/ (o = TakenBy(t) /\ e = e1)
  BY <1>7, <1>8, <1>10, <1>11 DEF Has
<1>13. SameClaims({e1}, chain, dead, idx, chain, dead, idx)
  BY <1>12 DEF SameClaims
<1>14. \A o : Has(chain, dead, idx, o, e1)' <=> o = TakenBy(t)
  BY <1>4, <1>12
<1>15. OwnerInv(chain, dead, idx)'
  BY <1>1, <1>3, <1>4, <1>13, <1>14, OwnersKept
<1>16. CountInv(chain, dead, idx)'
  <2>1. Holds(Address(e1)) = 0
    BY <1>1, <1>3, <1>4, NoTree
  <2>2. Base(TakenBy(t))' = 2
    BY Tags DEF Base
  <2>3. CountOK(chain, dead, idx, e1)'
    <3>1. ref'[e1] = 2 /\ Holds(Address(e1))' = 0
      BY <1>1, <1>2, <1>6, <2>1
    <3> QED
      BY <1>14, <2>2, <3>1 DEF CountOK
  <2>4. \A o : Base(o)' = Base(o)
    BY <1>1, <1>5, BaseKept
  <2>5. session'.phase = session.phase /\ session'.crashes = session.crashes
    BY <1>1 DEF Local
  <2>6. \A e \in Extents : e \notin {e1} => ref'[e] = ref[e]
    BY <1>1, <1>2
  <2> QED
    BY <1>3, <1>4, <1>6, <1>13, <2>3, <2>4, <2>5, <2>6, CountsKept
<1> QED
  BY <1>7, <1>9, <1>10, <1>15, <1>16 DEF Ledger

-----------------------------------------------------------------------------
(* What the operations of a mini allocator do to their thread. *)

SameWork(t) ==
  /\ thread'[t].held = thread[t].held /\ thread'[t].head = thread[t].head /\ thread'[t].at = thread[t].at
  /\ thread'[t].entry = thread[t].entry /\ thread'[t].extent = thread[t].extent

LEMMA CallEffect ==
  ASSUME StoreType, NEW t \in Threads, NEW ret \in ReturnPC, NEW b, CallAlloc(t, ret, b)
  PROVE  /\ Others(t) /\ Op(t)' = ret /\ ~HasGot(t)' /\ thread'[t].pc = "first"
         /\ thread'[t].batch = b /\ thread'[t].addr = thread[t].addr /\ thread'[t].got = thread[t].got
         /\ SameWork(t)
<1> DEFINE f == [pc |-> "first", ret |-> ret, batch |-> b]
<1>1. Goes(t, f)
  BY DEF CallAlloc
<1>2. DOMAIN f = {"pc", "ret", "batch"} /\ f["pc"] = "first" /\ f["ret"] = ret /\ f["batch"] = b
  OBVIOUS
<1> HIDE DEF f
<1>3. /\ \A u \in Threads : u # t => thread'[u] = thread[u]
      /\ thread'[t].pc = "first" /\ thread'[t].ret = ret /\ thread'[t].batch = b
      /\ thread'[t].addr = thread[t].addr /\ thread'[t].got = thread[t].got
      /\ SameWork(t)
  BY <1>1, <1>2, StepFields DEF Set, SameWork
<1> QED
  BY <1>3, OthersView DEF Op, HasGot, ReturnPC

LEMMA PcEffect ==
  ASSUME StoreType, NEW t \in Threads, NEW p, Goes(t, [pc |-> p]),
         p \notin {"first", "scan", "test", "no_space"}
  PROVE  /\ Others(t) /\ Op(t)' = p /\ (HasGot(t)' <=> p \in ReturnPC) /\ thread'[t].pc = p
         /\ thread'[t].batch = thread[t].batch /\ thread'[t].addr = thread[t].addr
         /\ thread'[t].got = thread[t].got /\ SameWork(t)
<1> DEFINE f == [pc |-> p]
<1>1. Goes(t, f)
  OBVIOUS
<1>2. DOMAIN f = {"pc"} /\ f["pc"] = p
  OBVIOUS
<1> HIDE DEF f
<1>3. /\ \A u \in Threads : u # t => thread'[u] = thread[u]
      /\ thread'[t].pc = p /\ thread'[t].batch = thread[t].batch /\ thread'[t].addr = thread[t].addr
      /\ thread'[t].got = thread[t].got /\ SameWork(t)
  BY <1>1, <1>2, StepFields DEF Set, SameWork
<1> QED
  BY <1>3, OthersView DEF Op, HasGot, SearchPC

LEMMA BecomesEffect ==
  ASSUME StoreType, NEW t \in Threads, Becomes(t)
  PROVE  /\ Others(t) /\ Op(t)' = "idle" /\ ~HasGot(t)' /\ thread'[t].pc = "idle"
         /\ thread'[t].held = thread[t].held
<1> DEFINE f == [held |-> thread[t].held]
           r == With(Idle, f)
<1>1. thread' = [thread EXCEPT ![t] = r] /\ thread = [u \in Threads |-> thread[u]]
  BY DEF Becomes, StoreType
<1>2. DOMAIN f = {"held"} /\ f["held"] = thread[t].held
  OBVIOUS
<1> HIDE DEF f
<1>3. r["pc"] = "idle" /\ r["held"] = thread[t].held
  BY <1>2, IdleFields DEF With, Fields
<1> HIDE DEF r
<1>4. thread'[t] = r /\ \A u \in Threads : u # t => thread'[u] = thread[u]
  BY <1>1
<1>5. Others(t)
  BY <1>4, OthersView
<1> QED
  BY <1>3, <1>4, <1>5 DEF Op, HasGot, SearchPC, ReturnPC

\* A step that leaves the trees and those who hold them alone.
Plain(t) ==
  /\ Others(t) /\ UNCHANGED <<page, root, disk, session>> /\ MiniHead' = MiniHead
  /\ \A h : h # 0 => Share(t, h)' = Share(t, h)
  /\ ~Walks(t) /\ ~Walks(t)'

LEMMA PlainKept ==
  ASSUME NEW t \in Threads, Plain(t), session.phase \notin {"set_super", "sync"},
         NEW chain, NEW dead, NEW idx, Ledger(chain, dead, idx)
  PROVE  /\ \A h : h # 0 => Holds(h)' = Holds(h)
         /\ \A h : Named(h)' <=> Named(h)
         /\ TreeInv(chain)' /\ DeadInv(dead, idx)' /\ DiskInv(chain)'
         /\ \A o, e : ByTree(chain, o, e)' <=> ByTree(chain, o, e)
         /\ \A o, e : ByDead(dead, idx, o, e)' <=> ByDead(dead, idx, o, e)
         /\ \A c, e : InData(c, e)' <=> InData(c, e)
<1>1. ASSUME NEW h, h # 0
      PROVE  Holds(h)' = Holds(h)
  <2>1. Rest(h)' = Rest(h)
    BY DEF Rest, Plain
  <2>2. Share(t, h)' = Share(t, h)
    BY <1>1 DEF Plain
  <2> QED
    BY <2>1, <2>2, HoldsStep DEF Plain
<1>2. \A h : Named(h)' <=> Named(h)
  BY <1>1, SameNames
<1>3. TreeInv(chain) /\ DeadInv(dead, idx) /\ DiskInv(chain)
  BY DEF Ledger
<1>4. \A h : Named(h) => SamePages(chain[h])
  BY <1>3, PagesThere DEF Plain
<1>5. TreeInv(chain)' /\ \A o, e : ByTree(chain, o, e)' <=> ByTree(chain, o, e)
  BY <1>2, <1>3, <1>4, TreesKept DEF SameTrees
<1>6. DeadInv(dead, idx)' /\ \A o, e : ByDead(dead, idx, o, e)' <=> ByDead(dead, idx, o, e)
  BY <1>3, DeadsKept, PagesThere DEF Plain
<1>7. DiskInv(chain)'
  <2>1. disk.super.root # 0 => SamePages(chain[disk.super.root])
    BY <1>4, NamedBy
  <2> QED
    BY <1>3, <2>1, DiskKept DEF Plain
<1>8. \A c, e : InData(c, e)' <=> InData(c, e)
  BY DEF InData, IsEntry, Plain
<1> QED
  BY <1>1, <1>2, <1>5, <1>6, <1>7, <1>8

\* One that leaves all claims and counts alone too.
LEMMA NothingClaimed ==
  ASSUME NEW t \in Threads, Plain(t), session.phase \notin {"set_super", "sync"}, UNCHANGED ref,
         NEW chain, NEW dead, NEW idx, Ledger(chain, dead, idx),
         \A o, e : ByThread(o, e)' <=> ByThread(o, e),
         \A o, e : ByBatch(o, e)' <=> ByBatch(o, e)
  PROVE  OwnerInv(chain, dead, idx)' /\ CountInv(chain, dead, idx)'
<1>1. OwnerInv(chain, dead, idx) /\ CountInv(chain, dead, idx)
  BY DEF Ledger
<1>2. \A o, e : Has(chain, dead, idx, o, e)' <=> Has(chain, dead, idx, o, e)
  BY PlainKept DEF Has
<1>3. SameClaims({}, chain, dead, idx, chain, dead, idx)
  BY <1>2 DEF SameClaims
<1>4. OwnerInv(chain, dead, idx)'
  BY <1>1, <1>3, OwnersKept
<1>5. \A o : Base(o)' = Base(o)
  BY BaseKept DEF Plain, Walks, Walking, Freeing
<1>6. \A e \in Extents : e # 0 => Holds(Address(e))' = Holds(Address(e))
  BY PlainKept, AddressOf, ExtentsNat
<1>7. session' = session /\ ref' = ref
  BY DEF Plain
<1>8. CountInv(chain, dead, idx)'
  BY <1>1, <1>3, <1>5, <1>6, <1>7, CountsKept
<1> QED
  BY <1>4, <1>8

-----------------------------------------------------------------------------
(* mini_init *)

LEMMA MiniInitEffect ==
  ASSUME SInv, NEW t \in Threads, NEW n \in 1 .. NumBatches, MiniInit(t, n)
  PROVE  /\ session.phase = "up" /\ mini = NoMini /\ thread[t].pc = "idle" /\ Op(t) = "idle" /\ ~HasGot(t)
         /\ Others(t) /\ Op(t)' = "meta" /\ ~HasGot(t)' /\ SameWork(t)
         /\ UNCHANGED <<ref, page, root, disk, session, err>>
         /\ DOMAIN mini' = {"state", "head", "tail", "locked", "next_addr", "next_extent", "given"}
         /\ mini'.state = "init" /\ mini'.head = 0 /\ mini'.tail = 0
         /\ mini'.locked = FALSE /\ mini'.given = {}
         /\ mini'.next_addr = [b \in 1 .. n |-> 0] /\ mini'.next_extent = [b \in 1 .. n |-> 0]
<1>1. /\ session.phase = "up" /\ mini = NoMini /\ thread[t].pc = "idle"
      /\ UNCHANGED <<ref, page, root, disk, session, err>> /\ CallAlloc(t, "meta", 0)
      /\ mini' = [state |-> "init", head |-> 0, tail |-> 0, locked |-> FALSE,
                  next_addr |-> [b \in 1 .. n |-> 0],
                  next_extent |-> [b \in 1 .. n |-> 0], given |-> {}]
  BY DEF MiniInit, Running, At
<1>2. StoreType
  BY DEF SInv
<1>3. Others(t) /\ Op(t)' = "meta" /\ ~HasGot(t)' /\ SameWork(t)
  BY <1>1, <1>2, CallEffect DEF ReturnPC
<1>4. Op(t) = "idle" /\ ~HasGot(t)
  BY <1>1 DEF Op, HasGot, SearchPC, ReturnPC
<1> QED
  BY <1>1, <1>3, <1>4

LEMMA MiniInitLedger ==
  ASSUME SInv, Control, NEW t \in Threads, NEW n \in 1 .. NumBatches, MiniInit(t, n),
         NEW chain, NEW dead, NEW idx, Ledger(chain, dead, idx)
  PROVE  Ledger(chain, dead, idx)'
<1>1. /\ session.phase = "up" /\ mini = NoMini /\ Op(t) = "idle" /\ ~HasGot(t)
      /\ Others(t) /\ Op(t)' = "meta" /\ ~HasGot(t)' /\ SameWork(t)
      /\ UNCHANGED <<ref, page, root, disk, session, err>>
      /\ mini'.state = "init" /\ mini'.head = 0
  BY MiniInitEffect
<1>2. mini.state = "none" /\ MiniHead = 0 /\ MiniHead' = 0
  BY <1>1 DEF NoMini, MiniHead
<1>3. Plain(t)
  BY <1>1, <1>2 DEF Plain, Share, SameWork, Walks, Walking, Freeing
<1>4. \A u \in Threads : Op(u) \notin {"batch", "release"} /\ Op(u)' \notin {"batch", "release"}
  BY <1>1, <1>2 DEF Control, OpInv, OpOK, InitOp, ReleaseOp, Others, SameView
<1>5. \A o, e : ByBatch(o, e)' <=> ByBatch(o, e)
  BY <1>1, <1>2, <1>4 DEF ByBatch, HasAhead
<1>6. \A o, e : ByThread(o, e)' <=> ByThread(o, e)
  <2>1. \A o, e : ThreadHas(t, o, e)' <=> ThreadHas(t, o, e)
    BY <1>1 DEF ThreadHas, Freeing, Moving
  <2> QED
    BY <1>1, <2>1, ThreadsKept
<1>7. OwnerInv(chain, dead, idx)' /\ CountInv(chain, dead, idx)'
  BY <1>1, <1>3, <1>5, <1>6, NothingClaimed
<1>8. TreeInv(chain)' /\ DeadInv(dead, idx)' /\ DiskInv(chain)'
  BY <1>1, <1>3, PlainKept
<1>9. MiniTreeInv(chain)' /\ GivenInv(chain)'
  BY <1>1, <1>2 DEF MiniTreeInv, GivenInv
<1> QED
  BY <1>7, <1>8, <1>9 DEF Ledger

\* One that hands extents over from an owner to another.
LEMMA ClaimsMoved ==
  ASSUME NEW t \in Threads, Plain(t), session.phase \notin {"set_super", "sync"},
         NEW chain, NEW dead, NEW idx, Ledger(chain, dead, idx),
         NEW E, E \subseteq Extents \ {0}, SameClaims(E, chain, dead, idx, chain, dead, idx),
         \A e \in Extents : e \notin E => ref'[e] = ref[e],
         \A e \in E : \E q : \A o : Has(chain, dead, idx, o, e)' => o = q,
         session.phase # "down" => \A e \in E : CountOK(chain, dead, idx, e)'
  PROVE  OwnerInv(chain, dead, idx)' /\ CountInv(chain, dead, idx)'
<1>1. OwnerInv(chain, dead, idx) /\ CountInv(chain, dead, idx)
  BY DEF Ledger
<1>2. OwnerInv(chain, dead, idx)'
  BY <1>1, OwnersKept
<1>3. \A o : Base(o)' = Base(o)
  BY BaseKept DEF Plain, Walks, Walking, Freeing
<1>4. \A e \in Extents : e # 0 => Holds(Address(e))' = Holds(Address(e))
  BY PlainKept, AddressOf, ExtentsNat
<1>5. session' = session
  BY DEF Plain
<1>6. CountInv(chain, dead, idx)'
  BY <1>1, <1>3, <1>4, <1>5, CountsKept
<1> QED
  BY <1>2, <1>6

LEMMA ClaimMoved ==
  ASSUME NEW t \in Threads, Plain(t), session.phase \notin {"set_super", "sync"},
         NEW chain, NEW dead, NEW idx, Ledger(chain, dead, idx),
         NEW e1 \in Extents \ {0}, SameClaims({e1}, chain, dead, idx, chain, dead, idx),
         \A e \in Extents : e # e1 => ref'[e] = ref[e],
         NEW q, \A o : Has(chain, dead, idx, o, e1)' => o = q,
         CountOK(chain, dead, idx, e1)'
  PROVE  OwnerInv(chain, dead, idx)' /\ CountInv(chain, dead, idx)'
<1> DEFINE E == {e1}
<1>1. /\ E \subseteq Extents \ {0} /\ SameClaims(E, chain, dead, idx, chain, dead, idx)
      /\ \A e \in Extents : e \notin E => ref'[e] = ref[e]
      /\ \A e \in E : e = e1
  OBVIOUS
<1> HIDE DEF E
<1>2. \A e \in E : \E p : \A o : Has(chain, dead, idx, o, e)' => o = p
  BY <1>1
<1>3. \A e \in E : CountOK(chain, dead, idx, e)'
  BY <1>1
<1> QED
  BY <1>1, <1>2, <1>3, ClaimsMoved

\* The new owner of an extent counts for as much as the old one.
LEMMA HandOver ==
  ASSUME NEW chain, NEW dead, NEW idx, NEW chain2, NEW dead2, NEW idx2,
         CountInv(chain, dead, idx), session.phase # "down",
         NEW e \in Extents \ {0}, NEW o1, NEW o2, Has(chain, dead, idx, o1, e),
         \A o : Has(chain2, dead2, idx2, o, e)' <=> o = o2,
         o1[1] # "dropped", o2[1] # "dropped",
         ref'[e] = ref[e], Holds(Address(e))' = Holds(Address(e))
  PROVE  CountOK(chain2, dead2, idx2, e)'
<1>1. Base(o1) = 2 /\ Base(o2)' = 2
  BY Tags DEF Base
<1>2. ref[e] = Base(o1) + Holds(Address(e))
  BY DEF CountInv, CountOK
<1> QED
  BY <1>1, <1>2 DEF CountOK

\* What a thread has claims to.
LEMMA ThreadClaims ==
  ASSUME NEW t \in Threads, NEW chain, NEW dead, NEW idx, Ledger(chain, dead, idx)
  PROVE  /\ HasGot(t) => thread[t].got \in Extents \ {0} /\ Has(chain, dead, idx, TakenBy(t), thread[t].got)
         /\ Op(t) \in Moving => ExtentOf(thread[t].addr) \in Extents \ {0}
                                /\ Has(chain, dead, idx, MovedBy(t), ExtentOf(thread[t].addr))
         /\ Op(t) \in Freeing => thread[t].extent \in Extents \ {0}
                                 /\ Has(chain, dead, idx, DroppedBy(t), thread[t].extent)
         /\ \A b : HasAhead(b) => mini.next_extent[b] \in Extents \ {0}
                                  /\ Has(chain, dead, idx, AheadOf(b), mini.next_extent[b])
<1>1. WhoHas(chain, dead, idx)
  BY Who
<1>2. OwnerInv(chain, dead, idx)
  BY DEF Ledger
<1>3. /\ HasGot(t) => Has(chain, dead, idx, TakenBy(t), thread[t].got)
      /\ Op(t) \in Moving => Has(chain, dead, idx, MovedBy(t), ExtentOf(thread[t].addr))
      /\ Op(t) \in Freeing => Has(chain, dead, idx, DroppedBy(t), thread[t].extent)
  BY <1>1 DEF WhoHas
<1>4. \A b : HasAhead(b) => Has(chain, dead, idx, AheadOf(b), mini.next_extent[b])
  BY <1>1 DEF WhoHas
<1>5. \A o, e : Has(chain, dead, idx, o, e) => e \in Extents \ {0}
  BY <1>2 DEF OwnerInv
<1> QED
  BY <1>3, <1>4, <1>5

LEMMA InitBatchEffect ==
  ASSUME SInv, Control, NEW t \in Threads, MiniInitBatch(t), NEW b, b = thread[t].batch,
         NEW e1 \in Extents, e1 = thread[t].got
  PROVE  /\ HasGot(t) /\ Op(t) = "batch" /\ mini.state = "init" /\ b \in DOMAIN mini.next_extent
         /\ Others(t) /\ ~HasGot(t)' /\ thread'[t].held = thread[t].held
         /\ UNCHANGED <<ref, page, root, disk, session, err>>
         /\ DOMAIN mini' = DOMAIN mini
         /\ mini'.head = mini.head /\ mini'.tail = mini.tail /\ mini'.locked = mini.locked
         /\ mini'.next_addr = mini.next_addr /\ mini'.given = mini.given
         /\ mini'.next_extent = [mini.next_extent EXCEPT ![b] = e1]
         /\ mini.next_extent \in Seq(Extents) /\ Len(mini.next_addr) = Len(mini.next_extent)
         /\ \/ b < Len(mini.next_extent) /\ Op(t)' = "batch" /\ thread'[t].batch = b + 1 /\ mini'.state = "init"
            \/ b = Len(mini.next_extent) /\ Op(t)' = "idle" /\ mini'.state = "open"
<1>1. StoreType /\ thread[t].pc = "batch"
  BY DEF SInv, MiniInitBatch, At
<1>2. HasGot(t) /\ Op(t) = "batch"
  BY <1>1 DEF HasGot, Op, ReturnPC, SearchPC
<1>3. /\ mini.state = "init" /\ b \in DOMAIN mini.next_extent
      /\ DOMAIN mini = {"state", "head", "tail", "locked", "next_addr", "next_extent", "given"}
      /\ mini.next_extent \in Seq(Extents) /\ Len(mini.next_addr) = Len(mini.next_extent)
  BY <1>2 DEF Control, OpInv, OpOK, InitOp, MiniOK, NoMini
<1>4. b \in 1 .. Len(mini.next_extent) /\ Len(mini.next_extent) \in Nat
  BY <1>3
<1>5. CASE b < Len(mini.next_extent)
  <2>1. mini' = [mini EXCEPT !.next_extent[b] = e1] /\ CallAlloc(t, "batch", b + 1)
    BY <1>5 DEF MiniInitBatch
  <2>2. Others(t) /\ ~HasGot(t)' /\ SameWork(t) /\ Op(t)' = "batch" /\ thread'[t].batch = b + 1
    BY <1>1, <2>1, CallEffect DEF ReturnPC
  <2>3. UNCHANGED <<ref, page, root, disk, session, err>>
    BY DEF MiniInitBatch
  <2> QED
    BY <1>2, <1>3, <1>5, <2>1, <2>2, <2>3 DEF SameWork
<1>6. CASE ~(b < Len(mini.next_extent))
  <2>1. mini' = [mini EXCEPT !.next_extent[b] = e1, !.state = "open"] /\ Becomes(t)
    BY <1>6 DEF MiniInitBatch
  <2>2. Others(t) /\ ~HasGot(t)' /\ thread'[t].held = thread[t].held /\ Op(t)' = "idle"
    BY <1>1, <2>1, BecomesEffect
  <2>3. UNCHANGED <<ref, page, root, disk, session, err>>
    BY DEF MiniInitBatch
  <2>4. b = Len(mini.next_extent)
    BY <1>4, <1>6
  <2> QED
    BY <1>2, <1>3, <2>1, <2>2, <2>3, <2>4
<1> QED
  BY <1>5, <1>6

\* Nobody else claims what a thread has, or what lies ahead of a batch.
LEMMA OnlyThread ==
  ASSUME NEW t \in Threads, NEW chain, NEW dead, NEW idx, OwnerInv(chain, dead, idx),
         NEW e1, NEW o1 \in {TakenBy(t), MovedBy(t), DroppedBy(t)}, Has(chain, dead, idx, o1, e1)
  PROVE  \A o : /\ ~ByTree(chain, o, e1) /\ ~ByDead(dead, idx, o, e1) /\ ~OtherThread(t, o, e1)
                /\ ~ByBatch(o, e1)
<1>1. \A o : Has(chain, dead, idx, o, e1) => o = o1
  BY DEF OwnerInv
<1>2. o1[1] \in {"taken", "moved", "dropped"} /\ o1[2] = t
  BY Tags
<1>3. \A o : ByTree(chain, o, e1) \/ ByDead(dead, idx, o, e1) \/ ByBatch(o, e1) => o = o1
  BY <1>1 DEF Has
<1>4. \A o : OtherThread(t, o, e1) => o = o1 /\ o[2] # t
  <2>1. \A o : OtherThread(t, o, e1) => o[2] # t
    BY Tags DEF OtherThread, ThreadHas
  <2>2. \A o : OtherThread(t, o, e1) => ByThread(o, e1)
    BY DEF OtherThread, ByThread
  <2> QED
    BY <1>1, <2>1, <2>2 DEF Has
<1> QED
  BY <1>2, <1>3, <1>4, Kinds

LEMMA OnlyBatch ==
  ASSUME NEW b, NEW chain, NEW dead, NEW idx, OwnerInv(chain, dead, idx),
         NEW e1, Has(chain, dead, idx, AheadOf(b), e1)
  PROVE  \A o : /\ ~ByTree(chain, o, e1) /\ ~ByDead(dead, idx, o, e1) /\ ~ByThread(o, e1)
                /\ ByBatch(o, e1) => o = AheadOf(b)
<1>1. \A o : Has(chain, dead, idx, o, e1) => o = AheadOf(b)
  BY DEF OwnerInv
<1>2. AheadOf(b)[1] = "ahead"
  BY Tags
<1>3. \A o : ByTree(chain, o, e1) \/ ByDead(dead, idx, o, e1) \/ ByThread(o, e1) \/ ByBatch(o, e1) => o = AheadOf(b)
  BY <1>1 DEF Has
<1> QED
  BY <1>2, <1>3, Kinds

LEMMA InitBatchLedger ==
  ASSUME SInv, Control, NEW t \in Threads, MiniInitBatch(t), NEW b, b = thread[t].batch,
         NEW e1, e1 = thread[t].got, NEW chain, NEW dead, NEW idx, Ledger(chain, dead, idx)
  PROVE  Ledger(chain, dead, idx)'
<1>1. HasGot(t)
  BY DEF MiniInitBatch, At, HasGot, ReturnPC
<1>2. e1 \in Extents \ {0} /\ Has(chain, dead, idx, TakenBy(t), e1)
  BY <1>1, ThreadClaims
<1>3. /\ HasGot(t) /\ Op(t) = "batch" /\ mini.state = "init" /\ b \in DOMAIN mini.next_extent
      /\ Others(t) /\ ~HasGot(t)' /\ thread'[t].held = thread[t].held
      /\ UNCHANGED <<ref, page, root, disk, session, err>>
      /\ mini'.head = mini.head /\ mini'.tail = mini.tail
      /\ mini'.next_addr = mini.next_addr /\ mini'.given = mini.given
      /\ mini'.next_extent = [mini.next_extent EXCEPT ![b] = e1]
      /\ mini.next_extent \in Seq(Extents)
      /\ \/ b < Len(mini.next_extent) /\ Op(t)' = "batch" /\ thread'[t].batch = b + 1 /\ mini'.state = "init"
         \/ b = Len(mini.next_extent) /\ Op(t)' = "idle" /\ mini'.state = "open"
  BY <1>2, InitBatchEffect
<1>4. session.phase \notin {"set_super", "sync", "down"}
  <2>1. thread[t].pc # "idle"
    BY DEF MiniInitBatch, At
  <2> QED
    BY <2>1, Runs DEF QuietPhase
<1>5. Plain(t)
  <2>1. MiniHead' = MiniHead
    BY <1>3 DEF MiniHead
  <2> QED
    BY <1>3, <2>1 DEF Plain, Share, Walks, Walking, Freeing
<1>6. /\ \A h : h # 0 => Holds(h)' = Holds(h)
      /\ TreeInv(chain)' /\ DeadInv(dead, idx)' /\ DiskInv(chain)'
      /\ \A o, e : ByTree(chain, o, e)' <=> ByTree(chain, o, e)
      /\ \A o, e : ByDead(dead, idx, o, e)' <=> ByDead(dead, idx, o, e)
  BY <1>4, <1>5, PlainKept
<1>7. \A o, e : ByThread(o, e) <=> (o = TakenBy(t) /\ e = e1) \/ OtherThread(t, o, e)
  <2>1. \A o, e : ThreadHas(t, o, e) <=> o = TakenBy(t) /\ e = e1
    BY <1>3 DEF ThreadHas, Freeing, Moving
  <2> QED
    BY <1>3, <2>1, ThreadsKept
<1>8. \A o, e : ByThread(o, e)' <=> OtherThread(t, o, e)
  <2>1. \A o, e : ~ThreadHas(t, o, e)'
    BY <1>3 DEF ThreadHas, Freeing, Moving
  <2> QED
    BY <1>3, <2>1, ThreadsKept
<1>9. \A o, e : ByBatch(o, e)' <=> ByBatch(o, e) \/ (o = AheadOf(b) /\ e = e1)
  <2>1. \A u \in Threads : u # t => Op(u) \notin {"batch", "release"} /\ Op(u)' \notin {"batch", "release"}
    BY <1>3 DEF Control, OpInv, Apart, InitOp, ReleaseOp, Others, SameView
  <2>2. /\ DOMAIN mini.next_extent = 1 .. Len(mini.next_extent) /\ Len(mini.next_extent) \in Nat
        /\ DOMAIN mini'.next_extent = DOMAIN mini.next_extent
        /\ \A c \in DOMAIN mini.next_extent : mini'.next_extent[c] = IF c = b THEN e1 ELSE mini.next_extent[c]
    BY <1>3
  <2>3. \A c : HasAhead(c) <=> c \in DOMAIN mini.next_extent /\ c < b
    BY <1>3, <2>1 DEF HasAhead
  <2>4. \A c : HasAhead(c)' <=> c \in DOMAIN mini.next_extent /\ c <= b
    BY <1>3, <2>1, <2>2 DEF HasAhead
  <2>5. \A c : HasAhead(c)' <=> HasAhead(c) \/ c = b
    BY <1>3, <2>2, <2>3, <2>4
  <2>6. ~HasAhead(b)
    BY <1>3, <2>2, <2>3
  <2> QED
    BY <1>3, <2>2, <2>3, <2>5, <2>6 DEF ByBatch
<1>10. OwnerInv(chain, dead, idx) /\ CountInv(chain, dead, idx) /\ MiniTreeInv(chain)
  BY DEF Ledger
<1>11. SameClaims({e1}, chain, dead, idx, chain, dead, idx)
  BY <1>6, <1>7, <1>8, <1>9 DEF SameClaims, Has
<1>12. \A o : Has(chain, dead, idx, o, e1)' <=> o = AheadOf(b)
  BY <1>2, <1>6, <1>8, <1>9, <1>10, OnlyThread DEF Has
<1>13. OwnerInv(chain, dead, idx)' /\ CountInv(chain, dead, idx)'
  <2>1. Holds(Address(e1))' = Holds(Address(e1))
    BY <1>2, <1>6, AddressOf, ExtentsNat
  <2>2. CountOK(chain, dead, idx, e1)'
    BY <1>2, <1>3, <1>4, <1>10, <1>12, <2>1, HandOver, Tags
  <2>3. \A e \in Extents : e # e1 => ref'[e] = ref[e]
    BY <1>3
  <2>4. \A o : Has(chain, dead, idx, o, e1)' => o = AheadOf(b)
    BY <1>12
  <2> QED
    BY <1>2, <1>4, <1>5, <1>11, <2>2, <2>3, <2>4, ClaimMoved
<1>14. MiniTreeInv(chain)'
  BY <1>3, <1>5, <1>6, <1>10 DEF MiniTreeInv, Plain
<1>15. GivenInv(chain)'
  <2>1. mini.given = {} /\ \A c \in DOMAIN mini.next_addr : mini.next_addr[c] = 0
    BY <1>3 DEF Control, MiniInv
  <2>2. \A c, a : ~Filling(c, a)'
    <3>1. \A u \in Threads : Op(u)' # "give"
      BY <1>3 DEF Control, OpInv, OpOK, AllocOp, Others, SameView
    <3>2. 0 % PagesPerExtent = 0
      BY StorageAssumption
    <3> QED
      BY <1>3, <2>1, <3>1, <3>2 DEF Filling
  <2> QED
    BY <1>3, <2>1, <2>2 DEF GivenInv
<1> QED
  BY <1>6, <1>13, <1>14, <1>15 DEF Ledger

-----------------------------------------------------------------------------
(* The rest of the search. *)

LEMMA SearchEffect ==
  ASSUME SInv, NEW t \in Threads,
         AllocFirst(t) \/ AllocScan(t) \/ (AllocTest(t) /\ ref[thread[t].hand] # 0)
  PROVE  Local(t) /\ SameView(t) /\ UNCHANGED <<ref, err>> /\ session.phase \notin QuietPhase
<1>1. StoreType
  BY DEF SInv
<1>2. ASSUME NEW f, Goes(t, f), DOMAIN f \subseteq {"pc", "first", "hand", "free"},
             thread[t].pc \in {"first", "scan", "test"}, "pc" \in DOMAIN f, f["pc"] \in SearchPC
      PROVE  Others(t) /\ SameView(t) /\ session.phase \notin QuietPhase
  <2>1. /\ \A u \in Threads : u # t => thread'[u] = thread[u]
        /\ thread'[t].pc \in SearchPC /\ thread'[t].ret = thread[t].ret /\ thread'[t].held = thread[t].held
        /\ thread'[t].got = thread[t].got /\ thread'[t].batch = thread[t].batch
        /\ thread'[t].addr = thread[t].addr /\ thread'[t].head = thread[t].head
        /\ thread'[t].at = thread[t].at /\ thread'[t].entry = thread[t].entry
        /\ thread'[t].extent = thread[t].extent
    BY <1>1, <1>2, StepFields DEF Set
  <2>2. Others(t)
    BY <2>1, OthersView
  <2>3. SameView(t)
    BY <1>2, <2>1 DEF SameView, Op, HasGot, SearchPC, ReturnPC
  <2> QED
    BY <1>2, <2>2, <2>3, Runs
<1>3. CASE AllocFirst(t)
  <2> DEFINE f == [pc |-> "scan", first |-> hand, free |-> {e \in Extents : ref[e] = 0}]
  <2>1. Goes(t, f) /\ DOMAIN f = {"pc", "first", "free"} /\ f["pc"] = "scan" /\ thread[t].pc = "first"
    BY <1>3 DEF AllocFirst, At
  <2> HIDE DEF f
  <2>2. Others(t) /\ SameView(t) /\ session.phase \notin QuietPhase
    BY <1>2, <2>1 DEF SearchPC
  <2> QED
    BY <1>3, <2>2 DEF AllocFirst, Local
<1>4. CASE AllocScan(t)
  <2> DEFINE f == [pc |-> "test", hand |-> hand]
  <2>1. Goes(t, f) /\ DOMAIN f = {"pc", "hand"} /\ f["pc"] = "test" /\ thread[t].pc = "scan"
    BY <1>4 DEF AllocScan, At
  <2> HIDE DEF f
  <2>2. Others(t) /\ SameView(t) /\ session.phase \notin QuietPhase
    BY <1>2, <2>1 DEF SearchPC
  <2> QED
    BY <1>4, <2>2 DEF AllocScan, Local
<1>5. CASE AllocTest(t) /\ ref[thread[t].hand] # 0
  <2> DEFINE f == [pc |-> IF RoundIsOver(t) THEN "no_space" ELSE "scan"]
  <2>1. Goes(t, f) /\ DOMAIN f = {"pc"} /\ f["pc"] \in {"no_space", "scan"} /\ thread[t].pc = "test"
    BY <1>5 DEF AllocTest, At
  <2> HIDE DEF f
  <2>2. Others(t) /\ SameView(t) /\ session.phase \notin QuietPhase
    BY <1>2, <2>1 DEF SearchPC
  <2> QED
    BY <1>5, <2>2 DEF AllocTest, Local
<1> QED
  BY <1>3, <1>4, <1>5

LEMMA SearchLedger ==
  ASSUME SInv, NEW t \in Threads, AllocFirst(t) \/ AllocScan(t) \/ AllocTest(t),
         NEW chain, NEW dead, NEW idx, Ledger(chain, dead, idx)
  PROVE  Ledger(chain, dead, idx)'
<1>1. CASE AllocTest(t) /\ ref[thread[t].hand] = 0
  BY <1>1, TakeLedger
<1>2. CASE ~(AllocTest(t) /\ ref[thread[t].hand] = 0)
  <2>1. Local(t) /\ SameView(t) /\ UNCHANGED ref /\ session.phase \notin QuietPhase
    BY <1>2, SearchEffect
  <2> QED
    BY <2>1, ViewKept DEF QuietPhase
<1> QED
  BY <1>1, <1>2

-----------------------------------------------------------------------------
(* mini_alloc *)

LEMMA MiniAllocEffect ==
  ASSUME SInv, Control, NEW t \in Threads, NEW b, b \in DOMAIN mini.next_addr, mini # NoMini, MiniAlloc(t, b)
  PROVE  /\ session.phase = "up" /\ mini.state = "open" /\ Op(t) = "idle" /\ ~HasGot(t)
         /\ mini.next_addr[b] # Wait /\ mini.next_addr \in Seq(Int) /\ mini.next_extent \in Seq(Extents)
         /\ Len(mini.next_addr) = Len(mini.next_extent)
         /\ Others(t) /\ ~HasGot(t)' /\ SameWork(t) /\ thread'[t].batch = b
         /\ UNCHANGED <<ref, page, root, disk, session, err>>
         /\ mini' = [mini EXCEPT !.next_addr[b] = Wait]
         /\ DOMAIN mini = {"state", "head", "tail", "locked", "next_addr", "next_extent", "given"}
         /\ DOMAIN mini' = DOMAIN mini /\ mini'.state = mini.state
         /\ mini'.head = mini.head /\ mini'.tail = mini.tail /\ mini'.locked = mini.locked
         /\ mini'.next_addr = [mini.next_addr EXCEPT ![b] = Wait] /\ mini'.given = mini.given
         /\ mini'.next_extent = mini.next_extent
         /\ \/ mini.next_addr[b] % PagesPerExtent = 0 /\ Op(t)' = "next"
            \/ mini.next_addr[b] % PagesPerExtent # 0 /\ Op(t)' = "give" /\ thread'[t].addr = mini.next_addr[b]
<1>1. /\ StoreType /\ session.phase = "up" /\ thread[t].pc = "idle" /\ mini.state = "open"
      /\ mini.next_addr[b] # Wait /\ mini' = [mini EXCEPT !.next_addr[b] = Wait]
      /\ UNCHANGED <<ref, page, root, disk, session, err>>
  BY DEF SInv, MiniAlloc, Running, At, LockBatch
<1>2. Op(t) = "idle" /\ ~HasGot(t)
  BY <1>1 DEF Op, HasGot, SearchPC, ReturnPC
<1>3. /\ DOMAIN mini = {"state", "head", "tail", "locked", "next_addr", "next_extent", "given"}
      /\ mini.next_addr \in Seq(Int) /\ mini.next_extent \in Seq(Extents)
      /\ Len(mini.next_addr) = Len(mini.next_extent)
  BY DEF Control, MiniOK
<1>4. /\ Others(t) /\ ~HasGot(t)' /\ SameWork(t) /\ thread'[t].batch = b
      /\ \/ mini.next_addr[b] % PagesPerExtent = 0 /\ Op(t)' = "next"
         \/ mini.next_addr[b] % PagesPerExtent # 0 /\ Op(t)' = "give" /\ thread'[t].addr = mini.next_addr[b]
  <2>1. CASE mini.next_addr[b] % PagesPerExtent = 0
    <3>1. CallAlloc(t, "next", b)
      BY <2>1 DEF MiniAlloc
    <3> QED
      BY <1>1, <2>1, <3>1, CallEffect DEF ReturnPC
  <2>2. CASE mini.next_addr[b] % PagesPerExtent # 0
    <3> DEFINE f == [pc |-> "give", batch |-> b, addr |-> mini.next_addr[b]]
    <3>1. /\ Goes(t, f) /\ DOMAIN f = {"pc", "batch", "addr"} /\ f["pc"] = "give" /\ f["batch"] = b
          /\ f["addr"] = mini.next_addr[b]
      BY <2>2 DEF MiniAlloc
    <3> HIDE DEF f
    <3>2. /\ \A u \in Threads : u # t => thread'[u] = thread[u]
          /\ thread'[t].pc = "give" /\ thread'[t].batch = b /\ thread'[t].addr = mini.next_addr[b]
          /\ SameWork(t)
      BY <1>1, <3>1, StepFields DEF Set, SameWork
    <3> QED
      BY <2>2, <3>2, OthersView DEF Op, HasGot, SearchPC, ReturnPC
  <2> QED
    BY <2>1, <2>2
<1>5. /\ DOMAIN mini' = DOMAIN mini /\ mini'.state = mini.state
      /\ mini'.head = mini.head /\ mini'.tail = mini.tail /\ mini'.locked = mini.locked
      /\ mini'.next_addr = [mini.next_addr EXCEPT ![b] = Wait] /\ mini'.given = mini.given
      /\ mini'.next_extent = mini.next_extent
  BY <1>1, <1>3
<1> QED
  BY <1>1, <1>2, <1>3, <1>4, <1>5

LEMMA MiniAllocLedger ==
  ASSUME SInv, Control, NEW t \in Threads, NEW b, b \in DOMAIN mini.next_addr, mini # NoMini, MiniAlloc(t, b),
         NEW chain, NEW dead, NEW idx, Ledger(chain, dead, idx)
  PROVE  Ledger(chain, dead, idx)'
<1>1. /\ session.phase = "up" /\ mini.state = "open" /\ Op(t) = "idle" /\ ~HasGot(t)
      /\ mini.next_addr[b] # Wait /\ mini.next_addr \in Seq(Int)
      /\ Others(t) /\ ~HasGot(t)' /\ SameWork(t) /\ thread'[t].batch = b
      /\ UNCHANGED <<ref, page, root, disk, session, err>>
      /\ mini'.state = mini.state /\ mini'.head = mini.head /\ mini'.tail = mini.tail
      /\ mini'.next_addr = [mini.next_addr EXCEPT ![b] = Wait] /\ mini'.given = mini.given
      /\ mini'.next_extent = mini.next_extent
      /\ \/ mini.next_addr[b] % PagesPerExtent = 0 /\ Op(t)' = "next"
         \/ mini.next_addr[b] % PagesPerExtent # 0 /\ Op(t)' = "give" /\ thread'[t].addr = mini.next_addr[b]
  BY MiniAllocEffect
<1>2. Op(t)' \in {"next", "give"}
  BY <1>1
<1>3. Plain(t) /\ MiniHead' = MiniHead
  <2>1. MiniHead' = MiniHead
    BY <1>1 DEF MiniHead
  <2> QED
    BY <1>1, <1>2, <2>1 DEF Plain, Share, SameWork, Walks, Walking, Freeing
<1>4. \A o, e : ByBatch(o, e)' <=> ByBatch(o, e)
  BY <1>1, <1>2, BatchesKept
<1>5. \A o, e : ByThread(o, e)' <=> ByThread(o, e)
  <2>1. \A o, e : ThreadHas(t, o, e)' <=> ThreadHas(t, o, e)
    BY <1>1, <1>2 DEF ThreadHas, Freeing, Moving
  <2> QED
    BY <1>1, <2>1, ThreadsKept
<1>6. OwnerInv(chain, dead, idx)' /\ CountInv(chain, dead, idx)'
  BY <1>1, <1>3, <1>4, <1>5, NothingClaimed
<1>7. /\ TreeInv(chain)' /\ DeadInv(dead, idx)' /\ DiskInv(chain)'
      /\ \A h : h # 0 => Holds(h)' = Holds(h)
      /\ \A c, e : InData(c, e)' <=> InData(c, e)
  BY <1>1, <1>3, PlainKept
<1>8. MiniTreeInv(chain)'
  BY <1>1, <1>3, <1>7 DEF MiniTreeInv, Ledger
<1>9. GivenInv(chain)'
  <2>1. \A c, a : Filling(c, a)' => Filling(c, a)
    <3>1. ASSUME NEW u \in Threads, Op(u)' = "give"
          PROVE  Filling(thread'[u].batch, thread'[u].addr)
      <4>1. CASE u = t
        BY <1>1, <3>1, <4>1 DEF Filling
      <4>2. CASE u # t
        BY <1>1, <3>1, <4>2 DEF Filling, Others, SameView
      <4> QED
        BY <4>1, <4>2
    <3>2. \A c \in DOMAIN mini.next_addr : c # b => mini'.next_addr[c] = mini.next_addr[c]
      BY <1>1
    <3>3. mini'.next_addr[b] = Wait /\ DOMAIN mini'.next_addr = DOMAIN mini.next_addr
      BY <1>1
    <3> QED
      BY <3>1, <3>2, <3>3 DEF Filling
  <2> QED
    BY <1>1, <1>7, <2>1, GivenKept DEF Ledger
<1> QED
  BY <1>6, <1>7, <1>8, <1>9 DEF Ledger

LEMMA NextExtentEffect ==
  ASSUME SInv, Control, NEW t \in Threads, MiniNextExtent(t), NEW b, b = thread[t].batch,
         NEW e2 \in Extents, e2 = thread[t].got, NEW e1, e1 = mini.next_extent[b]
  PROVE  /\ HasGot(t) /\ Op(t) = "next" /\ mini.state = "open" /\ b \in DOMAIN mini.next_extent
         /\ Others(t) /\ ~HasGot(t)' /\ Op(t)' = "append" /\ thread'[t].batch = b /\ SameWork(t)
         /\ thread'[t].addr = Address(e1) /\ e1 \in Extents
         /\ UNCHANGED <<ref, page, root, disk, session, err>>
         /\ DOMAIN mini' = DOMAIN mini /\ mini'.state = mini.state
         /\ mini'.head = mini.head /\ mini'.tail = mini.tail /\ mini'.locked = mini.locked
         /\ mini'.next_addr = mini.next_addr /\ mini'.given = mini.given
         /\ mini'.next_extent = [mini.next_extent EXCEPT ![b] = e2]
         /\ mini.next_extent \in Seq(Extents)
         /\ DOMAIN mini = {"state", "head", "tail", "locked", "next_addr", "next_extent", "given"}
<1> DEFINE f == [pc |-> "append", addr |-> Address(mini.next_extent[thread[t].batch])]
<1>1. StoreType /\ thread[t].pc = "next" /\ UNCHANGED <<ref, page, root, disk, session, err>>
  BY DEF SInv, MiniNextExtent, At
<1>2. HasGot(t) /\ Op(t) = "next"
  BY <1>1 DEF HasGot, Op, ReturnPC, SearchPC
<1>3. mini.state = "open" /\ b \in DOMAIN mini.next_addr
  BY <1>2 DEF Control, OpInv, OpOK, AllocOp
<1>4. /\ DOMAIN mini = {"state", "head", "tail", "locked", "next_addr", "next_extent", "given"}
      /\ mini.next_extent \in Seq(Extents) /\ b \in DOMAIN mini.next_extent
      /\ mini.next_addr \in Seq(Int) /\ Len(mini.next_addr) = Len(mini.next_extent)
  BY <1>3 DEF Control, MiniOK, NoMini
<1>5. e1 \in Extents
  BY <1>4
<1>6. Goes(t, f) /\ DOMAIN f = {"pc", "addr"} /\ f["pc"] = "append" /\ f["addr"] = Address(e1)
  BY DEF MiniNextExtent
<1> HIDE DEF f
<1>7. /\ \A u \in Threads : u # t => thread'[u] = thread[u]
      /\ thread'[t].pc = "append" /\ thread'[t].batch = b /\ thread'[t].addr = Address(e1)
      /\ SameWork(t)
  BY <1>1, <1>6, StepFields DEF Set, SameWork
<1>8. Others(t) /\ ~HasGot(t)' /\ Op(t)' = "append"
  BY <1>7, OthersView DEF Op, HasGot, SearchPC, ReturnPC
<1>9. mini' = [mini EXCEPT !.next_extent[b] = e2]
  BY DEF MiniNextExtent
<1>10. /\ DOMAIN mini' = DOMAIN mini /\ mini'.state = mini.state
       /\ mini'.head = mini.head /\ mini'.tail = mini.tail /\ mini'.locked = mini.locked
       /\ mini'.next_addr = mini.next_addr /\ mini'.given = mini.given
       /\ mini'.next_extent = [mini.next_extent EXCEPT ![b] = e2]
  BY <1>4, <1>9
<1> QED
  BY <1>1, <1>2, <1>3, <1>4, <1>5, <1>7, <1>8, <1>10

\* While the mini allocator is open, an extent lies ahead of every batch.
LEMMA OpenAhead ==
  ASSUME mini.state = "open", NEW b \in DOMAIN mini.next_extent
  PROVE  HasAhead(b)
  BY DEF HasAhead

LEMMA NextExtentLedger ==
  ASSUME SInv, Control, NEW t \in Threads, MiniNextExtent(t), NEW b, b = thread[t].batch,
         NEW e2, e2 = thread[t].got, NEW e1, e1 = mini.next_extent[b],
         NEW chain, NEW dead, NEW idx, Ledger(chain, dead, idx)
  PROVE  Ledger(chain, dead, idx)'
<1>1. e2 \in Extents \ {0} /\ Has(chain, dead, idx, TakenBy(t), e2)
  <2>1. HasGot(t)
    BY DEF MiniNextExtent, At, HasGot, ReturnPC
  <2> QED
    BY <2>1, ThreadClaims
<1>2. /\ HasGot(t) /\ Op(t) = "next" /\ mini.state = "open" /\ b \in DOMAIN mini.next_extent
      /\ Others(t) /\ ~HasGot(t)' /\ Op(t)' = "append" /\ thread'[t].batch = b /\ SameWork(t)
      /\ thread'[t].addr = Address(e1) /\ e1 \in Extents
      /\ UNCHANGED <<ref, page, root, disk, session, err>>
      /\ mini'.state = mini.state /\ mini'.head = mini.head /\ mini'.tail = mini.tail
      /\ mini'.next_addr = mini.next_addr /\ mini'.given = mini.given
      /\ mini'.next_extent = [mini.next_extent EXCEPT ![b] = e2]
      /\ mini.next_extent \in Seq(Extents)
  BY <1>1, NextExtentEffect
<1>3. e1 \in Extents \ {0} /\ Has(chain, dead, idx, AheadOf(b), e1) /\ ExtentOf(Address(e1)) = e1
  <2>1. HasAhead(b)
    BY <1>2, OpenAhead
  <2> QED
    BY <1>2, <2>1, ThreadClaims, AddressOf, ExtentsNat
<1>4. session.phase = "up"
  BY <1>2 DEF Control, MiniInv
<1>5. Plain(t) /\ MiniHead' = MiniHead
  <2>1. MiniHead' = MiniHead
    BY <1>2 DEF MiniHead
  <2> QED
    BY <1>2, <2>1 DEF Plain, Share, SameWork, Walks, Walking, Freeing
<1>6. /\ \A h : h # 0 => Holds(h)' = Holds(h)
      /\ TreeInv(chain)' /\ DeadInv(dead, idx)' /\ DiskInv(chain)'
      /\ \A o, e : ByTree(chain, o, e)' <=> ByTree(chain, o, e)
      /\ \A o, e : ByDead(dead, idx, o, e)' <=> ByDead(dead, idx, o, e)
      /\ \A c, e : InData(c, e)' <=> InData(c, e)
  BY <1>4, <1>5, PlainKept
<1>7. /\ \A o, e : ByThread(o, e) <=> (o = TakenBy(t) /\ e = e2) \/ OtherThread(t, o, e)
      /\ \A o, e : ByThread(o, e)' <=> (o = MovedBy(t) /\ e = e1) \/ OtherThread(t, o, e)
  <2>1. \A o, e : ThreadHas(t, o, e) <=> o = TakenBy(t) /\ e = e2
    BY <1>2 DEF ThreadHas, Freeing, Moving
  <2>2. \A o, e : ThreadHas(t, o, e)' <=> o = MovedBy(t) /\ e = e1
    BY <1>2, <1>3 DEF ThreadHas, Freeing, Moving
  <2> QED
    BY <1>2, <2>1, <2>2, ThreadsKept
<1>8. /\ \A o, e : ByBatch(o, e)' <=> (o # AheadOf(b) /\ ByBatch(o, e)) \/ (o = AheadOf(b) /\ e = e2)
      /\ \A o, e : ByBatch(o, e) /\ o = AheadOf(b) => e = e1
  <2>1. /\ DOMAIN mini'.next_extent = DOMAIN mini.next_extent
        /\ \A c \in DOMAIN mini.next_extent : mini'.next_extent[c] = IF c = b THEN e2 ELSE mini.next_extent[c]
    BY <1>2
  <2>2. \A c : /\ HasAhead(c) <=> c \in DOMAIN mini.next_extent
               /\ HasAhead(c)' <=> c \in DOMAIN mini.next_extent
    BY <1>2, <2>1 DEF HasAhead
  <2>3. \A c : AheadOf(c) = AheadOf(b) => c = b
    BY Tags
  <2> QED
    BY <1>2, <2>1, <2>2, <2>3 DEF ByBatch
<1>9. OwnerInv(chain, dead, idx) /\ CountInv(chain, dead, idx) /\ MiniTreeInv(chain) /\ GivenInv(chain)
  BY DEF Ledger
<1>10. e1 # e2
  <2>1. TakenBy(t) # AheadOf(b)
    BY Tags
  <2> QED
    BY <1>1, <1>3, <1>9, <2>1 DEF OwnerInv
<1>11. \A o : Has(chain, dead, idx, o, e1)' <=> o = MovedBy(t)
  <2>1. \A o : ~ByTree(chain, o, e1) /\ ~ByDead(dead, idx, o, e1) /\ ~ByThread(o, e1) /\ (ByBatch(o, e1) => o = AheadOf(b))
    BY <1>3, <1>9, OnlyBatch
  <2> QED
    BY <1>6, <1>7, <1>8, <1>10, <2>1 DEF Has
<1>12. \A o : Has(chain, dead, idx, o, e2)' <=> o = AheadOf(b)
  <2>1. \A o : ~ByTree(chain, o, e2) /\ ~ByDead(dead, idx, o, e2) /\ ~OtherThread(t, o, e2) /\ ~ByBatch(o, e2)
    BY <1>1, <1>9, OnlyThread
  <2> QED
    BY <1>6, <1>7, <1>8, <1>10, <2>1 DEF Has
<1>13. OwnerInv(chain, dead, idx)' /\ CountInv(chain, dead, idx)'
  <2>1. Holds(Address(e1))' = Holds(Address(e1)) /\ Holds(Address(e2))' = Holds(Address(e2))
    BY <1>1, <1>3, <1>6, AddressOf, ExtentsNat
  <2>2. CountOK(chain, dead, idx, e1)'
    BY <1>2, <1>3, <1>4, <1>9, <1>11, <2>1, HandOver, Tags
  <2>3. CountOK(chain, dead, idx, e2)'
    BY <1>1, <1>2, <1>4, <1>9, <1>12, <2>1, HandOver, Tags
  <2> DEFINE E == {e1, e2}
  <2>4. E \subseteq Extents \ {0} /\ (\A e \in E : e = e1 \/ e = e2) /\ (\A e : e \notin E => e # e1 /\ e # e2)
    BY <1>1, <1>3
  <2> HIDE DEF E
  <2>5. SameClaims(E, chain, dead, idx, chain, dead, idx)
    BY <1>6, <1>7, <1>8, <2>4 DEF SameClaims, Has
  <2>6. \A e \in E : \E q : \A o : Has(chain, dead, idx, o, e)' => o = q
    BY <1>11, <1>12, <2>4
  <2>7. \A e \in E : CountOK(chain, dead, idx, e)'
    BY <2>2, <2>3, <2>4
  <2>8. \A e \in Extents : e \notin E => ref'[e] = ref[e]
    BY <1>2
  <2> QED
    BY <1>4, <1>5, <2>4, <2>5, <2>6, <2>7, <2>8, ClaimsMoved
<1>14. MiniTreeInv(chain)'
  BY <1>2, <1>5, <1>6, <1>9 DEF MiniTreeInv
<1>15. GivenInv(chain)'
  <2>1. \A c, a : Filling(c, a)' => Filling(c, a)
    BY <1>2, FillingKept
  <2> QED
    BY <1>2, <1>6, <1>9, <2>1, GivenKept
<1> QED
  BY <1>6, <1>13, <1>14, <1>15 DEF Ledger

-----------------------------------------------------------------------------
(* mini_append_entry *)

\* Pages of extents that others own are not those of a tree, or of a walk.
OffExtents(E) == \A a \in DOMAIN page : ExtentOf(a) \notin E => a \in DOMAIN page' /\ page'[a] = page[a]

Foreign(E, chain, dead, idx, q) == \A e \in E : \E o : Has(chain, dead, idx, o, e) /\ o # q

LEMMA OthersPages ==
  ASSUME NEW chain, NEW dead, NEW idx, TreeInv(chain), DeadInv(dead, idx), OwnerInv(chain, dead, idx),
         NEW E, OffExtents(E)
  PROVE  /\ \A h : Named(h) /\ Foreign(E, chain, dead, idx, Meta(h)) => SamePages(chain[h])
         /\ \A u \in Threads : Walks(u) /\ Foreign(E, chain, dead, idx, DeadMeta(u)) =>
              SameDead(dead[u], idx[u], u)
<1>1. ASSUME NEW h, Named(h), Foreign(E, chain, dead, idx, Meta(h))
      PROVE  SamePages(chain[h])
  <2>1. TreeOK(chain[h], h)
    BY <1>1 DEF TreeInv
  <2>2. ASSUME NEW k \in 1 .. Len(chain[h])
        PROVE  ExtentOf(chain[h][k]) \notin E
    <3>1. Has(chain, dead, idx, Meta(h), ExtentOf(chain[h][k]))
      BY <1>1, Who DEF WhoHas
    <3> QED
      BY <1>1, <3>1 DEF OwnerInv, Foreign
  <2> QED
    BY <2>1, <2>2 DEF TreeOK, Linked, SamePages, OffExtents
<1>2. ASSUME NEW u \in Threads, Walks(u), Foreign(E, chain, dead, idx, DeadMeta(u))
      PROVE  SameDead(dead[u], idx[u], u)
  <2>1. DeadOK(dead[u], idx[u], u)
    BY <1>2 DEF DeadInv
  <2>2. ASSUME NEW k \in 1 .. Len(dead[u]), thread[u].entry # 0 \/ k >= idx[u]
        PROVE  ExtentOf(dead[u][k]) \notin E
    <3>1. Has(chain, dead, idx, DeadMeta(u), ExtentOf(dead[u][k]))
      BY <1>2, <2>2, Who DEF WhoHas
    <3> QED
      BY <1>2, <3>1 DEF OwnerInv, Foreign
  <2> QED
    BY <2>1, <2>2 DEF DeadOK, Linked, SameDead, OffExtents
<1> QED
  BY <1>1, <1>2

\* The thread has its entry in the tree, and gives the page to its caller.
GivesOn(t) ==
  /\ Others(t) /\ Op(t)' = "give" /\ ~HasGot(t)' /\ SameWork(t)
  /\ thread'[t].batch = thread[t].batch /\ thread'[t].addr = thread[t].addr
  /\ UNCHANGED <<ref, root, disk, session, err>>
  /\ mini'.state = mini.state /\ mini'.head = mini.head /\ mini'.given = mini.given
  /\ mini'.next_addr = mini.next_addr /\ mini'.next_extent = mini.next_extent

\* The tree of the mini allocator is its alone.
LEMMA OwnTree ==
  ASSUME NEW chain, MiniTreeInv(chain), Control, MiniHead # 0
  PROVE  /\ session.phase = "up" /\ mini.state # "none" /\ mini.head = MiniHead /\ Named(MiniHead)
         /\ root # MiniHead /\ disk.super.root # MiniHead
         /\ \A u \in Threads : thread[u].held # MiniHead /\ ~(Op(u) = "dec_ref" /\ thread[u].head = MiniHead)
<1>1. mini.state # "none" /\ mini.head = MiniHead
  BY DEF MiniHead
<1>2. session.phase = "up"
  BY <1>1 DEF Control, MiniInv
<1>3. Holds(MiniHead) = 1
  BY DEF MiniTreeInv
<1>4. Named(MiniHead)
  BY <1>3 DEF Named
<1> DEFINE a == One(root = MiniHead)
           b == One(disk.super.root = MiniHead)
<1>5. Rest(MiniHead) = a + b + 1
  BY <1>2 DEF Rest, One
<1>6. a \in {0, 1} /\ b \in {0, 1} /\ (root = MiniHead => a = 1) /\ (disk.super.root = MiniHead => b = 1)
  BY DEF One
<1> HIDE DEF a, b
<1>7. a = 0 /\ b = 0 /\ Cardinality(Users(MiniHead)) = 0 /\ Cardinality(Droppers(MiniHead)) = 0
  BY <1>3, <1>5, <1>6, HoldsNat
<1>8. \A u \in Threads : thread[u].held # MiniHead /\ ~(Op(u) = "dec_ref" /\ thread[u].head = MiniHead)
  <2> SUFFICES ASSUME NEW u \in Threads, thread[u].held = MiniHead \/ (Op(u) = "dec_ref" /\ thread[u].head = MiniHead)
               PROVE  FALSE
    OBVIOUS
  <2>1. Share(u, MiniHead) >= 1
    BY DEF Share, One
  <2>2. Split(u, MiniHead)
    BY HoldsSplit
  <2> QED
    BY <1>3, <1>5, <1>7, <2>1, <2>2 DEF Split
<1> QED
  BY <1>1, <1>2, <1>4, <1>6, <1>7, <1>8

\* A tree with one more entry.
NewEntry(c, c2, k0, i0, e1) ==
  \A k, i, e : k \in 1 .. Len(c2) /\ IsEntry(c2[k], i, e)' <=>
    (k \in 1 .. Len(c) /\ IsEntry(c[k], i, e)) \/ (k = k0 /\ i = i0 /\ e = e1)
NewHead(c, c2, e4) ==
  \A e : (\E k \in 1 .. Len(c2) : ExtentOf(c2[k]) = e) <=> (\E k \in 1 .. Len(c) : ExtentOf(c[k]) = e) \/ e = e4

Grown(c, c2, mh, k, i, e1, e4) ==
  /\ \A o, e : TreeHas(c2, mh, o, e)' <=>
       \/ TreeHas(c, mh, o, e)
       \/ o = Data(mh, k, i) /\ e = e1
       \/ o = Meta(mh) /\ e = e4
  /\ \A e : InData(c2, e)' <=> InData(c, e) \/ e = e1

\* The trees but one.
OtherTrees(chain, chain2, mh) == \A h : Named(h) /\ h # mh => chain2[h] = chain[h]

\* The thread has just allocated extent e4 for its meta page, or has a page in
\* an extent of the tree.
PageIn(chain, dead, idx, t, mh, o4, e4) ==
  /\ Has(chain, dead, idx, o4, e4) /\ e4 \in Extents \ {0}
  /\ \/ o4 = Meta(mh) /\ ~HasGot(t)
     \/ o4 = TakenBy(t) /\ HasGot(t)
Writes(E, chain, dead, idx, mh, o4) ==
  OffExtents(E) /\ \A e \in E : \E o \in {Meta(mh), o4} : Has(chain, dead, idx, o, e)

LEMMA GrowLedger ==
  ASSUME Control, NEW t \in Threads, Op(t) \in Moving, GivesOn(t),
         NEW chain, NEW dead, NEW idx, Ledger(chain, dead, idx),
         NEW mh, mh = mini.head, NEW e1, e1 = ExtentOf(thread[t].addr),
         NEW chain2, OtherTrees(chain, chain2, mh),
         NEW o4, NEW e4, PageIn(chain, dead, idx, t, mh, o4, e4),
         NEW E, Writes(E, chain, dead, idx, mh, o4),
         TreeOK(chain2[mh], mh)', mini'.tail = chain2[mh][Len(chain2[mh])],
         NEW k, NEW i, Grown(chain[mh], chain2[mh], mh, k, i, e1, e4)
  PROVE  Ledger(chain2, dead, idx)'
<1>1. /\ TreeInv(chain) /\ DeadInv(dead, idx) /\ OwnerInv(chain, dead, idx) /\ CountInv(chain, dead, idx)
      /\ MiniTreeInv(chain) /\ GivenInv(chain) /\ DiskInv(chain)
  BY DEF Ledger
<1>0. /\ Has(chain, dead, idx, o4, e4) /\ e4 \in Extents \ {0}
      /\ (o4 = Meta(mh) /\ ~HasGot(t)) \/ (o4 = TakenBy(t) /\ HasGot(t))
  BY DEF PageIn
<1>2. /\ mini.state = "open" /\ mini.head # 0 /\ MiniHead = mh /\ MiniHead' = mh /\ mh # 0
      /\ thread[t].addr \in Nat /\ Op(t) \notin {"batch", "release"} \cup Walking
      /\ Op(t)' \notin {"batch", "release"} \cup Walking
  <2>1. mini.state = "open" /\ thread[t].addr \in Nat
    BY DEF Control, OpInv, OpOK, Moving, AllocOp
  <2>2. mini.head # 0
    BY <2>1 DEF Control, MiniInv
  <2> QED
    BY <2>1, <2>2 DEF MiniHead, GivesOn, Moving, Walking, Freeing
<1>3. Others(t) /\ UNCHANGED <<ref, root, disk, session>>
  BY DEF GivesOn
<1>4. \A h : Holds(h)' = Holds(h)
  <2>1. ASSUME NEW h
        PROVE  Holds(h)' = Holds(h)
    <3>1. Rest(h)' = Rest(h)
      BY <1>2, <1>3 DEF Rest
    <3>2. Share(t, h)' = Share(t, h)
      BY DEF GivesOn, SameWork, Share, Moving
    <3> QED
      BY <1>3, <3>1, <3>2, HoldsStep
  <2> QED
    BY <2>1
<1>5. \A h : Named(h)' <=> Named(h)
  BY <1>4, SameNames
<1>6. session.phase = "up" /\ Named(mh) /\ disk.super.root # mh
  BY <1>1, <1>2, OwnTree
<1>7. e1 \in Extents \ {0} /\ Has(chain, dead, idx, MovedBy(t), e1)
  BY ThreadClaims
<1>8. e4 # e1 /\ o4[1] # "dropped"
  <2>1. o4 # MovedBy(t) /\ o4[1] # "dropped"
    BY <1>0, Tags
  <2> QED
    BY <1>0, <1>1, <1>7, <2>1 DEF OwnerInv
<1>9. /\ \A h : Named(h) /\ h # mh => SamePages(chain[h])
      /\ \A u \in Threads : Walks(u) => SameDead(dead[u], idx[u], u)
  <2>1. \A h : h # mh => Meta(mh) # Meta(h) /\ o4 # Meta(h)
    BY <1>0, Tags
  <2>2. \A u : Meta(mh) # DeadMeta(u) /\ o4 # DeadMeta(u)
    BY <1>0, Tags
  <2>3. \A h : h # mh => Foreign(E, chain, dead, idx, Meta(h))
    BY <2>1 DEF Writes, Foreign
  <2>4. \A u : Foreign(E, chain, dead, idx, DeadMeta(u))
    BY <2>2 DEF Writes, Foreign
  <2>5. OffExtents(E)
    BY DEF Writes
  <2> QED
    BY <1>1, <2>3, <2>4, <2>5, OthersPages
<1>10. ASSUME NEW h, Named(h), h # mh
       PROVE  /\ TreeOK(chain2[h], h)'
              /\ \A o, e : TreeHas(chain2[h], h, o, e)' <=> TreeHas(chain[h], h, o, e)
  BY <1>1, <1>9, <1>10, OneTree DEF TreeInv, OtherTrees
<1>11. TreeInv(chain2)'
  BY <1>5, <1>10 DEF TreeInv
<1>12. \A o, e : ByTree(chain2, o, e)' <=>
         \/ ByTree(chain, o, e)
         \/ o = Data(mh, k, i) /\ e = e1
         \/ o = Meta(mh) /\ e = e4
  <2> SUFFICES ASSUME NEW o, NEW e
               PROVE  ByTree(chain2, o, e)' <=>
                        \/ ByTree(chain, o, e)
                        \/ o = Data(mh, k, i) /\ e = e1
                        \/ o = Meta(mh) /\ e = e4
    OBVIOUS
  <2>1. ByTree(chain2, o, e)' <=> \E h : Named(h) /\ TreeHas(chain2[h], h, o, e)'
    BY <1>5 DEF ByTree
  <2> QED
    BY <1>6, <1>10, <2>1 DEF ByTree, Grown
<1>13. DeadInv(dead, idx)' /\ \A o, e : ByDead(dead, idx, o, e)' <=> ByDead(dead, idx, o, e)
  BY <1>1, <1>2, <1>3, <1>9, DeadsKept DEF Walks
<1>14. \A o, e : ByBatch(o, e)' <=> ByBatch(o, e)
  BY <1>2, <1>3, BatchesKept DEF GivesOn
<1>15. \A o, e :
         /\ ByThread(o, e) <=>
              (o = MovedBy(t) /\ e = e1) \/ (o = TakenBy(t) /\ HasGot(t) /\ thread[t].got = e) \/ OtherThread(t, o, e)
         /\ ByThread(o, e)' <=> OtherThread(t, o, e)
  <2>1. \A o, e : ThreadHas(t, o, e) <=> (o = MovedBy(t) /\ e = e1) \/ (o = TakenBy(t) /\ HasGot(t) /\ thread[t].got = e)
    BY <1>2 DEF ThreadHas, Walking
  <2>2. \A o, e : ~ThreadHas(t, o, e)'
    BY DEF ThreadHas, GivesOn, Freeing, Moving
  <2>3. \A o, e : /\ ByThread(o, e) <=> ThreadHas(t, o, e) \/ OtherThread(t, o, e)
                  /\ ByThread(o, e)' <=> ThreadHas(t, o, e)' \/ OtherThread(t, o, e)
    BY <1>3, ThreadsKept
  <2> QED
    BY <2>1, <2>2, <2>3, Zenon
<1>16. HasGot(t) => thread[t].got = e4
  <2>1. HasGot(t) => Has(chain, dead, idx, TakenBy(t), e4)
    BY <1>0
  <2>2. Has(chain, dead, idx, TakenBy(t), e4) => thread[t].got = e4
    <3>1. WhoHas(chain, dead, idx)
      BY Who
    <3> QED
      BY <3>1 DEF WhoHas
  <2> QED
    BY <2>1, <2>2
<1>17. \A o : Has(chain2, dead, idx, o, e1)' <=> o = Data(mh, k, i)
  <2>1. \A o : ~ByTree(chain, o, e1) /\ ~ByDead(dead, idx, o, e1) /\ ~OtherThread(t, o, e1) /\ ~ByBatch(o, e1)
    BY <1>1, <1>7, OnlyThread
  <2> QED
    BY <1>8, <1>12, <1>13, <1>14, <1>15, <2>1 DEF Has
<1>18. \A o : Has(chain2, dead, idx, o, e4)' <=> o = Meta(mh)
  <2>1. \A o : Has(chain2, dead, idx, o, e4)' <=>
          ByTree(chain, o, e4) \/ o = Meta(mh) \/ ByDead(dead, idx, o, e4) \/ OtherThread(t, o, e4) \/ ByBatch(o, e4)
    BY <1>8, <1>12, <1>13, <1>14, <1>15 DEF Has
  <2>2. CASE o4 = Meta(mh)
    <3>1. \A o : Has(chain, dead, idx, o, e4) => o = Meta(mh)
      BY <1>0, <1>1, <2>2 DEF OwnerInv
    <3> QED
      BY <1>15, <2>1, <3>1 DEF Has
  <2>3. CASE o4 = TakenBy(t)
    <3>1. \A o : ~ByTree(chain, o, e4) /\ ~ByDead(dead, idx, o, e4) /\ ~OtherThread(t, o, e4) /\ ~ByBatch(o, e4)
      BY <1>0, <1>1, <2>3, OnlyThread
    <3> QED
      BY <2>1, <3>1
  <2> QED
    BY <1>0, <2>2, <2>3
<1>19. OwnerInv(chain2, dead, idx)' /\ CountInv(chain2, dead, idx)'
  <2> DEFINE F == {e1, e4}
  <2>1. F \subseteq Extents \ {0} /\ (\A e \in F : e = e1 \/ e = e4) /\ (\A e : e \notin F => e # e1 /\ e # e4) /\ 0 \notin F
    BY <1>0, <1>7
  <2> HIDE DEF F
  <2>2. SameClaims(F, chain, dead, idx, chain2, dead, idx)
    <3>1. ASSUME NEW o, NEW e, e # e1, e # e4
          PROVE  /\ ByTree(chain2, o, e)' <=> ByTree(chain, o, e)
                 /\ ByThread(o, e)' <=> ByThread(o, e)
      BY <1>12, <1>15, <1>16, <3>1
    <3>2. ASSUME NEW o, NEW e, e \notin F
          PROVE  Has(chain2, dead, idx, o, e)' <=> Has(chain, dead, idx, o, e)
      <4>1. /\ ByTree(chain2, o, e)' <=> ByTree(chain, o, e)
            /\ ByThread(o, e)' <=> ByThread(o, e)
        BY <2>1, <3>1, <3>2
      <4>2. /\ ByDead(dead, idx, o, e)' <=> ByDead(dead, idx, o, e)
            /\ ByBatch(o, e)' <=> ByBatch(o, e)
        BY <1>13, <1>14
      <4> QED
        BY <4>1, <4>2 DEF Has
    <3> QED
      BY <3>2 DEF SameClaims
  <2>3. \A e \in F : \E q : \A o : Has(chain2, dead, idx, o, e)' => o = q
    <3> SUFFICES ASSUME NEW e \in F
                 PROVE  \E q : \A o : Has(chain2, dead, idx, o, e)' => o = q
      OBVIOUS
    <3>1. CASE e = e1
      <4> WITNESS Data(mh, k, i)
      <4> QED
        BY <1>17, <3>1
    <3>2. CASE e = e4
      <4> WITNESS Meta(mh)
      <4> QED
        BY <1>18, <3>2
    <3> QED
      BY <2>1, <3>1, <3>2
  <2>4. CountOK(chain2, dead, idx, e1)'
    BY <1>1, <1>3, <1>4, <1>6, <1>7, <1>17, HandOver, Tags
  <2>5. CountOK(chain2, dead, idx, e4)'
    BY <1>0, <1>1, <1>3, <1>4, <1>6, <1>8, <1>18, HandOver, Tags
  <2>6. \A e \in F : CountOK(chain2, dead, idx, e)'
    BY <2>1, <2>4, <2>5
  <2>7. \A o : Base(o)' = Base(o)
    BY <1>2, <1>3, BaseKept DEF Walking, Freeing
  <2>8. ref' = ref /\ session' = session
    BY <1>3
  <2>9. OwnerInv(chain2, dead, idx)'
    BY <1>1, <2>1, <2>2, <2>3, OwnersKept
  <2>10. CountInv(chain2, dead, idx)'
    BY <1>1, <1>4, <2>1, <2>2, <2>6, <2>7, <2>8, CountsKept
  <2> QED
    BY <2>9, <2>10
<1>20. MiniTreeInv(chain2)'
  BY <1>1, <1>2, <1>4 DEF MiniTreeInv
<1>21. GivenInv(chain2)'
  <2> DEFINE b1 == thread[t].batch
             a1 == thread[t].addr
  <2>1. \A x : InData(chain[mh], x) => x # e1
    <3>0. \A l, j, x : Has(chain, dead, idx, Data(mh, l, j), x) <=> l \in 1 .. Len(chain[mh]) /\ IsEntry(chain[mh][l], j, x)
      BY <1>6, Who DEF WhoHas
    <3>1. \A x : InData(chain[mh], x) => \E l, j : Has(chain, dead, idx, Data(mh, l, j), x)
      BY <3>0 DEF InData
    <3>2. \A l, j : Data(mh, l, j) # MovedBy(t)
      BY Tags
    <3> QED
      BY <1>1, <1>7, <3>1, <3>2 DEF OwnerInv
  <2>2. \A x : InData(chain2[mh], x)' <=> InData(chain[mh], x) \/ x = e1
    BY DEF Grown
  <2>3. \A c, a : Filling(c, a)' => Filling(c, a) \/ (c = b1 /\ a = a1)
    BY DEF Filling, GivesOn, Others, SameView
  <2>4. a1 \in Nat /\ ExtentOf(a1) = e1 /\ mini'.state = "open" /\ mini'.head = mh /\ mini'.given = mini.given
    BY <1>2 DEF GivesOn
  <2>5. /\ \A x \in mini.given : InData(chain[mh], ExtentOf(x))
        /\ \A b, a : Filling(b, a) =>
             /\ a \in Nat /\ InData(chain[mh], ExtentOf(a))
             /\ \A x \in mini.given : ExtentOf(x) = ExtentOf(a) => x < a
             /\ \A c, d : Filling(c, d) /\ c # b => ExtentOf(d) # ExtentOf(a)
    BY <1>1, <1>2 DEF GivenInv
  <2> HIDE DEF a1, b1
  <2>6. \A x \in mini.given : InData(chain2[mh], ExtentOf(x))'
    BY <2>2, <2>5
  <2>7. ASSUME NEW b, NEW a, Filling(b, a)'
        PROVE  /\ a \in Nat /\ InData(chain2[mh], ExtentOf(a))'
               /\ \A x \in mini.given : ExtentOf(x) = ExtentOf(a) => x < a
               /\ \A c, d : Filling(c, d)' /\ c # b => ExtentOf(d) # ExtentOf(a)
    <3>1. CASE b = b1 /\ a = a1
      BY <2>1, <2>2, <2>3, <2>4, <2>5, <3>1
    <3>2. CASE Filling(b, a)
      BY <2>1, <2>2, <2>3, <2>4, <2>5, <3>2
    <3> QED
      BY <2>3, <2>7, <3>1, <3>2
  <2> QED
    BY <2>4, <2>6, <2>7 DEF GivenInv
<1>22. DiskInv(chain2)'
  <2>1. disk.super.root # 0 => Named(disk.super.root)
    BY NamedBy
  <2> QED
    BY <1>1, <1>3, <1>6, <1>9, <2>1, DiskKept DEF OtherTrees
<1> QED
  BY <1>11, <1>13, <1>19, <1>20, <1>21, <1>22 DEF Ledger

\* The pages of a chain are different.
LEMMA ChainPages ==
  ASSUME NEW c, IsChain(c)
  PROVE  /\ c \in Seq(Nat) /\ Len(c) \in Nat /\ Len(c) > 0 /\ Len(c) \in 1 .. Len(c)
         /\ \A k \in 1 .. Len(c) : c[k] \in Nat /\ c[k] # 0
         /\ \A j, k \in 1 .. Len(c) : c[j] = c[k] => j = k
<1>1. c \in Seq(Nat) /\ Len(c) \in Nat /\ Len(c) > 0 /\ Len(c) \in 1 .. Len(c)
  BY DEF IsChain
<1>2. \A k \in 1 .. Len(c) : c[k] \in Nat /\ c[k] # 0
  BY <1>1 DEF IsChain
<1>3. ASSUME NEW j \in 1 .. Len(c), NEW k \in 1 .. Len(c), c[j] = c[k]
      PROVE  j = k
  <2>1. \A l, m \in 1 .. Len(c) : l < m /\ ExtentOf(c[l]) = ExtentOf(c[m]) => c[l] < c[m]
    BY DEF IsChain
  <2>2. ~(j < k)
    BY <1>2, <1>3, <2>1
  <2>3. ~(k < j)
    BY <1>2, <1>3, <2>1
  <2> QED
    BY <1>1, <2>2, <2>3
<1> QED
  BY <1>1, <1>2, <1>3

\* The last page of the tree that grows.
LEMMA TailPage ==
  ASSUME Control, mini.state = "open", NEW mh, mh = mini.head,
         NEW chain, NEW dead, NEW idx, Ledger(chain, dead, idx)
  PROVE  /\ mh # 0 /\ Named(mh) /\ TreeOK(chain[mh], mh)
         /\ mini.tail = chain[mh][Len(chain[mh])]
         /\ mini.tail \in DOMAIN page /\ mini.tail \in Nat /\ mini.tail # 0
         /\ page[mini.tail].next = 0 /\ page[mini.tail].entries \in Seq(Extents)
         /\ DOMAIN page[mini.tail] = {"next", "entries"}
         /\ Has(chain, dead, idx, Meta(mh), ExtentOf(mini.tail))
         /\ ExtentOf(mini.tail) \in Extents \ {0}
<1>1. TreeInv(chain) /\ MiniTreeInv(chain) /\ OwnerInv(chain, dead, idx)
  BY DEF Ledger
<1>2. MiniHead = mh /\ mh # 0
  BY DEF MiniHead, Control, MiniInv
<1>3. Named(mh)
  BY <1>1, <1>2, OwnTree
<1>4. TreeOK(chain[mh], mh)
  BY <1>1, <1>3 DEF TreeInv
<1>5. mini.tail = chain[mh][Len(chain[mh])]
  BY <1>1, <1>2 DEF MiniTreeInv
<1>6. Len(chain[mh]) \in 1 .. Len(chain[mh]) /\ Len(chain[mh]) \in Nat /\ mini.tail \in Nat /\ mini.tail # 0
  BY <1>4, <1>5, ChainPages DEF TreeOK
<1>7. mini.tail \in DOMAIN page /\ page[mini.tail].next = 0
  BY <1>4, <1>5, <1>6 DEF TreeOK, Linked
<1>8. page[mini.tail] \in [next : Nat, entries : Seq(Extents)]
  BY <1>7 DEF Control, PagesOK
<1>9. Has(chain, dead, idx, Meta(mh), ExtentOf(mini.tail))
  BY <1>3, <1>5, <1>6, Who, ZenonT(60) DEF WhoHas
<1>10. ExtentOf(mini.tail) \in Extents \ {0}
  BY <1>1, <1>9 DEF OwnerInv
<1> QED
  BY <1>2, <1>3, <1>4, <1>5, <1>6, <1>7, <1>8, <1>9, <1>10

LEMMA GrownHas ==
  ASSUME NEW c, NEW c2, NEW mh, NEW e1, NEW e4, NEW k0, NEW i0,
         NewEntry(c, c2, k0, i0, e1), NewHead(c, c2, e4)
  PROVE  Grown(c, c2, mh, k0, i0, e1, e4)
<1>1. ASSUME NEW o, NEW e
      PROVE  TreeHas(c2, mh, o, e)' <=>
               \/ TreeHas(c, mh, o, e)
               \/ o = Data(mh, k0, i0) /\ e = e1
               \/ o = Meta(mh) /\ e = e4
  <2>1. TreeHas(c2, mh, o, e)' <=>
          \/ o = Meta(mh) /\ \E k \in 1 .. Len(c2) : ExtentOf(c2[k]) = e
          \/ \E k, i : o = Data(mh, k, i) /\ k \in 1 .. Len(c2) /\ IsEntry(c2[k], i, e)'
    BY DEF TreeHas
  <2>2. TreeHas(c, mh, o, e) <=>
          \/ o = Meta(mh) /\ \E k \in 1 .. Len(c) : ExtentOf(c[k]) = e
          \/ \E k, i : o = Data(mh, k, i) /\ k \in 1 .. Len(c) /\ IsEntry(c[k], i, e)
    BY DEF TreeHas
  <2>3. (\E k, i : o = Data(mh, k, i) /\ k \in 1 .. Len(c2) /\ (IsEntry(c2[k], i, e))') <=>
          \/ \E k, i : o = Data(mh, k, i) /\ k \in 1 .. Len(c) /\ IsEntry(c[k], i, e)
          \/ o = Data(mh, k0, i0) /\ e = e1
    <3> DEFINE C(k, i) == k \in 1 .. Len(c) /\ IsEntry(c[k], i, e)
               D(k, i) == k \in 1 .. Len(c2) /\ (IsEntry(c2[k], i, e))'
    <3>1. \A k, i : D(k, i) <=> C(k, i) \/ (k = k0 /\ i = i0 /\ e = e1)
      BY DEF NewEntry
    <3> HIDE DEF C, D
    <3>2. (\E k, i : o = Data(mh, k, i) /\ D(k, i)) <=>
            (\E k, i : o = Data(mh, k, i) /\ C(k, i)) \/ (o = Data(mh, k0, i0) /\ e = e1)
      BY <3>1
    <3>3. (\E k, i : o = Data(mh, k, i) /\ k \in 1 .. Len(c2) /\ (IsEntry(c2[k], i, e))') <=>
            \E k, i : o = Data(mh, k, i) /\ D(k, i)
      BY DEF D
    <3>4. (\E k, i : o = Data(mh, k, i) /\ k \in 1 .. Len(c) /\ IsEntry(c[k], i, e)) <=>
            \E k, i : o = Data(mh, k, i) /\ C(k, i)
      BY DEF C
    <3> QED
      BY <3>2, <3>3, <3>4
  <2> QED
    BY <2>1, <2>2, <2>3 DEF NewHead
<1>2. ASSUME NEW e
      PROVE  InData(c2, e)' <=> InData(c, e) \/ e = e1
  <2>1. InData(c2, e)' <=> \E k, i : k \in 1 .. Len(c2) /\ IsEntry(c2[k], i, e)'
    BY DEF InData
  <2>2. InData(c, e) <=> \E k, i : k \in 1 .. Len(c) /\ IsEntry(c[k], i, e)
    BY DEF InData
  <2>3. (\E k, i : k \in 1 .. Len(c2) /\ IsEntry(c2[k], i, e)') <=>
          (\E k, i : k \in 1 .. Len(c) /\ IsEntry(c[k], i, e)) \/ e = e1
    <3> DEFINE C(k, i) == k \in 1 .. Len(c) /\ IsEntry(c[k], i, e)
               D(k, i) == k \in 1 .. Len(c2) /\ (IsEntry(c2[k], i, e))'
    <3>1. \A k, i : D(k, i) <=> C(k, i) \/ (k = k0 /\ i = i0 /\ e = e1)
      BY DEF NewEntry
    <3> HIDE DEF C, D
    <3>2. (\E k, i : D(k, i)) <=> (\E k, i : C(k, i)) \/ e = e1
      BY <3>1
    <3> QED
      BY <3>2 DEF C, D
  <2> QED
    BY <2>1, <2>2, <2>3
<1> QED
  BY <1>1, <1>2 DEF Grown

\* An entry in the last page.
LEMMA AppendHere ==
  ASSUME SInv, Control, NEW t \in Threads, MiniAppendEntry(t), NEW mh, mh = mini.head,
         NEW tail, tail = mini.tail, NEW e1, e1 = ExtentOf(thread[t].addr),
         NEW chain, NEW dead, NEW idx, Ledger(chain, dead, idx),
         NEW c, c = chain[mh], NEW n, n = Len(c), NEW old, old = page[tail].entries,
         Len(old) < EntriesPerMeta
  PROVE  /\ mini.state = "open" /\ Op(t) = "append" /\ ~HasGot(t) /\ GivesOn(t) /\ mini' = mini
         /\ page' = [page EXCEPT ![tail].entries = Append(@, e1)]
         /\ Ledger(chain, dead, idx)'
<1>1. /\ StoreType /\ thread[t].pc = "append" /\ UNCHANGED <<ref, root, disk, session, err>>
      /\ Goes(t, [pc |-> "give"]) /\ mini' = mini
      /\ page' = [page EXCEPT ![tail].entries = Append(@, e1)]
  BY DEF SInv, MiniAppendEntry, At
<1>2. Op(t) = "append" /\ ~HasGot(t) /\ Op(t) \in Moving
  BY <1>1 DEF HasGot, Op, ReturnPC, SearchPC, Moving
<1>3. mini.state = "open" /\ thread[t].addr \in Nat
  BY <1>2 DEF Control, OpInv, OpOK, AllocOp, Moving
<1>4. GivesOn(t)
  <2>1. /\ Others(t) /\ Op(t)' = "give" /\ ~HasGot(t)'
        /\ thread'[t].batch = thread[t].batch /\ thread'[t].addr = thread[t].addr /\ SameWork(t)
    BY <1>1, PcEffect DEF ReturnPC
  <2> QED
    BY <1>1, <2>1 DEF GivesOn
<1>5. /\ mh # 0 /\ Named(mh) /\ TreeOK(chain[mh], mh) /\ tail = chain[mh][Len(chain[mh])]
      /\ tail \in DOMAIN page /\ page[tail].next = 0 /\ page[tail].entries \in Seq(Extents)
      /\ DOMAIN page[tail] = {"next", "entries"}
      /\ Has(chain, dead, idx, Meta(mh), ExtentOf(tail)) /\ ExtentOf(tail) \in Extents \ {0}
  BY <1>3, TailPage
<1>6. e1 \in Extents
  BY <1>2, ThreadClaims
<1>7. IsChain(c) /\ n \in Nat /\ n \in 1 .. n /\ \A k \in 1 .. n : c[k] = tail => k = n
  BY <1>5, ChainPages DEF TreeOK
<1>8. /\ DOMAIN page' = DOMAIN page
      /\ \A a \in DOMAIN page : a # tail => page'[a] = page[a]
      /\ page'[tail].next = 0 /\ page'[tail].entries = Append(old, e1)
  BY <1>1, <1>5
<1>9. /\ Len(old) \in Nat /\ Len(Append(old, e1)) = Len(old) + 1 /\ Append(old, e1)[Len(old) + 1] = e1
      /\ \A i \in 1 .. Len(old) : Append(old, e1)[i] = old[i]
  <2>1. old \in Seq(Extents)
    BY <1>5
  <2> QED
    BY <1>6, <2>1
<1>10. /\ \A k \in 1 .. n : k # n => c[k] \in DOMAIN page /\ c[k] # tail /\ page'[c[k]] = page[c[k]]
       /\ c[n] = tail
  BY <1>5, <1>7, <1>8 DEF TreeOK, Linked
<1>11. /\ \A k \in 1 .. n : k # n => \A i, e : IsEntry(c[k], i, e)' <=> IsEntry(c[k], i, e)
       /\ \A i, e : IsEntry(c[n], i, e)' <=> IsEntry(c[n], i, e) \/ (i = Len(old) + 1 /\ e = e1)
  <2>1. \A k \in 1 .. n : k # n => \A i, e : IsEntry(c[k], i, e)' <=> IsEntry(c[k], i, e)
    BY <1>10 DEF IsEntry
  <2>2. \A i : i \in 1 .. (Len(old) + 1) <=> i \in 1 .. Len(old) \/ i = Len(old) + 1
    BY <1>9
  <2>3. Len(old) + 1 \notin 1 .. Len(old)
    BY <1>9
  <2>4. \A i, e : IsEntry(c[n], i, e)' <=> IsEntry(c[n], i, e) \/ (i = Len(old) + 1 /\ e = e1)
    <3>1. \A i, e : IsEntry(tail, i, e)' <=> i \in 1 .. (Len(old) + 1) /\ Append(old, e1)[i] = e
      BY <1>8, <1>9 DEF IsEntry
    <3>2. \A i, e : IsEntry(tail, i, e) <=> i \in 1 .. Len(old) /\ old[i] = e
      BY DEF IsEntry
    <3> QED
      BY <1>9, <1>10, <2>2, <2>3, <3>1, <3>2
  <2> QED
    BY <2>1, <2>4
<1>12. TreeOK(chain[mh], mh)'
  <2>1. \A k \in 1 .. n : Linked(c, k, page')
    <3>1. ASSUME NEW k \in 1 .. n
          PROVE  Linked(c, k, page')
      <4>1. Linked(c, k, page)
        BY <1>5 DEF TreeOK
      <4>2. c[k] \in DOMAIN page' /\ page'[c[k]].next = page[c[k]].next
        BY <1>5, <1>8, <1>10, <4>1 DEF Linked
      <4> QED
        BY <4>1, <4>2 DEF Linked
    <3> QED
      BY <3>1
  <2> QED
    BY <1>5, <2>1 DEF TreeOK
<1>13. Grown(c, c, mh, n, Len(old) + 1, e1, ExtentOf(tail))
  <2>1. ASSUME NEW k, NEW i, NEW e
        PROVE  k \in 1 .. n /\ IsEntry(c[k], i, e)' <=>
                 (k \in 1 .. n /\ IsEntry(c[k], i, e)) \/ (k = n /\ i = Len(old) + 1 /\ e = e1)
    <3>1. CASE k = n
      BY <1>7, <1>11, <3>1
    <3>2. CASE k # n
      BY <1>11, <3>2
    <3> QED
      BY <3>1, <3>2
  <2>2. NewEntry(c, c, n, Len(old) + 1, e1)
    BY <2>1 DEF NewEntry
  <2>3. NewHead(c, c, ExtentOf(tail))
    BY <1>7, <1>10 DEF NewHead
  <2> QED
    BY <2>2, <2>3, GrownHas
<1>14. Ledger(chain, dead, idx)'
  <2> DEFINE E == {ExtentOf(tail)}
  <2>1. E \subseteq {ExtentOf(tail)} /\ OffExtents(E)
    BY <1>8 DEF OffExtents
  <2> HIDE DEF E
  <2>2. Writes(E, chain, dead, idx, mh, Meta(mh))
    BY <1>5, <2>1 DEF Writes
  <2>3. PageIn(chain, dead, idx, t, mh, Meta(mh), ExtentOf(tail))
    BY <1>2, <1>5 DEF PageIn
  <2>4. mini'.tail = chain[mh][Len(chain[mh])] /\ OtherTrees(chain, chain, mh)
    BY <1>1, <1>5 DEF OtherTrees
  <2> QED
    BY <1>2, <1>4, <1>12, <1>13, <2>2, <2>3, <2>4, GrowLedger
<1> QED
  BY <1>1, <1>2, <1>3, <1>4, <1>14

\* A page behind the last one, in the same extent or in a new one.
Tacked(c, c2, n, addr) ==
  /\ c2 \in Seq(Nat) /\ Len(c2) = n + 1 /\ c2[n + 1] = addr
  /\ \A k \in 1 .. n : c2[k] = c[k]

LinkedTo(tail, addr, e1) ==
  /\ DOMAIN page' = DOMAIN page \cup {addr}
  /\ \A a \in DOMAIN page : a # addr /\ a # tail => page'[a] = page[a]
  /\ tail # addr => page'[tail].next = addr /\ page'[tail].entries = page[tail].entries
  /\ page'[addr].next = 0 /\ page'[addr].entries = <<e1>>

Behind(c, n, tail, addr) ==
  \/ addr = tail + 1 /\ ExtentOf(addr) = ExtentOf(tail)
  \/ \A j \in 1 .. n : ExtentOf(c[j]) # ExtentOf(addr)

LEMMA LinkedPage ==
  ASSUME NEW tail \in DOMAIN page, DOMAIN page[tail] = {"next", "entries"}, NEW addr, NEW e1,
         page' = PageSet([page EXCEPT ![tail].next = addr], addr, [next |-> 0, entries |-> <<e1>>])
  PROVE  LinkedTo(tail, addr, e1)
  BY DEF PageSet, LinkedTo

Grows(mh, c, n, tail, addr, e1, c2) ==
  /\ TreeOK(c, mh) /\ n = Len(c) /\ tail = c[n] /\ addr \in Nat /\ addr # 0
  /\ LinkedTo(tail, addr, e1) /\ Behind(c, n, tail, addr) /\ Tacked(c, c2, n, addr)

LEMMA TailGrows ==
  ASSUME NEW mh, NEW c, NEW n, NEW tail, NEW addr, NEW e1, NEW c2, Grows(mh, c, n, tail, addr, e1, c2)
  PROVE  /\ TreeOK(c2, mh)' /\ c2[Len(c2)] = addr
         /\ Grown(c, c2, mh, n + 1, 1, e1, ExtentOf(addr))
         /\ \A a \in DOMAIN page : ExtentOf(a) # ExtentOf(tail) /\ ExtentOf(a) # ExtentOf(addr) =>
              a \in DOMAIN page' /\ page'[a] = page[a]
<1> /\ TreeOK(c, mh) /\ n = Len(c) /\ tail = c[n] /\ addr \in Nat /\ addr # 0
    /\ LinkedTo(tail, addr, e1) /\ Behind(c, n, tail, addr) /\ Tacked(c, c2, n, addr)
  BY DEF Grows
<1>1. IsChain(c) /\ c[1] = mh /\ mh \in Nat /\ mh = Address(ExtentOf(mh)) /\ \A k \in 1 .. n : Linked(c, k, page)
  BY DEF TreeOK
<1>2. /\ c \in Seq(Nat) /\ n \in Nat /\ n > 0 /\ n \in 1 .. n
      /\ \A k \in 1 .. n : c[k] \in Nat /\ c[k] # 0
      /\ \A j, k \in 1 .. n : c[j] = c[k] => j = k
  BY <1>1, ChainPages
<1>3. /\ c2 \in Seq(Nat) /\ Len(c2) = n + 1 /\ c2[n + 1] = addr
      /\ \A k \in 1 .. n : c2[k] = c[k]
  BY DEF Tacked
<1>4. \A j, k \in 1 .. n : j < k /\ ExtentOf(c[j]) = ExtentOf(c[k]) =>
        c[j] < c[k] /\ ExtentOf(c[j + 1]) = ExtentOf(c[j])
  BY <1>1 DEF IsChain
<1>5. \A k : k \in 1 .. n + 1 <=> k \in 1 .. n \/ k = n + 1
  BY <1>2
<1>6. ASSUME NEW j \in 1 .. n, ExtentOf(c[j]) = ExtentOf(addr)
      PROVE  /\ c[j] < addr
             /\ ExtentOf(c2[j + 1]) = ExtentOf(c[j])
  <2>1. addr = tail + 1 /\ ExtentOf(tail) = ExtentOf(addr)
    BY <1>6 DEF Behind
  <2>2. CASE j = n
    BY <1>2, <1>3, <1>6, <2>1, <2>2
  <2>3. CASE j # n
    <3>1. j < n /\ j + 1 \in 1 .. n
      BY <1>2, <2>3
    <3>2. c[j] < c[n] /\ ExtentOf(c[j + 1]) = ExtentOf(c[j])
      BY <1>2, <1>4, <1>6, <2>1, <3>1
    <3> QED
      BY <1>2, <1>3, <2>1, <3>1, <3>2
  <2> QED
    BY <2>2, <2>3
<1>7. \A j \in 1 .. n : c[j] # addr
  BY <1>2, <1>6
<1>8. IsChain(c2)
  <2>1. \A k \in 1 .. Len(c2) : c2[k] # 0
    BY <1>2, <1>3, <1>5
  <2>2. ASSUME NEW j \in 1 .. Len(c2), NEW k \in 1 .. Len(c2), j < k, ExtentOf(c2[j]) = ExtentOf(c2[k])
        PROVE  c2[j] < c2[k] /\ ExtentOf(c2[j + 1]) = ExtentOf(c2[j])
    <3>1. j \in 1 .. n /\ j + 1 \in 1 .. n + 1
      BY <1>2, <1>3, <2>2
    <3>2. CASE k = n + 1
      BY <1>3, <1>6, <2>2, <3>1, <3>2
    <3>3. CASE k # n + 1
      <4>1. k \in 1 .. n /\ j + 1 \in 1 .. n
        BY <1>2, <1>3, <2>2, <3>3
      <4> QED
        BY <1>3, <1>4, <2>2, <3>1, <4>1
    <3> QED
      BY <3>2, <3>3
  <2> QED
    BY <1>2, <1>3, <2>1, <2>2 DEF IsChain
<1>9. /\ DOMAIN page' = DOMAIN page \cup {addr}
      /\ \A a \in DOMAIN page : a # addr /\ a # tail => page'[a] = page[a]
      /\ tail # addr => page'[tail].next = addr /\ page'[tail].entries = page[tail].entries
      /\ page'[addr].next = 0 /\ page'[addr].entries = <<e1>>
  BY DEF LinkedTo
<1>10. tail # addr /\ \A k \in 1 .. n : k # n => c[k] # tail
  BY <1>2, <1>7
<1>11. TreeOK(c2, mh)'
  <2>1. ASSUME NEW k \in 1 .. n + 1
        PROVE  Linked(c2, k, page')
    <3>1. CASE k = n + 1
      BY <1>2, <1>3, <1>9, <3>1 DEF Linked
    <3>2. CASE k = n
      <4>1. tail \in DOMAIN page /\ c2[n] = tail /\ n < n + 1
        BY <1>1, <1>2, <1>3 DEF Linked
      <4> QED
        BY <1>3, <1>9, <1>10, <3>2, <4>1 DEF Linked
    <3>3. CASE k \in 1 .. n /\ k # n
      <4>1. c[k] \in DOMAIN page /\ page[c[k]].next = c[k + 1]
        <5>1. Linked(c, k, page) /\ k < Len(c)
          BY <1>1, <1>2, <3>3
        <5> QED
          BY <5>1 DEF Linked
      <4>2. k + 1 \in 1 .. n /\ k < n + 1 /\ c2[k] = c[k] /\ c2[k + 1] = c[k + 1]
        BY <1>2, <1>3, <3>3
      <4>3. c[k] \in DOMAIN page' /\ page'[c[k]] = page[c[k]]
        BY <1>7, <1>9, <1>10, <3>3, <4>1
      <4>4. k < Len(c2)
        BY <1>3, <4>2
      <4> QED
        BY <4>1, <4>2, <4>3, <4>4 DEF Linked
    <3> QED
      BY <1>5, <3>1, <3>2, <3>3
  <2> QED
    BY <1>1, <1>2, <1>3, <1>8, <2>1 DEF TreeOK
<1>12. Grown(c, c2, mh, n + 1, 1, e1, ExtentOf(addr))
  <2>1. ASSUME NEW k, NEW i, NEW e
        PROVE  k \in 1 .. n + 1 /\ IsEntry(c2[k], i, e)' <=>
                 (k \in 1 .. n /\ IsEntry(c[k], i, e)) \/ (k = n + 1 /\ i = 1 /\ e = e1)
    <3>1. CASE k = n + 1
      <4>1. Len(<<e1>>) = 1 /\ <<e1>>[1] = e1 /\ (\A m : m \in 1 .. 1 <=> m = 1) /\ n + 1 \notin 1 .. n /\ n + 1 \in 1 .. n + 1
        BY <1>2
      <4>2. IsEntry(addr, i, e)' <=> i \in 1 .. Len(<<e1>>) /\ <<e1>>[i] = e
        BY <1>9 DEF IsEntry
      <4>3. IsEntry(addr, i, e)' <=> i = 1 /\ e = e1
        BY <4>1, <4>2
      <4> QED
        BY <1>3, <3>1, <4>1, <4>3
    <3>2. CASE k \in 1 .. n
      <4>1. c[k] \in DOMAIN page /\ c2[k] = c[k] /\ c[k] # addr /\ k # n + 1 /\ k \in 1 .. n + 1
        BY <1>1, <1>2, <1>3, <1>7, <3>2 DEF Linked
      <4>2. page'[c[k]].entries = page[c[k]].entries
        BY <1>9, <1>10, <4>1
      <4> QED
        BY <3>2, <4>1, <4>2 DEF IsEntry
    <3> QED
      BY <1>5, <3>1, <3>2
  <2>2. NewEntry(c, c2, n + 1, 1, e1)
    BY <1>3, <2>1 DEF NewEntry
  <2>3. NewHead(c, c2, ExtentOf(addr))
    BY <1>3, <1>5 DEF NewHead
  <2> QED
    BY <2>2, <2>3, GrownHas
<1>13. \A a \in DOMAIN page : ExtentOf(a) # ExtentOf(tail) /\ ExtentOf(a) # ExtentOf(addr) =>
         a \in DOMAIN page' /\ page'[a] = page[a]
  BY <1>9
<1> QED
  BY <1>3, <1>11, <1>12, <1>13

LEMMA NewTailEffect ==
  ASSUME SInv, Control, NEW t \in Threads, thread[t].pc \in {"append", "meta_extent"},
         UNCHANGED <<ref, root, disk, session, err>>, NEW addr, NewMetaTail(t, addr)
  PROVE  /\ mini.state = "open" /\ Op(t) = thread[t].pc /\ Op(t) \in Moving
         /\ HasGot(t) <=> thread[t].pc = "meta_extent"
         /\ GivesOn(t) /\ mini' = [mini EXCEPT !.tail = addr, !.locked = FALSE]
         /\ DOMAIN mini = {"state", "head", "tail", "locked", "next_addr", "next_extent", "given"}
         /\ DOMAIN mini' = DOMAIN mini /\ mini'.tail = addr /\ mini'.locked = FALSE
         /\ thread[t].addr \in Nat
<1>1. StoreType /\ Goes(t, [pc |-> "give"]) /\ mini' = [mini EXCEPT !.tail = addr, !.locked = FALSE]
  BY DEF SInv, NewMetaTail
<1>2. Op(t) = thread[t].pc /\ Op(t) \in Moving /\ (HasGot(t) <=> thread[t].pc = "meta_extent")
  BY <1>1 DEF HasGot, Op, ReturnPC, SearchPC, Moving
<1>3. mini.state = "open" /\ thread[t].addr \in Nat
  BY <1>2 DEF Control, OpInv, OpOK, AllocOp, Moving
<1>4. DOMAIN mini = {"state", "head", "tail", "locked", "next_addr", "next_extent", "given"}
  BY <1>3 DEF Control, MiniOK, NoMini
<1>5. /\ Others(t) /\ Op(t)' = "give" /\ ~HasGot(t)'
      /\ thread'[t].batch = thread[t].batch /\ thread'[t].addr = thread[t].addr /\ SameWork(t)
  BY <1>1, PcEffect DEF ReturnPC
<1>6. /\ DOMAIN mini' = DOMAIN mini /\ mini'.tail = addr /\ mini'.locked = FALSE
      /\ mini'.state = mini.state /\ mini'.head = mini.head /\ mini'.given = mini.given
      /\ mini'.next_addr = mini.next_addr /\ mini'.next_extent = mini.next_extent
  BY <1>1, <1>4
<1>7. GivesOn(t)
  BY <1>5, <1>6 DEF GivesOn
<1> QED
  BY <1>1, <1>2, <1>3, <1>4, <1>6, <1>7

LEMMA NewTailLedger ==
  ASSUME SInv, Control, NEW t \in Threads, thread[t].pc \in {"append", "meta_extent"},
         UNCHANGED <<ref, root, disk, session, err>>, NEW addr, NewMetaTail(t, addr),
         NEW chain, NEW dead, NEW idx, Ledger(chain, dead, idx),
         \/ thread[t].pc = "append" /\ addr = mini.tail + 1 /\ addr % PagesPerExtent # 0
         \/ thread[t].pc = "meta_extent" /\ addr = Address(thread[t].got)
  PROVE  addr \in Nat /\ \E chain2 : Ledger(chain2, dead, idx)'
<1> SUFFICES ASSUME NEW mh, mh = mini.head, NEW tail, tail = mini.tail, NEW e1, e1 = ExtentOf(thread[t].addr),
                    NEW c, c = chain[mh], NEW n, n = Len(c), NEW c2, c2 = Append(c, addr),
                    NEW chain2, chain2 = [h \in Nat |-> IF h = mh THEN c2 ELSE chain[h]]
             PROVE  addr \in Nat /\ Ledger(chain2, dead, idx)'
  BY Zenon
<1>1. /\ mini.state = "open" /\ Op(t) = thread[t].pc /\ Op(t) \in Moving
      /\ HasGot(t) <=> thread[t].pc = "meta_extent"
      /\ GivesOn(t) /\ mini'.tail = addr
  BY NewTailEffect
<1>2. /\ mh # 0 /\ Named(mh) /\ TreeOK(c, mh) /\ tail = c[n]
      /\ tail \in DOMAIN page /\ tail \in Nat /\ tail # 0 /\ DOMAIN page[tail] = {"next", "entries"}
      /\ Has(chain, dead, idx, Meta(mh), ExtentOf(tail)) /\ ExtentOf(tail) \in Extents \ {0}
  BY <1>1, TailPage
<1>3. /\ TreeInv(chain) /\ OwnerInv(chain, dead, idx)
      /\ HasGot(t) => thread[t].got \in Extents \ {0} /\ Has(chain, dead, idx, TakenBy(t), thread[t].got)
  BY ThreadClaims DEF Ledger
<1> DEFINE o4 == IF HasGot(t) THEN TakenBy(t) ELSE Meta(mh)
           e4 == ExtentOf(addr)
<1>4. /\ addr \in Nat /\ addr # 0 /\ Behind(c, n, tail, addr)
      /\ PageIn(chain, dead, idx, t, mh, o4, e4)
  <2>1. CASE thread[t].pc = "append"
    <3>1. addr = tail + 1 /\ addr % PagesPerExtent # 0 /\ ~HasGot(t)
      BY <1>1, <2>1
    <3>2. addr \in Nat /\ addr # 0 /\ ExtentOf(addr) = ExtentOf(tail)
      BY <1>2, <3>1, NextPage
    <3> QED
      BY <1>2, <3>1, <3>2 DEF Behind, PageIn
  <2>2. CASE thread[t].pc = "meta_extent"
    <3>1. /\ addr = Address(thread[t].got) /\ HasGot(t)
          /\ thread[t].got \in Extents \ {0} /\ Has(chain, dead, idx, TakenBy(t), thread[t].got)
      BY <1>1, <1>3, <2>2
    <3>2. addr \in Nat /\ addr # 0 /\ ExtentOf(addr) = thread[t].got
      BY <3>1, AddressOf, ExtentsNat
    <3>3. ASSUME NEW j \in 1 .. n, ExtentOf(c[j]) = ExtentOf(addr)
          PROVE  FALSE
      <4>1. Has(chain, dead, idx, Meta(mh), thread[t].got)
        <5>1. WhoHas(chain, dead, idx)
          BY Who
        <5>2. \E k \in 1 .. Len(chain[mh]) : ExtentOf(chain[mh][k]) = thread[t].got
          BY <3>2, <3>3
        <5> QED
          BY <1>2, <5>1, <5>2 DEF WhoHas
      <4>2. Meta(mh) # TakenBy(t)
        BY Tags
      <4> QED
        BY <1>3, <3>1, <4>1, <4>2 DEF OwnerInv
    <3> QED
      BY <3>1, <3>2, <3>3 DEF Behind, PageIn
  <2> QED
    BY <2>1, <2>2
<1>5. Tacked(c, c2, n, addr)
  <2>1. c \in Seq(Nat)
    BY <1>2 DEF TreeOK, IsChain
  <2> QED
    BY <1>4, <2>1 DEF Tacked
<1>6. LinkedTo(tail, addr, e1)
  <2>1. page' = PageSet([page EXCEPT ![tail].next = addr], addr, [next |-> 0, entries |-> <<e1>>])
    BY DEF NewMetaTail
  <2> QED
    BY <1>2, <2>1, LinkedPage
<1>7. /\ TreeOK(c2, mh)' /\ c2[Len(c2)] = addr
      /\ Grown(c, c2, mh, n + 1, 1, e1, e4)
      /\ \A a \in DOMAIN page : ExtentOf(a) # ExtentOf(tail) /\ ExtentOf(a) # e4 =>
           a \in DOMAIN page' /\ page'[a] = page[a]
  <2>1. Grows(mh, c, n, tail, addr, e1, c2)
    BY <1>2, <1>4, <1>5, <1>6 DEF Grows
  <2> QED
    BY <2>1, TailGrows
<1>8. mh \in Nat /\ chain2[mh] = c2 /\ OtherTrees(chain, chain2, mh)
  <2>1. \A h : Named(h) => h \in Nat
    BY <1>3 DEF TreeInv, TreeOK
  <2> QED
    BY <1>2, <2>1 DEF OtherTrees
<1> DEFINE E == {ExtentOf(tail), e4}
<1>11. OffExtents(E) /\ \A e \in E : e = ExtentOf(tail) \/ e = e4
  BY <1>7 DEF OffExtents
<1> HIDE DEF o4, e4, E
<1>9. Writes(E, chain, dead, idx, mh, o4)
  BY <1>2, <1>4, <1>11 DEF Writes, PageIn
<1>10. TreeOK(chain2[mh], mh)' /\ Grown(chain[mh], chain2[mh], mh, n + 1, 1, e1, e4) /\ mini'.tail = chain2[mh][Len(chain2[mh])]
  BY <1>1, <1>7, <1>8
<1> QED
  BY <1>1, <1>4, <1>8, <1>9, <1>10, GrowLedger

\* A thread that needs an extent for the next meta page keeps the lock.
LEMMA LockEffect ==
  ASSUME SInv, Control, NEW t \in Threads, MiniAppendEntry(t),
         ~(Len(page[mini.tail].entries) < EntriesPerMeta),
         ~(Len(page[mini.tail].entries) = EntriesPerMeta /\ (mini.tail + 1) % PagesPerExtent # 0)
  PROVE  /\ mini.state = "open" /\ Op(t) = "append" /\ ~HasGot(t) /\ mini.locked # TRUE
         /\ Others(t) /\ Op(t)' = "meta_extent" /\ ~HasGot(t)' /\ SameWork(t)
         /\ thread'[t].batch = thread[t].batch /\ thread'[t].addr = thread[t].addr
         /\ UNCHANGED <<ref, page, root, disk, session, err>>
         /\ DOMAIN mini = {"state", "head", "tail", "locked", "next_addr", "next_extent", "given"}
         /\ DOMAIN mini' = DOMAIN mini /\ mini'.state = mini.state
         /\ mini'.head = mini.head /\ mini'.tail = mini.tail /\ mini'.locked = TRUE
         /\ mini'.next_addr = mini.next_addr /\ mini'.given = mini.given
         /\ mini'.next_extent = mini.next_extent
<1>1. /\ StoreType /\ thread[t].pc = "append" /\ ~mini.locked /\ UNCHANGED <<ref, root, disk, session, err>>
      /\ mini' = [mini EXCEPT !.locked = TRUE]
      /\ CallAlloc(t, "meta_extent", thread[t].batch) /\ UNCHANGED page
  BY DEF SInv, MiniAppendEntry, At
<1>2. Op(t) = "append" /\ ~HasGot(t)
  BY <1>1 DEF HasGot, Op, ReturnPC, SearchPC
<1>3. mini.state = "open"
  BY <1>2 DEF Control, OpInv, OpOK, AllocOp
<1>4. DOMAIN mini = {"state", "head", "tail", "locked", "next_addr", "next_extent", "given"}
  BY <1>3 DEF Control, MiniOK, NoMini
<1>5. /\ Others(t) /\ Op(t)' = "meta_extent" /\ ~HasGot(t)' /\ SameWork(t)
      /\ thread'[t].batch = thread[t].batch /\ thread'[t].addr = thread[t].addr
  BY <1>1, CallEffect DEF ReturnPC
<1>6. /\ DOMAIN mini' = DOMAIN mini /\ mini'.state = mini.state
      /\ mini'.head = mini.head /\ mini'.tail = mini.tail /\ mini'.locked = TRUE
      /\ mini'.next_addr = mini.next_addr /\ mini'.given = mini.given
      /\ mini'.next_extent = mini.next_extent
  BY <1>1, <1>4
<1> QED
  BY <1>1, <1>2, <1>3, <1>4, <1>5, <1>6

LEMMA LockLedger ==
  ASSUME SInv, Control, NEW t \in Threads, MiniAppendEntry(t),
         ~(Len(page[mini.tail].entries) < EntriesPerMeta),
         ~(Len(page[mini.tail].entries) = EntriesPerMeta /\ (mini.tail + 1) % PagesPerExtent # 0),
         NEW chain, NEW dead, NEW idx, Ledger(chain, dead, idx)
  PROVE  Ledger(chain, dead, idx)'
<1>1. /\ mini.state = "open" /\ Op(t) = "append" /\ ~HasGot(t)
      /\ Others(t) /\ Op(t)' = "meta_extent" /\ ~HasGot(t)' /\ SameWork(t)
      /\ thread'[t].batch = thread[t].batch /\ thread'[t].addr = thread[t].addr
      /\ UNCHANGED <<ref, page, root, disk, session, err>>
      /\ mini'.state = mini.state /\ mini'.head = mini.head /\ mini'.tail = mini.tail
      /\ mini'.next_addr = mini.next_addr /\ mini'.given = mini.given
      /\ mini'.next_extent = mini.next_extent
  BY LockEffect
<1>2. session.phase = "up"
  BY <1>1 DEF Control, MiniInv
<1>3. Plain(t) /\ MiniHead' = MiniHead
  <2>1. MiniHead' = MiniHead
    BY <1>1 DEF MiniHead
  <2> QED
    BY <1>1, <2>1 DEF Plain, Share, SameWork, Walks, Walking, Freeing
<1>4. \A o, e : ByBatch(o, e)' <=> ByBatch(o, e)
  BY <1>1, BatchesKept
<1>5. \A o, e : ByThread(o, e)' <=> ByThread(o, e)
  <2>1. \A o, e : ThreadHas(t, o, e)' <=> ThreadHas(t, o, e)
    BY <1>1 DEF ThreadHas, Freeing, Moving
  <2> QED
    BY <1>1, <2>1, ThreadsKept
<1>6. OwnerInv(chain, dead, idx)' /\ CountInv(chain, dead, idx)'
  BY <1>1, <1>2, <1>3, <1>4, <1>5, NothingClaimed
<1>7. /\ TreeInv(chain)' /\ DeadInv(dead, idx)' /\ DiskInv(chain)'
      /\ \A h : h # 0 => Holds(h)' = Holds(h)
      /\ \A c, e : InData(c, e)' <=> InData(c, e)
  BY <1>1, <1>2, <1>3, PlainKept
<1>8. MiniTreeInv(chain)'
  BY <1>1, <1>3, <1>7 DEF MiniTreeInv, Ledger
<1>9. GivenInv(chain)'
  <2>1. \A c, a : Filling(c, a)' => Filling(c, a)
    BY <1>1, FillingKept
  <2> QED
    BY <1>1, <1>7, <2>1, GivenKept DEF Ledger
<1> QED
  BY <1>6, <1>7, <1>8, <1>9 DEF Ledger

\* Every case of mini_append_entry.
LEMMA AppendLedger ==
  ASSUME SInv, Control, NEW t \in Threads, MiniAppendEntry(t) \/ MiniMetaExtent(t),
         NEW chain, NEW dead, NEW idx, Ledger(chain, dead, idx)
  PROVE  \E chain2 : Ledger(chain2, dead, idx)'
<1>1. CASE MiniAppendEntry(t)
  <2>1. CASE Len(page[mini.tail].entries) < EntriesPerMeta
    <3> SUFFICES ASSUME NEW mh, mh = mini.head, NEW tail, tail = mini.tail, NEW e1, e1 = ExtentOf(thread[t].addr),
                        NEW c, c = chain[mh], NEW n, n = Len(c), NEW old, old = page[tail].entries
                 PROVE  Ledger(chain, dead, idx)'
      BY Zenon
    <3>1. Len(old) < EntriesPerMeta
      BY <2>1
    <3> QED
      BY <1>1, <3>1, AppendHere
  <2>2. CASE /\ ~(Len(page[mini.tail].entries) < EntriesPerMeta)
             /\ ~(Len(page[mini.tail].entries) = EntriesPerMeta /\ (mini.tail + 1) % PagesPerExtent # 0)
    BY <1>1, <2>2, LockLedger
  <2>3. CASE /\ ~(Len(page[mini.tail].entries) < EntriesPerMeta)
             /\ Len(page[mini.tail].entries) = EntriesPerMeta /\ (mini.tail + 1) % PagesPerExtent # 0
    <3>1. /\ thread[t].pc = "append" /\ NewMetaTail(t, mini.tail + 1)
          /\ UNCHANGED <<ref, root, disk, session, err>>
      BY <1>1, <2>3 DEF MiniAppendEntry, At
    <3> QED
      BY <2>3, <3>1, NewTailLedger
  <2> QED
    BY <2>1, <2>2, <2>3
<1>2. CASE MiniMetaExtent(t)
  <2>1. /\ thread[t].pc = "meta_extent" /\ NewMetaTail(t, Address(thread[t].got))
        /\ UNCHANGED <<ref, root, disk, session, err>>
    BY <1>2 DEF MiniMetaExtent, At
  <2> QED
    BY <2>1, NewTailLedger
<1> QED
  BY <1>1, <1>2

LEMMA GiveEffect ==
  ASSUME SInv, Control, NEW t \in Threads, MiniGive(t), NEW b, b = thread[t].batch,
         NEW addr, addr = thread[t].addr
  PROVE  /\ session.phase = "up" /\ mini.state = "open" /\ Op(t) = "give" /\ ~HasGot(t)
         /\ addr \in Nat /\ b \in DOMAIN mini.next_addr /\ mini.next_addr[b] = Wait
         /\ Others(t) /\ Op(t)' = "idle" /\ ~HasGot(t)' /\ thread'[t].held = thread[t].held
         /\ UNCHANGED <<ref, page, root, disk, session>>
         /\ err' = IF addr \notin mini.given THEN err ELSE err \cup {"given_twice"}
         /\ DOMAIN mini = {"state", "head", "tail", "locked", "next_addr", "next_extent", "given"}
         /\ DOMAIN mini' = DOMAIN mini /\ mini'.state = mini.state
         /\ mini'.head = mini.head /\ mini'.tail = mini.tail /\ mini'.locked = mini.locked
         /\ mini.next_addr \in Seq(Int) /\ mini'.next_extent = mini.next_extent
         /\ mini'.next_addr = [mini.next_addr EXCEPT ![b] = addr + 1]
         /\ mini'.given = mini.given \cup {addr}
<1>1. /\ StoreType /\ thread[t].pc = "give" /\ UNCHANGED <<ref, page, root, disk, session>> /\ Becomes(t)
      /\ err' = IF addr \notin mini.given THEN err ELSE err \cup {"given_twice"}
      /\ mini' = [mini EXCEPT !.next_addr[b] = addr + 1, !.given = @ \cup {addr}]
  BY DEF SInv, MiniGive, At, Check
<1>2. Op(t) = "give" /\ ~HasGot(t)
  BY <1>1 DEF HasGot, Op, ReturnPC, SearchPC
<1>3. mini.state = "open" /\ addr \in Nat /\ b \in DOMAIN mini.next_addr /\ mini.next_addr[b] = Wait
  BY <1>2 DEF Control, OpInv, OpOK, AllocOp
<1>4. /\ DOMAIN mini = {"state", "head", "tail", "locked", "next_addr", "next_extent", "given"}
      /\ mini.next_addr \in Seq(Int)
  BY <1>3 DEF Control, MiniOK, NoMini
<1>5. session.phase = "up"
  BY <1>3 DEF Control, MiniInv
<1>6. /\ Others(t) /\ Op(t)' = "idle" /\ ~HasGot(t)' /\ thread'[t].held = thread[t].held
  BY <1>1, BecomesEffect
<1>7. /\ DOMAIN mini' = DOMAIN mini /\ mini'.state = mini.state
      /\ mini'.head = mini.head /\ mini'.tail = mini.tail /\ mini'.locked = mini.locked
      /\ mini'.next_addr = [mini.next_addr EXCEPT ![b] = addr + 1] /\ mini'.given = mini.given \cup {addr}
      /\ mini'.next_extent = mini.next_extent
  BY <1>1, <1>4
<1> QED
  BY <1>1, <1>2, <1>3, <1>4, <1>5, <1>6, <1>7

\* The next page of a batch has not been given to anybody.
LEMMA GivesNew ==
  ASSUME SInv, Control, NEW t \in Threads, MiniGive(t), NEW chain, GivenInv(chain), AssertionsHold
  PROVE  AssertionsHold'
<1> SUFFICES ASSUME NEW b, b = thread[t].batch, NEW addr, addr = thread[t].addr
             PROVE  AssertionsHold'
  BY Zenon
<1>1. /\ mini.state = "open" /\ Op(t) = "give" /\ addr \in Nat
      /\ err' = IF addr \notin mini.given THEN err ELSE err \cup {"given_twice"}
  BY GiveEffect
<1>2. Filling(b, addr)
  BY <1>1 DEF Filling
<1>3. \A x \in mini.given : ExtentOf(x) = ExtentOf(addr) => x < addr
  BY <1>1, <1>2 DEF GivenInv
<1>4. addr \notin mini.given
  BY <1>1, <1>3
<1> QED
  BY <1>1, <1>4 DEF AssertionsHold

LEMMA GiveLedger ==
  ASSUME SInv, Control, NEW t \in Threads, MiniGive(t),
         NEW chain, NEW dead, NEW idx, Ledger(chain, dead, idx)
  PROVE  Ledger(chain, dead, idx)'
<1> SUFFICES ASSUME NEW b, b = thread[t].batch, NEW addr, addr = thread[t].addr
             PROVE  Ledger(chain, dead, idx)'
  BY Zenon
<1>1. /\ session.phase = "up" /\ mini.state = "open" /\ Op(t) = "give" /\ ~HasGot(t)
      /\ addr \in Nat /\ b \in DOMAIN mini.next_addr /\ mini.next_addr[b] = Wait
      /\ Others(t) /\ Op(t)' = "idle" /\ ~HasGot(t)' /\ thread'[t].held = thread[t].held
      /\ UNCHANGED <<ref, page, root, disk, session>>
      /\ mini'.state = mini.state /\ mini'.head = mini.head /\ mini'.tail = mini.tail
      /\ mini.next_addr \in Seq(Int) /\ mini'.next_extent = mini.next_extent
      /\ mini'.next_addr = [mini.next_addr EXCEPT ![b] = addr + 1]
      /\ mini'.given = mini.given \cup {addr}
  BY GiveEffect
<1>3. Plain(t) /\ MiniHead' = MiniHead
  <2>1. MiniHead' = MiniHead
    BY <1>1 DEF MiniHead
  <2> QED
    BY <1>1, <2>1 DEF Plain, Share, Walks, Walking, Freeing
<1>4. \A o, e : ByBatch(o, e)' <=> ByBatch(o, e)
  BY <1>1, BatchesKept
<1>5. \A o, e : ByThread(o, e)' <=> ByThread(o, e)
  <2>1. \A o, e : ThreadHas(t, o, e)' <=> ThreadHas(t, o, e)
    BY <1>1 DEF ThreadHas, Freeing, Moving
  <2> QED
    BY <1>1, <2>1, ThreadsKept
<1>6. OwnerInv(chain, dead, idx)' /\ CountInv(chain, dead, idx)'
  BY <1>1, <1>3, <1>4, <1>5, NothingClaimed
<1>7. /\ TreeInv(chain)' /\ DeadInv(dead, idx)' /\ DiskInv(chain)'
      /\ \A h : h # 0 => Holds(h)' = Holds(h)
      /\ \A c, e : InData(c, e)' <=> InData(c, e)
  BY <1>1, <1>3, PlainKept
<1>8. MiniTreeInv(chain)'
  BY <1>1, <1>3, <1>7 DEF MiniTreeInv, Ledger
<1>9. GivenInv(chain)'
  <2>1. Filling(b, addr)
    BY <1>1 DEF Filling
  <2>2. /\ \A x \in mini.given : InData(chain[mini.head], ExtentOf(x))
        /\ \A c, a : Filling(c, a) =>
             /\ a \in Nat /\ InData(chain[mini.head], ExtentOf(a))
             /\ \A x \in mini.given : ExtentOf(x) = ExtentOf(a) => x < a
             /\ \A c2, d : Filling(c2, d) /\ c2 # c => ExtentOf(d) # ExtentOf(a)
    BY <1>1 DEF GivenInv, Ledger
  <2>3. \A c, a : c # b /\ Filling(c, a)' => Filling(c, a)
    BY <1>1 DEF Filling, Others, SameView
  <2>4. ASSUME NEW a, Filling(b, a)'
        PROVE  a = addr + 1 /\ ExtentOf(a) = ExtentOf(addr)
    <3>1. ASSUME NEW u \in Threads, Op(u)' = "give", thread'[u].batch = b
          PROVE  FALSE
      <4>1. u # t /\ Op(u) = "give" /\ thread[u].batch = b
        BY <1>1, <3>1 DEF Others, SameView
      <4> QED
        BY <1>1, <4>1 DEF Control, OpInv, Apart, AllocOp
    <3>2. mini'.next_addr[b] = addr + 1
      BY <1>1
    <3>3. a = addr + 1 /\ a % PagesPerExtent # 0
      BY <2>4, <3>1, <3>2 DEF Filling
    <3> QED
      BY <1>1, <3>3, NextPage
  <2>5. ASSUME NEW x \in mini.given \cup {addr}
        PROVE  InData(chain[mini.head], ExtentOf(x))
    BY <2>1, <2>2
  <2>6. ASSUME NEW c, NEW a, Filling(c, a)'
        PROVE  /\ a \in Nat /\ InData(chain[mini.head], ExtentOf(a))
               /\ \A x \in mini.given \cup {addr} : ExtentOf(x) = ExtentOf(a) => x < a
               /\ \A c2, d : Filling(c2, d)' /\ c2 # c => ExtentOf(d) # ExtentOf(a)
    <3>1. CASE c = b
      <4>1. a = addr + 1 /\ ExtentOf(a) = ExtentOf(addr)
        BY <2>4, <2>6, <3>1
      <4>2. \A x \in mini.given : ExtentOf(x) = ExtentOf(addr) => x \in Nat /\ x < addr
        <5>1. mini.given \subseteq Nat
          BY <1>1 DEF Control, MiniOK, NoMini
        <5> QED
          BY <2>1, <2>2, <5>1
      <4>3. \A x \in mini.given \cup {addr} : ExtentOf(x) = ExtentOf(a) => x < a
        BY <1>1, <4>1, <4>2
      <4>4. \A c2, d : Filling(c2, d)' /\ c2 # c => ExtentOf(d) # ExtentOf(a)
        BY <2>1, <2>2, <2>3, <3>1, <4>1
      <4>5. a \in Nat /\ InData(chain[mini.head], ExtentOf(a))
        BY <1>1, <2>1, <2>2, <4>1
      <4> QED
        BY <4>3, <4>4, <4>5
    <3>2. CASE c # b
      <4>1. Filling(c, a)
        BY <2>3, <2>6, <3>2
      <4>2. \A c2, d : Filling(c2, d)' /\ c2 # c => ExtentOf(d) # ExtentOf(a)
        <5>1. ASSUME NEW c2, NEW d, Filling(c2, d)', c2 # c
              PROVE  ExtentOf(d) # ExtentOf(a)
          <6>1. CASE c2 = b
            BY <2>1, <2>2, <2>4, <3>2, <4>1, <5>1, <6>1
          <6>2. CASE c2 # b
            BY <2>2, <2>3, <4>1, <5>1, <6>2
          <6> QED
            BY <6>1, <6>2
        <5> QED
          BY <5>1
      <4>3. ExtentOf(addr) # ExtentOf(a)
        BY <2>1, <2>2, <3>2, <4>1
      <4> QED
        BY <2>2, <4>1, <4>2, <4>3
    <3> QED
      BY <3>1, <3>2
  <2> QED
    BY <1>1, <1>7, <2>5, <2>6 DEF GivenInv
<1> QED
  BY <1>6, <1>7, <1>8, <1>9 DEF Ledger

-----------------------------------------------------------------------------
(* mini_release *)

LEMMA MiniReleaseEffect ==
  ASSUME SInv, Control, NEW t \in Threads, MiniRelease(t)
  PROVE  /\ session.phase = "up" /\ mini.state = "open" /\ Op(t) = "idle" /\ ~HasGot(t)
         /\ \A u \in Threads : Op(u) \in {"idle"} \cup Dropping
         /\ Others(t) /\ Op(t)' = "release" /\ ~HasGot(t)' /\ SameWork(t) /\ thread'[t].batch = 1
         /\ UNCHANGED <<ref, page, root, disk, session, err>>
         /\ DOMAIN mini = {"state", "head", "tail", "locked", "next_addr", "next_extent", "given"}
         /\ DOMAIN mini' = DOMAIN mini /\ mini'.state = "released"
         /\ mini'.head = mini.head /\ mini'.tail = mini.tail /\ mini'.locked = mini.locked
         /\ mini'.next_addr = mini.next_addr /\ mini'.given = mini.given
         /\ mini.next_extent \in Seq(Extents) /\ Len(mini.next_extent) > 0
         /\ mini'.next_extent = mini.next_extent
<1> DEFINE f == [pc |-> "release", batch |-> 1]
<1>1. /\ StoreType /\ session.phase = "up" /\ thread[t].pc = "idle" /\ mini.state = "open"
      /\ \A u \in Threads : thread[u].pc \in {"idle"} \cup Dropping
      /\ UNCHANGED <<ref, page, root, disk, session, err>> /\ mini' = [mini EXCEPT !.state = "released"]
  BY DEF SInv, MiniRelease, Running, At
<1>2. Op(t) = "idle" /\ ~HasGot(t)
  BY <1>1 DEF HasGot, Op, ReturnPC, SearchPC
<1>3. \A u \in Threads : Op(u) \in {"idle"} \cup Dropping
  BY <1>1 DEF Op, SearchPC, Dropping
<1>4. /\ DOMAIN mini = {"state", "head", "tail", "locked", "next_addr", "next_extent", "given"}
      /\ mini.next_extent \in Seq(Extents) /\ Len(mini.next_extent) > 0
  BY <1>1 DEF Control, MiniOK, NoMini
<1>5. Goes(t, f) /\ DOMAIN f = {"pc", "batch"} /\ f["pc"] = "release" /\ f["batch"] = 1
  BY DEF MiniRelease
<1> HIDE DEF f
<1>6. /\ \A u \in Threads : u # t => thread'[u] = thread[u]
      /\ thread'[t].pc = "release" /\ thread'[t].batch = 1 /\ SameWork(t)
  BY <1>1, <1>5, StepFields DEF Set, SameWork
<1>7. Others(t) /\ ~HasGot(t)' /\ Op(t)' = "release"
  BY <1>6, OthersView DEF Op, HasGot, SearchPC, ReturnPC
<1>8. /\ DOMAIN mini' = DOMAIN mini /\ mini'.state = "released"
      /\ mini'.head = mini.head /\ mini'.tail = mini.tail /\ mini'.locked = mini.locked
      /\ mini'.next_addr = mini.next_addr /\ mini'.given = mini.given
      /\ mini'.next_extent = mini.next_extent
  BY <1>1, <1>4
<1> QED
  BY <1>1, <1>2, <1>3, <1>4, <1>6, <1>7, <1>8

LEMMA MiniReleaseLedger ==
  ASSUME SInv, Control, NEW t \in Threads, MiniRelease(t),
         NEW chain, NEW dead, NEW idx, Ledger(chain, dead, idx)
  PROVE  Ledger(chain, dead, idx)'
<1>1. /\ session.phase = "up" /\ mini.state = "open" /\ Op(t) = "idle" /\ ~HasGot(t)
      /\ \A u \in Threads : Op(u) \in {"idle"} \cup Dropping
      /\ Others(t) /\ Op(t)' = "release" /\ ~HasGot(t)' /\ SameWork(t) /\ thread'[t].batch = 1
      /\ UNCHANGED <<ref, page, root, disk, session, err>>
      /\ mini'.state = "released" /\ mini'.head = mini.head /\ mini'.tail = mini.tail
      /\ mini.next_extent \in Seq(Extents) /\ mini'.next_extent = mini.next_extent
  BY MiniReleaseEffect
<1>3. Plain(t) /\ MiniHead' = MiniHead
  <2>1. MiniHead' = MiniHead
    BY <1>1 DEF MiniHead
  <2> QED
    BY <1>1, <2>1 DEF Plain, Share, SameWork, Walks, Walking, Freeing
<1>4. \A o, e : ByBatch(o, e)' <=> ByBatch(o, e)
  <2>1. \A b : HasAhead(b) <=> b \in DOMAIN mini.next_extent
    BY <1>1 DEF HasAhead
  <2>2. \A b \in DOMAIN mini.next_extent : b >= 1
    BY <1>1
  <2>3. \A b : HasAhead(b)' <=> b \in DOMAIN mini.next_extent
    BY <1>1, <2>2 DEF HasAhead
  <2> QED
    BY <1>1, <2>1, <2>3 DEF ByBatch
<1>5. \A o, e : ByThread(o, e)' <=> ByThread(o, e)
  <2>1. \A o, e : ThreadHas(t, o, e)' <=> ThreadHas(t, o, e)
    BY <1>1 DEF ThreadHas, Freeing, Moving
  <2> QED
    BY <1>1, <2>1, ThreadsKept
<1>6. OwnerInv(chain, dead, idx)' /\ CountInv(chain, dead, idx)'
  BY <1>1, <1>3, <1>4, <1>5, NothingClaimed
<1>7. /\ TreeInv(chain)' /\ DeadInv(dead, idx)' /\ DiskInv(chain)'
      /\ \A h : h # 0 => Holds(h)' = Holds(h)
  BY <1>1, <1>3, PlainKept
<1>8. MiniTreeInv(chain)'
  BY <1>1, <1>3, <1>7 DEF MiniTreeInv, Ledger
<1>9. GivenInv(chain)'
  BY <1>1 DEF GivenInv
<1> QED
  BY <1>6, <1>7, <1>8, <1>9 DEF Ledger

LEMMA ReleaseEffect ==
  ASSUME SInv, Control, NEW t \in Threads, ReleaseBatch(t), NEW b, b = thread[t].batch,
         NEW e1, e1 = mini.next_extent[b]
  PROVE  /\ session.phase = "up" /\ mini.state = "released" /\ Op(t) = "release" /\ ~HasGot(t)
         /\ b \in DOMAIN mini.next_extent /\ mini.next_extent \in Seq(Extents) /\ e1 \in Extents
         /\ Others(t) /\ ~HasGot(t)' /\ SameWork(t)
         /\ ref' = [ref EXCEPT ![e1] = @ - 2]
         /\ UNCHANGED <<page, mini, root, disk, session>>
         /\ err' = IF ref'[e1] = 0 THEN err ELSE err \cup {"mini_release"}
         /\ \/ b < Len(mini.next_extent) /\ Op(t)' = "release" /\ thread'[t].batch = b + 1
            \/ b = Len(mini.next_extent) /\ Op(t)' = "released"
<1>1. /\ StoreType /\ thread[t].pc = "release" /\ UNCHANGED <<page, mini, root, disk, session>>
      /\ ref' = [ref EXCEPT ![e1] = @ - 2]
      /\ err' = IF ref'[e1] = 0 THEN err ELSE err \cup {"mini_release"}
  BY DEF SInv, ReleaseBatch, At, Check
<1>2. Op(t) = "release" /\ ~HasGot(t)
  BY <1>1 DEF HasGot, Op, ReturnPC, SearchPC
<1>3. mini.state = "released" /\ b \in DOMAIN mini.next_extent
  BY <1>2 DEF Control, OpInv, OpOK, ReleaseOp
<1>4. session.phase = "up" /\ mini.next_extent \in Seq(Extents) /\ e1 \in Extents
  BY <1>3 DEF Control, MiniInv, MiniOK, NoMini
<1>5. /\ Others(t) /\ ~HasGot(t)' /\ SameWork(t)
      /\ \/ b < Len(mini.next_extent) /\ Op(t)' = "release" /\ thread'[t].batch = b + 1
         \/ b = Len(mini.next_extent) /\ Op(t)' = "released"
  <2>1. b \in 1 .. Len(mini.next_extent) /\ Len(mini.next_extent) \in Nat
    BY <1>3, <1>4
  <2>2. CASE b < Len(mini.next_extent)
    <3> DEFINE f == [batch |-> b + 1]
    <3>1. Goes(t, f) /\ DOMAIN f = {"batch"} /\ f["batch"] = b + 1
      BY <2>2 DEF ReleaseBatch
    <3> HIDE DEF f
    <3>2. /\ \A u \in Threads : u # t => thread'[u] = thread[u]
          /\ thread'[t].pc = "release" /\ thread'[t].batch = b + 1 /\ SameWork(t)
      BY <1>1, <3>1, StepFields DEF Set, SameWork
    <3> QED
      BY <2>2, <3>2, OthersView DEF Op, HasGot, SearchPC, ReturnPC
  <2>3. CASE ~(b < Len(mini.next_extent))
    <3>1. Goes(t, [pc |-> "released"])
      BY <2>3 DEF ReleaseBatch
    <3> QED
      BY <1>1, <2>1, <2>3, <3>1, PcEffect DEF ReturnPC
  <2> QED
    BY <2>2, <2>3
<1> QED
  BY <1>1, <1>2, <1>3, <1>4, <1>5

LEMMA ReleaseLedger ==
  ASSUME SInv, Control, NEW t \in Threads, ReleaseBatch(t),
         NEW chain, NEW dead, NEW idx, Ledger(chain, dead, idx)
  PROVE  Ledger(chain, dead, idx)' /\ (AssertionsHold => AssertionsHold')
<1> SUFFICES ASSUME NEW b, b = thread[t].batch, NEW e1, e1 = mini.next_extent[b]
             PROVE  Ledger(chain, dead, idx)' /\ (AssertionsHold => AssertionsHold')
  BY Zenon
<1>1. /\ session.phase = "up" /\ mini.state = "released" /\ Op(t) = "release" /\ ~HasGot(t)
      /\ b \in DOMAIN mini.next_extent /\ mini.next_extent \in Seq(Extents) /\ e1 \in Extents
      /\ Others(t) /\ ~HasGot(t)' /\ SameWork(t)
      /\ ref' = [ref EXCEPT ![e1] = @ - 2]
      /\ UNCHANGED <<page, mini, root, disk, session>>
      /\ err' = IF ref'[e1] = 0 THEN err ELSE err \cup {"mini_release"}
      /\ \/ b < Len(mini.next_extent) /\ Op(t)' = "release" /\ thread'[t].batch = b + 1
         \/ b = Len(mini.next_extent) /\ Op(t)' = "released"
  BY ReleaseEffect
<1>2. Plain(t) /\ MiniHead' = MiniHead
  <2>1. MiniHead' = MiniHead
    BY <1>1 DEF MiniHead
  <2> QED
    BY <1>1, <2>1 DEF Plain, Share, SameWork, Walks, Walking, Freeing
<1>3. \A c : HasAhead(c)' <=> HasAhead(c) /\ c # b
  <2>1. \A u \in Threads : u # t => Op(u) \notin {"batch", "release"} /\ Op(u)' \notin {"batch", "release"}
    BY <1>1 DEF Control, OpInv, Apart, InitOp, ReleaseOp, Others, SameView
  <2>2. DOMAIN mini.next_extent = 1 .. Len(mini.next_extent) /\ Len(mini.next_extent) \in Nat
    BY <1>1
  <2>3. \A c : HasAhead(c) <=> c \in DOMAIN mini.next_extent /\ c >= b
    BY <1>1, <2>1 DEF HasAhead
  <2>4. \A c : HasAhead(c)' <=> c \in DOMAIN mini.next_extent /\ c >= b + 1
    <3>1. CASE b < Len(mini.next_extent)
      BY <1>1, <2>1, <3>1 DEF HasAhead
    <3>2. CASE b = Len(mini.next_extent)
      <4>1. \A c : ~HasAhead(c)'
        BY <1>1, <2>1, <2>2, <3>2 DEF HasAhead
      <4> QED
        BY <2>2, <3>2, <4>1
    <3> QED
      BY <1>1, <3>1, <3>2
  <2> QED
    BY <1>1, <2>2, <2>3, <2>4
<1>4. e1 \in Extents \ {0} /\ Has(chain, dead, idx, AheadOf(b), e1)
  <2>1. HasAhead(b)
    BY <1>1 DEF HasAhead
  <2> QED
    BY <2>1, ThreadClaims
<1>5. \A o, e : ByBatch(o, e)' <=> ByBatch(o, e) /\ ~(o = AheadOf(b) /\ e = e1)
  BY <1>1, <1>3, Tags DEF ByBatch
<1>6. \A o, e : ByThread(o, e)' <=> ByThread(o, e)
  <2>1. \A o, e : ThreadHas(t, o, e)' <=> ThreadHas(t, o, e)
    BY <1>1 DEF ThreadHas, Freeing, Moving
  <2> QED
    BY <1>1, <2>1, ThreadsKept
<1>7. /\ TreeInv(chain)' /\ DeadInv(dead, idx)' /\ DiskInv(chain)'
      /\ \A h : h # 0 => Holds(h)' = Holds(h)
      /\ \A o, e : ByTree(chain, o, e)' <=> ByTree(chain, o, e)
      /\ \A o, e : ByDead(dead, idx, o, e)' <=> ByDead(dead, idx, o, e)
  BY <1>1, <1>2, PlainKept
<1>8. OwnerInv(chain, dead, idx) /\ CountInv(chain, dead, idx) /\ TreeInv(chain)
  BY DEF Ledger
<1>9. SameClaims({e1}, chain, dead, idx, chain, dead, idx)
  BY <1>5, <1>6, <1>7 DEF SameClaims, Has
<1>10. \A o : ~Has(chain, dead, idx, o, e1)'
  BY <1>4, <1>5, <1>6, <1>7, <1>8, OnlyBatch DEF Has
<1>11. ref[e1] = 2
  <2>1. ~Has(chain, dead, idx, Meta(Address(e1)), e1)
    BY <1>4, <1>8, Tags DEF OwnerInv
  <2>2. Holds(Address(e1)) = 0
    BY <1>4, <1>8, <2>1, NoTree
  <2>3. Base(AheadOf(b)) = 2
    BY Tags DEF Base
  <2> QED
    BY <1>1, <1>4, <1>8, <2>2, <2>3 DEF CountInv, CountOK
<1>12. ref'[e1] = 0 /\ \A e \in Extents : e # e1 => ref'[e] = ref[e]
  BY <1>1, <1>11 DEF SInv, StoreType
<1>13. OwnerInv(chain, dead, idx)' /\ CountInv(chain, dead, idx)'
  <2>1. CountOK(chain, dead, idx, e1)'
    BY <1>10, <1>12 DEF CountOK
  <2>2. \A o : Has(chain, dead, idx, o, e1)' => o = AheadOf(b)
    BY <1>10
  <2> QED
    BY <1>1, <1>2, <1>4, <1>9, <1>12, <2>1, <2>2, ClaimMoved
<1>14. MiniTreeInv(chain)'
  BY <1>1, <1>2, <1>7 DEF MiniTreeInv, Ledger
<1>15. GivenInv(chain)'
  BY <1>1 DEF GivenInv
<1>16. AssertionsHold => AssertionsHold'
  BY <1>1, <1>12 DEF AssertionsHold
<1> QED
  BY <1>7, <1>13, <1>14, <1>15, <1>16 DEF Ledger

-----------------------------------------------------------------------------
(* mini_init: the first meta page *)

LEMMA InitMetaEffect ==
  ASSUME SInv, Control, NEW t \in Threads, MiniInitMeta(t), NEW e, e = thread[t].got, NEW h, h = Address(e)
  PROVE  /\ session.phase = "up" /\ mini.state = "init" /\ mini.head = 0 /\ Op(t) = "meta" /\ HasGot(t)
         /\ Others(t) /\ Op(t)' = "batch" /\ ~HasGot(t)' /\ SameWork(t) /\ thread'[t].batch = 1
         /\ UNCHANGED <<root, disk, session>>
         /\ ref' = [ref EXCEPT ![e] = @ + 1]
         /\ page' = PageSet(page, h, EmptyMetaPage)
         /\ err' = IF ref'[e] = MiniNoRefs + 1 THEN err ELSE err \cup {"mini_init"}
         /\ DOMAIN mini = {"state", "head", "tail", "locked", "next_addr", "next_extent", "given"}
         /\ DOMAIN mini' = DOMAIN mini /\ mini'.state = mini.state
         /\ mini'.head = h /\ mini'.tail = h /\ mini'.locked = mini.locked
         /\ mini'.next_addr = mini.next_addr /\ mini'.given = mini.given
         /\ mini'.next_extent = mini.next_extent
         /\ mini.next_extent \in Seq(Extents) /\ Len(mini.next_extent) > 0
<1>1. /\ StoreType /\ thread[t].pc = "meta" /\ UNCHANGED <<root, disk, session>> /\ CallAlloc(t, "batch", 1)
      /\ ref' = [ref EXCEPT ![e] = @ + 1]
      /\ page' = PageSet(page, h, EmptyMetaPage)
      /\ err' = IF ref'[e] = MiniNoRefs + 1 THEN err ELSE err \cup {"mini_init"}
      /\ mini' = [mini EXCEPT !.head = h, !.tail = h]
  BY DEF SInv, MiniInitMeta, At, Check
<1>2. Op(t) = "meta" /\ HasGot(t)
  BY <1>1 DEF HasGot, Op, ReturnPC, SearchPC
<1>3. mini.state = "init" /\ mini.head = 0
  BY <1>2 DEF Control, OpInv, OpOK, InitOp
<1>4. /\ DOMAIN mini = {"state", "head", "tail", "locked", "next_addr", "next_extent", "given"}
      /\ mini.next_extent \in Seq(Extents) /\ Len(mini.next_extent) > 0
  BY <1>3 DEF Control, MiniOK, NoMini
<1>5. session.phase = "up"
  BY <1>3 DEF Control, MiniInv
<1>6. /\ Others(t) /\ Op(t)' = "batch" /\ ~HasGot(t)' /\ SameWork(t) /\ thread'[t].batch = 1
  BY <1>1, CallEffect DEF ReturnPC
<1>7. /\ DOMAIN mini' = DOMAIN mini /\ mini'.state = mini.state
      /\ mini'.head = h /\ mini'.tail = h /\ mini'.locked = mini.locked
      /\ mini'.next_addr = mini.next_addr /\ mini'.given = mini.given
      /\ mini'.next_extent = mini.next_extent
  BY <1>1, <1>4
<1> QED
  BY <1>1, <1>2, <1>3, <1>4, <1>5, <1>6, <1>7

\* A new tree has one page, without entries.
LEMMA NewTree ==
  ASSUME NEW h \in Nat, h # 0, h = Address(ExtentOf(h)), NEW c, c = <<h>>,
         page' = PageSet(page, h, EmptyMetaPage)
  PROVE  /\ TreeOK(c, h)'
         /\ \A o, e : TreeHas(c, h, o, e)' <=> o = Meta(h) /\ e = ExtentOf(h)
<1>1. c \in Seq(Nat) /\ Len(c) = 1 /\ c[1] = h /\ \A k : k \in 1 .. Len(c) <=> k = 1
  OBVIOUS
<1>2. h \in DOMAIN page' /\ page'[h].next = 0 /\ page'[h].entries = <<>>
  BY DEF PageSet, EmptyMetaPage
<1>3. IsChain(c)
  BY <1>1 DEF IsChain
<1>4. TreeOK(c, h)'
  BY <1>1, <1>2, <1>3 DEF TreeOK, Linked
<1>5. \A i, e : ~IsEntry(h, i, e)'
  <2>1. \A i : i \notin 1 .. Len(<<>>)
    OBVIOUS
  <2> QED
    BY <1>2, <2>1 DEF IsEntry
<1>6. \A o, e : TreeHas(c, h, o, e)' <=> o = Meta(h) /\ e = ExtentOf(h)
  BY <1>1, <1>5 DEF TreeHas
<1> QED
  BY <1>4, <1>6

LEMMA InitMetaLedger ==
  ASSUME SInv, Control, NEW t \in Threads, MiniInitMeta(t),
         NEW chain, NEW dead, NEW idx, Ledger(chain, dead, idx)
  PROVE  (\E chain2 : Ledger(chain2, dead, idx)') /\ (AssertionsHold => AssertionsHold')
<1> SUFFICES ASSUME NEW e1, e1 = thread[t].got, NEW h1, h1 = Address(e1), NEW c, c = <<h1>>,
                    NEW chain2, chain2 = [h \in Nat |-> IF h = h1 THEN c ELSE chain[h]]
             PROVE  Ledger(chain2, dead, idx)' /\ (AssertionsHold => AssertionsHold')
  BY Zenon
<1>1. /\ session.phase = "up" /\ mini.state = "init" /\ mini.head = 0 /\ Op(t) = "meta" /\ HasGot(t)
      /\ Others(t) /\ Op(t)' = "batch" /\ ~HasGot(t)' /\ SameWork(t) /\ thread'[t].batch = 1
      /\ UNCHANGED <<root, disk, session>>
      /\ ref' = [ref EXCEPT ![e1] = @ + 1]
      /\ page' = PageSet(page, h1, EmptyMetaPage)
      /\ err' = IF ref'[e1] = MiniNoRefs + 1 THEN err ELSE err \cup {"mini_init"}
      /\ mini'.state = mini.state /\ mini'.head = h1 /\ mini'.tail = h1
      /\ mini'.next_addr = mini.next_addr /\ mini'.given = mini.given
      /\ mini'.next_extent = mini.next_extent /\ mini.next_extent \in Seq(Extents)
  BY InitMetaEffect
<1>2. /\ TreeInv(chain) /\ DeadInv(dead, idx) /\ OwnerInv(chain, dead, idx) /\ CountInv(chain, dead, idx)
      /\ DiskInv(chain)
  BY DEF Ledger
<1>3. e1 \in Extents \ {0} /\ Has(chain, dead, idx, TakenBy(t), e1)
  BY <1>1, ThreadClaims
<1>4. h1 \in Nat /\ h1 # 0 /\ ExtentOf(h1) = e1 /\ h1 = Address(ExtentOf(h1))
  BY <1>3, AddressOf, ExtentsNat
<1>5. TreeOK(c, h1)' /\ \A o, e : TreeHas(c, h1, o, e)' <=> o = Meta(h1) /\ e = e1
  BY <1>1, <1>4, NewTree
<1>6. Holds(h1) = 0
  <2>1. ~Has(chain, dead, idx, Meta(h1), e1)
    BY <1>2, <1>3, Tags DEF OwnerInv
  <2> QED
    BY <1>2, <1>3, <2>1, NoTree
<1>7. /\ Holds(h1)' = 1
      /\ \A h : h # 0 /\ h # h1 => Holds(h)' = Holds(h)
  <2>1. MiniHead = 0 /\ MiniHead' = h1
    BY <1>1 DEF MiniHead
  <2>2. ASSUME NEW h, h # 0
        PROVE  /\ Rest(h)' = Rest(h) + One(h = h1)
               /\ Share(t, h)' = Share(t, h)
    <3>1. Rest(h) \in Nat
      BY HoldsNat
    <3>2. Rest(h)' = Rest(h) + One(h = h1)
      BY <1>1, <1>4, <2>1, <2>2, <3>1 DEF Rest, One
    <3> QED
      BY <1>1, <3>2 DEF Share, SameWork
  <2>3. ASSUME NEW h, h # 0
        PROVE  Holds(h)' = Holds(h) + One(h = h1)
    <3>1. /\ Holds(h)' - (Rest(h)' + Share(t, h)') = Holds(h) - (Rest(h) + Share(t, h))
          /\ Holds(h) \in Nat /\ Holds(h)' \in Nat
          /\ Rest(h) \in Nat /\ Rest(h)' \in Nat /\ Share(t, h) \in Nat /\ Share(t, h)' \in Nat
      BY <1>1, HoldsStep
    <3> QED
      BY <2>2, <2>3, <3>1 DEF One
  <2>4. Holds(h1)' = 1
    BY <1>4, <1>6, <2>3 DEF One
  <2>5. ASSUME NEW h, h # 0, h # h1
        PROVE  Holds(h)' = Holds(h)
    BY <2>3, <2>5, HoldsNat DEF One
  <2> QED
    BY <2>4, <2>5
<1>8. \A h : Named(h)' <=> Named(h) \/ h = h1
  BY <1>4, <1>6, <1>7 DEF Named
<1>9. ~Named(h1) /\ chain2[h1] = c /\ \A h : Named(h) => h # h1 /\ h \in Nat /\ chain2[h] = chain[h] /\ TreeOK(chain[h], h)
  <2>1. ~Named(h1)
    BY <1>6 DEF Named
  <2>2. \A h : Named(h) => TreeOK(chain[h], h) /\ h \in Nat
    BY <1>2 DEF TreeInv, TreeOK
  <2> QED
    BY <1>4, <2>1, <2>2
<1>10. /\ \A h : Named(h) => SamePages(chain[h])
       /\ \A u \in Threads : Walks(u) => SameDead(dead[u], idx[u], u)
  <2> DEFINE E == {e1}
  <2>1. OffExtents(E) /\ \A e : e \in E <=> e = e1
    <3>1. \A a \in DOMAIN page : a # h1 => a \in DOMAIN page' /\ page'[a] = page[a]
      BY <1>1 DEF PageSet
    <3> QED
      BY <1>4, <3>1 DEF OffExtents
  <2> HIDE DEF E
  <2>2. \A h : Foreign(E, chain, dead, idx, Meta(h))
    BY <1>3, <2>1, Tags DEF Foreign
  <2>3. \A u \in Threads : Foreign(E, chain, dead, idx, DeadMeta(u))
    BY <1>3, <2>1, Tags DEF Foreign
  <2> QED
    BY <1>2, <2>1, <2>2, <2>3, OthersPages
<1>11. \A h : Named(h) => TreeOK(chain[h], h)' /\ \A o, e : TreeHas(chain[h], h, o, e)' <=> TreeHas(chain[h], h, o, e)
  BY <1>9, <1>10, OneTree
<1>12. TreeInv(chain2)'
  BY <1>5, <1>8, <1>9, <1>11 DEF TreeInv
<1>13. \A o, e : ByTree(chain2, o, e)' <=> ByTree(chain, o, e) \/ (o = Meta(h1) /\ e = e1)
  <2>1. ASSUME NEW o, NEW e
        PROVE  ByTree(chain2, o, e)' <=> ByTree(chain, o, e) \/ (o = Meta(h1) /\ e = e1)
    <3>1. ByTree(chain2, o, e)' <=> \E h : Named(h)' /\ TreeHas(chain2[h], h, o, e)'
      BY DEF ByTree
    <3>2. \A h : Named(h) => (TreeHas(chain2[h], h, o, e)' <=> TreeHas(chain[h], h, o, e))
      BY <1>9, <1>11
    <3>3. TreeHas(chain2[h1], h1, o, e)' <=> o = Meta(h1) /\ e = e1
      BY <1>5, <1>9
    <3> QED
      BY <1>8, <3>1, <3>2, <3>3 DEF ByTree
  <2> QED
    BY <2>1
<1>14. /\ DeadInv(dead, idx)'
       /\ \A o, e : ByDead(dead, idx, o, e)' <=> ByDead(dead, idx, o, e)
  <2>1. ~Walks(t) /\ ~Walks(t)'
    BY <1>1 DEF Walks, Walking, Freeing
  <2> QED
    BY <1>1, <1>2, <1>10, <2>1, DeadsKept
<1>15. \A o, e : ByThread(o, e)' <=> ByThread(o, e) /\ ~(o = TakenBy(t) /\ e = e1)
  <2>1. \A o, e : ThreadHas(t, o, e) <=> o = TakenBy(t) /\ e = e1
    BY <1>1 DEF ThreadHas, Freeing, Moving
  <2>2. \A o, e : ~ThreadHas(t, o, e)'
    BY <1>1 DEF ThreadHas, Freeing, Moving
  <2>3. \A o, e : OtherThread(t, o, e) => o # TakenBy(t)
    BY Tags DEF OtherThread, ThreadHas
  <2> QED
    BY <1>1, <2>1, <2>2, <2>3, ThreadsKept
<1>16. \A o, e : ~ByBatch(o, e) /\ ~ByBatch(o, e)'
  <2>1. \A u \in Threads : u # t => Op(u) \notin {"batch", "release"} /\ Op(u)' \notin {"batch", "release"}
    BY <1>1 DEF Control, OpInv, Apart, InitOp, ReleaseOp, Others, SameView
  <2>2. \A b \in DOMAIN mini.next_extent : ~(b < 1)
    BY <1>1
  <2> QED
    BY <1>1, <2>1, <2>2 DEF ByBatch, HasAhead
<1>17. SameClaims({e1}, chain, dead, idx, chain2, dead, idx)
  BY <1>13, <1>14, <1>15, <1>16 DEF SameClaims, Has
<1>18. \A o : Has(chain2, dead, idx, o, e1)' <=> o = Meta(h1)
  <2>1. \A o : Has(chain, dead, idx, o, e1) <=> o = TakenBy(t)
    BY <1>2, <1>3 DEF OwnerInv
  <2>2. \A o : ~ByTree(chain, o, e1) /\ ~ByDead(dead, idx, o, e1)
    BY <1>2, <1>3, OnlyThread
  <2>3. \A o : ByThread(o, e1) => o = TakenBy(t)
    BY <2>1 DEF Has
  <2> QED
    BY <1>13, <1>14, <1>15, <1>16, <2>2, <2>3 DEF Has
<1>19. ref[e1] = 2
  <2>1. Base(TakenBy(t)) = 2
    BY Tags DEF Base
  <2> QED
    BY <1>1, <1>2, <1>3, <1>6, <2>1 DEF CountInv, CountOK
<1>20. ref'[e1] = 3 /\ \A e \in Extents : e # e1 => ref'[e] = ref[e]
  BY <1>1, <1>3, <1>19 DEF SInv, StoreType
<1>21. OwnerInv(chain2, dead, idx)' /\ CountInv(chain2, dead, idx)'
  <2> DEFINE E == {e1}
  <2>1. SameClaims(E, chain, dead, idx, chain2, dead, idx) /\ \A e : e \in E <=> e = e1
    BY <1>17
  <2> HIDE DEF E
  <2>2. E \subseteq Extents \ {0} /\ 0 \notin E
    BY <1>3, <2>1
  <2>3. \A e \in E : \E q : \A o : Has(chain2, dead, idx, o, e)' => o = q
    BY <1>18, <2>1
  <2>4. OwnerInv(chain2, dead, idx)'
    BY <1>2, <2>1, <2>2, <2>3, OwnersKept
  <2>5. CountOK(chain2, dead, idx, e1)'
    <3>1. (Base(Meta(h1)))' = 2
      BY Tags DEF Base
    <3>2. (Holds(Address(e1)))' = 1
      BY <1>7
    <3>3. \A o : Has(chain2, dead, idx, o, e1)' => ref'[e1] = Base(o)' + Holds(Address(e1))'
      BY <1>18, <1>20, <3>1, <3>2
    <3> QED
      BY <1>18, <3>3 DEF CountOK
  <2>6. ASSUME NEW e \in Extents, e # 0, e # e1
        PROVE  Holds(Address(e))' = Holds(Address(e))
    <3>1. Address(e) # 0 /\ Address(e) # h1
      BY <1>4, <2>6, AddressOf, ExtentsNat
    <3> QED
      BY <1>7, <3>1
  <2>7. \A o : Base(o)' = Base(o)
    BY <1>1, BaseKept
  <2>8. CountInv(chain2, dead, idx)'
    <3>1. \A e \in E : CountOK(chain2, dead, idx, e)'
      BY <2>1, <2>5
    <3>2. \A e \in Extents : e \notin E => ref'[e] = ref[e]
      BY <1>20, <2>1
    <3>3. \A e \in Extents : e # 0 /\ e \notin E => Holds(Address(e))' = Holds(Address(e))
      BY <2>1, <2>6
    <3> QED
      BY <1>1, <1>2, <2>1, <2>2, <2>7, <3>1, <3>2, <3>3, CountsKept
  <2> QED
    BY <2>4, <2>8
<1>22. MiniTreeInv(chain2)'
  <2>1. MiniHead' = h1 /\ mini'.tail = h1
    BY <1>1 DEF MiniHead
  <2>2. Len(c) = 1 /\ c[1] = h1
    OBVIOUS
  <2>3. (Holds(MiniHead))' = 1
    BY <1>7, <2>1
  <2>4. mini'.tail = chain2[h1][Len(chain2[h1])]
    BY <1>9, <2>1, <2>2
  <2> QED
    BY <2>1, <2>3, <2>4 DEF MiniTreeInv
<1>23. GivenInv(chain2)'
  BY <1>1 DEF GivenInv
<1>24. DiskInv(chain2)'
  <2>1. disk.super.root # 0 => Named(disk.super.root)
    BY NamedBy
  <2> QED
    BY <1>1, <1>2, <1>9, <1>10, <2>1, DiskKept
<1>25. AssertionsHold => AssertionsHold'
  BY <1>1, <1>20 DEF AssertionsHold, MiniNoRefs
<1> QED
  BY <1>12, <1>14, <1>21, <1>22, <1>23, <1>24, <1>25 DEF Ledger

-----------------------------------------------------------------------------
(* Who holds a tree: steps that leave the trees and all claims alone. *)

Steady ==
  /\ page' = page
  /\ \A u \in Threads : (Walks(u)' <=> Walks(u)) /\ (Walks(u) => SameView(u))
  /\ \A o, e : (ByThread(o, e)' <=> ByThread(o, e)) /\ (ByBatch(o, e)' <=> ByBatch(o, e))
  /\ \A h : Named(h)' <=> Named(h)

LEMMA SteadyKept ==
  ASSUME Steady, NEW chain, NEW dead, NEW idx, Ledger(chain, dead, idx)
  PROVE  /\ TreeInv(chain)' /\ DeadInv(dead, idx)' /\ OwnerInv(chain, dead, idx)'
         /\ \A o, e : Has(chain, dead, idx, o, e)' <=> Has(chain, dead, idx, o, e)
         /\ \A h : Named(h) => SamePages(chain[h])
         /\ \A o : Base(o)' = Base(o)
<1>1. TreeInv(chain) /\ DeadInv(dead, idx) /\ OwnerInv(chain, dead, idx)
  BY DEF Ledger
<1>2. /\ \A h : Named(h) => SamePages(chain[h])
      /\ \A u \in Threads : Walks(u) => SameDead(dead[u], idx[u], u)
  BY <1>1, PagesThere DEF Steady
<1>3. TreeInv(chain)' /\ \A o, e : ByTree(chain, o, e)' <=> ByTree(chain, o, e)
  BY <1>1, <1>2, TreesKept DEF SameTrees, Steady
<1>4. DeadInv(dead, idx)' /\ \A o, e : ByDead(dead, idx, o, e)' <=> ByDead(dead, idx, o, e)
  <2>1. \A u \in Threads : Walks(u) =>
          /\ DeadOK(dead[u], idx[u], u)'
          /\ \A o, e : DeadHas(dead[u], idx[u], u, o, e)' <=> DeadHas(dead[u], idx[u], u, o, e)
    <3>1. \A u \in Threads : Walks(u) =>
            DeadOK(dead[u], idx[u], u) /\ SameView(u) /\ SameDead(dead[u], idx[u], u)
      BY <1>1, <1>2 DEF DeadInv, Steady
    <3> QED
      BY <3>1, OneDead
  <2>2. \A u \in Threads : Walks(u)' <=> Walks(u)
    BY DEF Steady
  <2> QED
    BY <2>1, <2>2 DEF DeadInv, ByDead
<1>5. \A o, e : Has(chain, dead, idx, o, e)' <=> Has(chain, dead, idx, o, e)
  BY <1>3, <1>4 DEF Has, Steady
<1>6. OwnerInv(chain, dead, idx)'
  BY <1>1, <1>5 DEF OwnerInv
<1>7. \A o : Base(o)' = Base(o)
  <2>1. \A u \in Threads : Op(u)' \in {"discard", "free"} <=> Op(u) \in {"discard", "free"}
    BY DEF Steady, SameView, Walks, Walking, Freeing
  <2> QED
    BY <2>1, Tags DEF Base
<1> QED
  BY <1>2, <1>3, <1>4, <1>5, <1>6, <1>7

LEMMA HoldsCounted == \A h : Holds(h) \in Nat
  BY HoldsNat

LEMMA HoldsCountedNext == \A h : Holds(h)' \in Nat
<1>1. (\A h : Holds(h) \in Nat)'
  BY HoldsCounted, PTL
<1> QED
  BY <1>1

\* References are counted as they are taken and dropped.
Counted ==
  /\ ref'[0] = ref[0] /\ session'.crashes = session.crashes
  /\ session'.phase # "down" => session.phase # "down"
  /\ \A e \in Extents \ {0} : ref'[e] - ref[e] = Holds(Address(e))' - Holds(Address(e))

LEMMA CountedKept ==
  ASSUME Steady, Counted, StoreType, StoreType', NEW chain, NEW dead, NEW idx, Ledger(chain, dead, idx)
  PROVE  CountInv(chain, dead, idx)'
<1>1. TreeInv(chain) /\ CountInv(chain, dead, idx)
  BY DEF Ledger
<1>2. /\ \A o, e : Has(chain, dead, idx, o, e)' <=> Has(chain, dead, idx, o, e)
      /\ \A o : Base(o)' = Base(o)
  BY SteadyKept
<1>3. ASSUME NEW e \in Extents \ {0}, session'.phase # "down"
      PROVE  CountOK(chain, dead, idx, e)'
  <2>1. CountOK(chain, dead, idx, e) /\ ref'[e] - ref[e] = Holds(Address(e))' - Holds(Address(e))
    BY <1>1, <1>3 DEF CountInv, Counted
  <2>2. ref[e] \in Int /\ ref'[e] \in Int /\ Holds(Address(e)) \in Nat /\ Holds(Address(e))' \in Nat
    <3>1. \A h : Holds(h) \in Nat /\ Holds(h)' \in Nat
      BY HoldsCounted, HoldsCountedNext
    <3> QED
      BY <3>1 DEF StoreType
  <2>3. ASSUME NEW o, Has(chain, dead, idx, o, e)'
        PROVE  ref'[e] = Base(o)' + Holds(Address(e))'
    <3>1. ref[e] = Base(o) + Holds(Address(e)) /\ Base(o)' = Base(o)
      BY <1>2, <2>1, <2>3 DEF CountOK
    <3>2. Base(o) \in {1, 2}
      BY DEF Base
    <3> QED
      BY <2>1, <2>2, <3>1, <3>2
  <2>4. ASSUME \A o : ~Has(chain, dead, idx, o, e)'
        PROVE  ref'[e] = 0 \/ (ref'[e] > 0 /\ session'.crashes >= 2)
    <3>1. \A o : ~Has(chain, dead, idx, o, e)
      BY <1>2, <2>4
    <3>2. Holds(Address(e)) = 0
      BY <1>1, <3>1, NoTree
    <3>3. Holds(Address(e))' = 0
      <4>1. Address(e) # 0 /\ ~Named(Address(e))'
        BY <3>2, AddressOf, ExtentsNat DEF Named, Steady
      <4> QED
        BY <2>2, <4>1 DEF Named
    <3> QED
      BY <2>1, <2>2, <3>1, <3>2, <3>3 DEF CountOK, Counted
  <2> QED
    BY <2>3, <2>4 DEF CountOK
<1> QED
  BY <1>1, <1>3 DEF CountInv, Counted

\* A tree that is in use: its extent, and the count of it.
LEMMA TreeExtent ==
  ASSUME NEW chain, NEW dead, NEW idx, Ledger(chain, dead, idx), NEW h, Named(h)
  PROVE  /\ ExtentOf(h) \in Extents \ {0} /\ h \in Nat /\ h # 0 /\ h \in DOMAIN page
         /\ \A e \in Extents \ {0} : Address(e) = h <=> e = ExtentOf(h)
         /\ Address(ExtentOf(h)) = h
         /\ Has(chain, dead, idx, Meta(h), ExtentOf(h))
         /\ session.phase # "down" => ref[ExtentOf(h)] = 2 + Holds(h)
<1>1. TreeInv(chain) /\ OwnerInv(chain, dead, idx) /\ CountInv(chain, dead, idx)
  BY DEF Ledger
<1>2. /\ Has(chain, dead, idx, Meta(h), ExtentOf(h))
      /\ h \in Nat /\ h # 0 /\ h = Address(ExtentOf(h)) /\ h \in DOMAIN page
  BY <1>1, HeadOwned
<1>3. ExtentOf(h) \in Extents \ {0}
  BY <1>1, <1>2 DEF OwnerInv
<1>4. \A e \in Extents \ {0} : Address(e) = h <=> e = ExtentOf(h)
  BY <1>2, <1>3, AddressOf, ExtentsNat
<1>5. Base(Meta(h)) = 2
  BY Tags DEF Base
<1>6. ASSUME session.phase # "down"
      PROVE  ref[ExtentOf(h)] = 2 + Holds(h)
  <2>1. CountOK(chain, dead, idx, ExtentOf(h))
    BY <1>1, <1>3, <1>6 DEF CountInv
  <2>2. ref[ExtentOf(h)] = Base(Meta(h)) + Holds(Address(ExtentOf(h)))
    BY <1>2, <2>1 DEF CountOK
  <2> QED
    BY <1>2, <1>5, <2>2
<1> QED
  BY <1>2, <1>3, <1>4, <1>6

\* One reference more or less to tree h1.
LEMMA OneCounted ==
  ASSUME StoreType, NEW chain, NEW dead, NEW idx, Ledger(chain, dead, idx), NEW h1, Named(h1), NEW d \in Int,
         ref' = [ref EXCEPT ![ExtentOf(h1)] = @ + d],
         session'.crashes = session.crashes, session'.phase # "down" => session.phase # "down",
         \A h : h # 0 => Holds(h)' = Holds(h) + (IF h = h1 THEN d ELSE 0)
  PROVE  Counted
<1>1. /\ ExtentOf(h1) \in Extents \ {0}
      /\ \A e \in Extents \ {0} : Address(e) = h1 <=> e = ExtentOf(h1)
  BY TreeExtent
<1>2. ref'[0] = ref[0] /\ \A e \in Extents : ref[e] \in Int /\ ref'[e] = ref[e] + (IF e = ExtentOf(h1) THEN d ELSE 0)
  BY <1>1, ExtentsNat DEF StoreType
<1>3. ASSUME NEW e \in Extents \ {0}
      PROVE  ref'[e] - ref[e] = Holds(Address(e))' - Holds(Address(e))
  <2>1. Address(e) # 0 /\ Holds(Address(e)) \in Nat
    BY <1>3, AddressOf, ExtentsNat, HoldsCounted
  <2>2. Holds(Address(e))' = Holds(Address(e)) + (IF Address(e) = h1 THEN d ELSE 0)
    BY <2>1
  <2>3. ref[e] \in Int /\ ref'[e] = ref[e] + (IF e = ExtentOf(h1) THEN d ELSE 0)
    BY <1>2
  <2> QED
    BY <1>1, <2>1, <2>2, <2>3
<1> QED
  BY <1>2, <1>3 DEF Counted

\* All references as they were.
LEMMA NoneCounted ==
  ASSUME StoreType, UNCHANGED ref, session'.crashes = session.crashes,
         session'.phase # "down" => session.phase # "down",
         \A h : h # 0 => Holds(h)' = Holds(h)
  PROVE  Counted
<1>1. ASSUME NEW e \in Extents \ {0}
      PROVE  ref'[e] - ref[e] = Holds(Address(e))' - Holds(Address(e))
  <2>1. Address(e) # 0 /\ Holds(Address(e)) \in Nat /\ ref[e] \in Int
    BY <1>1, AddressOf, ExtentsNat, HoldsCounted DEF StoreType
  <2> QED
    BY <2>1
<1> QED
  BY <1>1 DEF Counted

LEMMA AcquireEffect ==
  ASSUME SInv, Control, NEW t \in Threads, Acquire(t)
  PROVE  /\ session.phase = "up" /\ root # 0 /\ Op(t) = "idle" /\ ~HasGot(t) /\ thread[t].held = 0
         /\ Others(t) /\ Op(t)' = "idle" /\ ~HasGot(t)' /\ thread'[t].held = root
         /\ ref' = [ref EXCEPT ![ExtentOf(root)] = @ + 1]
         /\ err' = IF ref'[ExtentOf(root)] > MiniNoRefs THEN err ELSE err \cup {"mini_inc_ref"}
         /\ UNCHANGED <<page, mini, root, disk, session>>
<1> DEFINE f == [held |-> root]
<1>1. /\ StoreType /\ session.phase = "up" /\ thread[t].pc = "idle" /\ root # 0 /\ thread[t].held = 0
      /\ ref' = [ref EXCEPT ![ExtentOf(root)] = @ + 1]
      /\ err' = IF ref'[ExtentOf(root)] > MiniNoRefs THEN err ELSE err \cup {"mini_inc_ref"}
      /\ UNCHANGED <<page, mini, root, disk, session>>
  BY DEF SInv, Acquire, Running, At, Check
<1>2. Goes(t, f) /\ DOMAIN f = {"held"} /\ f["held"] = root
  BY DEF Acquire
<1> HIDE DEF f
<1>3. /\ \A u \in Threads : u # t => thread'[u] = thread[u]
      /\ thread'[t].pc = "idle" /\ thread'[t].held = root
  BY <1>1, <1>2, StepFields DEF Set
<1> QED
  BY <1>1, <1>3, OthersView DEF Op, HasGot, SearchPC, ReturnPC

LEMMA AcquireLedger ==
  ASSUME SInv, SInv', Control, NEW t \in Threads, Acquire(t),
         NEW chain, NEW dead, NEW idx, Ledger(chain, dead, idx)
  PROVE  Ledger(chain, dead, idx)' /\ (AssertionsHold => AssertionsHold')
<1>1. /\ session.phase = "up" /\ root # 0 /\ Op(t) = "idle" /\ ~HasGot(t) /\ thread[t].held = 0
      /\ Others(t) /\ Op(t)' = "idle" /\ ~HasGot(t)' /\ thread'[t].held = root
      /\ ref' = [ref EXCEPT ![ExtentOf(root)] = @ + 1]
      /\ err' = IF ref'[ExtentOf(root)] > MiniNoRefs THEN err ELSE err \cup {"mini_inc_ref"}
      /\ UNCHANGED <<page, mini, root, disk, session>>
  BY AcquireEffect
<1>2. StoreType /\ StoreType'
  BY DEF SInv
<1>3. Named(root)
  BY <1>1, NamedBy
<1>4. ASSUME NEW h, h # 0
      PROVE  Holds(h)' = Holds(h) + One(root = h)
  <2>1. Share(t, h)' = Share(t, h) + One(root = h)
    BY <1>1, <1>4 DEF Share, One
  <2>2. /\ Holds(h)' = Holds(h) - Share(t, h) + Share(t, h)'
        /\ Holds(h) \in Nat /\ Holds(h)' \in Nat /\ Share(t, h) \in Nat /\ Share(t, h)' \in Nat
    BY <1>1, LocalHolds
  <2> QED
    BY <2>1, <2>2 DEF One
<1>5. \A h : h # 0 => Holds(h)' = Holds(h) + (IF h = root THEN 1 ELSE 0)
  BY <1>4 DEF One
<1>6. Steady
  <2>1. \A h : Named(h)' <=> Named(h)
    BY <1>3, <1>5, HoldsCounted DEF Named
  <2>2. \A o, e : ByBatch(o, e)' <=> ByBatch(o, e)
    BY <1>1, BatchesKept
  <2>3. \A o, e : ByThread(o, e)' <=> ByThread(o, e)
    <3>1. \A o, e : ThreadHas(t, o, e)' <=> ThreadHas(t, o, e)
      BY <1>1 DEF ThreadHas, Freeing, Moving
    <3> QED
      BY <1>1, <3>1, ThreadsKept
  <2>4. \A u \in Threads : (Walks(u)' <=> Walks(u)) /\ (Walks(u) => SameView(u))
    BY <1>1 DEF Others, SameView, Walks, Walking, Freeing
  <2> QED
    BY <1>1, <2>1, <2>2, <2>3, <2>4 DEF Steady
<1>7. Counted
  <2>1. 1 \in Int
    OBVIOUS
  <2>2. UNCHANGED session /\ StoreType /\ ref' = [ref EXCEPT ![ExtentOf(root)] = @ + 1]
    BY <1>1, <1>2
  <2> QED
    BY <1>3, <1>5, <2>1, <2>2, OneCounted
<1>8. /\ TreeInv(chain)' /\ DeadInv(dead, idx)' /\ OwnerInv(chain, dead, idx)' /\ CountInv(chain, dead, idx)'
      /\ \A h : Named(h) => SamePages(chain[h])
  BY <1>2, <1>6, <1>7, SteadyKept, CountedKept
<1>9. MiniTreeInv(chain)'
  <2>1. MiniHead' = MiniHead /\ mini' = mini /\ MiniTreeInv(chain)
    BY <1>1 DEF MiniHead, Ledger
  <2>2. MiniHead # 0 => root # MiniHead
    BY <2>1, OwnTree
  <2>3. MiniHead # 0 => (Holds(MiniHead))' = Holds(MiniHead)
    BY <1>5, <2>1, <2>2, HoldsCounted
  <2> QED
    BY <2>1, <2>3 DEF MiniTreeInv
<1>10. GivenInv(chain)'
  <2>1. \A c, e : InData(c, e)' <=> InData(c, e)
    BY <1>1 DEF InData, IsEntry
  <2>2. \A b, a : Filling(b, a)' => Filling(b, a)
    BY <1>1, FillingKept
  <2> QED
    BY <1>1, <2>1, <2>2, GivenKept DEF Ledger
<1>11. DiskInv(chain)'
  <2>1. disk.super.root # 0 => Named(disk.super.root)
    BY NamedBy
  <2> QED
    BY <1>1, <1>8, <2>1, DiskKept DEF Ledger
<1>12. AssertionsHold => AssertionsHold'
  <2>1. ref[ExtentOf(root)] = 2 + Holds(root) /\ ExtentOf(root) \in Extents /\ Holds(root) \in Nat /\ Holds(root) > 0
    BY <1>1, <1>3, TreeExtent, HoldsCounted DEF Named
  <2>2. ref'[ExtentOf(root)] > 2
    BY <1>1, <1>2, <2>1 DEF StoreType
  <2> QED
    BY <1>1, <2>2 DEF AssertionsHold, MiniNoRefs
<1> QED
  BY <1>8, <1>9, <1>10, <1>11, <1>12 DEF Ledger

\* A thread that claims no extent of its own takes or drops a reference.
LEMMA HoldersMoved ==
  ASSUME StoreType, StoreType', NEW t \in Threads, Others(t), UNCHANGED <<page, disk, session>>,
         session.phase \notin {"set_super", "sync"},
         ~HasGot(t), Op(t) \notin Moving \cup Walking, ~HasGot(t)', Op(t)' \notin Moving \cup Walking,
         NEW chain, NEW dead, NEW idx, Ledger(chain, dead, idx),
         \A o, e : ByBatch(o, e)' <=> ByBatch(o, e), \A h : Named(h)' <=> Named(h), Counted
  PROVE  /\ TreeInv(chain)' /\ DeadInv(dead, idx)' /\ OwnerInv(chain, dead, idx)' /\ CountInv(chain, dead, idx)'
         /\ DiskInv(chain)'
<1>1. Steady
  <2>1. \A o, e : ByThread(o, e)' <=> ByThread(o, e)
    <3>1. \A o, e : ThreadHas(t, o, e)' <=> ThreadHas(t, o, e)
      BY DEF ThreadHas, Walking
    <3> QED
      BY <3>1, ThreadsKept
  <2>2. \A u \in Threads : (Walks(u)' <=> Walks(u)) /\ (Walks(u) => SameView(u))
    BY DEF Others, SameView, Walks
  <2> QED
    BY <2>1, <2>2 DEF Steady
<1>2. /\ TreeInv(chain)' /\ DeadInv(dead, idx)' /\ OwnerInv(chain, dead, idx)' /\ CountInv(chain, dead, idx)'
      /\ \A h : Named(h) => SamePages(chain[h])
  BY <1>1, SteadyKept, CountedKept
<1>3. DiskInv(chain)'
  <2>1. disk.super.root # 0 => Named(disk.super.root)
    BY NamedBy
  <2> QED
    BY <1>2, <2>1, DiskKept DEF Ledger
<1> QED
  BY <1>2, <1>3

\* A thread that is about to drop a reference to head.
Drops(t, head) ==
  /\ Others(t) /\ Op(t)' = "dec_ref" /\ ~HasGot(t)' /\ thread'[t].head = head
  /\ UNCHANGED <<ref, page, disk, session, err>>

LEMMA GiveBackEffect ==
  ASSUME SInv, NEW t \in Threads, GiveBack(t)
  PROVE  /\ session.phase = "up" /\ Op(t) = "idle" /\ ~HasGot(t) /\ thread[t].held # 0
         /\ Drops(t, thread[t].held) /\ thread'[t].held = 0 /\ UNCHANGED <<mini, root>>
<1> DEFINE f == [pc |-> "dec_ref", head |-> thread[t].held, held |-> 0]
<1>1. /\ StoreType /\ session.phase = "up" /\ thread[t].pc = "idle" /\ thread[t].held # 0
      /\ UNCHANGED <<ref, page, mini, root, disk, session, err>>
  BY DEF SInv, GiveBack, Running, At
<1>2. Goes(t, f) /\ DOMAIN f = {"pc", "head", "held"} /\ f["pc"] = "dec_ref" /\ f["held"] = 0 /\ f["head"] = thread[t].held
  BY DEF GiveBack
<1> HIDE DEF f
<1>3. /\ \A u \in Threads : u # t => thread'[u] = thread[u]
      /\ thread'[t].pc = "dec_ref" /\ thread'[t].held = 0 /\ thread'[t].head = thread[t].held
  BY <1>1, <1>2, StepFields DEF Set
<1> QED
  BY <1>1, <1>3, OthersView DEF Drops, Op, HasGot, SearchPC, ReturnPC

LEMMA GiveBackLedger ==
  ASSUME SInv, SInv', Control, NEW t \in Threads, GiveBack(t),
         NEW chain, NEW dead, NEW idx, Ledger(chain, dead, idx)
  PROVE  Ledger(chain, dead, idx)'
<1>1. /\ session.phase = "up" /\ Op(t) = "idle" /\ ~HasGot(t) /\ thread[t].held # 0
      /\ Others(t) /\ Op(t)' = "dec_ref" /\ ~HasGot(t)' /\ thread'[t].head = thread[t].held
      /\ thread'[t].held = 0 /\ UNCHANGED <<ref, page, mini, root, disk, session, err>>
  BY GiveBackEffect DEF Drops
<1>2. StoreType /\ StoreType'
  BY DEF SInv
<1>3. \A h : h # 0 => Holds(h)' = Holds(h)
  <2>1. ASSUME NEW h, h # 0
        PROVE  Holds(h)' = Holds(h)
    <3>1. Share(t, h)' = Share(t, h)
      BY <1>1, <2>1 DEF Share, One
    <3> QED
      BY <1>1, <3>1, LocalHolds
  <2> QED
    BY <2>1
<1>4. Counted /\ \A h : Named(h)' <=> Named(h)
  BY <1>1, <1>2, <1>3, NoneCounted, SameNames
<1>5. \A o, e : ByBatch(o, e)' <=> ByBatch(o, e)
  BY <1>1, BatchesKept
<1>6. /\ TreeInv(chain)' /\ DeadInv(dead, idx)' /\ OwnerInv(chain, dead, idx)' /\ CountInv(chain, dead, idx)'
      /\ DiskInv(chain)'
  BY <1>1, <1>2, <1>4, <1>5, HoldersMoved DEF Moving, Walking, Freeing
<1>7. MiniTreeInv(chain)'
  BY <1>1, <1>3 DEF MiniTreeInv, MiniHead, Ledger
<1>8. GivenInv(chain)'
  <2>1. \A c, e : InData(c, e)' <=> InData(c, e)
    BY <1>1 DEF InData, IsEntry
  <2>2. \A b, a : Filling(b, a)' => Filling(b, a)
    BY <1>1, FillingKept
  <2> QED
    BY <1>1, <2>1, <2>2, GivenKept DEF Ledger
<1> QED
  BY <1>6, <1>7, <1>8 DEF Ledger

\* The end of mini_release: the tree goes to the root, or to the thread that
\* drops it.
LEMMA FinishEffect ==
  ASSUME SInv, Control, NEW t \in Threads, Install(t) \/ Abandon(t)
  PROVE  /\ session.phase = "up" /\ mini.state = "released" /\ mini.head # 0 /\ Op(t) = "released" /\ ~HasGot(t)
         /\ Others(t) /\ ~HasGot(t)' /\ thread'[t].held = thread[t].held
         /\ UNCHANGED <<ref, page, disk, session, err>> /\ mini' = NoMini
         /\ \/ root' = mini.head /\ root = 0 /\ Op(t)' = "idle"
            \/ root' = mini.head /\ root # 0 /\ Op(t)' = "dec_ref" /\ thread'[t].head = root
            \/ root' = root /\ Op(t)' = "dec_ref" /\ thread'[t].head = mini.head
<1>1. /\ StoreType /\ thread[t].pc = "released" /\ mini' = NoMini
      /\ UNCHANGED <<ref, page, disk, session, err>>
  BY DEF SInv, Install, Abandon, At
<1>2. Op(t) = "released" /\ ~HasGot(t)
  BY <1>1 DEF Op, HasGot, SearchPC, ReturnPC
<1>3. mini.state = "released"
  BY <1>2 DEF Control, OpInv, OpOK, ReleaseOp
<1>4. mini.head # 0 /\ session.phase = "up"
  BY <1>3 DEF Control, MiniInv
<1>5. ASSUME NEW f, Goes(t, f), DOMAIN f = {"pc", "head"}, f["pc"] = "dec_ref"
      PROVE  /\ Others(t) /\ ~HasGot(t)' /\ thread'[t].held = thread[t].held
             /\ Op(t)' = "dec_ref" /\ thread'[t].head = f["head"]
  <2>1. /\ \A u \in Threads : u # t => thread'[u] = thread[u]
        /\ thread'[t].pc = "dec_ref" /\ thread'[t].held = thread[t].held /\ thread'[t].head = f["head"]
    BY <1>1, <1>5, StepFields DEF Set
  <2> QED
    BY <2>1, OthersView DEF Op, HasGot, SearchPC, ReturnPC
<1>6. /\ Others(t) /\ ~HasGot(t)' /\ thread'[t].held = thread[t].held
      /\ \/ root' = mini.head /\ root = 0 /\ Op(t)' = "idle"
         \/ root' = mini.head /\ root # 0 /\ Op(t)' = "dec_ref" /\ thread'[t].head = root
         \/ root' = root /\ Op(t)' = "dec_ref" /\ thread'[t].head = mini.head
  <2>1. CASE Install(t) /\ root = 0
    BY <1>1, <2>1, BecomesEffect DEF Install
  <2>2. CASE Install(t) /\ root # 0
    <3> DEFINE f == [pc |-> "dec_ref", head |-> root]
    <3>1. Goes(t, f) /\ DOMAIN f = {"pc", "head"} /\ f["pc"] = "dec_ref" /\ f["head"] = root /\ root' = mini.head
      BY <2>2 DEF Install
    <3> HIDE DEF f
    <3> QED
      BY <1>5, <2>2, <3>1
  <2>3. CASE Abandon(t)
    <3> DEFINE f == [pc |-> "dec_ref", head |-> mini.head]
    <3>1. Goes(t, f) /\ DOMAIN f = {"pc", "head"} /\ f["pc"] = "dec_ref" /\ f["head"] = mini.head /\ root' = root
      BY <2>3 DEF Abandon
    <3> HIDE DEF f
    <3> QED
      BY <1>5, <3>1
  <2> QED
    BY <2>1, <2>2, <2>3
<1> QED
  BY <1>1, <1>2, <1>3, <1>4, <1>6

LEMMA FinishLedger ==
  ASSUME SInv, SInv', Control, NEW t \in Threads, Install(t) \/ Abandon(t),
         NEW chain, NEW dead, NEW idx, Ledger(chain, dead, idx)
  PROVE  Ledger(chain, dead, idx)'
<1>1. /\ session.phase = "up" /\ mini.state = "released" /\ mini.head # 0 /\ Op(t) = "released" /\ ~HasGot(t)
      /\ Others(t) /\ ~HasGot(t)' /\ thread'[t].held = thread[t].held
      /\ UNCHANGED <<ref, page, disk, session, err>> /\ mini' = NoMini
      /\ \/ root' = mini.head /\ root = 0 /\ Op(t)' = "idle"
         \/ root' = mini.head /\ root # 0 /\ Op(t)' = "dec_ref" /\ thread'[t].head = root
         \/ root' = root /\ Op(t)' = "dec_ref" /\ thread'[t].head = mini.head
  BY FinishEffect
<1>2. StoreType /\ StoreType' /\ Op(t)' \in {"idle", "dec_ref"}
  BY <1>1 DEF SInv
<1>3. MiniHead = mini.head /\ MiniHead' = 0 /\ mini'.state = "none"
  BY <1>1 DEF MiniHead, NoMini
<1>4. \A h : h # 0 => Holds(h)' = Holds(h)
  <2>1. ASSUME NEW h, h # 0
        PROVE  Holds(h)' = Holds(h)
    <3>1. Rest(h)' + Share(t, h)' = Rest(h) + Share(t, h)
      BY <1>1, <1>3, <2>1 DEF Rest, Share, One
    <3>2. /\ Holds(h)' - (Rest(h)' + Share(t, h)') = Holds(h) - (Rest(h) + Share(t, h))
          /\ Holds(h) \in Nat /\ Holds(h)' \in Nat
          /\ Rest(h) \in Nat /\ Rest(h)' \in Nat /\ Share(t, h) \in Nat /\ Share(t, h)' \in Nat
      BY <1>1, HoldsStep
    <3> QED
      BY <3>1, <3>2
  <2> QED
    BY <2>1
<1>5. Counted /\ \A h : Named(h)' <=> Named(h)
  BY <1>1, <1>2, <1>4, NoneCounted, SameNames
<1>6. \A o, e : ByBatch(o, e)' <=> ByBatch(o, e)
  <2>1. \A u \in Threads : Op(u) \notin {"batch", "release"}
    BY <1>1 DEF Control, OpInv, Apart, InitOp, ReleaseOp
  <2> QED
    BY <1>1, <1>3, <2>1 DEF ByBatch, HasAhead
<1>7. /\ TreeInv(chain)' /\ DeadInv(dead, idx)' /\ OwnerInv(chain, dead, idx)' /\ CountInv(chain, dead, idx)'
      /\ DiskInv(chain)'
  BY <1>1, <1>2, <1>5, <1>6, HoldersMoved DEF Moving, Walking, Freeing
<1>8. MiniTreeInv(chain)' /\ GivenInv(chain)'
  BY <1>3 DEF MiniTreeInv, GivenInv
<1> QED
  BY <1>7, <1>8 DEF Ledger

-----------------------------------------------------------------------------
(* mini_dec_ref *)

LEMMA DecEffect ==
  ASSUME SInv, Control, NEW t \in Threads, MiniDecRef(t), NEW h1, h1 = thread[t].head,
         NEW n, n = ref[ExtentOf(h1)]
  PROVE  /\ session.phase \notin QuietPhase /\ Op(t) = "dec_ref" /\ ~HasGot(t) /\ h1 # 0 /\ Named(h1)
         /\ Others(t) /\ ~HasGot(t)' /\ thread'[t].held = thread[t].held
         /\ UNCHANGED <<page, mini, root, disk, session>>
         /\ \/ n # 3 /\ Op(t)' = "idle"
            \/ /\ n = 3 /\ Op(t)' = "entries" /\ thread'[t].head = h1
               /\ thread'[t].at = h1 /\ thread'[t].entry = 1
<1>1. /\ StoreType /\ thread[t].pc = "dec_ref" /\ UNCHANGED <<page, mini, root, disk, session>>
  BY DEF SInv, MiniDecRef, At
<1>2. Op(t) = "dec_ref" /\ ~HasGot(t)
  BY <1>1 DEF Op, HasGot, SearchPC, ReturnPC
<1>3. h1 # 0 /\ Named(h1)
  <2>1. h1 # 0
    BY <1>2 DEF Control, OpInv, OpOK
  <2> QED
    BY <1>2, <2>1, NamedBy
<1>4. session.phase \notin QuietPhase
  BY <1>1, Runs
<1>5. CASE n # 3
  <2>1. Becomes(t)
    <3>1. ExtentOf(h1) \in Extents /\ n \in Int => n - 1 # 2
      BY <1>5
    <3> QED
      BY <3>1, <1>5 DEF MiniDecRef, MiniNoRefs
  <2> QED
    BY <1>1, <1>2, <1>3, <1>4, <1>5, <2>1, BecomesEffect
<1>6. CASE n = 3
  <2> DEFINE f == [pc |-> "entries", at |-> h1, entry |-> 1]
  <2>1. Goes(t, f) /\ DOMAIN f = {"pc", "at", "entry"} /\ f["pc"] = "entries" /\ f["at"] = h1 /\ f["entry"] = 1
    BY <1>6 DEF MiniDecRef, MiniNoRefs
  <2> HIDE DEF f
  <2>2. /\ \A u \in Threads : u # t => thread'[u] = thread[u]
        /\ thread'[t].pc = "entries" /\ thread'[t].held = thread[t].held /\ thread'[t].head = h1
        /\ thread'[t].at = h1 /\ thread'[t].entry = 1
    BY <1>1, <2>1, StepFields DEF Set
  <2>3. Others(t) /\ ~HasGot(t)' /\ Op(t)' = "entries"
    BY <2>2, OthersView DEF Op, HasGot, SearchPC, ReturnPC
  <2> QED
    BY <1>1, <1>2, <1>3, <1>4, <1>6, <2>2, <2>3
<1> QED
  BY <1>5, <1>6

\* What a thread that drops a reference does to the holders.
LEMMA DecHolds ==
  ASSUME NEW t \in Threads, Others(t), UNCHANGED <<mini, root, disk, session>>,
         Op(t) = "dec_ref", Op(t)' # "dec_ref", thread'[t].held = thread[t].held
  PROVE  \A h : Holds(h)' = Holds(h) + (IF h = thread[t].head THEN -1 ELSE 0)
<1>1. ASSUME NEW h
      PROVE  Holds(h)' = Holds(h) + (IF h = thread[t].head THEN -1 ELSE 0)
  <2>1. Share(t, h)' = Share(t, h) + (IF h = thread[t].head THEN -1 ELSE 0)
    BY DEF Share, One
  <2>2. /\ Holds(h)' = Holds(h) - Share(t, h) + Share(t, h)'
        /\ Holds(h) \in Nat /\ Holds(h)' \in Nat /\ Share(t, h) \in Nat /\ Share(t, h)' \in Nat
    BY LocalHolds
  <2> QED
    BY <2>1, <2>2
<1> QED
  BY <1>1

LEMMA DecLedger ==
  ASSUME SInv, SInv', Control, NEW t \in Threads, MiniDecRef(t), ref[ExtentOf(thread[t].head)] # 3,
         NEW chain, NEW dead, NEW idx, Ledger(chain, dead, idx)
  PROVE  Ledger(chain, dead, idx)'
<1> SUFFICES ASSUME NEW h1, h1 = thread[t].head, NEW n, n = ref[ExtentOf(h1)]
             PROVE  Ledger(chain, dead, idx)'
  BY Zenon
<1>1. /\ session.phase \notin QuietPhase /\ Op(t) = "dec_ref" /\ ~HasGot(t) /\ h1 # 0 /\ Named(h1)
      /\ Others(t) /\ ~HasGot(t)' /\ thread'[t].held = thread[t].held
      /\ ref' = [ref EXCEPT ![ExtentOf(h1)] = n - 1]
      /\ UNCHANGED <<page, mini, root, disk, session>>
      /\ \/ n # 3 /\ Op(t)' = "idle"
         \/ /\ n = 3 /\ Op(t)' = "entries" /\ thread'[t].head = h1
            /\ thread'[t].at = h1 /\ thread'[t].entry = 1
  <2>1. ref' = [ref EXCEPT ![ExtentOf(h1)] = n - 1]
    BY DEF MiniDecRef
  <2>2. /\ session.phase \notin QuietPhase /\ Op(t) = "dec_ref" /\ ~HasGot(t) /\ h1 # 0 /\ Named(h1)
        /\ Others(t) /\ ~HasGot(t)' /\ thread'[t].held = thread[t].held
        /\ UNCHANGED <<page, mini, root, disk, session>>
        /\ \/ n # 3 /\ Op(t)' = "idle"
           \/ /\ n = 3 /\ Op(t)' = "entries" /\ thread'[t].head = h1
              /\ thread'[t].at = h1 /\ thread'[t].entry = 1
    BY DecEffect
  <2> QED
    BY <2>1, <2>2
<1>2. StoreType /\ StoreType'
  BY DEF SInv
<1>3. ref[ExtentOf(h1)] = 2 + Holds(h1) /\ Holds(h1) \in Nat /\ Holds(h1) > 0
  BY <1>1, TreeExtent, HoldsCounted DEF Named, QuietPhase
<1>4. n # 3 /\ Op(t)' = "idle" /\ Holds(h1) > 1
  BY <1>1, <1>3
<1>5. \A h : Holds(h)' = Holds(h) + (IF h = h1 THEN -1 ELSE 0)
  BY <1>1, <1>4, DecHolds
<1>6. \A h : Named(h)' <=> Named(h)
  BY <1>1, <1>4, <1>5, HoldsCounted DEF Named
<1>7. Counted
  <2> SUFFICES ASSUME NEW d, d = -1
               PROVE  Counted
    OBVIOUS
  <2>1. ref' = [ref EXCEPT ![ExtentOf(h1)] = @ + d]
    BY <1>1, <1>3
  <2>2. d \in Int /\ UNCHANGED session /\ Named(h1)
    BY <1>1
  <2>3. \A h : h # 0 => Holds(h)' = Holds(h) + (IF h = h1 THEN d ELSE 0)
    BY <1>5
  <2> QED
    BY <1>2, <2>1, <2>2, <2>3, OneCounted
<1>8. \A o, e : ByBatch(o, e)' <=> ByBatch(o, e)
  BY <1>1, <1>4, BatchesKept
<1>9. /\ TreeInv(chain)' /\ DeadInv(dead, idx)' /\ OwnerInv(chain, dead, idx)' /\ CountInv(chain, dead, idx)'
      /\ DiskInv(chain)'
  BY <1>1, <1>2, <1>4, <1>6, <1>7, <1>8, HoldersMoved DEF Moving, Walking, Freeing, QuietPhase
<1>10. MiniTreeInv(chain)'
  <2>1. MiniHead' = MiniHead /\ mini' = mini /\ MiniTreeInv(chain)
    BY <1>1 DEF MiniHead, Ledger
  <2>2. MiniHead # 0 => h1 # MiniHead
    BY <1>1, <2>1, OwnTree
  <2>3. MiniHead # 0 => (Holds(MiniHead))' = Holds(MiniHead)
    BY <1>5, <2>1, <2>2, HoldsCounted
  <2> QED
    BY <2>1, <2>3 DEF MiniTreeInv
<1>11. GivenInv(chain)'
  <2>1. \A c, e : InData(c, e)' <=> InData(c, e)
    BY <1>1 DEF InData, IsEntry
  <2>2. \A b, a : Filling(b, a)' => Filling(b, a)
    BY <1>1, <1>4, FillingKept
  <2> QED
    BY <1>1, <2>1, <2>2, GivenKept DEF Ledger
<1> QED
  BY <1>9, <1>10, <1>11 DEF Ledger

\* The count of the tree is never less than what mini_dec_ref asserts.
LEMMA DecAsserts ==
  ASSUME SInv, Control, NEW t \in Threads, MiniDecRef(t),
         NEW chain, NEW dead, NEW idx, Ledger(chain, dead, idx), AssertionsHold
  PROVE  AssertionsHold'
<1> SUFFICES ASSUME NEW h1, h1 = thread[t].head, NEW n, n = ref[ExtentOf(h1)]
             PROVE  AssertionsHold'
  BY Zenon
<1>1. session.phase \notin QuietPhase /\ Named(h1)
  BY DecEffect
<1>4. err' = IF n - 1 >= MiniNoRefs /\ h1 \in DOMAIN page THEN err ELSE err \cup {"mini_dec_ref"}
  BY DEF MiniDecRef, Check
<1>2. ref[ExtentOf(h1)] = 2 + Holds(h1) /\ Holds(h1) \in Nat /\ Holds(h1) > 0 /\ h1 \in DOMAIN page
  BY <1>1, TreeExtent, HoldsCounted DEF Named, QuietPhase
<1>3. n - 1 >= MiniNoRefs
  BY <1>2 DEF MiniNoRefs
<1> QED
  BY <1>2, <1>3, <1>4 DEF AssertionsHold

\* The claims of everybody but a tree, and a thread that is about to give it
\* back.
Kept(chain, dead, idx, h1, t, o, e) ==
  \/ \E h : h # h1 /\ Named(h) /\ TreeHas(chain[h], h, o, e)
  \/ OtherDead(t, dead, idx, o, e) \/ ByThread(o, e) \/ ByBatch(o, e)

\* With the last reference, what was the tree's is the thread's.
Renamed(t, h1, o, p) ==
  \/ o = DeadMeta(t) /\ p = Meta(h1)
  \/ \E k, i : o = DeadData(t, k, i) /\ p = Data(h1, k, i)

LEMMA RenamedOnce ==
  ASSUME NEW t, NEW h1
  PROVE  /\ \A o1, o2, p : Renamed(t, h1, o1, p) /\ Renamed(t, h1, o2, p) => o1 = o2
         /\ \A o, p : Renamed(t, h1, o, p) => o[1] # "dropped" /\ p[1] # "dropped"
<1>1. ASSUME NEW o1, NEW o2, NEW p, Renamed(t, h1, o1, p), Renamed(t, h1, o2, p)
      PROVE  o1 = o2
  <2>1. CASE p = Meta(h1)
    BY <1>1, <2>1, Tags DEF Renamed
  <2>2. CASE \E k, i : o1 = DeadData(t, k, i) /\ p = Data(h1, k, i)
    <3>1. PICK k, i : o1 = DeadData(t, k, i) /\ p = Data(h1, k, i)
      BY <2>2
    <3>2. p[1] = "data" /\ p[3] = k /\ p[4] = i
      BY <3>1, Tags
    <3>3. p # Meta(h1)
      BY <3>2, Tags
    <3>4. PICK k2, i2 : o2 = DeadData(t, k2, i2) /\ p = Data(h1, k2, i2)
      BY <1>1, <3>3 DEF Renamed
    <3>5. p[3] = k2 /\ p[4] = i2
      BY <3>4, Tags
    <3> QED
      BY <3>1, <3>2, <3>4, <3>5
  <2> QED
    BY <1>1, <2>1, <2>2 DEF Renamed
<1>2. ASSUME NEW o, NEW p, Renamed(t, h1, o, p)
      PROVE  o[1] # "dropped" /\ p[1] # "dropped"
  <2>1. CASE o = DeadMeta(t) /\ p = Meta(h1)
    BY <2>1, Tags
  <2>2. CASE \E k, i : o = DeadData(t, k, i) /\ p = Data(h1, k, i)
    <3>1. PICK k, i : o = DeadData(t, k, i) /\ p = Data(h1, k, i)
      BY <2>2
    <3>2. o[1] = "dead_data" /\ p[1] = "data"
      BY <3>1, Tags
    <3> QED
      BY <3>2
  <2> QED
    BY <1>2, <2>1, <2>2 DEF Renamed
<1> QED
  BY <1>1, <1>2

\* The claims before and after.
LEMMA TreeLeft ==
  ASSUME NEW t \in Threads, NEW chain, NEW dead, NEW idx, NEW h1, Named(h1),
         \A o, e : ByDead(dead, idx, o, e) <=> OtherDead(t, dead, idx, o, e)
  PROVE  /\ \A o, e : Has(chain, dead, idx, o, e) <=>
              Kept(chain, dead, idx, h1, t, o, e) \/ TreeHas(chain[h1], h1, o, e)
         /\ \A o, e : Kept(chain, dead, idx, h1, t, o, e) => ~TreeHas(chain[h1], h1, o, e)
<1>1. ASSUME NEW o, NEW e
      PROVE  Has(chain, dead, idx, o, e) <=>
               Kept(chain, dead, idx, h1, t, o, e) \/ TreeHas(chain[h1], h1, o, e)
  <2>1. ByTree(chain, o, e) <=>
          (\E h : h # h1 /\ Named(h) /\ TreeHas(chain[h], h, o, e)) \/ TreeHas(chain[h1], h1, o, e)
    BY DEF ByTree
  <2> QED
    BY <2>1 DEF Has, Kept
<1>2. ASSUME NEW o, NEW e, Kept(chain, dead, idx, h1, t, o, e), TreeHas(chain[h1], h1, o, e)
      PROVE  FALSE
  <2>1. \A h : TreeHas(chain[h], h, o, e) => o[1] \in {"meta", "data"} /\ o[2] = h
    <3>1. ASSUME NEW h, TreeHas(chain[h], h, o, e)
          PROVE  o[1] \in {"meta", "data"} /\ o[2] = h
      <4>1. o = Meta(h) \/ \E k, i : o = Data(h, k, i)
        BY <3>1 DEF TreeHas
      <4> QED
        BY <4>1, Tags
    <3> QED
      BY <3>1
  <2>2. o[1] \in {"meta", "data"} /\ o[2] = h1
    BY <1>2, <2>1
  <2>3. ~\E h : h # h1 /\ Named(h) /\ TreeHas(chain[h], h, o, e)
    BY <2>1, <2>2
  <2>4. ByDead(dead, idx, o, e) \/ ByThread(o, e) \/ ByBatch(o, e)
    BY <1>2, <2>3 DEF Kept
  <2> QED
    BY <2>2, <2>4, Kinds
<1> QED
  BY <1>1, <1>2

LEMMA DeadBegins ==
  ASSUME NEW t, NEW c, c \in Seq(Nat), NEW h1, thread'[t].entry = 1, page' = page,
         \A a \in DOMAIN page : page[a].entries \in Seq(Extents), \A k \in 1 .. Len(c) : c[k] \in DOMAIN page
  PROVE  \A o, e : DeadHas(c, 1, t, o, e)' <=> \E p : TreeHas(c, h1, p, e) /\ Renamed(t, h1, o, p)
<1>1. \A k \in 1 .. Len(c) : k > 1 \/ k = 1
  OBVIOUS
<1>2. \A k \in 1 .. Len(c) : \A i, e : IsEntry(c[k], i, e) => i >= 1
  BY DEF IsEntry
<1>3. ASSUME NEW o, NEW e
      PROVE  DeadHas(c, 1, t, o, e)' <=>
               \E k \in 1 .. Len(c) :
                 \/ o = DeadMeta(t) /\ ExtentOf(c[k]) = e
                 \/ \E i : o = DeadData(t, k, i) /\ IsEntry(c[k], i, e)
  <2>1. \A a, i : IsEntry(a, i, e)' <=> IsEntry(a, i, e)
    BY DEF IsEntry
  <2>2. thread'[t].entry # 0
    OBVIOUS
  <2>3. DeadHas(c, 1, t, o, e)' <=>
          \E k \in 1 .. Len(c) :
            \/ o = DeadMeta(t) /\ ExtentOf(c[k]) = e
            \/ \E i : o = DeadData(t, k, i) /\ IsEntry(c[k], i, e) /\ (k > 1 \/ (k = 1 /\ i >= 1))
    BY <2>1, <2>2 DEF DeadHas
  <2> QED
    BY <1>1, <1>2, <2>3
<1>4. ASSUME NEW o, NEW e, DeadHas(c, 1, t, o, e)'
      PROVE  \E p : TreeHas(c, h1, p, e) /\ Renamed(t, h1, o, p)
  <2>1. PICK k \in 1 .. Len(c) :
               \/ o = DeadMeta(t) /\ ExtentOf(c[k]) = e
               \/ \E i : o = DeadData(t, k, i) /\ IsEntry(c[k], i, e)
    BY <1>3, <1>4
  <2>2. CASE o = DeadMeta(t) /\ ExtentOf(c[k]) = e
    <3>1. TreeHas(c, h1, Meta(h1), e)
      BY <2>2 DEF TreeHas
    <3>2. Renamed(t, h1, o, Meta(h1))
      BY <2>2 DEF Renamed
    <3> QED
      BY <3>1, <3>2
  <2>3. CASE \E i : o = DeadData(t, k, i) /\ IsEntry(c[k], i, e)
    <3>1. PICK i : o = DeadData(t, k, i) /\ IsEntry(c[k], i, e)
      BY <2>3
    <3>2. TreeHas(c, h1, Data(h1, k, i), e)
      BY <3>1 DEF TreeHas
    <3>3. Renamed(t, h1, o, Data(h1, k, i))
      BY <3>1 DEF Renamed
    <3> QED
      BY <3>2, <3>3
  <2> QED
    BY <2>1, <2>2, <2>3
<1>5. ASSUME NEW o, NEW e, NEW p, TreeHas(c, h1, p, e), Renamed(t, h1, o, p)
      PROVE  DeadHas(c, 1, t, o, e)'
  <2>1. CASE o = DeadMeta(t) /\ p = Meta(h1)
    <3>1. \E k \in 1 .. Len(c) : ExtentOf(c[k]) = e
      BY <1>5, <2>1, Tags DEF TreeHas
    <3> QED
      BY <1>3, <2>1, <3>1
  <2>2. CASE \E k, i : o = DeadData(t, k, i) /\ p = Data(h1, k, i)
    <3>1. PICK k, i : o = DeadData(t, k, i) /\ p = Data(h1, k, i)
      BY <2>2
    <3>2. p[1] = "data" /\ p[3] = k /\ p[4] = i
      BY <3>1, Tags
    <3>3. k \in 1 .. Len(c) /\ IsEntry(c[k], i, e)
      <4>1. PICK j \in 1 .. Len(c) : (p = Meta(h1) /\ ExtentOf(c[j]) = e) \/ \E m : p = Data(h1, j, m) /\ IsEntry(c[j], m, e)
        BY <1>5 DEF TreeHas
      <4>2. PICK m : p = Data(h1, j, m) /\ IsEntry(c[j], m, e)
        BY <3>2, <4>1, Tags
      <4>3. p[3] = j /\ p[4] = m
        BY <4>2, Tags
      <4> QED
        BY <3>2, <4>2, <4>3
    <3> QED
      BY <1>3, <3>1, <3>3
  <2> QED
    BY <1>5, <2>1, <2>2 DEF Renamed
<1> QED
  BY <1>4, <1>5

\* A thread begins to give a tree back.
LEMMA LastLedger ==
  ASSUME SInv, SInv', Control, NEW t \in Threads, MiniDecRef(t), ref[ExtentOf(thread[t].head)] = 3,
         NEW chain, NEW dead, NEW idx, Ledger(chain, dead, idx)
  PROVE  \E dead2, idx2 : Ledger(chain, dead2, idx2)'
<1> SUFFICES ASSUME NEW h1, h1 = thread[t].head, NEW n, n = ref[ExtentOf(h1)], NEW c, c = chain[h1],
                    NEW dead2, dead2 = [u \in Threads |-> IF u = t THEN c ELSE dead[u]],
                    NEW idx2, idx2 = [u \in Threads |-> IF u = t THEN 1 ELSE idx[u]]
             PROVE  Ledger(chain, dead2, idx2)'
  BY Zenon
<1>1. /\ session.phase \notin QuietPhase /\ Op(t) = "dec_ref" /\ ~HasGot(t) /\ h1 # 0 /\ Named(h1)
      /\ Others(t) /\ ~HasGot(t)' /\ thread'[t].held = thread[t].held
      /\ UNCHANGED <<page, mini, root, disk, session>>
      /\ Op(t)' = "entries" /\ thread'[t].head = h1 /\ thread'[t].at = h1 /\ thread'[t].entry = 1
  <2>1. /\ session.phase \notin QuietPhase /\ Op(t) = "dec_ref" /\ ~HasGot(t) /\ h1 # 0 /\ Named(h1)
        /\ Others(t) /\ ~HasGot(t)' /\ thread'[t].held = thread[t].held
        /\ UNCHANGED <<page, mini, root, disk, session>>
        /\ \/ n # 3 /\ Op(t)' = "idle"
           \/ /\ n = 3 /\ Op(t)' = "entries" /\ thread'[t].head = h1
              /\ thread'[t].at = h1 /\ thread'[t].entry = 1
    BY DecEffect
  <2>2. n = 3
    OBVIOUS
  <2> QED
    BY <2>1, <2>2
<1>2. /\ StoreType /\ StoreType'
      /\ TreeInv(chain) /\ DeadInv(dead, idx) /\ OwnerInv(chain, dead, idx) /\ CountInv(chain, dead, idx)
  BY DEF SInv, Ledger
<1>3. Holds(h1) = 1
  <2>1. ref[ExtentOf(h1)] = 2 + Holds(h1) /\ Holds(h1) \in Nat
    BY <1>1, TreeExtent, HoldsCounted DEF QuietPhase
  <2> QED
    BY <2>1
<1>4. \A h : Holds(h)' = Holds(h) + (IF h = h1 THEN -1 ELSE 0)
  BY <1>1, DecHolds
<1>5. \A h : Named(h)' <=> Named(h) /\ h # h1
  BY <1>3, <1>4, HoldsCounted DEF Named
<1>6. /\ \A h : Named(h) => SamePages(chain[h])
      /\ \A u \in Threads : Walks(u) => SameDead(dead[u], idx[u], u)
  BY <1>1, <1>2, PagesThere
<1>7. \A h : Named(h) => TreeOK(chain[h], h)' /\ \A o, e : TreeHas(chain[h], h, o, e)' <=> TreeHas(chain[h], h, o, e)
  BY <1>2, <1>6, OneTree DEF TreeInv
<1>8. TreeInv(chain)'
  BY <1>5, <1>7 DEF TreeInv
<1>9. /\ TreeOK(c, h1) /\ IsChain(c) /\ c \in Seq(Nat) /\ Len(c) > 0 /\ c[1] = h1
      /\ \A k \in 1 .. Len(c) : Linked(c, k, page)
  BY <1>1, <1>2 DEF TreeInv, TreeOK, IsChain
<1>10. dead2[t] = c /\ idx2[t] = 1 /\ \A u \in Threads : u # t => dead2[u] = dead[u] /\ idx2[u] = idx[u]
  OBVIOUS
<1>11. DeadOK(c, 1, t)'
  <2>1. 1 \in 1 .. Len(c) + 1 /\ 1 <= Len(c)
    BY <1>9
  <2>2. \A k \in 1 .. Len(c) : Linked(c, k, page')
    BY <1>1, <1>9
  <2> QED
    BY <1>1, <1>9, <2>1, <2>2 DEF DeadOK
<1>12. Walks(t)' /\ ~Walks(t)
  BY <1>1 DEF Walks, Walking, Freeing
<1>13. /\ DeadInv(dead2, idx2)'
       /\ \A o, e : ByDead(dead, idx, o, e) <=> OtherDead(t, dead, idx, o, e)
       /\ \A o, e : ByDead(dead2, idx2, o, e)' <=> DeadHas(c, 1, t, o, e)' \/ OtherDead(t, dead, idx, o, e)
  <2>1. \A u \in Threads : u # t /\ Walks(u) =>
          dead2[u] = dead[u] /\ idx2[u] = idx[u] /\ SameDead(dead[u], idx[u], u)
    BY <1>6, <1>10
  <2>2. /\ (Walks(t)' => DeadOK(dead2[t], idx2[t], t)') => DeadInv(dead2, idx2)'
        /\ \A o, e : ByDead(dead, idx, o, e) <=>
             (Walks(t) /\ DeadHas(dead[t], idx[t], t, o, e)) \/ OtherDead(t, dead, idx, o, e)
        /\ \A o, e : ByDead(dead2, idx2, o, e)' <=>
             (Walks(t) /\ DeadHas(dead2[t], idx2[t], t, o, e))' \/ OtherDead(t, dead, idx, o, e)
    BY <1>1, <1>2, <2>1, DeadsKept
  <2>3. DeadOK(dead2[t], idx2[t], t)' /\ \A o, e : DeadHas(dead2[t], idx2[t], t, o, e)' <=> DeadHas(c, 1, t, o, e)'
    BY <1>10, <1>11
  <2> QED
    BY <1>12, <2>2, <2>3
<1>14. \A o, e : DeadHas(c, 1, t, o, e)' <=> \E p : TreeHas(c, h1, p, e) /\ Renamed(t, h1, o, p)
  <2>1. \A a \in DOMAIN page : page[a].entries \in Seq(Extents)
    BY DEF Control, PagesOK
  <2>2. \A k \in 1 .. Len(c) : c[k] \in DOMAIN page
    BY <1>9 DEF Linked
  <2> QED
    BY <1>1, <1>9, <2>1, <2>2, DeadBegins
<1>15. \A o, e : (ByThread(o, e)' <=> ByThread(o, e)) /\ (ByBatch(o, e)' <=> ByBatch(o, e))
  <2>1. \A o, e : ThreadHas(t, o, e)' <=> ThreadHas(t, o, e)
    BY <1>1 DEF ThreadHas, Freeing, Moving
  <2>2. \A o, e : ByBatch(o, e)' <=> ByBatch(o, e)
    BY <1>1, BatchesKept
  <2> QED
    BY <1>1, <2>1, <2>2, ThreadsKept
<1>16. \A o, e : ByTree(chain, o, e)' <=> \E h : h # h1 /\ Named(h) /\ TreeHas(chain[h], h, o, e)
  BY <1>5, <1>7 DEF ByTree
<1>17. /\ \A o, e : Has(chain, dead, idx, o, e) <=> Kept(chain, dead, idx, h1, t, o, e) \/ TreeHas(c, h1, o, e)
       /\ \A o, e : Kept(chain, dead, idx, h1, t, o, e) => ~TreeHas(c, h1, o, e)
  BY <1>1, <1>13, TreeLeft
<1>18. \A o, e : Has(chain, dead2, idx2, o, e)' <=>
         Kept(chain, dead, idx, h1, t, o, e) \/ \E p : TreeHas(c, h1, p, e) /\ Renamed(t, h1, o, p)
  BY <1>13, <1>14, <1>15, <1>16 DEF Has, Kept
<1>19. ASSUME NEW o, NEW e, Has(chain, dead2, idx2, o, e)'
       PROVE  /\ e \in Extents \ {0}
              /\ \A o2 : Has(chain, dead2, idx2, o2, e)' => o2 = o
              /\ \E p : Has(chain, dead, idx, p, e) /\ Base(o)' = Base(p)
  <2>1. \A p, q : Has(chain, dead, idx, p, e) /\ Has(chain, dead, idx, q, e) => p = q
    BY <1>2 DEF OwnerInv
  <2>2. CASE Kept(chain, dead, idx, h1, t, o, e)
    <3>1. Has(chain, dead, idx, o, e) /\ e \in Extents \ {0}
      BY <1>2, <1>17, <2>2 DEF OwnerInv
    <3>2. \A p : ~TreeHas(c, h1, p, e)
      BY <1>17, <2>1, <2>2
    <3>3. \A o2 : Has(chain, dead2, idx2, o2, e)' => o2 = o
      BY <1>17, <1>18, <2>1, <3>1, <3>2
    <3>4. Base(o)' = Base(o)
      BY <1>1, BaseKept
    <3> QED
      BY <3>1, <3>3, <3>4
  <2>3. CASE \E p : TreeHas(c, h1, p, e) /\ Renamed(t, h1, o, p)
    <3>1. PICK p : TreeHas(c, h1, p, e) /\ Renamed(t, h1, o, p)
      BY <2>3
    <3>2. Has(chain, dead, idx, p, e) /\ e \in Extents \ {0}
      BY <1>2, <1>17, <3>1 DEF OwnerInv
    <3>3. \A o2 : ~Kept(chain, dead, idx, h1, t, o2, e)
      BY <1>17, <2>1, <3>1
    <3>4. \A o2 : Has(chain, dead2, idx2, o2, e)' => o2 = o
      BY <1>17, <1>18, <2>1, <3>1, <3>3, RenamedOnce
    <3>5. Base(o)' = 2 /\ Base(p) = 2
      BY <3>1, RenamedOnce, Tags DEF Base
    <3> QED
      BY <3>2, <3>4, <3>5
  <2> QED
    BY <1>18, <1>19, <2>2, <2>3
<1>20. OwnerInv(chain, dead2, idx2)'
  BY <1>19 DEF OwnerInv
<1>21. Counted
  <2> SUFFICES ASSUME NEW d, d = -1
               PROVE  Counted
    OBVIOUS
  <2>1. ref' = [ref EXCEPT ![ExtentOf(h1)] = @ + d]
    BY <1>3 DEF MiniDecRef
  <2>2. d \in Int /\ UNCHANGED session /\ Named(h1)
    BY <1>1
  <2>3. \A h : h # 0 => Holds(h)' = Holds(h) + (IF h = h1 THEN d ELSE 0)
    BY <1>4
  <2> QED
    BY <1>2, <2>1, <2>2, <2>3, OneCounted
<1>22. CountInv(chain, dead2, idx2)'
  <2>1. ASSUME NEW e \in Extents \ {0}
        PROVE  CountOK(chain, dead2, idx2, e)'
    <3>1. /\ ref'[e] - ref[e] = Holds(Address(e))' - Holds(Address(e)) /\ CountOK(chain, dead, idx, e)
          /\ ref[e] \in Int /\ ref'[e] \in Int /\ Holds(Address(e)) \in Nat /\ Holds(Address(e))' \in Nat
      BY <1>1, <1>2, <1>21, HoldsCounted, HoldsCountedNext DEF Counted, CountInv, QuietPhase, StoreType
    <3>2. ASSUME NEW o, Has(chain, dead2, idx2, o, e)'
          PROVE  ref'[e] = Base(o)' + Holds(Address(e))'
      <4>1. PICK p : Has(chain, dead, idx, p, e) /\ Base(o)' = Base(p)
        BY <1>19, <3>2
      <4>2. ref[e] = Base(p) + Holds(Address(e)) /\ Base(p) \in {1, 2}
        BY <3>1, <4>1 DEF CountOK, Base
      <4> QED
        BY <3>1, <4>1, <4>2
    <3>3. ASSUME \A o : ~Has(chain, dead2, idx2, o, e)'
          PROVE  ref'[e] = 0 \/ (ref'[e] > 0 /\ session'.crashes >= 2)
      <4>1. \A p : ~TreeHas(c, h1, p, e)
        <5>1. ASSUME NEW p, TreeHas(c, h1, p, e)
              PROVE  \E o : Renamed(t, h1, o, p)
          <6>1. p = Meta(h1) \/ \E k, i : p = Data(h1, k, i)
            BY <5>1 DEF TreeHas
          <6>2. CASE p = Meta(h1)
            <7>1. Renamed(t, h1, DeadMeta(t), p)
              BY <6>2 DEF Renamed
            <7> QED
              BY <7>1
          <6>3. CASE \E k, i : p = Data(h1, k, i)
            <7>1. PICK k, i : p = Data(h1, k, i)
              BY <6>3
            <7>2. Renamed(t, h1, DeadData(t, k, i), p)
              BY <7>1 DEF Renamed
            <7> QED
              BY <7>2
          <6> QED
            BY <6>1, <6>2, <6>3
        <5> QED
          BY <1>18, <3>3, <5>1
      <4>2. \A o : ~Has(chain, dead, idx, o, e)
        BY <1>17, <1>18, <3>3, <4>1
      <4>3. Holds(Address(e)) = 0
        BY <1>2, <4>2, NoTree
      <4>4. Address(e) # h1
        BY <1>3, <4>3
      <4>5. Holds(Address(e))' = 0
        BY <1>4, <4>3, <4>4
      <4> QED
        BY <1>1, <3>1, <4>2, <4>3, <4>5 DEF CountOK
    <3> QED
      BY <3>2, <3>3 DEF CountOK
  <2>2. ref'[0] = 2
    BY <1>1, <1>2, <1>21 DEF CountInv, Counted, QuietPhase
  <2> QED
    BY <2>1, <2>2 DEF CountInv
<1>23. MiniTreeInv(chain)'
  <2>1. MiniHead' = MiniHead /\ mini' = mini /\ MiniTreeInv(chain)
    BY <1>1 DEF MiniHead, Ledger
  <2>2. MiniHead # 0 => h1 # MiniHead
    BY <1>1, <2>1, OwnTree
  <2>3. MiniHead # 0 => (Holds(MiniHead))' = Holds(MiniHead)
    BY <1>4, <2>1, <2>2, HoldsCounted
  <2> QED
    BY <2>1, <2>3 DEF MiniTreeInv
<1>24. GivenInv(chain)'
  <2>1. \A x, e : InData(x, e)' <=> InData(x, e)
    BY <1>1 DEF InData, IsEntry
  <2>2. \A b, a : Filling(b, a)' => Filling(b, a)
    BY <1>1, FillingKept
  <2> QED
    BY <1>1, <2>1, <2>2, GivenKept DEF Ledger
<1>25. DiskInv(chain)'
  <2>1. disk.super.root # 0 => Named(disk.super.root)
    BY NamedBy
  <2> QED
    BY <1>1, <1>6, <2>1, DiskKept DEF Ledger, QuietPhase
<1> QED
  BY <1>8, <1>13, <1>20, <1>22, <1>23, <1>24, <1>25 DEF Ledger
=============================================================================
