------------------------ MODULE TreePassCacheProofs ------------------------
(***************************************************************************)
(* IInv is an inductive invariant of TreePassCache, for any number of      *)
(* threads, entries, batches, addresses and reference count stripes, and   *)
(* ContentInv is one relative to it: the latest contents of a page survive *)
(* writeback, eviction and reloading.  First the counting facts that type  *)
(* correctness rests on: RefInv says that ref[e][s] is the number of threads *)
(* of stripe s that hold e, and the lemmas how it is kept and what a writer *)
(* that reads the counters learns from it.  Then one lemma per conjunct says *)
(* that every step keeps it, and theorems read the properties off.         *)
(***************************************************************************)
EXTENDS TreePassCacheInv, FiniteSetTheorems, TLAPS

\* The thread's stripe is one of the RCWidth stripes.
LEMMA StripeType == \A t \in Thread : StripeOf(t) \in Stripe
BY ThreadAssumption, WidthAssumption, SMT DEF StripeOf, Stripe

\* A set of holders is finite, as there are finitely many threads.
LEMMA CountedFinite ==
    ASSUME NEW e, NEW s
    PROVE  IsFiniteSet(Counted(e, s)) /\ Cardinality(Counted(e, s)) \in Nat
<1>1. Counted(e, s) \in SUBSET Thread
  BY DEF Counted
<1>2. IsFiniteSet(Counted(e, s))
  BY <1>1, FS_Subset, ThreadAssumption
<1> QED
  BY <1>2, FS_CardinalityType

\* A thread that holds an entry is counted: its counter can be lowered.
LEMMA RefPositive ==
    ASSUME RefInv, NEW t \in Thread, ent[t] \in Entry, pc[t] \in CountedPC
    PROVE  ref[ent[t]][StripeOf(t)] >= 1
<1> DEFINE C == Counted(ent[t], StripeOf(t))
<1>1. t \in C
  BY DEF Counted
<1>2. IsFiniteSet(C) /\ Cardinality(C) \in Nat
  BY CountedFinite
<1>3. Cardinality(C) # 0
  BY <1>1, <1>2, FS_EmptySet
<1>4. ref[ent[t]][StripeOf(t)] = Cardinality(C)
  BY StripeType DEF RefInv
<1> QED
  BY <1>2, <1>3, <1>4

\* What the scan of treepass_get_write learns from a quiet stripe: no other
\* thread of that stripe holds the entry.
LEMMA QuietStripe ==
    ASSUME RefInv, NEW t \in Thread, ent[t] \in Entry, pc[t] \in CountedPC,
           NEW u \in Thread \ {t}, ent[u] = ent[t], pc[u] \in CountedPC
    PROVE  ~StripeQuiet(t, StripeOf(u))
<1> DEFINE s == StripeOf(u)
           C == Counted(ent[t], s)
<1>1. u \in C
  BY DEF Counted
<1>2. IsFiniteSet(C) /\ Cardinality(C) \in Nat
  BY CountedFinite
<1>3. ref[ent[t]][s] = Cardinality(C)
  BY StripeType DEF RefInv
<1>4. Cardinality(C) # 0
  BY <1>1, <1>2, FS_EmptySet
<1>5. CASE s # StripeOf(t)
  BY <1>2, <1>3, <1>4, <1>5 DEF StripeQuiet
<1>6. CASE s = StripeOf(t)
  <2>1. t \in C
    BY <1>6 DEF Counted
  <2>2. Cardinality(C) # 1
    BY <1>1, <1>2, <2>1, FS_Singleton
  <2> QED
    BY <1>2, <1>3, <1>4, <1>6, <2>2 DEF StripeQuiet
<1> QED
  BY <1>5, <1>6

-----------------------------------------------------------------------------

Holds(t, e) == ent[t] = e /\ pc[t] \in CountedPC

\* A step that changes neither the counters nor who holds what.
LEMMA RefSame ==
    ASSUME RefInv, ref' = ref,
           \A u \in Thread, e \in Entry : Holds(u, e)' <=> Holds(u, e)
    PROVE  RefInv'
<1>1. \A e \in Entry, s \in Stripe : Counted(e, s)' = Counted(e, s)
  BY DEF Counted, Holds
<1> QED
  BY <1>1 DEF RefInv

\* A step by which thread t comes to hold e, and raises its counter.
LEMMA RefRaised ==
    ASSUME ref \in [Entry -> [Stripe -> Nat]], RefInv,
           NEW t \in Thread, NEW e \in Entry,
           ref' = [ref EXCEPT ![e][StripeOf(t)] = @ + 1],
           \A x \in Entry : ~Holds(t, x), Holds(t, e)',
           \A u \in Thread \ {t}, x \in Entry : Holds(u, x)' <=> Holds(u, x)
    PROVE  RefInv'
<1> SUFFICES ASSUME NEW x \in Entry, NEW s \in Stripe
             PROVE  ref'[x][s] = Cardinality(Counted(x, s)')
  BY DEF RefInv
<1>1. IsFiniteSet(Counted(x, s)) /\ ref[x][s] = Cardinality(Counted(x, s))
  BY CountedFinite DEF RefInv
<1>2. CASE x = e /\ s = StripeOf(t)
  <2>1. Counted(x, s)' = Counted(x, s) \cup {t}
    BY <1>2 DEF Counted, Holds
  <2>2. t \notin Counted(x, s)
    BY DEF Counted, Holds
  <2>3. Cardinality(Counted(x, s)') = Cardinality(Counted(x, s)) + 1
    BY <1>1, <2>1, <2>2, FS_AddElement
  <2> QED
    BY <1>1, <1>2, <2>3
<1>3. CASE ~(x = e /\ s = StripeOf(t))
  <2>1. Counted(x, s)' = Counted(x, s)
    BY <1>3 DEF Counted, Holds
  <2>2. ref'[x][s] = ref[x][s]
    BY <1>3, StripeType
  <2> QED
    BY <1>1, <2>1, <2>2
<1> QED
  BY <1>2, <1>3

\* A step by which thread t, which holds e, gives it up and lowers its counter.
LEMMA RefLowered ==
    ASSUME ref \in [Entry -> [Stripe -> Nat]], RefInv,
           NEW t \in Thread, NEW e \in Entry,
           ref' = [ref EXCEPT ![e][StripeOf(t)] = @ - 1],
           Holds(t, e), \A x \in Entry : ~Holds(t, x)',
           \A u \in Thread \ {t}, x \in Entry : Holds(u, x)' <=> Holds(u, x)
    PROVE  RefInv'
<1> SUFFICES ASSUME NEW x \in Entry, NEW s \in Stripe
             PROVE  ref'[x][s] = Cardinality(Counted(x, s)')
  BY DEF RefInv
<1>1. IsFiniteSet(Counted(x, s)) /\ ref[x][s] = Cardinality(Counted(x, s))
  BY CountedFinite DEF RefInv
<1>2. CASE x = e /\ s = StripeOf(t)
  <2>1. Counted(x, s)' = Counted(x, s) \ {t}
    BY <1>2 DEF Counted, Holds
  <2>2. t \in Counted(x, s)
    BY <1>2 DEF Counted, Holds
  <2>3. Cardinality(Counted(x, s)') = Cardinality(Counted(x, s)) - 1
    BY <1>1, <2>1, <2>2, FS_RemoveElement
  <2> QED
    BY <1>1, <1>2, <2>3
<1>3. CASE ~(x = e /\ s = StripeOf(t))
  <2>1. Counted(x, s)' = Counted(x, s)
    BY <1>3 DEF Counted, Holds
  <2>2. ref'[x][s] = ref[x][s]
    BY <1>3, StripeType
  <2> QED
    BY <1>1, <2>1, <2>2
<1> QED
  BY <1>2, <1>3

-----------------------------------------------------------------------------
(* Type correctness, by groups of variables.                               *)

StatusOK ==
    /\ status \in [Entry -> SUBSET Flag]
    /\ pin \in [Entry -> Nat]

MappingOK ==
    /\ disk_addr \in [Entry -> Addr \cup {NONE}]
    /\ type \in [Entry -> PageType \cup {NONE}]
    /\ lookup \in [Addr -> Entry \cup {NONE}]
    /\ free_hand \in [Thread -> Batch \cup {NONE}]

ContentOK ==
    /\ data \in [Entry -> Addr \cup {NONE}]
    /\ disk \in SUBSET Addr
    /\ io \in [Entry -> {"none", "issued", "cleaned"}]
    /\ ioaddr \in [Entry -> Addr \cup {NONE}]
    /\ iodata \in [Entry -> Addr \cup {NONE}]
    /\ live \in SUBSET Addr
    /\ pinned \in SUBSET Addr

ControlOK ==
    /\ pc \in [Thread -> PC]
    /\ op \in [Thread -> {"none", "get", "alloc", "discard"}]
    /\ addr \in [Thread -> Addr \cup {NONE}]
    /\ ent \in [Thread -> Entry \cup {NONE}]
    /\ scan \in [Thread -> 0 .. RCWidth]
    /\ evicting \in SUBSET Thread

\* What LocalInv says of the arguments' types.
ArgsOK ==
    \A t \in Thread :
        /\ pc[t] \notin NoEntryPC => ent[t] \in Entry
        /\ pc[t] # "idle" => addr[t] \in Addr

USE DEF At, Goto, mapping, content, owned, rest, memory, args

\* A status word holds flags only, and a pin count never drops below zero
\* (treepass_reset_pin stores zero instead of decrementing).
LEMMA StatusStep ==
    ASSUME StatusOK, ControlOK, ArgsOK, Next
    PROVE  StatusOK'
<1> USE DEF StatusOK, ControlOK, ArgsOK, Flag, FREE, CLEAN, WRITEBACK,
        LOADING, WRITELOCKED, CLAIMED, FREE_STATUS, ALLOC_STATUS,
        READ_LOADING_STATUS, NoEntryPC
<1>1. ASSUME NEW t \in Thread, Call(t) PROVE StatusOK'
  BY <1>1 DEF Call, Get, Alloc, Discard
<1>2. ASSUME NEW t \in Thread, ReadLock(t) PROVE StatusOK'
  BY <1>2 DEF ReadLock, LookupHit, LookupMiss, Return, RdTest, RdInc, RdFree,
     RdWriting, RdUndo, ChkAddr, WaitLoad, Recheck, ChkType, Unref
<1>3. ASSUME NEW t \in Thread, Holder(t) PROVE StatusOK'
  BY <1>3 DEF Holder, Unget, Return, TryClaim, SetFlag, Unclaim, ClearFlag,
     Lock, MarkDirty, Modify, Change, Pin, Unlock
<1>4. ASSUME NEW t \in Thread, WriteLock(t) PROVE StatusOK'
  BY <1>4 DEF WriteLock, Claim, SetFlag, SetLock, WaitWriteback, WaitRefs,
     Locked
<1>5. ASSUME NEW t \in Thread, Evict(t) PROVE StatusOK'
  BY <1>5 DEF Evict, BatchFull, MoveHand, SweepDone, Verify, EvUnlock,
     ClearFlag, EvUnclaim, EvUnref, CleanPage, StartWriteback, SetFlag,
     TryEvict, TakeBatch
<1>6. ASSUME NEW t \in Thread, Remove(t) PROVE StatusOK'
  BY <1>6 DEF Remove, ClLookup, ClAddr, ClFree, ClPin, ClUnref, Return
<1>7. ASSUME NEW t \in Thread, Install(t) PROVE StatusOK'
  BY <1>7 DEF Install, GetFreePage, FrInc, FrStatus, LdCas, LdUnref, LdAbort,
     LdAddr, LdRead, LdFinish, ClearFlag, AlAddr, AlLookup, Change
<1>8. ASSUME NEW e \in Entry, Callback(e) PROVE StatusOK'
  BY <1>8 DEF Callback, WriteDone, WritebackDone, SetFlag, ClearFlag
<1> QED
  BY <1>1, <1>2, <1>3, <1>4, <1>5, <1>6, <1>7, <1>8 DEF Next, Step

\* Entries are mapped to addresses, addresses to entries, and a free hand
\* to a batch.
LEMMA MappingStep ==
    ASSUME MappingOK, ControlOK, ArgsOK, Next
    PROVE  MappingOK'
<1> USE AddrAssumption DEF MappingOK, ControlOK, ArgsOK, NoEntryPC
<1>1. ASSUME NEW t \in Thread, Call(t) PROVE MappingOK'
  BY <1>1 DEF Call, Get, Alloc, Discard
<1>2. ASSUME NEW t \in Thread, ReadLock(t) PROVE MappingOK'
  BY <1>2 DEF ReadLock, LookupHit, LookupMiss, Return, RdTest, RdInc, RdFree,
     RdWriting, RdUndo, ChkAddr, WaitLoad, Recheck, ChkType, Unref
<1>3. ASSUME NEW t \in Thread, Holder(t) PROVE MappingOK'
  BY <1>3 DEF Holder, Unget, Return, TryClaim, SetFlag, Unclaim, ClearFlag,
     Lock, MarkDirty, Modify, Change, Pin, Unlock
<1>4. ASSUME NEW t \in Thread, WriteLock(t) PROVE MappingOK'
  BY <1>4 DEF WriteLock, Claim, SetFlag, SetLock, WaitWriteback, WaitRefs,
     Locked
<1>5. ASSUME NEW t \in Thread, Evict(t) PROVE MappingOK'
  BY <1>5 DEF Evict, BatchFull, MoveHand, SweepDone, Verify, EvUnlock,
     ClearFlag, EvUnclaim, EvUnref, CleanPage, StartWriteback, SetFlag,
     TryEvict, TakeBatch
<1>6. ASSUME NEW t \in Thread, Remove(t) PROVE MappingOK'
  BY <1>6 DEF Remove, ClLookup, ClAddr, ClFree, ClPin, ClUnref, Return
<1>7. ASSUME NEW t \in Thread, Install(t) PROVE MappingOK'
  BY <1>7 DEF Install, GetFreePage, FrInc, FrStatus, LdCas, LdUnref, LdAbort,
     LdAddr, LdRead, LdFinish, ClearFlag, AlAddr, AlLookup, Change
<1>8. ASSUME NEW e \in Entry, Callback(e) PROVE MappingOK'
  BY <1>8 DEF Callback, WriteDone, WritebackDone, SetFlag, ClearFlag
<1> QED
  BY <1>1, <1>2, <1>3, <1>4, <1>5, <1>6, <1>7, <1>8 DEF Next, Step

\* Control stays within the labels, and the scan within the stripes.
LEMMA ControlStep ==
    ASSUME ControlOK, MappingOK, ArgsOK, Next
    PROVE  ControlOK'
<1> USE WidthAssumption DEF ControlOK, MappingOK, ArgsOK, PC, NoEntryPC
<1>1. ASSUME NEW t \in Thread, Call(t) PROVE ControlOK'
  BY <1>1 DEF Call, Get, Alloc, Discard
<1>2. ASSUME NEW t \in Thread, ReadLock(t) PROVE ControlOK'
  BY <1>2 DEF ReadLock, LookupHit, LookupMiss, Return, RdTest, RdInc, RdFree,
     RdWriting, RdUndo, ChkAddr, WaitLoad, Recheck, ChkType, Unref
<1>3. ASSUME NEW t \in Thread, Holder(t) PROVE ControlOK'
  BY <1>3 DEF Holder, Unget, Return, TryClaim, SetFlag, Unclaim, ClearFlag,
     Lock, MarkDirty, Modify, Change, Pin, Unlock
<1>4. ASSUME NEW t \in Thread, WriteLock(t) PROVE ControlOK'
  BY <1>4 DEF WriteLock, Claim, SetFlag, SetLock, WaitWriteback, WaitRefs,
     Locked
<1>5. ASSUME NEW t \in Thread, Evict(t) PROVE ControlOK'
  BY <1>5 DEF Evict, BatchFull, MoveHand, SweepDone, Verify, EvUnlock,
     ClearFlag, EvUnclaim, EvUnref, CleanPage, StartWriteback, SetFlag,
     TryEvict, TakeBatch
<1>6. ASSUME NEW t \in Thread, Remove(t) PROVE ControlOK'
  BY <1>6 DEF Remove, ClLookup, ClAddr, ClFree, ClPin, ClUnref, Return
<1>7. ASSUME NEW t \in Thread, Install(t) PROVE ControlOK'
  BY <1>7 DEF Install, GetFreePage, FrInc, FrStatus, LdCas, LdUnref, LdAbort,
     LdAddr, LdRead, LdFinish, ClearFlag, AlAddr, AlLookup, Change
<1>8. ASSUME NEW e \in Entry, Callback(e) PROVE ControlOK'
  BY <1>8 DEF Callback, WriteDone, WritebackDone, SetFlag, ClearFlag
<1> QED
  BY <1>1, <1>2, <1>3, <1>4, <1>5, <1>6, <1>7, <1>8 DEF Next, Step

\* New contents of a page are contents of that page.
LEMMA ChangeType ==
    ASSUME ContentOK, NEW e \in Entry, NEW a \in Addr, Change(e, a)
    PROVE  /\ data' \in [Entry -> Addr \cup {NONE}]
           /\ disk' \in SUBSET Addr
           /\ iodata' \in [Entry -> Addr \cup {NONE}]
BY DEF ContentOK, Change

\* Reads, writes and their callbacks deal with pages of the disk: no write
\* goes to TP_UNMAPPED_ADDR.
LEMMA ContentStep ==
    ASSUME ContentOK, MappingOK, ControlOK, ArgsOK, MappedInv, Next
    PROVE  ContentOK'
<1>1. ASSUME NEW t \in Thread, Call(t) PROVE ContentOK'
  BY <1>1 DEF ContentOK, Call, Get, Alloc, Discard
<1>2. ASSUME NEW t \in Thread, Modify(t) \/ AlLookup(t) PROVE ContentOK'
  <2>1. ent[t] \in Entry /\ addr[t] \in Addr /\ Change(ent[t], addr[t])
    BY <1>2 DEF Modify, AlLookup, ArgsOK, NoEntryPC
  <2>2. live' \in SUBSET Addr
    BY <1>2, <2>1 DEF ContentOK, Modify, AlLookup
  <2>3. io' = io /\ ioaddr' = ioaddr /\ pinned' = pinned
    BY <1>2 DEF Modify, AlLookup
  <2> QED
    BY <2>1, <2>2, <2>3, ChangeType DEF ContentOK
<1>3. ASSUME NEW t \in Thread, Pin(t) \/ LdRead(t) PROVE ContentOK'
  BY <1>3 DEF ContentOK, Pin, LdRead, ArgsOK, NoEntryPC
<1>4. ASSUME NEW t \in Thread, NEW e \in Entry, CleanPage(t, e)
      PROVE  ContentOK'
  BY <1>4 DEF ContentOK, MappingOK, CleanPage, StartWriteback
<1>5. ASSUME NEW t \in Thread, ReadLock(t) \/ WriteLock(t) \/ Remove(t)
      PROVE  UNCHANGED <<content, owned>>
  BY <1>5 DEF ReadLock, LookupHit, LookupMiss, RdTest, RdInc, RdFree,
     RdWriting, RdUndo, ChkAddr, WaitLoad, Recheck, ChkType, Unref, WriteLock,
     Claim, SetLock, WaitWriteback, WaitRefs, Locked, Remove, ClLookup,
     ClAddr, ClFree, ClPin, ClUnref
<1>6. ASSUME NEW t \in Thread,
             \/ Unget(t) \/ TryClaim(t) \/ Unclaim(t) \/ Lock(t)
             \/ MarkDirty(t) \/ Unlock(t) \/ BatchFull(t) \/ MoveHand(t)
             \/ SweepDone(t) \/ Verify(t) \/ EvUnlock(t) \/ EvUnclaim(t) \/ EvUnref(t)
             \/ \E e \in Entry : TryEvict(t, e)
             \/ \E b \in Batch : TakeBatch(t, b)
      PROVE  UNCHANGED <<content, owned>>
  BY <1>6 DEF Unget, TryClaim, Unclaim, Lock, MarkDirty, Unlock, BatchFull,
     MoveHand, SweepDone, Verify, EvUnlock, EvUnclaim, EvUnref, TryEvict,
     TakeBatch
<1>7. ASSUME NEW t \in Thread,
             \/ \E e \in Entry : GetFreePage(t, e)
             \/ FrInc(t) \/ FrStatus(t) \/ LdCas(t) \/ LdUnref(t)
             \/ LdAbort(t) \/ LdAddr(t) \/ LdFinish(t) \/ AlAddr(t)
      PROVE  UNCHANGED <<content, owned>>
  BY <1>7 DEF GetFreePage, FrInc, FrStatus, LdCas, LdUnref, LdAbort, LdAddr,
     LdFinish, AlAddr
<1>8. ASSUME NEW e \in Entry, Callback(e) PROVE ContentOK'
  <2>1. io[e] # "none" => ioaddr[e] \in Addr
    BY DEF MappedInv, ContentOK
  <2>2. CASE WriteDone(e)
    BY <2>1, <2>2 DEF ContentOK, WriteDone
  <2>3. CASE WritebackDone(e)
    BY <2>3 DEF ContentOK, WritebackDone
  <2> QED
    BY <1>8, <2>2, <2>3 DEF Callback
<1>9. ASSUME UNCHANGED <<content, owned>> PROVE ContentOK'
  BY <1>9 DEF ContentOK
<1>10. ASSUME NEW t \in Thread, Step(t) PROVE ContentOK'
  <2> HIDE DEF content, owned
  <2> QED
    BY <1>1, <1>2, <1>3, <1>4, <1>5, <1>6, <1>7, <1>9, <1>10
       DEF Step, Holder, Evict, Install
<1> QED
  BY <1>8, <1>10 DEF Next

\* No reference count becomes negative: whoever releases a page is counted.
LEMMA CounterStep ==
    ASSUME ref \in [Entry -> [Stripe -> Nat]], ControlOK, ArgsOK, RefInv, Next
    PROVE  ref' \in [Entry -> [Stripe -> Nat]]
<1>1. ASSUME NEW t \in Thread, pc[t] \in CountedPC, DecRef(t)
      PROVE  ref' \in [Entry -> [Stripe -> Nat]]
  <2>1. ent[t] \in Entry
    BY <1>1 DEF ArgsOK, CountedPC, NoEntryPC
  <2>2. ref[ent[t]][StripeOf(t)] >= 1
    BY <1>1, <2>1, RefPositive
  <2> QED
    BY <1>1, <2>1, <2>2, StripeType DEF DecRef
<1>2. ASSUME NEW t \in Thread, pc[t] \notin NoEntryPC, IncRef(t)
      PROVE  ref' \in [Entry -> [Stripe -> Nat]]
  BY <1>2, StripeType DEF ArgsOK, IncRef
<1>3. ASSUME NEW t \in Thread, Step(t)
      PROVE  \/ ref' = ref
             \/ pc[t] \in CountedPC /\ DecRef(t)
             \/ pc[t] \notin NoEntryPC /\ IncRef(t)
  <2>1. CASE Call(t) \/ ReadLock(t)
    BY <2>1 DEF CountedPC, NoEntryPC, Call, Get, Alloc, Discard, ReadLock,
       LookupHit, LookupMiss, RdTest, RdInc, RdFree, RdWriting, RdUndo,
       ChkAddr, WaitLoad, Recheck, ChkType, Unref
  <2>2. CASE Holder(t) \/ WriteLock(t)
    BY <2>2 DEF CountedPC, Holder, Unget, TryClaim, Unclaim, Lock, MarkDirty,
       Modify, Pin, Unlock, WriteLock, Claim, SetLock, WaitWriteback,
       WaitRefs, Locked
  <2>3. CASE Evict(t) \/ Remove(t)
    BY <2>3 DEF CountedPC, Evict, BatchFull, MoveHand, SweepDone, Verify,
       EvUnlock, EvUnclaim, EvUnref, CleanPage, TryEvict, TakeBatch, Remove,
       ClLookup, ClAddr, ClFree, ClPin, ClUnref
  <2>4. CASE Install(t)
    BY <2>4 DEF CountedPC, NoEntryPC, Install, GetFreePage, FrInc, FrStatus,
       LdCas, LdUnref, LdAbort, LdAddr, LdRead, LdFinish, AlAddr, AlLookup
  <2> QED
    BY <1>3, <2>1, <2>2, <2>3, <2>4 DEF Step
<1>4. ASSUME NEW e \in Entry, Callback(e) PROVE ref' = ref
  BY <1>4 DEF Callback, WriteDone, WritebackDone
<1> QED
  BY <1>1, <1>2, <1>3, <1>4 DEF Next

\* Every step keeps the types.
LEMMA TypeStep ==
    ASSUME TypeOK, LocalInv, RefInv, MappedInv, Next
    PROVE  TypeOK'
<1>1. StatusOK /\ MappingOK /\ ContentOK /\ ControlOK
  BY DEF TypeOK, StatusOK, MappingOK, ContentOK, ControlOK
<1>2. ArgsOK
  BY <1>1 DEF LocalInv, ControlOK, ArgsOK
<1>3. ref' \in [Entry -> [Stripe -> Nat]]
  BY <1>1, <1>2, CounterStep DEF TypeOK
<1>4. StatusOK' /\ MappingOK' /\ ContentOK' /\ ControlOK'
  BY <1>1, <1>2, StatusStep, MappingStep, ContentStep, ControlStep
<1> QED
  BY <1>3, <1>4 DEF TypeOK, StatusOK, MappingOK, ContentOK, ControlOK

-----------------------------------------------------------------------------
(***************************************************************************)
(* IInv: who owns what                                                     *)
(***************************************************************************)

\* The arguments of a call are set exactly while its control state needs
\* them: an entry from the lookup or the free entry on, an address until the
\* call returns, and only a sweep is inside treepass_try_evict.
LEMMA LocalStep ==
    ASSUME TypeOK, LocalInv, Next
    PROVE  LocalInv'
<1>0. /\ pc \in [Thread -> PC]
      /\ ent \in [Thread -> Entry \cup {NONE}]
      /\ addr \in [Thread -> Addr \cup {NONE}]
      /\ op \in [Thread -> {"none", "get", "alloc", "discard"}]
      /\ lookup \in [Addr -> Entry \cup {NONE}]
      /\ evicting \in SUBSET Thread
  BY DEF TypeOK
<1> USE <1>0, NoneAssumption
    DEF LocalInv, NoEntryPC, EvictOnlyPC, EvictPC, GetPC, AllocPC, DiscardPC,
        InstallPC
<1>1. ASSUME NEW t \in Thread, Call(t) PROVE LocalInv'
  BY <1>1 DEF Call, Get, Alloc, Discard
<1>2. ASSUME NEW t \in Thread, ReadLock(t) PROVE LocalInv'
  BY <1>2 DEF ReadLock, LookupHit, LookupMiss, Return, RdTest, RdInc, RdFree,
     RdWriting, RdUndo, ChkAddr, WaitLoad, Recheck, ChkType, Unref
<1>3. ASSUME NEW t \in Thread, Holder(t) PROVE LocalInv'
  BY <1>3 DEF Holder, Unget, Return, TryClaim, SetFlag, Unclaim, ClearFlag,
     Lock, MarkDirty, Modify, Change, Pin, Unlock
<1>4. ASSUME NEW t \in Thread, WriteLock(t) PROVE LocalInv'
  BY <1>4 DEF WriteLock, Claim, SetFlag, SetLock, WaitWriteback, WaitRefs,
     Locked
<1>5. ASSUME NEW t \in Thread, Evict(t) PROVE LocalInv'
  BY <1>5 DEF Evict, BatchFull, MoveHand, SweepDone, Verify, Evictable,
     EvUnlock, ClearFlag, EvUnclaim, EvUnref, CleanPage, StartWriteback,
     SetFlag, TryEvict, TakeBatch
<1>6. ASSUME NEW t \in Thread, Remove(t) PROVE LocalInv'
  BY <1>6 DEF Remove, ClLookup, ClAddr, ClFree, ClPin, ClUnref, Return
<1>7. ASSUME NEW t \in Thread, Install(t) PROVE LocalInv'
  BY <1>7 DEF Install, GetFreePage, FrInc, FrStatus, LdCas, LdUnref, LdAbort,
     LdAddr, LdRead, LdFinish, ClearFlag, AlAddr, AlLookup, Change
<1>8. ASSUME NEW e \in Entry, Callback(e) PROVE LocalInv'
  BY <1>8 DEF Callback, WriteDone, WritebackDone, SetFlag, ClearFlag
<1> QED
  BY <1>1, <1>2, <1>3, <1>4, <1>5, <1>6, <1>7, <1>8 DEF Next, Step

\* The extent protocol of the callers: an address being allocated or
\* discarded is not live and has no other user (allocator, mini allocator).
LEMMA AddrStep ==
    ASSUME TypeOK, LocalInv, AddrInv, Next
    PROVE  AddrInv'
<1>0. /\ pc \in [Thread -> PC]
      /\ addr \in [Thread -> Addr \cup {NONE}]
      /\ op \in [Thread -> {"none", "get", "alloc", "discard"}]
      /\ evicting \in SUBSET Thread
  BY DEF TypeOK
<1> USE <1>0, NoneAssumption
    DEF LocalInv, AddrInv, Unused, GetPC, AllocPC, DiscardPC, InstallPC
<1>1. ASSUME NEW t \in Thread, Call(t) PROVE AddrInv'
  BY <1>1 DEF Call, Get, Alloc, Discard
<1>2. ASSUME NEW t \in Thread, ReadLock(t) PROVE AddrInv'
  BY <1>2 DEF ReadLock, LookupHit, LookupMiss, Return, RdTest, RdInc, RdFree,
     RdWriting, RdUndo, ChkAddr, WaitLoad, Recheck, ChkType, Unref
<1>3. ASSUME NEW t \in Thread, Holder(t) PROVE AddrInv'
  BY <1>3 DEF Holder, Unget, Return, TryClaim, SetFlag, Unclaim, ClearFlag,
     Lock, MarkDirty, Modify, Change, Pin, Unlock
<1>4. ASSUME NEW t \in Thread, WriteLock(t) PROVE AddrInv'
  BY <1>4 DEF WriteLock, Claim, SetFlag, SetLock, WaitWriteback, WaitRefs,
     Locked
<1>5. ASSUME NEW t \in Thread, Evict(t) PROVE AddrInv'
  BY <1>5 DEF Evict, BatchFull, MoveHand, SweepDone, Verify, Evictable,
     EvUnlock, ClearFlag, EvUnclaim, EvUnref, CleanPage, StartWriteback,
     SetFlag, TryEvict, TakeBatch
<1>6. ASSUME NEW t \in Thread, Remove(t) PROVE AddrInv'
  BY <1>6 DEF Remove, ClLookup, ClAddr, ClFree, ClPin, ClUnref, Return
<1>7. ASSUME NEW t \in Thread, Install(t) PROVE AddrInv'
  BY <1>7 DEF Install, GetFreePage, FrInc, FrStatus, LdCas, LdUnref, LdAbort,
     LdAddr, LdRead, LdFinish, ClearFlag, AlAddr, AlLookup, Change
<1>8. ASSUME NEW e \in Entry, Callback(e) PROVE AddrInv'
  BY <1>8 DEF Callback, WriteDone, WritebackDone, SetFlag, ClearFlag
<1> QED
  BY <1>1, <1>2, <1>3, <1>4, <1>5, <1>6, <1>7, <1>8 DEF Next, Step

\* batch_busy gives a batch one owner, and only the owner evicts its pages
\* (treepass_try_evict) or fills its free entries (treepass_get_free_page).
LEMMA BatchStep ==
    ASSUME TypeOK, LocalInv, BatchInv, Next
    PROVE  BatchInv'
<1>0. /\ pc \in [Thread -> PC]
      /\ ent \in [Thread -> Entry \cup {NONE}]
      /\ free_hand \in [Thread -> Batch \cup {NONE}]
      /\ evicting \in SUBSET Thread
  BY DEF TypeOK
<1> USE <1>0, NoneAssumption
    DEF LocalInv, BatchInv, NoEntryPC, EvictOnlyPC, EvictPC, FreshPC, Busy
<1>1. ASSUME NEW t \in Thread, Call(t) PROVE BatchInv'
  BY <1>1 DEF Call, Get, Alloc, Discard
<1>2. ASSUME NEW t \in Thread, ReadLock(t) PROVE BatchInv'
  BY <1>2 DEF ReadLock, LookupHit, LookupMiss, Return, RdTest, RdInc, RdFree,
     RdWriting, RdUndo, ChkAddr, WaitLoad, Recheck, ChkType, Unref
<1>3. ASSUME NEW t \in Thread, Holder(t) PROVE BatchInv'
  BY <1>3 DEF Holder, Unget, Return, TryClaim, SetFlag, Unclaim, ClearFlag,
     Lock, MarkDirty, Modify, Change, Pin, Unlock
<1>4. ASSUME NEW t \in Thread, WriteLock(t) PROVE BatchInv'
  BY <1>4 DEF WriteLock, Claim, SetFlag, SetLock, WaitWriteback, WaitRefs,
     Locked
<1>5. ASSUME NEW t \in Thread, Evict(t) PROVE BatchInv'
  BY <1>5 DEF Evict, BatchFull, MoveHand, SweepDone, Verify, Evictable,
     EvUnlock, ClearFlag, EvUnclaim, EvUnref, CleanPage, StartWriteback,
     SetFlag, TryEvict, TakeBatch
<1>6. ASSUME NEW t \in Thread, Remove(t) PROVE BatchInv'
  BY <1>6 DEF Remove, ClLookup, ClAddr, ClFree, ClPin, ClUnref, Return
<1>7. ASSUME NEW t \in Thread, Install(t) PROVE BatchInv'
  BY <1>7 DEF Install, GetFreePage, FrInc, FrStatus, LdCas, LdUnref, LdAbort,
     LdAddr, LdRead, LdFinish, ClearFlag, AlAddr, AlLookup, Change
<1>8. ASSUME NEW e \in Entry, Callback(e) PROVE BatchInv'
  BY <1>8 DEF Callback, WriteDone, WritebackDone, SetFlag, ClearFlag
<1> QED
  BY <1>1, <1>2, <1>3, <1>4, <1>5, <1>6, <1>7, <1>8 DEF Next, Step

\* The claim flag, set by a fetch-or in treepass_try_get_claim, has one
\* owner, and the write lock is only held under the claim.
LEMMA ClaimStep ==
    ASSUME TypeOK, LocalInv, ClaimInv, FreeInv, FreshInv, Next
    PROVE  ClaimInv'
<1>0. /\ status \in [Entry -> SUBSET Flag]
      /\ pc \in [Thread -> PC]
      /\ ent \in [Thread -> Entry \cup {NONE}]
      /\ evicting \in SUBSET Thread
  BY DEF TypeOK
<1> USE <1>0, NoneAssumption
    DEF LocalInv, ClaimInv, FreeInv, FreshInv, NoEntryPC, EvictOnlyPC,
        EvictPC, ClaimPC, LockPC, FreshPC, PassedPC, Stale, Test, FREE, CLEAN,
        WRITEBACK, LOADING, WRITELOCKED, CLAIMED, FREE_STATUS, ALLOC_STATUS,
        READ_LOADING_STATUS, LOCKED_EVICTABLE_STATUS, EVICTABLE_STATUS
<1>1. ASSUME NEW t \in Thread, Call(t) PROVE ClaimInv'
  BY <1>1 DEF Call, Get, Alloc, Discard
<1>2. ASSUME NEW t \in Thread, ReadLock(t) PROVE ClaimInv'
  BY <1>2 DEF ReadLock, LookupHit, LookupMiss, Return, RdTest, RdInc, RdFree,
     RdWriting, RdUndo, ChkAddr, WaitLoad, Recheck, ChkType, Unref
<1>3. ASSUME NEW t \in Thread, Holder(t) PROVE ClaimInv'
  BY <1>3 DEF Holder, Unget, Return, TryClaim, SetFlag, Unclaim, ClearFlag,
     Lock, MarkDirty, Modify, Change, Pin, Unlock
<1>4. ASSUME NEW t \in Thread, WriteLock(t) PROVE ClaimInv'
  BY <1>4 DEF WriteLock, Claim, SetFlag, SetLock, WaitWriteback, WaitRefs,
     Locked
<1>5. ASSUME NEW t \in Thread, Evict(t) PROVE ClaimInv'
  BY <1>5 DEF Evict, BatchFull, MoveHand, SweepDone, Verify, Evictable,
     EvUnlock, ClearFlag, EvUnclaim, EvUnref, CleanPage, StartWriteback,
     SetFlag, TryEvict, TakeBatch
<1>6. ASSUME NEW t \in Thread, Remove(t) PROVE ClaimInv'
  BY <1>6 DEF Remove, ClLookup, ClAddr, ClFree, ClPin, ClUnref, Return
<1>7. ASSUME NEW t \in Thread, Install(t) PROVE ClaimInv'
  BY <1>7 DEF Install, GetFreePage, FrInc, FrStatus, LdCas, LdUnref, LdAbort,
     LdAddr, LdRead, LdFinish, ClearFlag, AlAddr, AlLookup, Change
<1>8. ASSUME NEW e \in Entry, Callback(e) PROVE ClaimInv'
  BY <1>8 DEF Callback, WriteDone, WritebackDone, SetFlag, ClearFlag
<1> QED
  BY <1>1, <1>2, <1>3, <1>4, <1>5, <1>6, <1>7, <1>8 DEF Next, Step

\* A free entry has no address, and a thread whose read lock was granted on
\* it (the write lock bit was read after the page was freed) finds out.
LEMMA FreeStep ==
    ASSUME TypeOK, LocalInv, AddrInv, BatchInv, ClaimInv, FreeInv, FreshInv,
           ScanInv, ValidInv, Next
    PROVE  FreeInv'
<1>0. /\ status \in [Entry -> SUBSET Flag]
      /\ pc \in [Thread -> PC]
      /\ ent \in [Thread -> Entry \cup {NONE}]
      /\ addr \in [Thread -> Addr \cup {NONE}]
      /\ op \in [Thread -> {"none", "get", "alloc", "discard"}]
      /\ disk_addr \in [Entry -> Addr \cup {NONE}]
      /\ evicting \in SUBSET Thread
      /\ free_hand \in [Thread -> Batch \cup {NONE}]
  BY DEF TypeOK
<1> USE <1>0, NoneAssumption
    DEF LocalInv, AddrInv, BatchInv, ClaimInv, FreeInv, FreshInv, ScanInv,
        ValidInv, NoEntryPC, EvictOnlyPC, EvictPC, ClaimPC, LockPC, FreshPC,
        PassedPC, GetPC, AllocPC, DiscardPC, InstallPC, Stale, Scanned,
        Validated, Test, FREE, CLEAN, WRITEBACK, LOADING, WRITELOCKED,
        CLAIMED, FREE_STATUS, ALLOC_STATUS, READ_LOADING_STATUS,
        LOCKED_EVICTABLE_STATUS, EVICTABLE_STATUS
<1>1. ASSUME NEW t \in Thread, Call(t) PROVE FreeInv'
  BY <1>1 DEF Call, Get, Alloc, Discard
<1>2. ASSUME NEW t \in Thread, ReadLock(t) PROVE FreeInv'
  BY <1>2 DEF ReadLock, LookupHit, LookupMiss, Return, RdTest, RdInc, RdFree,
     RdWriting, RdUndo, ChkAddr, WaitLoad, Recheck, ChkType, Unref
<1>3. ASSUME NEW t \in Thread, Holder(t) PROVE FreeInv'
  BY <1>3 DEF Holder, Unget, Return, TryClaim, SetFlag, Unclaim, ClearFlag,
     Lock, MarkDirty, Modify, Change, Pin, Unlock
<1>4. ASSUME NEW t \in Thread, WriteLock(t) PROVE FreeInv'
  BY <1>4 DEF WriteLock, Claim, SetFlag, SetLock, WaitWriteback, WaitRefs,
     Locked
<1>5. ASSUME NEW t \in Thread, Evict(t) PROVE FreeInv'
  <2>1. CASE BatchFull(t) \/ MoveHand(t) \/ SweepDone(t)
    BY <2>1 DEF BatchFull, MoveHand, SweepDone
  <2>2. CASE Verify(t)
    BY <2>2 DEF Verify, Evictable
  <2>3. CASE EvUnlock(t) \/ EvUnclaim(t) \/ EvUnref(t)
    BY <2>3 DEF EvUnlock, EvUnclaim, EvUnref, ClearFlag
  <2>4. ASSUME NEW e \in Entry, CleanPage(t, e) PROVE FreeInv'
    BY <2>4 DEF CleanPage, StartWriteback, SetFlag
  <2>5. ASSUME NEW e \in Entry, TryEvict(t, e) PROVE FreeInv'
    BY <2>5 DEF TryEvict
  <2>6. ASSUME NEW b \in Batch, TakeBatch(t, b) PROVE FreeInv'
    BY <2>6 DEF TakeBatch
  <2> QED
    BY <1>5, <2>1, <2>2, <2>3, <2>4, <2>5, <2>6 DEF Evict
<1>6. ASSUME NEW t \in Thread, Remove(t) PROVE FreeInv'
  BY <1>6 DEF Remove, ClLookup, ClAddr, ClFree, ClPin, ClUnref, Return
<1>7. ASSUME NEW t \in Thread, Install(t) PROVE FreeInv'
  <2>1. CASE LdAbort(t)
    BY <2>1 DEF LdAbort
  <2>2. ASSUME NEW e \in Entry, GetFreePage(t, e) PROVE FreeInv'
    BY <2>2 DEF GetFreePage
  <2>3. CASE FrStatus(t)
    BY <2>3 DEF FrStatus
  <2>4. CASE \/ FrInc(t) \/ LdCas(t) \/ LdUnref(t) \/ LdAddr(t) \/ LdRead(t)
             \/ LdFinish(t) \/ AlAddr(t) \/ AlLookup(t)
    BY <2>4 DEF FrInc, LdCas, LdUnref, LdAddr, LdRead, LdFinish, ClearFlag,
       AlAddr, AlLookup, Change
  <2> QED
    BY <1>7, <2>1, <2>2, <2>3, <2>4 DEF Install
<1>8. ASSUME NEW e \in Entry, Callback(e) PROVE FreeInv'
  BY <1>8 DEF Callback, WriteDone, WritebackDone, SetFlag, ClearFlag
<1> QED
  BY <1>1, <1>2, <1>3, <1>4, <1>5, <1>6, <1>7, <1>8 DEF Next, Step

\* An entry treepass_get_free_page handed out belongs to one thread until
\* it is published; a late reader of it is stale.
LEMMA FreshStep ==
    ASSUME TypeOK, LocalInv, AddrInv, BatchInv, ClaimInv, FreeInv, FreshInv,
           ScanInv, ValidInv, Next
    PROVE  FreshInv'
<1>0. /\ status \in [Entry -> SUBSET Flag]
      /\ pc \in [Thread -> PC]
      /\ ent \in [Thread -> Entry \cup {NONE}]
      /\ addr \in [Thread -> Addr \cup {NONE}]
      /\ op \in [Thread -> {"none", "get", "alloc", "discard"}]
      /\ disk_addr \in [Entry -> Addr \cup {NONE}]
      /\ evicting \in SUBSET Thread
      /\ free_hand \in [Thread -> Batch \cup {NONE}]
  BY DEF TypeOK
<1> USE <1>0, NoneAssumption, EntryAssumption
    DEF LocalInv, AddrInv, BatchInv, ClaimInv, FreeInv, FreshInv, ScanInv,
        ValidInv, NoEntryPC, EvictOnlyPC, EvictPC, ClaimPC, LockPC, FreshPC,
        PassedPC, GetPC, AllocPC, DiscardPC, InstallPC, Stale, Scanned,
        Validated, Test, FREE, CLEAN, WRITEBACK, LOADING, WRITELOCKED,
        CLAIMED, FREE_STATUS, ALLOC_STATUS, READ_LOADING_STATUS,
        LOCKED_EVICTABLE_STATUS, EVICTABLE_STATUS
<1>1. ASSUME NEW t \in Thread, Call(t) PROVE FreshInv'
  BY <1>1 DEF Call, Get, Alloc, Discard
<1>2. ASSUME NEW t \in Thread, ReadLock(t) PROVE FreshInv'
  <2>1. CASE RdWriting(t)
    BY <2>1 DEF RdWriting
  <2>2. CASE \/ LookupHit(t) \/ LookupMiss(t) \/ RdTest(t) \/ RdInc(t)
             \/ RdFree(t) \/ RdUndo(t) \/ ChkAddr(t) \/ WaitLoad(t)
             \/ Recheck(t) \/ ChkType(t) \/ Unref(t)
    BY <2>2 DEF LookupHit, LookupMiss, Return, RdTest, RdInc, RdFree, RdUndo,
       ChkAddr, WaitLoad, Recheck, ChkType, Unref
  <2> QED
    BY <1>2, <2>1, <2>2 DEF ReadLock
<1>3. ASSUME NEW t \in Thread, Holder(t) PROVE FreshInv'
  BY <1>3 DEF Holder, Unget, Return, TryClaim, SetFlag, Unclaim, ClearFlag,
     Lock, MarkDirty, Modify, Change, Pin, Unlock
<1>4. ASSUME NEW t \in Thread, WriteLock(t) PROVE FreshInv'
  BY <1>4 DEF WriteLock, Claim, SetFlag, SetLock, WaitWriteback, WaitRefs,
     Locked
<1>5. ASSUME NEW t \in Thread, Evict(t) PROVE FreshInv'
  BY <1>5 DEF Evict, BatchFull, MoveHand, SweepDone, Verify, Evictable,
     EvUnlock, ClearFlag, EvUnclaim, EvUnref, CleanPage, StartWriteback,
     SetFlag, TryEvict, TakeBatch
<1>6. ASSUME NEW t \in Thread, Remove(t) PROVE FreshInv'
  BY <1>6 DEF Remove, ClLookup, ClAddr, ClFree, ClPin, ClUnref, Return
<1>7. ASSUME NEW t \in Thread, Install(t) PROVE FreshInv'
  <2>1. ASSUME NEW e \in Entry, GetFreePage(t, e) PROVE FreshInv'
    BY <2>1 DEF GetFreePage
  <2>2. CASE \/ FrInc(t) \/ FrStatus(t) \/ LdCas(t) \/ LdUnref(t)
             \/ LdAbort(t) \/ LdAddr(t) \/ LdRead(t) \/ LdFinish(t)
             \/ AlAddr(t) \/ AlLookup(t)
    <3>1. CASE FrInc(t) \/ FrStatus(t)
      BY <3>1 DEF FrInc, FrStatus
    <3>2. CASE LdCas(t) \/ LdUnref(t) \/ LdAbort(t)
      BY <3>2 DEF LdCas, LdUnref, LdAbort
    <3>3. CASE LdAddr(t) \/ LdRead(t) \/ LdFinish(t)
      BY <3>3 DEF LdAddr, LdRead, LdFinish, ClearFlag
    <3>4. CASE AlAddr(t) \/ AlLookup(t)
      BY <3>4 DEF AlAddr, AlLookup, Change
    <3> QED
      BY <2>2, <3>1, <3>2, <3>3, <3>4
  <2> QED
    BY <1>7, <2>1, <2>2 DEF Install
<1>8. ASSUME NEW e \in Entry, Callback(e) PROVE FreshInv'
  BY <1>8 DEF Callback, WriteDone, WritebackDone, SetFlag, ClearFlag
<1> QED
  BY <1>1, <1>2, <1>3, <1>4, <1>5, <1>6, <1>7, <1>8 DEF Next, Step

\* The address a caller checked in treepass_get_in_cache or in
\* treepass_try_page_discard stays the address of its entry.
LEMMA ValidStep ==
    ASSUME TypeOK, LocalInv, AddrInv, BatchInv, ClaimInv, FreeInv, FreshInv,
           ScanInv, ValidInv, Next
    PROVE  ValidInv'
<1>0. /\ status \in [Entry -> SUBSET Flag]
      /\ pc \in [Thread -> PC]
      /\ ent \in [Thread -> Entry \cup {NONE}]
      /\ addr \in [Thread -> Addr \cup {NONE}]
      /\ op \in [Thread -> {"none", "get", "alloc", "discard"}]
      /\ disk_addr \in [Entry -> Addr \cup {NONE}]
      /\ evicting \in SUBSET Thread
      /\ free_hand \in [Thread -> Batch \cup {NONE}]
  BY DEF TypeOK
<1> USE <1>0, NoneAssumption
    DEF LocalInv, AddrInv, BatchInv, ClaimInv, FreeInv, FreshInv, ScanInv,
        ValidInv, NoEntryPC, EvictOnlyPC, EvictPC, ClaimPC, LockPC, FreshPC,
        PassedPC, GetPC, AllocPC, DiscardPC, InstallPC, Stale, Scanned,
        Validated, Test, FREE, CLEAN, WRITEBACK, LOADING, WRITELOCKED,
        CLAIMED, FREE_STATUS, ALLOC_STATUS, READ_LOADING_STATUS,
        LOCKED_EVICTABLE_STATUS, EVICTABLE_STATUS
<1>1. ASSUME NEW t \in Thread, Call(t) PROVE ValidInv'
  BY <1>1 DEF Call, Get, Alloc, Discard
<1>2. ASSUME NEW t \in Thread, ReadLock(t) PROVE ValidInv'
  BY <1>2 DEF ReadLock, LookupHit, LookupMiss, Return, RdTest, RdInc, RdFree,
     RdWriting, RdUndo, ChkAddr, WaitLoad, Recheck, ChkType, Unref
<1>3. ASSUME NEW t \in Thread, Holder(t) PROVE ValidInv'
  BY <1>3 DEF Holder, Unget, Return, TryClaim, SetFlag, Unclaim, ClearFlag,
     Lock, MarkDirty, Modify, Change, Pin, Unlock
<1>4. ASSUME NEW t \in Thread, WriteLock(t) PROVE ValidInv'
  BY <1>4 DEF WriteLock, Claim, SetFlag, SetLock, WaitWriteback, WaitRefs,
     Locked
<1>5. ASSUME NEW t \in Thread, Evict(t) PROVE ValidInv'
  BY <1>5 DEF Evict, BatchFull, MoveHand, SweepDone, Verify, Evictable,
     EvUnlock, ClearFlag, EvUnclaim, EvUnref, CleanPage, StartWriteback,
     SetFlag, TryEvict, TakeBatch
<1>6. ASSUME NEW t \in Thread, Remove(t) PROVE ValidInv'
  BY <1>6 DEF Remove, ClLookup, ClAddr, ClFree, ClPin, ClUnref, Return
<1>7. ASSUME NEW t \in Thread, Install(t) PROVE ValidInv'
  BY <1>7 DEF Install, GetFreePage, FrInc, FrStatus, LdCas, LdUnref, LdAbort,
     LdAddr, LdRead, LdFinish, ClearFlag, AlAddr, AlLookup, Change
<1>8. ASSUME NEW e \in Entry, Callback(e) PROVE ValidInv'
  BY <1>8 DEF Callback, WriteDone, WritebackDone, SetFlag, ClearFlag
<1> QED
  BY <1>1, <1>2, <1>3, <1>4, <1>5, <1>6, <1>7, <1>8 DEF Next, Step

\* The loading flag has one owner, the thread that reads the page from disk
\* (treepass_acquire_entry_for_load to treepass_finish_load).
LEMMA LoadStep ==
    ASSUME TypeOK, LocalInv, ClaimInv, FreeInv, FreshInv, ScanInv, LoadInv,
           Next
    PROVE  LoadInv'
<1>0. /\ status \in [Entry -> SUBSET Flag]
      /\ pc \in [Thread -> PC]
      /\ ent \in [Thread -> Entry \cup {NONE}]
      /\ op \in [Thread -> {"none", "get", "alloc", "discard"}]
      /\ evicting \in SUBSET Thread
  BY DEF TypeOK
<1> USE <1>0, NoneAssumption
    DEF LocalInv, ClaimInv, FreeInv, FreshInv, ScanInv, LoadInv, Stale,
        Scanned, NoEntryPC, EvictOnlyPC, EvictPC, ClaimPC, LockPC, FreshPC,
        PassedPC, GetPC, AllocPC, DiscardPC, InstallPC, LoadPC, Test, FREE,
        CLEAN, WRITEBACK, LOADING, WRITELOCKED, CLAIMED, FREE_STATUS,
        ALLOC_STATUS, READ_LOADING_STATUS
<1>1. ASSUME NEW t \in Thread, Call(t) PROVE LoadInv'
  BY <1>1 DEF Call, Get, Alloc, Discard
<1>2. ASSUME NEW t \in Thread, ReadLock(t) PROVE LoadInv'
  BY <1>2 DEF ReadLock, LookupHit, LookupMiss, Return, RdTest, RdInc, RdFree,
     RdWriting, RdUndo, ChkAddr, WaitLoad, Recheck, ChkType, Unref
<1>3. ASSUME NEW t \in Thread, Holder(t) PROVE LoadInv'
  BY <1>3 DEF Holder, Unget, Return, TryClaim, SetFlag, Unclaim, ClearFlag,
     Lock, MarkDirty, Modify, Change, Pin, Unlock
<1>4. ASSUME NEW t \in Thread, WriteLock(t) PROVE LoadInv'
  BY <1>4 DEF WriteLock, Claim, SetFlag, SetLock, WaitWriteback, WaitRefs,
     Locked
<1>5. ASSUME NEW t \in Thread, Evict(t) PROVE LoadInv'
  BY <1>5 DEF Evict, BatchFull, MoveHand, SweepDone, Verify, Evictable,
     EvUnlock, ClearFlag, EvUnclaim, EvUnref, CleanPage, StartWriteback,
     SetFlag, TryEvict, TakeBatch
<1>6. ASSUME NEW t \in Thread, Remove(t) PROVE LoadInv'
  BY <1>6 DEF Remove, ClLookup, ClAddr, ClFree, ClPin, ClUnref, Return
<1>7. ASSUME NEW t \in Thread, Install(t) PROVE LoadInv'
  BY <1>7 DEF Install, GetFreePage, FrInc, FrStatus, LdCas, LdUnref, LdAbort,
     LdAddr, LdRead, LdFinish, ClearFlag, AlAddr, AlLookup, Change
<1>8. ASSUME NEW e \in Entry, Callback(e) PROVE LoadInv'
  BY <1>8 DEF Callback, WriteDone, WritebackDone, SetFlag, ClearFlag
<1> QED
  BY <1>1, <1>2, <1>3, <1>4, <1>5, <1>6, <1>7, <1>8 DEF Next, Step

\* An entry that is in use has an address, so treepass_try_set_writeback
\* never issues a write to TP_UNMAPPED_ADDR.
LEMMA MappedStep ==
    ASSUME TypeOK, LocalInv, ClaimInv, FreeInv, FreshInv, ScanInv, ValidInv,
           LoadInv, MappedInv, Next
    PROVE  MappedInv'
<1>0. /\ status \in [Entry -> SUBSET Flag]
      /\ pc \in [Thread -> PC]
      /\ ent \in [Thread -> Entry \cup {NONE}]
      /\ op \in [Thread -> {"none", "get", "alloc", "discard"}]
      /\ addr \in [Thread -> Addr \cup {NONE}]
      /\ evicting \in SUBSET Thread
      /\ disk_addr \in [Entry -> Addr \cup {NONE}]
      /\ io \in [Entry -> {"none", "issued", "cleaned"}]
      /\ ioaddr \in [Entry -> Addr \cup {NONE}]
  BY DEF TypeOK
<1> USE <1>0, NoneAssumption
    DEF LocalInv, ClaimInv, FreeInv, FreshInv, ScanInv, ValidInv, LoadInv,
        MappedInv, Stale, Scanned, Validated, NoEntryPC, EvictOnlyPC, EvictPC,
        ClaimPC, LockPC, FreshPC, PassedPC, GetPC, AllocPC, DiscardPC,
        InstallPC, LoadPC, Cleanable, Test, FREE, CLEAN, WRITEBACK, LOADING,
        WRITELOCKED, CLAIMED, FREE_STATUS, ALLOC_STATUS, READ_LOADING_STATUS
<1>1. ASSUME NEW t \in Thread, Call(t) PROVE MappedInv'
  BY <1>1 DEF Call, Get, Alloc, Discard
<1>2. ASSUME NEW t \in Thread, ReadLock(t) PROVE MappedInv'
  BY <1>2 DEF ReadLock, LookupHit, LookupMiss, Return, RdTest, RdInc, RdFree,
     RdWriting, RdUndo, ChkAddr, WaitLoad, Recheck, ChkType, Unref
<1>3. ASSUME NEW t \in Thread, Holder(t) PROVE MappedInv'
  BY <1>3 DEF Holder, Unget, Return, TryClaim, SetFlag, Unclaim, ClearFlag,
     Lock, MarkDirty, Modify, Change, Pin, Unlock
<1>4. ASSUME NEW t \in Thread, WriteLock(t) PROVE MappedInv'
  BY <1>4 DEF WriteLock, Claim, SetFlag, SetLock, WaitWriteback, WaitRefs,
     Locked
<1>5. ASSUME NEW t \in Thread, Evict(t) PROVE MappedInv'
  <2>1. ASSUME NEW e \in Entry, CleanPage(t, e) PROVE MappedInv'
    BY <2>1 DEF CleanPage, StartWriteback, SetFlag
  <2>2. CASE \/ BatchFull(t) \/ MoveHand(t) \/ SweepDone(t) \/ Verify(t)
             \/ EvUnlock(t) \/ EvUnclaim(t) \/ EvUnref(t)
             \/ (\E e \in Entry : TryEvict(t, e))
             \/ (\E b \in Batch : TakeBatch(t, b))
    BY <2>2 DEF BatchFull, MoveHand, SweepDone, Verify, Evictable, EvUnlock,
       ClearFlag, EvUnclaim, EvUnref, TryEvict, TakeBatch
  <2> QED
    BY <1>5, <2>1, <2>2 DEF Evict
<1>6. ASSUME NEW t \in Thread, Remove(t) PROVE MappedInv'
  BY <1>6 DEF Remove, ClLookup, ClAddr, ClFree, ClPin, ClUnref, Return
<1>7. ASSUME NEW t \in Thread, Install(t) PROVE MappedInv'
  <2>1. ASSUME NEW e \in Entry, GetFreePage(t, e) PROVE MappedInv'
    BY <2>1 DEF GetFreePage
  <2>2. CASE FrStatus(t)
    BY <2>2 DEF FrStatus
  <2>3. CASE LdAbort(t)
    BY <2>3 DEF LdAbort
  <2>4. CASE \/ FrInc(t) \/ LdCas(t) \/ LdUnref(t) \/ LdAddr(t) \/ LdRead(t)
             \/ LdFinish(t) \/ AlAddr(t) \/ AlLookup(t)
    BY <2>4 DEF FrInc, LdCas, LdUnref, LdAddr, LdRead, LdFinish, ClearFlag,
       AlAddr, AlLookup, Change
  <2> QED
    BY <1>7, <2>1, <2>2, <2>3, <2>4 DEF Install
<1>8. ASSUME NEW e \in Entry, Callback(e) PROVE MappedInv'
  BY <1>8 DEF Callback, WriteDone, WritebackDone, SetFlag, ClearFlag
<1> QED
  BY <1>1, <1>2, <1>3, <1>4, <1>5, <1>6, <1>7, <1>8 DEF Next, Step

\* treepass_try_page_discard leaves no lookup behind: an address that is
\* not allocated is unmapped unless its discard is still under way.
LEMMA DeadStep ==
    ASSUME TypeOK, LocalInv, AddrInv, DeadInv, Next
    PROVE  DeadInv'
<1>0. /\ pc \in [Thread -> PC]
      /\ ent \in [Thread -> Entry \cup {NONE}]
      /\ op \in [Thread -> {"none", "get", "alloc", "discard"}]
      /\ addr \in [Thread -> Addr \cup {NONE}]
      /\ evicting \in SUBSET Thread
      /\ lookup \in [Addr -> Entry \cup {NONE}]
      /\ live \in SUBSET Addr
  BY DEF TypeOK
<1> USE <1>0, NoneAssumption
    DEF LocalInv, AddrInv, DeadInv, Unused, NoEntryPC, EvictOnlyPC, EvictPC,
        ClaimPC, LockPC, FreshPC, PassedPC, GetPC, AllocPC, DiscardPC,
        InstallPC
<1>1. ASSUME NEW t \in Thread, Call(t) PROVE DeadInv'
  BY <1>1 DEF Call, Get, Alloc, Discard
<1>2. ASSUME NEW t \in Thread, ReadLock(t) PROVE DeadInv'
  BY <1>2 DEF ReadLock, LookupHit, LookupMiss, Return, RdTest, RdInc, RdFree,
     RdWriting, RdUndo, ChkAddr, WaitLoad, Recheck, ChkType, Unref
<1>3. ASSUME NEW t \in Thread, Holder(t) PROVE DeadInv'
  BY <1>3 DEF Holder, Unget, Return, TryClaim, SetFlag, Unclaim, ClearFlag,
     Lock, MarkDirty, Modify, Change, Pin, Unlock
<1>4. ASSUME NEW t \in Thread, WriteLock(t) PROVE DeadInv'
  BY <1>4 DEF WriteLock, Claim, SetFlag, SetLock, WaitWriteback, WaitRefs,
     Locked
<1>5. ASSUME NEW t \in Thread, Evict(t) PROVE DeadInv'
  BY <1>5 DEF Evict, BatchFull, MoveHand, SweepDone, Verify, Evictable,
     EvUnlock, ClearFlag, EvUnclaim, EvUnref, CleanPage, StartWriteback,
     SetFlag, TryEvict, TakeBatch
<1>6. ASSUME NEW t \in Thread, Remove(t) PROVE DeadInv'
  BY <1>6 DEF Remove, ClLookup, ClAddr, ClFree, ClPin, ClUnref, Return
<1>7. ASSUME NEW t \in Thread, Install(t) PROVE DeadInv'
  <2>1. CASE AlLookup(t)
    BY <2>1 DEF AlLookup, Change
  <2>2. CASE \/ (\E e \in Entry : GetFreePage(t, e)) \/ FrInc(t)
             \/ FrStatus(t) \/ LdCas(t) \/ LdUnref(t) \/ LdAbort(t)
             \/ LdAddr(t) \/ LdRead(t) \/ LdFinish(t) \/ AlAddr(t)
    BY <2>2 DEF GetFreePage, FrInc, FrStatus, LdCas, LdUnref, LdAbort, LdAddr,
       LdRead, LdFinish, ClearFlag, AlAddr
  <2> QED
    BY <1>7, <2>1, <2>2 DEF Install
<1>8. ASSUME NEW e \in Entry, Callback(e) PROVE DeadInv'
  BY <1>8 DEF Callback, WriteDone, WritebackDone, SetFlag, ClearFlag
<1> QED
  BY <1>1, <1>2, <1>3, <1>4, <1>5, <1>6, <1>7, <1>8 DEF Next, Step

\* The increments of treepass_try_get_read and treepass_get_free_page and
\* the decrements of every release pair up: each counter is the number of
\* the threads of its stripe that hold the entry.
LEMMA RefStep ==
    ASSUME TypeOK, LocalInv, RefInv, Next
    PROVE  RefInv'
<1>0. /\ pc \in [Thread -> PC]
      /\ ent \in [Thread -> Entry \cup {NONE}]
      /\ ref \in [Entry -> [Stripe -> Nat]]
      /\ evicting \in SUBSET Thread
  BY DEF TypeOK
<1> DEFINE HeldAlike == \A u \in Thread, e \in Entry :
                            Holds(u, e)' <=> Holds(u, e)
           OthersAlike(t) == \A u \in Thread \ {t}, e \in Entry :
                                Holds(u, e)' <=> Holds(u, e)
<1>1. ASSUME NEW t \in Thread,
             RdInc(t) \/ FrInc(t)
      PROVE  RefInv'
  <2>1. ent[t] \in Entry /\ ref' = [ref EXCEPT ![ent[t]][StripeOf(t)] = @ + 1]
    BY <1>0, <1>1 DEF RdInc, FrInc, IncRef, LocalInv, NoEntryPC
  <2>2. /\ \A x \in Entry : ~Holds(t, x)
        /\ Holds(t, ent[t])'
        /\ OthersAlike(t)
    BY <1>0, <1>1 DEF RdInc, FrInc, Holds, CountedPC
  <2>3. ent' = ent
    BY <1>1 DEF RdInc, FrInc
  <2> QED
    BY <1>0, <2>1, <2>2, <2>3, RefRaised
<1>2. ASSUME NEW t \in Thread,
             \/ RdUndo(t) \/ Unref(t) \/ Unget(t) \/ ClUnref(t)
             \/ EvUnref(t) \/ LdUnref(t)
      PROVE  RefInv'
  <2>1. ent[t] \in Entry /\ ref' = [ref EXCEPT ![ent[t]][StripeOf(t)] = @ - 1]
    BY <1>0, <1>2 DEF RdUndo, Unref, Unget, ClUnref, EvUnref, LdUnref, DecRef,
       LocalInv, NoEntryPC
  <2>2. /\ Holds(t, ent[t])
        /\ \A x \in Entry : ~Holds(t, x)'
        /\ OthersAlike(t)
    BY <1>0, <1>2, NoneAssumption
       DEF RdUndo, Unref, Unget, ClUnref, EvUnref, LdUnref, Return, Holds,
           CountedPC
  <2> QED
    BY <1>0, <2>1, <2>2, RefLowered
<1>3. ASSUME NEW t \in Thread, Call(t) PROVE ref' = ref /\ HeldAlike
  BY <1>0, <1>3 DEF Call, Get, Alloc, Discard, Holds, CountedPC
<1>4. ASSUME NEW t \in Thread,
             \/ LookupHit(t) \/ LookupMiss(t) \/ RdTest(t) \/ RdFree(t)
             \/ RdWriting(t) \/ ChkAddr(t) \/ WaitLoad(t) \/ Recheck(t)
             \/ ChkType(t)
      PROVE  ref' = ref /\ HeldAlike
  BY <1>0, <1>4 DEF LookupHit, LookupMiss, Return, RdTest, RdFree, RdWriting,
     ChkAddr, WaitLoad, Recheck, ChkType, Holds, CountedPC
<1>5. ASSUME NEW t \in Thread,
             \/ TryClaim(t) \/ Unclaim(t) \/ Lock(t) \/ MarkDirty(t)
             \/ Modify(t) \/ Pin(t) \/ Unlock(t) \/ WriteLock(t)
      PROVE  ref' = ref /\ HeldAlike
  BY <1>0, <1>5 DEF TryClaim, Unclaim, Lock, MarkDirty, Modify, Pin, Unlock,
     WriteLock, Claim, SetLock, WaitWriteback, WaitRefs, Locked, Holds,
     CountedPC
<1>6. ASSUME NEW t \in Thread,
             \/ BatchFull(t) \/ MoveHand(t) \/ SweepDone(t) \/ Verify(t)
             \/ EvUnlock(t) \/ EvUnclaim(t)
             \/ \E e \in Entry : CleanPage(t, e) \/ TryEvict(t, e)
             \/ \E b \in Batch : TakeBatch(t, b)
      PROVE  ref' = ref /\ HeldAlike
  BY <1>0, <1>6 DEF BatchFull, MoveHand, SweepDone, Verify, EvUnlock,
     EvUnclaim, CleanPage, TryEvict, TakeBatch, Holds, CountedPC
<1>7. ASSUME NEW t \in Thread,
             \/ ClLookup(t) \/ ClAddr(t) \/ ClFree(t) \/ ClPin(t)
             \/ \E e \in Entry : GetFreePage(t, e)
             \/ FrStatus(t) \/ LdCas(t) \/ LdAbort(t) \/ LdAddr(t)
             \/ LdRead(t) \/ LdFinish(t) \/ AlAddr(t) \/ AlLookup(t)
      PROVE  ref' = ref /\ HeldAlike
  BY <1>0, <1>7 DEF ClLookup, ClAddr, ClFree, ClPin, GetFreePage, FrStatus,
     LdCas, LdAbort, LdAddr, LdRead, LdFinish, AlAddr, AlLookup, Holds,
     CountedPC
<1>8. ASSUME NEW e \in Entry, Callback(e) PROVE ref' = ref /\ HeldAlike
  BY <1>8 DEF Callback, WriteDone, WritebackDone, Holds
<1>9. ASSUME ref' = ref /\ HeldAlike PROVE RefInv'
  BY <1>9, RefSame
<1>10. ASSUME NEW t \in Thread, Step(t) PROVE RefInv'
  <2> HIDE DEF HeldAlike
  <2> QED
    BY <1>1, <1>2, <1>3, <1>4, <1>5, <1>6, <1>7, <1>9, <1>10
       DEF Step, ReadLock, Holder, Evict, Remove, Install
<1> QED
  BY <1>8, <1>9, <1>10 DEF Next

\* Once the scan of treepass_get_write or treepass_try_get_write has passed
\* a stripe, no thread of that stripe can obtain a read lock that counts.
LEMMA ScanStep ==
    ASSUME TypeOK, LocalInv, AddrInv, BatchInv, RefInv, ClaimInv, FreeInv,
           FreshInv, ScanInv, ValidInv, Next
    PROVE  ScanInv'
<1>0. /\ status \in [Entry -> SUBSET Flag]
      /\ pc \in [Thread -> PC]
      /\ ent \in [Thread -> Entry \cup {NONE}]
      /\ addr \in [Thread -> Addr \cup {NONE}]
      /\ op \in [Thread -> {"none", "get", "alloc", "discard"}]
      /\ disk_addr \in [Entry -> Addr \cup {NONE}]
      /\ evicting \in SUBSET Thread
      /\ scan \in [Thread -> 0 .. RCWidth]
      /\ \A t \in Thread : StripeOf(t) \in 0 .. (RCWidth - 1)
      /\ RCWidth \in Nat
  BY StripeType, WidthAssumption DEF TypeOK, Stripe
<1> USE NoneAssumption
    DEF LocalInv, ClaimInv, FreeInv, FreshInv, ScanInv, ValidInv, NoEntryPC,
        EvictOnlyPC, EvictPC, ClaimPC, LockPC, FreshPC, PassedPC, GetPC,
        AllocPC, DiscardPC, InstallPC, Stale, Scanned, Validated, Test, FREE,
        CLEAN, WRITEBACK, LOADING, WRITELOCKED, CLAIMED, FREE_STATUS,
        ALLOC_STATUS, READ_LOADING_STATUS
<1>1. ASSUME NEW t \in Thread, Call(t) PROVE ScanInv'
  BY <1>0, <1>1 DEF Call, Get, Alloc, Discard
<1>2. ASSUME NEW t \in Thread, ReadLock(t) PROVE ScanInv'
  BY <1>0, <1>2 DEF ReadLock, LookupHit, LookupMiss, Return, RdTest, RdInc,
     IncRef, RdFree, RdWriting, RdUndo, DecRef, ChkAddr, WaitLoad, Recheck,
     ChkType, Unref
<1>3. ASSUME NEW t \in Thread, Holder(t) PROVE ScanInv'
  BY <1>0, <1>3 DEF Holder, Unget, Return, DecRef, TryClaim, SetFlag, Unclaim,
     ClearFlag, Lock, MarkDirty, Modify, Change, Pin, Unlock
<1>4. ASSUME NEW t \in Thread, WriteLock(t) PROVE ScanInv'
  <2>1. CASE Claim(t) \/ SetLock(t)
    BY <1>0, <2>1 DEF Claim, SetLock
  <2>2. CASE WaitWriteback(t)
    BY <1>0, <2>2 DEF WaitWriteback
  <2>3. CASE WaitRefs(t)
    <3>1. CASE StripeQuiet(t, scan[t])
      <4>1. /\ pc' = pc /\ ent' = ent /\ op' = op /\ addr' = addr
            /\ disk_addr' = disk_addr /\ evicting' = evicting
            /\ scan' = [scan EXCEPT ![t] = @ + 1]
            /\ pc[t] = "wait_refs"
        BY <2>3, <3>1 DEF WaitRefs
      <4>2. ASSUME NEW u \in Thread, u # t, ent[u] = ent[t],
                   StripeOf(u) = scan[t]
            PROVE  pc[u] \notin PassedPC
        <5>1. ent[t] \in Entry /\ pc[t] \in CountedPC
          BY <1>0, <4>1 DEF CountedPC
        <5>2. PassedPC \subseteq CountedPC
          BY DEF CountedPC
        <5> QED
          BY <3>1, <4>2, <5>1, <5>2, QuietStripe
      <4>3. \A x \in Thread : x # t => scan'[x] = scan[x]
        BY <1>0, <4>1
      <4>4. \A u \in Thread : scan'[t] > StripeOf(u) =>
                                scan[t] > StripeOf(u) \/ scan[t] = StripeOf(u)
        BY <1>0, <4>1
      <4> QED
        BY <1>0, <4>1, <4>2, <4>3, <4>4
    <3>2. CASE ~StripeQuiet(t, scan[t])
      BY <1>0, <2>3, <3>2 DEF WaitRefs
    <3> QED
      BY <3>1, <3>2
  <2>4. CASE Locked(t)
    <3>1. \A u \in Thread : scan[t] > StripeOf(u)
      BY <1>0, <2>4 DEF Locked
    <3> QED
      BY <1>0, <2>4, <3>1 DEF Locked
  <2> QED
    BY <1>4, <2>1, <2>2, <2>3, <2>4 DEF WriteLock
<1>5. ASSUME NEW t \in Thread, Evict(t) PROVE ScanInv'
  BY <1>0, <1>5 DEF Evict, BatchFull, MoveHand, SweepDone, Verify, Evictable,
     EvUnlock, ClearFlag, EvUnclaim, EvUnref, DecRef, CleanPage,
     StartWriteback, Cleanable, SetFlag, TryEvict, TakeBatch
<1>6. ASSUME NEW t \in Thread, Remove(t) PROVE ScanInv'
  BY <1>0, <1>6 DEF Remove, ClLookup, ClAddr, ClFree, ClPin, ClUnref, Return,
     DecRef
<1>7. ASSUME NEW t \in Thread, Install(t) PROVE ScanInv'
  BY <1>0, <1>7 DEF Install, GetFreePage, FrInc, IncRef, FrStatus, LdCas,
     LdUnref, DecRef, LdAbort, LdAddr, LdRead, LdFinish, ClearFlag, AlAddr,
     AlLookup, Change
<1>8. ASSUME NEW e \in Entry, Callback(e) PROVE ScanInv'
  BY <1>0, <1>8 DEF Callback, WriteDone, WritebackDone, SetFlag, ClearFlag
<1> QED
  BY <1>1, <1>2, <1>3, <1>4, <1>5, <1>6, <1>7, <1>8 DEF Next, Step

MapPC == {"ld_cas", "ld_addr", "al_addr", "al_lookup", "cl_addr"}

\* A step that leaves alone the mapping and the threads that change it.
LEMMA MapFrame ==
    ASSUME MapInv, UNCHANGED mapping,
           \A u \in Thread : pc[u] \in MapPC \/ pc'[u] \in MapPC =>
              pc'[u] = pc[u] /\ ent'[u] = ent[u] /\ addr'[u] = addr[u]
    PROVE  MapInv'
<1>1. \A e \in Entry : Transit(e)' <=> Transit(e)
  BY DEF Transit, MapPC
<1> QED
  BY <1>1 DEF MapInv, MapPC

\* The lookup table and the addresses of the entries agree while eviction,
\* discard, loads and allocations change them in separate stores.
LEMMA MapStep ==
    ASSUME TypeOK, LocalInv, AddrInv, ClaimInv, FreeInv, FreshInv, ScanInv,
           ValidInv, MapInv, DeadInv, Next
    PROVE  MapInv'
<1>0. /\ status \in [Entry -> SUBSET Flag]
      /\ pc \in [Thread -> PC]
      /\ ent \in [Thread -> Entry \cup {NONE}]
      /\ op \in [Thread -> {"none", "get", "alloc", "discard"}]
      /\ addr \in [Thread -> Addr \cup {NONE}]
      /\ evicting \in SUBSET Thread
      /\ disk_addr \in [Entry -> Addr \cup {NONE}]
      /\ type \in [Entry -> PageType \cup {NONE}]
      /\ lookup \in [Addr -> Entry \cup {NONE}]
  BY DEF TypeOK
<1>1. ASSUME NEW t \in Thread, Call(t) \/ ReadLock(t) PROVE MapInv'
  BY <1>0, <1>1, MapFrame DEF MapPC, Call, Get, Alloc, Discard, ReadLock,
     LookupHit, LookupMiss, Return, RdTest, RdInc, RdFree, RdWriting, RdUndo,
     ChkAddr, WaitLoad, Recheck, ChkType, Unref
<1>2. ASSUME NEW t \in Thread, Holder(t) \/ WriteLock(t) PROVE MapInv'
  BY <1>0, <1>2, MapFrame DEF MapPC, Holder, Unget, Return, TryClaim, Unclaim,
     Lock, MarkDirty, Modify, Pin, Unlock, WriteLock, Claim, SetLock,
     WaitWriteback, WaitRefs, Locked
<1>3. ASSUME NEW t \in Thread, Evict(t) PROVE MapInv'
  BY <1>0, <1>3, MapFrame DEF MapPC, Evict, BatchFull, MoveHand, SweepDone,
     Verify, EvUnlock, EvUnclaim, EvUnref, CleanPage, TryEvict, TakeBatch
<1>4. ASSUME NEW e \in Entry, Callback(e) PROVE MapInv'
  BY <1>4, MapFrame DEF Callback, WriteDone, WritebackDone
<1>5. ASSUME NEW t \in Thread, LdCas(t) PROVE MapInv'
  <2>1. ent[t] \in Entry /\ addr[t] \in Addr /\ disk_addr[ent[t]] = NONE
    BY <1>0, <1>5 DEF LdCas, LocalInv, NoEntryPC, FreshInv, FreshPC
  <2>2. CASE lookup[addr[t]] = NONE
    <3>1. /\ lookup' = [lookup EXCEPT ![addr[t]] = ent[t]]
          /\ pc' = [pc EXCEPT ![t] = "ld_addr"] /\ pc[t] = "ld_cas"
          /\ UNCHANGED <<disk_addr, type, ent, addr>>
      BY <1>5, <2>2 DEF LdCas
    <3>2. \A e \in Entry : Transit(e)' <=> Transit(e)
      BY <1>0, <3>1 DEF Transit
    <3>3. \A u \in Thread :
            pc'[u] = "cl_addr" => \A a \in Addr : lookup'[a] # ent[u]
      <4> SUFFICES ASSUME NEW u \in Thread, pc'[u] = "cl_addr"
                   PROVE  \A a \in Addr : lookup'[a] # ent[u]
        OBVIOUS
      <4>1. pc[u] = "cl_addr" /\ u # t
        BY <1>0, <3>1
      <4>2. ent[u] # ent[t]
        BY <3>1, <4>1 DEF FreshInv, FreshPC, PassedPC, Stale
      <4> QED
        BY <1>0, <3>1, <4>1, <4>2 DEF MapInv
    <3>4. \A e \in Entry, a \in Addr : disk_addr[e] = a =>
            Transit(e) \/ (lookup'[a] = e /\ type[e] = TypeOf[a])
      BY <1>0, <2>1, <2>2, <3>1, NoneAssumption DEF MapInv
    <3>5. \A e \in Entry, a \in Addr : lookup'[a] = e =>
         \/ disk_addr[e] = a
         \/ \E x \in Thread : ent[x] = e /\ addr[x] = a /\ pc'[x] = "ld_addr"
      BY <1>0, <2>1, <2>2, <3>1, NoneAssumption DEF MapInv
    <3>6. \A u \in Thread :
         /\ pc'[u] = "ld_addr" => lookup'[addr[u]] = ent[u]
         /\ pc'[u] \in {"ld_cas", "ld_addr", "al_addr", "al_lookup"} =>
              type[ent[u]] = TypeOf[addr[u]]
      <4>1. \A u \in Thread :
              pc[u] = "ld_addr" => ent[u] # NONE /\ addr[u] \in Addr
        BY <1>0 DEF LocalInv, NoEntryPC
      <4> QED
        BY <1>0, <2>1, <2>2, <3>1, <4>1, NoneAssumption DEF MapInv
    <3> QED
      BY <3>1, <3>2, <3>3, <3>4, <3>5, <3>6 DEF MapInv
  <2>3. CASE lookup[addr[t]] # NONE
    BY <1>0, <1>5, <2>3 DEF MapInv, Transit, LdCas
  <2> QED
    BY <2>2, <2>3
<1>6. ASSUME NEW t \in Thread, ClLookup(t) PROVE MapInv'
  <2> DEFINE e == ent[t]
  <2>1. e \in Entry /\ pc[t] = "cl_lookup"
    BY <1>0, <1>6 DEF ClLookup, LocalInv, NoEntryPC
  <2>2. /\ lookup' = [a \in Addr |-> IF a = disk_addr[e] THEN NONE
                                      ELSE lookup[a]]
        /\ pc' = [pc EXCEPT ![t] = "cl_addr"]
        /\ UNCHANGED <<disk_addr, type, ent, addr>>
    BY <1>6, <2>1 DEF ClLookup, LocalInv, ValidInv, Validated
  <2>3. ~Transit(e)
    BY <2>1 DEF Transit, ClaimInv, ClaimPC
  <2>4. \A u \in Thread : pc[u] = "ld_addr" => ent[u] # e
    BY <2>1 DEF FreshInv, FreshPC, PassedPC, Stale
  <2>5. \A x \in Entry : Transit(x)' <=> Transit(x) \/ x = e
    BY <1>0, <2>1, <2>2 DEF Transit
  <2>6. \A x \in Entry, a \in Addr : disk_addr[x] = a =>
          Transit(x)' \/ (lookup'[a] = x /\ type[x] = TypeOf[a])
    BY <1>0, <2>1, <2>2, <2>3, <2>5 DEF MapInv
  <2>7. \A x \in Entry, a \in Addr : lookup'[a] = x =>
          \/ disk_addr[x] = a
          \/ \E u \in Thread : ent[u] = x /\ addr[u] = a /\ pc'[u] = "ld_addr"
    BY <1>0, <2>1, <2>2, NoneAssumption DEF MapInv
  <2>8. ASSUME NEW u \in Thread, pc'[u] = "ld_addr"
        PROVE  lookup'[addr[u]] = ent[u]
    <3>1. pc[u] = "ld_addr" /\ addr[u] \in Addr /\ ent[u] \in Entry
      BY <1>0, <2>2, <2>8 DEF LocalInv, NoEntryPC
    <3>2. lookup[addr[u]] = ent[u] /\ ent[u] # e
      BY <2>4, <3>1 DEF MapInv
    <3> QED
      BY <1>0, <2>1, <2>2, <2>3, <3>1, <3>2 DEF MapInv
  <2>9. ASSUME NEW u \in Thread, pc'[u] = "cl_addr", NEW a \in Addr
        PROVE  lookup'[a] # ent[u]
    <3>1. CASE u = t
      BY <1>0, <2>1, <2>2, <2>4, <3>1, NoneAssumption DEF MapInv
    <3>2. CASE u # t
      <4>1. pc[u] = "cl_addr" /\ ent[u] # NONE
        BY <1>0, <2>2, <2>9, <3>2 DEF LocalInv, NoEntryPC
      <4> QED
        BY <2>2, <4>1 DEF MapInv
    <3> QED
      BY <3>1, <3>2
  <2>10. \A u \in Thread :
           pc'[u] \in {"ld_cas", "ld_addr", "al_addr", "al_lookup"} =>
             type[ent[u]] = TypeOf[addr[u]]
    BY <1>0, <2>1, <2>2 DEF MapInv
  <2> QED
    BY <2>2, <2>6, <2>7, <2>8, <2>9, <2>10 DEF MapInv
<1>7. ASSUME NEW t \in Thread, \/ ClPin(t) \/ ClUnref(t) \/ FrInc(t)
                              \/ LdRead(t) \/ LdFinish(t)
      PROVE  MapInv'
  BY <1>0, <1>7, MapFrame DEF MapPC, ClPin, ClUnref, Return, FrInc, LdRead,
     LdFinish
<1>8. ASSUME NEW t \in Thread,
             \/ ClAddr(t) \/ ClFree(t) \/ \E e \in Entry : GetFreePage(t, e)
             \/ FrStatus(t) \/ LdUnref(t) \/ LdAbort(t) \/ LdAddr(t)
             \/ AlAddr(t) \/ AlLookup(t)
      PROVE  MapInv'
  <2> USE <1>0, NoneAssumption
      DEF LocalInv, AddrInv, ClaimInv, FreeInv, FreshInv, ScanInv, ValidInv,
          MapInv, DeadInv, Transit, Validated, Stale, Scanned, NoEntryPC,
          EvictOnlyPC, EvictPC, ClaimPC, LockPC, FreshPC, PassedPC, GetPC,
          AllocPC, DiscardPC, InstallPC, FREE, FREE_STATUS
  <2>1. CASE ClAddr(t)
    BY <2>1 DEF ClAddr
  <2>2. CASE ClFree(t)
    BY <2>2 DEF ClFree
  <2>3. ASSUME NEW e \in Entry, GetFreePage(t, e) PROVE MapInv'
    BY <2>3 DEF GetFreePage
  <2>4. CASE FrStatus(t)
    BY <2>4 DEF FrStatus
  <2>5. CASE LdUnref(t)
    BY <2>5 DEF LdUnref
  <2>6. CASE LdAbort(t)
    BY <2>6 DEF LdAbort
  <2>7. CASE LdAddr(t)
    BY <2>7 DEF LdAddr
  <2>8. CASE AlAddr(t)
    BY <2>8 DEF AlAddr
  <2>9. CASE AlLookup(t)
    BY <2>9 DEF AlLookup
  <2> QED
    BY <1>8, <2>1, <2>2, <2>3, <2>4, <2>5, <2>6, <2>7, <2>8, <2>9
<1> QED
  BY <1>1, <1>2, <1>3, <1>4, <1>5, <1>6, <1>7, <1>8
     DEF Next, Step, Remove, Install

-----------------------------------------------------------------------------

\* The initial states, with an empty cache, satisfy the invariant.
LEMMA InitInv == Init => IInv
<1> SUFFICES ASSUME Init PROVE IInv
  OBVIOUS
<1> USE NoneAssumption, WidthAssumption DEF Init
<1>1. TypeOK
  BY DEF TypeOK, FREE_STATUS, FREE, Flag, PC
<1>2. LocalInv
  BY DEF LocalInv, NoEntryPC, EvictPC, EvictOnlyPC, GetPC, AllocPC, DiscardPC,
     InstallPC
<1>3. AddrInv /\ BatchInv /\ ClaimInv
  BY DEF AddrInv, BatchInv, ClaimInv, FreshPC, ClaimPC, LockPC
<1>4. RefInv
  <2>1. \A e \in Entry, s \in Stripe : Counted(e, s) = {}
    BY DEF Counted, CountedPC
  <2> QED
    BY <2>1, FS_EmptySet DEF RefInv
<1>5. FreeInv /\ FreshInv /\ ScanInv /\ ValidInv
  BY DEF FreeInv, FreshInv, ScanInv, ValidInv, FreshPC, PassedPC, Scanned,
     Validated
<1>6. LoadInv /\ MappedInv /\ MapInv /\ DeadInv
  BY DEF LoadInv, LoadPC, MappedInv, FREE_STATUS, FREE, MapInv, DeadInv
<1> QED
  BY <1>1, <1>2, <1>3, <1>4, <1>5, <1>6 DEF IInv

\* The invariant speaks of the variables of the specification only.
LEMMA StutterInv == IInv /\ UNCHANGED vars => IInv'
<1> SUFFICES ASSUME IInv, UNCHANGED vars PROVE IInv'
  OBVIOUS
<1> USE DEF vars
<1>1. TypeOK'
  BY DEF IInv, TypeOK
<1>2. LocalInv' /\ AddrInv' /\ BatchInv'
  BY DEF IInv, LocalInv, AddrInv, BatchInv
<1>3. RefInv'
  BY RefSame DEF IInv, Holds
<1>4. ClaimInv' /\ FreeInv' /\ FreshInv'
  BY DEF IInv, ClaimInv, FreeInv, FreshInv, Stale
<1>5. ScanInv' /\ ValidInv'
  BY DEF IInv, ScanInv, ValidInv, Scanned, Stale, Validated
<1>6. LoadInv' /\ MappedInv' /\ DeadInv'
  BY DEF IInv, LoadInv, MappedInv, DeadInv
<1>7. MapInv'
  BY MapFrame DEF IInv
<1> QED
  BY <1>1, <1>2, <1>3, <1>4, <1>5, <1>6, <1>7 DEF IInv

\* IInv is inductive.
THEOREM Invariance == Spec => []IInv
<1>1. IInv /\ Next => IInv'
  BY TypeStep, LocalStep, AddrStep, BatchStep, RefStep, ClaimStep, FreeStep,
     FreshStep, ScanStep, ValidStep, LoadStep, MappedStep, MapStep, DeadStep
     DEF IInv
<1>2. IInv /\ [Next]_vars => IInv'
  BY <1>1, StutterInv
<1> QED
  BY <1>2, InitInv, PTL DEF Spec

\* The types of TreePassCache hold in every reachable state: among them, no
\* reference count is lowered below zero and no write goes to an unmapped
\* address, whatever the interleaving of gets, evictions and discards.
THEOREM TypeCorrect == Spec => []TypeOK
<1>1. IInv => TypeOK
  BY DEF IInv
<1> QED
  BY <1>1, Invariance, PTL

\* treepass_get_write and treepass_try_get_write exclude every other user
\* of the page, for any number of threads and of reference count stripes,
\* also when several threads share a stripe.
THEOREM WriteLockExcludes == Spec => []MutualExclusion
<1>1. IInv => MutualExclusion
  <2> SUFFICES ASSUME IInv, NEW t \in Thread, NEW u \in Thread, t # u,
                      Writing(t), Holding(u) \/ Writing(u), ent[t] = ent[u]
               PROVE  FALSE
    BY DEF MutualExclusion
  <2>1. Scanned(t, u) /\ pc[u] \in PassedPC
    BY DEF Writing, Holding, Scanned, PassedPC
  <2>2. Stale(u)
    BY <2>1 DEF IInv, ScanInv
  <2> QED
    BY <2>2 DEF Stale, Holding, Writing
<1> QED
  BY <1>1, Invariance, PTL

\* A thread that validated its entry finds the page it asked for in it: the
\* entry is not being removed or installed by another thread.
LEMMA ValidatedMapped ==
    ASSUME IInv, NEW t \in Thread, Validated(t), op[t] = "get"
    PROVE  /\ disk_addr[ent[t]] = addr[t]
           /\ type[ent[t]] = TypeOf[addr[t]]
           /\ lookup[addr[t]] = ent[t]
<1>1. ent[t] \in Entry /\ addr[t] \in Addr
  BY NoneAssumption DEF IInv, TypeOK, LocalInv, NoEntryPC, Validated
<1>2. disk_addr[ent[t]] = addr[t]
  BY DEF IInv, ValidInv
<1>3. ~Transit(ent[t])
  <2> SUFFICES ASSUME NEW u \in Thread, ent[u] = ent[t],
                      pc[u] \in {"cl_addr", "al_lookup"}
               PROVE  FALSE
    BY DEF Transit
  <2>1. u # t /\ pc[t] \in PassedPC
    BY DEF Validated, PassedPC
  <2>2. Stale(t)
    <3>1. CASE pc[u] = "cl_addr"
      BY <2>1, <3>1 DEF IInv, ScanInv, Scanned
    <3>2. CASE pc[u] = "al_lookup"
      BY <2>1, <3>2 DEF IInv, FreshInv, FreshPC
    <3> QED
      BY <3>1, <3>2
  <2> QED
    BY <1>2, <2>2 DEF Stale
<1> QED
  BY <1>1, <1>2, <1>3 DEF IInv, MapInv

\* A page handle that treepass_get returned stays the handle of the page
\* asked for, and the lookup table leads to it, until it is released.
THEOREM HandlesStayValid == Spec => []HandleValid
<1>1. IInv => HandleValid
  <2> SUFFICES ASSUME IInv, NEW t \in Thread, Holding(t)
               PROVE  /\ disk_addr[ent[t]] = addr[t]
                      /\ type[ent[t]] = TypeOf[addr[t]]
                      /\ lookup[addr[t]] = ent[t]
    BY DEF HandleValid
  <2>1. Validated(t) /\ op[t] = "get"
    BY DEF IInv, LocalInv, GetPC, EvictPC, EvictOnlyPC, Holding, Validated
  <2> QED
    BY <2>1, ValidatedMapped
<1> QED
  BY <1>1, Invariance, PTL

\* The assertion on the page type in treepass_get_in_cache never fails.
THEOREM TypeAssertionHolds == Spec => []NoFailure
<1>1. Init => NoFailure
  BY DEF Init, NoFailure
<1>2. IInv /\ NoFailure /\ [Next]_vars => NoFailure'
  <2> SUFFICES ASSUME IInv, NoFailure, [Next]_vars, NEW u \in Thread,
                      pc'[u] = "failed"
               PROVE  FALSE
    BY DEF NoFailure
  <2>0. pc \in [Thread -> PC] /\ pc[u] # "failed"
    BY DEF IInv, TypeOK, NoFailure
  <2>1. ChkType(u)
    <3>1. ASSUME NEW t \in Thread, Call(t) \/ ReadLock(t) PROVE ChkType(u)
      BY <2>0, <3>1 DEF Call, Get, Alloc, Discard, ReadLock, LookupHit,
         LookupMiss, Return, RdTest, RdInc, RdFree, RdWriting, RdUndo,
         ChkAddr, WaitLoad, Recheck, ChkType, Unref
    <3>2. ASSUME NEW t \in Thread, Holder(t) \/ WriteLock(t) PROVE FALSE
      BY <2>0, <3>2 DEF Holder, Unget, Return, TryClaim, Unclaim, Lock,
         MarkDirty, Modify, Pin, Unlock, WriteLock, Claim, SetLock,
         WaitWriteback, WaitRefs, Locked
    <3>3. ASSUME NEW t \in Thread, Evict(t) \/ Remove(t) PROVE FALSE
      BY <2>0, <3>3 DEF Evict, BatchFull, MoveHand, SweepDone, Verify,
         EvUnlock, EvUnclaim, EvUnref, CleanPage, TryEvict, TakeBatch, Remove,
         ClLookup, ClAddr, ClFree, ClPin, ClUnref, Return
    <3>4. ASSUME NEW t \in Thread, Install(t) PROVE FALSE
      BY <2>0, <3>4 DEF Install, GetFreePage, FrInc, FrStatus, LdCas, LdUnref,
         LdAbort, LdAddr, LdRead, LdFinish, AlAddr, AlLookup
    <3>5. ASSUME NEW e \in Entry, Callback(e) PROVE FALSE
      BY <2>0, <3>5 DEF Callback, WriteDone, WritebackDone
    <3> QED
      BY <2>0, <3>1, <3>2, <3>3, <3>4, <3>5 DEF Next, Step, vars
  <2>2. type[ent[u]] # TypeOf[addr[u]] /\ pc[u] = "chk_type"
    BY <2>0, <2>1 DEF ChkType
  <2>3. Validated(u) /\ op[u] = "get"
    BY <2>2 DEF IInv, LocalInv, EvictPC, EvictOnlyPC, GetPC, Validated
  <2> QED
    BY <2>2, <2>3, ValidatedMapped
<1> QED
  BY <1>1, <1>2, Invariance, PTL DEF Spec

\* What the commented-out compare-and-swap of treepass_alloc asserted always
\* holds: nobody has mapped the address a new page is installed at.
THEOREM AllocFindsUnmapped == Spec => []AllocUnmapped
<1>1. IInv => AllocUnmapped
  <2> SUFFICES ASSUME IInv, NEW t \in Thread, At(t, "al_lookup")
               PROVE  lookup[addr[t]] = NONE
    BY DEF AllocUnmapped
  <2>1. op[t] = "alloc" /\ addr[t] \in Addr
    BY DEF IInv, TypeOK, LocalInv, AllocPC
  <2>2. addr[t] \notin live /\ \A u \in Thread \ {t} : addr[u] # addr[t]
    BY <2>1 DEF IInv, AddrInv
  <2> QED
    BY <2>1, <2>2 DEF IInv, DeadInv
<1> QED
  BY <1>1, Invariance, PTL

-----------------------------------------------------------------------------
(***************************************************************************)
(* ContentInv: what the pages, the disk and the loads under way hold       *)
(***************************************************************************)

\* A thread about to change a page is the only user of its mapping: the
\* lookup table maps nothing else to its entry and its address nowhere else,
\* and another entry with that address is being removed.
LEMMA WriterAlone ==
    ASSUME IInv, NEW t \in Thread, pc[t] \in {"dirty", "al_lookup"}
    PROVE  /\ ent[t] \in Entry /\ addr[t] \in Addr
           /\ \A b \in Addr : lookup[b] = ent[t] => b = addr[t]
           /\ \A x \in Entry : lookup[addr[t]] = x => x = ent[t]
           /\ \A x \in Entry : disk_addr[x] = addr[t] =>
                x = ent[t] \/ Transit(x)
<1>1. ent[t] \in Entry /\ addr[t] \in Addr
  BY NoneAssumption DEF IInv, TypeOK, LocalInv, NoEntryPC
<1>2. disk_addr[ent[t]] = addr[t]
  BY DEF IInv, LocalInv, EvictPC, EvictOnlyPC, GetPC, ValidInv, Validated,
     FreshInv, FreshPC
<1>3. \A u \in Thread : pc[u] = "ld_addr" => ent[u] # ent[t]
  BY DEF IInv, FreshInv, FreshPC, PassedPC, Stale
<1>4. \A b \in Addr : lookup[b] = ent[t] => b = addr[t]
  BY <1>1, <1>2, <1>3 DEF IInv, MapInv
<1>5. \A x \in Entry : lookup[addr[t]] = x => x = ent[t]
  <2>1. CASE pc[t] = "dirty"
    <3>1. Validated(t) /\ op[t] = "get"
      BY <2>1 DEF IInv, LocalInv, EvictPC, EvictOnlyPC, GetPC, Validated
    <3> QED
      BY <3>1, ValidatedMapped
  <2>2. CASE pc[t] = "al_lookup"
    <3>1. op[t] = "alloc"
      BY <2>2 DEF IInv, LocalInv, AllocPC
    <3>2. addr[t] \notin live /\ \A u \in Thread \ {t} : addr[u] # addr[t]
      BY <3>1 DEF IInv, AddrInv
    <3>3. lookup[addr[t]] = NONE
      BY <1>1, <3>1, <3>2 DEF IInv, DeadInv
    <3> QED
      BY <3>3, NoneAssumption
  <2> QED
    BY <2>1, <2>2
<1>6. \A x \in Entry : disk_addr[x] = addr[t] => x = ent[t] \/ Transit(x)
  BY <1>1, <1>5 DEF IInv, MapInv
<1> QED
  BY <1>1, <1>4, <1>5, <1>6

\* A page a caller of treepass_get uses is not loading, and a page that is
\* loading is marked clean (TP_READ_LOADING_STATUS).
LEMMA LoadedStep ==
    ASSUME IInv, LoadedInv, Next
    PROVE  LoadedInv'
<1>0. /\ status \in [Entry -> SUBSET Flag]
      /\ pc \in [Thread -> PC]
      /\ ent \in [Thread -> Entry \cup {NONE}]
      /\ op \in [Thread -> {"none", "get", "alloc", "discard"}]
      /\ evicting \in SUBSET Thread
  BY DEF IInv, TypeOK
<1> USE <1>0, NoneAssumption
    DEF IInv, LocalInv, ClaimInv, FreeInv, FreshInv, ScanInv, LoadInv,
        LoadedInv, LoadedPC, Validated, Stale, Scanned, NoEntryPC,
        EvictOnlyPC, EvictPC, ClaimPC, LockPC, FreshPC, PassedPC, GetPC,
        AllocPC, DiscardPC, InstallPC, LoadPC, Test, FREE, CLEAN, WRITEBACK,
        LOADING, WRITELOCKED, CLAIMED, FREE_STATUS, ALLOC_STATUS,
        READ_LOADING_STATUS, LOCKED_EVICTABLE_STATUS, EVICTABLE_STATUS
<1>1. ASSUME NEW t \in Thread, Call(t) PROVE LoadedInv'
  BY <1>1 DEF Call, Get, Alloc, Discard
<1>2. ASSUME NEW t \in Thread, ReadLock(t) PROVE LoadedInv'
  BY <1>2 DEF ReadLock, LookupHit, LookupMiss, Return, RdTest, RdInc, RdFree,
     RdWriting, RdUndo, ChkAddr, WaitLoad, Recheck, ChkType, Unref
<1>3. ASSUME NEW t \in Thread, Holder(t) PROVE LoadedInv'
  BY <1>3 DEF Holder, Unget, Return, TryClaim, SetFlag, Unclaim, ClearFlag,
     Lock, MarkDirty, Modify, Change, Pin, Unlock
<1>4. ASSUME NEW t \in Thread, WriteLock(t) PROVE LoadedInv'
  BY <1>4 DEF WriteLock, Claim, SetFlag, SetLock, WaitWriteback, WaitRefs,
     Locked
<1>5. ASSUME NEW t \in Thread, Evict(t) PROVE LoadedInv'
  BY <1>5 DEF Evict, BatchFull, MoveHand, SweepDone, Verify, Evictable,
     EvUnlock, ClearFlag, EvUnclaim, EvUnref, CleanPage, StartWriteback,
     SetFlag, TryEvict, TakeBatch
<1>6. ASSUME NEW t \in Thread, Remove(t) PROVE LoadedInv'
  BY <1>6 DEF Remove, ClLookup, ClAddr, ClFree, ClPin, ClUnref, Return
<1>7. ASSUME NEW t \in Thread, Install(t) PROVE LoadedInv'
  BY <1>7 DEF Install, GetFreePage, FrInc, FrStatus, LdCas, LdUnref, LdAbort,
     LdAddr, LdRead, LdFinish, ClearFlag, AlAddr, AlLookup, Change
<1>8. ASSUME NEW e \in Entry, Callback(e) PROVE LoadedInv'
  BY <1>8 DEF Callback, WriteDone, WritebackDone, SetFlag, ClearFlag
<1> QED
  BY <1>1, <1>2, <1>3, <1>4, <1>5, <1>6, <1>7, <1>8 DEF Next, Step

\* treepass_mark_dirty precedes every change of a page, and what eviction saw
\* under the write lock, a clean page, stays so until the page is removed.
LEMMA DirtyStep ==
    ASSUME IInv, WritebackInv, DirtyInv, Next
    PROVE  DirtyInv'
<1>0. /\ status \in [Entry -> SUBSET Flag]
      /\ pc \in [Thread -> PC]
      /\ ent \in [Thread -> Entry \cup {NONE}]
      /\ op \in [Thread -> {"none", "get", "alloc", "discard"}]
      /\ evicting \in SUBSET Thread
      /\ io \in [Entry -> {"none", "issued", "cleaned"}]
  BY DEF IInv, TypeOK
<1> USE <1>0, NoneAssumption
    DEF IInv, LocalInv, ClaimInv, FreeInv, FreshInv, ScanInv, WritebackInv,
        DirtyInv, QuietPC, Stale, Scanned, NoEntryPC, EvictOnlyPC, EvictPC,
        ClaimPC, LockPC, FreshPC, PassedPC, GetPC, AllocPC, DiscardPC,
        InstallPC, LoadPC, Test, FREE, CLEAN, WRITEBACK, LOADING,
        WRITELOCKED, CLAIMED, FREE_STATUS, ALLOC_STATUS, READ_LOADING_STATUS,
        LOCKED_EVICTABLE_STATUS, EVICTABLE_STATUS
<1>1. ASSUME NEW t \in Thread, Call(t) PROVE DirtyInv'
  BY <1>1 DEF Call, Get, Alloc, Discard
<1>2. ASSUME NEW t \in Thread, ReadLock(t) PROVE DirtyInv'
  BY <1>2 DEF ReadLock, LookupHit, LookupMiss, Return, RdTest, RdInc, RdFree,
     RdWriting, RdUndo, ChkAddr, WaitLoad, Recheck, ChkType, Unref
<1>3. ASSUME NEW t \in Thread, Holder(t) PROVE DirtyInv'
  BY <1>3 DEF Holder, Unget, Return, TryClaim, SetFlag, Unclaim, ClearFlag,
     Lock, MarkDirty, Modify, Change, Pin, Unlock
<1>4. ASSUME NEW t \in Thread, WriteLock(t) PROVE DirtyInv'
  BY <1>4 DEF WriteLock, Claim, SetFlag, SetLock, WaitWriteback, WaitRefs,
     Locked
<1>5. ASSUME NEW t \in Thread, Evict(t) PROVE DirtyInv'
  BY <1>5 DEF Evict, BatchFull, MoveHand, SweepDone, Verify, Evictable,
     EvUnlock, ClearFlag, EvUnclaim, EvUnref, CleanPage, StartWriteback,
     SetFlag, TryEvict, TakeBatch
<1>6. ASSUME NEW t \in Thread, Remove(t) PROVE DirtyInv'
  BY <1>6 DEF Remove, ClLookup, ClAddr, ClFree, ClPin, ClUnref, Return
<1>7. ASSUME NEW t \in Thread, Install(t) PROVE DirtyInv'
  BY <1>7 DEF Install, GetFreePage, FrInc, FrStatus, LdCas, LdUnref, LdAbort,
     LdAddr, LdRead, LdFinish, ClearFlag, AlAddr, AlLookup, Change
<1>8. ASSUME NEW e \in Entry, Callback(e) PROVE DirtyInv'
  BY <1>8 DEF Callback, WriteDone, WritebackDone, SetFlag, ClearFlag
<1> QED
  BY <1>1, <1>2, <1>3, <1>4, <1>5, <1>6, <1>7, <1>8 DEF Next, Step

\* A write in flight carries the latest version of the page the entry still
\* has: nobody changes, moves or frees a page between the issue of its write
\* and the end of treepass_write_callback.
LEMMA WritebackStep ==
    ASSUME IInv, ContentInv, Next
    PROVE  WritebackInv'
<1>0. /\ status \in [Entry -> SUBSET Flag]
      /\ pc \in [Thread -> PC]
      /\ ent \in [Thread -> Entry \cup {NONE}]
      /\ op \in [Thread -> {"none", "get", "alloc", "discard"}]
      /\ addr \in [Thread -> Addr \cup {NONE}]
      /\ evicting \in SUBSET Thread
      /\ disk_addr \in [Entry -> Addr \cup {NONE}]
      /\ io \in [Entry -> {"none", "issued", "cleaned"}]
      /\ ioaddr \in [Entry -> Addr \cup {NONE}]
      /\ iodata \in [Entry -> Addr \cup {NONE}]
      /\ data \in [Entry -> Addr \cup {NONE}]
      /\ lookup \in [Addr -> Entry \cup {NONE}]
  BY DEF IInv, TypeOK
<1> USE <1>0, NoneAssumption
    DEF ContentInv, WritebackInv, DataInv, LoadedInv, LoadedPC, QuietPC,
        Cleanable, IInv, LocalInv, AddrInv, ClaimInv, FreeInv, FreshInv,
        ScanInv, ValidInv, LoadInv, MappedInv, MapInv, Transit, Validated,
        Stale, Scanned, NoEntryPC, EvictOnlyPC, EvictPC, ClaimPC, LockPC,
        FreshPC, PassedPC, GetPC, AllocPC, DiscardPC, InstallPC, LoadPC,
        Test, FREE, CLEAN, WRITEBACK, LOADING, WRITELOCKED, CLAIMED,
        FREE_STATUS, ALLOC_STATUS, READ_LOADING_STATUS,
        LOCKED_EVICTABLE_STATUS, EVICTABLE_STATUS
<1>1. ASSUME NEW t \in Thread, Call(t) PROVE WritebackInv'
  BY <1>1 DEF Call, Get, Alloc, Discard
<1>2. ASSUME NEW t \in Thread, ReadLock(t) PROVE WritebackInv'
  BY <1>2 DEF ReadLock, LookupHit, LookupMiss, Return, RdTest, RdInc, RdFree,
     RdWriting, RdUndo, ChkAddr, WaitLoad, Recheck, ChkType, Unref
<1>3. ASSUME NEW t \in Thread, Holder(t) PROVE WritebackInv'
  <2>1. CASE Modify(t)
    <3>1. pc[t] = "dirty"
      BY <2>1 DEF Modify
    <3>2. \A x \in Entry : WRITEBACK \in status[x] => disk_addr[x] # addr[t]
      BY <3>1, WriterAlone DEF WritebackInv, Transit
    <3>3. \A x \in Entry : io[x] = "issued" => iodata'[x] = iodata[x]
      BY <2>1, <3>2 DEF Modify, Change
    <3> QED
      BY <2>1, <3>3 DEF Modify
  <2>2. CASE \/ Unget(t) \/ TryClaim(t) \/ Unclaim(t) \/ Lock(t)
             \/ MarkDirty(t) \/ Pin(t) \/ Unlock(t)
    <3>1. CASE Unget(t)
      BY <3>1 DEF Unget, Return
    <3>2. CASE TryClaim(t) \/ Lock(t)
      BY <3>2, SMTT(30) DEF TryClaim, Lock, SetFlag
    <3>3. CASE Unclaim(t) \/ Unlock(t)
      BY <3>3 DEF Unclaim, Unlock, ClearFlag
    <3>4. CASE MarkDirty(t)
      BY <3>4, SMTT(30) DEF MarkDirty, ClearFlag
    <3>5. CASE Pin(t)
      BY <3>5 DEF Pin
    <3> QED
      BY <2>2, <3>1, <3>2, <3>3, <3>4, <3>5
  <2> QED
    BY <1>3, <2>1, <2>2 DEF Holder
<1>4. ASSUME NEW t \in Thread, WriteLock(t) PROVE WritebackInv'
  BY <1>4 DEF WriteLock, Claim, SetFlag, SetLock, WaitWriteback, WaitRefs,
     Locked
<1>5. ASSUME NEW t \in Thread, Evict(t) PROVE WritebackInv'
  <2>1. ASSUME NEW e \in Entry, CleanPage(t, e) PROVE WritebackInv'
    <3>1. status[e] = {}
      BY <2>1 DEF CleanPage, StartWriteback
    <3>2. \A u \in Thread : ent[u] = e =>
            pc[u] \notin ClaimPC \cup LoadPC
      BY <3>1
    <3>3. disk_addr[e] \in Addr
      BY <3>1, <3>2
    <3>4. lookup[disk_addr[e]] = e
      BY <3>2, <3>3
    <3>5. data[e] = disk_addr[e]
      BY <3>2, <3>3, <3>4
    <3> QED
      BY <2>1, <3>1, <3>2, <3>5 DEF CleanPage, StartWriteback, SetFlag
  <2>2. CASE \/ BatchFull(t) \/ MoveHand(t) \/ SweepDone(t) \/ Verify(t)
             \/ EvUnlock(t) \/ EvUnclaim(t) \/ EvUnref(t)
             \/ (\E e \in Entry : TryEvict(t, e))
             \/ (\E b \in Batch : TakeBatch(t, b))
    BY <2>2 DEF BatchFull, MoveHand, SweepDone, Verify, EvUnlock, ClearFlag,
       EvUnclaim, EvUnref, TryEvict, TakeBatch
  <2> QED
    BY <1>5, <2>1, <2>2 DEF Evict
<1>6. ASSUME NEW t \in Thread, Remove(t) PROVE WritebackInv'
  <2>1. CASE ClLookup(t)
    BY <2>1 DEF ClLookup
  <2>2. CASE ClAddr(t)
    BY <2>2 DEF ClAddr
  <2>3. CASE ClFree(t)
    BY <2>3 DEF ClFree
  <2>4. CASE ClPin(t)
    BY <2>4 DEF ClPin
  <2>5. CASE ClUnref(t)
    BY <2>5 DEF ClUnref, Return
  <2> QED
    BY <1>6, <2>1, <2>2, <2>3, <2>4, <2>5 DEF Remove
<1>7. ASSUME NEW t \in Thread, Install(t) PROVE WritebackInv'
  <2>1. CASE AlLookup(t)
    <3>1. pc[t] = "al_lookup"
      BY <2>1 DEF AlLookup
    <3>2. \A x \in Entry : WRITEBACK \in status[x] => disk_addr[x] # addr[t]
      BY <3>1, WriterAlone DEF WritebackInv, Transit
    <3>3. \A x \in Entry : io[x] = "issued" => iodata'[x] = iodata[x]
      BY <2>1, <3>2 DEF AlLookup, Change
    <3> QED
      BY <2>1, <3>3 DEF AlLookup
  <2>2. CASE FrStatus(t)
    BY <2>2 DEF FrStatus
  <2>3. CASE LdAbort(t)
    BY <2>3 DEF LdAbort
  <2>4. ASSUME NEW e \in Entry, GetFreePage(t, e) PROVE WritebackInv'
    BY <2>4 DEF GetFreePage
  <2>5. CASE \/ FrInc(t) \/ LdCas(t) \/ LdUnref(t) \/ LdAddr(t) \/ LdRead(t)
             \/ LdFinish(t) \/ AlAddr(t)
    BY <2>5, SMTT(30) DEF FrInc, LdCas, LdUnref, LdAddr, LdRead, LdFinish, ClearFlag,
       AlAddr
  <2> QED
    BY <1>7, <2>1, <2>2, <2>3, <2>4, <2>5 DEF Install
<1>8. ASSUME NEW e \in Entry, Callback(e) PROVE WritebackInv'
  BY <1>8 DEF Callback, WriteDone, WritebackDone, SetFlag, ClearFlag
<1> QED
  BY <1>1, <1>2, <1>3, <1>4, <1>5, <1>6, <1>7, <1>8 DEF Next, Step

\* The lookup table leads to the latest version of a page, and a page is
\* clean only while the disk has its latest version.
LEMMA DataStep ==
    ASSUME IInv, ContentInv, Next
    PROVE  DataInv'
<1>0. /\ status \in [Entry -> SUBSET Flag]
      /\ pc \in [Thread -> PC]
      /\ ent \in [Thread -> Entry \cup {NONE}]
      /\ op \in [Thread -> {"none", "get", "alloc", "discard"}]
      /\ addr \in [Thread -> Addr \cup {NONE}]
      /\ evicting \in SUBSET Thread
      /\ disk_addr \in [Entry -> Addr \cup {NONE}]
      /\ io \in [Entry -> {"none", "issued", "cleaned"}]
      /\ ioaddr \in [Entry -> Addr \cup {NONE}]
      /\ iodata \in [Entry -> Addr \cup {NONE}]
      /\ data \in [Entry -> Addr \cup {NONE}]
      /\ lookup \in [Addr -> Entry \cup {NONE}]
      /\ disk \in SUBSET Addr
      /\ live \in SUBSET Addr
  BY DEF IInv, TypeOK
<1> USE <1>0, NoneAssumption
    DEF ContentInv, WritebackInv, DirtyInv, DataInv, LoadedInv, LoadedPC,
        NothingLost, QuietPC, Cleanable, IInv, LocalInv, AddrInv, ClaimInv,
        FreeInv, FreshInv, ScanInv, ValidInv, LoadInv, MappedInv, MapInv,
        Transit, Validated, Stale, Scanned, NoEntryPC, EvictOnlyPC, EvictPC,
        ClaimPC, LockPC, FreshPC, PassedPC, GetPC, AllocPC, DiscardPC,
        InstallPC, LoadPC, Test, FREE, CLEAN, WRITEBACK, LOADING,
        WRITELOCKED, CLAIMED, FREE_STATUS, ALLOC_STATUS, READ_LOADING_STATUS,
        LOCKED_EVICTABLE_STATUS, EVICTABLE_STATUS
<1>1. ASSUME NEW t \in Thread, Call(t) PROVE DataInv'
  BY <1>1 DEF Call, Get, Alloc, Discard
<1>2. ASSUME NEW t \in Thread, ReadLock(t) PROVE DataInv'
  BY <1>2 DEF ReadLock, LookupHit, LookupMiss, Return, RdTest, RdInc, RdFree,
     RdWriting, RdUndo, ChkAddr, WaitLoad, Recheck, ChkType, Unref
<1>3. ASSUME NEW t \in Thread, Holder(t) PROVE DataInv'
  <2>1. CASE Unget(t)
    BY <2>1 DEF Unget, Return
  <2>2. CASE TryClaim(t) \/ Lock(t)
    BY <2>2, SMTT(30) DEF TryClaim, Lock, SetFlag
  <2>3. CASE Unclaim(t) \/ Unlock(t)
    BY <2>3 DEF Unclaim, Unlock, ClearFlag
  <2>4. CASE MarkDirty(t)
    BY <2>4, SMTT(30) DEF MarkDirty, ClearFlag
  <2>5. CASE Modify(t)
    BY <2>5, SMTT(30) DEF Modify, Change
  <2>6. CASE Pin(t)
    BY <2>6 DEF Pin
  <2> QED
    BY <1>3, <2>1, <2>2, <2>3, <2>4, <2>5, <2>6 DEF Holder
<1>4. ASSUME NEW t \in Thread, WriteLock(t) PROVE DataInv'
  BY <1>4 DEF WriteLock, Claim, SetFlag, SetLock, WaitWriteback, WaitRefs,
     Locked
<1>5. ASSUME NEW t \in Thread, Evict(t) PROVE DataInv'
  <2>1. CASE BatchFull(t) \/ MoveHand(t) \/ SweepDone(t)
    BY <2>1 DEF BatchFull, MoveHand, SweepDone
  <2>2. CASE Verify(t)
    BY <2>2 DEF Verify, Evictable
  <2>3. CASE EvUnlock(t) \/ EvUnclaim(t) \/ EvUnref(t)
    BY <2>3 DEF EvUnlock, EvUnclaim, EvUnref, ClearFlag
  <2>4. ASSUME NEW e \in Entry, CleanPage(t, e) PROVE DataInv'
    BY <2>4 DEF CleanPage, StartWriteback, SetFlag
  <2>5. ASSUME NEW e \in Entry, TryEvict(t, e) PROVE DataInv'
    BY <2>5 DEF TryEvict
  <2>6. ASSUME NEW b \in Batch, TakeBatch(t, b) PROVE DataInv'
    BY <2>6 DEF TakeBatch
  <2> QED
    BY <1>5, <2>1, <2>2, <2>3, <2>4, <2>5, <2>6 DEF Evict
<1>6. ASSUME NEW t \in Thread, Remove(t) PROVE DataInv'
  BY <1>6 DEF Remove, ClLookup, ClAddr, ClFree, ClPin, ClUnref, Return
<1>7. ASSUME NEW t \in Thread, Install(t) PROVE DataInv'
  <2>1. ASSUME NEW e \in Entry, GetFreePage(t, e) PROVE DataInv'
    BY <2>1 DEF GetFreePage
  <2>2. CASE FrInc(t) \/ FrStatus(t)
    BY <2>2 DEF FrInc, FrStatus
  <2>3. CASE LdCas(t)
    BY <2>3 DEF LdCas
  <2>4. CASE LdUnref(t)
    BY <2>4 DEF LdUnref
  <2>5. CASE LdAbort(t)
    BY <2>5 DEF LdAbort
  <2>6. CASE LdAddr(t)
    BY <2>6 DEF LdAddr
  <2>7. CASE LdRead(t)
    BY <2>7, SMTT(30) DEF LdRead
  <2>8. CASE LdFinish(t)
    BY <2>8 DEF LdFinish, ClearFlag
  <2>9. CASE AlAddr(t)
    BY <2>9 DEF AlAddr
  <2>10. CASE AlLookup(t)
    BY <2>10 DEF AlLookup, Change
  <2> QED
    BY <1>7, <2>1, <2>2, <2>3, <2>4, <2>5, <2>6, <2>7, <2>8, <2>9, <2>10 DEF Install
<1>8. ASSUME NEW e \in Entry, Callback(e) PROVE DataInv'
  BY <1>8 DEF Callback, WriteDone, WritebackDone, SetFlag, ClearFlag
<1> QED
  BY <1>1, <1>2, <1>3, <1>4, <1>5, <1>6, <1>7, <1>8 DEF Next, Step

\* Neither eviction, nor a load, nor the late callback of a write loses the
\* only copy of a page.
LEMMA NothingLostStep ==
    ASSUME IInv, ContentInv, Next
    PROVE  NothingLost'
<1>0. /\ status \in [Entry -> SUBSET Flag]
      /\ pc \in [Thread -> PC]
      /\ ent \in [Thread -> Entry \cup {NONE}]
      /\ op \in [Thread -> {"none", "get", "alloc", "discard"}]
      /\ addr \in [Thread -> Addr \cup {NONE}]
      /\ evicting \in SUBSET Thread
      /\ disk_addr \in [Entry -> Addr \cup {NONE}]
      /\ io \in [Entry -> {"none", "issued", "cleaned"}]
      /\ ioaddr \in [Entry -> Addr \cup {NONE}]
      /\ iodata \in [Entry -> Addr \cup {NONE}]
      /\ data \in [Entry -> Addr \cup {NONE}]
      /\ lookup \in [Addr -> Entry \cup {NONE}]
      /\ disk \in SUBSET Addr
      /\ live \in SUBSET Addr
  BY DEF IInv, TypeOK
<1> USE <1>0, NoneAssumption
    DEF ContentInv, WritebackInv, DirtyInv, DataInv, LoadedInv, LoadedPC,
        NothingLost, QuietPC, Cleanable, IInv, LocalInv, AddrInv, ClaimInv,
        FreeInv, FreshInv, ScanInv, ValidInv, LoadInv, MappedInv, MapInv,
        Transit, Validated, Stale, Scanned, NoEntryPC, EvictOnlyPC, EvictPC,
        ClaimPC, LockPC, FreshPC, PassedPC, GetPC, AllocPC, DiscardPC,
        InstallPC, LoadPC, Test, FREE, CLEAN, WRITEBACK, LOADING,
        WRITELOCKED, CLAIMED, FREE_STATUS, ALLOC_STATUS, READ_LOADING_STATUS,
        LOCKED_EVICTABLE_STATUS, EVICTABLE_STATUS
<1>1. ASSUME NEW t \in Thread, Call(t) PROVE NothingLost'
  BY <1>1 DEF Call, Get, Alloc, Discard
<1>2. ASSUME NEW t \in Thread, ReadLock(t) PROVE NothingLost'
  BY <1>2 DEF ReadLock, LookupHit, LookupMiss, Return, RdTest, RdInc, RdFree,
     RdWriting, RdUndo, ChkAddr, WaitLoad, Recheck, ChkType, Unref
<1>3. ASSUME NEW t \in Thread, Holder(t) PROVE NothingLost'
  <2>1. CASE Modify(t)
    <3>1. /\ ent[t] \in Entry /\ addr[t] \in Addr
          /\ \A b \in Addr : lookup[b] = ent[t] => b = addr[t]
      BY <2>1, WriterAlone DEF Modify
    <3>2. lookup[addr[t]] = ent[t]
      <4>1. Validated(t) /\ op[t] = "get"
        BY <2>1 DEF Modify
      <4> QED
        BY <4>1, ValidatedMapped
    <3> QED
      BY <2>1, <3>1, <3>2 DEF Modify, Change
  <2>2. CASE \/ Unget(t) \/ TryClaim(t) \/ Unclaim(t) \/ Lock(t)
             \/ MarkDirty(t) \/ Pin(t) \/ Unlock(t)
    BY <2>2 DEF Unget, Return, TryClaim, Unclaim, Lock, MarkDirty, Pin, Unlock
  <2> QED
    BY <1>3, <2>1, <2>2 DEF Holder
<1>4. ASSUME NEW t \in Thread, WriteLock(t) PROVE NothingLost'
  BY <1>4 DEF WriteLock, Claim, SetFlag, SetLock, WaitWriteback, WaitRefs,
     Locked
<1>5. ASSUME NEW t \in Thread, Evict(t) PROVE NothingLost'
  BY <1>5 DEF Evict, BatchFull, MoveHand, SweepDone, Verify, Evictable,
     EvUnlock, ClearFlag, EvUnclaim, EvUnref, CleanPage, StartWriteback,
     SetFlag, TryEvict, TakeBatch
<1>6. ASSUME NEW t \in Thread, Remove(t) PROVE NothingLost'
  BY <1>6, SMTT(30) DEF Remove, ClLookup, ClAddr, ClFree, ClPin, ClUnref, Return
<1>7. ASSUME NEW t \in Thread, Install(t) PROVE NothingLost'
  <2>1. CASE AlLookup(t)
    <3>1. /\ ent[t] \in Entry /\ addr[t] \in Addr
          /\ \A b \in Addr : lookup[b] = ent[t] => b = addr[t]
      BY <2>1, WriterAlone DEF AlLookup
    <3> QED
      BY <2>1, <3>1 DEF AlLookup, Change
  <2>2. CASE LdCas(t)
    <3>1. lookup[addr[t]] = NONE => addr[t] \in disk
      BY <2>2 DEF LdCas
    <3>2. \A a \in Addr : a \in live /\ lookup'[a] # lookup[a] => a \in disk
      BY <2>2, <3>1 DEF LdCas
    <3> QED
      BY <2>2, <3>2 DEF LdCas
  <2>3. CASE LdRead(t)
    <3>1. Validated(t) /\ op[t] = "get"
      BY <2>3 DEF LdRead
    <3>2. /\ ent[t] \in Entry /\ addr[t] \in Addr
          /\ lookup[addr[t]] = ent[t] /\ disk_addr[ent[t]] = addr[t]
      BY <3>1, ValidatedMapped
    <3>3. addr[t] \in disk
      BY <2>3, <3>2 DEF LdRead
    <3> QED
      BY <2>3, <3>2, <3>3 DEF LdRead
  <2>4. CASE \/ \E e \in Entry : GetFreePage(t, e)
             \/ FrInc(t) \/ FrStatus(t) \/ LdUnref(t) \/ LdAbort(t)
             \/ LdAddr(t) \/ LdFinish(t) \/ AlAddr(t)
    BY <2>4 DEF GetFreePage, FrInc, FrStatus, LdUnref, LdAbort, LdAddr,
       LdFinish, AlAddr
  <2> QED
    BY <1>7, <2>1, <2>2, <2>3, <2>4 DEF Install
<1>8. ASSUME NEW e \in Entry, Callback(e) PROVE NothingLost'
  BY <1>8 DEF Callback, WriteDone, WritebackDone, SetFlag, ClearFlag
<1> QED
  BY <1>1, <1>2, <1>3, <1>4, <1>5, <1>6, <1>7, <1>8 DEF Next, Step

-----------------------------------------------------------------------------

\* In the initial states the disk holds every page and the cache is empty.
LEMMA ContentInit == Init => ContentInv
<1> SUFFICES ASSUME Init PROVE ContentInv
  OBVIOUS
<1> USE NoneAssumption DEF Init, FREE_STATUS, FREE, CLEAN, WRITEBACK, LOADING
<1>1. WritebackInv /\ LoadedInv /\ DirtyInv
  BY DEF WritebackInv, QuietPC, LoadedInv, LoadedPC, DirtyInv
<1>2. DataInv /\ NothingLost
  BY DEF DataInv, NothingLost
<1> QED
  BY <1>1, <1>2 DEF ContentInv

\* The invariants speak of the variables of the specification only.
LEMMA ContentStutter ==
    ASSUME UNCHANGED vars
    PROVE  ContentInv => ContentInv'
<1> USE DEF vars
<1>1. ContentInv => WritebackInv' /\ LoadedInv' /\ DirtyInv'
  BY DEF ContentInv, WritebackInv, LoadedInv, DirtyInv, Validated
<1>2. ContentInv => DataInv' /\ NothingLost'
  BY DEF ContentInv, DataInv, NothingLost
<1> QED
  BY <1>1, <1>2 DEF ContentInv

\* ContentInv is inductive relative to IInv.
THEOREM ContentInvariance == Spec => []ContentInv
<1>1. IInv /\ ContentInv /\ Next => ContentInv'
  BY WritebackStep, LoadedStep, DirtyStep, DataStep, NothingLostStep
     DEF ContentInv
<1>2. IInv /\ ContentInv /\ [Next]_vars => ContentInv'
  BY <1>1, ContentStutter
<1> QED
  BY <1>2, ContentInit, Invariance, PTL DEF Spec

\* The last contents of an allocated page are never lost, however writebacks,
\* evictions, loads and late write callbacks interleave: they are on disk or
\* in the entry the lookup table leads to.
THEOREM ContentsNeverLost == Spec => []NothingLost
<1>1. ContentInv => NothingLost
  BY DEF ContentInv
<1> QED
  BY <1>1, ContentInvariance, PTL

\* Whoever treepass_get gave a page reads the last contents written to it.
LEMMA HolderData == IInv /\ ContentInv => HoldersReadLatest
<1> SUFFICES ASSUME IInv, ContentInv, NEW t \in Thread, Holding(t)
             PROVE  data[ent[t]] = addr[t]
  BY DEF HoldersReadLatest
<1>1. Validated(t) /\ op[t] = "get" /\ pc[t] \in LoadedPC
  BY DEF IInv, LocalInv, GetPC, EvictPC, EvictOnlyPC, Holding, Validated,
     LoadedPC
<1>2. ent[t] \in Entry /\ addr[t] \in Addr
  BY <1>1, NoneAssumption DEF IInv, TypeOK, LocalInv, NoEntryPC, LoadedPC
<1>3. LOADING \notin status[ent[t]]
  BY <1>1, <1>2 DEF ContentInv, LoadedInv
<1>4. \A u \in Thread : ent[u] = ent[t] => pc[u] \notin {"ld_addr", "ld_read"}
  BY <1>2, <1>3 DEF IInv, LoadInv, LoadPC
<1>5. lookup[addr[t]] = ent[t]
  BY <1>1, ValidatedMapped
<1> QED
  BY <1>2, <1>4, <1>5 DEF ContentInv, DataInv

\* The holder of a page handle sees the last contents written to its
\* address, also when the page was written back, evicted and loaded again.
THEOREM HoldersSeeLatest == Spec => []HoldersReadLatest
<1> QED
  BY HolderData, Invariance, ContentInvariance, PTL
=============================================================================
