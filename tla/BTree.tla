------------------------------- MODULE BTree -------------------------------
(***************************************************************************)
(* The B-tree of a memtable (btree.c): inserts, lookups and iterators that *)
(* run side by side on pages with the cache's three lock modes.  A get     *)
(* waits while somebody has the page write locked, a claim is tried and    *)
(* fails when somebody else has it, and a lock bars new gets at once and   *)
(* then waits until no other thread has the page.                          *)
(*                                                                         *)
(* A step goes from one point where a thread may wait, or where a claim    *)
(* may fail, to the next; what happens in between is on pages the thread   *)
(* has.  Keys have one size, so that an index entry is always replaced in  *)
(* place; entries of a leaf have sizes, and leave dead space when they     *)
(* grow.                                                                   *)
(***************************************************************************)
EXTENDS Integers, Sequences, FiniteSets, SequencesExt

CONSTANTS
  Threads,         \* the threads that insert, look up and iterate
  NumKeys,         \* keys 1 .. NumKeys; NumKeys + 1 is the positive infinity
  LeafSpace,       \* bytes for entries in a leaf
  SplitThreshold,  \* BTREE_SPLIT_THRESHOLD: above it a leaf splits, below it is defragmented
  IndexEntrySize,  \* sizeof(index_entry), as the split decision adds it
  IndexMax,        \* entries with which btree_index_is_full holds
  MaxRetries,      \* tries to claim the next leaf before a split gives up (100)
  Scenarios        \* what is inserted first, and what the threads may do then

Keys == 1 .. NumKeys
Infinity == NumKeys + 1

\* preload is the sequence of inserts one thread does first, menu the set of
\* operations, threads and ops bound the threads in use and the operations.
ASSUME BTreeAssumption ==
  /\ NumKeys \in Nat \ {0} /\ LeafSpace \in Nat /\ SplitThreshold \in Nat
  /\ IndexEntrySize \in Nat /\ IndexMax \in Nat \ {0, 1, 2} /\ MaxRetries \in Nat
  /\ \A s \in Scenarios : s.threads \in Nat /\ s.ops \in Nat

VARIABLES
  node,      \* the pages of the tree, by address
  thread,    \* what each thread does and which pages it has
  scenario,  \* the scenario of this behaviour
  todo,      \* what is left of the preload, and operations left
  done       \* per key: messages merged, inserts that found it new
vars == <<node, thread, scenario, todo, done>>

Root == 1
None == 0

-----------------------------------------------------------------------------
(***************************************************************************)
(* Nodes.  off is the distance of an entry's first byte from the end of    *)
(* the page, next_entry that of the lowest byte in use; n counts the       *)
(* messages merged into a leaf entry.  Indexes are from 0, as in the code. *)
(***************************************************************************)

EmptyNode == [height |-> 0, entries |-> <<>>, next_entry |-> 0,
              generation |-> 0, next |-> None, prev |-> None]

NumEntries(hdr) == Len(hdr.entries)
Entry(hdr, i) == hdr.entries[i + 1]

\* btree_find_pivot and btree_find_tuple: the last entry not above target.
FindKey(hdr, target) == Cardinality({i \in DOMAIN hdr.entries : hdr.entries[i].key <= target}) - 1
Found(hdr, target) == \E i \in DOMAIN hdr.entries : hdr.entries[i].key = target

CanSetLeafEntry(hdr, k, size) ==
  \/ k < NumEntries(hdr) /\ size <= Entry(hdr, k).size
  \/ hdr.next_entry + size <= LeafSpace

SetLeafEntry(hdr, k, key, n, size) ==
  IF k < NumEntries(hdr) /\ size <= Entry(hdr, k).size
  THEN [hdr EXCEPT !.entries[k + 1] = [@ EXCEPT !.n = n, !.size = size]]
  ELSE LET off == hdr.next_entry + size
           e == [key |-> key, n |-> n, size |-> size, off |-> off]
       IN [hdr EXCEPT !.next_entry = off,
                      !.entries = IF k < NumEntries(hdr) THEN [@ EXCEPT ![k + 1] = e]
                                  ELSE Append(@, e)]

\* btree_insert_leaf_entry: set at the end, then moved to its place.
InsertLeafEntry(hdr, k, key, n, size) ==
  LET added == SetLeafEntry(hdr, NumEntries(hdr), key, n, size)
  IN [added EXCEPT !.entries = InsertAt(Front(@), k + 1, Last(@))]

\* Faulty: full one entry too late.
FaultyIsFull(hdr) == NumEntries(hdr) > IndexMax
\* btree_index_is_full: another entry might not fit.
IsFull(hdr) == NumEntries(hdr) >= IndexMax

InsertIndexEntry(hdr, k, key, child) ==
  [hdr EXCEPT !.entries = InsertAt(@, k + 1, [key |-> key, child |-> child])]
SetMinKey(hdr, key) == [hdr EXCEPT !.entries[1].key = key]

-----------------------------------------------------------------------------
(***************************************************************************)
(* The incorporation of a tuple into a leaf: the specification made under  *)
(* the read lock, and what is done with it under the write lock.           *)
(***************************************************************************)

DidNotExist == 0
StillExists == 1
HasBeenRemoved == 2

CreateSpec(hdr, key, size) ==
  LET idx == FindKey(hdr, key)
  IN IF Found(hdr, key)
     THEN [idx |-> idx, old |-> StillExists, key |-> key, n |-> Entry(hdr, idx).n + 1, size |-> size]
     ELSE [idx |-> idx + 1, old |-> DidNotExist, key |-> key, n |-> 1, size |-> size]
NoSpec == [idx |-> 0, old |-> DidNotExist, key |-> 1, n |-> 0, size |-> 0]

CanPerform(hdr, spec) ==
  CanSetLeafEntry(hdr, IF spec.old = StillExists THEN spec.idx ELSE NumEntries(hdr), spec.size)

\* btree_try_perform_leaf_incorporate_spec, where it can be performed.
Perform(hdr, spec) ==
  [(IF spec.old = StillExists
    THEN SetLeafEntry(hdr, spec.idx, spec.key, spec.n, spec.size)
    ELSE InsertLeafEntry(hdr, spec.idx, spec.key, spec.n, spec.size))
   EXCEPT !.generation = @ + 1]

ResetEntries(hdr) == [hdr EXCEPT !.entries = <<>>, !.next_entry = 0]

\* The entries of a leaf but the one at position skip, set one after another.
CopyEntries(hdr, entries) ==
  FoldLeft(LAMBDA h, e : SetLeafEntry(h, NumEntries(h), e.key, e.n, e.size),
           ResetEntries(hdr), entries)

WithoutOld(hdr, spec) ==
  IF spec.old = StillExists THEN RemoveAt(hdr.entries, spec.idx + 1) ELSE hdr.entries
Removed(spec) == [spec EXCEPT !.old = IF @ = StillExists THEN HasBeenRemoved ELSE @]

DefragmentLeaf(hdr, spec) == CopyEntries(hdr, WithoutOld(hdr, spec))

TruncateLeaf(hdr, target) ==
  LET kept == SubSeq(hdr.entries, 1, target)
  IN [hdr EXCEPT !.entries = kept,
                 !.next_entry = FoldLeft(LAMBDA m, e : IF e.off > m THEN e.off ELSE m, 0, kept)]

SumSizes(entries) == FoldLeft(LAMBDA sum, e : sum + e.size, 0, entries)

MostIsOnLeft(total, left, size) == left + size < (total + size) \div 2

\* plan_move_more_entries_to_left: plan.left is left_bytes.
MoveMoreToLeft(hdr, max, total, plan) ==
  FoldLeft(LAMBDA p, i :
             LET size == Entry(hdr, i - 1).size
             IN IF p.split = i - 1 /\ MostIsOnLeft(total, p.left, size)
                THEN [p EXCEPT !.split = i, !.left = @ + size] ELSE p,
           plan, [j \in 1 .. max |-> j])

\* btree_build_leaf_splitting_plan
NoPlan == [split |-> 0, left |-> 0, goesLeft |-> FALSE]
SplittingPlan(hdr, spec) ==
  LET total == spec.size + SumSizes(WithoutOld(hdr, spec))
      first == MoveMoreToLeft(hdr, spec.idx, total, NoPlan)
  IN IF first.split = spec.idx /\ MostIsOnLeft(total, first.left, spec.size)
     THEN MoveMoreToLeft(hdr, NumEntries(hdr), total,
                         [split |-> IF spec.old = StillExists THEN first.split + 1 ELSE first.split,
                          left |-> first.left + spec.size, goesLeft |-> TRUE])
     ELSE first

\* Faulty: the pivot ignores the new entry.
FaultySplittingPivot(hdr, spec, plan) ==
  IF plan.split < NumEntries(hdr) THEN Entry(hdr, plan.split).key ELSE spec.key

SplittingPivot(hdr, spec, plan) ==
  IF plan.split = spec.idx /\ spec.old # StillExists /\ ~plan.goesLeft
  THEN spec.key ELSE Entry(hdr, plan.split).key

\* btree_split_leaf_build_right_node: its contents and the specification after it.
RightSpec(spec, plan) == [Removed(spec) EXCEPT !.idx = @ - plan.split]
BuildRightNode(left, leftAddr, spec, plan) ==
  LET moved == SelectSeq(SubSeq(left.entries, plan.split + 1, NumEntries(left)),
                         LAMBDA e : ~(spec.old = StillExists /\ e.key = spec.key))
      right == CopyEntries([left EXCEPT !.generation = @ + 1, !.prev = leftAddr], moved)
  IN IF plan.goesLeft THEN right ELSE Perform(right, RightSpec(spec, plan))

\* btree_split_leaf_cleanup_left_node
CleanupLeftNode(hdr, spec, plan, rightAddr) ==
  LET left == [TruncateLeaf(hdr, plan.split) EXCEPT !.next = rightAddr, !.generation = @ + 1]
  IN IF plan.goesLeft /\ ~CanPerform(left, spec) THEN DefragmentLeaf(left, spec) ELSE left
LeftSpec(hdr, spec, plan) ==
  IF plan.goesLeft /\ ~CanPerform(TruncateLeaf(hdr, plan.split), spec) THEN Removed(spec) ELSE spec

\* btree_choose_index_split, for index entries of one size.
ChooseIndexSplit(hdr) == (NumEntries(hdr) + 1) \div 2
BuildRightIndex(left, target) ==
  [left EXCEPT !.generation = @ + 1, !.entries = SubSeq(@, target + 1, Len(@))]
TruncateIndex(hdr, target) ==
  [hdr EXCEPT !.entries = SubSeq(@, 1, target), !.generation = @ + 1]

-----------------------------------------------------------------------------
(***************************************************************************)
(* Threads and page locks.  p, c, n and r are the pages btree_insert calls *)
(* parent, child, child_next and right_child, p also the page a lookup is  *)
(* at; curr is the iterator's leaf.  at and leaf are addresses to get.     *)
(***************************************************************************)

NoOp == [kind |-> "none"]
Insert(k, size) == [kind |-> "insert", key |-> k, size |-> size]
Lookup(k) == [kind |-> "lookup", key |-> k]
Scan(forward, min, max) == [kind |-> "scan", forward |-> forward, min |-> min, max |-> max]

Idle == [pc |-> "idle", op |-> NoOp, base |-> <<>>,
         p |-> None, c |-> None, n |-> None, r |-> None, curr |-> None,
         at |-> None, leaf |-> None,
         claims |-> {}, writes |-> {}, idx |-> 0, spec |-> NoSpec, plan |-> NoPlan, rebuild |-> FALSE, retries |-> 0,
         goal |-> "none", end |-> [addr |-> None, generation |-> 0, idx |-> 0],
         minidx |-> 0, out |-> <<>>]

Held(th) == {th.p, th.c, th.n, th.r, th.curr} \ {None}

CanGet(t, a) == \A u \in Threads \ {t} : a \notin thread[u].writes
CanClaim(t, a) == \A u \in Threads \ {t} : a \notin thread[u].claims
Drained(t, a) == \A u \in Threads \ {t} : a \notin Held(thread[u])

At(t, pc) == thread[t].pc = pc
Become(t, th) == thread' = [thread EXCEPT ![t] = th]
Claim(th, a) == [th EXCEPT !.claims = @ \cup {a}]
Lock(th, a) == [th EXCEPT !.claims = @ \cup {a}, !.writes = @ \cup {a}]
Unlock(th, a) == [th EXCEPT !.claims = @ \ {a}, !.writes = @ \ {a}]
Goto(th, pc) == [th EXCEPT !.pc = pc]

ReleaseParent(th) == [Unlock(th, th.p) EXCEPT !.p = None]
ReleaseAll(th) == [th EXCEPT !.p = None, !.c = None, !.n = None, !.r = None, !.curr = None,
                             !.claims = {}, !.writes = {}]
\* goto start_over
StartOver(th) == [ReleaseAll(th) EXCEPT !.pc = "insert", !.spec = NoSpec, !.plan = NoPlan,
                                        !.retries = 0, !.rebuild = FALSE, !.idx = 0, !.at = None]
Return(th) == [ReleaseAll(th) EXCEPT !.pc = "return"]

Leaf(a) == node[a].height = 0
NewAddr == CHOOSE a \in 1 .. Cardinality(DOMAIN node) + 1 : a \notin DOMAIN node
WithNode(nodes, a, hdr) == [x \in DOMAIN nodes \cup {a} |-> IF x = a THEN hdr ELSE nodes[x]]

\* The tuple is in the leaf.
Commit(spec) ==
  done' = [done EXCEPT ![spec.key] =
             [merged |-> @.merged + 1,
              unique |-> IF spec.old = DidNotExist THEN @.unique + 1 ELSE @.unique]]

-----------------------------------------------------------------------------
(***************************************************************************)
(* Operations begin and return.  The preload is done by one thread before  *)
(* the others start.                                                       *)
(***************************************************************************)

Enter(op) == IF op.kind = "insert" THEN "insert" ELSE "lookup"

Start(t, op) ==
  /\ At(t, "idle")
  /\ Become(t, [Idle EXCEPT !.pc = Enter(op), !.op = op,
                            !.base = [k \in Keys |-> done[k].merged],
                            !.goal = IF op.kind = "scan" THEN "start" ELSE op.kind])
  /\ UNCHANGED <<node, scenario, done>>

IdleThreads == {t \in Threads : At(t, "idle")}

Preload ==
  /\ todo.preload # <<>> /\ IdleThreads = Threads
  /\ Start(CHOOSE t \in Threads : TRUE, Head(todo.preload))
  /\ todo' = [todo EXCEPT !.preload = Tail(@)]

\* Idle threads are all alike, so it does not matter which one begins.
Begin(op) ==
  /\ todo.preload = <<>> /\ todo.ops > 0
  /\ todo.ops = scenario.ops => IdleThreads = Threads
  /\ Cardinality(Threads \ IdleThreads) < scenario.threads
  /\ Start(CHOOSE t \in IdleThreads : TRUE, op)
  /\ todo' = [todo EXCEPT !.ops = @ - 1]

Finish(t) ==
  /\ At(t, "return")
  /\ Become(t, Idle)
  /\ UNCHANGED <<node, scenario, todo, done>>

-----------------------------------------------------------------------------
(***************************************************************************)
(* btree_insert, from the root down.                                       *)
(***************************************************************************)

\* The thread has the root, an index: go on to a child, or change the root first.
AtRootIndex(th, hdr) ==
  LET idx == FindKey(hdr, th.op.key)
  IN IF idx < 0 \/ IsFull(hdr) THEN [th EXCEPT !.pc = "rootclaim", !.idx = idx]
     ELSE [th EXCEPT !.pc = "getchild", !.idx = idx, !.at = Entry(hdr, idx).child]

InsertGetRoot(t) ==
  /\ At(t, "insert") /\ CanGet(t, Root)
  /\ LET th == [thread[t] EXCEPT !.p = Root]
     IN Become(t, IF Leaf(Root)
                  THEN [th EXCEPT !.pc = "rootleafclaim",
                                  !.spec = CreateSpec(node[Root], th.op.key, th.op.size)]
                  ELSE AtRootIndex(th, node[Root]))
  /\ UNCHANGED <<node, scenario, todo, done>>

\* The root, as a leaf or as an index, is claimed and locked, or let go.
InsertClaimRoot(t, pc, next) ==
  /\ At(t, pc)
  /\ Become(t, IF CanClaim(t, Root) THEN Goto(Lock(thread[t], Root), next)
               ELSE StartOver(thread[t]))
  /\ UNCHANGED <<node, scenario, todo, done>>

\* btree_grow_root: the root's contents move to a new child.
GrowRoot(nodes, child) ==
  LET root == nodes[Root]
  IN [WithNode(nodes, child, root) EXCEPT
        ![Root] = [ResetEntries(root) EXCEPT
                     !.height = @ + 1,
                     !.entries = <<[key |-> root.entries[1].key, child |-> child]>>]]

InsertRootLeaf(t) ==
  /\ At(t, "rootleaf") /\ Drained(t, Root)
  /\ LET th == thread[t]
         grown == GrowRoot(node, NewAddr)
     IN IF CanPerform(node[Root], th.spec)
        THEN /\ node' = [node EXCEPT ![Root] = Perform(@, th.spec)]
             /\ Commit(th.spec)
             /\ Become(t, Return(th))
        ELSE /\ node' = grown
             /\ Become(t, AtRootIndex([Unlock(th, Root) EXCEPT !.spec = NoSpec], grown[Root]))
             /\ UNCHANGED done
  /\ UNCHANGED <<scenario, todo>>

InsertRootIndex(t) ==
  /\ At(t, "rootindex") /\ Drained(t, Root)
  /\ LET th == thread[t]
         set == IF th.idx < 0 THEN [node EXCEPT ![Root] = SetMinKey(@, th.op.key)] ELSE node
         full == IsFull(set[Root])
         idx == IF full \/ th.idx < 0 THEN 0 ELSE th.idx
     IN /\ node' = IF full THEN GrowRoot(set, NewAddr) ELSE set
        /\ Become(t, [Unlock(th, Root) EXCEPT !.pc = "getchild", !.idx = idx,
                                              !.at = Entry(node'[Root], idx).child])
  /\ UNCHANGED <<scenario, todo, done>>

\* Get the child.  In an index, go on, or change it first; in a leaf, insert,
\* with the parent when the tuple does not fit.
InsertGetChild(t) ==
  /\ At(t, "getchild") /\ CanGet(t, thread[t].at)
  /\ LET th == thread[t]
         a == th.at
         key == th.op.key
         next == FindKey(node[a], key)
         spec == CreateSpec(node[a], key, th.op.size)
         got == [th EXCEPT !.c = a]
     IN Become(t,
          IF ~Leaf(a) THEN
             IF next < 0 \/ IsFull(node[a]) THEN Goto(got, "indexclaimparent")
             ELSE [th EXCEPT !.p = a, !.idx = next, !.at = Entry(node[a], next).child]
          ELSE IF CanPerform(node[a], spec)
               THEN [got EXCEPT !.p = None, !.spec = spec, !.pc = "leafclaim"]
               ELSE [got EXCEPT !.spec = spec, !.pc = "claimparent"])
  /\ UNCHANGED <<node, scenario, todo, done>>

InsertClaimIndexParent(t) ==
  /\ At(t, "indexclaimparent")
  /\ LET th == thread[t]
     IN Become(t, IF CanClaim(t, th.p) THEN Goto(Claim(th, th.p), "indexclaimchild") ELSE StartOver(th))
  /\ UNCHANGED <<node, scenario, todo, done>>

InsertClaimIndexChild(t) ==
  /\ At(t, "indexclaimchild")
  /\ LET th == thread[t]
     IN Become(t, IF CanClaim(t, th.c) THEN Goto(Lock(Claim(th, th.c), th.p), "indexlock")
                  ELSE StartOver(th))
  /\ UNCHANGED <<node, scenario, todo, done>>

InsertLockIndex(t) ==
  /\ At(t, "indexlock") /\ Drained(t, thread[t].p)
  /\ Become(t, Goto(Lock(thread[t], thread[t].c), "index"))
  /\ UNCHANGED <<node, scenario, todo, done>>

\* btree_split_child_index, or just the child's new minimum.
InsertIndex(t) ==
  /\ At(t, "index") /\ Drained(t, thread[t].c)
  /\ LET th == thread[t]
         found == FindKey(node[th.c], th.op.key)
         set == IF found < 0 THEN [node EXCEPT ![th.c] = SetMinKey(@, th.op.key)] ELSE node
         child == set[th.c]
         next == IF found < 0 THEN 0 ELSE found
         split == ChooseIndexSplit(child)
         r == NewAddr
         goesRight == IsFull(child) /\ next >= split
         parent == IF goesRight THEN r ELSE th.c
         idx == IF goesRight THEN next - split ELSE next
     IN /\ node' = IF ~IsFull(child) THEN set
                   ELSE [WithNode(set, r, BuildRightIndex(child, split)) EXCEPT
                           ![th.p] = InsertIndexEntry(@, th.idx + 1, Entry(child, split).key, r),
                           ![th.c] = TruncateIndex(@, split)]
        /\ Become(t, [ReleaseAll(th) EXCEPT !.pc = "getchild", !.p = parent, !.idx = idx,
                                            !.at = Entry(node'[parent], idx).child])
  /\ UNCHANGED <<scenario, todo, done>>

InsertClaimLeaf(t) ==
  /\ At(t, "leafclaim")
  /\ LET th == thread[t]
     IN Become(t, IF CanClaim(t, th.c) THEN Goto(Lock(th, th.c), "leaf") ELSE StartOver(th))
  /\ UNCHANGED <<node, scenario, todo, done>>

InsertLeaf(t) ==
  /\ At(t, "leaf") /\ Drained(t, thread[t].c)
  /\ LET th == thread[t]
     IN /\ node' = [node EXCEPT ![th.c] = Perform(@, th.spec)]
        /\ Commit(th.spec)
        /\ Become(t, Return(th))
  /\ UNCHANGED <<scenario, todo>>

-----------------------------------------------------------------------------
(***************************************************************************)
(* The leaf has no room: it is defragmented or split, with a claim on the  *)
(* parent.  The claim on the leaf may need the leaf to be let go, and what *)
(* was found in it to be found again.                                      *)
(***************************************************************************)

InsertClaimParent(t) ==
  /\ At(t, "claimparent")
  /\ LET th == thread[t]
     IN Become(t, IF CanClaim(t, th.p) THEN Goto(Claim(th, th.p), "claimchild") ELSE StartOver(th))
  /\ UNCHANGED <<node, scenario, todo, done>>

\* Faulty: what was found before the claim is still used after it.
FaultySpecAfterClaim(th, hdr) == th.spec
SpecAfterClaim(th, hdr) ==
  IF th.rebuild THEN CreateSpec(hdr, th.op.key, th.op.size) ELSE th.spec

\* total_space_required, with the precedence C gives its last term.
TotalSpaceRequired(hdr, spec) ==
  SumSizes(WithoutOld(hdr, spec)) + spec.size
  + (IF NumEntries(hdr) + spec.old = StillExists THEN 0 ELSE 1) * IndexEntrySize

InsertClaimChild(t) ==
  /\ At(t, "claimchild")
  /\ LET th == thread[t]
         spec == SpecAfterClaim(th, node[th.c])
         claimed == [Claim(th, th.c) EXCEPT !.spec = spec]
     IN IF ~CanClaim(t, th.c)
        THEN /\ Become(t, [th EXCEPT !.pc = "regetchild", !.c = None, !.rebuild = TRUE])
             /\ UNCHANGED node
        ELSE IF TotalSpaceRequired(node[th.c], spec) < SplitThreshold
        THEN /\ Become(t, Goto(Lock(ReleaseParent(claimed), th.c), "defragment"))
             /\ UNCHANGED node
        ELSE /\ node' = WithNode(node, NewAddr, EmptyNode)
             /\ Become(t, [Lock(Lock(claimed, NewAddr), th.p) EXCEPT
                            !.r = NewAddr, !.plan = SplittingPlan(node[th.c], spec), !.pc = "splitparent"])
  /\ UNCHANGED <<scenario, todo, done>>

InsertRegetChild(t) ==
  /\ At(t, "regetchild") /\ CanGet(t, thread[t].at)
  /\ Become(t, [thread[t] EXCEPT !.c = thread[t].at, !.pc = "claimchild"])
  /\ UNCHANGED <<node, scenario, todo, done>>

InsertDefragment(t) ==
  /\ At(t, "defragment") /\ Drained(t, thread[t].c)
  /\ LET th == thread[t]
     IN /\ node' = [node EXCEPT ![th.c] = Perform(DefragmentLeaf(@, th.spec), Removed(th.spec))]
        /\ Commit(th.spec)
        /\ Become(t, Return(th))
  /\ UNCHANGED <<scenario, todo>>

\* btree_split_child_leaf: the parent is locked; then the next leaf, if there
\* is one, is gotten, claimed and locked, and then the child.
SplitLockParent(t) ==
  /\ At(t, "splitparent") /\ Drained(t, thread[t].p)
  /\ LET th == thread[t]
     IN Become(t, IF node[th.c].next = None THEN Goto(Lock(th, th.c), "splitchild")
                  ELSE Goto(th, "getnext"))
  /\ UNCHANGED <<node, scenario, todo, done>>

SplitGetNext(t) ==
  /\ At(t, "getnext") /\ CanGet(t, node[thread[t].c].next)
  /\ Become(t, [thread[t] EXCEPT !.n = node[thread[t].c].next, !.pc = "claimnext"])
  /\ UNCHANGED <<node, scenario, todo, done>>

\* Faulty: the claim is tried again forever.
FaultyRetryNext(th) == [th EXCEPT !.n = None, !.pc = "getnext"]

\* A claim that keeps failing makes the split give everything up: its holder
\* may be an iterator that waits for the parent.
RetryNext(th) ==
  IF th.retries + 1 > MaxRetries THEN StartOver(th)
  ELSE [th EXCEPT !.n = None, !.retries = @ + 1, !.pc = "getnext"]

\* The page allocated for a right child that was given up stays unused.
SplitClaimNext(t) ==
  /\ At(t, "claimnext")
  /\ LET th == thread[t]
         next == IF CanClaim(t, th.n) THEN Goto(Lock(th, th.n), "locknext") ELSE RetryNext(th)
     IN /\ Become(t, next)
        /\ node' = IF next.r = None THEN [a \in DOMAIN node \ {th.r} |-> node[a]] ELSE node
  /\ UNCHANGED <<scenario, todo, done>>

SplitLockNext(t) ==
  /\ At(t, "locknext") /\ Drained(t, thread[t].n)
  /\ Become(t, Goto(Lock(thread[t], thread[t].c), "splitchild"))
  /\ UNCHANGED <<node, scenario, todo, done>>

\* All locks are held: the parent gets the pivot and is released.
SplitAddPivot(t) ==
  /\ At(t, "splitchild") /\ Drained(t, thread[t].c)
  /\ LET th == thread[t]
         pivot == SplittingPivot(node[th.c], th.spec, th.plan)
     IN /\ node' = [node EXCEPT ![th.p] = InsertIndexEntry(@, th.idx + 1, pivot, th.r)]
        /\ Become(t, Goto(ReleaseParent(th), IF th.n = None THEN "splitright" ELSE "splitnext"))
  /\ UNCHANGED <<scenario, todo, done>>

SplitLinkNext(t) ==
  /\ At(t, "splitnext")
  /\ LET th == thread[t]
     IN /\ node' = [node EXCEPT ![th.n].prev = th.r]
        /\ Become(t, [Unlock(th, th.n) EXCEPT !.n = None, !.pc = "splitright"])
  /\ UNCHANGED <<scenario, todo, done>>

SplitRight(t) ==
  /\ At(t, "splitright")
  /\ LET th == thread[t]
     IN /\ node' = [node EXCEPT ![th.r] = BuildRightNode(node[th.c], th.c, th.spec, th.plan)]
        /\ IF th.plan.goesLeft THEN UNCHANGED done
           ELSE Commit(th.spec)
        /\ Become(t, [Unlock(th, th.r) EXCEPT !.r = None, !.at = th.r, !.pc = "splitleft"])
  /\ UNCHANGED <<scenario, todo>>

SplitLeft(t) ==
  /\ At(t, "splitleft")
  /\ LET th == thread[t]
         hdr == node[th.c]
         left == CleanupLeftNode(hdr, th.spec, th.plan, th.at)
     IN /\ node' = [node EXCEPT ![th.c] = IF th.plan.goesLeft
                                          THEN Perform(left, LeftSpec(hdr, th.spec, th.plan))
                                          ELSE left]
        /\ IF th.plan.goesLeft THEN Commit(th.spec) ELSE UNCHANGED done
        /\ Become(t, Return(th))
  /\ UNCHANGED <<scenario, todo>>

-----------------------------------------------------------------------------
(***************************************************************************)
(* btree_lookup_node goes down hand over hand: for a lookup, for the leaf  *)
(* an iterator starts in, and for the leaf it ends in.                     *)
(***************************************************************************)

Target(th) ==
  CASE th.goal = "lookup" -> th.op.key
    [] th.goal = "start" -> IF th.op.forward THEN th.op.min ELSE th.op.max
    [] th.goal = "end" -> th.op.max

\* find_key_in_node for greater_than_or_equal and for less_than
Gte(hdr, key) == IF Found(hdr, key) THEN FindKey(hdr, key) ELSE FindKey(hdr, key) + 1
Less(hdr, key) == IF Found(hdr, key) THEN FindKey(hdr, key) - 1 ELSE FindKey(hdr, key)

\* curr has no more to give: on to its neighbour.
LeaveForNext(th, minidx) ==
  [th EXCEPT !.pc = "nextleaf", !.leaf = node[th.curr].next, !.curr = None, !.minidx = minidx]
LeaveForPrev(th) ==
  [th EXCEPT !.pc = "prevleaf", !.at = node[th.curr].prev, !.leaf = th.curr, !.curr = None]

\* find_btree_node_and_get_idx_bounds, once the end is known
Position(th) ==
  LET hdr == node[th.curr]
      tmp == Gte(hdr, th.op.min)
      min == IF ~Found(hdr, th.op.min) /\ tmp = 0
             THEN IF hdr.prev = None THEN 0 ELSE -1
             ELSE tmp
      idx == IF th.op.forward THEN tmp ELSE Less(hdr, th.op.max)
      there == [th EXCEPT !.claims = {}, !.minidx = min, !.idx = idx, !.pc = "iterate"]
  IN IF th.curr # th.end.addr /\ idx = NumEntries(hdr) THEN LeaveForNext(there, 0)
     ELSE IF min = -1 /\ idx = -1 THEN LeaveForPrev(there)
     ELSE there

\* What happens at the leaf a, which the thread has.
Arrive(th, a) ==
  LET hdr == node[a]
      n == IF Found(hdr, th.op.key) THEN Entry(hdr, FindKey(hdr, th.op.key)).n ELSE 0
      ended == [th EXCEPT !.p = None, !.goal = "none",
                          !.end = [addr |-> a, generation |-> hdr.generation, idx |-> Gte(hdr, th.op.max)]]
  IN CASE th.goal = "lookup" -> [Return(th) EXCEPT !.out = <<n>>]
       [] th.goal = "start" -> [th EXCEPT !.p = None, !.curr = a, !.pc = "scanclaim"]
       [] th.goal = "end" -> IF th.curr = None THEN Goto(ended, "nextleaf") ELSE Position(ended)

\* Faulty: the parent is released before the child is read.
FaultyGoDown(th, child) == [th EXCEPT !.pc = "down", !.at = child, !.p = None]
GoDown(th, child) == [th EXCEPT !.pc = "down", !.at = child]

LookupStep(t, a) ==
  /\ CanGet(t, a)
  /\ LET th == [thread[t] EXCEPT !.p = a]
         idx == FindKey(node[a], Target(th))
     IN Become(t, IF Leaf(a) THEN Arrive(th, a)
                  ELSE GoDown(th, Entry(node[a], IF idx < 0 THEN 0 ELSE idx).child))
  /\ UNCHANGED <<node, scenario, todo, done>>

LookupGetRoot(t) == At(t, "lookup") /\ LookupStep(t, Root)
LookupGetChild(t) == At(t, "down") /\ LookupStep(t, thread[t].at)

-----------------------------------------------------------------------------
(***************************************************************************)
(* The iterator keeps a claim on the leaf it starts in while it looks for  *)
(* its end, and lets a leaf go before it gets the next or previous one.    *)
(***************************************************************************)

ScanClaim(t) ==
  /\ At(t, "scanclaim")
  /\ LET th == thread[t]
     IN Become(t, IF CanClaim(t, th.curr)
                  THEN [Claim(th, th.curr) EXCEPT !.goal = "end", !.pc = "lookup"]
                  ELSE [th EXCEPT !.curr = None, !.pc = "lookup"])
  /\ UNCHANGED <<node, scenario, todo, done>>

\* The entries of curr the iterator gives, in its direction: positions from
\* idx to the end index or the minimum index.
Emitted(th) ==
  LET hdr == node[th.curr]
      empty == th.curr = th.end.addr /\ th.minidx = th.end.idx
      last == IF th.curr = th.end.addr THEN th.end.idx - 1 ELSE NumEntries(hdr) - 1
      first == IF th.minidx = -1 THEN 0 ELSE th.minidx
  IN IF empty THEN <<>>
     ELSE IF th.op.forward THEN SubSeq(hdr.entries, th.idx + 1, last + 1)
     ELSE Reverse(SubSeq(hdr.entries, first + 1, th.idx + 1))

Iterate(t) ==
  /\ At(t, "iterate")
  /\ LET th == thread[t]
         given == [th EXCEPT !.out = @ \o [i \in DOMAIN Emitted(th) |-> <<Emitted(th)[i].key, Emitted(th)[i].n>>]]
     IN Become(t, IF th.op.forward /\ th.curr # th.end.addr THEN LeaveForNext(given, -1)
                  ELSE IF ~th.op.forward /\ th.minidx = -1 THEN LeaveForPrev(given)
                  ELSE Return(given))
  /\ UNCHANGED <<node, scenario, todo, done>>

\* The end leaf has changed since its index was computed.
EndIsStale(th) == th.leaf = th.end.addr /\ node[th.leaf].generation # th.end.generation

\* btree_iterator_next_leaf: the end is looked for again without curr.
NextLeaf(t) ==
  /\ At(t, "nextleaf") /\ CanGet(t, thread[t].leaf)
  /\ LET th == thread[t]
     IN Become(t, IF EndIsStale(th) THEN [th EXCEPT !.goal = "end", !.pc = "lookup"]
                  ELSE [th EXCEPT !.curr = th.leaf, !.idx = 0, !.pc = "iterate"])
  /\ UNCHANGED <<node, scenario, todo, done>>

\* Faulty: the leaf before is taken to have stayed the neighbour.
FaultyPrecedes(hdr, leaf) == TRUE
Precedes(hdr, leaf) == hdr.next = leaf

\* btree_iterator_prev_leaf: the leaf before may have split; walk forward.
PrevLeaf(t) ==
  /\ At(t, "prevleaf") /\ CanGet(t, thread[t].at)
  /\ LET th == thread[t]
         hdr == node[th.at]
         min == IF th.op.min < Entry(hdr, 0).key THEN -1 ELSE Gte(hdr, th.op.min)
     IN Become(t, IF ~Precedes(hdr, th.leaf) THEN [th EXCEPT !.at = hdr.next]
                  ELSE [th EXCEPT !.curr = th.at, !.idx = NumEntries(hdr) - 1, !.pc = "iterate",
                                  !.minidx = IF hdr.prev = None /\ min = -1 THEN 0 ELSE min])
  /\ UNCHANGED <<node, scenario, todo, done>>

-----------------------------------------------------------------------------
Init ==
  /\ scenario \in Scenarios
  /\ node = (Root :> EmptyNode)
  /\ thread = [t \in Threads |-> Idle]
  /\ todo = [preload |-> scenario.preload, ops |-> scenario.ops]
  /\ done = [k \in Keys |-> [merged |-> 0, unique |-> 0]]

InsertNext(t) ==
  \/ InsertGetRoot(t) \/ InsertClaimRoot(t, "rootleafclaim", "rootleaf") \/ InsertRootLeaf(t)
  \/ InsertClaimRoot(t, "rootclaim", "rootindex") \/ InsertRootIndex(t)
  \/ InsertGetChild(t) \/ InsertClaimIndexParent(t) \/ InsertClaimIndexChild(t)
  \/ InsertLockIndex(t) \/ InsertIndex(t) \/ InsertClaimLeaf(t) \/ InsertLeaf(t)
  \/ InsertClaimParent(t) \/ InsertClaimChild(t) \/ InsertRegetChild(t) \/ InsertDefragment(t)

SplitNext(t) ==
  \/ SplitLockParent(t) \/ SplitGetNext(t) \/ SplitClaimNext(t) \/ SplitLockNext(t)
  \/ SplitAddPivot(t) \/ SplitLinkNext(t) \/ SplitRight(t) \/ SplitLeft(t)

ReadNext(t) ==
  \/ LookupGetRoot(t) \/ LookupGetChild(t)
  \/ ScanClaim(t) \/ Iterate(t) \/ NextLeaf(t) \/ PrevLeaf(t)

AllDone == todo.preload = <<>> /\ todo.ops = 0 /\ IdleThreads = Threads

ThreadNext(t) == InsertNext(t) \/ SplitNext(t) \/ ReadNext(t) \/ Finish(t)

Next ==
  \/ Preload \/ (\E op \in scenario.menu : Begin(op))
  \/ \E t \in Threads : ThreadNext(t)
  \/ AllDone /\ UNCHANGED vars

\* Every thread runs, and a thread that spins for a page in treepass_get_page
\* finds it free some time if it is free again and again.
Spec == Init /\ [][Next]_vars /\ \A t \in Threads : SF_vars(ThreadNext(t))

-----------------------------------------------------------------------------
(***************************************************************************)
(* Properties                                                              *)
(***************************************************************************)

Writers(a) == {t \in Threads : a \in thread[t].writes}
Locked(a) == Writers(a) # {}

\* Types, and the shape of the tree: a page is written by one thread and a
\* child is one level below its parent (btree_hdr, btree_grow_root).
TypeOK ==
  /\ DOMAIN node \subseteq 1 .. Cardinality(DOMAIN node) + Cardinality(Threads)
  /\ \A a \in DOMAIN node :
       /\ node[a].height \in Nat /\ node[a].generation \in Nat
       /\ node[a].next_entry \in 0 .. LeafSpace
       /\ Cardinality(Writers(a)) <= 1
       /\ node[a].height > 0 =>
            \A i \in DOMAIN node[a].entries : LET c == node[a].entries[i].child IN
              c \in DOMAIN node /\ (node[c].height = node[a].height - 1 \/ Locked(c))
  /\ \A t \in Threads : thread[t].writes \subseteq thread[t].claims
                        /\ thread[t].claims \subseteq Held(thread[t])
  /\ \A k \in Keys : done[k].merged \in Nat /\ done[k].unique \in Nat

\* The leaf that the pivots lead to for a key (btree_lookup_node).
Child(a, k) == LET i == FindKey(node[a], k) IN Entry(node[a], IF i < 0 THEN 0 ELSE i).child
LeafOf(k) ==
  LET step[a \in DOMAIN node] == IF Leaf(a) THEN a ELSE step[Child(a, k)]
  IN step[Root]

\* Nothing is lost: a key whose message has been incorporated is found, with
\* every message merged into it, in the leaf the pivots lead to, unless that
\* leaf is being written (btree_insert, its splits and defragmentations).
CommittedFound ==
  \A k \in Keys : LET a == LeafOf(k) IN
    \/ Locked(a)
    \/ done[k].merged = 0 /\ ~Found(node[a], k)
    \/ Found(node[a], k) /\ Entry(node[a], FindKey(node[a], k)).n = done[k].merged

\* A lookup returns every message incorporated before it began and nothing
\* that is not incorporated when it returns (btree_lookup).
LookupFresh ==
  \A t \in Threads : LET th == thread[t] IN
    At(t, "return") /\ th.op.kind = "lookup" =>
      th.base[th.op.key] <= th.out[1] /\ th.out[1] <= done[th.op.key].merged

\* An iterator gives keys of its range in order, each once, every key that was
\* in the tree when it began among them, forward and backward, while leaves
\* split around it (the guarantee stated before btree_iterator_init).
ScanComplete ==
  \A t \in Threads : LET th == thread[t] IN
    At(t, "return") /\ th.op.kind = "scan" =>
      LET keys == [i \in DOMAIN th.out |-> th.out[i][1]]
          range == th.op.min .. th.op.max - 1
      IN /\ \A i \in 1 .. Len(keys) - 1 :
              IF th.op.forward THEN keys[i] < keys[i + 1] ELSE keys[i] > keys[i + 1]
         /\ {k \in range : th.base[k] > 0} \subseteq ToSet(keys)
         /\ ToSet(keys) \subseteq {k \in range : done[k].merged > 0}
         /\ \A i \in DOMAIN th.out : th.out[i][2] >= th.base[keys[i]]

\* Exactly one of the inserts of a key reports that the key was new, however
\* they interleave (was_unique counts a memtable's tuples).
UniqueOnce == \A k \in Keys : done[k].unique = IF done[k].merged > 0 THEN 1 ELSE 0

\* What platform_assert says holds where it is evaluated: the tuple fits into
\* the leaf it is put into, and the pivot into the parent; an iterator always
\* has a neighbour to go to.
AssertionsHold ==
  \A t \in Threads : LET th == thread[t] IN
    /\ At(t, "leaf") => CanPerform(node[th.c], th.spec)
    /\ At(t, "defragment") => CanPerform(DefragmentLeaf(node[th.c], th.spec), Removed(th.spec))
    /\ At(t, "splitchild") => NumEntries(node[th.p]) < IndexMax
    /\ At(t, "splitleft") =>
         /\ NumEntries(node[th.at]) > 0 /\ (th.plan.goesLeft \/ th.plan.split > 0)
         /\ th.plan.goesLeft => CanPerform(CleanupLeftNode(node[th.c], th.spec, th.plan, th.at),
                                           LeftSpec(node[th.c], th.spec, th.plan))
    /\ At(t, "nextleaf") => th.leaf # None
    /\ At(t, "prevleaf") => th.at # None

\* Every operation returns: an iterator that claims a leaf and waits for the
\* parent of the leaf before, and the split of that leaf that waits for the
\* claim, do not wait for one another for ever.
Returns == []<>(IdleThreads = Threads)

=============================================================================
