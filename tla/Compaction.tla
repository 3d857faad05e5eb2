----------------------------- MODULE Compaction -----------------------------
(***************************************************************************)
(* What a compaction computes, for one pivot of a trunk node: memtables    *)
(* are packed into branches (core_memtable_compact), branches are merged   *)
(* into one (bundle_compaction_task), and the pivot's maplet is extended   *)
(* by the fingerprints of the result (maplet_compaction_task).  Lookups    *)
(* ask the maplet which branches to search.  Trunk has the interleavings   *)
(* of these tasks with changes of the tree; this module has the data.      *)
(***************************************************************************)
EXTENDS MergeIterator, RoutingFilter, BTreePack

CONSTANTS
  NumKeys,      \* keys are 1 .. NumKeys
  Lb, Ub,       \* the pivot's bounds
  Memtables,    \* contents of memtables: functions from keys to message classes
  Hashes,       \* hash functions, from keys to fingerprints
  MaxFlushes    \* memtables flushed in a behaviour

Keys == 1 .. NumKeys
PivotKeys == Lb .. Ub - 1
MaxFingerprints == MaxFlushes * NumKeys    \* routing_filter_max_fingerprints

ASSUME CompactionAssumption ==
  /\ NumKeys \in Nat /\ Lb \in Keys /\ Ub \in Lb + 1 .. NumKeys + 1 /\ MaxFlushes \in Nat
  /\ \A mt \in Memtables : DOMAIN mt \subseteq Keys /\ DOMAIN mt # {}
  /\ \A h \in Hashes : DOMAIN h = Keys /\ Range(h) \subseteq 0 .. 2 ^ FingerprintSize - 1

VARIABLES
  leaf,         \* the node is a leaf
  hash,
  memtables,    \* those flushed so far, oldest first
  inflight,     \* the pivot's inflight branches, oldest first
  compactions,  \* the pivot state's bundle compactions, oldest first
  branches,     \* the branches of the pivot bundle, oldest first
  maplet        \* and its routing filter
vars == <<leaf, hash, memtables, inflight, compactions, branches, maplet>>

\* tuples is what the tree was packed from.
Branch(tuples, packed) == [tuples |-> tuples, tree |-> packed.tree]

-----------------------------------------------------------------------------
(***************************************************************************)
(* Steps.                                                                  *)
(***************************************************************************)

MemtableTuples(mt, n) ==
  LET keys == Ascending(DOMAIN mt)
  IN [i \in DOMAIN keys |-> [key |-> keys[i], msg |-> Message(mt[keys[i]], n)]]

\* core_memtable_compact, and the pivot receives the branch.
Flush(mt) ==
  /\ Len(memtables) < MaxFlushes
  /\ memtables' = Append(memtables, mt)
  /\ LET tuples == MemtableTuples(mt, Len(memtables'))
     IN inflight' = Append(inflight, Branch(tuples, Pack(tuples, MaxFingerprints, hash)))
  /\ UNCHANGED <<leaf, hash, compactions, branches, maplet>>

\* Faulty: the branches of the pivot bundle are forgotten.
FaultyMergeMode == IF leaf /\ compactions = <<>> THEN "full" ELSE "intermediate"
\* bundle_compaction_create: what is older than the merged branches forbids a
\* full merge.
MergeMode == IF leaf /\ compactions = <<>> /\ branches = <<>> THEN "full" ELSE "intermediate"

BundlesTaken(cs) == FoldLeft(LAMBDA n, c : n + c.num_bundles, 0, cs)

EnqueueCompaction ==
  LET old == BundlesTaken(compactions)
  IN /\ old < Len(inflight)
     /\ compactions' = Append(compactions,
          [state |-> "not_started", merge_mode |-> MergeMode,
           inputs |-> SubSeq(inflight, old + 1, Len(inflight)),
           num_bundles |-> Len(inflight) - old, output |-> Branch(<<>>, [tree |-> EmptyTree]),
           fingerprints |-> <<>>])
     /\ UNCHANGED <<leaf, hash, memtables, inflight, branches, maplet>>

\* Faulty: the greatest count instead of the sum.
FaultyTupleBound(inputs) ==
  FoldLeft(LAMBDA n, b : IF n < CountInRange(b.tree, Lb, Ub) THEN CountInRange(b.tree, Lb, Ub) ELSE n,
           0, inputs)
\* compute_tuple_bound
TupleBound(inputs) == FoldLeft(LAMBDA n, b : n + CountInRange(b.tree, Lb, Ub), 0, inputs)

\* What a merge iterator gives, from its current entry on.
RECURSIVE Drain(_)
Drain(mi) == IF MergeCanCurr(mi) THEN <<mi.curr>> \o Drain(MergeNext(mi)) ELSE <<>>

\* bundle_compaction_task: branches restricted to the pivot's bounds (the
\* branch merger), merged and packed.
CompactBundles(i) ==
  /\ compactions[i].state = "not_started"
  /\ LET bc == compactions[i]
         in == [n \in DOMAIN bc.inputs |-> Iterate(bc.inputs[n].tree, Lb, Ub)]
         tuples == Drain(MergeCreate(bc.merge_mode, TRUE, in, [n \in DOMAIN in |-> 1]))
         packed == Pack(tuples, TupleBound(bc.inputs), hash)
     IN compactions' = [compactions EXCEPT ![i] =
          IF packed.status = "ok"
          THEN [@ EXCEPT !.state = "succeeded", !.output = Branch(tuples, packed),
                         !.fingerprints = packed.fingerprints]
          ELSE [@ EXCEPT !.state = "failed"]]
  /\ UNCHANGED <<leaf, hash, memtables, inflight, branches, maplet>>

\* The compactions that have succeeded, up to the first that has not.
Finished ==
  LET todo == {i \in DOMAIN compactions : compactions[i].state # "succeeded"}
  IN IF todo = {} THEN compactions
     ELSE SubSeq(compactions, 1, (CHOOSE i \in todo : \A j \in todo : i <= j) - 1)

\* The value a new branch gets in the maplet: its number in the pivot bundle.
Value(pivot) == Len(pivot.branches)

\* maplet_compaction_task: the outputs join the pivot bundle in turn, all but
\* the empty ones.
BuildMaplet ==
  /\ Finished # <<>>
  /\ LET Add(pivot, bc) ==
           IF bc.output.tree.root = NoNode THEN pivot
           ELSE [maplet |-> RoutingFilterAdd(pivot.maplet, bc.fingerprints, Value(pivot)),
                 branches |-> Append(pivot.branches, bc.output)]
         pivot == FoldLeft(Add, [maplet |-> maplet, branches |-> branches], Finished)
     IN /\ maplet' = pivot.maplet
        /\ branches' = pivot.branches
  /\ inflight' = SubSeq(inflight, BundlesTaken(Finished) + 1, Len(inflight))
  /\ compactions' = SubSeq(compactions, Len(Finished) + 1, Len(compactions))
  /\ UNCHANGED <<leaf, hash, memtables>>

Init ==
  /\ leaf \in BOOLEAN
  /\ hash \in Hashes
  /\ memtables = <<>> /\ inflight = <<>> /\ compactions = <<>> /\ branches = <<>>
  /\ maplet = NullFilter

Next ==
  \/ \E mt \in Memtables : Flush(mt)
  \/ EnqueueCompaction
  \/ \E i \in DOMAIN compactions : CompactBundles(i)
  \/ BuildMaplet

Spec == Init /\ [][Next]_vars

-----------------------------------------------------------------------------
(***************************************************************************)
(* Lookups, which change nothing: trunk_merge_lookup in a pivot.           *)
(***************************************************************************)

NoMessage == [class |-> "none", parts |-> <<>>]

\* The message found so far, with an older one of the branch.
MergeFrom(found, branch, k) ==
  LET older == Search(branch.tree, k)
  IN IF older = {} \/ Definitive(found) THEN found
     ELSE LET msg == (CHOOSE e \in older : TRUE).msg
          IN IF found = NoMessage THEN msg ELSE DataMergeTuples(msg, found)

\* The branches of the pivot bundle that the maplet names, newest first.
RECURSIVE MergeNamed(_, _, _, _)
MergeNamed(found, named, last, k) ==
  LET value == GetNextValue(named, last)
  IN IF value = NotFound THEN found
     ELSE MergeNamed(MergeFrom(found, branches[value + 1], k), named, value, k)

Lookup(k) ==
  LET new == FoldLeft(LAMBDA found, b : MergeFrom(found, b, k), NoMessage, Reverse(inflight))
  IN MergeNamed(new, RoutingFilterLookup(maplet, hash[k]), NotFound, k)

-----------------------------------------------------------------------------
(***************************************************************************)
(* Properties                                                              *)
(***************************************************************************)

\* The value of a key after the memtables, applied from the oldest on.
Content(k) ==
  LET Apply(value, n) ==
        IF k \notin DOMAIN memtables[n] THEN value
        ELSE CASE memtables[n][k] = "insert" -> <<n>>
               [] memtables[n][k] = "update" -> <<n>> \o value
               [] memtables[n][k] = "delete" -> <<>>
  IN FoldLeft(Apply, <<>>, [n \in DOMAIN memtables |-> n])

\* A lookup in the pivot finds what was written, whatever has been compacted:
\* no deletion is dropped while something older is left, no update is lost or
\* applied twice, and the maplet leaves out no branch that holds the key.
LookupRight == \A k \in PivotKeys : Lookup(k).parts = Content(k)

\* The maplet names exactly the branches with a key of the fingerprint, across
\* all sizes it grows through (routing_filter_add, routing_filter_lookup).
MapletExact ==
  \A fp \in 0 .. 2 ^ FingerprintSize - 1 :
    RoutingFilterLookup(maplet, fp) =
      {b - 1 : b \in {n \in DOMAIN branches :
                        \E i \in DOMAIN branches[n].tuples : hash[branches[n].tuples[i].key] = fp}}

\* A branch never changes: the last one flushed, and the outputs.
NewBranches ==
  {inflight[i] : i \in DOMAIN inflight \cap {Len(inflight)}}
  \cup {compactions[i].output : i \in DOMAIN compactions}

FirstOfNextExtent(tree, node) ==
  LET later == {n \in DOMAIN tree.nodes : n # tree.root /\ n[1] = node[1] /\ n[2] > node[2]
                                          /\ ~SharesExtent(n, node)}
  IN IF later = {} THEN NoNode ELSE CHOOSE n \in later : \A m \in later : n[2] <= m[2]

\* A packed branch holds its tuples: from the root, along the leaves in both
\* directions, and by the counts in its pivots; a leaf knows the extent to
\* read ahead (btree_pack, btree_count_in_range).
BranchesRight ==
  \A b \in NewBranches : b.tree.root # NoNode =>
    LET tree == b.tree
        keys == {b.tuples[i].key : i \in DOMAIN b.tuples}
    IN /\ Iterate(tree, 1, NumKeys + 1) = b.tuples
       /\ \A k \in Keys : (Search(tree, k) # {}) = (k \in keys)
       /\ \A min, max \in 1 .. NumKeys + 1 :
            min <= max => CountInRange(tree, min, max) = Cardinality({k \in keys : min <= k /\ k < max})
       /\ \A n \in DOMAIN tree.nodes \ {tree.root} :
            /\ tree.nodes[n].next # NoNode => tree.nodes[tree.nodes[n].next].prev = n
            /\ HeightOf(tree, tree.root) > n[1] =>
                 tree.nodes[n].next_extent = FirstOfNextExtent(tree, n)

\* No compaction runs into the limit of its fingerprint array, which is sized
\* by counting the inputs beforehand (compute_tuple_bound).
WithinBound == \A i \in DOMAIN compactions : compactions[i].state # "failed"
=============================================================================
