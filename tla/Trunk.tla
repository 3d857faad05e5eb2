------------------------------- MODULE Trunk -------------------------------
(***************************************************************************)
(* The trunk of SplinterDB (trunk.c): a copy-on-write tree whose nodes     *)
(* refer to branches.  Incorporations add a branch at the root, flush      *)
(* bundles of branches down and split nodes; background tasks compact the  *)
(* bundles a pivot received into one branch, build the pivot's maplet, and *)
(* apply both to a new root, unless the pivot has changed in the meantime. *)
(* Old nodes stay as long as somebody refers to them or reads them.        *)
(*                                                                         *)
(* A modification holds the claim of the root lock from its begin to its   *)
(* end, so it is one step here for everything other modifications see; the *)
(* steps that tasks and readers see in between are steps of their own.     *)
(***************************************************************************)
EXTENDS Integers, Sequences, FiniteSets, SequencesExt

CONSTANTS
  NumKeys,            \* keys 0 .. NumKeys - 1; 0 and NumKeys are the infinities
  TargetFanout,       \* cfg->target_fanout
  TupleLimit,         \* tuples above which a leaf may split and a pivot is flushed
  IncorporationSize,  \* cfg->incorporation_size_kv_bytes, counted in tuples
  Threads,            \* threads that run background tasks and read
  Bounds              \* the sets of bounds that a behaviour may have

Keys == 0 .. NumKeys - 1

\* memtables has the sets of keys a memtable may hold, gens bounds the
\* incorporations, threads the threads in use and readers those that read,
\* fails the compactions that fail, remounts the mounts after an unmount.
ASSUME TrunkAssumption ==
  /\ NumKeys \in Nat \ {0} /\ TargetFanout \in Nat \ {0, 1}
  /\ TupleLimit \in Nat /\ IncorporationSize \in Nat
  /\ \A b \in Bounds :
       /\ b.memtables \subseteq SUBSET Keys
       /\ b.gens \in Nat /\ b.threads \in Nat /\ b.readers \in Nat
       /\ b.fails \in Nat /\ b.remounts \in Nat

VARIABLES
  t,        \* the trunk context and everything on disk it refers to
  inc,      \* where the incorporation is: idle, prepared or committed
  written,  \* the key sets of the branches incorporated so far, in order
  thread,   \* what each thread does: nothing, a task or a read
  fails,    \* failed compactions
  mounts,   \* remounts, and what the super block's root has
  bound     \* the bounds of this behaviour
vars == <<t, inc, written, thread, fails, mounts, bound>>

-----------------------------------------------------------------------------
(***************************************************************************)
(* Branches, maplets and bundles.  A branch maps a key to the generations  *)
(* whose messages for the key it holds; a maplet maps a key to the indexes *)
(* of the branches of its bundle that may have it.                         *)
(***************************************************************************)

Fresh(S) == CHOOSE n \in 1 .. Cardinality(S) + 1 : n \notin S
Fail(T, name) == [T EXCEPT !.err = @ \cup {name}]
Check(T, ok, name) == IF ok THEN T ELSE Fail(T, name)

NoMaplet == 0
NoBranch == 0
EmptyBundle == [maplet |-> NoMaplet, branches |-> <<>>]
SingleBundle(b) == [maplet |-> NoMaplet, branches |-> <<b>>]

Tuples(T, b, lo, hi) ==
  Cardinality({k \in lo .. hi - 1 : T.branch[b].gens[k] # {}})
BundleTuples(T, bndl, lo, hi) ==
  FoldLeft(LAMBDA n, b : n + Tuples(T, b, lo, hi), 0, bndl.branches)
BundlesTuples(T, bndls, lo, hi) ==
  FoldLeft(LAMBDA n, x : n + BundleTuples(T, x, lo, hi), 0, bndls)

IncBranch(T, b) == [T EXCEPT !.branch[b].ref = @ + 1]
DecBranch(T, b) ==
  IF T.branch[b].ref > 1 THEN [T EXCEPT !.branch[b].ref = @ - 1]
  ELSE [T EXCEPT !.branch = [x \in DOMAIN @ \ {b} |-> @[x]]]
IncMaplet(T, m) == IF m = NoMaplet THEN T ELSE [T EXCEPT !.maplet[m].ref = @ + 1]
DecMaplet(T, m) ==
  IF m = NoMaplet THEN T
  ELSE IF T.maplet[m].ref > 1 THEN [T EXCEPT !.maplet[m].ref = @ - 1]
  ELSE [T EXCEPT !.maplet = [x \in DOMAIN @ \ {m} |-> @[x]]]

BundleIncRefs(T, bndl) ==
  FoldLeft(IncBranch,
           IncMaplet(Check(T, bndl.maplet # NoMaplet \/ Len(bndl.branches) <= 1, "bundle"),
                     bndl.maplet),
           bndl.branches)
BundleDecRefs(T, bndl) == FoldLeft(DecBranch, DecMaplet(T, bndl.maplet), bndl.branches)

-----------------------------------------------------------------------------
(***************************************************************************)
(* Nodes.  In memory a node has its pivots' keys, one pivot and one pivot  *)
(* bundle per child, the inflight bundles from the oldest to the newest    *)
(* and num_old_bundles; on disk the inflight bundles are reversed, start   *)
(* with the first live one, and a pivot counts its live ones.              *)
(***************************************************************************)

Pivot(child, start, pre, stats) ==
  [child |-> child, inflight_bundle_start |-> start,
   prereceive_stats |-> pre, stats |-> stats]

NumChildren(n) == Len(n.pivots)
IsLeaf(n) == n.height = 0

EmptyLeaf(lo, hi) ==
  [height |-> 0, keys |-> <<lo, hi>>, pivots |-> <<Pivot(0, 0, 0, 0)>>,
   pivot_bundles |-> <<EmptyBundle>>, num_old_bundles |-> 0, inflight_bundles |-> <<>>]

FirstLiveInflightBundle(n) ==
  LET starts == {n.pivots[i].inflight_bundle_start : i \in DOMAIN n.pivots}
  IN  CHOOSE s \in starts : \A x \in starts : s <= x

HasReceivedBundles(n, i) ==
  /\ n.pivots[i].inflight_bundle_start <= n.num_old_bundles
  /\ n.num_old_bundles < Len(n.inflight_bundles)

ReceivedStats(p) == p.stats - p.prereceive_stats

WellFormed(n) ==
  /\ Len(n.keys) = Len(n.pivots) + 1
  /\ Len(n.pivot_bundles) = Len(n.pivots)
  /\ n.num_old_bundles <= Len(n.inflight_bundles)
  /\ \A i \in DOMAIN n.pivots :
       /\ n.keys[i] < n.keys[i + 1]
       /\ (n.pivots[i].child = 0) = IsLeaf(n)
       /\ n.pivots[i].inflight_bundle_start <= Len(n.inflight_bundles)
       /\ n.pivots[i].prereceive_stats >= 0
       /\ n.pivots[i].stats >= 0
  /\ IsLeaf(n) => Len(n.pivots) = 1

PivotDeserialize(p, inflight) ==
  Pivot(p.child, Len(inflight) - p.num_live_inflight_bundles, p.stats, p.stats)

NodeDeserialize(T, a) ==
  LET d == T.node[a] IN
  [height |-> d.height, keys |-> d.keys,
   pivots |-> [i \in DOMAIN d.pivots |-> PivotDeserialize(d.pivots[i], d.inflight_bundles)],
   pivot_bundles |-> d.pivot_bundles,
   num_old_bundles |-> Len(d.inflight_bundles),
   inflight_bundles |-> Reverse(d.inflight_bundles)]

(***************************************************************************)
(* References.  busy is the set of node addresses for which cache_in_use   *)
(* is true; locked says whether the caller holds pending_gcs_lock.         *)
(***************************************************************************)
RECURSIVE NodeDecRef(_, _, _, _)

NodeGc(T, a, busy, locked) ==
  LET d  == T.node[a]
      T1 == FoldLeft(LAMBDA S, p : IF p.child = 0 THEN S ELSE NodeDecRef(S, p.child, busy, locked),
                     T, d.pivots)
      T2 == FoldLeft(BundleDecRefs, T1, d.pivot_bundles \o d.inflight_bundles)
  IN  [T2 EXCEPT !.node = [x \in DOMAIN @ \ {a} |-> @[x]]]

\* Faulty variants of the operators, for mutation runs, stand before them.
\* This one frees a node at once, whoever reads it.
FaultyNodeDecRef(T, a, busy, locked) ==
  LET T1 == [T EXCEPT !.node[a].ref = @ - 1] IN
  IF T1.node[a].ref > 0 THEN T1 ELSE NodeGc(T1, a, busy, locked)

NodeDecRef(T, a, busy, locked) ==
  LET T1 == [T EXCEPT !.node[a].ref = @ - 1] IN
  IF T1.node[a].ref > 0 THEN T1
  ELSE IF a \in busy
       THEN IF locked THEN Fail(T1, "pending_gcs_lock")
            ELSE [T1 EXCEPT !.pending_gcs = Append(@, a)]
  ELSE NodeGc(T1, a, busy, locked)

NodeRefDestroy(T, a, busy) == IF a = 0 THEN T ELSE NodeDecRef(T, a, busy, FALSE)

NodeIncAllRefs(T, d) ==
  LET T1 == FoldLeft(LAMBDA S, p : IF p.child = 0 THEN S
                                   ELSE [S EXCEPT !.node[p.child].ref = @ + 1],
                     T, d.pivots)
  IN  FoldLeft(BundleIncRefs, T1, d.pivot_bundles \o d.inflight_bundles)

PivotSerialize(p, inflight) ==
  [child |-> p.child, stats |-> p.stats,
   num_live_inflight_bundles |-> Len(inflight) - p.inflight_bundle_start]

\* Writes n to a new address; the result holds one reference on it.
NodeSerialize(T, n) ==
  LET a    == Fresh(DOMAIN T.node)
      live == SubSeq(n.inflight_bundles, FirstLiveInflightBundle(n) + 1, Len(n.inflight_bundles))
      d    == [height |-> n.height, keys |-> n.keys, ref |-> 1,
               pivots |-> [i \in DOMAIN n.pivots |->
                             PivotSerialize(n.pivots[i], n.inflight_bundles)],
               pivot_bundles |-> n.pivot_bundles,
               inflight_bundles |-> Reverse(live)]
      T1   == Check(T, WellFormed(n), "well_formed")
  IN  [t |-> [NodeIncAllRefs(T1, d) EXCEPT !.node = (a :> d) @@ @], addr |-> a]

SerializeNodes(T, nodes) ==
  FoldLeft(LAMBDA r, n : LET s == NodeSerialize(r.t, n)
                         IN  [t |-> s.t,
                              refs |-> Append(r.refs, [key |-> n.keys[1], addr |-> s.addr])],
           [t |-> T, refs |-> <<>>], nodes)

SerializeNodesAndSaveCompactions(T, nodes) ==
  LET r == SerializeNodes(T, nodes)
  IN  [r EXCEPT !.t.tasks = @ \o nodes]

RefsDestroy(T, refs, busy) ==
  FoldLeft(LAMBDA S, r : NodeRefDestroy(S, r.addr, busy), T, refs)

-----------------------------------------------------------------------------
(***************************************************************************)
(* Modification of the root and deferred garbage collection                *)
(***************************************************************************)

RECURSIVE PerformPendingGcs(_, _)
PerformPendingGcs(T, busy) ==
  IF T.pending_gcs = <<>> \/ Head(T.pending_gcs) \in busy THEN T
  ELSE PerformPendingGcs(
         [NodeGc(T, Head(T.pending_gcs), busy, TRUE) EXCEPT !.pending_gcs = Tail(@)], busy)

ModificationEnd(T, busy) == PerformPendingGcs(T, busy)

SetRoot(T, a, busy) == NodeRefDestroy([T EXCEPT !.root = a], T.root, busy)

-----------------------------------------------------------------------------
(***************************************************************************)
(* Pivot states.  T.state has every state that is referenced; T.map those  *)
(* in the pivot state map.  A compaction is known by its oldest input      *)
(* branch, on which it holds a reference.                                  *)
(***************************************************************************)

\* Forgets the output.
FaultyBundleCompactionDestroy(T, bc) == FoldLeft(DecBranch, T, bc.input_branches)

BundleCompactionDestroy(T, bc) ==
  LET T1 == FoldLeft(DecBranch, T, bc.input_branches)
  IN  IF bc.output_branch = NoBranch THEN T1 ELSE DecBranch(T1, bc.output_branch)

BundleCompactionCreate(T, n, i, s) ==
  LET p     == n.pivots[i]
      first == p.inflight_bundle_start + T.state[s].total_bundles
      new   == SubSeq(n.inflight_bundles, first + 1, Len(n.inflight_bundles))
      input == FlattenSeq([j \in DOMAIN new |-> new[j].branches])
      T1    == Check(Check(T, first = n.num_old_bundles, "first_new_bundle"),
                     ReceivedStats(p) >= 0, "received_stats")
  IN  [t  |-> FoldLeft(IncBranch, T1, input),
       bc |-> [num_bundles |-> Len(new), input_stats |-> ReceivedStats(p),
               state |-> "not_started", input_branches |-> input,
               output_branch |-> NoBranch, output_stats |-> 0]]

StateFor(T, key, height) ==
  {s \in T.map : T.state[s].key = key /\ T.state[s].height = height}

StateDestroy(T, s) ==
  LET T1 == DecMaplet(T, T.state[s].maplet)
      T2 == FoldLeft(BundleCompactionDestroy, T1, T.state[s].bundle_compactions)
  IN  [T2 EXCEPT !.state = [x \in DOMAIN @ \ {s} |-> @[x]]]

CreateEntry(T, key, ubkey, height, bndl) ==
  LET s == Fresh(DOMAIN T.state) IN
  [IncMaplet(T, bndl.maplet) EXCEPT
     !.state = (s :> [key |-> key, ubkey |-> ubkey, height |-> height, refcount |-> 1,
                      maplet_compaction_initiated |-> FALSE, abandoned |-> FALSE,
                      maplet |-> bndl.maplet, num_branches |-> Len(bndl.branches),
                      maplet_compaction_failed |-> FALSE, total_bundles |-> 0,
                      bundle_compactions |-> <<>>]) @@ @,
     !.map = @ \cup {s}]

GetOrCreateEntry(T, key, ubkey, height, bndl) ==
  LET S == StateFor(T, key, height) IN
  IF S = {} THEN CreateEntry(T, key, ubkey, height, bndl)
  ELSE [T EXCEPT !.state[CHOOSE s \in S : TRUE].refcount = @ + 1]

ReleaseEntry(T, s) ==
  LET T1 == [T EXCEPT !.state[s].refcount = @ - 1] IN
  IF T1.state[s].refcount > 0 THEN T1
  ELSE StateDestroy([T1 EXCEPT !.map = @ \ {s}], s)

\* Leaves the entry in the map.
FaultyAbandonEntry(T, key, height) ==
  FoldLeft(LAMBDA S, s : [S EXCEPT !.state[s].abandoned = TRUE],
           T, SetToSeq(StateFor(T, key, height)))

AbandonEntry(T, key, height) ==
  FoldLeft(LAMBDA S, s : [S EXCEPT !.state[s].abandoned = TRUE, !.map = @ \ {s}],
           T, SetToSeq(StateFor(T, key, height)))

AppendCompaction(T, s, bc) ==
  [Check(T, bc.input_branches # <<>>, "input_branches") EXCEPT
     !.state[s].bundle_compactions = Append(@, bc),
     !.state[s].total_bundles = @ + bc.num_bundles]

EnqueueMapletCompaction(T, s) ==
  IF T.state[s].maplet_compaction_initiated THEN T
  ELSE [T EXCEPT !.state[s].maplet_compaction_initiated = TRUE,
                 !.state[s].refcount = @ + 1,
                 !.queue = Append(@, [fn |-> "maplet", state |-> s])]

EnqueueOne(T, n, i) ==
  LET T1 == GetOrCreateEntry(T, n.keys[i], n.keys[i + 1], n.height, n.pivot_bundles[i])
      s  == CHOOSE x \in StateFor(T1, n.keys[i], n.height) : TRUE
      r  == BundleCompactionCreate(T1, n, i, s)
      T2 == AppendCompaction(r.t, s, r.bc)
      T3 == [T2 EXCEPT !.state[s].refcount = @ + 1,
                       !.queue = Append(@, [fn |-> "bundle", state |-> s])]
  IN  ReleaseEntry(T3, s)

EnqueueBundleCompaction(T, n) ==
  FoldLeft(LAMBDA S, i : IF HasReceivedBundles(n, i) THEN EnqueueOne(S, n, i) ELSE S,
           T, [i \in DOMAIN n.pivots |-> i])

IncorporationTasksExecute(T) ==
  [FoldLeft(EnqueueBundleCompaction, T, T.tasks) EXCEPT !.tasks = <<>>]

-----------------------------------------------------------------------------
(***************************************************************************)
(* Flushes and splits                                                      *)
(***************************************************************************)

\* Takes the routed bundle for the newest.
FaultyReceiveBundles(T, n, routed, inflight, start) ==
  LET late == SubSeq(inflight, start + 1, Len(inflight))
      new  == late \o (IF routed.branches = <<>> THEN <<>> ELSE <<routed>>)
  IN  [n EXCEPT
         !.inflight_bundles = @ \o new,
         !.pivots = [i \in DOMAIN @ |->
                       [@[i] EXCEPT !.stats =
                          @ + BundlesTuples(T, <<routed>> \o late, n.keys[i], n.keys[i + 1])]]]

\* routed is the pivot bundle of the parent, empty if there is none.
ReceiveBundles(T, n, routed, inflight, start) ==
  LET late == SubSeq(inflight, start + 1, Len(inflight))
      new  == (IF routed.branches = <<>> THEN <<>> ELSE <<routed>>) \o late
  IN  [n EXCEPT
         !.inflight_bundles = @ \o new,
         !.pivots = [i \in DOMAIN @ |->
                       [@[i] EXCEPT !.stats =
                          @ + BundlesTuples(T, <<routed>> \o late, n.keys[i], n.keys[i + 1])]]]

\* leaf_might_need_to_split; if so, any number of leaves may be estimated.
MightNeedToSplit(leaf) == TupleLimit < leaf.pivots[1].stats

\* The keys at which a leaf is cut: among those that the estimate offers, the
\* ones that its branches have.
SelectPivots(T, leaf, cut) ==
  LET live == <<leaf.pivot_bundles[1]>> \o leaf.inflight_bundles
  IN  IF MightNeedToSplit(leaf)
      THEN {k \in cut : /\ leaf.keys[1] < k /\ k < leaf.keys[2]
                        /\ BundlesTuples(T, live, k, k + 1) > 0}
      ELSE {}

LeafSplitInit(T, leaf, lo, hi) ==
  ReceiveBundles(T, EmptyLeaf(lo, hi), leaf.pivot_bundles[1], leaf.inflight_bundles,
                 leaf.pivots[1].inflight_bundle_start)

EventualNumBranches(T, n, i) ==
  LET S == StateFor(T, n.keys[i], n.height) IN
    Len(n.pivot_bundles[i].branches)
  + (IF S = {} THEN 0 ELSE Len(T.state[CHOOSE s \in S : TRUE].bundle_compactions))
  + (IF HasReceivedBundles(n, i) THEN 1 ELSE 0)

\* The leaves that replace the leaf: itself if it need not change.
LeafSplit(T, leaf, cut) ==
  LET pivots == SelectPivots(T, leaf, cut)
      keys   == SetToSortSeq(pivots \cup {leaf.keys[1], leaf.keys[2]}, <)
  IN  IF pivots = {} /\ EventualNumBranches(T, leaf, 1) <= TargetFanout
      THEN [abandon |-> FALSE, leaves |-> <<leaf>>]
      ELSE [abandon |-> TRUE,
            leaves  |-> [i \in 1 .. Len(keys) - 1 |-> LeafSplitInit(T, leaf, keys[i], keys[i + 1])]]

RestoreBalanceLeaf(T, leaf, cut) ==
  LET r == LeafSplit(T, leaf, cut)
  IN  SerializeNodesAndSaveCompactions(
        IF r.abandon THEN AbandonEntry(T, leaf.keys[1], 0) ELSE T, r.leaves)

IndexInitSplit(n, start, end) ==
  [n EXCEPT !.keys = SubSeq(@, start + 1, end + 1),
            !.pivots = SubSeq(@, start + 1, end),
            !.pivot_bundles = SubSeq(@, start + 1, end)]

IndexSplit(n) ==
  LET children == NumChildren(n)
      num      == (children + TargetFanout - 1) \div TargetFanout
  IN  [i \in 1 .. num |->
         IndexInitSplit(n, ((i - 1) * children) \div num, (i * children) \div num)]

\* Replaces pivot i of an index by pivots for the children the flush returned.
ReplacePivot(n, i, refs) ==
  LET Splice(s, new) == SubSeq(s, 1, i - 1) \o new \o SubSeq(s, i + 1, Len(s)) IN
  [n EXCEPT
     !.keys = Splice(@, [j \in DOMAIN refs |-> refs[j].key]),
     !.pivots = Splice(@, [j \in DOMAIN refs |->
                             Pivot(refs[j].addr, Len(n.inflight_bundles), 0, 0)]),
     !.pivot_bundles = Splice(@, [j \in DOMAIN refs |-> EmptyBundle])]

RECURSIVE FlushThenCompact(_, _, _, _, _, _, _)

FlushToOneChild(T, n, i, cut, busy) ==
  LET r == FlushThenCompact(T, NodeDeserialize(T, n.pivots[i].child), n.pivot_bundles[i],
                            n.inflight_bundles, n.pivots[i].inflight_bundle_start, cut, busy)
  IN  [t |-> AbandonEntry(r.t, n.keys[i], n.height), node |-> ReplacePivot(n, i, r.refs),
       refs |-> r.refs]

MustFlush(T, n, i) ==
  \/ TargetFanout < EventualNumBranches(T, n, i)
  \/ TupleLimit < n.pivots[i].stats

\* The loop of restore_balance_index from child i on; f has the fullest child.
RECURSIVE FlushFullChildren(_, _, _, _, _, _)
FlushFullChildren(r, i, f, bytes, cut, busy) ==
  IF i > NumChildren(r.node) THEN
    IF IncorporationSize < bytes
    THEN LET x == FlushToOneChild(r.t, r.node, f, cut, busy)
         IN  [x EXCEPT !.refs = r.refs \o @]
    ELSE r
  ELSE IF MustFlush(r.t, r.node, i) THEN
    LET x == FlushToOneChild(r.t, r.node, i, cut, busy)
    IN  FlushFullChildren([x EXCEPT !.refs = r.refs \o @], i + 1, f, bytes, cut, busy)
  ELSE IF bytes < r.node.pivots[i].stats
  THEN FlushFullChildren(r, i + 1, i, r.node.pivots[i].stats, cut, busy)
  ELSE FlushFullChildren(r, i + 1, f, bytes, cut, busy)

RestoreBalanceIndex(T, n, cut, busy) ==
  LET r == FlushFullChildren([t |-> T, node |-> n, refs |-> <<>>], 1, 1, 0, cut, busy)
      s == SerializeNodesAndSaveCompactions(r.t, IndexSplit(r.node))
  IN  [s EXCEPT !.t = RefsDestroy(@, r.refs, busy)]

FlushThenCompact(T, n, routed, inflight, start, cut, busy) ==
  LET m == ReceiveBundles(T, n, routed, inflight, start) IN
  IF IsLeaf(m) THEN RestoreBalanceLeaf(T, m, cut) ELSE RestoreBalanceIndex(T, m, cut, busy)

NewRoot(height, refs) ==
  [height |-> height, keys |-> [j \in DOMAIN refs |-> refs[j].key] \o <<NumKeys>>,
   pivots |-> [j \in DOMAIN refs |-> Pivot(refs[j].addr, 0, 0, 0)],
   pivot_bundles |-> [j \in DOMAIN refs |-> EmptyBundle],
   num_old_bundles |-> 0, inflight_bundles |-> <<>>]

RECURSIVE BuildNewRoots(_, _, _, _)
BuildNewRoots(T, height, refs, busy) ==
  IF Len(refs) = 1 THEN [t |-> T, refs |-> refs]
  ELSE LET r == SerializeNodes(T, IndexSplit(NewRoot(height + 1, refs)))
       IN  BuildNewRoots(RefsDestroy(r.t, refs, busy), height + 1, r.refs, busy)

-----------------------------------------------------------------------------
(***************************************************************************)
(* Compaction results.  args has the state and what the succeeded          *)
(* compactions at its front produced.                                      *)
(***************************************************************************)

PivotMatchesCompaction(T, n, i, args) ==
  LET st    == T.state[args.state]
      start == n.pivots[i].inflight_bundle_start
  IN  /\ start + args.num_input_bundles <= Len(n.inflight_bundles)
      /\ st.key = n.keys[i] /\ st.ubkey = n.keys[i + 1]
      /\ n.pivot_bundles[i].maplet = st.maplet
      /\ n.inflight_bundles[start + 1].branches[1]
           = st.bundle_compactions[1].input_branches[1]

\* trunk_apply_changes_maplet_compaction on the first pivot that matches.
ApplyMapletCompaction(T, n, args) ==
  LET I == {i \in DOMAIN n.pivots : PivotMatchesCompaction(T, n, i, args)}
      i == CHOOSE x \in I : \A y \in I : x <= y
  IN  IF I = {} THEN [t |-> T, node |-> n, found |-> FALSE]
      ELSE [t     |-> Check(T, args.delta <= n.pivots[i].stats, "tuple_counts"),
            node  |-> [n EXCEPT
                         !.pivot_bundles[i].maplet = args.new_maplet,
                         !.pivot_bundles[i].branches = @ \o args.branches,
                         !.pivots[i].inflight_bundle_start = @ + args.num_input_bundles,
                         !.pivots[i].stats = @ - args.delta],
            found |-> TRUE]

RECURSIVE ApplyChanges(_, _, _, _)
ApplyChanges(T, a, args, busy) ==
  LET n  == NodeDeserialize(T, a)
      st == T.state[args.state]
      Overlaps(i) == n.keys[i] < st.ubkey /\ st.key < n.keys[i + 1]
      Child(r, i) ==
        IF ~Overlaps(i) THEN r
        ELSE LET c == ApplyChanges(r.t, r.node.pivots[i].child, args, busy)
             IN  [t |-> c.t, node |-> [r.node EXCEPT !.pivots[i].child = c.addr],
                  found |-> r.found \/ c.found,
                  refs |-> Append(r.refs, [addr |-> c.addr])]
      r  == IF n.height = st.height
            THEN ApplyMapletCompaction(T, n, args) @@ [refs |-> <<>>]
            ELSE FoldLeft(Child, [t |-> T, node |-> n, found |-> FALSE, refs |-> <<>>],
                          [i \in DOMAIN n.pivots |-> i])
      s  == NodeSerialize(r.t, r.node)
  IN  [t |-> RefsDestroy(s.t, r.refs, busy), addr |-> s.addr, found |-> r.found]

Succeeded(st) ==
  LET bcs == st.bundle_compactions
      all == {m \in 0 .. Len(bcs) : \A j \in 1 .. m : bcs[j].state = "succeeded"}
  IN  SubSeq(bcs, 1, CHOOSE m \in all : \A x \in all : x <= m)

\* The maplet of a pivot, with the keys of the new branches added.
RoutingFilterAdd(T, m, num_branches, branches) ==
  [k \in Keys |->
     (IF m = NoMaplet THEN {} ELSE T.maplet[m].index[k])
     \cup {num_branches + j : j \in {x \in DOMAIN branches : T.branch[branches[x]].gens[k] # {}}}]

\* Counts the input of the compactions, not what they saved.
FaultyMapletArgs(T, s) ==
  LET st  == T.state[s]
      bcs == Succeeded(st)
      out == SelectSeq([j \in DOMAIN bcs |-> bcs[j].output_branch], LAMBDA b : b # NoBranch)
      m   == IF out = <<>> THEN st.maplet ELSE Fresh(DOMAIN T.maplet)
  IN  [state |-> s, new_maplet |-> m, branches |-> out, num_compactions |-> Len(bcs),
       num_input_bundles |-> FoldLeft(LAMBDA n, bc : n + bc.num_bundles, 0, bcs),
       delta |-> FoldLeft(LAMBDA n, bc : n + bc.input_stats, 0, bcs)]

MapletArgs(T, s) ==
  LET st  == T.state[s]
      bcs == Succeeded(st)
      out == SelectSeq([j \in DOMAIN bcs |-> bcs[j].output_branch], LAMBDA b : b # NoBranch)
      m   == IF out = <<>> THEN st.maplet ELSE Fresh(DOMAIN T.maplet)
  IN  [state |-> s, new_maplet |-> m, branches |-> out, num_compactions |-> Len(bcs),
       num_input_bundles |-> FoldLeft(LAMBDA n, bc : n + bc.num_bundles, 0, bcs),
       delta |-> FoldLeft(LAMBDA n, bc : n + bc.input_stats - bc.output_stats, 0, bcs)]

\* Does not look for compactions that were done meanwhile.
FaultyMapletApplied(T, args) ==
  LET s  == args.state
      st == T.state[s]
      T1 == IF args.new_maplet = st.maplet THEN T ELSE DecMaplet(T, st.maplet)
      T2 == [T1 EXCEPT
               !.state[s].maplet = args.new_maplet,
               !.state[s].num_branches = @ + Len(args.branches),
               !.state[s].total_bundles = @ - args.num_input_bundles,
               !.state[s].bundle_compactions =
                 SubSeq(@, args.num_compactions + 1, Len(@)),
               !.state[s].maplet_compaction_initiated = FALSE]
  IN  FoldLeft(BundleCompactionDestroy, T2,
               SubSeq(st.bundle_compactions, 1, args.num_compactions))

\* Applied: the state keeps the new maplet and drops the compactions.
MapletApplied(T, args) ==
  LET s  == args.state
      st == T.state[s]
      T1 == IF args.new_maplet = st.maplet THEN T ELSE DecMaplet(T, st.maplet)
      T2 == [T1 EXCEPT
               !.state[s].maplet = args.new_maplet,
               !.state[s].num_branches = @ + Len(args.branches),
               !.state[s].total_bundles = @ - args.num_input_bundles,
               !.state[s].bundle_compactions =
                 SubSeq(@, args.num_compactions + 1, Len(@)),
               !.state[s].maplet_compaction_initiated = FALSE]
      T3 == FoldLeft(BundleCompactionDestroy, T2,
                     SubSeq(st.bundle_compactions, 1, args.num_compactions))
      rest == T3.state[s].bundle_compactions
  IN  IF rest # <<>> /\ Head(rest).state = "succeeded"
      THEN EnqueueMapletCompaction(T3, s) ELSE T3

-----------------------------------------------------------------------------
(***************************************************************************)
(* Lookups                                                                 *)
(***************************************************************************)

\* A node, a pivot and a bundle are found through the pages of the node.
NodeAt(T, a) == T.node[a]
PivotAt(d, i) == d.pivots[i]
BundleAt(d, j) == d.inflight_bundles[j]

FindPivot(d, k) == CHOOSE i \in DOMAIN d.pivots : d.keys[i] <= k /\ k < d.keys[i + 1]

\* The indexes of the branches that a bundle's maplet sends a lookup to.
FoundValues(T, bndl, k) ==
  IF bndl.maplet = NoMaplet THEN DOMAIN bndl.branches ELSE T.maplet[bndl.maplet].index[k]

BundleLookup(T, bndl, k) ==
  LET newest == Reverse(SetToSortSeq(FoundValues(T, bndl, k), <))
  IN  [j \in DOMAIN newest |-> bndl.branches[newest[j]]]

\* All bundles of a node, and those a pivot's key must look in.
Bundles(d) == d.pivot_bundles \o d.inflight_bundles
LiveBundles(d, i) ==
  [j \in 1 .. PivotAt(d, i).num_live_inflight_bundles |-> BundleAt(d, j)]
    \o <<d.pivot_bundles[i]>>

\* The branches that a lookup of k from the node at a visits, in its order.
NodeLookup(T, d, i, k) ==
  LET bndls == LiveBundles(d, i)
  IN  FlattenSeq([j \in DOMAIN bndls |-> BundleLookup(T, bndls[j], k)])

RECURSIVE MergeLookup(_, _, _)
MergeLookup(T, a, k) ==
  IF a = 0 THEN <<>>
  ELSE LET d == NodeAt(T, a)
           i == FindPivot(d, k)
       IN  NodeLookup(T, d, i, k) \o MergeLookup(T, PivotAt(d, i).child, k)

\* The branches an iterator at k collects: all of them, newest first.
RECURSIVE CollectBranches(_, _, _)
CollectBranches(T, a, k) ==
  IF a = 0 THEN <<>>
  ELSE LET d     == NodeAt(T, a)
           i     == FindPivot(d, k)
           bndls == LiveBundles(d, i)
       IN  FlattenSeq([j \in DOMAIN bndls |-> Reverse(bndls[j].branches)])
             \o CollectBranches(T, PivotAt(d, i).child, k)

-----------------------------------------------------------------------------
(***************************************************************************)
(* The state machine                                                       *)
(***************************************************************************)

Idle == [pc |-> "idle"]

Init ==
  /\ t = [node |-> <<>>, branch |-> <<>>, maplet |-> <<>>, state |-> <<>>, map |-> {},
          root |-> 0, post |-> 0, pre |-> 0, super |-> 0, tasks |-> <<>>, queue |-> <<>>,
          pending_gcs |-> <<>>, err |-> {}]
  /\ inc = "idle"
  /\ written = <<>>
  /\ thread = [w \in Threads |-> Idle]
  /\ fails = 0
  /\ mounts = [count |-> 0, gen |-> 0]
  /\ bound \in Bounds

\* The nodes whose pages are in use: readers keep the handle of their root.
InUse == {thread[r].root : r \in {x \in Threads : thread[x].pc = "lookup"}}

\* A thread may begin something.
Free(w) ==
  /\ thread[w].pc = "idle"
  /\ Cardinality({x \in Threads : thread[x].pc # "idle"}) < bound.threads

ClaimFree ==
  /\ inc = "idle"
  /\ t.err = {}

(***************************************************************************)
(* Incorporation.  The caller drops the memtable's reference on the branch *)
(* as soon as it is prepared.                                              *)
(***************************************************************************)
IncorporatePrepare(keys, cut) ==
  LET g  == Len(written) + 1
      b  == Fresh(DOMAIN t.branch)
      T1 == [t EXCEPT !.branch =
               (b :> [gens |-> [k \in Keys |-> IF k \in keys THEN {g} ELSE {}], ref |-> 1]) @@ @]
      n  == IF t.root = 0 THEN EmptyLeaf(0, NumKeys) ELSE NodeDeserialize(t, t.root)
      r  == FlushThenCompact(T1, n, EmptyBundle, <<SingleBundle(b)>>, 0, cut, InUse)
      u  == BuildNewRoots(r.t, n.height, r.refs, InUse)
  IN  /\ ClaimFree
      /\ Len(written) < bound.gens
      /\ t' = DecBranch([u.t EXCEPT !.post = u.refs[1].addr], b)
      /\ inc' = "prepared"
      /\ written' = Append(written, keys)
      /\ UNCHANGED <<thread, fails, mounts, bound>>

IncorporateCommit ==
  /\ inc = "prepared"
  /\ t.err = {}
  /\ t' = [t EXCEPT !.pre = t.root, !.root = t.post, !.post = 0]
  /\ inc' = "committed"
  /\ UNCHANGED <<written, thread, fails, mounts, bound>>

IncorporateCleanup ==
  /\ inc = "committed"
  /\ t.err = {}
  /\ LET T1 == [NodeRefDestroy(t, t.pre, InUse) EXCEPT !.pre = 0]
     IN  t' = ModificationEnd(IncorporationTasksExecute(T1), InUse)
  /\ inc' = "idle"
  /\ UNCHANGED <<written, thread, fails, mounts, bound>>

(***************************************************************************)
(* bundle_compaction_task                                                  *)
(***************************************************************************)
Compaction(s, bc) ==
  CHOOSE j \in DOMAIN t.state[s].bundle_compactions :
    t.state[s].bundle_compactions[j].input_branches[1] = bc

\* The task starts: it leaves an abandoned state, or takes a compaction.
BundleStart(w) ==
  /\ Free(w) /\ t.err = {}
  /\ t.queue # <<>> /\ Head(t.queue).fn = "bundle"
  /\ LET s   == Head(t.queue).state
         bcs == t.state[s].bundle_compactions
         New == {j \in DOMAIN bcs : bcs[j].state = "not_started"}
         j   == CHOOSE x \in New : \A y \in New : x <= y
         T1  == [t EXCEPT !.queue = Tail(@)]
     IN  IF t.state[s].abandoned
         THEN /\ t' = T1
              /\ thread' = [thread EXCEPT ![w] = [pc |-> "release", state |-> s]]
         ELSE IF New = {}
         THEN /\ t' = Fail(T1, "no_compaction")
              /\ UNCHANGED thread
         ELSE /\ t' = [T1 EXCEPT !.state[s].bundle_compactions[j].state = "in_progress"]
              /\ thread' = [thread EXCEPT ![w] = [pc |-> "pack", state |-> s,
                                                  bc |-> bcs[j].input_branches[1]]]
  /\ UNCHANGED <<inc, written, fails, mounts, bound>>

MergeGens(T, input, lo, hi) ==
  [k \in Keys |-> IF lo <= k /\ k < hi
                  THEN UNION {T.branch[input[x]].gens[k] : x \in DOMAIN input} ELSE {}]

\* The merge of the inputs over the range of the state is packed.
BundlePack(w) ==
  /\ thread[w].pc = "pack" /\ t.err = {}
  /\ LET s    == thread[w].state
         st   == t.state[s]
         j    == Compaction(s, thread[w].bc)
         gens == MergeGens(t, st.bundle_compactions[j].input_branches, st.key, st.ubkey)
         out  == Cardinality({k \in Keys : gens[k] # {}})
         b    == IF out = 0 THEN NoBranch ELSE Fresh(DOMAIN t.branch)
     IN  /\ ~st.maplet_compaction_failed
         /\ t' = [t EXCEPT
                    !.branch = IF out = 0 THEN @ ELSE (b :> [gens |-> gens, ref |-> 1]) @@ @,
                    !.state[s].bundle_compactions[j].output_branch = b,
                    !.state[s].bundle_compactions[j].output_stats = out,
                    !.state[s].bundle_compactions[j].state = "succeeded"]
  /\ thread' = [thread EXCEPT ![w].pc = "packed"]
  /\ UNCHANGED <<inc, written, fails, mounts, bound>>

\* The merge or the pack fails, or an earlier failure makes it pointless.
BundleFail(w) ==
  /\ thread[w].pc = "pack" /\ t.err = {}
  /\ LET s == thread[w].state
         j == Compaction(s, thread[w].bc)
     IN  /\ IF t.state[s].maplet_compaction_failed THEN UNCHANGED fails
            ELSE fails < bound.fails /\ fails' = fails + 1
         /\ t' = [t EXCEPT !.state[s].bundle_compactions[j].state = "failed"]
  /\ thread' = [thread EXCEPT ![w].pc = "packed"]
  /\ UNCHANGED <<inc, written, mounts, bound>>

BundleFinish(w) ==
  /\ thread[w].pc = "packed" /\ t.err = {}
  /\ LET s   == thread[w].state
         bcs == t.state[s].bundle_compactions
         own == bcs # <<>> /\ bcs[1].input_branches[1] = thread[w].bc
                /\ bcs[1].state = "succeeded"
     IN  t' = IF own THEN EnqueueMapletCompaction(t, s) ELSE t
  /\ thread' = [thread EXCEPT ![w] = [pc |-> "release", state |-> thread[w].state]]
  /\ UNCHANGED <<inc, written, fails, mounts, bound>>

Release(w) ==
  /\ thread[w].pc = "release" /\ t.err = {}
  /\ t' = ReleaseEntry(t, thread[w].state)
  /\ thread' = [thread EXCEPT ![w] = Idle]
  /\ UNCHANGED <<inc, written, fails, mounts, bound>>

(***************************************************************************)
(* maplet_compaction_task                                                  *)
(***************************************************************************)
MapletStart(w) ==
  /\ Free(w) /\ t.err = {}
  /\ t.queue # <<>> /\ Head(t.queue).fn = "maplet"
  /\ LET s    == Head(t.queue).state
         st   == t.state[s]
         args == MapletArgs(t, s)
         T1   == [t EXCEPT !.queue = Tail(@)]
     IN  IF st.abandoned
         THEN /\ t' = [T1 EXCEPT !.state[s].maplet_compaction_failed = TRUE]
              /\ thread' = [thread EXCEPT ![w] = [pc |-> "release", state |-> s]]
         ELSE IF args.num_input_bundles = 0
         THEN /\ t' = Fail(T1, "no_maplet_input")
              /\ UNCHANGED thread
         ELSE /\ t' = [T1 EXCEPT !.maplet =
                         IF args.new_maplet = st.maplet THEN @
                         ELSE (args.new_maplet :>
                                 [index |-> RoutingFilterAdd(t, st.maplet, st.num_branches,
                                                             args.branches),
                                  ref |-> 1]) @@ @]
              /\ thread' = [thread EXCEPT ![w] = [pc |-> "apply", state |-> s, args |-> args]]
  /\ UNCHANGED <<inc, written, fails, mounts, bound>>

MapletApply(w) ==
  /\ thread[w].pc = "apply" /\ ClaimFree
  /\ LET args == thread[w].args
         s    == args.state
         r    == ApplyChanges(t, t.root, args, InUse)
         T1   == SetRoot(r.t, r.addr, InUse)
         lost == [T1 EXCEPT !.map = @ \ {s}, !.state[s].maplet_compaction_failed = TRUE]
     IN  t' = ModificationEnd(
                IF r.found THEN MapletApplied(T1, args)
                ELSE IF args.new_maplet = t.state[s].maplet THEN lost
                ELSE DecMaplet(lost, args.new_maplet), InUse)
  /\ thread' = [thread EXCEPT ![w] = [pc |-> "release", state |-> thread[w].state]]
  /\ UNCHANGED <<inc, written, fails, mounts, bound>>

\* routing_filter_add refuses the j-th output, and with it the task ends.  The
\* maplet built for the outputs before it is dropped right after the call.
FilterFail(w) ==
  /\ Free(w) /\ t.err = {}
  /\ t.queue # <<>> /\ Head(t.queue).fn = "maplet"
  /\ fails < bound.fails
  /\ fails' = fails + 1
  /\ LET s    == Head(t.queue).state
         args == MapletArgs(t, s)
     IN  /\ ~t.state[s].abandoned
         /\ t' = [t EXCEPT !.queue = Tail(@)]
         /\ \E j \in DOMAIN args.branches :
              thread' = [thread EXCEPT ![w] =
                           [pc |-> "undo", state |-> s,
                            maplet |-> IF j = 1 THEN NoMaplet ELSE args.new_maplet]]
  /\ UNCHANGED <<inc, written, mounts, bound>>

\* The error exit after that: new_maplet still names the maplet that is gone,
\* and it is dropped again.  Its extent is free by now, which fails the
\* assertion of rc_allocator_dec_ref, or a new owner loses a reference.
MapletUndo(w) ==
  /\ thread[w].pc = "undo" /\ t.err = {}
  /\ LET m  == thread[w].maplet
         T1 == [t EXCEPT !.state[thread[w].state].maplet_compaction_failed = TRUE]
     IN  t' = IF m = NoMaplet THEN T1
              ELSE Fail(T1, IF m \in DOMAIN t.maplet THEN "dec_ref_other" ELSE "dec_ref_free")
  /\ thread' = [thread EXCEPT ![w] = [pc |-> "release", state |-> thread[w].state]]
  /\ UNCHANGED <<inc, written, fails, mounts, bound>>

\* An append or the change of the tree fails: the pivot is stuck, and the new
\* maplet is dropped once.
MapletFail(w) ==
  /\ thread[w].pc = "apply" /\ t.err = {}
  /\ fails < bound.fails
  /\ fails' = fails + 1
  /\ LET args == thread[w].args
         T1   == [t EXCEPT !.state[args.state].maplet_compaction_failed = TRUE]
     IN  t' = IF args.new_maplet = t.state[args.state].maplet THEN T1
              ELSE DecMaplet(T1, args.new_maplet)
  /\ thread' = [thread EXCEPT ![w] = [pc |-> "release", state |-> thread[w].state]]
  /\ UNCHANGED <<inc, written, mounts, bound>>

(***************************************************************************)
(* Readers                                                                 *)
(***************************************************************************)
RootGen == IF inc = "prepared" THEN Len(written) - 1 ELSE Len(written)

InitRootHandle(r) ==
  /\ t.err = {}
  /\ t.root # 0
  /\ Free(r)
  /\ Cardinality({x \in Threads : thread[x].pc \in {"lookup", "scan"}}) < bound.readers
  /\ thread' = [thread EXCEPT ![r] = [pc |-> "lookup", root |-> t.root, gen |-> RootGen]]
  /\ UNCHANGED <<t, inc, written, fails, mounts, bound>>

EndLookup(r) ==
  /\ thread[r].pc = "lookup" /\ t.err = {}
  /\ thread' = [thread EXCEPT ![r] = Idle]
  /\ UNCHANGED <<t, inc, written, fails, mounts, bound>>

\* An iterator takes references on the branches and releases the nodes.
BeginScan(r, k) ==
  /\ thread[r].pc = "lookup" /\ t.err = {}
  /\ LET bs == CollectBranches(t, thread[r].root, k) IN
       /\ t' = FoldLeft(IncBranch, t, bs)
       /\ thread' = [thread EXCEPT ![r] = [pc |-> "scan", branches |-> bs, key |-> k,
                                           gen |-> thread[r].gen]]
  /\ UNCHANGED <<inc, written, fails, mounts, bound>>

EndScan(r) ==
  /\ thread[r].pc = "scan" /\ t.err = {}
  /\ t' = FoldLeft(DecBranch, t, thread[r].branches)
  /\ thread' = [thread EXCEPT ![r] = Idle]
  /\ UNCHANGED <<inc, written, fails, mounts, bound>>

(***************************************************************************)
(* Unmount and mount.  All other calls have returned and the task system   *)
(* is quiescent; the super block takes a reference on the root and drops   *)
(* the one on the root before, and the context its own.  The mount takes   *)
(* both again.                                                             *)
(***************************************************************************)
ContextDeinit(T) ==
  LET T1 == Check(T, T.map = {}, "num_states")
      T2 == PerformPendingGcs(NodeRefDestroy([T1 EXCEPT !.root = 0], T.root, {}), {})
  IN  Check(T2, T2.pending_gcs = <<>>, "pending_gcs")

IncRoot(T, a) == [T EXCEPT !.node[a].ref = @ + 1]

Remount ==
  /\ ClaimFree
  /\ mounts.count < bound.remounts
  /\ t.root # 0
  /\ t.queue = <<>>
  /\ \A w \in Threads : thread[w].pc = "idle"
  /\ LET T1 == NodeRefDestroy([IncRoot(t, t.root) EXCEPT !.super = t.root], t.super, {})
         T2 == ContextDeinit(T1)
     IN  t' = [IncRoot(T2, T2.super) EXCEPT !.root = T2.super]
  /\ mounts' = [count |-> mounts.count + 1, gen |-> Len(written)]
  /\ UNCHANGED <<inc, written, thread, fails, bound>>

Incorporate ==
  \/ \E keys \in bound.memtables, cut \in SUBSET (1 .. NumKeys - 1) :
       IncorporatePrepare(keys, cut)
  \/ IncorporateCommit
  \/ IncorporateCleanup

Task(w) ==
  \/ BundleStart(w) \/ BundlePack(w) \/ BundleFail(w) \/ BundleFinish(w) \/ Release(w)
  \/ MapletStart(w) \/ FilterFail(w) \/ MapletUndo(w) \/ MapletFail(w) \/ MapletApply(w)

Read(r) ==
  \/ InitRootHandle(r) \/ EndLookup(r) \/ EndScan(r)
  \/ \E k \in Keys : BeginScan(r, k)

Next ==
  \/ Incorporate
  \/ \E w \in Threads : Task(w) \/ Read(w)
  \/ Remount

Spec == Init /\ [][Next]_vars

-----------------------------------------------------------------------------
(***************************************************************************)
(* Properties                                                              *)
(***************************************************************************)

Written(k, gen) == {g \in 1 .. gen : k \in written[g]}

\* A sequence of branches answers k as of generation gen: every message is
\* met once, and a newer one before an older one.
Answers(T, branches, k, gen) ==
  LET Gens(j) == T.branch[branches[j]].gens[k] IN
  /\ \A j \in DOMAIN branches : branches[j] \in DOMAIN T.branch
  /\ UNION {Gens(j) : j \in DOMAIN branches} = Written(k, gen)
  /\ \A i, j \in DOMAIN branches : i < j => \A g \in Gens(i), h \in Gens(j) : g > h

RootAnswers(T, a, gen) == \A k \in Keys : Answers(T, MergeLookup(T, a, k), k, gen)

\* Lookups from the root, from the one about to be committed and from the
\* one just replaced see every incorporated message once, newest first.
LookupsRight ==
  /\ RootAnswers(t, t.root, RootGen)
  /\ inc = "prepared" => RootAnswers(t, t.post, Len(written))
  /\ inc = "committed" /\ t.pre # 0 => RootAnswers(t, t.pre, Len(written) - 1)

\* What a reader or the super block holds stays as it was.
SnapshotIntact ==
  /\ \A r \in Threads :
       /\ thread[r].pc = "lookup" =>
            /\ thread[r].root \in DOMAIN t.node
            /\ RootAnswers(t, thread[r].root, thread[r].gen)
       /\ thread[r].pc = "scan" =>
            Answers(t, thread[r].branches, thread[r].key, thread[r].gen)
  /\ t.super # 0 => RootAnswers(t, t.super, mounts.gen)

\* Every node, branch and maplet that something refers to is there, and a
\* node on disk is one that trunk_node_deserialize can give back.
TypeOK ==
  /\ inc \in {"idle", "prepared", "committed"}
  /\ written \in Seq(SUBSET Keys)
  /\ {t.root, t.pre, t.post, t.super} \subseteq DOMAIN t.node \cup {0}
  /\ t.map \subseteq DOMAIN t.state
  /\ \A a \in DOMAIN t.node :
       /\ WellFormed(NodeDeserialize(t, a))
       /\ \A i \in DOMAIN t.node[a].pivots :
            t.node[a].pivots[i].child \in DOMAIN t.node \cup {0}
       /\ \A x \in Range(Bundles(t.node[a])) :
            /\ Range(x.branches) \subseteq DOMAIN t.branch
            /\ x.maplet \in DOMAIN t.maplet \cup {NoMaplet}

Count(s, x) == Cardinality({i \in DOMAIN s : s[i] = x})
CountIn(bndls, b) == FoldLeft(LAMBDA n, x : n + Count(x.branches, b), 0, bndls)

NodeRefs(a) ==
    MapThenSumSet(LAMBDA x : Cardinality({i \in DOMAIN t.node[x].pivots :
                                            t.node[x].pivots[i].child = a}), DOMAIN t.node)
  + Cardinality({f \in {"root", "pre", "post", "super"} : t[f] = a})

BranchRefs(b) ==
  LET Held(bc) == Count(bc.input_branches, b) + (IF bc.output_branch = b THEN 1 ELSE 0)
      Scans    == {w \in Threads : thread[w].pc = "scan"}
  IN    MapThenSumSet(LAMBDA x : CountIn(Bundles(t.node[x]), b), DOMAIN t.node)
      + MapThenSumSet(LAMBDA s : FoldLeft(LAMBDA n, bc : n + Held(bc), 0,
                                          t.state[s].bundle_compactions), DOMAIN t.state)
      + MapThenSumSet(LAMBDA w : Count(thread[w].branches, b), Scans)

MapletRefs(m) ==
  LET Building == {w \in Threads : thread[w].pc = "apply"} IN
    MapThenSumSet(LAMBDA x : Cardinality({i \in DOMAIN Bundles(t.node[x]) :
                                            Bundles(t.node[x])[i].maplet = m}), DOMAIN t.node)
  + Cardinality({s \in DOMAIN t.state : t.state[s].maplet = m})
  + Cardinality({w \in Building : /\ thread[w].args.new_maplet = m
                                  /\ t.state[thread[w].state].maplet # m})

\* The allocator's count of every node, branch and maplet is the number of
\* things that refer to it, through all copies, flushes, splits, compactions
\* and failed compactions: nothing is freed early and nothing leaks, up to the
\* first assertion that fails or maplet that is dropped twice (MapletUndo).  A
\* node without references is waiting, once, for a reader to let go of it.
RefsBalanced ==
  t.err = {} =>
    /\ \A a \in DOMAIN t.node :
         /\ t.node[a].ref = NodeRefs(a)
         /\ Count(t.pending_gcs, a) = IF t.node[a].ref = 0 THEN 1 ELSE 0
    /\ \A b \in DOMAIN t.branch : t.branch[b].ref = BranchRefs(b)
    /\ \A m \in DOMAIN t.maplet : t.maplet[m].ref = MapletRefs(m)

\* The stats of a pivot, by which flushes and splits are decided and from
\* which compactions subtract what they saved, are exactly the tuples of
\* the pivot's live branches in its range.
StatsExact ==
  \A a \in DOMAIN t.node : LET d == t.node[a] IN
    \A i \in DOMAIN d.pivots :
      d.pivots[i].stats = BundlesTuples(t, LiveBundles(d, i), d.keys[i], d.keys[i + 1])

\* A pivot whose oldest compaction is done has somebody on the way to apply
\* it: the maplet task, or the thread that is about to enqueue it.
NotStranded ==
  \A s \in t.map :
    LET bcs == t.state[s].bundle_compactions IN
    (bcs # <<>> /\ bcs[1].state = "succeeded" /\ ~t.state[s].maplet_compaction_failed) =>
      \/ \E j \in DOMAIN t.queue : t.queue[j] = [fn |-> "maplet", state |-> s]
      \/ \E w \in Threads :
           /\ thread[w].pc \in {"packed", "apply", "undo"} /\ thread[w].state = s
           /\ thread[w].pc = "packed" => thread[w].bc = bcs[1].input_branches[1]

\* Which assertions may fail, and after what.  Without a failed compaction,
\* only the count of new bundles that bundle_compaction_create asserts, and
\* not before a fourth incorporation (NewBundlesFound).  After a failed one,
\* that count, and the second drop of the maplet by maplet_compaction_task.
\* The other nine (tuple counts below zero, a task without a compaction, pivot
\* states or pending nodes left at an unmount, ...) hold in all cases.
AssertionsHold ==
  t.err \subseteq IF fails > 0 THEN {"first_new_bundle", "dec_ref_free", "dec_ref_other"}
                  ELSE IF Len(written) > 3 THEN {"first_new_bundle"} ELSE {}

\* bundle_compaction_create finds that the bundles a pivot's state knows are
\* exactly the ones the node had before (trunk.c:2830).
NewBundlesFound == "first_new_bundle" \notin t.err
=============================================================================
