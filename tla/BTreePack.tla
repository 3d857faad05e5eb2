----------------------------- MODULE BTreePack -----------------------------
(***************************************************************************)
(* Packing a branch (btree_pack, src/splinterdb/src/btree.c): the tuples   *)
(* of an iterator fill leaves from left to right; the nodes of an extent   *)
(* get their parent when the extent is full, and so on upward.  A node is  *)
(* named by its height and its number there, which also gives its extent.  *)
(***************************************************************************)
EXTENDS Integers, Sequences, FiniteSets, SequencesExt

CONSTANTS
  MaxEntries,      \* entries that fit into a node
  PagesPerExtent   \* pages of an extent

ASSUME BTreePackAssumption ==
  MaxEntries \in Nat \ {0, 1} /\ PagesPerExtent \in Nat \ {0}

NoNode == <<>>
MaxHeight == 6     \* BTREE_MAX_HEIGHT bounds the edges; enough for the inputs
Heights == 0 .. MaxHeight

EmptyTree == [root |-> NoNode, nodes |-> <<>>]

\* btree_pack_setup_start
PackStart(max_tuples) ==
  [height |-> 0, edge |-> [h \in Heights |-> <<>>], edge_stats |-> [h \in Heights |-> <<>>],
   allocated |-> [h \in Heights |-> 0], nodes |-> <<>>,
   tuples |-> 0, max_tuples |-> max_tuples, fingerprints |-> <<>>, status |-> "ok"]

SharesExtent(a, b) == a[2] \div PagesPerExtent = b[2] \div PagesPerExtent

\* The key by which a node is linked.
FirstKey(node) == Head(node.entries).key

-----------------------------------------------------------------------------
(***************************************************************************)
(* Building.                                                               *)
(***************************************************************************)

WithEntry(req, node, entry) == [req EXCEPT !.nodes[node].entries = Append(@, entry)]
HasRoom(req, h) == req.edge[h] # <<>> /\ Len(req.nodes[Last(req.edge[h])].entries) < MaxEntries

\* Faulty: counted for the first node of the edge.
FaultyAddToStats(req, h, count) == [req EXCEPT !.edge_stats[h] = [@ EXCEPT ![1] = @ + count]]
\* The statistics of the node that is being filled.
AddToStats(req, h, count) == [req EXCEPT !.edge_stats[h] = [@ EXCEPT ![Len(@)] = @ + count]]

RECURSIVE CreateNextNode(_, _)

\* btree_pack_link_node: an entry in the parent, which is created if there is
\* none or it is full.
LinkNode(req, h, i, next_extent) ==
  LET node == req.edge[h][i]
      count == req.edge_stats[h][i]
      left == [req EXCEPT !.nodes[node].next_extent = next_extent]
      parented == IF HasRoom(left, h + 1) THEN left ELSE CreateNextNode(left, h + 1)
      entry == [key |-> FirstKey(left.nodes[node]), child |-> node, num_kvs |-> count]
  IN AddToStats(WithEntry(parented, Last(parented.edge[h + 1]), entry), h + 1, count)

\* btree_pack_link_extent
LinkExtent(req, h, next_extent) ==
  [FoldLeft(LAMBDA r, i : LinkNode(r, h, i, next_extent), req, [i \in DOMAIN req.edge[h] |-> i])
     EXCEPT !.edge[h] = <<>>, !.edge_stats[h] = <<>>]

\* btree_pack_create_next_node: when it begins an extent, the full one before
\* it is linked.
CreateNextNode(req, h) ==
  LET new == <<h, req.allocated[h]>>
      Node(prev) == [entries |-> <<>>, prev |-> prev, next |-> NoNode, next_extent |-> NoNode]
      old == IF req.edge[h] = <<>> THEN NoNode ELSE Last(req.edge[h])
      chained == [req EXCEPT !.allocated[h] = @ + 1,
                    !.nodes = [n \in DOMAIN @ \cup {new} |->
                                 IF n = new THEN Node(old)
                                 ELSE IF n = old THEN [@[n] EXCEPT !.next = new] ELSE @[n]]]
      linked == IF old # NoNode /\ ~SharesExtent(old, new) THEN LinkExtent(chained, h, new)
                ELSE chained
  IN [linked EXCEPT !.height = IF @ < h THEN h ELSE @,
                    !.edge[h] = Append(@, new), !.edge_stats[h] = Append(@, 0)]

\* btree_pack_loop for one tuple
PackLoop(req, tuple, hash) ==
  LET there == IF HasRoom(req, 0) THEN req ELSE CreateNextNode(req, 0)
      added == AddToStats(WithEntry(there, Last(there.edge[0]), tuple), 0, 1)
  IN [added EXCEPT !.tuples = @ + 1, !.fingerprints = Append(@, hash[tuple.key])]

RECURSIVE LinkUp(_, _)
LinkUp(req, h) ==
  IF h < req.height \/ 1 < Len(req.edge[h]) THEN LinkUp(LinkExtent(req, h, NoNode), h + 1) ELSE req

\* btree_pack_post_loop: the rest is linked, and the topmost node copied into
\* the page that was made as the root.  An empty tree is given back.
PostLoop(req) ==
  IF req.tuples = 0 THEN EmptyTree
  ELSE LET up == LinkUp(req, 0)
           root == <<up.height + 1, 0>>
           top == up.nodes[up.edge[up.height][1]]
       IN [root |-> root, nodes |-> [n \in DOMAIN up.nodes \cup {root} |->
                                       IF n = root THEN [top EXCEPT !.next_extent = NoNode]
                                       ELSE up.nodes[n]]]

\* btree_pack of the tuples an iterator gives: the tree and its fingerprints.
Pack(tuples, max_tuples, hash) ==
  LET Step(req, tuple) ==
        IF req.status # "ok" THEN req
        ELSE IF req.tuples >= req.max_tuples THEN [req EXCEPT !.status = "limit_exceeded"]
        ELSE PackLoop(req, tuple, hash)
      req == FoldLeft(Step, PackStart(max_tuples), tuples)
  IN IF req.status # "ok"
     THEN [status |-> req.status, tree |-> EmptyTree, num_tuples |-> req.tuples, fingerprints |-> <<>>]
     ELSE [status |-> "ok", tree |-> PostLoop(req), num_tuples |-> req.tuples,
           fingerprints |-> req.fingerprints]

-----------------------------------------------------------------------------
(***************************************************************************)
(* Reading a packed tree.                                                  *)
(***************************************************************************)

HeightOf(tree, node) == IF node = tree.root THEN node[1] - 1 ELSE node[1]

\* btree_find_pivot, at least 0: the last entry whose key is not above the target.
ChildIndex(entries, target) ==
  LET at == {i \in DOMAIN entries : entries[i].key <= target}
  IN IF at = {} THEN 1 ELSE CHOOSE i \in at : \A j \in at : j <= i

\* btree_lookup_node down to the leaf, with the tuples left of the way.
RECURSIVE LookupNode(_, _, _, _)
LookupNode(tree, node, target, rank) ==
  LET entries == tree.nodes[node].entries
      i == ChildIndex(entries, target)
      before == FoldLeft(LAMBDA n, e : n + e.num_kvs, 0, SubSeq(entries, 1, i - 1))
  IN IF HeightOf(tree, node) = 0 THEN [leaf |-> node, rank |-> rank]
     ELSE LookupNode(tree, entries[i].child, target, rank + before)

LeafOf(tree, target) == tree.nodes[LookupNode(tree, tree.root, target, 0).leaf]

\* The tuples with a key in a packed tree: one or none.
Search(tree, k) ==
  IF tree.root = NoNode THEN {}
  ELSE {e \in Range(LeafOf(tree, k).entries) : e.key = k}

\* btree_get_rank
GetRank(tree, target) ==
  LET at == LookupNode(tree, tree.root, target, 0)
  IN at.rank + Cardinality({i \in DOMAIN tree.nodes[at.leaf].entries :
                              tree.nodes[at.leaf].entries[i].key < target})

\* btree_count_in_range
CountInRange(tree, min, max) ==
  LET min_rank == GetRank(tree, min)
      max_rank == GetRank(tree, max)
  IN IF min_rank < max_rank THEN max_rank - min_rank ELSE 0

\* What a btree iterator gives from the leaf of its first key on along the
\* chain of leaves.
RECURSIVE Chain(_, _)
Chain(tree, node) ==
  IF node = NoNode THEN <<>>
  ELSE tree.nodes[node].entries \o Chain(tree, tree.nodes[node].next)

Iterate(tree, min, max) ==
  IF tree.root = NoNode THEN <<>>
  ELSE SelectSeq(Chain(tree, LookupNode(tree, tree.root, min, 0).leaf),
                 LAMBDA e : min <= e.key /\ e.key < max)
=============================================================================
