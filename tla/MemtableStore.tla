---------------------------- MODULE MemtableStore ----------------------------
(***************************************************************************)
(* Memtable implements KeyStore: a query is busy while it walks over the   *)
(* memtables under the lookup lock, an iterator gives the newest value     *)
(* that its memtables and branches have, and what the closed store holds   *)
(* is what its trunk holds.                                                *)
(***************************************************************************)
EXTENDS MemtableInv

Doing(r) ==
    CASE pc[r] \in {"look", "scan"} -> "busy"
      [] pc[r] = "found"            -> "lookup"
      [] pc[r] = "open"             -> "scan"
      [] OTHER                      -> "idle"

\* What the iterator of r reads in the memtable or branch of generation g.
Seen(r, g) == IF g \in held[r].mts THEN mt[Idx(g)].value ELSE branch[g]

\* What the iterator of r gives: the newest value it knows.
Given(r) ==
    LET known == {g \in held[r].mts \cup held[r].branches : Seen(r, g) # 0}
    IN  IF known = {} THEN 0 ELSE Seen(r, Max(known))

Answered(r) ==
    CASE pc[r] = "found" -> result[r]
      [] pc[r] = "open"  -> Given(r)
      [] OTHER           -> 0

Store == INSTANCE KeyStore
         WITH query  <- [r \in Reader |-> Doing(r)],
              answer <- [r \in Reader |-> Answered(r)],
              kept   <- IF phase = "down" THEN Newest(root, InBranch) ELSE -1

(***************************************************************************)
(* Lookups, iterators and the shutdown keep the promise of KeyStore, step  *)
(* by step: no answer is older than the call or newer than the last        *)
(* insert, an open iterator never loses what it gave while its memtables   *)
(* are compacted and incorporated, and the trunk ends with the latest      *)
(* value (core_lookup, core_range_iterator_init, core_prepare_for_shutdown *)
(* against the tasks of core_memtable_flush_internal).                     *)
(***************************************************************************)
Promised == Store!Spec
=============================================================================
