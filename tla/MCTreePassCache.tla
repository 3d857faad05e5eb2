-------------------------- MODULE MCTreePassCache --------------------------
(* Small instances of TreePassCache.  Every entry is a batch of its own,   *)
(* and every address has a page type of its own.                           *)
EXTENDS TreePassCacheInv, TLC

OwnBatch == [e \in Entry |-> e]
OwnType == [a \in Addr |-> a]

Symmetry == Permutations(Entry) \cup Permutations(Addr)
=============================================================================
