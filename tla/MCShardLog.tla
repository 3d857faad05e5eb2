----------------------------- MODULE MCShardLog -----------------------------
(* Small instances of ShardLog: every entry is a batch of its own, and     *)
(* every address has a page type of its own.                               *)
EXTENDS ShardLog

OwnBatch == [e \in Entry |-> e]
OwnType == [a \in Addr |-> a]
=============================================================================
