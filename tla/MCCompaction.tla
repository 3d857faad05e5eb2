---------------------------- MODULE MCCompaction ----------------------------
(* Instance of Compaction for TLC *)
EXTENDS Compaction

All(keys, class) == [k \in keys |-> class]
Mixed(f, g) == [k \in DOMAIN f \cup DOMAIN g |-> IF k \in DOMAIN g THEN g[k] ELSE f[k]]

MCMemtables ==
  {All(Keys, "insert"),
   All({2, 3}, "delete"),
   All({1, 3, 4, 9}, "update"),
   Mixed(All({2, 4, 6, 8}, "insert"), All({3, 5}, "update")),
   Mixed(All({1, 2, 7, 8}, "delete"), All({4}, "update"))}

\* spread over the indices, with collisions and the extremes; and all in one
MCHashes == {<<0, 0, 9, 9, 10, 17, 30, 31, 31>>, <<5, 5, 4, 7, 6, 5, 4, 7, 6>>}
=============================================================================
