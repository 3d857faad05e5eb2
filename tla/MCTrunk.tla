------------------------------ MODULE MCTrunk ------------------------------
(* Instance of Trunk for TLC *)
EXTENDS Trunk, TLC

B(memtables, gens, threads, readers, f, remounts) ==
  [memtables |-> memtables, gens |-> gens, threads |-> threads, readers |-> readers,
   fails |-> f, remounts |-> remounts]

MCBounds ==
  {B({Keys}, 2, 1, 1, 1, 1),           \* three leaves, height 2, a reader, a failure
   B({{0}}, 3, 2, 1, 0, 0),            \* one leaf: compactions and a reader side by side
   B({{0}}, 3, 2, 0, 1, 1),            \* the same with a failure and a remount
   B({{0, 1}}, 2, 2, 0, 0, 0),         \* two leaves compacted side by side
   B({{0, 1}, {1}}, 3, 1, 0, 0, 1)}    \* flushes from a grown tree, empty outputs
StaleBounds == {B({{0}}, 4, 2, 0, 0, 0)}
Symmetry == Permutations(Threads)
============================================================================
