----------------------------- MODULE MCStorage -----------------------------
(***************************************************************************)
(* Instances of Storage: threads that share a mini allocator; a full disk; *)
(* sessions with crashes.                                                  *)
(***************************************************************************)
EXTENDS Storage, TLC

MCBounds ==
  { [trees |-> 1, pages |-> 5, readers |-> 0, sessions |-> 0, crashes |-> 0],
    [trees |-> 2, pages |-> 4, readers |-> 1, sessions |-> 0, crashes |-> 0],
    [trees |-> 2, pages |-> 1, readers |-> 0, sessions |-> 3, crashes |-> 2] }

Symmetry == Permutations(Threads)
=============================================================================
