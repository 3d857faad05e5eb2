------------------------------ MODULE MCBTree ------------------------------
(* Instance of BTree for TLC *)
EXTENDS BTree

S(preload, menu, threads, ops) ==
  [preload |-> preload, menu |-> menu, threads |-> threads, ops |-> ops]
Big(keys) == [i \in DOMAIN keys |-> Insert(keys[i], 4)]

MCScenarios ==
  {\* a root that is a leaf, and grows
   S(<<>>, {Insert(1, 2), Insert(2, 4), Insert(1, 4)}, 3, 3),
   \* a full leaf that grows and splits under readers
   S(Big(<<2, 4>>), {Insert(1, 2), Insert(3, 4), Insert(3, 2), Insert(4, 4), Lookup(4),
                     Scan(TRUE, 1, Infinity), Scan(FALSE, 2, 5)}, 2, 2),
   S(Big(<<2, 4>>), {Insert(3, 4), Scan(TRUE, 1, Infinity)}, 3, 3),
   \* a full root, and an index that splits
   S(Big(<<2, 3, 5, 6>>), {Insert(1, 4), Insert(4, 4), Lookup(5), Scan(TRUE, 3, 6),
                           Scan(FALSE, 1, Infinity)}, 2, 2),
   \* two full leaves that split while iterators are on them
   S(Big(<<1, 4, 6, 3>>), {Insert(2, 4), Insert(5, 4), Lookup(6), Scan(TRUE, 1, Infinity),
                           Scan(TRUE, 4, Infinity), Scan(FALSE, 1, Infinity)}, 2, 2),
   S(Big(<<1, 4, 6, 3>>), {Insert(2, 4), Insert(5, 4), Scan(FALSE, 1, 6)}, 3, 3),
   \* a leaf whose next leaf has another parent
   S(Big(<<1, 3, 6, 7, 5>>), {Insert(4, 4), Insert(6, 4), Lookup(7), Scan(TRUE, 5, 7),
                              Scan(FALSE, 1, Infinity)}, 2, 2),
   \* an insert that fits next to one that does not
   S(Append(Big(<<1, 4>>), Insert(5, 2)), {Insert(6, 4), Insert(6, 2), Insert(4, 4), Lookup(6)}, 2, 2),
   \* dead space: a leaf that is defragmented, and one that splits where it grows
   S(<<Insert(2, 2), Insert(2, 3)>>, {Insert(2, 4), Insert(3, 2), Insert(2, 3)}, 2, 2),
   S(<<Insert(2, 2), Insert(2, 3), Insert(3, 2)>>, {Insert(2, 4), Insert(3, 3), Insert(1, 2)}, 2, 2)}
============================================================================
