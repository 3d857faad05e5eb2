-------------------------- MODULE MCRangeIterator --------------------------
(* Instance of RangeIterator for TLC *)
EXTENDS RangeIterator

Partial(S, T) == UNION {[D -> T] : D \in SUBSET S}

\* all small databases of two inputs, some of three, and some that change
MCDatabases ==
  [pivots : {{}, {2}, {2, 3}}, changes : {0},
   inputs : {<<old, new>> : old \in Partial(1 .. 3, {"insert"}),
                            new \in Partial(1 .. 3, {"update", "delete"})}]
  \cup
  [pivots : {{3}}, changes : {0},
   inputs : {<<old, mid, new>> : old \in Partial({1, 3}, {"insert", "delete"}),
                                 mid \in Partial({1, 2}, {"update"}),
                                 new \in Partial({1, 2, 3}, {"update"})}]
  \cup
  [pivots : {{}, {2}}, changes : {2},
   inputs : {<<old>> : old \in Partial(1 .. 3, {"insert"})}]

O(min, max, start, type) == [min |-> min, max |-> max, start |-> start, type |-> type]
\* what splinterdb_range_iterator_init passes, and other ranges and types
ApiOpenings ==
  {O(NegInf, PosInf, start, "greater_than_or_equal") : start \in {NegInf, 2, 3}}
MCOpenings ==
  ApiOpenings
  \cup {O(2, PosInf, 2, "greater_than_or_equal"), O(NegInf, 3, 1, "greater_than_or_equal"),
        O(NegInf, PosInf, PosInf, "less_than"), O(2, 3, 3, "less_than")}
============================================================================
