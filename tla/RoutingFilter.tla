--------------------------- MODULE RoutingFilter ---------------------------
(***************************************************************************)
(* The routing filter (maplet) of src/splinterdb/src/routing_filter.c: a   *)
(* quotient filter that maps the fingerprint of a key to the numbers of    *)
(* the branches that may hold it.  The high bits of a fingerprint choose   *)
(* an index and a bucket in it; the rest, with the value, is packed into   *)
(* the remainders of the index, whose encoding has a one for each end of a *)
(* bucket and a zero for each remainder.                                   *)
(***************************************************************************)
EXTENDS Integers, Sequences, FiniteSets, SequencesExt, FiniteSetsExt

CONSTANTS
  FingerprintSize,  \* bits of a fingerprint
  LogIndexSize,     \* logarithm of the buckets of an index
  IntBits           \* width of an int, which holds the mask of smaller values

ASSUME RoutingFilterAssumption ==
  /\ FingerprintSize \in Nat /\ LogIndexSize \in 0 .. FingerprintSize
  /\ IntBits \in Nat \ {0}

IndexSize == 2 ^ LogIndexSize

\* A set of integers in ascending order.
Ascending(S) ==
  [i \in 1 .. Cardinality(S) |-> CHOOSE x \in S : Cardinality({y \in S : y <= x}) = i]

-----------------------------------------------------------------------------
(***************************************************************************)
(* Packed arrays (PackedArray.c): a buffer is the set of its one bits.     *)
(***************************************************************************)

Bit(n, j) == (n \div 2 ^ j) % 2

PackedArrayPack(items, bits) ==
  UNION {{(i - 1) * bits + j : j \in {x \in 0 .. bits - 1 : Bit(items[i], x) = 1}} :
         i \in DOMAIN items}

PackedArrayGet(buffer, pos, bits) ==
  FoldSet(LAMBDA j, n : n + 2 ^ j, 0, {j \in 0 .. bits - 1 : pos * bits + j \in buffer})

PackedArrayUnpack(buffer, count, bits) ==
  [i \in 1 .. count |-> PackedArrayGet(buffer, i - 1, bits)]

-----------------------------------------------------------------------------
(***************************************************************************)
(* Parameters of a filter with a number of fingerprints.                   *)
(***************************************************************************)

NullFilter == [addr |-> FALSE, num_fingerprints |-> 0, num_unique |-> 0, value_size |-> 0,
               blocks |-> <<>>]

\* 31 - clz
Log2(n) == CHOOSE l \in 0 .. n : 2 ^ l <= n /\ n < 2 ^ (l + 1)
BitLength(n) == IF n = 0 THEN 0 ELSE Log2(n) + 1

LogNumBuckets(n) == IF Log2(n) < LogIndexSize THEN LogIndexSize ELSE Log2(n)
NumIndices(n) == 2 ^ (LogNumBuckets(n) - LogIndexSize)
RemainderSize(n) == FingerprintSize - LogNumBuckets(n)

-----------------------------------------------------------------------------
(***************************************************************************)
(* The encoding of an index: the set of its zero bits; all others are one. *)
(***************************************************************************)

\* The place of the k-th one bit, from 1 on.
OneBit(zeros, k) ==
  CHOOSE p \in 0 .. Cardinality(zeros) + k :
    p \notin zeros /\ Cardinality({q \in 0 .. p : q \notin zeros}) = k

\* Faulty: the end of a bucket is one too low.
FaultyBucketBounds(zeros, off) ==
  [start |-> IF off = 0 THEN 0 ELSE OneBit(zeros, off) - off + 1, end |-> OneBit(zeros, off + 1) - off - 1]
\* routing_get_bucket_bounds
BucketBounds(zeros, off) ==
  [start |-> IF off = 0 THEN 0 ELSE OneBit(zeros, off) - off + 1,
   end |-> OneBit(zeros, off + 1) - off]

\* routing_get_bucket_counts
BucketCounts(zeros) ==
  [off \in 0 .. IndexSize - 1 |->
     OneBit(zeros, off + 1) - (IF off = 0 THEN -1 ELSE OneBit(zeros, off)) - 1]

-----------------------------------------------------------------------------
(***************************************************************************)
(* Adding fingerprints.                                                    *)
(***************************************************************************)

\* The new fingerprints with the value below them, sorted, each once.
SortedWithValue(fps, value) ==
  LET size == BitLength(value)
  IN Ascending({fps[i] * 2 ^ size + value : i \in DOMAIN fps})

\* What an index of the old filter holds, with values widened to value_size.
Unroll(old, index, value_size) ==
  LET block == old.blocks[index + 1]
      bits == RemainderSize(old.num_fingerprints) + old.value_size
      counts == BucketCounts(block.encoding)
      buckets == FoldLeft(LAMBDA s, off : s \o [i \in 1 .. counts[off] |-> off], <<>>,
                          [i \in 1 .. IndexSize |-> i - 1])
      packed == PackedArrayUnpack(block.remainders, block.num_remainders, bits)
      Whole(i) == packed[i] + (index * IndexSize + buckets[i]) * 2 ^ bits
      Value(i) == Whole(i) % 2 ^ old.value_size
  IN [i \in 1 .. block.num_remainders |->
        (Whole(i) - Value(i)) * 2 ^ (value_size - old.value_size) + Value(i)]

\* The loop that fills an index from the old and the new fingerprints, both
\* sorted.  unique counts a fingerprint that differs from the last one added,
\* also the old one that turns out to belong to the next index.
RECURSIVE FillIndex(_, _, _)
FillIndex(f, old, new) ==
  LET is_old == new = <<>> \/ (old # <<>> /\ Head(old) <= Head(new))
      fp == IF is_old THEN Head(old) ELSE Head(new)
      bucket == fp \div 2 ^ f.bits
      counted == [f EXCEPT !.unique = IF fp \div 2 ^ f.value_size # f.last THEN @ + 1 ELSE @]
      bit == f.bit + bucket - f.bucket
  IN IF old = <<>> /\ new = <<>> THEN f
     ELSE IF bucket >= f.end_bucket THEN [counted EXCEPT !.old = old]
     ELSE FillIndex([counted EXCEPT !.bit = bit + 1, !.zeros = @ \cup {bit},
                                    !.bucket = bucket, !.last = fp \div 2 ^ f.value_size,
                                    !.out = Append(@, fp % 2 ^ f.bits)],
                    IF is_old THEN Tail(old) ELSE old,
                    IF is_old THEN new ELSE Tail(new))

\* One new index: its share of the new fingerprints, and what is left of the old.
BuildIndex(acc, index, new, n, value_size) ==
  LET bits == RemainderSize(n) + value_size
      ofIndex == SelectSeq(new, LAMBDA fp : fp \div 2 ^ (bits + LogIndexSize) = index)
      f == FillIndex([unique |-> acc.unique, last |-> -1, bit |-> 0, zeros |-> {}, out |-> <<>>,
                      bucket |-> index * IndexSize, end_bucket |-> (index + 1) * IndexSize,
                      bits |-> bits, value_size |-> value_size, old |-> <<>>],
                     acc.old, ofIndex)
  IN [unique |-> f.unique, old |-> f.old,
      blocks |-> Append(acc.blocks, [num_remainders |-> Len(f.out), encoding |-> f.zeros,
                                     remainders |-> PackedArrayPack(f.out, bits)])]

\* routing_filter_add: the old indices in turn, each the source of as many new
\* ones as the number of indices has grown by.
RoutingFilterAdd(old, fps, value) ==
  LET n == Len(fps) + old.num_fingerprints
      value_size == BitLength(value)
      new == SortedWithValue(fps, value)
      oldIndices == IF old.addr THEN NumIndices(old.num_fingerprints) ELSE 1
      perOld == NumIndices(n) \div oldIndices
      OldIndex(acc, o) ==
        FoldLeft(LAMBDA a, off : BuildIndex(a, o * perOld + off, new, n, value_size),
                 [acc EXCEPT !.old = IF old.addr THEN Unroll(old, o, value_size) ELSE <<>>],
                 [i \in 1 .. perOld |-> i - 1])
      built == FoldLeft(OldIndex, [unique |-> 0, old |-> <<>>, blocks |-> <<>>],
                        [i \in 1 .. oldIndices |-> i - 1])
  IN [addr |-> TRUE, num_fingerprints |-> n, num_unique |-> built.unique,
      value_size |-> value_size, blocks |-> built.blocks]

-----------------------------------------------------------------------------
(***************************************************************************)
(* Lookups.                                                                *)
(***************************************************************************)

\* routing_filter_lookup: the values of a fingerprint.
RoutingFilterLookup(filter, fp) ==
  IF ~filter.addr THEN {}
  ELSE LET rsize == RemainderSize(filter.num_fingerprints)
           bits == rsize + filter.value_size
           shifted == fp * 2 ^ filter.value_size
           block == filter.blocks[shifted \div 2 ^ (bits + LogIndexSize) + 1]
           off == (shifted \div 2 ^ bits) % IndexSize
           bounds == BucketBounds(block.encoding, off)
           found == {PackedArrayGet(block.remainders, p, bits) : p \in bounds.start .. bounds.end - 1}
       IN {x % 2 ^ filter.value_size :
             x \in {y \in found : y \div 2 ^ filter.value_size = fp % 2 ^ rsize}}

\* routing_filter_get_next_value: values come from the greatest down; the mask
\* of the smaller ones is made by shifting an int.
NotFound == -1
GetNextValue(found, last) ==
  LET masked == IF last = NotFound THEN found ELSE {v \in found : v < last % IntBits}
  IN IF masked = {} THEN NotFound ELSE CHOOSE v \in masked : \A w \in masked : w <= v
=============================================================================
