--------------------------- MODULE RangeIterator ---------------------------
(***************************************************************************)
(* The range iterator of src/splinterdb/src/core.c, which an iterator of   *)
(* the key-value interface is (src/splinterdb/src/splinterdb.c).  It works *)
(* on one trunk leaf at a time: it merges the memtables and the branches   *)
(* on the path to the leaf within the leaf's bounds, and is built anew for *)
(* the next or the previous leaf.  Others split leaves and insert between. *)
(***************************************************************************)
EXTENDS MergeIterator

CONSTANTS
  NumKeys,      \* keys are 1 .. NumKeys, 0 and NumKeys + 1 are the infinities
  Databases,    \* the databases to begin with
  Openings,     \* the ranges, start keys and start types of core_range_iterator_init
  MaxTurns      \* changes of direction

Keys == 1 .. NumKeys
NegInf == 0
PosInf == NumKeys + 1
UserKey(k) == k \in Keys

ASSUME RangeIteratorAssumption ==
  /\ NumKeys \in Nat \ {0} /\ MaxTurns \in Nat
  /\ \A db \in Databases : db.pivots \subseteq Keys /\ db.changes \in Nat
  /\ \A o \in Openings : o.min <= o.max /\ o.type \in {"less_than", "greater_than_or_equal"}

VARIABLES
  db,      \* pivots between leaves, inputs (key -> message class, oldest first), and
           \* how many changes other threads will make
  it,      \* the iterator
  changed  \* keys inserted since the iterator was opened
vars == <<db, it, changed>>

-----------------------------------------------------------------------------
(***************************************************************************)
(* Leaves and inputs.                                                      *)
(***************************************************************************)

Bounds == db.pivots \cup {NegInf, PosInf}
MaxOf(S) == CHOOSE x \in S : \A y \in S : y <= x
MinOf(S) == CHOOSE x \in S : \A y \in S : x <= y

\* Faulty: the leaf of the key, whichever way the iterator goes.
FaultyFindLeaf(key, type) == MaxOf({b \in Bounds \ {PosInf} : b <= key})
\* The least key of the leaf that trunk_collect_branches goes to.
FindLeaf(key, type) ==
  LET below == {b \in Bounds \ {PosInf} : IF type = "less_than" THEN b < key ELSE b <= key}
  IN IF below = {} THEN NegInf ELSE MaxOf(below)
LeafEnd(least) == MinOf({b \in Bounds : b > least})

\* What a btree iterator on input i gives between two keys.
Entries(i, min, max) ==
  LET keys == {k \in DOMAIN db.inputs[i] : min <= k /\ k < max}
  IN [n \in 1 .. Cardinality(keys) |->
        LET k == SetToSortSeq(keys, <)[n] IN [key |-> k, msg |-> Message(db.inputs[i][k], i)]]

\* btree_iterator_init: where it starts.
StartPosition(entries, start, type) ==
  LET below == Cardinality({n \in DOMAIN entries : entries[n].key < start})
  IN IF type = "less_than" THEN below ELSE below + 1

-----------------------------------------------------------------------------
(***************************************************************************)
(* Opening.  start is a key the caller owns, or refers to the buffer of a  *)
(* local bound; a key in a buffer changes with what is copied there.       *)
(***************************************************************************)

Closed == [pc |-> "closed"]

NoLocal == [min |-> NegInf, max |-> PosInf]

Open(o) ==
  /\ it.pc = "closed"
  /\ it' = [pc |-> "init", min |-> o.min, max |-> o.max,
            start |-> o.start, buffer |-> "caller", type |-> o.type,
            local |-> NoLocal, mi |-> MergeCreate("full", TRUE, <<>>, <<>>),
            can_prev |-> TRUE, can_next |-> TRUE,
            \* how it got here: where from, which way, turning how often, and
            \* past which keys because its start key was overwritten
            from |-> IF o.type = "less_than" THEN o.start ELSE o.start - 1,
            up |-> o.type # "less_than", turns |-> 0, turned |-> FALSE, skipped |-> {}]
  /\ UNCHANGED <<db, changed>>

\* A key copied into the buffer: infinities only set the buffer's kind.
Copied(bytes, key) == IF UserKey(key) THEN key ELSE bytes

\* The bounds of the leaf, within those of the iterator.
Clamp(bound, least) == IF least <= bound THEN bound ELSE least
ClampMax(bound, end) == IF end >= bound THEN bound ELSE end

\* The key start refers to once both local bounds have been copied: a key of
\* up to 128 bytes lies in the local bound's key_buffer itself, where the
\* bound of the new leaf takes its place.
StartAfterCopies(start, least, end) ==
  CASE it.buffer = "local_min" ->
         IF least <= it.min THEN Copied(Copied(start, least), it.min) ELSE Copied(start, least)
    [] it.buffer = "local_max" ->
         IF end >= it.max THEN Copied(Copied(start, end), it.max) ELSE Copied(start, end)
    [] OTHER -> start

\* More of the range is left in the direction of the start type.
MoreLeft(local) == IF it.type = "less_than" THEN local.min > it.min ELSE local.max < it.max

\* core_range_iterator_init.  When the leaf has nothing for it, it begins
\* again with the leaf after or before, whose bound it passes by reference.
InitStep ==
  /\ it.pc = "init"
  /\ LET inRange == IF it.min > it.start THEN it.min ELSE it.start
         clamped == IF it.max <= inRange THEN it.max ELSE inRange
         buffer == IF it.min <= it.start /\ it.start < it.max THEN it.buffer ELSE "caller"
         least == FindLeaf(clamped, it.type)
         end == LeafEnd(least)
         local == [min |-> Clamp(it.min, least), max |-> ClampMax(it.max, end)]
         start == IF buffer = "caller" THEN clamped ELSE StartAfterCopies(clamped, least, end)
         in == [i \in DOMAIN db.inputs |-> Entries(i, local.min, local.max)]
         mi == MergeCreate("full", it.type # "less_than", in,
                           [i \in DOMAIN in |-> StartPosition(in[i], start, it.type)])
         built == [it EXCEPT !.local = local, !.mi = mi, !.can_prev = TRUE, !.can_next = TRUE,
                             !.turned = FALSE,
                             !.skipped = @ \cup IF it.type = "less_than" THEN start .. clamped - 1
                                                ELSE clamped .. start - 1]
     IN it' = IF MergeCanCurr(mi) THEN [built EXCEPT !.pc = "open"]
              ELSE IF MoreLeft(local)
              THEN [built EXCEPT
                      !.start = IF it.type = "less_than" THEN local.min ELSE local.max,
                      !.buffer = IF it.type = "less_than" THEN "local_min" ELSE "local_max"]
              ELSE [built EXCEPT
                      !.pc = "open",
                      !.can_next = IF it.type = "less_than" THEN mi.can_next ELSE FALSE,
                      !.can_prev = IF it.type = "less_than" THEN FALSE ELSE mi.can_prev]
  /\ UNCHANGED <<db, changed>>

CanCurr == it.pc = "open" /\ it.can_prev /\ it.can_next

\* The key the iterator is at, or the end of its range.
At == IF CanCurr THEN it.mi.curr.key
      ELSE IF it.can_next THEN it.min - 1
      ELSE IF it.can_prev THEN it.max
      ELSE IF it.up THEN it.max ELSE it.min - 1

\* No two inputs of the merge iterator hold the same key.
Distinct(mi) ==
  \A i, j \in Inputs(mi) : i # j =>
    \A m \in DOMAIN mi.in[i], n \in DOMAIN mi.in[j] : mi.in[i][m].key # mi.in[j][n].key

\* A caller that turns where a key has several copies goes no further: the
\* merge iterator's inputs are then on both sides of the key.
Defined == it.turned => Distinct(it.mi)

\* core_range_iterator_next: from the end of a leaf on to the next one, with
\* copies of the keys that live in the iterator.
StepNext ==
  /\ it.pc = "open" /\ it.can_next /\ Defined /\ (it.up \/ it.turns < MaxTurns)
  /\ LET mi == MergeNext(it.mi)
         moved == [it EXCEPT !.mi = mi, !.can_prev = TRUE, !.can_next = mi.can_next,
                             !.from = At, !.up = TRUE, !.skipped = {},
                             !.turned = @ \/ ~it.up, !.turns = IF it.up THEN @ ELSE @ + 1]
     IN it' = IF ~mi.can_next /\ it.local.max < it.max
              THEN [moved EXCEPT !.pc = "init", !.start = it.local.max, !.buffer = "caller",
                                 !.type = "greater_than_or_equal"]
              ELSE moved
  /\ UNCHANGED <<db, changed>>

\* core_range_iterator_prev
StepPrev ==
  /\ it.pc = "open" /\ it.can_prev /\ Defined /\ (it.up => it.turns < MaxTurns)
  /\ LET mi == MergePrev(it.mi)
         moved == [it EXCEPT !.mi = mi, !.can_next = TRUE, !.can_prev = mi.can_prev,
                             !.from = At, !.up = FALSE, !.skipped = {},
                             !.turned = @ \/ it.up, !.turns = IF it.up THEN @ + 1 ELSE @]
     IN it' = IF ~mi.can_prev /\ it.local.min > it.min
              THEN [moved EXCEPT !.pc = "init", !.start = it.local.min, !.buffer = "caller",
                                 !.type = "less_than"]
              ELSE moved
  /\ UNCHANGED <<db, changed>>

Close ==
  /\ it.pc = "open"
  /\ it' = [pc |-> "done"]
  /\ UNCHANGED <<db, changed>>

-----------------------------------------------------------------------------
(***************************************************************************)
(* Other threads.  An insert goes to a memtable that is newer than those   *)
(* the iterator holds.                                                     *)
(***************************************************************************)

SplitLeaf(k) ==
  /\ it.pc \in {"init", "open"} /\ db.changes > 0 /\ k \notin db.pivots
  /\ db' = [db EXCEPT !.pivots = @ \cup {k}, !.changes = @ - 1]
  /\ UNCHANGED <<it, changed>>

Insert(k, class) ==
  /\ it.pc \in {"init", "open"} /\ db.changes > 0
  /\ db' = [db EXCEPT !.inputs = Append(@, [x \in {k} |-> class]), !.changes = @ - 1]
  /\ changed' = changed \cup {k}
  /\ UNCHANGED it

Init ==
  /\ db \in Databases
  /\ it = Closed
  /\ changed = {}

Next ==
  \/ \E o \in Openings : Open(o)
  \/ InitStep \/ StepNext \/ StepPrev \/ Close
  \/ \E k \in Keys : SplitLeaf(k)
  \/ \E k \in Keys, class \in {"insert", "delete"} : Insert(k, class)

Spec == Init /\ [][Next]_vars

-----------------------------------------------------------------------------
(***************************************************************************)
(* Properties                                                              *)
(***************************************************************************)

\* What the database holds for a key: the parts of its value, newest first,
\* after the messages of all inputs, applied from the oldest on.
Content(k) ==
  LET Apply(value, n) ==
        IF k \notin DOMAIN db.inputs[n] THEN value
        ELSE CASE db.inputs[n][k] = "insert" -> <<n>>
               [] db.inputs[n][k] = "update" -> <<n>> \o value
               [] db.inputs[n][k] = "delete" -> <<>>
  IN FoldLeft(Apply, <<>>, [n \in DOMAIN db.inputs |-> n])
Live(k) == Content(k) # <<>>
Stable(k) == k \in Keys \ changed

Passed == {k \in it.min .. it.max - 1 : IF it.up THEN it.from < k /\ k < At ELSE At < k /\ k < it.from}

\* A step goes to the nearest key of the range that the database holds, with
\* the value of its merged messages, and passes none but those overlooked; at
\* the end of the range none is left.
NearestKey(overlooked) ==
  /\ \A k \in Passed \ overlooked : Stable(k) => ~Live(k)
  /\ IF it.up THEN it.from < At \/ (At = it.max /\ it.from >= it.max)
     ELSE At < it.from \/ (At = it.min - 1 /\ it.from < it.min)
  /\ CanCurr /\ Stable(At) => it.mi.curr.msg = [class |-> "insert", parts |-> Content(At)]

\* An iterator gives every key of its range once, in order, leaf by leaf, in
\* spite of deletions, of updates in several inputs, and of leaves that split
\* and keys that are inserted meanwhile (core_range_iterator_init, _next,
\* _prev over merge_next, merge_prev).  The only keys it may lose are those
\* between the start key it passes to itself by reference and the bound that
\* is copied over it (NothingSkipped).  Left out is a turn where a key has
\* several copies.
StepRight == it.pc = "open" /\ Defined => NearestKey(it.skipped)

\* "Moves the iterator to the next item" (splinterdb.h, for
\* splinterdb_iterator_next), whichever leaf the next item is in.  An iterator
\* that begins behind the last live key of a leaf passes the leaf after it.
NothingSkipped == it.pc = "open" /\ Defined => NearestKey({})

\* The invariants that setup_ordered_iterators lists: live inputs come first,
\* in order, flagged where the next has the same key; and none but the last
\* copy of the current key is left among them.
MergeOrdered ==
  it.pc = "open" /\ Defined =>
    LET mi == it.mi IN
      /\ \A n \in DOMAIN mi.order : n <= mi.live <=> InputCanCurr(mi, mi.order[n])
      /\ \A n \in 1 .. mi.live - 1 :
           /\ Before(mi, mi.order[n], mi.order[n + 1])
           /\ mi.equal[mi.order[n]] <=> mi.held[mi.order[n]].key = mi.held[mi.order[n + 1]].key
      /\ mi.live > 0 /\ MergeCanCurr(mi) =>
           mi.held[First(mi)].key = mi.curr.key /\ ~mi.equal[First(mi)]

\* core_range_iterator_init, which calls itself for the next or the previous
\* leaf, comes to an end: each call begins further on than the one before.
Progresses ==
  [][it.pc = "init" /\ it'.pc = "init" =>
       \/ it' = it
       \/ it.type = "greater_than_or_equal" /\ it'.start > it.start
       \/ it.type = "less_than" /\ it'.start < it.start]_vars
=============================================================================
