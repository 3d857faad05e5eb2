--------------------------- MODULE MergeIterator ---------------------------
(***************************************************************************)
(* The merge iterator of src/splinterdb/src/merge.c: it merges sorted      *)
(* inputs, the oldest first, into one sequence of keys, forward and        *)
(* backward, and merges the messages of a key that several inputs hold.    *)
(* An input is a sequence of entries with a position; position 0 is before *)
(* its first entry and Len + 1 behind its last.                            *)
(***************************************************************************)
EXTENDS Integers, Sequences, FiniteSets, SequencesExt

NoKey == -1

-----------------------------------------------------------------------------
(***************************************************************************)
(* Messages.  parts names the inputs whose messages went into it, the      *)
(* newest first; a deletion carries nothing.                               *)
(***************************************************************************)

Message(class, input) == [class |-> class, parts |-> IF class = "delete" THEN <<>> ELSE <<input>>]
NoEntry == [key |-> NoKey, msg |-> [class |-> "invalid", parts |-> <<>>]]

Definitive(msg) == msg.class \in {"insert", "delete"}

\* The callback merge_tuples_final: an update applied to nothing.
ApplyToNothing(new) == [new EXCEPT !.class = "insert"]

DataMergeTuplesFinal(msg) == IF Definitive(msg) THEN msg ELSE ApplyToNothing(msg)

DataMergeTuples(old, new) ==
  IF Definitive(new) THEN new
  ELSE IF old.class = "delete" THEN ApplyToNothing(new)
  ELSE [class |-> old.class, parts |-> new.parts \o old.parts]

-----------------------------------------------------------------------------
(***************************************************************************)
(* Inputs: what merge needs of iterator.h.                                 *)
(***************************************************************************)

InputCanNext(mi, i) == mi.in[i] # <<>> /\ mi.pos[i] <= Len(mi.in[i])
InputCanPrev(mi, i) == mi.in[i] # <<>> /\ mi.pos[i] >= 1
InputCanCurr(mi, i) == InputCanNext(mi, i) /\ InputCanPrev(mi, i)
InputCurr(mi, i) == mi.in[i][mi.pos[i]]

Inputs(mi) == DOMAIN mi.in
First(mi) == mi.order[1]

\* bsearch_comp: by key in the direction of travel, then the newest first.
Before(mi, i, j) ==
  LET a == mi.held[i].key
      b == mi.held[j].key
  IN IF a = b THEN i > j ELSE IF mi.forwards THEN a < b ELSE a > b

-----------------------------------------------------------------------------
\* bsearch_insert: how many of the other live inputs come before the first one.
InsertPosition(mi) == Cardinality({n \in 2 .. mi.live : Before(mi, mi.order[n], First(mi))})

MoveFirst(mi, index) ==
  [mi EXCEPT !.order = SubSeq(@, 2, index + 1) \o <<First(mi)>> \o SubSeq(@, index + 2, Len(@))]

\* next_key_equal of the input that has moved and of the one before it.
Reflag(mi, index) ==
  LET EqualAt(n) == n < mi.live /\ mi.held[mi.order[n]].key = mi.held[mi.order[n + 1]].key
      moved == {n \in {index, index + 1} : n > 0}
  IN [mi EXCEPT !.equal = [j \in Inputs(mi) |->
        IF \E n \in moved : mi.order[n] = j THEN \E n \in moved : mi.order[n] = j /\ EqualAt(n)
        ELSE @[j]]]

\* The first input finds its place: exhausted, it goes behind the live ones.
Resort(mi) ==
  IF ~InputCanCurr(mi, First(mi))
  THEN [MoveFirst(mi, mi.live - 1) EXCEPT !.live = @ - 1]
  ELSE LET there == [mi EXCEPT !.held[First(mi)] = InputCurr(mi, First(mi))]
       IN Reflag(MoveFirst(there, InsertPosition(there)), InsertPosition(there))

\* advance_and_resort_min_ritor
AdvanceMin(mi) ==
  Resort([mi EXCEPT !.equal[First(mi)] = FALSE, !.held[First(mi)] = NoEntry,
                    !.pos[First(mi)] = IF mi.forwards THEN @ + 1 ELSE @ - 1])

\* Faulty: the older message is applied to the newer one.
FaultyMergedWithNext(mi) == DataMergeTuples(mi.curr.msg, mi.held[mi.order[2]].msg)
\* The accumulated message with that of the next older copy.
MergedWithNext(mi) == DataMergeTuples(mi.held[mi.order[2]].msg, mi.curr.msg)

\* merge_resolve_equal_keys: all copies of the first key but the last are
\* advanced, the newest first, and their messages merged.
RECURSIVE ResolveEqualKeys(_)
ResolveEqualKeys(mi) ==
  IF ~mi.equal[First(mi)] THEN mi
  ELSE ResolveEqualKeys(AdvanceMin(
         [mi EXCEPT !.curr = [key |-> mi.held[mi.order[2]].key, msg |-> MergedWithNext(mi)]]))

\* merge_finalize_updates_and_discard_deletes
Finalized(mi) ==
  IF mi.mode = "full" THEN [mi EXCEPT !.curr.msg = DataMergeTuplesFinal(@)] ELSE mi
Discarded(mi) == mi.mode = "full" /\ mi.curr.msg.class = "delete"

\* The entry of the first input, merged with its copies.
TakeMin(mi) ==
  LET taken == [mi EXCEPT !.curr = mi.held[First(mi)]]
  IN IF mi.mode = "raw" THEN taken ELSE Finalized(ResolveEqualKeys(taken))

AtTheEnd(mi) ==
  IF mi.forwards THEN [mi EXCEPT !.can_next = FALSE] ELSE [mi EXCEPT !.can_prev = FALSE]

RECURSIVE AdvanceHelper(_)

\* advance_one_loop, retried as long as it discards its entry.
Retried(mi) == IF Discarded(mi) THEN AdvanceHelper(mi) ELSE mi
AdvanceOneLoop(mi) == IF mi.live = 0 THEN AtTheEnd(mi) ELSE Retried(TakeMin(mi))

\* merge_advance_helper: on to the next entry that is not discarded.
AdvanceHelper(mi) == AdvanceOneLoop(AdvanceMin([mi EXCEPT !.curr = NoEntry]))

-----------------------------------------------------------------------------
\* Faulty: the flags are never set.
FaultySetFlags(mi) == [j \in Inputs(mi) |-> FALSE]
\* next_key_equal of all live inputs but the last
SetFlags(mi) ==
  [j \in Inputs(mi) |->
     IF \E n \in 1 .. mi.live - 1 : mi.order[n] = j
     THEN \E n \in 1 .. mi.live - 1 :
            mi.order[n] = j /\ mi.held[j].key = mi.held[mi.order[n + 1]].key
     ELSE mi.equal[j]]

\* setup_ordered_iterators
SetupOrderedIterators(mi) ==
  LET live == {i \in Inputs(mi) : InputCanCurr(mi, i)}
      held == [mi EXCEPT !.can_prev = \E i \in Inputs(mi) : InputCanPrev(mi, i),
                         !.can_next = \E i \in Inputs(mi) : InputCanNext(mi, i),
                         !.live = Cardinality(live),
                         !.held = [i \in Inputs(mi) |-> IF i \in live THEN InputCurr(mi, i) ELSE @[i]]]
      order == SetToSortSeq(live, LAMBDA i, j : Before(held, i, j))
               \o SelectSeq(mi.order, LAMBDA i : i \notin live)
      sorted == [held EXCEPT !.order = order]
  IN AdvanceOneLoop([sorted EXCEPT !.equal = SetFlags(sorted)])

\* merge_iterator_create
MergeCreate(mode, forwards, in, pos) ==
  SetupOrderedIterators(
    [mode |-> mode, forwards |-> forwards, in |-> in, pos |-> pos,
     order |-> [i \in DOMAIN in |-> i], live |-> Len(in),
     equal |-> [i \in DOMAIN in |-> FALSE], held |-> [i \in DOMAIN in |-> NoEntry],
     curr |-> NoEntry, can_prev |-> FALSE, can_next |-> FALSE])

\* merge_iterator_set_direction: every input takes one step back.
SetDirection(mi, forwards) ==
  SetupOrderedIterators(
    [mi EXCEPT !.forwards = forwards,
       !.pos = [i \in Inputs(mi) |->
                  IF forwards /\ InputCanNext(mi, i) THEN @[i] + 1
                  ELSE IF ~forwards /\ InputCanPrev(mi, i) THEN @[i] - 1 ELSE @[i]]])

MergeNext(mi) == IF mi.forwards THEN AdvanceHelper(mi) ELSE SetDirection(mi, TRUE)
MergePrev(mi) == IF mi.forwards THEN SetDirection(mi, FALSE) ELSE AdvanceHelper(mi)

MergeCanCurr(mi) == mi.can_prev /\ mi.can_next
=============================================================================
