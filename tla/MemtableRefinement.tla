------------------------- MODULE MemtableRefinement -------------------------
(***************************************************************************)
(* The memtables, their tasks and the trunk implement KeyStore: every step *)
(* maps to a step of the abstract store, or to none.                       *)
(***************************************************************************)
EXTENDS MemtableTheorems, MemtableStore

\* Where a lookup or an iterator is in use.
QueryPC == {"look", "found", "scan", "open"}

\* The query of q is where it was, with the answer it had.
Unmoved(q) == Doing(q)' = Doing(q) /\ Answered(q)' = Answered(q)

\* A query that is not in use says nothing.
LEMMA NotInUse ==
    ASSUME NEW q \in Reader, pc[q] \notin QueryPC, pc'[q] \notin QueryPC
    PROVE  Unmoved(q)
  BY DEF Unmoved, Doing, Answered, QueryPC

\* An iterator gives the same as long as its memtables and branches do.
LEMMA SeenSame ==
    ASSUME TypeOK, NEW q \in Reader,
           pc'[q] = pc[q], result'[q] = result[q], held'[q] = held[q],
           pc[q] = "open" =>
             /\ \A g \in held[q].mts : mt'[Idx(g)].value = mt[Idx(g)].value
             /\ \A g \in held[q].branches \ held[q].mts : branch'[g] = branch[g]
    PROVE  Unmoved(q)
<1>1. Doing(q)' = Doing(q)
  BY DEF Doing
<1>2. CASE pc[q] # "open"
  BY <1>1, <1>2 DEF Unmoved, Answered
<1>3. CASE pc[q] = "open"
  <2> DEFINE G == held[q].mts \cup held[q].branches
             V(g) == IF g \in held[q].mts THEN mt[Idx(g)].value ELSE branch[g]
             W(g) == IF g \in held[q].mts THEN mt'[Idx(g)].value ELSE branch'[g]
             K == {g \in G : V(g) # 0}
             L == {g \in G : W(g) # 0}
  <2>1. Given(q) = IF K = {} THEN 0 ELSE V(Max(K))
    BY DEF Given, Seen
  <2>2. Given(q)' = IF L = {} THEN 0 ELSE W(Max(L))
    BY DEF Given, Seen
  <2>3. \A g \in G : V(g) = W(g)
    BY <1>3
  <2>4. K = L /\ K \in SUBSET Generation /\ K \subseteq G
    BY <2>3, ReaderTypes
  <2>5. K # {} => Max(K) \in G
    BY <2>4, MaxExists
  <2>6. Given(q)' = Given(q)
    <3> HIDE DEF K, L, V, W
    <3> QED
      BY <2>1, <2>2, <2>3, <2>4, <2>5
  <2> QED
    BY <1>1, <1>3, <2>6 DEF Unmoved, Answered
<1> QED
  BY <1>2, <1>3

\* A step after which every query is where it was is none of the store's.
LEMMA QuietStep ==
    ASSUME \A q \in Reader : Unmoved(q), UNCHANGED <<value, floor>>,
           phase # "down", phase' # "down"
    PROVE  UNCHANGED Store!vars
  BY DEF Store!vars, Unmoved

-----------------------------------------------------------------------------
\* What an iterator gives is at least what was there when it was opened, and at
\* most the latest value.
GivenFits == \A r \in Reader : pc[r] = "open" => Given(r) \in floor[r] .. value

\* The invariant implies it.
LEMMA GivenBounds == IInv => GivenFits
<1> SUFFICES ASSUME IInv, NEW r \in Reader, pc[r] = "open"
             PROVE  Given(r) \in floor[r] .. value
  BY DEF GivenFits
<1> DEFINE G == held[r].mts \cup held[r].branches
           K == {g \in G : Seen(r, g) # 0}
           L == {g \in G : Tree(g) # 0}
<1>1. \A g \in G : g \in Generation /\ g <= generation /\ Tree(g) = Seen(r, g)
  BY IteratorTree DEF Seen, InMemtable
<1>2. Given(r) = IF K = {} THEN 0 ELSE Seen(r, Max(K))
  BY DEF Given
<1>3. Newest(G, Tree) = IF L = {} THEN 0 ELSE Tree(Max(L))
  BY DEF Newest
<1>4. K = L /\ K \in SUBSET Generation /\ K \subseteq G
  BY <1>1
<1>5. K # {} => Max(K) \in G
  BY <1>4, MaxExists
<1>6. Given(r) = Newest(G, Tree) /\ (K # {} => Given(r) = Tree(Max(K))) /\ (K = {} => Given(r) = 0)
  <2> HIDE DEF K, L
  <2> QED
    BY <1>1, <1>2, <1>3, <1>4, <1>5
<1>7. floor[r] \in Nat /\ (floor[r] = 0 \/ \E g \in G : Tree(g) >= floor[r])
  BY ReaderTypes DEF IInv, QueryInv, Queried
<1>8. value \in Nat /\ \A g \in Generation : Tree(g) \in Nat /\ Tree(g) <= value
  <2>1. TypeOK /\ \A g \in Generation : Tree(g) <= value
    BY DEF IInv, ValueInv
  <2>2. \A g \in Generation : Tree(g) \in Nat
    BY <2>1, TreeType DEF TypeOK, Tree
  <2> QED
    BY <2>1, <2>2, MemtableAssumption DEF TypeOK, Value
<1>9. Newest(G, Tree) >= floor[r]
  BY <1>1, <1>7, NewestAtLeast
<1>10. Given(r) \in Nat /\ Given(r) <= value
  <2> HIDE DEF K
  <2>1. CASE K = {}
    BY <1>6, <1>8, <2>1
  <2>2. CASE K # {}
    BY <1>1, <1>5, <1>6, <1>8, <2>2
  <2> QED
    BY <2>1, <2>2
<1> QED
  BY <1>6, <1>7, <1>8, <1>9, <1>10

\* The same after a step.
LEMMA GivenBoundsNext == IInv' => GivenFits'
  BY GivenBounds, PTL

\* A step of an operation or a task moves no thread into or out of a query.
LEMMA ProgressMoves ==
    ASSUME IInv, NEW t \in Thread, Progress(t)
    PROVE  /\ \A u \in Thread \ {t} : pc'[u] = pc[u]
           /\ pc[t] \notin QueryPC /\ pc'[t] \notin QueryPC
           /\ UNCHANGED <<held, floor, result, phase>>
<1>1. pc \in [Thread -> PC]
  BY DEF IInv, TypeOK
<1>2. UNCHANGED <<queries, phase>> /\ pc[t] \notin QueryPC
  BY DEF Progress, QueryPC, Insert, InsertFails, Full, Rotate, Enqueue, TakeTask, NoTask, Compact,
         Pack, TryStart, Prepare, Block, Commit, Cleanup, DecRef, Recycle, Ready, Continue
<1>3. \E l : Goto(t, l) /\ l \notin QueryPC
  <2>1. CASE Insert(t)
    BY <2>1 DEF QueryPC, Insert
  <2>1a. CASE InsertFails(t) \/ Rotate(t) \/ Enqueue(t) \/ TakeTask(t) \/ NoTask(t)
    BY <2>1a DEF QueryPC, InsertFails, Rotate, Enqueue, TakeTask, NoTask
  <2>2. CASE Full(t)
    <3>1. Goto(t, CASE mt[Idx(gen[t] + 1)].state # "ready" -> "help"
                    [] Rotating # {}                       -> "idle"
                    [] OTHER                               -> "drain")
      BY <2>2 DEF Full
    <3>2. Goto(t, "help") \/ Goto(t, "idle") \/ Goto(t, "drain")
      BY <3>1
    <3> QED
      BY <3>2 DEF QueryPC
  <2>3. CASE Compact(t) \/ Pack(t) \/ TryStart(t) \/ Prepare(t) \/ Block(t)
    BY <2>3 DEF QueryPC, Compact, Pack, TryStart, Prepare, Block
  <2>4. CASE Commit(t) \/ Cleanup(t) \/ DecRef(t) \/ Recycle(t) \/ Ready(t)
    BY <2>4 DEF QueryPC, Commit, Cleanup, DecRef, DropRef, Resume, Recycle, Ready
  <2>5. CASE Continue(t)
    BY <2>5 DEF QueryPC, Continue
  <2> QED
    BY <2>1, <2>1a, <2>2, <2>3, <2>4, <2>5 DEF Progress
<1>4. PICK l : Goto(t, l) /\ l \notin QueryPC
  BY <1>3
<1> QED
  BY <1>1, <1>2, <1>4 DEF Goto, queries

\* An insert of the followed key: the current memtable gets the latest value.
LEMMA InsertWrites ==
    ASSUME IInv, NEW t \in Thread, Insert(t), value' # value
    PROVE  /\ value \in Nat /\ value' = value + 1 /\ phase = "up"
           /\ Has(generation) /\ Idx(generation) \in Slot
           /\ mt'[Idx(generation)].value = value + 1
           /\ \A x \in Slot \ {Idx(generation)} : mt'[x].value = mt[x].value
           /\ branch' = branch
<1> DEFINE s == Idx(generation)
<1>1. /\ TypeOK /\ gen[t] = generation /\ phase = "up" /\ Has(generation)
      /\ s \in Slot /\ mt \in [Slot -> Record] /\ value \in Nat
  <2>1. TypeOK /\ gen[t] = generation /\ phase = "up"
    BY DEF IInv, PlaceInv, Placed, Insert
  <2>2. value \in Nat
    BY <2>1, MemtableAssumption DEF TypeOK, Value
  <2> QED
    BY <2>1, <2>2, Types DEF IInv, WindowInv
<1>2. PICK k \in {0, 1} \cap 0 .. MaxValue - value,
           f \in IF gen[t] < MaxGeneration THEN BOOLEAN ELSE {FALSE} :
        /\ value' = value + k
        /\ mt' = [mt EXCEPT ![s] = [mt[s] EXCEPT !.value = IF k = 1 THEN value' ELSE @,
                                                 !.any   = TRUE,
                                                 !.full  = @ \/ f]]
  BY <1>1 DEF Insert
<1>3. k = 1 /\ value' = value + 1
  BY <1>1, <1>2
<1>4. branch' = branch
  BY DEF Insert
<1> HIDE DEF s
<1>5. mt'[s].value = value + 1 /\ \A x \in Slot \ {s} : mt'[x].value = mt[x].value
  <2> DEFINE w == mt[s].full \/ f
  <2>1. mt' = [mt EXCEPT ![s] = [mt[s] EXCEPT !.value = value + 1, !.any = TRUE, !.full = w]]
    BY <1>2, <1>3
  <2> HIDE DEF w
  <2>2. "value" \in DOMAIN mt[s]
    BY <1>1 DEF Record
  <2> QED
    BY <1>1, <2>1, <2>2
<1> QED
  BY <1>1, <1>3, <1>4, <1>5 DEF s

\* A step that does not insert the key leaves what an iterator refers to: only
\* memtables without references are recycled, and only the branch of a memtable
\* that is being compacted is written.
LEMMA ProgressKeeps ==
    ASSUME IInv, NEW t \in Thread, Progress(t), value' = value, NEW q \in Reader
    PROVE  /\ \A g \in held[q].mts : mt'[Idx(g)].value = mt[Idx(g)].value
           /\ \A g \in held[q].branches : branch'[g] = branch[g]
<1>1. /\ TypeOK /\ mt \in [Slot -> Record] /\ Idx(gen[t]) \in Slot
      /\ branch \in [Generation -> Value] /\ value \in Nat
      /\ held[q].branches \subseteq Generation
      /\ \A g \in held[q].mts : Idx(g) \in Slot /\ mt[Idx(g)].refs # 0
  <2>1. TypeOK
    BY DEF IInv
  <2>2. \A g \in held[q].mts : Idx(g) \in Slot /\ mt[Idx(g)].refs # 0
    BY <2>1, HeldRefs, Types
  <2>3. branch \in [Generation -> Value] /\ value \in Nat
    BY <2>1, MemtableAssumption DEF TypeOK, Value
  <2> QED
    BY <2>1, <2>2, <2>3, Types, ReaderTypes
<1> DEFINE Kept == \A x \in Slot : mt'[x].value = mt[x].value
<1>2. CASE Insert(t)
  <2>1. branch' = branch
    BY <1>2 DEF Insert
  <2>2. PICK k \in {0, 1} \cap 0 .. MaxValue - value,
             f \in IF gen[t] < MaxGeneration THEN BOOLEAN ELSE {FALSE} :
          /\ value' = value + k
          /\ mt' = [mt EXCEPT ![Idx(gen[t])] =
                      [mt[Idx(gen[t])] EXCEPT !.value = IF k = 1 THEN value' ELSE @,
                                              !.any   = TRUE,
                                              !.full  = @ \/ f]]
    BY <1>2 DEF Insert
  <2>3. k # 1
    BY <1>1, <2>2
  <2> DEFINE s == Idx(gen[t])
             w == mt[s].full \/ f
  <2>4. mt' = [mt EXCEPT ![s] = [mt[s] EXCEPT !.value = mt[s].value, !.any = TRUE, !.full = w]]
    BY <2>2, <2>3
  <2> HIDE DEF s, w
  <2>5. Kept
    <3>1. s \in Slot /\ "value" \in DOMAIN mt[s]
      BY <1>1 DEF Record, s
    <3> QED
      BY <1>1, <2>4, <3>1
  <2> QED
    BY <1>1, <2>1, <2>5
<1>3. CASE Recycle(t)
  <2> DEFINE s == Idx(gen[t])
  <2>1. branch' = branch /\ pc[t] = "recycle"
    BY <1>3 DEF Recycle
  <2>2. mt[s].refs = 0
    BY <2>1 DEF IInv, RecycleInv
  <2>3. \A x \in Slot \ {s} : mt'[x] = mt[x]
    BY <1>1, <1>3 DEF Recycle
  <2> HIDE DEF s
  <2> QED
    BY <1>1, <2>1, <2>2, <2>3
<1>4. CASE Pack(t)
  <2> DEFINE s == Idx(gen[t])
  <2>1. Live(gen[t])
    BY <1>4 DEF Pack, IInv, FlushInv, Live
  <2>2. \A g \in held[q].branches : g # gen[t]
    BY <2>1 DEF IInv, QueryInv, Queried
  <2>3. branch' = [branch EXCEPT ![gen[t]] = mt[s].value]
    BY <1>4 DEF Pack
  <2>4. Kept
    BY <1>1, <1>4, StateEffect DEF Pack, State
  <2> HIDE DEF s
  <2> QED
    BY <1>1, <2>2, <2>3, <2>4
<1>5. CASE \/ InsertFails(t) \/ Full(t) \/ Enqueue(t) \/ TakeTask(t) \/ NoTask(t)
           \/ Prepare(t) \/ Block(t) \/ Cleanup(t)
  BY <1>5 DEF InsertFails, Full, Enqueue, TakeTask, NoTask, Prepare, Block, Cleanup
<1>6. ASSUME branch' = branch, NEW s \in Slot, NEW v \in State,
             mt' = mt \/ mt' = [mt EXCEPT ![s].state = v]
      PROVE  Kept /\ branch' = branch
  BY <1>1, <1>6, StateEffect
<1>7. CASE Rotate(t)
  BY <1>1, <1>6, <1>7 DEF Rotate, Finalize, State
<1>8. CASE Compact(t) \/ Commit(t) \/ Ready(t)
  BY <1>1, <1>6, <1>8 DEF Compact, Commit, Ready, State
<1>9. CASE TryStart(t)
  BY <1>1, <1>6, <1>9 DEF TryStart, TryAssign, State
<1>10. CASE Continue(t)
  <2>1. Idx(gen[t] + 1) \in Slot
    BY <1>1, Types, IdxType
  <2> QED
    BY <1>1, <1>6, <1>10, <2>1 DEF Continue, TryAssign, State
<1>11. CASE DecRef(t)
  <2>1. mt' = [mt EXCEPT ![Idx(gen[t])].refs = mt[Idx(gen[t])].refs - 1] /\ branch' = branch
    BY <1>11 DEF DecRef, DropRef
  <2>2. \A x \in Slot : "value" \in DOMAIN mt[x]
    BY <1>1 DEF Record
  <2> QED
    BY <1>1, <2>1, <2>2
<1> QED
  BY <1>1, <1>2, <1>3, <1>4, <1>5, <1>7, <1>8, <1>9, <1>10, <1>11 DEF Progress

-----------------------------------------------------------------------------
\* An insert of the followed key is a write; the iterators that refer to the
\* current memtable see it.
LEMMA InsertRefines ==
    ASSUME IInv, NEW t \in Thread, Insert(t), value' # value
    PROVE  Store!Write
<1>1. /\ value \in Nat /\ value' = value + 1 /\ phase = "up"
      /\ Has(generation) /\ Idx(generation) \in Slot
      /\ mt'[Idx(generation)].value = value + 1
      /\ \A x \in Slot \ {Idx(generation)} : mt'[x].value = mt[x].value
      /\ branch' = branch
  BY InsertWrites
<1>2. /\ \A u \in Thread \ {t} : pc'[u] = pc[u]
      /\ pc[t] \notin QueryPC /\ pc'[t] \notin QueryPC
      /\ UNCHANGED <<held, floor, result, phase>>
  BY ProgressMoves DEF Progress
<1> DEFINE S == {r \in Reader : pc[r] = "open" /\ generation \in held[r].mts}
<1>3. ASSUME NEW r \in Reader, r \notin S
      PROVE  Unmoved(r)
  <2>1. CASE r = t
    BY <1>2, <2>1, NotInUse
  <2>2. CASE r # t
    <3>1. pc'[r] = pc[r] /\ result'[r] = result[r] /\ held'[r] = held[r] /\ TypeOK
      BY <1>2, <2>2 DEF IInv, Thread
    <3>2. ASSUME pc[r] = "open", NEW g \in held[r].mts
          PROVE  mt'[Idx(g)].value = mt[Idx(g)].value
      <4>1. Has(g) /\ Idx(g) \in Slot /\ g # generation
        BY <1>3, <3>2, HeldRefs
      <4>2. Idx(g) # Idx(generation)
        BY <1>1, <4>1 DEF Has
      <4> QED
        BY <1>1, <4>1, <4>2
    <3> QED
      BY <1>1, <3>1, <3>2, SeenSame
  <2> QED
    BY <2>1, <2>2
<1>4. ASSUME NEW r \in S
      PROVE  Doing(r)' = Doing(r) /\ Doing(r) = "scan" /\ Answered(r)' = value + 1
  <2>1. r \in Reader /\ r # t /\ pc'[r] = "open" /\ pc[r] = "open" /\ held'[r] = held[r]
    BY <1>2 DEF QueryPC, Thread
  <2> DEFINE G == held[r].mts \cup held[r].branches
             W(g) == IF g \in held[r].mts THEN mt'[Idx(g)].value ELSE branch'[g]
             K == {g \in G : W(g) # 0}
  <2>2. Given(r)' = IF K = {} THEN 0 ELSE W(Max(K))
    BY <2>1 DEF Given, Seen
  <2>3. \A g \in G : g \in Generation /\ g <= generation
    BY <2>1, IteratorTree
  <2>4. generation \in K /\ W(generation) = value + 1
    BY <1>1, <1>4
  <2>5. K \in SUBSET Generation /\ K \subseteq G /\ K # {}
    BY <2>3, <2>4
  <2> HIDE DEF K, W
  <2>6. Max(K) \in K /\ generation <= Max(K)
    BY <2>4, <2>5, MaxExists
  <2>7. Max(K) = generation
    <3>1. Max(K) \in Generation /\ Max(K) <= generation
      BY <2>3, <2>5, <2>6
    <3> QED
      BY <2>6, <3>1, Types DEF IInv
  <2>8. Given(r)' = value + 1
    BY <2>2, <2>4, <2>5, <2>7
  <2> QED
    BY <2>1, <2>8 DEF Doing, Answered
<1>5. /\ [r \in Reader |-> Doing(r)]' = [r \in Reader |-> Doing(r)]
      /\ S \in SUBSET {r \in Reader : [q \in Reader |-> Doing(q)][r] = "scan"}
      /\ [r \in Reader |-> Answered(r)]' =
            [r \in Reader |-> IF r \in S THEN value + 1 ELSE [q \in Reader |-> Answered(q)][r]]
  <2> HIDE DEF S
  <2>1. \A r \in Reader : Doing(r)' = Doing(r)
    BY <1>3, <1>4 DEF Unmoved
  <2>2. \A r \in Reader : Answered(r)' = IF r \in S THEN value + 1 ELSE Answered(r)
    BY <1>3, <1>4 DEF Unmoved
  <2>3. S \subseteq Reader
    BY DEF S
  <2> QED
    BY <1>4, <2>1, <2>2, <2>3
<1>6. phase # "down" /\ phase' # "down"
  BY <1>1, <1>2
<1> QED
  BY <1>1, <1>2, <1>5, <1>6 DEF Store!Write, Store!Open

\* No other step of an operation or a task is one of the store's.
LEMMA ProgressRefines ==
    ASSUME IInv, NEW t \in Thread, Progress(t), phase # "down"
    PROVE  Store!Next \/ UNCHANGED Store!vars
<1>1. CASE value' # value
  <2>1. Insert(t)
    BY <1>1 DEF Progress, InsertFails, Full, Rotate, Enqueue, TakeTask, NoTask, Compact,
         Pack, TryStart, Prepare, Block, Commit, Cleanup, DecRef, Recycle, Ready, Continue
  <2> QED
    BY <1>1, <2>1, InsertRefines DEF Store!Next
<1>2. CASE value' = value
  <2>1. /\ \A u \in Thread \ {t} : pc'[u] = pc[u]
        /\ pc[t] \notin QueryPC /\ pc'[t] \notin QueryPC
        /\ UNCHANGED <<held, floor, result, phase>>
    BY ProgressMoves
  <2>2. ASSUME NEW q \in Reader
        PROVE  Unmoved(q)
    <3>1. CASE q = t
      BY <2>1, <3>1, NotInUse
    <3>2. CASE q # t
      <4>1. pc'[q] = pc[q] /\ result'[q] = result[q] /\ held'[q] = held[q] /\ TypeOK
        BY <2>1, <3>2 DEF IInv, Thread
      <4>2. /\ \A g \in held[q].mts : mt'[Idx(g)].value = mt[Idx(g)].value
            /\ \A g \in held[q].branches : branch'[g] = branch[g]
        BY <1>2, ProgressKeeps
      <4> QED
        BY <4>1, <4>2, SeenSame
    <3> QED
      BY <3>1, <3>2
  <2> QED
    BY <1>2, <2>1, <2>2, QuietStep
<1> QED
  BY <1>1, <1>2

-----------------------------------------------------------------------------
\* What the trunk says of the key is never more than its latest value.
LEMMA RootAtMost ==
    ASSUME IInv
    PROVE  Newest(root, InBranch) \in Nat /\ Newest(root, InBranch) <= value
<1> DEFINE known == {g \in root : branch[g] # 0}
<1>1. Newest(root, InBranch) = IF known = {} THEN 0 ELSE branch[Max(known)]
  BY DEF Newest, InBranch
<1>2. /\ root \subseteq Generation /\ value \in Nat
      /\ \A g \in root : Tree(g) = branch[g]
      /\ \A g \in Generation : Tree(g) <= value
  <2>1. value \in Nat
    BY MemtableAssumption DEF IInv, TypeOK, Value
  <2> QED
    BY <2>1, RetiredTree DEF IInv, ValueInv
<1>3. known \in SUBSET Generation /\ known \subseteq root
  BY <1>2
<1>4. known # {} => Max(known) \in root
  BY <1>3, MaxExists
<1>5. Newest(root, InBranch) <= value
  BY <1>1, <1>2, <1>4
<1> QED
  BY <1>5, RootNewest

\* Only the query of r moves.
Alone(r) ==
    /\ \A q \in Reader \ {r} : Unmoved(q)
    /\ phase # "down" /\ phase' # "down" /\ value' = value

\* A query that ends its walk with a value the key has had since it began has
\* its answer.
LEMMA AnswerRefines ==
    ASSUME NEW r \in Reader, Alone(r), NEW l \in {"lookup", "scan"},
           Doing(r) = "busy", Doing(r)' = l, Answered(r)' \in floor[r] .. value, floor' = floor
    PROVE  Store!Next
<1>1. [q \in Reader |-> Doing(q)]' = [[q \in Reader |-> Doing(q)] EXCEPT ![r] = l]
  BY DEF Alone, Unmoved
<1>2. [q \in Reader |-> Answered(q)]' = [[q \in Reader |-> Answered(q)] EXCEPT ![r] = Answered(r)']
  BY DEF Alone, Unmoved
<1>3. Store!Answer(r, l)
  <2>1. \E v \in floor[r] .. value :
          [q \in Reader |-> Answered(q)]' = [[q \in Reader |-> Answered(q)] EXCEPT ![r] = v]
    BY <1>2
  <2> QED
    BY <1>1, <2>1 DEF Alone, Store!Answer
<1> QED
  BY <1>3 DEF Store!Next

\* A query whose caller is done with it says nothing any more.
LEMMA EndRefines ==
    ASSUME NEW r \in Reader, Alone(r),
           Doing(r) \in {"lookup", "scan"}, Doing(r)' = "idle", Answered(r)' = 0,
           floor' = [floor EXCEPT ![r] = 0]
    PROVE  Store!Next
<1>1. [q \in Reader |-> Doing(q)]' = [[q \in Reader |-> Doing(q)] EXCEPT ![r] = "idle"]
  BY DEF Alone, Unmoved
<1>2. [q \in Reader |-> Answered(q)]' = [[q \in Reader |-> Answered(q)] EXCEPT ![r] = 0]
  BY DEF Alone, Unmoved
<1>3. Store!End(r)
  BY <1>1, <1>2 DEF Alone, Store!End
<1> QED
  BY <1>3 DEF Store!Next

\* The other queries stay where they are while r takes a step: it writes no
\* memtable and no branch, only counts references.
LEMMA QueryAlone ==
    ASSUME IInv, NEW r \in Reader, Query(r), phase # "down"
    PROVE  Alone(r) /\ \A q \in Reader \ {r} : pc'[q] = pc[q]
<1>1. /\ TypeOK /\ pc \in [Thread -> PC] /\ held \in [Reader -> [mts : SUBSET Generation, branches : SUBSET Generation]]
      /\ result \in [Reader -> Value] /\ mt \in [Slot -> Record]
      /\ \A q \in Reader : q \in Thread
  BY DEF IInv, TypeOK, Thread
<1>2. /\ value' = value /\ phase' = phase /\ branch' = branch
      /\ (\E l : Goto(r, l)) \/ pc' = pc
      /\ \E v : result' = [result EXCEPT ![r] = v] \/ result' = result
  BY DEF Query, LookMemtable, LookTrunk, EndLookup, ScanMemtable, ScanTrunk, Close,
         CloseMemtable, CloseEnd, DropRef
<1>3. \A q \in Reader \ {r} : held'[q] = held[q]
  BY <1>1 DEF Query, LookMemtable, LookTrunk, EndLookup, ScanMemtable, ScanTrunk, Close,
         CloseMemtable, CloseEnd
<1>4. \A q \in Reader \ {r} : pc'[q] = pc[q] /\ result'[q] = result[q]
  BY <1>1, <1>2 DEF Goto
<1>5. \A x \in Slot : mt'[x].value = mt[x].value
  <2>1. \A x \in Slot : "value" \in DOMAIN mt[x]
    BY <1>1 DEF Record
  <2>2. CASE ScanMemtable(r)
    BY <1>1, <2>1, <2>2 DEF ScanMemtable
  <2>3. CASE CloseMemtable(r)
    BY <1>1, <2>1, <2>3 DEF CloseMemtable, DropRef
  <2> QED
    BY <2>2, <2>3 DEF Query, LookMemtable, LookTrunk, EndLookup, ScanTrunk, Close, CloseEnd
<1>6. ASSUME NEW q \in Reader \ {r}
      PROVE  Unmoved(q)
  <2>1. \A g \in held[q].mts : Idx(g) \in Slot
    BY <1>1, ReaderTypes, Types
  <2> QED
    BY <1>1, <1>2, <1>3, <1>4, <1>5, <2>1, SeenSame
<1> QED
  BY <1>2, <1>4, <1>6 DEF Alone

\* A query that does not move maps to no step of the store.
LEMMA QueryQuiet ==
    ASSUME NEW r \in Reader, Alone(r), Unmoved(r), floor' = floor
    PROVE  UNCHANGED Store!vars
  BY QuietStep DEF Alone

\* core_lookup: a hit in a memtable or its branch, or else the trunk's answer.
LEMMA LookRefines ==
    ASSUME IInv, IInv', NEW r \in Reader, LookMemtable(r) \/ LookTrunk(r), Alone(r)
    PROVE  Store!Next \/ UNCHANGED Store!vars
<1>1. /\ pc \in [Thread -> PC] /\ r \in Thread /\ pc[r] = "look" /\ floor' = floor /\ value' = value
      /\ result \in [Reader -> Value] /\ floor[r] \in Nat /\ value \in Nat
  <2>1. TypeOK
    BY DEF IInv
  <2> QED
    BY <2>1, ReaderTypes, MemtableAssumption, SMTT(30) DEF TypeOK, LookMemtable, LookTrunk, Value
<1>2. Doing(r) = "busy"
  BY <1>1 DEF Doing
<1>3. pc'[r] = "found" => floor[r] <= result'[r]
  BY <1>1 DEF IInv, QueryInv, Queried
<1>4. ASSUME NEW v \in Nat, v <= value, result' = [result EXCEPT ![r] = v], Goto(r, "found")
      PROVE  Store!Next
  <2>1. pc'[r] = "found" /\ result'[r] = v
    BY <1>1, <1>4 DEF Goto
  <2>2. Doing(r)' = "lookup" /\ Answered(r)' = v
    BY <2>1 DEF Doing, Answered
  <2>3. v \in floor[r] .. value
    BY <1>1, <1>3, <1>4, <2>1
  <2> QED
    BY <1>1, <1>2, <2>2, <2>3, AnswerRefines
<1>5. CASE LookTrunk(r)
  BY <1>4, <1>5, RootAtMost DEF LookTrunk
<1>6. CASE LookMemtable(r)
  <2> DEFINE s == Idx(walk[r].cur)
             v == IF UseBranch(s) THEN branch[compacted[s]] ELSE mt[s].value
  <2>1. v = Tree(walk[r].cur) /\ v \in Nat /\ walk[r].cur \in Generation
    BY <1>1, <1>6, WalkTree DEF LookMemtable
  <2>2. v <= value
    BY <2>1 DEF IInv, ValueInv
  <2>3. \/ result' = [result EXCEPT ![r] = v] /\ Goto(r, "found")
        \/ UNCHANGED <<result, pc>>
    BY <1>6 DEF LookMemtable
  <2> HIDE DEF v
  <2>4. CASE result' = [result EXCEPT ![r] = v] /\ Goto(r, "found")
    BY <1>4, <2>1, <2>2, <2>4
  <2>5. CASE UNCHANGED <<result, pc>>
    <3>1. Unmoved(r)
      BY <1>1, <2>5 DEF Unmoved, Doing, Answered
    <3> QED
      BY <1>1, <3>1, QueryQuiet
  <2> QED
    BY <2>3, <2>4, <2>5
<1> QED
  BY <1>5, <1>6

\* core_range_iterator_init and core_range_iterator_deinit, and the end of a
\* lookup: the iterator is there once it has the trunk's branches, and it is
\* gone before it gives up its references.
LEMMA ScanRefines ==
    ASSUME IInv, IInv', NEW r \in Reader, Alone(r),
           EndLookup(r) \/ ScanMemtable(r) \/ ScanTrunk(r) \/ Close(r)
             \/ CloseMemtable(r) \/ CloseEnd(r)
    PROVE  Store!Next \/ UNCHANGED Store!vars
<1>1. pc \in [Thread -> PC] /\ r \in Thread /\ value' = value
  BY DEF IInv, TypeOK, Thread, Alone
<1>2. CASE EndLookup(r)
  <2>1. pc[r] = "found" /\ pc'[r] = "idle" /\ floor' = [floor EXCEPT ![r] = 0]
    BY <1>1, <1>2 DEF EndLookup, Goto
  <2>2. Doing(r) = "lookup" /\ Doing(r)' = "idle" /\ Answered(r)' = 0
    BY <2>1 DEF Doing, Answered
  <2> QED
    BY <2>1, <2>2, EndRefines
<1>3. CASE ScanMemtable(r)
  <2>1. pc[r] = "scan" /\ pc' = pc /\ floor' = floor
    BY <1>3 DEF ScanMemtable
  <2>2. Unmoved(r)
    BY <2>1 DEF Unmoved, Doing, Answered
  <2> QED
    BY <2>1, <2>2, QueryQuiet
<1>4. CASE ScanTrunk(r)
  <2>1. pc[r] = "scan" /\ pc'[r] = "open" /\ floor' = floor
    BY <1>1, <1>4 DEF ScanTrunk, Goto
  <2>2. Given(r)' \in floor'[r] .. value'
    BY <2>1, GivenBoundsNext DEF GivenFits
  <2>3. Doing(r) = "busy" /\ Doing(r)' = "scan" /\ Answered(r)' \in floor[r] .. value
    BY <1>1, <2>1, <2>2 DEF Doing, Answered
  <2> QED
    BY <2>1, <2>3, AnswerRefines
<1>5. CASE Close(r)
  <2>1. pc[r] = "open" /\ pc'[r] = "close" /\ floor' = [floor EXCEPT ![r] = 0]
    BY <1>1, <1>5 DEF Close, Goto
  <2>2. Doing(r) = "scan" /\ Doing(r)' = "idle" /\ Answered(r)' = 0
    BY <2>1 DEF Doing, Answered
  <2> QED
    BY <2>1, <2>2, EndRefines
<1>6. CASE CloseMemtable(r) \/ CloseEnd(r)
  <2>1. pc[r] = "close" /\ floor' = floor /\ pc'[r] \in {"recycle", "close", "idle"}
    BY <1>1, <1>6 DEF CloseMemtable, CloseEnd, DropRef, Resume, Goto
  <2>2. Unmoved(r)
    BY <2>1, NotInUse DEF QueryPC
  <2> QED
    BY <2>1, <2>2, QueryQuiet
<1> QED
  BY <1>2, <1>3, <1>4, <1>5, <1>6

-----------------------------------------------------------------------------
\* A lookup or a scan begins, with the latest value as its floor.
LEMMA WalkRefines ==
    ASSUME IInv, NEW r \in Reader, NEW l \in {"look", "scan"}, BeginWalk(r, l)
    PROVE  Store!Next
<1>1. /\ TypeOK /\ pc \in [Thread -> PC] /\ \A q \in Reader : q \in Thread
      /\ pc[r] = "idle" /\ phase = "up" /\ Goto(r, l)
      /\ floor' = [floor EXCEPT ![r] = value]
      /\ UNCHANGED <<mt, branch, held, result, value, phase>>
  BY DEF IInv, TypeOK, Thread, BeginWalk
<1>2. pc'[r] = l /\ \A q \in Reader \ {r} : pc'[q] = pc[q]
  BY <1>1 DEF Goto
<1>3. \A q \in Reader \ {r} : Unmoved(q)
  BY <1>1, <1>2, SeenSame
<1>4. Doing(r) = "idle" /\ Doing(r)' = "busy" /\ Answered(r)' = Answered(r)
  BY <1>1, <1>2 DEF Doing, Answered
<1>5. [q \in Reader |-> Doing(q)]' = [[q \in Reader |-> Doing(q)] EXCEPT ![r] = "busy"]
  BY <1>3, <1>4 DEF Unmoved
<1>6. [q \in Reader |-> Answered(q)]' = [q \in Reader |-> Answered(q)]
  BY <1>3, <1>4 DEF Unmoved
<1>7. Store!Begin(r)
  BY <1>1, <1>4, <1>5, <1>6 DEF Store!Begin, Store!Open
<1> QED
  BY <1>7 DEF Store!Next

\* An insert that begins, and the shutdown until it is quiescent, are no steps
\* of the store.
LEMMA BeginRefines ==
    ASSUME IInv, Begin
    PROVE  Store!Next \/ UNCHANGED Store!vars
<1>1. TypeOK /\ pc \in [Thread -> PC] /\ \A q \in Reader : q \in Thread
  BY DEF IInv, TypeOK, Thread
<1>2. CASE \E r \in Reader : BeginLookup(r) \/ BeginScan(r)
  BY <1>2, WalkRefines DEF BeginLookup, BeginScan
<1>3. ASSUME NEW w \in Writer, BeginInsert(w)
      PROVE  UNCHANGED Store!vars
  <2>1. /\ UNCHANGED <<mt, branch, held, floor, result, value, phase>> /\ phase = "up"
        /\ \E l : Goto(w, l)
    BY <1>3 DEF BeginInsert, queries
  <2>2. \A q \in Reader : pc'[q] = pc[q]
    BY <1>1, <2>1, MemtableAssumption DEF Goto
  <2>3. \A q \in Reader : Unmoved(q)
    BY <1>1, <2>1, <2>2, SeenSame
  <2> QED
    BY <2>1, <2>3, QuietStep
<1>4. ASSUME NEW w \in Writer, Shutdown(w)
      PROVE  UNCHANGED Store!vars
  <2>1. /\ UNCHANGED <<floor, value>> /\ phase = "up" /\ phase' = w
        /\ \A q \in Reader : pc[q] = "idle"
        /\ pc' = pc \/ Goto(w, "enqueue")
    BY <1>4 DEF Shutdown, queries
  <2>2. w # "down" /\ w \notin Reader
    BY MemtableAssumption
  <2>3. \A q \in Reader : pc'[q] = "idle"
    BY <1>1, <2>1, <2>2 DEF Goto
  <2>4. \A q \in Reader : Unmoved(q)
    BY <2>1, <2>3, NotInUse DEF QueryPC
  <2> QED
    BY <2>1, <2>2, <2>4, QuietStep
<1> QED
  BY <1>2, <1>3, <1>4 DEF Begin

\* The shutdown is done: the trunk has the latest value.
LEMMA QuiescentRefines ==
    ASSUME IInv, Quiescent, phase # "down"
    PROVE  Store!Next
<1>1. /\ UNCHANGED <<mt, branch, root, pc, held, floor, result, value>>
      /\ phase' = "down" /\ phase # "up"
  BY QuiescentIdle DEF Quiescent, queries, trunk
<1>2. \A q \in Reader : q \in Thread /\ pc[q] = "idle"
  BY <1>1 DEF IInv, PlaceInv, Placed, Thread
<1>3. \A q \in Reader : Unmoved(q) /\ Doing(q) = "idle"
  BY <1>1, <1>2, NotInUse DEF QueryPC, Doing
<1>4. Newest(root, InBranch)' = value
  <2>1. Newest(root, InBranch)' = Newest(root, InBranch)
    BY <1>1 DEF Newest, InBranch
  <2> QED
    BY <2>1, QuiescentValue
<1>5. Store!Close
  BY <1>1, <1>3, <1>4 DEF Store!Close, Store!Open, Unmoved
<1> QED
  BY <1>5 DEF Store!Next

\* The initial states are the store's.
LEMMA InitRefines == Init => Store!Init
  BY MemtableAssumption DEF Init, Store!Init, Store!Open, Doing, Answered, Thread

\* Every step is one of the store's, or none.
LEMMA StepRefines == IInv /\ [Next]_vars => [Store!Next]_(Store!vars)
<1> SUFFICES ASSUME IInv, [Next]_vars
             PROVE  Store!Next \/ UNCHANGED Store!vars
  OBVIOUS
<1>1. IInv'
  BY NextStep
<1>2. CASE UNCHANGED vars
  <2>1. \A q \in Reader : Unmoved(q)
    BY <1>2 DEF Unmoved, Doing, Answered, Given, Seen, vars, queries
  <2>2. UNCHANGED <<value, floor, phase>> /\ Newest(root, InBranch)' = Newest(root, InBranch)
    BY <1>2 DEF vars, queries, trunk, Newest, InBranch
  <2> QED
    BY <2>1, <2>2 DEF Store!vars, Unmoved
<1>3. CASE phase # "down" /\ \E t \in Thread : Progress(t)
  BY <1>3, ProgressRefines
<1>4. ASSUME phase # "down", NEW r \in Reader, Query(r)
      PROVE  Store!Next \/ UNCHANGED Store!vars
  <2>1. Alone(r)
    BY <1>4, QueryAlone
  <2> QED
    BY <1>1, <1>4, <2>1, LookRefines, ScanRefines, Zenon DEF Query
<1>5. CASE phase # "down" /\ Begin
  BY <1>5, BeginRefines
<1>6. CASE phase # "down" /\ Quiescent
  BY <1>6, QuiescentRefines
<1> QED
  BY <1>2, <1>3, <1>4, <1>5, <1>6, Zenon DEF Next, Stopped

(***************************************************************************)
(* The memtables, the tasks of core_memtable_flush_internal and the trunk  *)
(* implement the store of one key, for any number of threads, memtables    *)
(* and generations: lookups and iterators give a value the key has had     *)
(* since they began, an open iterator never goes back, and what            *)
(* core_prepare_for_shutdown leaves in the trunk is the latest value.      *)
(***************************************************************************)
THEOREM KeepsPromise == Spec => Promised
<1>1. Init => Store!Init
  BY InitRefines
<1>2. IInv /\ [Next]_vars => [Store!Next]_(Store!vars)
  BY StepRefines
<1> QED
  BY <1>1, <1>2, Invariance, PTL DEF Spec, Promised, Store!Spec
=============================================================================
