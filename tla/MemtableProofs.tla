--------------------------- MODULE MemtableProofs ---------------------------
(***************************************************************************)
(* The proofs about Memtable, for any number of threads, memtables and     *)
(* generations: what they need of the operators (the slot of a generation, *)
(* the largest element of a set of generations, the number of an           *)
(* iterator's references, the changes of one field of a memtable), and     *)
(* that each action preserves the invariant IInv of MemtableInv, one lemma *)
(* per action and one step per part of the invariant.                      *)
(***************************************************************************)
EXTENDS MemtableInv, FiniteSetTheorems, WellFoundedInduction,
        NaturalsInduction, TLAPS

-----------------------------------------------------------------------------
(* The operators. *)

\* Quotient and remainder of a division by max_memtables are unique.
LEMMA DivisionUnique ==
    ASSUME NEW p \in Int, NEW q \in Int, NEW r \in Slot, NEW s \in Slot,
           max_memtables * p + r = max_memtables * q + s
    PROVE  r = s
<1>1. max_memtables * (p - q) = s - r
  BY MemtableAssumption DEF Slot
<1>2. CASE p - q >= 1
  <2>1. max_memtables * (p - q) >= max_memtables
    BY <1>2, MemtableAssumption
  <2> QED
    BY <1>1, <2>1, MemtableAssumption DEF Slot
<1>3. CASE p - q <= -1
  <2>1. max_memtables * (q - p) >= max_memtables
    BY <1>3, MemtableAssumption
  <2> QED
    BY <1>1, <2>1, MemtableAssumption DEF Slot
<1> QED
  BY <1>1, <1>2, <1>3, MemtableAssumption DEF Slot

\* A generation is its slot and a multiple of max_memtables.
LEMMA Division ==
    ASSUME NEW g \in Nat
    PROVE  /\ g \div max_memtables \in Int /\ Idx(g) \in Slot
           /\ g = max_memtables * (g \div max_memtables) + Idx(g)
  BY MemtableAssumption DEF Idx, Slot

\* Every generation has a place in ctxt->mt.
LEMMA IdxType == \A g \in Nat : Idx(g) \in Slot
  BY Division

\* The memtable is reused for the generation max_memtables later ...
LEMMA IdxShift == \A g \in Nat : Idx(g + max_memtables) = Idx(g)
<1> TAKE g \in Nat
<1> DEFINE p == (g + max_memtables) \div max_memtables
           q == (g \div max_memtables) + 1
<1>1. p \in Int /\ q \in Int /\ Idx(g) \in Slot /\ Idx(g + max_memtables) \in Slot
  BY Division, MemtableAssumption
<1>2. /\ g + max_memtables = max_memtables * p + Idx(g + max_memtables)
      /\ g = max_memtables * (g \div max_memtables) + Idx(g)
  BY Division, MemtableAssumption
<1>3. g + max_memtables = max_memtables * q + Idx(g)
  BY <1>1, <1>2, MemtableAssumption DEF Slot
<1> HIDE DEF p, q
<1> QED
  BY <1>1, <1>2, <1>3, DivisionUnique

\* ... and for no generation in between.
LEMMA IdxDistinct ==
    \A g, h \in Nat : Idx(g) = Idx(h) /\ g < h => g + max_memtables <= h
<1> SUFFICES ASSUME NEW g \in Nat, NEW h \in Nat, Idx(g) = Idx(h), g < h
             PROVE  g + max_memtables <= h
  OBVIOUS
<1> DEFINE d == (h \div max_memtables) - (g \div max_memtables)
<1>1. d \in Int /\ h - g = max_memtables * d
  <2>1. /\ h \div max_memtables \in Int /\ g \div max_memtables \in Int
        /\ h = max_memtables * (h \div max_memtables) + Idx(g)
        /\ g = max_memtables * (g \div max_memtables) + Idx(g)
        /\ Idx(g) \in Slot
    BY Division
  <2> QED
    BY <2>1, MemtableAssumption DEF Slot
<1> HIDE DEF d
<1>2. d >= 1
  BY <1>1, MemtableAssumption
<1>3. max_memtables * d >= max_memtables
  BY <1>1, <1>2, MemtableAssumption
<1> QED
  BY <1>1, <1>3, MemtableAssumption

\* A nonempty set of natural numbers has a least element.
LEMMA LeastExists ==
    ASSUME NEW S \in SUBSET Nat, S # {}
    PROVE  \E x \in S : \A y \in S : x <= y
<1> DEFINE Less == {xy \in Nat \X Nat : xy[1] < xy[2]}
<1>1. IsWellFoundedOn(Less, Nat)
  BY NatLessThanWellFounded DEF OpToRel
<1>2. PICK x \in S : \A y \in S : <<y, x>> \notin Less
  <2> HIDE DEF Less
  <2> QED
    BY <1>1, WFMin
<1>3. \A y \in S : ~(y < x)
  BY <1>2
<1> QED
  BY <1>3

\* The largest of some generations is one of them.
LEMMA MaxExists ==
    ASSUME NEW S \in SUBSET Generation, S # {}
    PROVE  Max(S) \in S /\ \A y \in S : y <= Max(S)
<1> DEFINE T == {MaxGeneration + 1 - x : x \in S}
<1>1. T \in SUBSET Nat /\ T # {}
  <2>1. \A x \in S : MaxGeneration + 1 - x \in Nat
    BY MemtableAssumption DEF Generation
  <2>2. \E x : x \in S
    OBVIOUS
  <2> QED
    BY <2>1, <2>2
<1>2. PICK z \in T : \A y \in T : z <= y
  BY <1>1, LeastExists
<1>3. PICK x \in S : z = MaxGeneration + 1 - x
  BY <1>2
<1>4. \A y \in S : x >= y
  BY <1>2, <1>3, MemtableAssumption DEF Generation
<1>5. Max(S) \in S /\ \A y \in S : Max(S) >= y
  BY <1>4 DEF Max
<1> QED
  BY <1>5, MemtableAssumption DEF Generation

-----------------------------------------------------------------------------

\* The types of the counters, memtables and threads.
LEMMA Types ==
    ASSUME TypeOK
    PROVE  /\ generation \in Nat /\ generation \in Generation
           /\ generation_to_incorporate \in Nat
           /\ generation_retired \in Int /\ generation_retired >= -1
           /\ max_memtables \in Nat /\ max_memtables >= 2
           /\ MaxGeneration \in Nat /\ Generation \subseteq Nat
           /\ \A x \in Slot :
                /\ mt[x].state \in State /\ mt[x].generation \in Nat
                /\ mt[x].value \in Nat /\ mt[x].refs \in Nat
           /\ mt \in [Slot -> Record]
           /\ pc \in [Thread -> PC] /\ gen \in [Thread -> Nat]
           /\ \A t \in Thread : Idx(gen[t]) \in Slot /\ gen[t] \in Nat
           /\ Idx(generation) \in Slot /\ Idx(generation + 1) \in Slot
           /\ \A g \in Generation : Idx(g) \in Slot
<1>1. /\ generation \in Nat /\ generation_to_incorporate \in Nat
      /\ generation_retired \in Int /\ generation_retired >= -1
      /\ Generation \subseteq Nat
  BY MemtableAssumption DEF TypeOK, Generation
<1>2. \A x \in Slot :
        /\ mt[x].state \in State /\ mt[x].generation \in Nat
        /\ mt[x].value \in Nat /\ mt[x].refs \in Nat
  BY MemtableAssumption DEF TypeOK, Record, Value
<1> QED
  BY <1>1, <1>2, IdxType, MemtableAssumption DEF TypeOK

\* The generations up to the current one.
LEMMA Below == TypeOK => \A g \in Nat : g <= generation => g \in Generation
  BY MemtableAssumption DEF TypeOK, Generation

\* The types of a reader's walk, iterator and answer.
LEMMA ReaderTypes ==
    ASSUME TypeOK, NEW r \in Reader
    PROVE  /\ held[r].mts \subseteq Generation /\ held[r].branches \subseteq Generation
           /\ floor[r] \in Nat /\ floor[r] \in Value /\ result[r] \in Nat
           /\ walk[r].cur \in Int /\ walk[r].end \in Int
           /\ r \in Thread
<1>1. held[r] \in [mts : SUBSET Generation, branches : SUBSET Generation]
  BY DEF TypeOK
<1>2. walk[r] \in [cur : Generation \cup {-1}, end : Generation \cup {-1}]
  BY DEF TypeOK
<1>3. Value \subseteq Nat /\ Generation \cup {-1} \subseteq Int
  BY MemtableAssumption DEF Value, Generation
<1>4. walk[r].cur \in Generation \cup {-1} /\ walk[r].end \in Generation \cup {-1}
  BY <1>2
<1>5. floor[r] \in Value /\ result[r] \in Value
  BY DEF TypeOK
<1>6. held[r].mts \in SUBSET Generation /\ held[r].branches \in SUBSET Generation
  BY <1>1
<1> QED
  BY <1>3, <1>4, <1>5, <1>6 DEF Thread

\* A reader that takes or drops a reference keeps its others.
LEMMA HeldEffect ==
    ASSUME TypeOK, NEW r \in Reader, NEW M \in SUBSET Generation, NEW B \in SUBSET Generation,
           held' = [held EXCEPT ![r] = [mts |-> M, branches |-> B]]
    PROVE  /\ held' \in [Reader -> [mts : SUBSET Generation, branches : SUBSET Generation]]
           /\ held'[r].mts = M /\ held'[r].branches = B
           /\ \A q \in Reader \ {r} : held'[q] = held[q]
<1>1. held \in [Reader -> [mts : SUBSET Generation, branches : SUBSET Generation]]
  BY DEF TypeOK
<1>2. [mts |-> M, branches |-> B] \in [mts : SUBSET Generation, branches : SUBSET Generation]
  OBVIOUS
<1> QED
  BY <1>1, <1>2

\* One of its two sets is replaced.
LEMMA HeldFields ==
    ASSUME TypeOK, NEW r \in Reader, NEW S
    PROVE  /\ [held EXCEPT ![r].branches = S]
                = [held EXCEPT ![r] = [mts |-> held[r].mts, branches |-> S]]
           /\ [held EXCEPT ![r].mts = S]
                = [held EXCEPT ![r] = [mts |-> S, branches |-> held[r].branches]]
<1>1. held[r] \in [mts : SUBSET Generation, branches : SUBSET Generation]
  BY DEF TypeOK
<1>2. /\ [held[r] EXCEPT !.branches = S] = [mts |-> held[r].mts, branches |-> S]
      /\ [held[r] EXCEPT !.mts = S] = [mts |-> S, branches |-> held[r].branches]
  BY <1>1
<1> QED
  BY <1>2

\* What a memtable or a branch says about the key is a number.
LEMMA TreeType ==
    ASSUME NEW b \in [Generation -> Value], NEW m \in [Slot -> Record]
    PROVE  \A g \in Generation : b[g] \in Nat /\ m[Idx(g)].value \in Nat
<1>1. Value \subseteq Nat /\ \A g \in Generation : Idx(g) \in Slot
  BY IdxType, MemtableAssumption DEF Value, Generation
<1>2. \A x \in Slot : m[x].value \in Nat
  BY <1>1 DEF Record
<1> QED
  BY <1>1, <1>2

\* memtable_transition: one memtable changes its state.
LEMMA StateEffect ==
    ASSUME mt \in [Slot -> Record], NEW s \in Slot, NEW v \in State,
           mt' = [mt EXCEPT ![s].state = v]
    PROVE  /\ mt' \in [Slot -> Record]
           /\ \A x \in Slot \ {s} : mt'[x] = mt[x]
           /\ mt'[s].state = v
           /\ mt'[s].generation = mt[s].generation /\ mt'[s].refs = mt[s].refs
           /\ mt'[s].value = mt[s].value
           /\ mt'[s].any = mt[s].any /\ mt'[s].full = mt[s].full
  BY DEF Record

\* One memtable gets or loses a reference.
LEMMA RefsEffect ==
    ASSUME mt \in [Slot -> Record], NEW s \in Slot, NEW n \in Nat,
           mt' = [mt EXCEPT ![s].refs = n]
    PROVE  /\ mt' \in [Slot -> Record]
           /\ \A x \in Slot \ {s} : mt'[x] = mt[x]
           /\ mt'[s].refs = n
           /\ mt'[s].generation = mt[s].generation
           /\ mt'[s].state = mt[s].state /\ mt'[s].value = mt[s].value
           /\ mt'[s].any = mt[s].any /\ mt'[s].full = mt[s].full
  BY DEF Record

\* An insert changes what the b-tree of one memtable says.
LEMMA InsertEffect ==
    ASSUME mt \in [Slot -> Record], NEW s \in Slot, NEW v \in Value,
           NEW f \in BOOLEAN,
           mt' = [mt EXCEPT ![s] = [mt[s] EXCEPT !.value = v, !.any = TRUE, !.full = f]]
    PROVE  /\ mt' \in [Slot -> Record]
           /\ \A x \in Slot \ {s} : mt'[x] = mt[x]
           /\ mt'[s].value = v /\ mt'[s].any = TRUE /\ mt'[s].full = f
           /\ mt'[s].generation = mt[s].generation
           /\ mt'[s].state = mt[s].state /\ mt'[s].refs = mt[s].refs
  BY DEF Record

\* memtable_dec_ref_maybe_recycle gives one memtable a new b-tree and the
\* generation it will be used for next.
LEMMA RecycleEffect ==
    ASSUME mt \in [Slot -> Record], NEW s \in Slot, NEW g \in Nat,
           mt' = [mt EXCEPT ![s] =
                    [state |-> mt[s].state, generation |-> g, value |-> 0,
                     any |-> FALSE, full |-> FALSE, refs |-> 1]]
    PROVE  /\ mt' \in [Slot -> Record]
           /\ \A x \in Slot \ {s} : mt'[x] = mt[x]
           /\ mt'[s].state = mt[s].state /\ mt'[s].generation = g
           /\ mt'[s].value = 0 /\ mt'[s].refs = 1
           /\ mt'[s].any = FALSE /\ mt'[s].full = FALSE
  BY MemtableAssumption DEF Record, Value

-----------------------------------------------------------------------------
(***************************************************************************)
(* What leaves a part of the invariant alone.                              *)
(***************************************************************************)

\* The memtables keep their generations, and their states.
SameGenerations == \A x \in Slot : mt'[x].generation = mt[x].generation
SameTables == \A x \in Slot : /\ mt'[x].generation = mt[x].generation
                              /\ mt'[x].state = mt[x].state

\* Only thread t moves.
Others(t) == \A u \in Thread \ {t} : pc'[u] = pc[u] /\ gen'[u] = gen[u]

\* Thread t neither comes to nor leaves one of the places.
Off(t, P) == pc[t] \notin P /\ pc'[t] \notin P

\* Thread t goes from one of the places to another one.
Within(t, P) == pc[t] \in P /\ pc'[t] \in P /\ gen'[t] = gen[t]

\* The places of the other threads stay justified when no memtable ceases to
\* be full or ready under them, and the generation moves only while no thread
\* has the insert lock.
LEMMA PlaceFrame ==
    ASSUME TypeOK, PlaceInv, NEW t \in Thread, Others(t), UNCHANGED phase,
           generation' \in Nat, generation <= generation',
           \/ generation' = generation
           \/ \A u \in Thread \ {t} : pc[u] \notin {"insert", "full", "drain"},
           \A u \in Thread \ {t} : pc[u] \in {"full", "drain"} =>
              (mt[Idx(generation)].full => mt'[Idx(generation)].full),
           \A u \in Thread \ {t} : pc[u] = "drain" =>
              (mt[Idx(generation + 1)].state = "ready" =>
                 mt'[Idx(generation + 1)].state = "ready"),
           Placed(t)',
           pc'[t] # "drain" \/ \A u \in Thread : pc[u] # "drain"
    PROVE  PlaceInv'
<1>1. ASSUME NEW u \in Thread \ {t} PROVE Placed(u)'
  <2>1. pc'[u] = pc[u] /\ gen'[u] = gen[u] /\ gen[u] \in Nat /\ generation \in Nat
    BY Types DEF Others
  <2>2. Placed(u)
    BY DEF PlaceInv
  <2> QED
    BY <2>1, <2>2 DEF Placed
<1>2. \A v, u \in Thread : pc'[v] = "drain" /\ pc'[u] = "drain" => v = u
  BY DEF PlaceInv, Others
<1> QED
  BY <1>1, <1>2 DEF PlaceInv

\* The window of generations depends on the counters and on the memtables'
\* generations, and on their states only as far as they are in the pipeline.
LEMMA WindowFrame ==
    ASSUME TypeOK, WindowInv, SameGenerations,
           UNCHANGED <<generation, generation_retired, phase>>,
           \A x \in Slot : \/ mt'[x].state = mt[x].state
                           \/ mt[x].state \in Pipeline /\ mt'[x].state \in Pipeline,
           \A x \in Slot : mt'[x].full => mt[x].full \/ mt[x].generation < MaxGeneration
    PROVE  WindowInv'
<1> USE Types DEF SameGenerations, Has
<1>1. phase' = "up" => /\ mt'[Idx(generation)].generation = generation
                       /\ mt'[Idx(generation)].state = "ready"
  BY DEF WindowInv, Pipeline
<1>2. \A g \in Generation : generation_retired < g /\ g < generation =>
        mt'[Idx(g)].generation = g /\ mt'[Idx(g)].state \in Pipeline
  BY DEF WindowInv
<1>3. \A x \in Slot :
        /\ mt'[x].state = "ready" => mt[x].state = "ready"
        /\ mt'[x].state \in Pipeline => mt[x].state \in Pipeline
        /\ mt'[x].state = "incorporated" => mt[x].state = "incorporated"
  BY DEF Pipeline
<1> QED
  BY <1>1, <1>2, <1>3 DEF WindowInv

\* A task stays justified while its memtable stays finalized.
LEMMA TaskFrame ==
    ASSUME TypeOK, TaskInv, SameGenerations, UNCHANGED tasks,
           \A k \in 1 .. Len(tasks) :
              mt[Idx(tasks[k])].state = "finalized" =>
                 mt'[Idx(tasks[k])].state = "finalized"
    PROVE  TaskInv'
<1>1. \A k \in 1 .. Len(tasks) : tasks[k] \in Generation
  BY DEF TypeOK
<1> QED
  BY <1>1, Types DEF TaskInv, SameGenerations, Has

\* The flushes of the other threads stay justified while their memtables keep
\* their states.
LEMMA FlushFrame ==
    ASSUME TypeOK, FlushInv, SameGenerations, UNCHANGED tasks, NEW t \in Thread,
           Others(t), Off(t, FlushPC \cup {"pack"}),
           \A u \in Thread : pc[u] \in FlushPC \cup {"pack"} =>
              mt'[Idx(gen[u])].state = mt[Idx(gen[u])].state
    PROVE  FlushInv'
<1>1. \A u \in Thread : pc'[u] \in FlushPC \/ pc'[u] = "pack" =>
        pc'[u] = pc[u] /\ gen'[u] = gen[u]
  BY DEF Others, Off
<1>2. ASSUME NEW u \in Thread
      PROVE  /\ pc'[u] \in FlushPC =>
                  /\ mt'[Idx(gen'[u])].generation = gen'[u]
                  /\ mt'[Idx(gen'[u])].state = "finalized"
                  /\ \A k \in 1 .. Len(tasks) : tasks[k] # gen'[u]
             /\ pc'[u] = "pack" =>
                  /\ mt'[Idx(gen'[u])].generation = gen'[u]
                  /\ mt'[Idx(gen'[u])].state = "compacting"
  <2>1. Idx(gen[u]) \in Slot
    BY Types
  <2>2. /\ pc[u] \in FlushPC =>
              /\ mt[Idx(gen[u])].generation = gen[u]
              /\ mt[Idx(gen[u])].state = "finalized"
              /\ \A k \in 1 .. Len(tasks) : tasks[k] # gen[u]
        /\ pc[u] = "pack" =>
              /\ mt[Idx(gen[u])].generation = gen[u]
              /\ mt[Idx(gen[u])].state = "compacting"
    BY DEF FlushInv, Has
  <2> QED
    BY <1>1, <2>1, <2>2 DEF SameGenerations
<1>3. \A v, u \in Thread :
         /\ pc'[v] \in FlushPC /\ pc'[u] \in FlushPC /\ gen'[v] = gen'[u] => v = u
         /\ pc'[v] = "pack" /\ pc'[u] = "pack" /\ gen'[v] = gen'[u] => v = u
  BY <1>1 DEF FlushInv
<1> QED
  BY <1>2, <1>3 DEF FlushInv, Has

\* The owners of the memtables stay with them.
LEMMA OwnerFrame ==
    ASSUME TypeOK, OwnerInv, SameTables, UNCHANGED <<tasks, generation_to_incorporate>>,
           \A u \in Thread :
              /\ pc[u] \in FlushPC => pc'[u] \in FlushPC /\ gen'[u] = gen[u]
              /\ pc[u] = "pack" => pc'[u] = "pack" /\ gen'[u] = gen[u]
              /\ pc[u] = "start" => pc'[u] = "start" /\ gen'[u] = gen[u]
              /\ pc[u] \in BeforePC => pc'[u] \in BeforePC /\ gen'[u] = gen[u]
    PROVE  OwnerInv'
<1> SUFFICES ASSUME NEW s \in Slot
             PROVE  /\ mt'[s].state = "finalized" =>
                        \/ \E k \in 1 .. Len(tasks) : tasks[k] = mt'[s].generation
                        \/ \E t \in Thread : pc'[t] \in FlushPC /\ gen'[t] = mt'[s].generation
                    /\ mt'[s].state = "compacting" =>
                        \E t \in Thread : pc'[t] = "pack" /\ gen'[t] = mt'[s].generation
                    /\ mt'[s].state = "compacted" /\ mt'[s].generation = generation_to_incorporate =>
                        \E t \in Thread : pc'[t] = "start" /\ gen'[t] = mt'[s].generation
                    /\ mt'[s].state = "assigned" =>
                        \E t \in Thread : pc'[t] \in BeforePC /\ gen'[t] = mt'[s].generation
  BY DEF OwnerInv
<1> QED
  BY DEF OwnerInv, SameTables

\* The turn stays with the thread that has it.
LEMMA TurnFrame ==
    ASSUME TypeOK, TurnInv, SameGenerations,
           UNCHANGED <<generation_retired, generation_to_incorporate>>,
           \/ UNCHANGED <<generation, phase>>
           \/ phase = "up",
           \A x \in Slot : mt[x].state \in {"assigned", "incorporated"} =>
                            mt'[x].state = mt[x].state,
           NEW t \in Thread, Others(t),
           \/ t \in Reader
           \/ Off(t, BeforePC \cup AfterPC)
           \/ Within(t, BeforePC)
           \/ /\ Within(t, AfterPC)
              /\ pc'[t] \in {"cleanup", "decref"} => pc[t] \in {"cleanup", "decref"}
    PROVE  TurnInv'
<1> USE Types DEF TurnInv, SameGenerations, Has
<1>0. \A u \in Thread \ Reader :
         /\ pc'[u] \in BeforePC <=> pc[u] \in BeforePC
         /\ pc'[u] \in AfterPC <=> pc[u] \in AfterPC
         /\ pc'[u] \in {"cleanup", "decref"} => pc[u] \in {"cleanup", "decref"}
         /\ pc[u] \in BeforePC \cup AfterPC => gen'[u] = gen[u]
  BY DEF Others, Off, Within, BeforePC, AfterPC
<1>1. \A v, u \in Thread \ Reader :
         pc'[v] \in BeforePC \cup AfterPC /\ pc'[u] \in BeforePC \cup AfterPC => v = u
  BY <1>0
<1>2. \A v \in Thread \ Reader :
         /\ pc'[v] \in BeforePC =>
              /\ gen'[v] = generation_retired + 1
              /\ gen'[v] = generation_to_incorporate
              /\ mt'[Idx(gen'[v])].generation = gen'[v]
              /\ mt'[Idx(gen'[v])].state = "assigned"
         /\ pc'[v] \in AfterPC =>
              /\ gen'[v] = generation_retired
              /\ gen'[v] = generation_to_incorporate
         /\ pc'[v] \in {"cleanup", "decref"} =>
              /\ mt'[Idx(gen'[v])].generation = gen'[v]
              /\ mt'[Idx(gen'[v])].state = "incorporated"
  <2>1. SUFFICES ASSUME NEW v \in Thread \ Reader
                 PROVE  /\ pc'[v] \in BeforePC =>
                             /\ gen'[v] = generation_retired + 1
                             /\ gen'[v] = generation_to_incorporate
                             /\ mt'[Idx(gen'[v])].generation = gen'[v]
                             /\ mt'[Idx(gen'[v])].state = "assigned"
                        /\ pc'[v] \in AfterPC =>
                             /\ gen'[v] = generation_retired
                             /\ gen'[v] = generation_to_incorporate
                        /\ pc'[v] \in {"cleanup", "decref"} =>
                             /\ mt'[Idx(gen'[v])].generation = gen'[v]
                             /\ mt'[Idx(gen'[v])].state = "incorporated"
    OBVIOUS
  <2>2. Idx(gen[v]) \in Slot /\ gen[v] \in Nat
    OBVIOUS
  <2>3. pc[v] \in {"cleanup", "decref"} => pc[v] \in AfterPC
    BY DEF AfterPC
  <2> QED
    BY <1>0, <2>2, <2>3
<1>3. (\E v \in Thread \ Reader : pc[v] \in AfterPC) =>
        \E v \in Thread \ Reader : pc'[v] \in AfterPC
  BY <1>0
<1>4. \/ generation_to_incorporate = generation_retired + 1
      \/ /\ generation_to_incorporate = generation_retired
         /\ \/ \E v \in Thread \ Reader : pc'[v] \in AfterPC
            \/ generation_retired = generation' - 1 /\ phase' # "up"
  BY <1>3
<1> QED
  BY <1>1, <1>2, <1>4

\* Memtables that are recycled stay incorporated and without references.
LEMMA RecycleFrame ==
    ASSUME TypeOK, RecycleInv, SameGenerations, UNCHANGED generation,
           generation_retired <= generation_retired', generation_retired' \in Int,
           \A x \in Slot : mt[x].state = "incorporated" => mt'[x].state = "incorporated",
           \A x \in Slot : mt'[x].refs = mt[x].refs,
           NEW v \in Thread, Others(v), Off(v, {"recycle", "ready"})
    PROVE  RecycleInv'
<1> USE Types DEF RecycleInv, SameGenerations, Has, Others, Off
<1>1. \A t \in Thread :
         /\ pc'[t] = "recycle" =>
              /\ mt'[Idx(gen'[t])].generation = gen'[t]
              /\ mt'[Idx(gen'[t])].state = "incorporated"
              /\ gen'[t] <= generation_retired'
              /\ mt'[Idx(gen'[t])].refs = 0
         /\ pc'[t] = "ready" =>
              /\ mt'[Idx(gen'[t])].state = "incorporated"
              /\ generation <= mt'[Idx(gen'[t])].generation
  OBVIOUS
<1>2. \A t, u \in Thread :
         pc'[t] \in {"recycle", "ready"} /\ pc'[u] \in {"recycle", "ready"}
           /\ Idx(gen'[t]) = Idx(gen'[u]) => t = u
  OBVIOUS
<1>3. \A s \in Slot : mt'[s].refs = 0 =>
         \E t \in Thread : pc'[t] = "recycle" /\ gen'[t] = mt'[s].generation
  OBVIOUS
<1> QED
  BY <1>1, <1>2, <1>3

\* The references stay counted while the same iterators hold the same
\* memtables and the incorporation does not give one up.
LEMMA RefsFrame ==
    ASSUME TypeOK, RefsInv, SameGenerations,
           UNCHANGED <<walk, held, generation_retired>>,
           generation' \in Nat, generation <= generation',
           \A x \in Slot : mt'[x].refs = mt[x].refs,
           \A x \in Slot : mt[x].generation <= generation_retired =>
              (mt'[x].state = "incorporated" <=> mt[x].state = "incorporated"),
           NEW t \in Thread, Others(t),
           t \in Reader \/ Off(t, {"cleanup", "decref"}),
           t \notin Reader \/ Off(t, {"idle", "look", "found", "scan"})
    PROVE  RefsInv'
<1>1. ASSUME NEW x \in Slot
      PROVE  mt'[x].refs = Cardinality(Holders(x)') + IF Dropped(x)' THEN 0 ELSE 1
  <2>1. Holders(x)' = Holders(x)
    BY DEF Holders, SameGenerations
  <2>2. \A u \in Thread \ Reader : pc'[u] \in {"cleanup", "decref"} <=> pc[u] \in {"cleanup", "decref"}
    BY DEF Others, Off
  <2>3. \A u \in Thread \ Reader : pc[u] \in {"cleanup", "decref"} => gen'[u] = gen[u]
    BY DEF Others, Off
  <2>4. Dropped(x)' <=> Dropped(x)
    BY <2>2, <2>3 DEF Dropped, SameGenerations
  <2>5. mt[x].refs = Cardinality(Holders(x)) + IF Dropped(x) THEN 0 ELSE 1
    BY DEF RefsInv
  <2> QED
    BY <2>1, <2>4, <2>5
<1>2. ASSUME NEW r \in Reader
      PROVE  Holding(r)'
  <2>1. /\ pc'[r] \in {"idle", "look", "found"} <=> pc[r] \in {"idle", "look", "found"}
        /\ pc'[r] = "scan" <=> pc[r] = "scan"
    BY DEF Others, Off, Thread
  <2>2. Holding(r)
    BY DEF RefsInv
  <2>3. held[r].mts \subseteq Generation
    BY DEF TypeOK
  <2>4. \A g \in held[r].mts : mt[Idx(g)].generation = g /\ g <= generation
    BY <2>2 DEF Holding, Has
  <2>5. \A g \in held[r].mts : mt'[Idx(g)].generation = g /\ g <= generation'
    BY <2>3, <2>4, Types DEF SameGenerations
  <2> QED
    BY <2>1, <2>2, <2>5 DEF Holding, Has
<1> QED
  BY <1>1, <1>2 DEF RefsInv

\* A generation's value stays where it is, or moves on with the memtable's
\* state.
Advances(x) ==
    \/ mt'[x].state = mt[x].state
    \/ mt[x].state = "ready" /\ mt'[x].state = "finalized"
    \/ mt[x].state = "finalized" /\ mt'[x].state = "compacting"
    \/ /\ mt[x].state \in {"compacted", "assigned"}
       /\ mt'[x].state \in {"assigned", "incorporated"}

\* The values of the generations depend on the memtables and the branches.
LEMMA TreeFrame ==
    ASSUME TypeOK, SameGenerations, UNCHANGED branch,
           \A x \in Slot : mt'[x].value = mt[x].value,
           \A x \in Slot : Advances(x)
    PROVE  \A g \in Generation : /\ Live(g)' <=> Live(g)
                                 /\ Tree(g)' = Tree(g)
<1> SUFFICES ASSUME NEW g \in Generation
             PROVE  (Live(g)' <=> Live(g)) /\ Tree(g)' = Tree(g)
  OBVIOUS
<1>1. Idx(g) \in Slot
  BY Types
<1>2. Live(g)' <=> Live(g)
  BY <1>1 DEF Live, Has, SameGenerations, Advances
<1> QED
  BY <1>1, <1>2 DEF Tree

\* The values stay ordered while no b-tree changes.
LEMMA ValueFrame ==
    ASSUME TypeOK, ValueInv, SameGenerations,
           UNCHANGED <<branch, generation, value, phase, is_empty>>,
           \A x \in Slot : /\ mt'[x].value = mt[x].value
                           /\ mt'[x].any = mt[x].any
                           /\ mt'[x].full = mt[x].full,
           \A x \in Slot : Advances(x) /\ ~(mt[x].state = "ready" /\ mt'[x].state = "finalized"),
           \A x \in Slot : mt'[x].state \in {"compacted", "assigned"} =>
                              compacted'[x] = compacted[x]
    PROVE  ValueInv'
<1>1. \A g \in Generation : /\ Live(g)' <=> Live(g)
                            /\ Tree(g)' = Tree(g)
  BY TreeFrame
<1>2. /\ \A g, h \in Generation :
           g < h /\ h <= generation' /\ Tree(g)' # 0 /\ Tree(h)' # 0 => Tree(g)' <= Tree(h)'
      /\ \A g \in Generation : Tree(g)' <= value'
      /\ value' = 0 \/ \E g \in Generation : g <= generation' /\ Tree(g)' = value'
      /\ \A g \in Generation : Live(g)' => branch'[g] = 0
      /\ \A g \in Generation : generation' <= g => branch'[g] = 0
  BY <1>1 DEF ValueInv
<1>3. ASSUME NEW x \in Slot
      PROVE  /\ generation' < mt'[x].generation \/ (generation' = mt'[x].generation /\ phase' # "up") =>
                  mt'[x].value = 0 /\ ~mt'[x].any /\ ~mt'[x].full
             /\ mt'[x].state \in {"compacted", "assigned"} => compacted'[x] = mt'[x].generation
             /\ mt'[x].state \in {"compacted", "assigned", "incorporated"}
                  /\ mt'[x].generation < generation' => branch'[mt'[x].generation] = mt'[x].value
             /\ mt'[x].state \in {"finalized", "compacting"} => mt'[x].any
             /\ mt'[x].full \/ mt'[x].value # 0 => mt'[x].any
  BY DEF ValueInv, SameGenerations, Advances
<1>4. phase' = "up" => (is_empty' <=> ~mt'[Idx(generation')].any)
  BY Types DEF ValueInv
<1> QED
  BY <1>2, <1>3, <1>4 DEF ValueInv

\* The roots and the packers' references stay while no memtable comes to lead
\* to a branch and no thread passes the incorporation's steps.
LEMMA RootFrame ==
    ASSUME TypeOK, RootInv, SameGenerations, UNCHANGED <<trunk, generation_retired>>,
           \A x \in Slot : UseBranch(x)' => UseBranch(x),
           NEW t \in Thread, Others(t),
           \/ Off(t, {"block", "commit", "cleanup"})
           \/ pc[t] = "block" /\ pc'[t] = "commit" /\ gen'[t] = gen[t]
    PROVE  RootInv'
<1>1. \A u \in Thread : /\ pc'[u] \in {"block", "commit"} <=> pc[u] \in {"block", "commit"}
                        /\ pc[u] \in {"block", "commit"} => gen'[u] = gen[u]
                        /\ pc'[u] = "cleanup" <=> pc[u] = "cleanup"
  BY DEF Others, Off
<1>2. \A x \in Slot : UseBranch(x)' =>
         \/ mt'[x].generation \in packed'
         \/ \E u \in Thread : pc'[u] \in {"block", "commit"} /\ gen'[u] = mt'[x].generation
  <2> SUFFICES ASSUME NEW x \in Slot, UseBranch(x)'
               PROVE  \/ mt'[x].generation \in packed'
                      \/ \E u \in Thread : /\ pc'[u] \in {"block", "commit"}
                                            /\ gen'[u] = mt'[x].generation
    OBVIOUS
  <2>1. mt'[x].generation = mt[x].generation /\ packed' = packed /\ UseBranch(x)
    BY DEF SameGenerations, trunk
  <2>2. \/ mt[x].generation \in packed
        \/ \E u \in Thread : pc[u] \in {"block", "commit"} /\ gen[u] = mt[x].generation
    BY <2>1 DEF RootInv
  <2> QED
    BY <1>1, <2>1, <2>2
<1>3. /\ root' = {g \in Generation : g <= generation_retired'}
      /\ (\E u \in Thread : pc'[u] \in {"block", "commit"}) =>
            post_root' = {g \in Generation : g <= generation_retired' + 1}
      /\ (\A u \in Thread : pc'[u] \notin {"block", "commit"}) => post_root' = {}
      /\ (\A u \in Thread : pc'[u] # "cleanup") => pre_root' = {}
  BY <1>1 DEF RootInv, trunk
<1> QED
  BY <1>2, <1>3 DEF RootInv

\* What a lookup or an iterator relies on stays while no generation's value
\* gets older and no generation retires under a walk.
LEMMA QueryFrame ==
    ASSUME TypeOK, QueryInv, UNCHANGED queries, branch' \in [Generation -> Value],
           mt' \in [Slot -> Record],
           generation' \in Nat, generation <= generation',
           generation_retired' = generation_retired
             \/ \A r \in Reader : pc[r] \notin {"look", "scan"},
           \A g \in Generation : Tree(g)' >= Tree(g),
           \A g \in Generation : g < generation /\ ~Live(g) => ~Live(g)',
           NEW t \in Thread, Others(t),
           t \notin Reader \/ Off(t, {"look", "scan", "open", "found"})
    PROVE  QueryInv'
<1> SUFFICES ASSUME NEW r \in Reader PROVE Queried(r)'
  BY DEF QueryInv
<1>1. /\ r \in Thread
      /\ \/ pc'[r] = pc[r]
         \/ Off(r, {"look", "scan", "open", "found"})
  BY DEF Others, Thread
<1>2. /\ walk'[r] = walk[r] /\ held'[r] = held[r]
      /\ floor'[r] = floor[r] /\ result'[r] = result[r]
  BY DEF queries
<1>3. /\ held[r].mts \subseteq Generation /\ held[r].branches \subseteq Generation
      /\ floor[r] \in Nat /\ walk[r].cur \in Int /\ walk[r].end \in Int
  BY ReaderTypes
<1>4. Queried(r)
  BY DEF QueryInv
<1>5. \A g \in Generation : Tree(g) \in Nat /\ Tree(g)' \in Nat
  <2>1. \A g \in Generation : Tree(g) \in Nat
    BY TreeType DEF TypeOK, Tree
  <2>2. \A g \in Generation : Tree(g)' \in Nat
    BY TreeType DEF Tree
  <2> QED
    BY <2>1, <2>2
<1>6. pc'[r] \in {"look", "scan"} =>
         /\ walk'[r].end = generation_retired'
         /\ walk'[r].end <= walk'[r].cur
         /\ walk'[r].cur <= generation'
  BY <1>1, <1>2, <1>3, <1>4, Types DEF Queried, Off
<1>7. \A g \in held'[r].branches : g < generation' /\ ~Live(g)'
  BY <1>2, <1>3, <1>4, Types DEF Queried
<1>8. floor'[r] = 0 \/
         /\ pc'[r] = "look" =>
              \E g \in Generation : g <= walk'[r].cur /\ Tree(g)' >= floor'[r]
         /\ pc'[r] = "scan" =>
              \E g \in Generation :
                  /\ g <= walk'[r].cur \/ g \in held'[r].mts \cup held'[r].branches
                  /\ Tree(g)' >= floor'[r]
         /\ pc'[r] = "open" =>
              \E g \in held'[r].mts \cup held'[r].branches : Tree(g)' >= floor'[r]
  <2> SUFFICES ASSUME floor[r] # 0
               PROVE  /\ pc'[r] = "look" =>
                           \E g \in Generation : g <= walk[r].cur /\ Tree(g)' >= floor[r]
                      /\ pc'[r] = "scan" =>
                           \E g \in Generation :
                               /\ g <= walk[r].cur \/ g \in held[r].mts \cup held[r].branches
                               /\ Tree(g)' >= floor[r]
                      /\ pc'[r] = "open" =>
                           \E g \in held[r].mts \cup held[r].branches : Tree(g)' >= floor[r]
    BY <1>2
  <2>1. \A g \in Generation : Tree(g) >= floor[r] => Tree(g)' >= floor[r]
    BY <1>3, <1>5
  <2>2. pc[r] = "look" =>
           \E g \in Generation : g <= walk[r].cur /\ Tree(g) >= floor[r]
    BY <1>4 DEF Queried
  <2>3. pc[r] = "scan" =>
           \E g \in Generation :
               /\ g <= walk[r].cur \/ g \in held[r].mts \cup held[r].branches
               /\ Tree(g) >= floor[r]
    BY <1>4 DEF Queried
  <2>4. pc[r] = "open" =>
           \E g \in held[r].mts \cup held[r].branches : Tree(g) >= floor[r]
    BY <1>4 DEF Queried
  <2> QED
    BY <1>1, <1>3, <2>1, <2>2, <2>3, <2>4 DEF Off
<1>9. pc'[r] = "found" => result'[r] >= floor'[r]
  BY <1>1, <1>2, <1>4 DEF Queried, Off
<1> QED
  BY <1>6, <1>7, <1>8, <1>9 DEF Queried

\* A thread goes to another place.
LEMMA GotoEffect ==
    ASSUME TypeOK, NEW t \in Thread, NEW l \in PC, Goto(t, l)
    PROVE  /\ pc' \in [Thread -> PC] /\ pc'[t] = l
           /\ \A u \in Thread \ {t} : pc'[u] = pc[u]
           /\ UNCHANGED gen => Others(t) /\ gen' \in [Thread -> Nat]
  BY DEF TypeOK, Goto, Others

-----------------------------------------------------------------------------
(* The actions. *)

\* The handle is opened in a state of the invariant.
LEMMA InitIInv == Init => IInv
<1> SUFFICES ASSUME Init PROVE IInv
  OBVIOUS
<1>1. /\ max_memtables \in Nat /\ max_memtables >= 2 /\ MaxGeneration \in Nat /\ MaxValue \in Nat
      /\ Slot \subseteq Nat /\ Generation \subseteq Nat /\ 0 \in Generation /\ 0 \in Value
      /\ 0 \in Slot /\ 1 \in Slot
  BY MemtableAssumption DEF Slot, Generation, Value
<1>2. \A x \in Slot : Idx(x) = x
  <2>1. ASSUME NEW x \in Slot PROVE Idx(x) = x
    <3>1. /\ x \in Nat /\ x \div max_memtables \in Int /\ Idx(x) \in Slot
          /\ x = max_memtables * (x \div max_memtables) + Idx(x)
      BY <1>1, Division
    <3>2. 0 \in Int /\ max_memtables * 0 = 0 /\ 0 + x = x
      BY <1>1, <3>1
    <3>3. max_memtables * (x \div max_memtables) + Idx(x) = max_memtables * 0 + x
      BY <3>1, <3>2
    <3> QED
      BY <3>1, <3>2, <3>3, DivisionUnique
  <2> QED
    BY <2>1
<1>3. Idx(0) = 0 /\ Idx(0) \in Slot
  BY <1>1, <1>2
<1>4. /\ \A x \in Slot : /\ mt[x].state = "ready" /\ mt[x].generation = x /\ mt[x].value = 0
                         /\ mt[x].any = FALSE /\ mt[x].full = FALSE /\ mt[x].refs = 1
      /\ mt \in [Slot -> Record]
  BY <1>1 DEF Init, Record, State
<1>5. \A t \in Thread : pc[t] = "idle" /\ gen[t] = 0
  BY DEF Init
<1>6. TypeOK
  BY <1>1, <1>4 DEF Init, TypeOK, PC, NoHeld, Thread
<1>7. PlaceInv
  BY <1>5 DEF PlaceInv, Placed, TaskPC
<1>8. WindowInv
  <2>1. \A g \in Generation : ~(generation_retired < g /\ g < generation)
    BY <1>1 DEF Init
  <2>2. \A x \in Slot : x < max_memtables /\ x >= 0
    BY <1>1 DEF Slot
  <2> QED
    BY <1>1, <1>2, <1>3, <1>4, <2>1, <2>2 DEF Init, WindowInv, Has, Pipeline
<1>9. TaskInv /\ FlushInv /\ OwnerInv
  BY <1>4, <1>5 DEF Init, TaskInv, FlushInv, OwnerInv, FlushPC
<1>10. TurnInv /\ RecycleInv
  BY <1>4, <1>5 DEF Init, TurnInv, RecycleInv, BeforePC, AfterPC
<1>11. RefsInv
  <2>1. \A x \in Slot : Holders(x) = {} /\ ~Dropped(x)
    BY <1>4 DEF Init, Holders, Dropped, NoHeld
  <2>2. \A r \in Reader : Holding(r)
    BY <1>5 DEF Init, Holding, NoHeld, Thread
  <2>3. Cardinality({}) = 0
    BY FS_EmptySet
  <2>4. \A x \in Slot : mt[x].refs = Cardinality(Holders(x)) + IF Dropped(x) THEN 0 ELSE 1
    BY <1>4, <2>1, <2>3
  <2> QED
    BY <2>2, <2>4 DEF RefsInv
<1>12. ValueInv
  <2>1. \A g \in Generation : Tree(g) = 0
    BY <1>1, <1>4, IdxType DEF Init, Tree
  <2>2. \A g \in Generation : branch[g] = 0
    BY DEF Init
  <2>3. generation = 0 /\ value = 0 /\ is_empty = TRUE
    BY DEF Init
  <2> QED
    BY <1>1, <1>3, <1>4, <2>1, <2>2, <2>3 DEF ValueInv
<1>13. RootInv
  <2>0. \A g \in Generation : ~(g <= -1)
    BY <1>1
  <2>1. {g \in Generation : g <= -1} = {}
    BY <2>0
  <2>2. root = {} /\ post_root = {} /\ pre_root = {} /\ generation_retired = -1
    BY DEF Init
  <2>3. \A x \in Slot : ~UseBranch(x)
    BY <1>4 DEF UseBranch
  <2> QED
    BY <1>5, <2>1, <2>2, <2>3 DEF RootInv
<1>14. QueryInv
  BY <1>5 DEF Init, QueryInv, Queried, NoHeld, Thread
<1> QED
  BY <1>6, <1>7, <1>8, <1>9, <1>10, <1>11, <1>12, <1>13, <1>14 DEF IInv

\* The invariant is about the variables only.
LEMMA StutterIInv == IInv /\ UNCHANGED vars => IInv'
<1> SUFFICES ASSUME IInv, UNCHANGED vars PROVE IInv'
  OBVIOUS
<1> USE DEF vars, ctxt, trunk, queries, Has
<1>1. TypeOK' /\ TaskInv' /\ FlushInv' /\ OwnerInv' /\ TurnInv' /\ RecycleInv'
  BY DEF IInv, TypeOK, TaskInv, FlushInv, OwnerInv, TurnInv, RecycleInv
<1>2. PlaceInv' /\ WindowInv'
  BY DEF IInv, PlaceInv, Placed, WindowInv
<1>3. RefsInv'
  BY DEF IInv, RefsInv, Holders, Dropped, Holding
<1>4. ValueInv' /\ RootInv'
  BY DEF IInv, ValueInv, RootInv, Tree, Live, UseBranch
<1>5. QueryInv'
  BY DEF IInv, QueryInv, Queried, Tree, Live
<1> QED
  BY <1>1, <1>2, <1>3, <1>4, <1>5 DEF IInv

-----------------------------------------------------------------------------
\* While the memtables, the counters and the branches stay as they are, so do
\* the window, the values and what the queries rely on.
LEMMA SteadyStep ==
    ASSUME IInv, NEW t \in Thread \ Reader,
           UNCHANGED <<ctxt, mt, compacted, branch, queries, value, phase>>,
           Others(t), Off(t, {"recycle", "ready"}), Placed(t)',
           pc'[t] # "drain" \/ \A u \in Thread : pc[u] # "drain"
    PROVE  /\ PlaceInv' /\ WindowInv' /\ RecycleInv' /\ ValueInv' /\ QueryInv'
           /\ UNCHANGED <<generation, generation_to_incorporate, generation_retired, is_empty>>
           /\ UNCHANGED <<walk, held, floor, result>>
           /\ SameTables /\ SameGenerations
<1>1. /\ UNCHANGED <<generation, generation_to_incorporate, generation_retired, is_empty>>
      /\ UNCHANGED <<walk, held, floor, result>>
      /\ SameTables /\ SameGenerations
  BY DEF ctxt, queries, SameTables, SameGenerations
<1>2. \A x \in Slot : Advances(x)
  BY DEF Advances
<1>3. generation \in Nat /\ generation_retired \in Int
  BY Types DEF IInv
<1>4. PlaceInv'
  BY <1>1, <1>3, PlaceFrame DEF IInv
<1>5. WindowInv'
  BY <1>1, WindowFrame DEF IInv
<1>6. RecycleInv'
  BY <1>1, <1>3, RecycleFrame DEF IInv
<1>7. ValueInv'
  BY <1>1, <1>2, ValueFrame DEF IInv
<1>8. QueryInv'
  <2>1. \A g \in Generation : (Live(g)' <=> Live(g)) /\ Tree(g)' = Tree(g) /\ Tree(g) \in Nat
    BY <1>1, <1>2, TreeFrame, TreeType DEF IInv, TypeOK, Tree
  <2> QED
    BY <1>1, <1>3, <2>1, QueryFrame, SMTT(30) DEF IInv, TypeOK
<1> QED
  BY <1>1, <1>4, <1>5, <1>6, <1>7, <1>8

\* A thread that changes nothing but its place, outside a task, disturbs
\* nothing but what its own place has to imply.
LEMMA MoveStep ==
    ASSUME IInv, NEW t \in Thread \ Reader,
           UNCHANGED <<ctxt, mt, compacted, branch, trunk, tasks, queries, value, phase>>,
           pc' \in [Thread -> PC], gen' \in [Thread -> Nat], Others(t),
           Off(t, TaskPC), Placed(t)',
           pc'[t] # "drain" \/ \A u \in Thread : pc[u] # "drain"
    PROVE  IInv'
<1>1. Off(t, {"recycle", "ready"}) /\ Off(t, BeforePC \cup AfterPC)
  BY DEF Off, TaskPC, BeforePC, AfterPC
<1>2. /\ PlaceInv' /\ WindowInv' /\ RecycleInv' /\ ValueInv' /\ QueryInv'
      /\ UNCHANGED <<generation, generation_to_incorporate, generation_retired, is_empty>>
      /\ UNCHANGED <<walk, held, floor, result>>
      /\ SameTables /\ SameGenerations
  BY <1>1, SteadyStep
<1>3. TypeOK'
  BY <1>2 DEF IInv, TypeOK, trunk
<1>4. TaskInv'
  BY <1>2, TaskFrame DEF IInv
<1>5. FlushInv'
  BY <1>2, FlushFrame DEF IInv, Off, TaskPC, FlushPC
<1>6. OwnerInv'
  BY <1>2, OwnerFrame DEF IInv, Off, Others, TaskPC, FlushPC, BeforePC
<1>7. TurnInv'
  BY <1>1, <1>2, TurnFrame DEF IInv
<1>8. RefsInv'
  <2>1. generation \in Nat
    BY Types DEF IInv
  <2> QED
    BY <1>2, <2>1, RefsFrame DEF IInv, Off, TaskPC
<1>9. RootInv'
  BY <1>2, RootFrame DEF IInv, Off, TaskPC, UseBranch
<1> QED
  BY <1>2, <1>3, <1>4, <1>5, <1>6, <1>7, <1>8, <1>9 DEF IInv

\* memtable_maybe_rotate_and_begin_insert: the insert lock is shared.
LEMMA BeginInsertStep ==
    ASSUME IInv, NEW w \in Writer, BeginInsert(w)
    PROVE  IInv'
<1>1. w \in Thread \ Reader
  BY MemtableAssumption DEF Thread
<1>2. PICK l \in {"full", "insert"} :
        /\ Goto(w, l) /\ l \in PC /\ pc[w] = "idle" /\ phase = "up"
        /\ l = "full" => mt[Idx(generation)].full
  BY DEF BeginInsert, PC
<1>3. /\ UNCHANGED <<ctxt, mt, compacted, branch, trunk, tasks, queries, value, phase>>
      /\ gen' = [gen EXCEPT ![w] = generation]
  BY DEF BeginInsert
<1>4. TypeOK /\ generation \in Nat /\ gen \in [Thread -> Nat]
  BY Types DEF IInv
<1>5. /\ pc' \in [Thread -> PC] /\ pc'[w] = l
      /\ \A u \in Thread \ {w} : pc'[u] = pc[u]
  BY <1>1, <1>2, <1>4, GotoEffect
<1>6. gen' \in [Thread -> Nat] /\ gen'[w] = generation /\ Others(w)
  BY <1>1, <1>3, <1>4, <1>5 DEF Others
<1>7. Placed(w)'
  BY <1>1, <1>2, <1>3, <1>5, <1>6 DEF Placed, TaskPC, ctxt
<1> QED
  BY <1>1, <1>2, <1>3, <1>5, <1>6, <1>7, MoveStep DEF Off, TaskPC

\* btree_insert fails: the insert lock is released.
LEMMA InsertFailsStep ==
    ASSUME IInv, NEW t \in Thread, InsertFails(t)
    PROVE  IInv'
<1>1. t \in Thread \ Reader
  BY MemtableAssumption DEF IInv, PlaceInv, Placed, InsertFails
<1>2. /\ pc' \in [Thread -> PC] /\ pc'[t] = "idle" /\ pc[t] = "insert"
      /\ Others(t) /\ gen' \in [Thread -> Nat]
  BY GotoEffect DEF IInv, InsertFails, PC
<1>3. Placed(t)'
  BY <1>2 DEF Placed, TaskPC
<1> QED
  BY <1>1, <1>2, <1>3, MoveStep DEF InsertFails, Off, TaskPC

\* A full memtable: only the thread that claims the insert lock goes to drain,
\* and it has seen that the next memtable is ready.
LEMMA FullStep ==
    ASSUME IInv, NEW t \in Thread, Full(t)
    PROVE  IInv'
<1>1. /\ t \in Writer /\ t \in Thread \ Reader /\ phase = "up"
      /\ gen[t] = generation /\ mt[Idx(generation)].full
  BY MemtableAssumption DEF IInv, PlaceInv, Placed, Full
<1>2. PICK l \in {"help", "idle", "drain"} :
        /\ Goto(t, l) /\ l \in PC /\ pc[t] = "full"
        /\ l = "drain" => mt[Idx(gen[t] + 1)].state = "ready" /\ Rotating = {}
  BY DEF Full, PC
<1>3. UNCHANGED <<ctxt, mt, compacted, branch, trunk, tasks, gen, queries, value, phase>>
  BY DEF Full
<1>4. /\ pc' \in [Thread -> PC] /\ pc'[t] = l
      /\ Others(t) /\ gen' \in [Thread -> Nat]
  BY <1>2, <1>3, GotoEffect DEF IInv
<1>5. Placed(t)'
  BY <1>1, <1>2, <1>3, <1>4 DEF Placed, TaskPC, ctxt
<1>6. pc'[t] # "drain" \/ \A u \in Thread : pc[u] # "drain"
  BY <1>2, <1>4 DEF Rotating, At
<1> QED
  BY <1>1, <1>2, <1>3, <1>4, <1>5, <1>6, MoveStep DEF Off, TaskPC

\* A thread that could have run a task finds none.
LEMMA NoTaskStep ==
    ASSUME IInv, NEW t \in Thread, NoTask(t)
    PROVE  IInv'
<1>1. t \in Thread \ Reader
  BY MemtableAssumption DEF IInv, PlaceInv, Placed, NoTask
<1>2. /\ pc' \in [Thread -> PC] /\ pc'[t] = "idle" /\ pc[t] = "help"
      /\ Others(t) /\ gen' \in [Thread -> Nat]
  BY GotoEffect DEF IInv, NoTask, PC
<1>3. Placed(t)'
  BY <1>2 DEF Placed, TaskPC
<1> QED
  BY <1>1, <1>2, <1>3, MoveStep DEF NoTask, Off, TaskPC

\* core_memtable_flush: the thread that finalized the memtable hands it to the
\* task queue.
LEMMA EnqueueStep ==
    ASSUME IInv, NEW t \in Thread, Enqueue(t)
    PROVE  IInv'
<1>1. /\ t \in Thread \ Reader /\ pc[t] = "enqueue"
      /\ gen[t] < generation
  BY MemtableAssumption DEF IInv, PlaceInv, Placed, Enqueue, TaskPC
<1>2. UNCHANGED <<ctxt, mt, compacted, branch, trunk, gen, queries, value, phase>>
  BY DEF Enqueue
<1>3. /\ pc' \in [Thread -> PC] /\ pc'[t] = "idle"
      /\ Others(t) /\ gen' \in [Thread -> Nat]
  BY GotoEffect DEF IInv, Enqueue, PC
<1>4. /\ PlaceInv' /\ WindowInv' /\ RecycleInv' /\ ValueInv' /\ QueryInv'
      /\ UNCHANGED <<generation, generation_to_incorporate, generation_retired, is_empty>>
      /\ UNCHANGED <<walk, held, floor, result>>
      /\ SameTables /\ SameGenerations
  <2>1. Placed(t)'
    BY <1>3 DEF Placed, TaskPC
  <2> QED
    BY <1>1, <1>2, <1>3, <2>1, SteadyStep DEF Off
<1>5. /\ gen[t] \in Generation /\ generation \in Nat
      /\ \A u \in Thread : Idx(gen[u]) \in Slot /\ gen[u] \in Nat
      /\ Generation \subseteq Nat /\ \A g \in Generation : Idx(g) \in Slot
  BY <1>1, Types DEF IInv, TypeOK, Generation
<1>6. /\ tasks' \in Seq(Generation) /\ Len(tasks') = Len(tasks) + 1 /\ Len(tasks) \in Nat
      /\ tasks'[Len(tasks) + 1] = gen[t]
      /\ \A k \in 1 .. Len(tasks) : tasks'[k] = tasks[k] /\ tasks[k] \in Generation
  BY <1>5 DEF IInv, TypeOK, Enqueue
<1>7. TypeOK'
  BY <1>2, <1>3, <1>4, <1>6 DEF IInv, TypeOK, trunk
<1>8. /\ Has(gen[t]) /\ mt[Idx(gen[t])].state = "finalized"
      /\ \A k \in 1 .. Len(tasks) : tasks[k] # gen[t]
  BY <1>1 DEF IInv, FlushInv, FlushPC
<1>9. TaskInv'
  <2>1. \A k \in 1 .. Len(tasks') : Has(tasks'[k]) /\ mt[Idx(tasks'[k])].state = "finalized"
    BY <1>6, <1>8 DEF IInv, TaskInv
  <2>2. \A j, k \in 1 .. Len(tasks') : tasks'[j] = tasks'[k] => j = k
    BY <1>6, <1>8 DEF IInv, TaskInv
  <2> QED
    BY <1>2, <2>1, <2>2 DEF TaskInv, Has
<1>10. FlushInv'
  <2>1. \A u \in Thread : pc'[u] \in FlushPC \/ pc'[u] = "pack" =>
          u # t /\ pc'[u] = pc[u] /\ gen'[u] = gen[u]
    BY <1>3 DEF Others, FlushPC
  <2>2. \A u \in Thread : pc'[u] \in FlushPC =>
          \A k \in 1 .. Len(tasks') : tasks'[k] # gen'[u]
    BY <1>1, <1>6, <2>1 DEF IInv, FlushInv, FlushPC
  <2> QED
    BY <1>2, <2>1, <2>2 DEF IInv, FlushInv, Has
<1>11. OwnerInv'
  <2>1. ASSUME NEW x \in Slot, mt[x].state = "finalized"
        PROVE  \/ \E k \in 1 .. Len(tasks') : tasks'[k] = mt[x].generation
               \/ \E u \in Thread : pc'[u] \in FlushPC /\ gen'[u] = mt[x].generation
    <3>1. CASE \E k \in 1 .. Len(tasks) : tasks[k] = mt[x].generation
      BY <1>6, <3>1
    <3>2. CASE \E u \in Thread : pc[u] \in FlushPC /\ gen[u] = mt[x].generation
      <4>1. PICK u \in Thread : pc[u] \in FlushPC /\ gen[u] = mt[x].generation
        BY <3>2
      <4>2. CASE u = t
        <5>1. Len(tasks) + 1 \in 1 .. Len(tasks')
          BY <1>6
        <5> QED
          BY <1>6, <4>1, <4>2, <5>1
      <4>3. CASE u # t
        BY <1>3, <4>1, <4>3 DEF Others
      <4> QED
        BY <4>2, <4>3
    <3> QED
      BY <2>1, <3>1, <3>2 DEF IInv, OwnerInv
  <2>2. \A u \in Thread : pc[u] \in BeforePC \cup {"pack", "start"} =>
           pc'[u] = pc[u] /\ gen'[u] = gen[u]
    BY <1>1, <1>3 DEF Others, BeforePC
  <2> QED
    BY <1>2, <1>4, <2>1, <2>2 DEF IInv, OwnerInv
<1>12. TurnInv' /\ RefsInv' /\ RootInv'
  <2>1. Off(t, BeforePC \cup AfterPC)
    BY <1>1, <1>3 DEF Off, BeforePC, AfterPC
  <2>2. TurnInv'
    BY <1>2, <1>3, <1>4, <2>1, TurnFrame DEF IInv
  <2>3. RefsInv'
    BY <1>1, <1>2, <1>3, <1>4, <1>5, RefsFrame DEF IInv, Off
  <2>4. RootInv'
    BY <1>1, <1>2, <1>3, <1>4, RootFrame DEF IInv, Off, UseBranch
  <2> QED
    BY <2>2, <2>3, <2>4
<1> QED
  BY <1>4, <1>7, <1>9, <1>10, <1>11, <1>12 DEF IInv

\* A task is taken from the queue: its thread becomes the memtable's owner.
LEMMA TakeTaskStep ==
    ASSUME IInv, NEW t \in Thread, TakeTask(t)
    PROVE  IInv'
<1>1. t \in Thread \ Reader /\ pc[t] \in {"help", "idle"}
  <2>1. CASE pc[t] = "help"
    BY <2>1, MemtableAssumption DEF IInv, PlaceInv, Placed
  <2>2. CASE pc[t] = "idle" /\ t \in Worker
    BY <2>2, MemtableAssumption
  <2>3. CASE pc[t] = "idle" /\ phase = t
    <3>1. phase \in {"up", "down"} \cup Writer /\ phase \notin {"up", "down"}
      BY <2>3, MemtableAssumption DEF IInv, TypeOK, Thread
    <3> QED
      BY <2>3, <3>1, MemtableAssumption
  <2> QED
    BY <2>1, <2>2, <2>3 DEF TakeTask
<1>2. /\ UNCHANGED <<ctxt, mt, compacted, branch, trunk, queries, value, phase>>
      /\ tasks # <<>> /\ tasks' = Tail(tasks)
      /\ gen' = [gen EXCEPT ![t] = Head(tasks)]
  BY DEF TakeTask
<1>3. /\ tasks' \in Seq(Generation) /\ Len(tasks') = Len(tasks) - 1
      /\ Len(tasks) \in Nat /\ Len(tasks) >= 1
      /\ tasks[1] \in Generation /\ Head(tasks) = tasks[1]
      /\ \A k \in 1 .. Len(tasks') : tasks'[k] = tasks[k + 1]
  BY <1>2 DEF IInv, TypeOK
<1>4. /\ pc' \in [Thread -> PC] /\ pc'[t] = "compact"
      /\ \A u \in Thread \ {t} : pc'[u] = pc[u]
  BY GotoEffect DEF IInv, TakeTask, PC
<1>5. /\ Has(tasks[1]) /\ mt[Idx(tasks[1])].state = "finalized"
      /\ \A k \in 1 .. Len(tasks') : tasks'[k] # tasks[1]
  BY <1>3 DEF IInv, TaskInv
<1>6. /\ generation \in Nat /\ gen \in [Thread -> Nat] /\ Generation \subseteq Nat
      /\ \A u \in Thread : Idx(gen[u]) \in Slot /\ gen[u] \in Nat
      /\ \A g \in Generation : Idx(g) \in Slot
  BY Types DEF IInv
<1>7. gen' \in [Thread -> Nat] /\ gen'[t] = tasks[1] /\ Others(t)
  BY <1>2, <1>3, <1>4, <1>6 DEF Others
<1>8. tasks[1] < generation
  BY <1>3, <1>5, <1>6 DEF IInv, WindowInv, Has, Pipeline
<1>9. /\ PlaceInv' /\ WindowInv' /\ RecycleInv' /\ ValueInv' /\ QueryInv'
      /\ UNCHANGED <<generation, generation_to_incorporate, generation_retired, is_empty>>
      /\ UNCHANGED <<walk, held, floor, result>>
      /\ SameTables /\ SameGenerations
  <2>1. Placed(t)'
    BY <1>1, <1>2, <1>4, <1>7, <1>8 DEF Placed, TaskPC, ctxt
  <2> QED
    BY <1>1, <1>2, <1>4, <1>7, <2>1, SteadyStep DEF Off
<1>10. TypeOK'
  BY <1>2, <1>3, <1>4, <1>7, <1>9 DEF IInv, TypeOK, trunk
<1>11. TaskInv'
  <2>1. \A k \in 1 .. Len(tasks') : Has(tasks'[k]) /\ mt[Idx(tasks'[k])].state = "finalized"
    BY <1>3 DEF IInv, TaskInv
  <2>2. \A j, k \in 1 .. Len(tasks') : tasks'[j] = tasks'[k] => j = k
    <3>1. SUFFICES ASSUME NEW j \in 1 .. Len(tasks'), NEW k \in 1 .. Len(tasks'),
                          tasks'[j] = tasks'[k]
                   PROVE  j = k
      OBVIOUS
    <3>2. j + 1 \in 1 .. Len(tasks) /\ k + 1 \in 1 .. Len(tasks)
          /\ tasks[j + 1] = tasks[k + 1]
      BY <1>3, <3>1
    <3>3. j + 1 = k + 1
      BY <3>2 DEF IInv, TaskInv
    <3> QED
      BY <3>3
  <2> QED
    BY <1>2, <2>1, <2>2 DEF TaskInv, Has
<1>12. FlushInv'
  <2>1. \A u \in Thread \ {t} : pc'[u] = pc[u] /\ gen'[u] = gen[u]
    BY <1>7 DEF Others
  <2>2. \A u \in Thread \ {t} : pc[u] \in FlushPC =>
          /\ gen[u] # tasks[1]
          /\ \A k \in 1 .. Len(tasks') : tasks'[k] # gen[u]
    <3>1. SUFFICES ASSUME NEW u \in Thread \ {t}, pc[u] \in FlushPC
                   PROVE  /\ gen[u] # tasks[1]
                          /\ \A k \in 1 .. Len(tasks') : tasks'[k] # gen[u]
      OBVIOUS
    <3>2. \A k \in 1 .. Len(tasks) : tasks[k] # gen[u]
      BY <3>1 DEF IInv, FlushInv
    <3> QED
      BY <1>3, <3>2
  <2>3. \A u \in Thread \ {t} :
          /\ pc[u] \in FlushPC => Has(gen[u]) /\ mt[Idx(gen[u])].state = "finalized"
          /\ pc[u] = "pack" => Has(gen[u]) /\ mt[Idx(gen[u])].state = "compacting"
    BY DEF IInv, FlushInv
  <2>4. \A u \in Thread :
          /\ pc'[u] \in FlushPC =>
               /\ mt[Idx(gen'[u])].generation = gen'[u]
               /\ mt[Idx(gen'[u])].state = "finalized"
               /\ \A k \in 1 .. Len(tasks') : tasks'[k] # gen'[u]
          /\ pc'[u] = "pack" =>
               /\ mt[Idx(gen'[u])].generation = gen'[u]
               /\ mt[Idx(gen'[u])].state = "compacting"
    BY <1>4, <1>5, <1>7, <2>1, <2>2, <2>3 DEF Has
  <2>5. \A v, u \in Thread :
          /\ pc'[v] \in FlushPC /\ pc'[u] \in FlushPC /\ gen'[v] = gen'[u] => v = u
          /\ pc'[v] = "pack" /\ pc'[u] = "pack" /\ gen'[v] = gen'[u] => v = u
    BY <1>4, <1>7, <2>1, <2>2 DEF IInv, FlushInv
  <2> QED
    BY <1>2, <2>4, <2>5 DEF FlushInv, Has
<1>13. OwnerInv'
  <2>1. \A u \in Thread : pc[u] \in FlushPC \cup BeforePC \cup {"pack", "start"} =>
           pc'[u] = pc[u] /\ gen'[u] = gen[u]
    BY <1>1, <1>7 DEF Others, BeforePC, FlushPC
  <2>2. ASSUME NEW x \in Slot, mt[x].state = "finalized"
        PROVE  \/ \E k \in 1 .. Len(tasks') : tasks'[k] = mt[x].generation
               \/ \E u \in Thread : pc'[u] \in FlushPC /\ gen'[u] = mt[x].generation
    <3>1. CASE \E k \in 1 .. Len(tasks) : tasks[k] = mt[x].generation
      <4>1. PICK k \in 1 .. Len(tasks) : tasks[k] = mt[x].generation
        BY <3>1
      <4>2. CASE k = 1
        BY <1>4, <1>7, <4>1, <4>2 DEF FlushPC
      <4>3. CASE k # 1
        <5>1. k - 1 \in 1 .. Len(tasks') /\ tasks'[k - 1] = tasks[k]
          BY <1>3, <4>3
        <5> QED
          BY <4>1, <5>1
      <4> QED
        BY <4>2, <4>3
    <3>2. CASE \E u \in Thread : pc[u] \in FlushPC /\ gen[u] = mt[x].generation
      BY <2>1, <3>2
    <3> QED
      BY <2>2, <3>1, <3>2 DEF IInv, OwnerInv
  <2> QED
    BY <1>2, <1>9, <2>1, <2>2 DEF IInv, OwnerInv
<1>14. TurnInv' /\ RefsInv' /\ RootInv'
  <2>1. Off(t, BeforePC \cup AfterPC)
    BY <1>1, <1>4 DEF Off, BeforePC, AfterPC
  <2>2. TurnInv'
    BY <1>2, <1>7, <1>9, <2>1, TurnFrame DEF IInv
  <2>3. RefsInv'
    BY <1>1, <1>2, <1>4, <1>6, <1>7, <1>9, RefsFrame DEF IInv, Off
  <2>4. RootInv'
    BY <1>1, <1>2, <1>4, <1>7, <1>9, RootFrame DEF IInv, Off, UseBranch
  <2> QED
    BY <2>2, <2>3, <2>4
<1> QED
  BY <1>9, <1>10, <1>11, <1>12, <1>13, <1>14 DEF IInv

\* A thread that does not get the next memtable leaves it to another one, and
\* the turn is passed on or no memtable is left.
LEMMA PassStep ==
    ASSUME IInv, NEW t \in Thread \ Reader,
           UNCHANGED <<generation, generation_retired, is_empty, mt, compacted, branch,
                       trunk, tasks, queries, value, phase>>,
           generation_to_incorporate' \in Generation,
           pc' \in [Thread -> PC], gen' \in [Thread -> Nat], Others(t),
           pc[t] \in {"start", "continue"}, pc'[t] = "idle",
           \A x \in Slot :
              mt[x].state = "compacted" /\ mt[x].generation = generation_to_incorporate' =>
                \E u \in Thread \ {t} : pc[u] = "start" /\ gen[u] = mt[x].generation,
           \A u \in Thread \ Reader : pc'[u] \in BeforePC \cup AfterPC =>
              generation_to_incorporate' = generation_to_incorporate,
           \/ generation_to_incorporate' = generation_retired + 1
           \/ /\ generation_to_incorporate' = generation_retired
              /\ \/ \E u \in Thread \ Reader : pc'[u] \in AfterPC
                 \/ generation_retired = generation - 1 /\ phase # "up"
    PROVE  IInv'
<1>1. /\ UNCHANGED <<packed, root, post_root, pre_root>>
      /\ UNCHANGED <<walk, held, floor, result>>
      /\ SameTables /\ SameGenerations
  BY DEF trunk, queries, SameTables, SameGenerations
<1>2. \A x \in Slot : Advances(x)
  BY DEF Advances
<1>3. generation \in Nat /\ generation_retired \in Int
  BY Types DEF IInv
<1>4. TypeOK'
  BY <1>1 DEF IInv, TypeOK
<1>5. PlaceInv'
  <2>1. Placed(t)'
    BY DEF Placed, TaskPC
  <2> QED
    BY <1>1, <1>3, <2>1, PlaceFrame DEF IInv
<1>6. WindowInv' /\ TaskInv'
  BY <1>1, WindowFrame, TaskFrame DEF IInv
<1>7. FlushInv' /\ RecycleInv'
  <2>1. Off(t, FlushPC \cup {"pack"}) /\ Off(t, {"recycle", "ready"})
    BY DEF Off, FlushPC
  <2> QED
    <3>1. FlushInv'
      BY <1>1, <1>3, <2>1, FlushFrame DEF IInv
    <3>2. RecycleInv'
      BY <1>1, <1>3, <2>1, RecycleFrame DEF IInv
    <3> QED
      BY <3>1, <3>2
<1>8. OwnerInv'
  <2>1. \A u \in Thread : pc[u] \in FlushPC \cup BeforePC \cup {"pack"} =>
           pc'[u] = pc[u] /\ gen'[u] = gen[u]
    BY DEF Others, BeforePC, FlushPC
  <2>2. \A u \in Thread \ {t} : pc'[u] = pc[u] /\ gen'[u] = gen[u]
    BY DEF Others
  <2> QED
    BY <2>1, <2>2 DEF IInv, OwnerInv
<1>9. TurnInv'
  <2>1. \A u \in Thread \ Reader : pc'[u] \in BeforePC \cup AfterPC =>
          /\ pc'[u] = pc[u] /\ gen'[u] = gen[u]
          /\ generation_to_incorporate' = generation_to_incorporate
    BY DEF Others, BeforePC, AfterPC
  <2>2. \A u, v \in Thread \ Reader :
         pc'[u] \in BeforePC \cup AfterPC /\ pc'[v] \in BeforePC \cup AfterPC => u = v
    BY <2>1 DEF IInv, TurnInv
  <2>3. \A u \in Thread \ Reader :
          /\ pc'[u] \in BeforePC =>
               /\ gen'[u] = generation_retired + 1
               /\ gen'[u] = generation_to_incorporate'
               /\ mt[Idx(gen'[u])].generation = gen'[u]
               /\ mt[Idx(gen'[u])].state = "assigned"
          /\ pc'[u] \in AfterPC =>
               /\ gen'[u] = generation_retired
               /\ gen'[u] = generation_to_incorporate'
          /\ pc'[u] \in {"cleanup", "decref"} =>
               /\ mt[Idx(gen'[u])].generation = gen'[u]
               /\ mt[Idx(gen'[u])].state = "incorporated"
    BY <2>1 DEF IInv, TurnInv, Has, BeforePC, AfterPC
  <2> QED
    BY <2>2, <2>3 DEF TurnInv, Has
<1>10. RefsInv'
  BY <1>1, <1>3, RefsFrame DEF IInv, Off
<1>11. ValueInv'
  BY <1>1, <1>2, ValueFrame DEF IInv
<1>12. RootInv'
  BY <1>1, RootFrame DEF IInv, Off, UseBranch, trunk
<1>13. QueryInv'
  <2>1. \A g \in Generation : (Live(g)' <=> Live(g)) /\ Tree(g)' = Tree(g) /\ Tree(g) \in Nat
    BY <1>1, <1>2, TreeFrame, TreeType DEF IInv, TypeOK, Tree
  <2> QED
    BY <1>1, <1>3, <2>1, QueryFrame, SMTT(30) DEF IInv, TypeOK
<1> QED
  BY <1>4, <1>5, <1>6, <1>7, <1>8, <1>9, <1>10, <1>11, <1>12, <1>13 DEF IInv

\* The next memtable is assigned to thread t, which is the only one that
\* incorporates.
LEMMA AssignStep ==
    ASSUME IInv, NEW t \in Thread \ Reader, NEW g \in Nat, Has(g),
           mt[Idx(g)].state = "compacted",
           mt' = [mt EXCEPT ![Idx(g)].state = "assigned"],
           UNCHANGED <<generation, generation_retired, is_empty, compacted, branch,
                       trunk, tasks, queries, value, phase>>,
           generation_to_incorporate' = g, g = generation_retired + 1,
           pc' \in [Thread -> PC], gen' \in [Thread -> Nat], Others(t),
           pc[t] \in {"start", "continue"}, pc'[t] = "prepare", gen'[t] = g,
           \A u \in Thread \ Reader : pc[u] \in BeforePC \cup AfterPC => u = t
    PROVE  IInv'
<1>1. /\ UNCHANGED <<packed, root, post_root, pre_root>>
      /\ UNCHANGED <<walk, held, floor, result>>
  BY DEF trunk, queries
<1>2. /\ generation \in Nat /\ generation_retired \in Int /\ Idx(g) \in Slot
      /\ \A u \in Thread : Idx(gen[u]) \in Slot
      /\ \A h \in Generation : Idx(h) \in Slot
  BY IdxType, Types DEF IInv
<1>3. /\ mt' \in [Slot -> Record]
      /\ \A x \in Slot \ {Idx(g)} : mt'[x] = mt[x]
      /\ mt'[Idx(g)].state = "assigned"
      /\ mt'[Idx(g)].generation = mt[Idx(g)].generation /\ mt'[Idx(g)].refs = mt[Idx(g)].refs
      /\ mt'[Idx(g)].value = mt[Idx(g)].value
      /\ mt'[Idx(g)].any = mt[Idx(g)].any /\ mt'[Idx(g)].full = mt[Idx(g)].full
  BY <1>2, StateEffect DEF IInv, TypeOK, State
<1>4. /\ SameGenerations
      /\ \A x \in Slot : /\ mt'[x].value = mt[x].value /\ mt'[x].any = mt[x].any
                         /\ mt'[x].full = mt[x].full /\ mt'[x].refs = mt[x].refs
  BY <1>3 DEF SameGenerations
<1>5. \A x \in Slot : Advances(x)
  BY <1>3 DEF Advances
<1>6. \A x \in Slot : mt[x].state # "compacted" => mt'[x].state = mt[x].state
  BY <1>3
<1>7. generation_retired < g /\ g < generation /\ g \in Generation
  <2>1. generation_retired < g /\ g < generation
    BY <1>2 DEF IInv, WindowInv, Has, Pipeline
  <2> QED
    BY <2>1, MemtableAssumption DEF IInv, TypeOK, Generation
<1>8. TypeOK'
  BY <1>1, <1>3, <1>7 DEF IInv, TypeOK
<1>9. PlaceInv'
  <2>1. Placed(t)'
    BY <1>7 DEF Placed, TaskPC
  <2>2. mt[Idx(generation + 1)].state = "ready" => mt'[Idx(generation + 1)].state = "ready"
    BY <1>6, Types DEF IInv
  <2>3. mt[Idx(generation)].full => mt'[Idx(generation)].full
    BY <1>4, Types DEF IInv
  <2> QED
    BY <1>1, <1>2, <2>1, <2>2, <2>3, PlaceFrame DEF IInv
<1>10. WindowInv'
  <2>1. \A x \in Slot : \/ mt'[x].state = mt[x].state
                        \/ mt[x].state \in Pipeline /\ mt'[x].state \in Pipeline
    BY <1>3 DEF Pipeline
  <2> QED
    BY <1>4, <2>1, WindowFrame DEF IInv
<1>11. TaskInv'
  <2>1. \A k \in 1 .. Len(tasks) : tasks[k] \in Generation
    BY DEF IInv, TypeOK
  <2> QED
    BY <1>2, <1>4, <1>6, <2>1, TaskFrame DEF IInv
<1>12. FlushInv'
  <2>1. \A u \in Thread : pc[u] \in FlushPC \cup {"pack"} =>
           mt'[Idx(gen[u])].state = mt[Idx(gen[u])].state
    BY <1>2, <1>6 DEF IInv, FlushInv
  <2>2. Off(t, FlushPC \cup {"pack"})
    BY DEF Off, FlushPC
  <2> QED
    BY <1>4, <2>1, <2>2, FlushFrame DEF IInv
<1>13. OwnerInv'
  <2>1. \A u \in Thread : pc[u] \in FlushPC \cup BeforePC \cup {"pack"} =>
           pc'[u] = pc[u] /\ gen'[u] = gen[u]
    BY DEF Others, BeforePC, FlushPC
  <2>2. \A x \in Slot \ {Idx(g)} : mt[x].generation # g
    BY DEF IInv, WindowInv
  <2>3. ASSUME NEW x \in Slot \ {Idx(g)}
        PROVE  /\ mt[x].state = "finalized" =>
                    \/ \E k \in 1 .. Len(tasks) : tasks[k] = mt[x].generation
                    \/ \E u \in Thread : pc'[u] \in FlushPC /\ gen'[u] = mt[x].generation
               /\ mt[x].state = "compacting" =>
                    \E u \in Thread : pc'[u] = "pack" /\ gen'[u] = mt[x].generation
               /\ mt[x].state = "assigned" =>
                    \E u \in Thread : pc'[u] \in BeforePC /\ gen'[u] = mt[x].generation
    BY <2>1 DEF IInv, OwnerInv
  <2>4. pc'[t] \in BeforePC /\ gen'[t] = mt'[Idx(g)].generation
    BY <1>3 DEF BeforePC, Has
  <2>5. ASSUME NEW x \in Slot
        PROVE  /\ mt'[x].state = "finalized" =>
                    \/ \E k \in 1 .. Len(tasks') : tasks'[k] = mt'[x].generation
                    \/ \E u \in Thread : pc'[u] \in FlushPC /\ gen'[u] = mt'[x].generation
               /\ mt'[x].state = "compacting" =>
                    \E u \in Thread : pc'[u] = "pack" /\ gen'[u] = mt'[x].generation
               /\ ~(mt'[x].state = "compacted" /\ mt'[x].generation = g)
               /\ mt'[x].state = "assigned" =>
                    \E u \in Thread : pc'[u] \in BeforePC /\ gen'[u] = mt'[x].generation
    <3>1. CASE x = Idx(g)
      BY <1>3, <2>4, <3>1
    <3>2. CASE x # Idx(g)
      BY <1>3, <2>2, <2>3, <3>2
    <3> QED
      BY <3>1, <3>2
  <2> QED
    BY <2>5 DEF OwnerInv
<1>14. TurnInv'
  <2>1. \A u \in Thread \ Reader : pc'[u] \in BeforePC \cup AfterPC => u = t
    BY DEF Others
  <2>2. mt'[Idx(g)].generation = g /\ mt'[Idx(g)].state = "assigned"
    BY <1>3 DEF Has
  <2> QED
    BY <2>1, <2>2 DEF TurnInv, Has, BeforePC, AfterPC
<1>15. RecycleInv'
  BY <1>2, <1>4, <1>6, RecycleFrame DEF IInv, Off
<1>16. RefsInv'
  <2>1. \A x \in Slot : mt'[x].state = "incorporated" <=> mt[x].state = "incorporated"
    BY <1>3
  <2> QED
    BY <1>1, <1>2, <1>4, <2>1, RefsFrame DEF IInv, Off
<1>17. ValueInv'
  BY <1>4, <1>5, <1>6, ValueFrame DEF IInv
<1>18. RootInv'
  <2>1. \A x \in Slot : UseBranch(x)' => UseBranch(x)
    BY <1>3 DEF UseBranch
  <2> QED
    BY <1>4, <2>1, RootFrame DEF IInv, Off
<1>19. QueryInv'
  <2>1. \A h \in Generation : (Live(h)' <=> Live(h)) /\ Tree(h)' = Tree(h) /\ Tree(h) \in Nat
    BY <1>4, <1>5, TreeFrame, TreeType DEF IInv, TypeOK, Tree
  <2> QED
    BY <1>2, <1>3, <2>1, QueryFrame DEF IInv, TypeOK
<1> QED
  BY <1>8, <1>9, <1>10, <1>11, <1>12, <1>13, <1>14, <1>15, <1>16, <1>17, <1>18, <1>19
  DEF IInv

\* core_try_start_incorporate: the turn is taken by one thread, or there is
\* another one that takes it.
LEMMA TryStartStep ==
    ASSUME IInv, NEW t \in Thread, TryStart(t)
    PROVE  IInv'
<1> DEFINE s == Idx(gen[t])
           taken == /\ mt[s].generation = gen[t] /\ gen[t] = generation_to_incorporate
                    /\ mt[s].state = "compacted"
<1>1. t \in Thread \ Reader /\ pc[t] = "start"
  BY DEF IInv, PlaceInv, Placed, TryStart
<1>2. /\ UNCHANGED <<ctxt, compacted, branch, trunk, tasks, gen, queries, value, phase>>
      /\ mt' = IF taken THEN [mt EXCEPT ![s].state = "assigned"] ELSE mt
      /\ Goto(t, IF taken THEN "prepare" ELSE "idle")
  BY DEF TryStart, TryAssign
<1>3. /\ pc' \in [Thread -> PC] /\ pc'[t] = IF taken THEN "prepare" ELSE "idle"
      /\ Others(t) /\ gen' \in [Thread -> Nat]
  BY <1>2, GotoEffect DEF IInv, PC
<1>4. /\ UNCHANGED <<generation, generation_to_incorporate, generation_retired, is_empty>>
      /\ gen' = gen
  BY <1>2 DEF ctxt
<1>5. /\ s \in Slot /\ gen[t] \in Nat /\ generation_retired \in Int
      /\ \A u \in Thread : Idx(gen[u]) \in Slot
  BY Types DEF IInv
<1> HIDE DEF s
<1>6. CASE taken
  <2>1. generation_retired < gen[t]
    BY <1>5, <1>6 DEF IInv, WindowInv, Pipeline
  <2>2. gen[t] = generation_retired + 1
    BY <1>5, <1>6, <2>1 DEF IInv, TurnInv
  <2>3. ASSUME NEW u \in Thread \ Reader, pc[u] \in BeforePC \cup AfterPC
        PROVE  u = t
    <3>1. CASE pc[u] \in BeforePC
      <4>1. gen[u] = generation_to_incorporate /\ mt[Idx(gen[u])].state = "assigned"
        BY <3>1 DEF IInv, TurnInv
      <4> QED
        BY <1>6, <4>1 DEF s
    <3>2. CASE pc[u] \in AfterPC
      <4>1. gen[u] = generation_to_incorporate /\ gen[u] = generation_retired
        BY <3>2 DEF IInv, TurnInv
      <4> QED
        BY <1>5, <1>6, <2>1, <4>1
    <3> QED
      BY <2>3, <3>1, <3>2
  <2> QED
    BY <1>1, <1>2, <1>3, <1>4, <1>5, <1>6, <2>2, <2>3, AssignStep DEF s, Has
<1>7. CASE ~taken
  <2>1. ASSUME NEW x \in Slot, mt[x].state = "compacted",
               mt[x].generation = generation_to_incorporate
        PROVE  \E u \in Thread \ {t} : pc[u] = "start" /\ gen[u] = mt[x].generation
    <3>1. PICK u \in Thread : pc[u] = "start" /\ gen[u] = mt[x].generation
      BY <2>1 DEF IInv, OwnerInv
    <3>2. Idx(mt[x].generation) = x
      BY DEF IInv, WindowInv
    <3>3. u # t
      BY <1>7, <2>1, <3>1, <3>2 DEF s
    <3> QED
      BY <3>1, <3>3
  <2>2. generation_to_incorporate' \in Generation
    BY <1>4 DEF IInv, TypeOK
  <2>3. (\E u \in Thread \ Reader : pc[u] \in AfterPC) =>
          \E u \in Thread \ Reader : pc'[u] \in AfterPC
    <3>1. SUFFICES ASSUME NEW u \in Thread \ Reader, pc[u] \in AfterPC
                   PROVE  pc'[u] \in AfterPC
      OBVIOUS
    <3> QED
      BY <1>1, <1>3, <3>1 DEF Others, AfterPC
  <2>4. \/ generation_to_incorporate' = generation_retired + 1
        \/ /\ generation_to_incorporate' = generation_retired
           /\ \/ \E u \in Thread \ Reader : pc'[u] \in AfterPC
              \/ generation_retired = generation - 1 /\ phase # "up"
    BY <1>4, <2>3 DEF IInv, TurnInv
  <2> QED
    BY <1>1, <1>2, <1>3, <1>4, <1>7, <2>1, <2>2, <2>4, PassStep
<1> QED
  BY <1>6, <1>7

\* core_try_continue_incorporate: the turn goes on to the next generation,
\* whose memtable is taken if it is compacted already.
LEMMA ContinueStep ==
    ASSUME IInv, NEW t \in Thread, Continue(t)
    PROVE  IInv'
<1> DEFINE g == gen[t] + 1
           s == Idx(g)
           passed == mt[s].generation = g
           taken == passed /\ mt[s].state = "compacted"
<1>1. t \in Thread \ Reader /\ pc[t] = "continue"
  BY DEF IInv, PlaceInv, Placed, Continue
<1>2. /\ UNCHANGED <<generation, generation_retired, is_empty, compacted, branch, trunk,
                     tasks, queries, value, phase>>
      /\ mt' = IF taken THEN [mt EXCEPT ![s].state = "assigned"] ELSE mt
      /\ generation_to_incorporate' =
            IF passed THEN generation_to_incorporate + 1 ELSE generation_to_incorporate
      /\ Goto(t, IF taken THEN "prepare" ELSE "idle")
      /\ gen' = [gen EXCEPT ![t] = g]
  BY DEF Continue, TryAssign
<1>3. /\ gen[t] \in Nat /\ generation_retired \in Int /\ gen \in [Thread -> Nat]
      /\ generation_to_incorporate \in Nat /\ generation \in Nat
      /\ generation \in Generation
  BY Types DEF IInv
<1>4. gen[t] = generation_retired /\ gen[t] = generation_to_incorporate
  BY <1>1 DEF IInv, TurnInv, AfterPC
<1>5. g \in Nat /\ s \in Slot /\ g = generation_retired + 1
  BY <1>3, <1>4, IdxType
<1> HIDE DEF g, s
<1>6. /\ pc' \in [Thread -> PC] /\ pc'[t] = IF taken THEN "prepare" ELSE "idle"
      /\ \A u \in Thread \ {t} : pc'[u] = pc[u]
  BY <1>2, GotoEffect DEF IInv, PC
<1>7. gen' \in [Thread -> Nat] /\ gen'[t] = g /\ Others(t)
  BY <1>2, <1>3, <1>5, <1>6 DEF Others
<1>8. \A u \in Thread \ Reader : pc[u] \in BeforePC \cup AfterPC => u = t
  BY <1>1 DEF IInv, TurnInv, AfterPC
<1>9. g <= generation /\ g \in Generation
  BY <1>3, <1>5, MemtableAssumption DEF IInv, WindowInv, Generation
<1>10. CASE taken
  BY <1>1, <1>2, <1>3, <1>4, <1>5, <1>6, <1>7, <1>8, <1>10, AssignStep DEF s, Has
<1>11. CASE ~taken
  <2>1. ASSUME NEW x \in Slot, mt[x].state = "compacted",
               mt[x].generation = generation_to_incorporate'
        PROVE  FALSE
    <3>1. Idx(mt[x].generation) = x /\ generation_retired < mt[x].generation
      BY <2>1 DEF IInv, WindowInv, Pipeline
    <3>2. mt[x].generation = g
      <4>1. generation_to_incorporate' \in {generation_retired, generation_retired + 1}
        BY <1>2, <1>4
      <4> QED
        BY <1>3, <1>5, <2>1, <3>1, <4>1
    <3>3. x = s
      BY <3>1, <3>2 DEF s
    <3> QED
      BY <1>11, <2>1, <3>2, <3>3
  <2>2. generation_to_incorporate' \in Generation
    BY <1>2, <1>3, <1>4, <1>5, <1>9 DEF IInv, TypeOK
  <2>3. \A u \in Thread \ Reader : pc'[u] \notin BeforePC \cup AfterPC
    BY <1>6, <1>8, <1>11 DEF BeforePC, AfterPC
  <2>4. ~passed => generation_retired = generation - 1 /\ phase # "up"
    <3>1. SUFFICES ASSUME ~passed
                   PROVE  generation_retired = generation - 1 /\ phase # "up"
      OBVIOUS
    <3>2. g < generation => Has(g)
      BY <1>3, <1>5, <1>9 DEF IInv, WindowInv
    <3>3. g = generation
      BY <1>3, <1>5, <1>9, <3>1, <3>2 DEF Has, s
    <3>4. phase = "up" => Has(generation)
      BY DEF IInv, WindowInv
    <3> QED
      BY <1>3, <1>5, <3>1, <3>3, <3>4 DEF Has, s
  <2>5. \/ generation_to_incorporate' = generation_retired + 1
        \/ /\ generation_to_incorporate' = generation_retired
           /\ generation_retired = generation - 1 /\ phase # "up"
    BY <1>2, <1>4, <2>4
  <2> QED
    BY <1>1, <1>2, <1>6, <1>7, <1>11, <2>1, <2>2, <2>3, <2>5, PassStep
<1> QED
  BY <1>10, <1>11

\* trunk_incorporate_prepare: the new root takes the branch over from its
\* packer.
LEMMA PrepareStep ==
    ASSUME IInv, NEW t \in Thread, Prepare(t)
    PROVE  IInv'
<1> DEFINE s == Idx(gen[t])
<1>1. t \in Thread \ Reader /\ pc[t] = "prepare" /\ gen[t] < generation
  BY DEF IInv, PlaceInv, Placed, Prepare, TaskPC
<1>2. /\ UNCHANGED <<ctxt, mt, compacted, branch, root, pre_root, tasks, gen, queries, value, phase>>
      /\ post_root' = root \cup {compacted[s]}
      /\ packed' = packed \ {compacted[s]}
      /\ Modifying = {}
  BY DEF Prepare
<1>3. /\ pc' \in [Thread -> PC] /\ pc'[t] = "block"
      /\ Others(t) /\ gen' \in [Thread -> Nat]
  BY GotoEffect DEF IInv, Prepare, PC
<1>4. /\ PlaceInv' /\ WindowInv' /\ RecycleInv' /\ ValueInv' /\ QueryInv'
      /\ UNCHANGED <<generation, generation_to_incorporate, generation_retired, is_empty>>
      /\ UNCHANGED <<walk, held, floor, result>>
      /\ SameTables /\ SameGenerations
  <2>1. Placed(t)'
    BY <1>1, <1>2, <1>3 DEF Placed, TaskPC, ctxt
  <2> QED
    BY <1>1, <1>2, <1>3, <2>1, SteadyStep DEF Off
<1>5. /\ generation \in Nat /\ generation_retired \in Int /\ s \in Slot /\ gen[t] \in Nat
      /\ generation \in Generation
  BY Types DEF IInv
<1>6. /\ gen[t] = generation_retired + 1 /\ mt[s].generation = gen[t]
      /\ mt[s].state = "assigned"
  BY <1>1 DEF IInv, TurnInv, BeforePC, Has
<1>7. compacted[s] = gen[t] /\ gen[t] \in Generation
  BY <1>1, <1>5, <1>6, MemtableAssumption DEF IInv, ValueInv, Generation
<1>8. TypeOK'
  BY <1>2, <1>3, <1>4, <1>7 DEF IInv, TypeOK
<1>9. TaskInv'
  BY <1>2, <1>4, TaskFrame DEF IInv
<1>10. FlushInv'
  BY <1>1, <1>2, <1>3, <1>4, FlushFrame DEF IInv, Off, FlushPC
<1>11. OwnerInv'
  BY <1>1, <1>2, <1>3, <1>4, OwnerFrame DEF IInv, Others, FlushPC, BeforePC
<1>12. TurnInv'
  <2>1. Within(t, BeforePC)
    BY <1>1, <1>2, <1>3 DEF Within, BeforePC
  <2> QED
    BY <1>2, <1>3, <1>4, <2>1, TurnFrame DEF IInv
<1>13. RefsInv'
  BY <1>1, <1>2, <1>3, <1>4, <1>5, RefsFrame DEF IInv, Off
<1>14. RootInv'
  <2>1. \A u \in Thread : pc[u] \notin {"block", "commit", "cleanup"}
    BY <1>2 DEF Modifying, At
  <2>2. root' = {g \in Generation : g <= generation_retired}
    BY <1>2 DEF IInv, RootInv
  <2>3. post_root' = {g \in Generation : g <= generation_retired + 1}
    <3>1. post_root' = {g \in Generation : g <= generation_retired} \cup {generation_retired + 1}
      BY <1>2, <1>6, <1>7, <2>2
    <3>2. \A g \in Generation : g <= generation_retired + 1 <=>
             g <= generation_retired \/ g = generation_retired + 1
      BY <1>5, MemtableAssumption DEF Generation
    <3> QED
      BY <1>6, <1>7, <3>1, <3>2
  <2>4. pre_root' = {}
    BY <1>2, <2>1 DEF IInv, RootInv
  <2>5. ASSUME NEW x \in Slot, UseBranch(x)
        PROVE  \/ mt[x].generation \in packed'
               \/ \E u \in Thread : pc'[u] \in {"block", "commit"} /\ gen'[u] = mt[x].generation
    <3>1. CASE x = s
      BY <1>2, <1>3, <1>6, <3>1
    <3>2. CASE x # s
      <4>1. mt[x].generation # gen[t]
        BY <3>2 DEF IInv, WindowInv
      <4>2. mt[x].generation \in packed
        BY <2>1, <2>5 DEF IInv, RootInv
      <4> QED
        BY <1>2, <1>7, <4>1, <4>2
    <3> QED
      BY <3>1, <3>2
  <2>6. \A x \in Slot : UseBranch(x)' <=> UseBranch(x)
    BY <1>2 DEF UseBranch
  <2> QED
    BY <1>2, <1>3, <1>4, <2>2, <2>3, <2>4, <2>5, <2>6 DEF RootInv
<1> QED
  BY <1>4, <1>8, <1>9, <1>10, <1>11, <1>12, <1>13, <1>14 DEF IInv

\* memtable_block_lookups: the thread waits for the lookups to drain.
LEMMA BlockStep ==
    ASSUME IInv, NEW t \in Thread, Block(t)
    PROVE  IInv'
<1>1. t \in Thread \ Reader /\ pc[t] = "block" /\ gen[t] < generation
  BY DEF IInv, PlaceInv, Placed, Block, TaskPC
<1>2. UNCHANGED <<ctxt, mt, compacted, branch, trunk, tasks, gen, queries, value, phase>>
  BY DEF Block
<1>3. /\ pc' \in [Thread -> PC] /\ pc'[t] = "commit"
      /\ Others(t) /\ gen' \in [Thread -> Nat]
  BY GotoEffect DEF IInv, Block, PC
<1>4. /\ PlaceInv' /\ WindowInv' /\ RecycleInv' /\ ValueInv' /\ QueryInv'
      /\ UNCHANGED <<generation, generation_to_incorporate, generation_retired, is_empty>>
      /\ UNCHANGED <<walk, held, floor, result>>
      /\ SameTables /\ SameGenerations
  <2>1. Placed(t)'
    BY <1>1, <1>2, <1>3 DEF Placed, TaskPC, ctxt
  <2> QED
    BY <1>1, <1>2, <1>3, <2>1, SteadyStep DEF Off
<1>5. TypeOK'
  BY <1>2, <1>3, <1>4 DEF IInv, TypeOK, trunk
<1>6. TaskInv' /\ OwnerInv'
  BY <1>1, <1>2, <1>3, <1>4, TaskFrame, OwnerFrame DEF IInv, Others, FlushPC, BeforePC
<1>7. FlushInv'
  BY <1>1, <1>2, <1>3, <1>4, FlushFrame DEF IInv, Off, FlushPC
<1>8. TurnInv'
  <2>1. Within(t, BeforePC)
    BY <1>1, <1>2, <1>3 DEF Within, BeforePC
  <2> QED
    BY <1>2, <1>3, <1>4, <2>1, TurnFrame DEF IInv
<1>9. RefsInv'
  <2>1. generation \in Nat
    BY Types DEF IInv
  <2> QED
    BY <1>1, <1>2, <1>3, <1>4, <2>1, RefsFrame DEF IInv, Off
<1>10. RootInv'
  BY <1>1, <1>2, <1>3, <1>4, RootFrame DEF IInv, UseBranch
<1> QED
  BY <1>4, <1>5, <1>6, <1>7, <1>8, <1>9, <1>10 DEF IInv

\* trunk_incorporate_cleanup: the old root is given up.
LEMMA CleanupStep ==
    ASSUME IInv, NEW t \in Thread, Cleanup(t)
    PROVE  IInv'
<1>1. t \in Thread \ Reader /\ pc[t] = "cleanup" /\ gen[t] < generation
  BY DEF IInv, PlaceInv, Placed, Cleanup, TaskPC
<1>2. /\ UNCHANGED <<ctxt, mt, compacted, branch, packed, root, post_root, tasks, gen,
                     queries, value, phase>>
      /\ pre_root' = {}
  BY DEF Cleanup
<1>3. /\ pc' \in [Thread -> PC] /\ pc'[t] = "decref"
      /\ Others(t) /\ gen' \in [Thread -> Nat]
  BY GotoEffect DEF IInv, Cleanup, PC
<1>4. /\ PlaceInv' /\ WindowInv' /\ RecycleInv' /\ ValueInv' /\ QueryInv'
      /\ UNCHANGED <<generation, generation_to_incorporate, generation_retired, is_empty>>
      /\ UNCHANGED <<walk, held, floor, result>>
      /\ SameTables /\ SameGenerations
  <2>1. Placed(t)'
    BY <1>1, <1>2, <1>3 DEF Placed, TaskPC, ctxt
  <2> QED
    BY <1>1, <1>2, <1>3, <2>1, SteadyStep DEF Off
<1>5. TypeOK'
  BY <1>2, <1>3, <1>4 DEF IInv, TypeOK
<1>6. TaskInv' /\ OwnerInv'
  BY <1>1, <1>2, <1>3, <1>4, TaskFrame, OwnerFrame DEF IInv, Others, FlushPC, BeforePC
<1>7. FlushInv'
  BY <1>1, <1>2, <1>3, <1>4, FlushFrame DEF IInv, Off, FlushPC
<1>8. TurnInv'
  <2>1. Within(t, AfterPC)
    BY <1>1, <1>2, <1>3 DEF Within, AfterPC
  <2> QED
    BY <1>1, <1>2, <1>3, <1>4, <2>1, TurnFrame DEF IInv
<1>9. RefsInv'
  <2>1. \A x \in Slot : Holders(x)' = Holders(x) /\ (Dropped(x)' <=> Dropped(x))
    BY <1>1, <1>2, <1>3, <1>4 DEF Holders, Dropped, Others
  <2>2. \A x \in Slot : mt'[x].refs = Cardinality(Holders(x)') + IF Dropped(x)' THEN 0 ELSE 1
    BY <1>2, <2>1 DEF IInv, RefsInv
  <2>3. \A r \in Reader : pc'[r] = pc[r]
    BY <1>1, <1>3 DEF Others, Thread
  <2>4. \A r \in Reader : Holding(r)'
    BY <1>2, <1>4, <2>3 DEF IInv, RefsInv, Holding, Has
  <2> QED
    BY <2>2, <2>4 DEF RefsInv
<1>10. RootInv'
  <2>1. \A u \in Thread : /\ pc'[u] \in {"block", "commit"} <=> pc[u] \in {"block", "commit"}
                          /\ gen'[u] = gen[u]
    BY <1>1, <1>2, <1>3 DEF Others
  <2>2. \A x \in Slot : UseBranch(x)' <=> UseBranch(x)
    BY <1>2 DEF UseBranch
  <2>3. /\ root' = {g \in Generation : g <= generation_retired}
        /\ (\E u \in Thread : pc'[u] \in {"block", "commit"}) =>
              post_root' = {g \in Generation : g <= generation_retired + 1}
        /\ (\A u \in Thread : pc'[u] \notin {"block", "commit"}) => post_root' = {}
    BY <1>2, <2>1 DEF IInv, RootInv
  <2>4. \A x \in Slot : UseBranch(x)' =>
           \/ mt'[x].generation \in packed'
           \/ \E u \in Thread : pc'[u] \in {"block", "commit"} /\ gen'[u] = mt'[x].generation
    BY <1>2, <2>1, <2>2 DEF IInv, RootInv
  <2> QED
    BY <1>2, <1>4, <2>3, <2>4 DEF RootInv
<1> QED
  BY <1>4, <1>5, <1>6, <1>7, <1>8, <1>9, <1>10 DEF IInv

\* core_memtable_flush_internal begins: the finalized memtable is compacted by
\* the thread that has taken its task.
LEMMA CompactStep ==
    ASSUME IInv, NEW t \in Thread, Compact(t)
    PROVE  IInv'
<1> DEFINE s == Idx(gen[t])
<1>1. t \in Thread \ Reader /\ pc[t] = "compact" /\ gen[t] < generation
  BY DEF IInv, PlaceInv, Placed, Compact, TaskPC
<1>2. /\ UNCHANGED <<ctxt, branch, trunk, tasks, gen, queries, value, phase>>
      /\ mt' = [mt EXCEPT ![s].state = "compacting"]
      /\ compacted' = [compacted EXCEPT ![s] = NoBranch]
  BY DEF Compact
<1>3. /\ pc' \in [Thread -> PC] /\ pc'[t] = "pack"
      /\ Others(t) /\ gen' \in [Thread -> Nat]
  BY GotoEffect DEF IInv, Compact, PC
<1>4. /\ generation \in Nat /\ generation_retired \in Int /\ s \in Slot
      /\ \A u \in Thread : Idx(gen[u]) \in Slot
      /\ \A h \in Generation : Idx(h) \in Slot
  BY Types DEF IInv
<1>5. /\ UNCHANGED <<generation, generation_to_incorporate, generation_retired, is_empty>>
      /\ UNCHANGED <<walk, held, floor, result>>
  BY <1>2 DEF ctxt, queries
<1>6. /\ mt[s].generation = gen[t] /\ mt[s].state = "finalized"
      /\ \A k \in 1 .. Len(tasks) : tasks[k] # gen[t]
  BY <1>1 DEF IInv, FlushInv, FlushPC, Has
<1> HIDE DEF s
<1>7. /\ mt' \in [Slot -> Record]
      /\ \A x \in Slot \ {s} : mt'[x] = mt[x]
      /\ mt'[s].state = "compacting"
      /\ mt'[s].generation = mt[s].generation /\ mt'[s].refs = mt[s].refs
      /\ mt'[s].value = mt[s].value
      /\ mt'[s].any = mt[s].any /\ mt'[s].full = mt[s].full
  BY <1>2, <1>4, StateEffect DEF IInv, TypeOK, State
<1>8. /\ SameGenerations
      /\ \A x \in Slot : /\ mt'[x].value = mt[x].value /\ mt'[x].any = mt[x].any
                         /\ mt'[x].full = mt[x].full /\ mt'[x].refs = mt[x].refs
  BY <1>7 DEF SameGenerations
<1>9. /\ \A x \in Slot : Advances(x)
      /\ \A x \in Slot : mt[x].state # "finalized" => mt'[x].state = mt[x].state
      /\ \A x \in Slot : mt'[x].state # "compacting" => mt'[x].state = mt[x].state
  BY <1>6, <1>7 DEF Advances
<1>10. TypeOK'
  BY <1>2, <1>3, <1>5, <1>7 DEF IInv, TypeOK, trunk
<1>11. PlaceInv'
  <2>1. Placed(t)'
    BY <1>1, <1>2, <1>3, <1>5 DEF Placed, TaskPC
  <2>2. mt[Idx(generation + 1)].state = "ready" => mt'[Idx(generation + 1)].state = "ready"
    BY <1>9, Types DEF IInv
  <2>3. mt[Idx(generation)].full => mt'[Idx(generation)].full
    BY <1>8, Types DEF IInv
  <2> QED
    BY <1>2, <1>3, <1>4, <1>5, <2>1, <2>2, <2>3, PlaceFrame DEF IInv
<1>12. WindowInv'
  <2>1. \A x \in Slot : \/ mt'[x].state = mt[x].state
                        \/ mt[x].state \in Pipeline /\ mt'[x].state \in Pipeline
    BY <1>6, <1>7 DEF Pipeline
  <2> QED
    BY <1>2, <1>5, <1>8, <2>1, WindowFrame DEF IInv
<1>13. \A h \in Nat : Idx(h) = s /\ Has(h) => h = gen[t]
  BY <1>6 DEF Has
<1>14. TaskInv'
  <2>1. \A k \in 1 .. Len(tasks) :
           tasks[k] \in Generation /\ tasks[k] \in Nat /\ Has(tasks[k])
    BY Types DEF IInv, TypeOK, TaskInv
  <2>2. \A k \in 1 .. Len(tasks) : Idx(tasks[k]) \in Slot \ {s}
    BY <1>4, <1>6, <1>13, <2>1
  <2> QED
    BY <1>2, <1>7, <1>8, <2>2, TaskFrame DEF IInv
<1>15. FlushInv'
  <2>1. ASSUME NEW u \in Thread \ {t}
        PROVE  /\ pc'[u] = pc[u] /\ gen'[u] = gen[u]
               /\ pc[u] \in FlushPC \cup {"pack"} => gen[u] # gen[t]
    <3>1. pc'[u] = pc[u] /\ gen'[u] = gen[u]
      BY <1>3 DEF Others
    <3>2. pc[u] \in FlushPC => gen[u] # gen[t]
      BY <1>1 DEF IInv, FlushInv, FlushPC
    <3>3. pc[u] = "pack" => mt[Idx(gen[u])].state = "compacting"
      BY DEF IInv, FlushInv
    <3> QED
      BY <1>6, <3>1, <3>2, <3>3 DEF s
  <2>2. ASSUME NEW u \in Thread \ {t}
        PROVE  /\ pc[u] \in FlushPC =>
                    /\ mt'[Idx(gen[u])].generation = gen[u]
                    /\ mt'[Idx(gen[u])].state = "finalized"
                    /\ \A k \in 1 .. Len(tasks) : tasks[k] # gen[u]
               /\ pc[u] = "pack" =>
                    /\ mt'[Idx(gen[u])].generation = gen[u]
                    /\ mt'[Idx(gen[u])].state = "compacting"
    <3>1. /\ pc[u] \in FlushPC =>
               /\ mt[Idx(gen[u])].generation = gen[u]
               /\ mt[Idx(gen[u])].state = "finalized"
               /\ \A k \in 1 .. Len(tasks) : tasks[k] # gen[u]
          /\ pc[u] = "pack" =>
               /\ mt[Idx(gen[u])].generation = gen[u]
               /\ mt[Idx(gen[u])].state = "compacting"
      BY DEF IInv, FlushInv, Has
    <3>2. pc[u] \in FlushPC \cup {"pack"} => Idx(gen[u]) # s
      BY <1>6, <2>1, <3>1
    <3>3. Idx(gen[u]) \in Slot
      BY <1>4
    <3> QED
      BY <1>7, <3>1, <3>2, <3>3
  <2>3. \A u \in Thread :
          /\ pc'[u] \in FlushPC =>
               /\ mt'[Idx(gen'[u])].generation = gen'[u]
               /\ mt'[Idx(gen'[u])].state = "finalized"
               /\ \A k \in 1 .. Len(tasks) : tasks[k] # gen'[u]
          /\ pc'[u] = "pack" =>
               /\ mt'[Idx(gen'[u])].generation = gen'[u]
               /\ mt'[Idx(gen'[u])].state = "compacting"
    BY <1>2, <1>3, <1>6, <1>7, <2>1, <2>2 DEF FlushPC, s
  <2>4. \A v, u \in Thread :
          /\ pc'[v] \in FlushPC /\ pc'[u] \in FlushPC /\ gen'[v] = gen'[u] => v = u
          /\ pc'[v] = "pack" /\ pc'[u] = "pack" /\ gen'[v] = gen'[u] => v = u
    <3>1. \A v, u \in Thread \ {t} :
          /\ pc'[v] \in FlushPC /\ pc'[u] \in FlushPC /\ gen'[v] = gen'[u] => v = u
          /\ pc'[v] = "pack" /\ pc'[u] = "pack" /\ gen'[v] = gen'[u] => v = u
      BY <2>1 DEF IInv, FlushInv
    <3> QED
      BY <1>2, <1>3, <2>1, <3>1 DEF FlushPC
  <2> QED
    BY <1>2, <2>3, <2>4 DEF FlushInv, Has
<1>16. OwnerInv'
  <2>1. \A u \in Thread \ {t} : pc'[u] = pc[u] /\ gen'[u] = gen[u]
    BY <1>3 DEF Others
  <2>2. ASSUME NEW x \in Slot \ {s}
        PROVE  /\ mt'[x] = mt[x] /\ mt[x].generation # gen[t]
    BY <1>7 DEF IInv, WindowInv, s
  <2>3. ASSUME NEW x \in Slot
        PROVE  /\ mt'[x].state = "finalized" =>
                    \/ \E k \in 1 .. Len(tasks) : tasks[k] = mt'[x].generation
                    \/ \E u \in Thread : pc'[u] \in FlushPC /\ gen'[u] = mt'[x].generation
               /\ mt'[x].state = "compacting" =>
                    \E u \in Thread : pc'[u] = "pack" /\ gen'[u] = mt'[x].generation
               /\ mt'[x].state = "compacted" /\ mt'[x].generation = generation_to_incorporate =>
                    \E u \in Thread : pc'[u] = "start" /\ gen'[u] = mt'[x].generation
               /\ mt'[x].state = "assigned" =>
                    \E u \in Thread : pc'[u] \in BeforePC /\ gen'[u] = mt'[x].generation
    <3>1. CASE x = s
      BY <1>2, <1>3, <1>6, <1>7, <3>1
    <3>2. CASE x # s
      BY <2>1, <2>2, <3>2 DEF IInv, OwnerInv
    <3> QED
      BY <3>1, <3>2
  <2> QED
    BY <1>2, <1>5, <2>3 DEF OwnerInv
<1>17. TurnInv' /\ RecycleInv'
  <2>1. Off(t, BeforePC \cup AfterPC) /\ Off(t, {"recycle", "ready"})
    BY <1>1, <1>3 DEF Off, BeforePC, AfterPC
  <2>2. TurnInv'
    BY <1>2, <1>3, <1>5, <1>8, <1>9, <2>1, TurnFrame DEF IInv
  <2>3. RecycleInv'
    BY <1>3, <1>4, <1>5, <1>8, <1>9, <2>1, RecycleFrame DEF IInv
  <2> QED
    BY <2>2, <2>3
<1>18. RefsInv'
  <2>1. \A x \in Slot : mt'[x].state = "incorporated" <=> mt[x].state = "incorporated"
    BY <1>9
  <2> QED
    BY <1>1, <1>3, <1>4, <1>5, <1>8, <2>1, RefsFrame DEF IInv, Off
<1>19. ValueInv'
  <2>1. \A x \in Slot : mt'[x].state \in {"compacted", "assigned"} => compacted'[x] = compacted[x]
    BY <1>2, <1>7 DEF IInv, TypeOK
  <2>2. \A x \in Slot : ~(mt[x].state = "ready" /\ mt'[x].state = "finalized")
    BY <1>9
  <2> QED
    BY <1>2, <1>5, <1>8, <1>9, <2>1, <2>2, ValueFrame DEF IInv
<1>20. RootInv'
  <2>1. \A x \in Slot : UseBranch(x)' => UseBranch(x)
    BY <1>9 DEF UseBranch
  <2> QED
    BY <1>1, <1>2, <1>3, <1>5, <1>8, <2>1, RootFrame DEF IInv, Off
<1>21. QueryInv'
  <2>1. \A h \in Generation : (Live(h)' <=> Live(h)) /\ Tree(h)' = Tree(h) /\ Tree(h) \in Nat
    BY <1>2, <1>8, <1>9, TreeFrame, TreeType DEF IInv, TypeOK, Tree
  <2> QED
    BY <1>1, <1>2, <1>3, <1>4, <1>5, <1>7, <2>1, QueryFrame DEF IInv, TypeOK
<1> QED
  BY <1>10, <1>11, <1>12, <1>14, <1>15, <1>16, <1>17, <1>18, <1>19, <1>20, <1>21 DEF IInv

\* btree_pack: the branch says of the key what the memtable said.
LEMMA PackStep ==
    ASSUME IInv, NEW t \in Thread, Pack(t)
    PROVE  IInv'
<1> DEFINE s == Idx(gen[t])
<1>1. t \in Thread \ Reader /\ pc[t] = "pack" /\ gen[t] < generation
  BY DEF IInv, PlaceInv, Placed, Pack, TaskPC
<1>2. /\ UNCHANGED <<ctxt, root, post_root, pre_root, tasks, gen, queries, value, phase>>
      /\ mt' = [mt EXCEPT ![s].state = "compacted"]
      /\ compacted' = [compacted EXCEPT ![s] = gen[t]]
      /\ branch' = [branch EXCEPT ![gen[t]] = mt[s].value]
      /\ packed' = packed \cup {gen[t]}
  BY DEF Pack
<1>3. /\ pc' \in [Thread -> PC] /\ pc'[t] = "start"
      /\ Others(t) /\ gen' \in [Thread -> Nat]
  BY GotoEffect DEF IInv, Pack, PC
<1>4. /\ generation \in Nat /\ generation_retired \in Int /\ s \in Slot /\ gen[t] \in Nat
      /\ \A u \in Thread : Idx(gen[u]) \in Slot
      /\ \A h \in Generation : Idx(h) \in Slot /\ h \in Nat
      /\ gen[t] \in Generation
  BY <1>1, Types, SMTT(30) DEF IInv, TypeOK, Generation
<1>5. /\ UNCHANGED <<generation, generation_to_incorporate, generation_retired, is_empty>>
      /\ UNCHANGED <<walk, held, floor, result>>
  BY <1>2 DEF ctxt, queries
<1>6. mt[s].generation = gen[t] /\ mt[s].state = "compacting"
  BY <1>1 DEF IInv, FlushInv, Has
<1> HIDE DEF s
<1>7. /\ mt' \in [Slot -> Record]
      /\ \A x \in Slot \ {s} : mt'[x] = mt[x]
      /\ mt'[s].state = "compacted"
      /\ mt'[s].generation = mt[s].generation /\ mt'[s].refs = mt[s].refs
      /\ mt'[s].value = mt[s].value
      /\ mt'[s].any = mt[s].any /\ mt'[s].full = mt[s].full
  BY <1>2, <1>4, StateEffect DEF IInv, TypeOK, State
<1>8. /\ SameGenerations
      /\ \A x \in Slot : /\ mt'[x].value = mt[x].value /\ mt'[x].any = mt[x].any
                         /\ mt'[x].full = mt[x].full /\ mt'[x].refs = mt[x].refs
  BY <1>7 DEF SameGenerations
<1>9. /\ \A x \in Slot : mt[x].state # "compacting" => mt'[x].state = mt[x].state
      /\ \A x \in Slot : mt'[x].state # "compacted" => mt'[x].state = mt[x].state
  BY <1>6, <1>7
<1>10. /\ branch' \in [Generation -> Value]
       /\ branch'[gen[t]] = mt[s].value
       /\ \A h \in Generation \ {gen[t]} : branch'[h] = branch[h]
       /\ compacted' \in [Slot -> Generation \cup {NoBranch}]
       /\ compacted'[s] = gen[t]
       /\ \A x \in Slot \ {s} : compacted'[x] = compacted[x]
  <2>1. mt[s].value \in Value
    BY <1>4 DEF IInv, TypeOK, Record
  <2> QED
    BY <1>2, <1>4, <2>1 DEF IInv, TypeOK
<1>11. TypeOK'
  BY <1>2, <1>3, <1>4, <1>5, <1>7, <1>10 DEF IInv, TypeOK
<1>12. PlaceInv'
  <2>1. Placed(t)'
    BY <1>1, <1>2, <1>3, <1>5 DEF Placed, TaskPC
  <2>2. mt[Idx(generation + 1)].state = "ready" => mt'[Idx(generation + 1)].state = "ready"
    BY <1>9, Types DEF IInv
  <2>3. mt[Idx(generation)].full => mt'[Idx(generation)].full
    BY <1>8, Types DEF IInv
  <2> QED
    BY <1>2, <1>3, <1>4, <1>5, <2>1, <2>2, <2>3, PlaceFrame DEF IInv
<1>13. WindowInv'
  <2>1. \A x \in Slot : \/ mt'[x].state = mt[x].state
                        \/ mt[x].state \in Pipeline /\ mt'[x].state \in Pipeline
    BY <1>6, <1>7 DEF Pipeline
  <2> QED
    BY <1>2, <1>5, <1>8, <2>1, WindowFrame DEF IInv
<1>14. TaskInv'
  <2>1. \A k \in 1 .. Len(tasks) : tasks[k] \in Generation
    BY DEF IInv, TypeOK
  <2> QED
    BY <1>2, <1>4, <1>8, <1>9, <2>1, TaskFrame DEF IInv
<1>15. \A x \in Slot \ {s} : mt[x].generation # gen[t]
  BY DEF IInv, WindowInv, s
<1>16. FlushInv'
  <2>1. ASSUME NEW u \in Thread, pc'[u] \in FlushPC \cup {"pack"}
        PROVE  /\ u # t /\ pc'[u] = pc[u] /\ gen'[u] = gen[u]
               /\ mt'[Idx(gen[u])] = mt[Idx(gen[u])]
    <3>1. u # t /\ pc'[u] = pc[u] /\ gen'[u] = gen[u]
      BY <1>3, <2>1 DEF Others, FlushPC
    <3>2. /\ pc[u] \in FlushPC => mt[Idx(gen[u])].state = "finalized"
          /\ pc[u] = "pack" => gen[u] # gen[t] /\ mt[Idx(gen[u])].generation = gen[u]
      BY <1>1, <3>1 DEF IInv, FlushInv, Has
    <3>3. Idx(gen[u]) # s
      BY <1>6, <2>1, <3>1, <3>2
    <3> QED
      BY <1>4, <1>7, <3>1, <3>3
  <2>2. \A u \in Thread :
          /\ pc'[u] \in FlushPC =>
               /\ mt'[Idx(gen'[u])].generation = gen'[u]
               /\ mt'[Idx(gen'[u])].state = "finalized"
               /\ \A k \in 1 .. Len(tasks) : tasks[k] # gen'[u]
          /\ pc'[u] = "pack" =>
               /\ mt'[Idx(gen'[u])].generation = gen'[u]
               /\ mt'[Idx(gen'[u])].state = "compacting"
    BY <2>1 DEF IInv, FlushInv, Has
  <2>3. \A v, u \in Thread :
          /\ pc'[v] \in FlushPC /\ pc'[u] \in FlushPC /\ gen'[v] = gen'[u] => v = u
          /\ pc'[v] = "pack" /\ pc'[u] = "pack" /\ gen'[v] = gen'[u] => v = u
    BY <2>1 DEF IInv, FlushInv
  <2> QED
    BY <1>2, <2>2, <2>3 DEF FlushInv, Has
<1>17. OwnerInv'
  <2>1. \A u \in Thread \ {t} : pc'[u] = pc[u] /\ gen'[u] = gen[u]
    BY <1>3 DEF Others
  <2>2. ASSUME NEW x \in Slot
        PROVE  /\ mt'[x].state = "finalized" =>
                    \/ \E k \in 1 .. Len(tasks) : tasks[k] = mt'[x].generation
                    \/ \E u \in Thread : pc'[u] \in FlushPC /\ gen'[u] = mt'[x].generation
               /\ mt'[x].state = "compacting" =>
                    \E u \in Thread : pc'[u] = "pack" /\ gen'[u] = mt'[x].generation
               /\ mt'[x].state = "compacted" /\ mt'[x].generation = generation_to_incorporate =>
                    \E u \in Thread : pc'[u] = "start" /\ gen'[u] = mt'[x].generation
               /\ mt'[x].state = "assigned" =>
                    \E u \in Thread : pc'[u] \in BeforePC /\ gen'[u] = mt'[x].generation
    <3>1. CASE x = s
      BY <1>2, <1>3, <1>6, <1>7, <3>1
    <3>2. CASE x # s
      <4>1. mt'[x] = mt[x] /\ mt[x].generation # gen[t]
        BY <1>7, <1>15, <3>2
      <4> QED
        BY <2>1, <4>1 DEF IInv, OwnerInv
    <3> QED
      BY <3>1, <3>2
  <2> QED
    BY <1>2, <1>5, <2>2 DEF OwnerInv
<1>18. TurnInv' /\ RecycleInv'
  <2>1. Off(t, BeforePC \cup AfterPC) /\ Off(t, {"recycle", "ready"})
    BY <1>1, <1>3 DEF Off, BeforePC, AfterPC
  <2>2. TurnInv'
    BY <1>2, <1>3, <1>5, <1>8, <1>9, <2>1, TurnFrame DEF IInv
  <2>3. RecycleInv'
    BY <1>3, <1>4, <1>5, <1>8, <1>9, <2>1, RecycleFrame DEF IInv
  <2> QED
    BY <2>2, <2>3
<1>19. RefsInv'
  <2>1. \A x \in Slot : mt'[x].state = "incorporated" <=> mt[x].state = "incorporated"
    BY <1>9
  <2> QED
    BY <1>1, <1>3, <1>4, <1>5, <1>8, <2>1, RefsFrame DEF IInv, Off
<1>20. ASSUME NEW h \in Generation
       PROVE  /\ Live(h)' <=> Live(h) /\ h # gen[t]
              /\ Tree(h)' = Tree(h) /\ Tree(h) \in Nat
  <2>1. Idx(h) \in Slot /\ mt'[Idx(h)].generation = mt[Idx(h)].generation
    BY <1>4, <1>8 DEF SameGenerations
  <2>2. CASE h = gen[t]
    <3>1. Live(h) /\ ~Live(h)' /\ Tree(h) = mt[s].value /\ Tree(h)' = branch'[gen[t]]
      BY <1>6, <1>7, <2>2 DEF Live, Has, Tree, s
    <3> QED
      BY <1>4, <1>10, <2>2, <3>1, Types DEF IInv
  <2>3. CASE h # gen[t]
    <3>1. Live(h)' <=> Live(h)
      <4>1. CASE Idx(h) = s
        BY <1>6, <1>7, <2>3, <4>1 DEF Live, Has
      <4>2. CASE Idx(h) # s
        BY <1>7, <2>1, <4>2 DEF Live, Has
      <4> QED
        BY <4>1, <4>2
    <3>2. branch'[h] = branch[h] /\ mt'[Idx(h)].value = mt[Idx(h)].value
      BY <1>8, <1>10, <2>1, <2>3
    <3>3. Tree(h) \in Nat
      BY TreeType DEF IInv, TypeOK, Tree
    <3> QED
      BY <2>3, <3>1, <3>2, <3>3 DEF Tree
  <2> QED
    BY <2>2, <2>3
<1>21. ValueInv'
  <2>1. /\ \A g, h \in Generation :
             g < h /\ h <= generation /\ Tree(g)' # 0 /\ Tree(h)' # 0 => Tree(g)' <= Tree(h)'
        /\ \A g \in Generation : Tree(g)' <= value
        /\ value = 0 \/ \E g \in Generation : g <= generation /\ Tree(g)' = value
    BY <1>20 DEF IInv, ValueInv
  <2>2. \A g \in Generation : Live(g)' => branch'[g] = 0
    BY <1>10, <1>20 DEF IInv, ValueInv
  <2>3. \A g \in Generation : generation <= g => branch'[g] = 0
    BY <1>1, <1>4, <1>10 DEF IInv, ValueInv
  <2>4. ASSUME NEW x \in Slot
        PROVE  /\ generation < mt'[x].generation \/ (generation = mt'[x].generation /\ phase # "up") =>
                    mt'[x].value = 0 /\ ~mt'[x].any /\ ~mt'[x].full
               /\ mt'[x].state \in {"compacted", "assigned"} => compacted'[x] = mt'[x].generation
               /\ mt'[x].state \in {"compacted", "assigned", "incorporated"}
                    /\ mt'[x].generation < generation => branch'[mt'[x].generation] = mt'[x].value
               /\ mt'[x].state \in {"finalized", "compacting"} => mt'[x].any
               /\ mt'[x].full \/ mt'[x].value # 0 => mt'[x].any
    <3>1. /\ generation < mt[x].generation \/ (generation = mt[x].generation /\ phase # "up") =>
                mt[x].value = 0 /\ ~mt[x].any /\ ~mt[x].full
          /\ mt[x].state \in {"compacted", "assigned"} => compacted[x] = mt[x].generation
          /\ mt[x].state \in {"compacted", "assigned", "incorporated"}
                /\ mt[x].generation < generation => branch[mt[x].generation] = mt[x].value
          /\ mt[x].state \in {"finalized", "compacting"} => mt[x].any
          /\ mt[x].full \/ mt[x].value # 0 => mt[x].any
      BY DEF IInv, ValueInv
    <3>2. CASE x = s
      BY <1>1, <1>4, <1>6, <1>7, <1>10, <3>1, <3>2
    <3>3. CASE x # s
      <4>1. /\ mt'[x] = mt[x] /\ compacted'[x] = compacted[x] /\ mt[x].generation \in Nat
            /\ mt[x].generation # gen[t]
        BY <1>7, <1>10, <1>15, <3>3, Types DEF IInv
      <4>2. mt[x].generation < generation => mt[x].generation \in Generation
        BY <1>4, <4>1, Below DEF IInv
      <4> QED
        BY <1>10, <3>1, <4>1, <4>2
    <3> QED
      BY <3>2, <3>3
  <2>5. phase = "up" => (is_empty <=> ~mt'[Idx(generation)].any)
    BY <1>8, Types DEF IInv, ValueInv
  <2> QED
    BY <1>2, <1>5, <2>1, <2>2, <2>3, <2>4, <2>5 DEF ValueInv
<1>22. RootInv'
  <2>1. \A u \in Thread : /\ pc'[u] \in {"block", "commit"} <=> pc[u] \in {"block", "commit"}
                          /\ gen'[u] = gen[u]
                          /\ pc'[u] = "cleanup" <=> pc[u] = "cleanup"
    BY <1>1, <1>2, <1>3 DEF Others
  <2>2. /\ root' = {g \in Generation : g <= generation_retired}
        /\ (\E u \in Thread : pc'[u] \in {"block", "commit"}) =>
              post_root' = {g \in Generation : g <= generation_retired + 1}
        /\ (\A u \in Thread : pc'[u] \notin {"block", "commit"}) => post_root' = {}
        /\ (\A u \in Thread : pc'[u] # "cleanup") => pre_root' = {}
    BY <1>2, <2>1 DEF IInv, RootInv
  <2>3. ASSUME NEW x \in Slot, UseBranch(x)'
        PROVE  \/ mt'[x].generation \in packed'
               \/ \E u \in Thread : pc'[u] \in {"block", "commit"} /\ gen'[u] = mt'[x].generation
    <3>1. CASE x = s
      BY <1>2, <1>6, <1>7, <3>1
    <3>2. CASE x # s
      <4>1. mt'[x] = mt[x] /\ UseBranch(x)
        BY <1>7, <2>3, <3>2 DEF UseBranch
      <4> QED
        BY <1>2, <2>1, <4>1 DEF IInv, RootInv
    <3> QED
      BY <3>1, <3>2
  <2> QED
    BY <1>5, <2>2, <2>3 DEF RootInv
<1>23. QueryInv'
  <2>1. /\ \A h \in Generation : Tree(h)' >= Tree(h)
        /\ \A h \in Generation : ~Live(h) => ~Live(h)'
    BY <1>20
  <2> QED
    BY <1>1, <1>2, <1>3, <1>4, <1>5, <1>7, <1>10, <2>1, QueryFrame DEF IInv
<1> QED
  BY <1>11, <1>12, <1>13, <1>14, <1>16, <1>17, <1>18, <1>19, <1>21, <1>22, <1>23 DEF IInv

\* The lookups are blocked: the generation is retired and the root replaced.
LEMMA CommitStep ==
    ASSUME IInv, NEW t \in Thread, Commit(t)
    PROVE  IInv'
<1> DEFINE s == Idx(gen[t])
<1>1. t \in Thread \ Reader /\ pc[t] = "commit" /\ gen[t] < generation
  BY DEF IInv, PlaceInv, Placed, Commit, TaskPC
<1>2. /\ UNCHANGED <<generation, generation_to_incorporate, is_empty, compacted, branch,
                     packed, tasks, gen, queries, value, phase>>
      /\ mt' = [mt EXCEPT ![s].state = "incorporated"]
      /\ generation_retired' = generation_retired + 1
      /\ root' = post_root /\ post_root' = {} /\ pre_root' = root
      /\ LookingUp = {}
  BY DEF Commit
<1>3. /\ pc' \in [Thread -> PC] /\ pc'[t] = "cleanup"
      /\ Others(t) /\ gen' \in [Thread -> Nat]
  BY GotoEffect DEF IInv, Commit, PC
<1>4. /\ generation \in Nat /\ generation_retired \in Int /\ s \in Slot /\ gen[t] \in Nat
      /\ \A u \in Thread : Idx(gen[u]) \in Slot
      /\ \A h \in Generation : Idx(h) \in Slot /\ h \in Nat
      /\ \A x \in Slot : mt[x].generation \in Nat
  BY Types DEF IInv
<1>5. UNCHANGED <<walk, held, floor, result>>
  BY <1>2 DEF queries
<1>6. /\ gen[t] = generation_retired + 1 /\ gen[t] = generation_to_incorporate
      /\ mt[s].generation = gen[t] /\ mt[s].state = "assigned"
      /\ \A u \in Thread \ Reader : pc[u] \in BeforePC \cup AfterPC => u = t
  BY <1>1 DEF IInv, TurnInv, BeforePC, Has
<1> HIDE DEF s
<1>7. /\ mt' \in [Slot -> Record]
      /\ \A x \in Slot \ {s} : mt'[x] = mt[x]
      /\ mt'[s].state = "incorporated"
      /\ mt'[s].generation = mt[s].generation /\ mt'[s].refs = mt[s].refs
      /\ mt'[s].value = mt[s].value
      /\ mt'[s].any = mt[s].any /\ mt'[s].full = mt[s].full
  BY <1>2, <1>4, StateEffect DEF IInv, TypeOK, State
<1>8. /\ SameGenerations
      /\ \A x \in Slot : /\ mt'[x].value = mt[x].value /\ mt'[x].any = mt[x].any
                         /\ mt'[x].full = mt[x].full /\ mt'[x].refs = mt[x].refs
  BY <1>7 DEF SameGenerations
<1>9. /\ \A x \in Slot : Advances(x)
      /\ \A x \in Slot : mt[x].state # "assigned" => mt'[x].state = mt[x].state
      /\ \A x \in Slot : mt'[x].state # "incorporated" => mt'[x].state = mt[x].state
  BY <1>6, <1>7 DEF Advances
<1>10. \A x \in Slot \ {s} : mt[x].generation # gen[t]
  BY DEF IInv, WindowInv, s
<1>11. TypeOK'
  <2>1. generation_retired' \in Generation
    BY <1>1, <1>2, <1>4, <1>6, Below DEF IInv
  <2> QED
    BY <1>2, <1>3, <1>5, <1>7, <2>1 DEF IInv, TypeOK
<1>12. PlaceInv'
  <2>1. Placed(t)'
    BY <1>1, <1>2, <1>3 DEF Placed, TaskPC
  <2>2. mt[Idx(generation + 1)].state = "ready" => mt'[Idx(generation + 1)].state = "ready"
    BY <1>9, Types DEF IInv
  <2>3. mt[Idx(generation)].full => mt'[Idx(generation)].full
    BY <1>8, Types DEF IInv
  <2> QED
    BY <1>2, <1>3, <1>4, <2>1, <2>2, <2>3, PlaceFrame DEF IInv
<1>13. WindowInv'
  <2>1. phase = "up" => /\ mt'[Idx(generation)].generation = generation
                        /\ mt'[Idx(generation)].state = "ready"
    BY <1>8, <1>9, Types DEF IInv, WindowInv, Has, SameGenerations
  <2>2. ASSUME NEW h \in Generation, generation_retired' < h, h < generation
        PROVE  mt'[Idx(h)].generation = h /\ mt'[Idx(h)].state \in Pipeline
    <3>1. generation_retired < h /\ h # gen[t]
      BY <1>2, <1>4, <1>6, <2>2
    <3>2. mt[Idx(h)].generation = h /\ mt[Idx(h)].state \in Pipeline
      BY <2>2, <3>1 DEF IInv, WindowInv, Has
    <3>3. Idx(h) # s
      BY <1>6, <3>1, <3>2
    <3> QED
      BY <1>4, <1>7, <3>2, <3>3
  <2>3. ASSUME NEW x \in Slot
        PROVE  /\ Idx(mt'[x].generation) = x
               /\ mt'[x].generation <= generation_retired' + max_memtables
               /\ generation <= mt'[x].generation + max_memtables
               /\ phase = "up" => generation < mt'[x].generation + max_memtables
               /\ mt'[x].full => mt'[x].generation < MaxGeneration
    <3>1. mt'[x].generation = mt[x].generation /\ mt'[x].full = mt[x].full
      BY <1>8 DEF SameGenerations
    <3>2. mt[x].generation <= generation_retired + max_memtables
      BY DEF IInv, WindowInv
    <3>3. mt[x].generation <= generation_retired' + max_memtables
      BY <1>2, <1>4, <3>2, Types DEF IInv
    <3> QED
      BY <3>1, <3>3 DEF IInv, WindowInv
  <2>4. ASSUME NEW x \in Slot
        PROVE  /\ mt'[x].state = "ready" => generation <= mt'[x].generation
               /\ mt'[x].state \in Pipeline =>
                    generation_retired' < mt'[x].generation /\ mt'[x].generation < generation
               /\ mt'[x].state = "incorporated" =>
                    mt'[x].generation <= generation_retired' \/ generation <= mt'[x].generation
    <3>1. CASE x = s
      BY <1>2, <1>4, <1>6, <1>7, <3>1 DEF Pipeline
    <3>2. CASE x # s
      <4>1. mt'[x] = mt[x] /\ mt[x].generation # generation_retired + 1
        BY <1>6, <1>7, <1>10, <3>2
      <4>2. /\ mt[x].state = "ready" => generation <= mt[x].generation
            /\ mt[x].state \in Pipeline =>
                 generation_retired < mt[x].generation /\ mt[x].generation < generation
            /\ mt[x].state = "incorporated" =>
                 mt[x].generation <= generation_retired \/ generation <= mt[x].generation
        BY DEF IInv, WindowInv
      <4>3. /\ mt'[x].generation = mt[x].generation /\ mt'[x].state = mt[x].state
            /\ mt[x].generation \in Nat
        BY <1>4, <4>1
      <4>4. generation_retired < mt[x].generation => generation_retired' < mt[x].generation
        BY <1>2, <1>4, <4>1, <4>3
      <4>5. mt[x].generation <= generation_retired => mt[x].generation <= generation_retired'
        BY <1>2, <1>4, <4>3
      <4> QED
        BY <4>2, <4>3, <4>4, <4>5
    <3> QED
      BY <3>1, <3>2
  <2>5. generation_retired' < generation /\ (phase = "up" => generation <= MaxGeneration)
    BY <1>1, <1>2, <1>6 DEF IInv, WindowInv
  <2> QED
    BY <1>2, <2>1, <2>2, <2>3, <2>4, <2>5 DEF WindowInv, Has
<1>14. TaskInv'
  <2>1. \A k \in 1 .. Len(tasks) : tasks[k] \in Generation
    BY DEF IInv, TypeOK
  <2> QED
    BY <1>2, <1>4, <1>8, <1>9, <2>1, TaskFrame DEF IInv
<1>15. FlushInv'
  <2>1. \A u \in Thread : pc[u] \in FlushPC \cup {"pack"} =>
           mt'[Idx(gen[u])].state = mt[Idx(gen[u])].state
    BY <1>4, <1>9 DEF IInv, FlushInv
  <2>2. Off(t, FlushPC \cup {"pack"})
    BY <1>1, <1>3 DEF Off, FlushPC
  <2> QED
    BY <1>2, <1>3, <1>8, <2>1, <2>2, FlushFrame DEF IInv
<1>16. OwnerInv'
  <2>1. \A u \in Thread \ {t} : pc'[u] = pc[u] /\ gen'[u] = gen[u]
    BY <1>3 DEF Others
  <2>2. ASSUME NEW x \in Slot
        PROVE  /\ mt'[x].state = "finalized" =>
                    \/ \E k \in 1 .. Len(tasks) : tasks[k] = mt'[x].generation
                    \/ \E u \in Thread : pc'[u] \in FlushPC /\ gen'[u] = mt'[x].generation
               /\ mt'[x].state = "compacting" =>
                    \E u \in Thread : pc'[u] = "pack" /\ gen'[u] = mt'[x].generation
               /\ mt'[x].state = "compacted" /\ mt'[x].generation = generation_to_incorporate =>
                    \E u \in Thread : pc'[u] = "start" /\ gen'[u] = mt'[x].generation
               /\ mt'[x].state = "assigned" =>
                    \E u \in Thread : pc'[u] \in BeforePC /\ gen'[u] = mt'[x].generation
    <3>1. CASE x = s
      BY <1>7, <3>1
    <3>2. CASE x # s
      <4>1. mt'[x] = mt[x] /\ mt[x].generation # gen[t]
        BY <1>7, <1>10, <3>2
      <4> QED
        BY <2>1, <4>1 DEF IInv, OwnerInv
    <3> QED
      BY <3>1, <3>2
  <2> QED
    BY <1>2, <2>2 DEF OwnerInv
<1>17. TurnInv'
  <2>1. \A u \in Thread \ Reader : pc'[u] \in BeforePC \cup AfterPC => u = t
    BY <1>3, <1>6 DEF Others
  <2>2. /\ gen'[t] = generation_retired' /\ gen'[t] = generation_to_incorporate'
        /\ mt'[Idx(gen'[t])].generation = gen'[t] /\ mt'[Idx(gen'[t])].state = "incorporated"
    BY <1>2, <1>6, <1>7 DEF s
  <2>3. pc'[t] \in AfterPC /\ pc'[t] \notin BeforePC
    BY <1>3 DEF AfterPC, BeforePC
  <2>4. \A u \in Thread \ Reader : pc'[u] \in {"cleanup", "decref"} => pc'[u] \in AfterPC
    BY DEF AfterPC
  <2> QED
    BY <1>1, <2>1, <2>2, <2>3, <2>4 DEF TurnInv, Has
<1>18. RecycleInv'
  <2>1. generation_retired <= generation_retired' /\ generation_retired' \in Int
    BY <1>2, <1>4
  <2> QED
    BY <1>1, <1>2, <1>3, <1>8, <1>9, <2>1, RecycleFrame DEF IInv, Off
<1>19. RefsInv'
  <2>1. \A x \in Slot : Holders(x)' = Holders(x)
    BY <1>5, <1>8 DEF Holders, SameGenerations
  <2>2. ASSUME NEW x \in Slot
        PROVE  Dropped(x)' <=> Dropped(x)
    <3>1. CASE x = s
      <4>1. ~Dropped(x)
        BY <1>6, <3>1 DEF Dropped
      <4>2. ~Dropped(x)'
        BY <1>1, <1>2, <1>3, <1>6, <1>7, <3>1 DEF Dropped
      <4> QED
        BY <4>1, <4>2
    <3>2. CASE x # s
      <4>1. mt'[x] = mt[x] /\ mt[x].generation # generation_retired + 1
        BY <1>6, <1>7, <1>10, <3>2
      <4>2. mt[x].generation <= generation_retired' <=> mt[x].generation <= generation_retired
        BY <1>2, <1>4, <4>1
      <4>3. \A u \in Thread \ Reader : pc[u] \notin {"cleanup", "decref"}
        BY <1>1, <1>6 DEF AfterPC
      <4>4. \A u \in Thread \ Reader : pc'[u] \in {"cleanup", "decref"} => gen'[u] # mt[x].generation
        BY <1>2, <1>3, <1>10, <3>2, <4>3 DEF Others
      <4> QED
        BY <4>1, <4>2, <4>3, <4>4 DEF Dropped
    <3> QED
      BY <3>1, <3>2
  <2>3. \A x \in Slot : mt'[x].refs = Cardinality(Holders(x)') + IF Dropped(x)' THEN 0 ELSE 1
    <3>1. SUFFICES ASSUME NEW x \in Slot
                   PROVE  mt'[x].refs = Cardinality(Holders(x)') + IF Dropped(x)' THEN 0 ELSE 1
      OBVIOUS
    <3>2. mt[x].refs = Cardinality(Holders(x)) + IF Dropped(x) THEN 0 ELSE 1
      BY DEF IInv, RefsInv
    <3> QED
      BY <1>8, <2>1, <2>2, <3>2
  <2>4. ASSUME NEW r \in Reader
        PROVE  Holding(r)'
    <3>1. pc'[r] = pc[r] /\ Holding(r) /\ held[r].mts \subseteq Generation
      BY <1>1, <1>3, ReaderTypes DEF Others, Thread, IInv, RefsInv
    <3>2. \A g \in held[r].mts : mt[Idx(g)].generation = g /\ g <= generation
      BY <3>1 DEF Holding, Has
    <3>3. \A g \in held[r].mts : mt'[Idx(g)].generation = g /\ g <= generation
      BY <1>4, <1>8, <3>1, <3>2 DEF SameGenerations
    <3> QED
      BY <1>2, <1>5, <3>1, <3>3 DEF Holding, Has
  <2> QED
    BY <2>3, <2>4 DEF RefsInv
<1>20. ValueInv'
  BY <1>2, <1>8, <1>9, ValueFrame DEF IInv
<1>21. RootInv'
  <2>1. post_root = {g \in Generation : g <= generation_retired + 1}
    BY <1>1 DEF IInv, RootInv
  <2>2. \A u \in Thread : pc'[u] \notin {"block", "commit"}
    <3>1. SUFFICES ASSUME NEW u \in Thread, pc'[u] \in {"block", "commit"} PROVE FALSE
      OBVIOUS
    <3>2. u # t /\ pc[u] = pc'[u]
      BY <1>3, <3>1 DEF Others
    <3>3. u \notin Reader
      BY <3>1, <3>2 DEF IInv, PlaceInv, Placed
    <3> QED
      BY <1>6, <3>1, <3>2, <3>3 DEF BeforePC
  <2>3. ASSUME NEW x \in Slot, UseBranch(x)'
        PROVE  mt'[x].generation \in packed'
    <3>1. x # s /\ mt'[x] = mt[x] /\ UseBranch(x) /\ mt[x].generation # gen[t]
      BY <1>7, <1>10, <2>3 DEF UseBranch
    <3>2. ASSUME NEW u \in Thread, pc[u] \in {"block", "commit"} PROVE u = t
      <4>1. u \notin Reader
        BY <3>2 DEF IInv, PlaceInv, Placed
      <4> QED
        BY <1>6, <3>2, <4>1 DEF BeforePC
    <3> QED
      BY <1>2, <3>1, <3>2 DEF IInv, RootInv
  <2> QED
    BY <1>2, <1>3, <2>1, <2>2, <2>3 DEF RootInv
<1>22. QueryInv'
  <2>1. \A h \in Generation : (Live(h)' <=> Live(h)) /\ Tree(h)' = Tree(h) /\ Tree(h) \in Nat
    BY <1>2, <1>8, <1>9, TreeFrame, TreeType DEF IInv, TypeOK, Tree
  <2>2. \A r \in Reader : pc[r] \notin {"look", "scan"}
    BY <1>2 DEF LookingUp, At, Thread
  <2> QED
    BY <1>1, <1>2, <1>3, <1>4, <1>7, <2>1, <2>2, QueryFrame DEF IInv, TypeOK
<1> QED
  BY <1>11, <1>12, <1>13, <1>14, <1>15, <1>16, <1>17, <1>18, <1>19, <1>20, <1>21, <1>22
  DEF IInv

-----------------------------------------------------------------------------
\* A change of a memtable's references disturbs only the parts of the
\* invariant that are about references.
LEMMA CountStep ==
    ASSUME IInv, NEW t \in Thread, NEW s \in Slot, NEW n \in Nat,
           mt' = [mt EXCEPT ![s].refs = n],
           UNCHANGED <<ctxt, compacted, branch, trunk, tasks, value, phase>>,
           Others(t), Placed(t)',
           Off(t, FlushPC \cup BeforePC \cup {"pack", "start", "cleanup", "drain"}),
           \/ t \in Reader
           \/ /\ Within(t, AfterPC)
              /\ pc'[t] \in {"cleanup", "decref"} => pc[t] \in {"cleanup", "decref"}
    PROVE  /\ PlaceInv' /\ WindowInv' /\ TaskInv' /\ FlushInv' /\ OwnerInv' /\ TurnInv'
           /\ ValueInv' /\ RootInv'
           /\ SameTables /\ SameGenerations /\ mt' \in [Slot -> Record]
           /\ mt'[s].refs = n /\ \A x \in Slot \ {s} : mt'[x] = mt[x]
           /\ UNCHANGED <<generation, generation_to_incorporate, generation_retired, is_empty>>
           /\ \A h \in Generation :
                (Live(h)' <=> Live(h)) /\ Tree(h)' = Tree(h) /\ Tree(h) \in Nat
<1>1. UNCHANGED <<generation, generation_to_incorporate, generation_retired, is_empty>>
  BY DEF ctxt
<1>2. /\ mt' \in [Slot -> Record]
      /\ \A x \in Slot \ {s} : mt'[x] = mt[x]
      /\ mt'[s].refs = n /\ mt'[s].generation = mt[s].generation
      /\ mt'[s].state = mt[s].state /\ mt'[s].value = mt[s].value
      /\ mt'[s].any = mt[s].any /\ mt'[s].full = mt[s].full
  BY RefsEffect DEF IInv, TypeOK
<1>3. /\ SameTables /\ SameGenerations
      /\ \A x \in Slot : /\ mt'[x].value = mt[x].value /\ mt'[x].any = mt[x].any
                         /\ mt'[x].full = mt[x].full /\ mt'[x].state = mt[x].state
      /\ \A x \in Slot : Advances(x)
  BY <1>2 DEF SameTables, SameGenerations, Advances
<1>4. /\ generation \in Nat /\ Idx(generation) \in Slot /\ Idx(generation + 1) \in Slot
      /\ \A u \in Thread : Idx(gen[u]) \in Slot
  BY Types DEF IInv
<1>5. PlaceInv'
  <2>1. /\ mt[Idx(generation + 1)].state = "ready" => mt'[Idx(generation + 1)].state = "ready"
        /\ mt[Idx(generation)].full => mt'[Idx(generation)].full
    BY <1>3, <1>4
  <2>2. pc'[t] # "drain"
    BY DEF Off
  <2> QED
    BY <1>1, <1>4, <2>1, <2>2, PlaceFrame DEF IInv
<1>6. WindowInv' /\ TaskInv'
  <2>1. \A k \in 1 .. Len(tasks) : Idx(tasks[k]) \in Slot
    BY Types, SMTT(30) DEF IInv, TypeOK
  <2> QED
    BY <1>1, <1>3, <2>1, WindowFrame, TaskFrame DEF IInv
<1>7. FlushInv'
  <2>1. Off(t, FlushPC \cup {"pack"})
    BY DEF Off
  <2> QED
    BY <1>3, <1>4, <2>1, FlushFrame DEF IInv
<1>8. OwnerInv'
  <2>1. \A u \in Thread : pc[u] \in FlushPC \cup BeforePC \cup {"pack", "start"} =>
           pc'[u] = pc[u] /\ gen'[u] = gen[u]
    BY DEF Others, Off
  <2> QED
    BY <1>1, <1>3, <2>1, OwnerFrame DEF IInv
<1>9. TurnInv'
  BY <1>1, <1>3, TurnFrame DEF IInv
<1>10. ValueInv'
  BY <1>1, <1>3, ValueFrame DEF IInv
<1>11. RootInv'
  <2>1. \A x \in Slot : UseBranch(x)' => UseBranch(x)
    BY <1>3 DEF UseBranch
  <2>2. Off(t, {"block", "commit", "cleanup"})
    BY DEF Off, BeforePC
  <2> QED
    BY <1>1, <1>3, <2>1, <2>2, RootFrame DEF IInv
<1>12. \A h \in Generation : (Live(h)' <=> Live(h)) /\ Tree(h)' = Tree(h) /\ Tree(h) \in Nat
  BY <1>3, TreeFrame, TreeType DEF IInv, TypeOK, Tree
<1> QED
  BY <1>1, <1>2, <1>3, <1>5, <1>6, <1>7, <1>8, <1>9, <1>10, <1>11, <1>12

\* memtable_dec_ref_maybe_recycle: only the thread that drops the last
\* reference recycles the memtable.
LEMMA DropRecycle ==
    ASSUME IInv, NEW t \in Thread, NEW g \in Nat, Has(g), mt[Idx(g)].refs >= 1,
           SameTables, mt'[Idx(g)].refs = mt[Idx(g)].refs - 1,
           \A x \in Slot \ {Idx(g)} : mt'[x] = mt[x],
           UNCHANGED <<generation, generation_retired>>, Others(t), gen'[t] = g,
           pc[t] \notin {"recycle", "ready"}, pc'[t] # "ready",
           pc'[t] = "recycle" <=> mt[Idx(g)].refs = 1,
           mt[Idx(g)].refs = 1 =>
              mt[Idx(g)].state = "incorporated" /\ g <= generation_retired
    PROVE  RecycleInv'
<1> DEFINE s == Idx(g)
<1>1. /\ s \in Slot /\ mt[s].refs \in Nat /\ mt[s].generation = g
      /\ generation \in Nat /\ generation_retired \in Int
      /\ \A u \in Thread : Idx(gen[u]) \in Slot /\ gen[u] \in Nat
  BY IdxType, Types DEF IInv, Has
<1>2. \A u \in Thread \ {t} : pc'[u] = pc[u] /\ gen'[u] = gen[u]
  BY DEF Others
<1>3. ASSUME NEW u \in Thread, pc[u] \in {"recycle", "ready"}, mt[s].refs = 1
      PROVE  Idx(gen[u]) # s
  <2>1. CASE pc[u] = "recycle"
    BY <1>3, <2>1 DEF IInv, RecycleInv
  <2>2. CASE pc[u] = "ready"
    <3>1. generation <= mt[Idx(gen[u])].generation /\ generation_retired < generation
      BY <2>2 DEF IInv, RecycleInv, WindowInv
    <3> QED
      BY <1>1, <1>3, <3>1
  <2> QED
    BY <1>3, <2>1, <2>2
<1>4. ASSUME NEW u \in Thread \ {t}, pc[u] = "recycle"
      PROVE  /\ mt'[Idx(gen[u])].generation = gen[u]
             /\ mt'[Idx(gen[u])].state = "incorporated"
             /\ gen[u] <= generation_retired
             /\ mt'[Idx(gen[u])].refs = 0
  <2>1. /\ mt[Idx(gen[u])].generation = gen[u]
        /\ mt[Idx(gen[u])].state = "incorporated"
        /\ gen[u] <= generation_retired
        /\ mt[Idx(gen[u])].refs = 0
    BY <1>4 DEF IInv, RecycleInv, Has
  <2>2. Idx(gen[u]) # s
    BY <1>1, <2>1
  <2> QED
    BY <1>1, <2>1, <2>2
<1>5. ASSUME NEW u \in Thread \ {t}, pc[u] = "ready"
      PROVE  /\ mt'[Idx(gen[u])].state = "incorporated"
             /\ generation <= mt'[Idx(gen[u])].generation
  BY <1>1, <1>5 DEF IInv, RecycleInv, SameTables
<1>6. pc'[t] = "recycle" =>
        /\ mt'[s].generation = g /\ mt'[s].state = "incorporated"
        /\ g <= generation_retired /\ mt'[s].refs = 0
  BY <1>1 DEF SameTables
<1>7. ASSUME NEW u \in Thread, NEW v \in Thread,
             pc'[u] \in {"recycle", "ready"}, pc'[v] \in {"recycle", "ready"},
             Idx(gen'[u]) = Idx(gen'[v])
      PROVE  u = v
  <2>1. CASE u # t /\ v # t
    BY <1>2, <1>7, <2>1 DEF IInv, RecycleInv
  <2>2. CASE u = t /\ v # t
    BY <1>2, <1>3, <1>7, <2>2
  <2>3. CASE u # t /\ v = t
    BY <1>2, <1>3, <1>7, <2>3
  <2> QED
    BY <2>1, <2>2, <2>3
<1>8. ASSUME NEW x \in Slot, mt'[x].refs = 0
      PROVE  \E u \in Thread : pc'[u] = "recycle" /\ gen'[u] = mt'[x].generation
  <2>1. CASE x = s
    BY <1>1, <1>8, <2>1 DEF SameTables
  <2>2. CASE x # s
    <3>1. mt'[x] = mt[x]
      BY <2>2
    <3>2. PICK u \in Thread : pc[u] = "recycle" /\ gen[u] = mt[x].generation
      BY <1>8, <3>1 DEF IInv, RecycleInv
    <3> QED
      BY <1>2, <3>1, <3>2
  <2> QED
    BY <2>1, <2>2
<1>9. \A u \in Thread :
        /\ pc'[u] = "recycle" =>
             /\ mt'[Idx(gen'[u])].generation = gen'[u]
             /\ mt'[Idx(gen'[u])].state = "incorporated"
             /\ gen'[u] <= generation_retired
             /\ mt'[Idx(gen'[u])].refs = 0
        /\ pc'[u] = "ready" =>
             /\ mt'[Idx(gen'[u])].state = "incorporated"
             /\ generation <= mt'[Idx(gen'[u])].generation
  BY <1>2, <1>4, <1>5, <1>6
<1> QED
  BY <1>7, <1>8, <1>9 DEF RecycleInv, Has

\* The incorporation gives up the memtable's own reference.
LEMMA DecRefStep ==
    ASSUME IInv, NEW t \in Thread, DecRef(t)
    PROVE  IInv'
<1> DEFINE s == Idx(gen[t])
<1>1. t \in Thread \ Reader /\ pc[t] = "decref" /\ gen[t] < generation
  BY DEF IInv, PlaceInv, Placed, DecRef, TaskPC
<1>2. /\ UNCHANGED <<ctxt, compacted, branch, trunk, tasks, gen, queries, value, phase>>
      /\ mt' = [mt EXCEPT ![s].refs = mt[s].refs - 1]
      /\ Goto(t, IF mt[s].refs = 1 THEN "recycle" ELSE "continue")
  BY <1>1 DEF DecRef, DropRef, Resume
<1>3. /\ pc' \in [Thread -> PC] /\ pc'[t] = IF mt[s].refs = 1 THEN "recycle" ELSE "continue"
      /\ Others(t) /\ gen' \in [Thread -> Nat]
  BY <1>2, GotoEffect DEF IInv, PC
<1>4. /\ s \in Slot /\ gen[t] \in Nat /\ generation \in Nat /\ mt[s].refs \in Nat
      /\ \A h \in Generation : Idx(h) \in Slot
  BY Types DEF IInv
<1>5. /\ mt[s].generation = gen[t] /\ mt[s].state = "incorporated"
      /\ gen[t] = generation_retired
      /\ \A u \in Thread \ Reader : pc[u] \in AfterPC => u = t
  BY <1>1 DEF IInv, TurnInv, AfterPC, Has
<1> HIDE DEF s
<1>6. \A x \in Slot : Holders(x) \in SUBSET Reader /\ IsFiniteSet(Holders(x))
                     /\ Cardinality(Holders(x)) \in Nat
  BY FS_Subset, FS_CardinalityType, MemtableAssumption DEF Holders
<1>7. ~Dropped(s) /\ mt[s].refs = Cardinality(Holders(s)) + 1
  <2>1. ~Dropped(s)
    BY <1>1, <1>5 DEF Dropped
  <2> QED
    BY <1>4, <2>1 DEF IInv, RefsInv
<1>8. mt[s].refs >= 1 /\ mt[s].refs - 1 \in Nat
  BY <1>4, <1>6, <1>7
<1>9. /\ PlaceInv' /\ WindowInv' /\ TaskInv' /\ FlushInv' /\ OwnerInv' /\ TurnInv'
      /\ ValueInv' /\ RootInv'
      /\ SameTables /\ SameGenerations /\ mt' \in [Slot -> Record]
      /\ mt'[s].refs = mt[s].refs - 1 /\ \A x \in Slot \ {s} : mt'[x] = mt[x]
      /\ UNCHANGED <<generation, generation_to_incorporate, generation_retired, is_empty>>
      /\ \A h \in Generation :
           (Live(h)' <=> Live(h)) /\ Tree(h)' = Tree(h) /\ Tree(h) \in Nat
  <2>1. Placed(t)'
    BY <1>1, <1>2, <1>3 DEF Placed, TaskPC, ctxt
  <2>2. Within(t, AfterPC) /\ pc'[t] \notin {"cleanup", "decref"}
    BY <1>1, <1>2, <1>3 DEF Within, AfterPC
  <2>3. Off(t, FlushPC \cup BeforePC \cup {"pack", "start", "cleanup", "drain"})
    BY <1>1, <1>3 DEF Off, FlushPC, BeforePC
  <2> QED
    BY <1>2, <1>3, <1>4, <1>8, <2>1, <2>2, <2>3, CountStep
<1>10. TypeOK'
  BY <1>2, <1>3, <1>9 DEF IInv, TypeOK, trunk, queries
<1>11. RecycleInv'
  BY <1>1, <1>2, <1>3, <1>4, <1>5, <1>8, <1>9, DropRecycle DEF s, Has
<1>12. RefsInv'
  <2>1. \A x \in Slot : Holders(x)' = Holders(x)
    BY <1>2, <1>9 DEF Holders, SameGenerations, queries
  <2>2. ASSUME NEW x \in Slot
        PROVE  mt'[x].refs = Cardinality(Holders(x)') + IF Dropped(x)' THEN 0 ELSE 1
    <3>1. \A u \in Thread \ Reader : pc'[u] \notin {"cleanup", "decref"}
      BY <1>3, <1>5 DEF Others, AfterPC
    <3>2. CASE x = s
      <4>1. Dropped(x)'
        BY <1>4, <1>5, <1>9, <3>1, <3>2 DEF Dropped, SameTables
      <4> QED
        BY <1>6, <1>7, <1>9, <2>1, <3>2, <4>1
    <3>3. CASE x # s
      <4>1. mt'[x] = mt[x] /\ mt[x].generation # gen[t]
        BY <1>9, <3>3 DEF IInv, WindowInv, s
      <4>2. \A u \in Thread \ Reader : pc[u] \in {"cleanup", "decref"} => gen[u] # mt[x].generation
        BY <1>5, <4>1 DEF AfterPC
      <4>3. Dropped(x)' <=> Dropped(x)
        BY <1>9, <3>1, <4>1, <4>2 DEF Dropped
      <4>4. mt[x].refs = Cardinality(Holders(x)) + IF Dropped(x) THEN 0 ELSE 1
        BY DEF IInv, RefsInv
      <4> QED
        BY <2>1, <4>1, <4>3, <4>4
    <3> QED
      BY <3>2, <3>3
  <2>3. ASSUME NEW r \in Reader
        PROVE  Holding(r)'
    <3>1. pc'[r] = pc[r] /\ Holding(r) /\ held[r].mts \subseteq Generation
      BY <1>1, <1>3, ReaderTypes DEF Others, Thread, IInv, RefsInv
    <3>2. \A g \in held[r].mts : mt[Idx(g)].generation = g /\ g <= generation
      BY <3>1 DEF Holding, Has
    <3>3. \A g \in held[r].mts : mt'[Idx(g)].generation = g /\ g <= generation
      BY <1>4, <1>9, <3>1, <3>2 DEF SameGenerations
    <3> QED
      BY <1>2, <1>9, <3>1, <3>3 DEF Holding, Has, queries
  <2> QED
    BY <2>2, <2>3 DEF RefsInv
<1>13. QueryInv'
  BY <1>1, <1>2, <1>3, <1>4, <1>9, QueryFrame DEF IInv, TypeOK
<1> QED
  BY <1>9, <1>10, <1>11, <1>12, <1>13 DEF IInv

\* A memtable without references gets a new b-tree and a generation to come.
LEMMA RecycleStep ==
    ASSUME IInv, NEW t \in Thread, Recycle(t)
    PROVE  IInv'
<1> DEFINE s == Idx(gen[t])
           n == gen[t] + max_memtables
<1>1. pc[t] = "recycle" /\ gen[t] < generation
  BY DEF IInv, PlaceInv, Placed, Recycle, TaskPC
<1>2. /\ s \in Slot /\ gen[t] \in Nat /\ generation \in Nat /\ generation_retired \in Int
      /\ max_memtables \in Nat /\ max_memtables >= 2 /\ n \in Nat
      /\ \A u \in Thread : Idx(gen[u]) \in Slot /\ gen[u] \in Nat
      /\ \A h \in Generation : Idx(h) \in Slot /\ h \in Nat
      /\ \A x \in Slot : mt[x].generation \in Nat
  BY Types, MemtableAssumption DEF IInv
<1>3. /\ mt[s].generation = gen[t] /\ mt[s].state = "incorporated"
      /\ gen[t] <= generation_retired /\ mt[s].refs = 0
      /\ \A u \in Thread \ {t} : pc[u] \in {"recycle", "ready"} => Idx(gen[u]) # s
  BY <1>1 DEF IInv, RecycleInv, Has
<1>4. /\ UNCHANGED <<ctxt, compacted, branch, trunk, tasks, gen, queries, value, phase>>
      /\ mt' = [mt EXCEPT ![s] =
                  [state |-> mt[s].state, generation |-> n, value |-> 0, any |-> FALSE,
                   full |-> FALSE, refs |-> 1]]
  BY <1>2, <1>3 DEF Recycle
<1>5. /\ pc' \in [Thread -> PC] /\ pc'[t] = "ready"
      /\ Others(t) /\ gen' \in [Thread -> Nat]
  BY GotoEffect DEF IInv, Recycle, PC
<1>6. /\ UNCHANGED <<generation, generation_to_incorporate, generation_retired, is_empty>>
      /\ UNCHANGED <<walk, held, floor, result>>
      /\ UNCHANGED <<packed, root, post_root, pre_root>>
  BY <1>4 DEF ctxt, queries, trunk
<1>7. Idx(n) = s
  BY <1>2, IdxShift
<1> HIDE DEF s, n
<1>8. /\ mt' \in [Slot -> Record]
      /\ \A x \in Slot \ {s} : mt'[x] = mt[x]
      /\ mt'[s].state = mt[s].state /\ mt'[s].generation = n
      /\ mt'[s].value = 0 /\ mt'[s].refs = 1
      /\ mt'[s].any = FALSE /\ mt'[s].full = FALSE
  BY <1>2, <1>4, RecycleEffect DEF IInv, TypeOK
<1>9. n <= generation_retired + max_memtables /\ generation <= n /\ n # gen[t]
      /\ generation_retired < generation
  <2>1. generation <= mt[s].generation + max_memtables /\ generation_retired < generation
    BY <1>2 DEF IInv, WindowInv
  <2> QED
    BY <1>2, <1>3, <2>1 DEF n
<1>10. \A x \in Slot \ {s} : mt[x].generation # gen[t]
  BY DEF IInv, WindowInv, s
<1>11. phase = "up" => Idx(generation) \in Slot \ {s}
  <2>1. phase = "up" => mt[Idx(generation)].state = "ready"
    BY DEF IInv, WindowInv
  <2> QED
    BY <1>3, <2>1, Types DEF IInv
<1>12. \A x \in Slot : mt'[x].state = mt[x].state
  BY <1>8
<1>13. Holders(s) = {} /\ Dropped(s)
  <2>1. IsFiniteSet(Holders(s)) /\ Cardinality(Holders(s)) \in Nat
    BY FS_Subset, FS_CardinalityType, MemtableAssumption DEF Holders
  <2>2. mt[s].refs = Cardinality(Holders(s)) + IF Dropped(s) THEN 0 ELSE 1
    BY <1>2 DEF IInv, RefsInv
  <2>3. Cardinality(Holders(s)) = 0 /\ Dropped(s)
    BY <1>3, <2>1, <2>2
  <2> QED
    BY <2>1, <2>3, FS_EmptySet
<1>14. TypeOK'
  BY <1>4, <1>5, <1>6, <1>8 DEF IInv, TypeOK
<1>15. PlaceInv'
  <2>1. Placed(t)'
    BY <1>1, <1>4, <1>5, <1>6 DEF Placed, TaskPC, IInv, PlaceInv
  <2>2. mt[Idx(generation + 1)].state = "ready" => mt'[Idx(generation + 1)].state = "ready"
    BY <1>12, Types DEF IInv
  <2>3. \A u \in Thread : pc[u] \in {"full", "drain"} =>
           (mt[Idx(generation)].full => mt'[Idx(generation)].full)
    BY <1>8, <1>11 DEF IInv, PlaceInv, Placed
  <2> QED
    BY <1>2, <1>4, <1>5, <1>6, <2>1, <2>2, <2>3, PlaceFrame DEF IInv
<1>16. WindowInv'
  <2>1. phase = "up" => /\ mt'[Idx(generation)].generation = generation
                        /\ mt'[Idx(generation)].state = "ready"
    BY <1>8, <1>11 DEF IInv, WindowInv, Has
  <2>2. ASSUME NEW h \in Generation, generation_retired < h, h < generation
        PROVE  mt'[Idx(h)].generation = h /\ mt'[Idx(h)].state \in Pipeline
    <3>1. mt[Idx(h)].generation = h /\ mt[Idx(h)].state \in Pipeline
      BY <2>2 DEF IInv, WindowInv, Has
    <3>2. Idx(h) # s
      BY <1>3, <3>1 DEF Pipeline
    <3> QED
      BY <1>2, <1>8, <3>1, <3>2
  <2>3. ASSUME NEW x \in Slot
        PROVE  /\ Idx(mt'[x].generation) = x
               /\ mt'[x].generation <= generation_retired + max_memtables
               /\ generation <= mt'[x].generation + max_memtables
               /\ phase = "up" => generation < mt'[x].generation + max_memtables
               /\ mt'[x].state = "ready" => generation <= mt'[x].generation
               /\ mt'[x].state \in Pipeline =>
                    generation_retired < mt'[x].generation /\ mt'[x].generation < generation
               /\ mt'[x].state = "incorporated" =>
                    mt'[x].generation <= generation_retired \/ generation <= mt'[x].generation
               /\ mt'[x].full => mt'[x].generation < MaxGeneration
    <3>1. CASE x = s
      BY <1>2, <1>3, <1>7, <1>8, <1>9, <3>1 DEF Pipeline
    <3>2. CASE x # s
      <4>1. mt'[x] = mt[x]
        BY <1>8, <3>2
      <4> QED
        BY <4>1 DEF IInv, WindowInv
    <3> QED
      BY <3>1, <3>2
  <2> QED
    BY <1>4, <1>6, <2>1, <2>2, <2>3 DEF IInv, WindowInv, Has
<1>17. TaskInv'
  <2>1. \A k \in 1 .. Len(tasks) :
           /\ tasks[k] \in Generation
           /\ mt[Idx(tasks[k])].generation = tasks[k]
           /\ mt[Idx(tasks[k])].state = "finalized"
    <3>1. \A k \in 1 .. Len(tasks) : tasks[k] \in Generation
      BY DEF IInv, TypeOK
    <3> QED
      BY <3>1 DEF IInv, TaskInv, Has
  <2>2. \A k \in 1 .. Len(tasks) : Idx(tasks[k]) \in Slot \ {s}
    BY <1>2, <1>3, <2>1
  <2>3. \A k \in 1 .. Len(tasks) : mt'[Idx(tasks[k])] = mt[Idx(tasks[k])]
    BY <1>8, <2>2
  <2> QED
    BY <1>4, <2>1, <2>3 DEF IInv, TaskInv, Has
<1>18. FlushInv'
  <2>1. ASSUME NEW u \in Thread, pc'[u] \in FlushPC \cup {"pack"}
        PROVE  /\ pc'[u] = pc[u] /\ gen'[u] = gen[u]
               /\ mt'[Idx(gen[u])] = mt[Idx(gen[u])]
    <3>1. pc'[u] = pc[u] /\ gen'[u] = gen[u]
      BY <1>4, <1>5, <2>1 DEF Others, FlushPC
    <3>2. mt[Idx(gen[u])].state \in {"finalized", "compacting"}
      BY <2>1, <3>1 DEF IInv, FlushInv
    <3> QED
      BY <1>2, <1>3, <1>8, <3>1, <3>2
  <2>2. \A u \in Thread :
          /\ pc'[u] \in FlushPC =>
               /\ mt'[Idx(gen'[u])].generation = gen'[u]
               /\ mt'[Idx(gen'[u])].state = "finalized"
               /\ \A k \in 1 .. Len(tasks) : tasks[k] # gen'[u]
          /\ pc'[u] = "pack" =>
               /\ mt'[Idx(gen'[u])].generation = gen'[u]
               /\ mt'[Idx(gen'[u])].state = "compacting"
    BY <2>1 DEF IInv, FlushInv, Has
  <2>3. \A v, u \in Thread :
          /\ pc'[v] \in FlushPC /\ pc'[u] \in FlushPC /\ gen'[v] = gen'[u] => v = u
          /\ pc'[v] = "pack" /\ pc'[u] = "pack" /\ gen'[v] = gen'[u] => v = u
    BY <2>1 DEF IInv, FlushInv
  <2> QED
    BY <1>4, <2>2, <2>3 DEF FlushInv, Has
<1>19. OwnerInv'
  <2>1. \A u \in Thread \ {t} : pc'[u] = pc[u] /\ gen'[u] = gen[u]
    BY <1>5 DEF Others
  <2>2. ASSUME NEW x \in Slot
        PROVE  /\ mt'[x].state = "finalized" =>
                    \/ \E k \in 1 .. Len(tasks) : tasks[k] = mt'[x].generation
                    \/ \E u \in Thread : pc'[u] \in FlushPC /\ gen'[u] = mt'[x].generation
               /\ mt'[x].state = "compacting" =>
                    \E u \in Thread : pc'[u] = "pack" /\ gen'[u] = mt'[x].generation
               /\ mt'[x].state = "compacted" /\ mt'[x].generation = generation_to_incorporate =>
                    \E u \in Thread : pc'[u] = "start" /\ gen'[u] = mt'[x].generation
               /\ mt'[x].state = "assigned" =>
                    \E u \in Thread : pc'[u] \in BeforePC /\ gen'[u] = mt'[x].generation
    <3>1. CASE x = s
      BY <1>3, <1>8, <3>1
    <3>2. CASE x # s
      <4>1. mt'[x] = mt[x] /\ mt[x].generation # gen[t]
        BY <1>8, <1>10, <3>2
      <4> QED
        BY <2>1, <4>1 DEF IInv, OwnerInv
    <3> QED
      BY <3>1, <3>2
  <2> QED
    BY <1>4, <1>6, <2>2 DEF OwnerInv
<1>20. TurnInv'
  <2>1. \A u \in Thread \ Reader :
          /\ pc'[u] \in BeforePC <=> pc[u] \in BeforePC
          /\ pc'[u] \in AfterPC <=> pc[u] \in AfterPC
          /\ pc'[u] \in {"cleanup", "decref"} <=> pc[u] \in {"cleanup", "decref"}
          /\ gen'[u] = gen[u]
    BY <1>1, <1>4, <1>5 DEF Others, BeforePC, AfterPC
  <2>2. ASSUME NEW u \in Thread \ Reader, pc[u] \in BeforePC \cup {"cleanup", "decref"}
        PROVE  mt'[Idx(gen[u])] = mt[Idx(gen[u])]
    <3>1. CASE pc[u] \in BeforePC
      BY <1>2, <1>3, <1>8, <3>1 DEF IInv, TurnInv
    <3>2. CASE pc[u] \in {"cleanup", "decref"}
      <4>1. mt[Idx(gen[u])].generation = gen[u] /\ gen[u] # gen[t]
        BY <1>3, <1>13, <3>2 DEF IInv, TurnInv, Has, Dropped
      <4> QED
        BY <1>2, <1>3, <1>8, <4>1
    <3> QED
      BY <2>2, <3>1, <3>2
  <2>3. \A u, v \in Thread \ Reader :
         pc'[u] \in BeforePC \cup AfterPC /\ pc'[v] \in BeforePC \cup AfterPC => u = v
    BY <2>1 DEF IInv, TurnInv
  <2>4. \A u \in Thread \ Reader :
          /\ pc'[u] \in BeforePC =>
               /\ gen'[u] = generation_retired + 1
               /\ gen'[u] = generation_to_incorporate
               /\ mt'[Idx(gen'[u])].generation = gen'[u]
               /\ mt'[Idx(gen'[u])].state = "assigned"
          /\ pc'[u] \in AfterPC =>
               /\ gen'[u] = generation_retired
               /\ gen'[u] = generation_to_incorporate
          /\ pc'[u] \in {"cleanup", "decref"} =>
               /\ mt'[Idx(gen'[u])].generation = gen'[u]
               /\ mt'[Idx(gen'[u])].state = "incorporated"
    BY <2>1, <2>2 DEF IInv, TurnInv, Has
  <2>5. \/ generation_to_incorporate = generation_retired + 1
        \/ /\ generation_to_incorporate = generation_retired
           /\ \/ \E u \in Thread \ Reader : pc'[u] \in AfterPC
              \/ generation_retired = generation - 1 /\ phase # "up"
    BY <2>1 DEF IInv, TurnInv
  <2> QED
    BY <1>4, <1>6, <2>3, <2>4, <2>5 DEF TurnInv, Has
<1>21. RecycleInv'
  <2>1. \A u \in Thread \ {t} : /\ pc'[u] = pc[u] /\ gen'[u] = gen[u]
                                /\ pc[u] \in {"recycle", "ready"} =>
                                     Idx(gen[u]) # s /\ mt'[Idx(gen[u])] = mt[Idx(gen[u])]
    BY <1>2, <1>3, <1>5, <1>8 DEF Others
  <2>2. \A u \in Thread :
         /\ pc'[u] = "recycle" =>
              /\ mt'[Idx(gen'[u])].generation = gen'[u]
              /\ mt'[Idx(gen'[u])].state = "incorporated"
              /\ gen'[u] <= generation_retired
              /\ mt'[Idx(gen'[u])].refs = 0
         /\ pc'[u] = "ready" =>
              /\ mt'[Idx(gen'[u])].state = "incorporated"
              /\ generation <= mt'[Idx(gen'[u])].generation
    <3>1. \A u \in Thread \ {t} :
         /\ pc[u] = "recycle" =>
              /\ mt[Idx(gen[u])].generation = gen[u]
              /\ mt[Idx(gen[u])].state = "incorporated"
              /\ gen[u] <= generation_retired
              /\ mt[Idx(gen[u])].refs = 0
         /\ pc[u] = "ready" =>
              /\ mt[Idx(gen[u])].state = "incorporated"
              /\ generation <= mt[Idx(gen[u])].generation
      BY DEF IInv, RecycleInv, Has
    <3>2. mt'[Idx(gen'[t])].state = "incorporated" /\ generation <= mt'[Idx(gen'[t])].generation
      BY <1>3, <1>4, <1>8, <1>9 DEF s
    <3> QED
      BY <1>5, <2>1, <3>1, <3>2
  <2>3. \A u, v \in Thread :
         pc'[u] \in {"recycle", "ready"} /\ pc'[v] \in {"recycle", "ready"}
           /\ Idx(gen'[u]) = Idx(gen'[v]) => u = v
    BY <1>1, <1>4, <2>1 DEF IInv, RecycleInv, s
  <2>4. ASSUME NEW x \in Slot, mt'[x].refs = 0
        PROVE  \E u \in Thread : pc'[u] = "recycle" /\ gen'[u] = mt'[x].generation
    <3>1. x # s /\ mt'[x] = mt[x] /\ mt[x].generation # gen[t]
      BY <1>8, <1>10, <2>4
    <3>2. PICK u \in Thread : pc[u] = "recycle" /\ gen[u] = mt[x].generation
      BY <2>4, <3>1 DEF IInv, RecycleInv
    <3> QED
      BY <2>1, <3>1, <3>2
  <2> QED
    BY <1>6, <2>2, <2>3, <2>4 DEF RecycleInv, Has
<1>22. RefsInv'
  <2>1. \A r \in Reader : \A h \in held[r].mts :
           /\ mt[Idx(h)].generation = h /\ h <= generation
           /\ h \in Generation
    BY ReaderTypes DEF IInv, RefsInv, Holding, Has
  <2>2. \A r \in Reader : \A h \in held[r].mts : Idx(h) # s
    BY <1>13, <2>1 DEF Holders
  <2>3. \A r \in Reader : \A h \in held[r].mts : mt'[Idx(h)].generation = h /\ h <= generation
    BY <1>2, <1>8, <2>1, <2>2
  <2>4. ASSUME NEW x \in Slot
        PROVE  mt'[x].refs = Cardinality(Holders(x)') + IF Dropped(x)' THEN 0 ELSE 1
    <3>1. CASE x = s
      <4>1. Holders(x)' = {}
        BY <1>6, <1>7, <1>8, <2>2, <3>1 DEF Holders
      <4>2. ~Dropped(x)'
        BY <1>2, <1>6, <1>8, <1>9, <3>1 DEF Dropped
      <4>3. Cardinality({}) = 0
        BY FS_EmptySet
      <4> QED
        BY <1>8, <3>1, <4>1, <4>2, <4>3
    <3>2. CASE x # s
      <4>1. mt'[x] = mt[x]
        BY <1>8, <3>2
      <4>2. Holders(x)' = Holders(x)
        BY <1>6, <4>1 DEF Holders
      <4>3. \A u \in Thread : /\ pc'[u] \in {"cleanup", "decref"} <=> pc[u] \in {"cleanup", "decref"}
                              /\ gen'[u] = gen[u]
        BY <1>1, <1>4, <1>5 DEF Others
      <4>4. Dropped(x)' <=> Dropped(x)
        BY <1>6, <4>1, <4>3 DEF Dropped
      <4>5. mt[x].refs = Cardinality(Holders(x)) + IF Dropped(x) THEN 0 ELSE 1
        BY DEF IInv, RefsInv
      <4> QED
        BY <4>1, <4>2, <4>4, <4>5
    <3> QED
      BY <3>1, <3>2
  <2>5. ASSUME NEW r \in Reader
        PROVE  Holding(r)'
    <3>1. /\ pc'[r] \in {"idle", "look", "found"} <=> pc[r] \in {"idle", "look", "found"}
          /\ pc'[r] = "scan" <=> pc[r] = "scan"
      BY <1>1, <1>5 DEF Others, Thread
    <3>2. Holding(r)
      BY DEF IInv, RefsInv
    <3> QED
      BY <1>6, <2>3, <3>1, <3>2 DEF Holding, Has
  <2> QED
    BY <2>4, <2>5 DEF RefsInv
<1>23. ASSUME NEW h \in Generation
       PROVE  /\ Live(h)' <=> Live(h)
              /\ Tree(h)' = Tree(h) /\ Tree(h) \in Nat
  <2>1. Tree(h) \in Nat
    BY TreeType DEF IInv, TypeOK, Tree
  <2>2. CASE Idx(h) = s
    <3>1. ~Live(h) /\ ~Live(h)'
      BY <1>3, <1>8, <2>2 DEF Live
    <3> QED
      BY <1>4, <2>1, <3>1 DEF Tree
  <2>3. CASE Idx(h) # s
    <3>1. mt'[Idx(h)] = mt[Idx(h)]
      BY <1>2, <1>8, <2>3
    <3> QED
      BY <1>4, <2>1, <3>1 DEF Live, Has, Tree
  <2> QED
    BY <2>2, <2>3
<1>24. ValueInv'
  <2>1. /\ \A g, h \in Generation :
             g < h /\ h <= generation /\ Tree(g)' # 0 /\ Tree(h)' # 0 => Tree(g)' <= Tree(h)'
        /\ \A g \in Generation : Tree(g)' <= value
        /\ value = 0 \/ \E g \in Generation : g <= generation /\ Tree(g)' = value
        /\ \A g \in Generation : Live(g)' => branch[g] = 0
        /\ \A g \in Generation : generation <= g => branch[g] = 0
    BY <1>23 DEF IInv, ValueInv
  <2>2. ASSUME NEW x \in Slot
        PROVE  /\ generation < mt'[x].generation \/ (generation = mt'[x].generation /\ phase # "up") =>
                    mt'[x].value = 0 /\ ~mt'[x].any /\ ~mt'[x].full
               /\ mt'[x].state \in {"compacted", "assigned"} => compacted[x] = mt'[x].generation
               /\ mt'[x].state \in {"compacted", "assigned", "incorporated"}
                    /\ mt'[x].generation < generation => branch[mt'[x].generation] = mt'[x].value
               /\ mt'[x].state \in {"finalized", "compacting"} => mt'[x].any
               /\ mt'[x].full \/ mt'[x].value # 0 => mt'[x].any
    <3>1. CASE x = s
      BY <1>2, <1>3, <1>8, <1>9, <3>1
    <3>2. CASE x # s
      <4>1. mt'[x] = mt[x]
        BY <1>8, <3>2
      <4> QED
        BY <4>1 DEF IInv, ValueInv
    <3> QED
      BY <3>1, <3>2
  <2>3. phase = "up" => (is_empty <=> ~mt'[Idx(generation)].any)
    BY <1>8, <1>11 DEF IInv, ValueInv
  <2> QED
    BY <1>4, <1>6, <2>1, <2>2, <2>3 DEF ValueInv
<1>25. RootInv'
  <2>1. \A u \in Thread : /\ pc'[u] \in {"block", "commit"} <=> pc[u] \in {"block", "commit"}
                          /\ gen'[u] = gen[u]
                          /\ pc'[u] = "cleanup" <=> pc[u] = "cleanup"
    BY <1>1, <1>4, <1>5 DEF Others
  <2>2. /\ root' = {g \in Generation : g <= generation_retired}
        /\ (\E u \in Thread : pc'[u] \in {"block", "commit"}) =>
              post_root' = {g \in Generation : g <= generation_retired + 1}
        /\ (\A u \in Thread : pc'[u] \notin {"block", "commit"}) => post_root' = {}
        /\ (\A u \in Thread : pc'[u] # "cleanup") => pre_root' = {}
    BY <1>6, <2>1 DEF IInv, RootInv
  <2>3. ASSUME NEW x \in Slot, UseBranch(x)'
        PROVE  \/ mt'[x].generation \in packed'
               \/ \E u \in Thread : pc'[u] \in {"block", "commit"} /\ gen'[u] = mt'[x].generation
    <3>1. x # s /\ mt'[x] = mt[x] /\ UseBranch(x)
      BY <1>3, <1>8, <2>3 DEF UseBranch
    <3> QED
      BY <1>6, <2>1, <3>1 DEF IInv, RootInv
  <2> QED
    BY <1>6, <2>2, <2>3 DEF RootInv
<1>26. QueryInv'
  <2>1. t \notin Reader \/ Off(t, {"look", "scan", "open", "found"})
    BY <1>1, <1>5 DEF Off
  <2>2. /\ \A h \in Generation : Tree(h)' >= Tree(h)
        /\ \A h \in Generation : ~Live(h) => ~Live(h)'
    BY <1>23
  <2>3. branch' \in [Generation -> Value] /\ QueryInv /\ TypeOK
    BY <1>4 DEF IInv, TypeOK
  <2> QED
    BY <1>2, <1>4, <1>5, <1>6, <1>8, <2>1, <2>2, <2>3, QueryFrame
<1> QED
  BY <1>14, <1>15, <1>16, <1>17, <1>18, <1>19, <1>20, <1>21, <1>22, <1>24, <1>25, <1>26
  DEF IInv

\* The recycled memtable may be used for its new generation.
LEMMA ReadyStep ==
    ASSUME IInv, NEW t \in Thread, Ready(t)
    PROVE  IInv'
<1> DEFINE s == Idx(gen[t])
<1>1. pc[t] = "ready" /\ gen[t] < generation
  BY DEF IInv, PlaceInv, Placed, Ready, TaskPC
<1>2. /\ s \in Slot /\ gen[t] \in Nat /\ generation \in Nat /\ generation_retired \in Int
      /\ \A u \in Thread : Idx(gen[u]) \in Slot /\ gen[u] \in Nat
      /\ \A h \in Generation : Idx(h) \in Slot /\ h \in Nat
      /\ \A x \in Slot : mt[x].generation \in Nat
  BY Types DEF IInv
<1>3. /\ mt[s].state = "incorporated" /\ generation <= mt[s].generation
      /\ \A u \in Thread \ {t} : pc[u] \in {"recycle", "ready"} => Idx(gen[u]) # s
  BY <1>1 DEF IInv, RecycleInv
<1>4. /\ UNCHANGED <<ctxt, compacted, branch, trunk, tasks, gen, queries, value, phase>>
      /\ mt' = [mt EXCEPT ![s].state = "ready"]
  BY DEF Ready
<1>5. /\ pc' \in [Thread -> PC] /\ pc'[t] = Resume(t)
      /\ Others(t) /\ gen' \in [Thread -> Nat]
  BY GotoEffect DEF IInv, Ready, PC, Resume
<1>6. /\ UNCHANGED <<generation, generation_to_incorporate, generation_retired, is_empty>>
      /\ UNCHANGED <<walk, held, floor, result>>
      /\ UNCHANGED <<packed, root, post_root, pre_root>>
  BY <1>4 DEF ctxt, queries, trunk
<1> HIDE DEF s
<1>7. /\ mt' \in [Slot -> Record]
      /\ \A x \in Slot \ {s} : mt'[x] = mt[x]
      /\ mt'[s].state = "ready"
      /\ mt'[s].generation = mt[s].generation /\ mt'[s].refs = mt[s].refs
      /\ mt'[s].value = mt[s].value
      /\ mt'[s].any = mt[s].any /\ mt'[s].full = mt[s].full
  BY <1>2, <1>4, StateEffect DEF IInv, TypeOK, State
<1>8. /\ SameGenerations
      /\ \A x \in Slot : /\ mt'[x].value = mt[x].value /\ mt'[x].any = mt[x].any
                         /\ mt'[x].full = mt[x].full /\ mt'[x].refs = mt[x].refs
  BY <1>7 DEF SameGenerations
<1>9. \A x \in Slot : mt[x].state # "incorporated" => mt'[x].state = mt[x].state
  BY <1>3, <1>7
<1>10. generation_retired < generation
  BY DEF IInv, WindowInv
<1>11. TypeOK'
  BY <1>4, <1>5, <1>6, <1>7 DEF IInv, TypeOK
<1>12. PlaceInv'
  <2>1. Placed(t)'
    BY <1>1, <1>4, <1>5, <1>6 DEF Placed, TaskPC, IInv, PlaceInv, Resume
  <2>2. mt[Idx(generation + 1)].state = "ready" => mt'[Idx(generation + 1)].state = "ready"
    BY <1>9, Types DEF IInv
  <2>3. mt[Idx(generation)].full => mt'[Idx(generation)].full
    BY <1>8, Types DEF IInv
  <2>4. pc'[t] # "drain"
    BY <1>5 DEF Resume
  <2> QED
    BY <1>2, <1>4, <1>5, <1>6, <2>1, <2>2, <2>3, <2>4, PlaceFrame DEF IInv
<1>13. WindowInv'
  <2>1. phase = "up" => /\ mt'[Idx(generation)].generation = generation
                        /\ mt'[Idx(generation)].state = "ready"
    BY <1>8, <1>9, Types DEF IInv, WindowInv, Has, SameGenerations
  <2>2. \A h \in Generation : generation_retired < h /\ h < generation =>
          mt'[Idx(h)].generation = h /\ mt'[Idx(h)].state \in Pipeline
    BY <1>2, <1>8, <1>9 DEF IInv, WindowInv, Has, SameGenerations, Pipeline
  <2>3. ASSUME NEW x \in Slot
        PROVE  /\ Idx(mt'[x].generation) = x
               /\ mt'[x].generation <= generation_retired + max_memtables
               /\ generation <= mt'[x].generation + max_memtables
               /\ phase = "up" => generation < mt'[x].generation + max_memtables
               /\ mt'[x].full => mt'[x].generation < MaxGeneration
    BY <1>8 DEF IInv, WindowInv, SameGenerations
  <2>4. ASSUME NEW x \in Slot
        PROVE  /\ mt'[x].state = "ready" => generation <= mt'[x].generation
               /\ mt'[x].state \in Pipeline =>
                    generation_retired < mt'[x].generation /\ mt'[x].generation < generation
               /\ mt'[x].state = "incorporated" =>
                    mt'[x].generation <= generation_retired \/ generation <= mt'[x].generation
    <3>1. CASE x = s
      BY <1>3, <1>7, <3>1 DEF Pipeline
    <3>2. CASE x # s
      <4>1. mt'[x] = mt[x]
        BY <1>7, <3>2
      <4> QED
        BY <4>1 DEF IInv, WindowInv
    <3> QED
      BY <3>1, <3>2
  <2> QED
    BY <1>4, <1>6, <2>1, <2>2, <2>3, <2>4 DEF IInv, WindowInv, Has
<1>14. TaskInv'
  <2>1. \A k \in 1 .. Len(tasks) : tasks[k] \in Generation
    BY DEF IInv, TypeOK
  <2> QED
    BY <1>2, <1>4, <1>8, <1>9, <2>1, TaskFrame DEF IInv
<1>15. FlushInv'
  <2>1. \A u \in Thread : pc[u] \in FlushPC \cup {"pack"} =>
           mt'[Idx(gen[u])].state = mt[Idx(gen[u])].state
    BY <1>2, <1>9 DEF IInv, FlushInv
  <2>2. Off(t, FlushPC \cup {"pack"})
    BY <1>1, <1>5 DEF Off, FlushPC, Resume
  <2> QED
    BY <1>4, <1>5, <1>8, <2>1, <2>2, FlushFrame DEF IInv
<1>16. OwnerInv'
  <2>1. \A u \in Thread \ {t} : pc'[u] = pc[u] /\ gen'[u] = gen[u]
    BY <1>5 DEF Others
  <2>2. pc[t] \notin FlushPC \cup BeforePC \cup {"pack", "start"}
    BY <1>1 DEF FlushPC, BeforePC
  <2>3. ASSUME NEW x \in Slot
        PROVE  /\ mt'[x].state = "finalized" =>
                    \/ \E k \in 1 .. Len(tasks) : tasks[k] = mt'[x].generation
                    \/ \E u \in Thread : pc'[u] \in FlushPC /\ gen'[u] = mt'[x].generation
               /\ mt'[x].state = "compacting" =>
                    \E u \in Thread : pc'[u] = "pack" /\ gen'[u] = mt'[x].generation
               /\ mt'[x].state = "compacted" /\ mt'[x].generation = generation_to_incorporate =>
                    \E u \in Thread : pc'[u] = "start" /\ gen'[u] = mt'[x].generation
               /\ mt'[x].state = "assigned" =>
                    \E u \in Thread : pc'[u] \in BeforePC /\ gen'[u] = mt'[x].generation
    <3>1. CASE x = s
      BY <1>7, <3>1
    <3>2. CASE x # s
      <4>1. mt'[x] = mt[x]
        BY <1>7, <3>2
      <4> QED
        BY <2>1, <2>2, <4>1 DEF IInv, OwnerInv
    <3> QED
      BY <3>1, <3>2
  <2> QED
    BY <1>4, <1>6, <2>3 DEF OwnerInv
<1>17. TurnInv'
  <2>1. \A u \in Thread \ Reader :
          /\ pc'[u] \in BeforePC <=> pc[u] \in BeforePC
          /\ pc'[u] \in AfterPC <=> pc[u] \in AfterPC
          /\ pc'[u] \in {"cleanup", "decref"} <=> pc[u] \in {"cleanup", "decref"}
          /\ gen'[u] = gen[u]
    BY <1>1, <1>4, <1>5 DEF Others, BeforePC, AfterPC, Resume
  <2>2. ASSUME NEW u \in Thread \ Reader, pc[u] \in BeforePC \cup {"cleanup", "decref"}
        PROVE  mt'[Idx(gen[u])] = mt[Idx(gen[u])]
    <3>1. mt[Idx(gen[u])].generation = gen[u]
      BY <2>2 DEF IInv, TurnInv, Has
    <3>2. gen[u] < generation
      BY <2>2 DEF IInv, PlaceInv, Placed, TaskPC, BeforePC
    <3>3. Idx(gen[u]) # s
      BY <1>2, <1>3, <3>1, <3>2
    <3> QED
      BY <1>2, <1>7, <3>3
  <2>3. \A u, v \in Thread \ Reader :
         pc'[u] \in BeforePC \cup AfterPC /\ pc'[v] \in BeforePC \cup AfterPC => u = v
    BY <2>1 DEF IInv, TurnInv
  <2>4. \A u \in Thread \ Reader :
          /\ pc'[u] \in BeforePC =>
               /\ gen'[u] = generation_retired + 1
               /\ gen'[u] = generation_to_incorporate
               /\ mt'[Idx(gen'[u])].generation = gen'[u]
               /\ mt'[Idx(gen'[u])].state = "assigned"
          /\ pc'[u] \in AfterPC =>
               /\ gen'[u] = generation_retired
               /\ gen'[u] = generation_to_incorporate
          /\ pc'[u] \in {"cleanup", "decref"} =>
               /\ mt'[Idx(gen'[u])].generation = gen'[u]
               /\ mt'[Idx(gen'[u])].state = "incorporated"
    BY <2>1, <2>2 DEF IInv, TurnInv, Has
  <2>5. \/ generation_to_incorporate = generation_retired + 1
        \/ /\ generation_to_incorporate = generation_retired
           /\ \/ \E u \in Thread \ Reader : pc'[u] \in AfterPC
              \/ generation_retired = generation - 1 /\ phase # "up"
    BY <2>1 DEF IInv, TurnInv
  <2> QED
    BY <1>4, <1>6, <2>3, <2>4, <2>5 DEF TurnInv, Has
<1>18. RecycleInv'
  <2>1. \A u \in Thread : pc'[u] \in {"recycle", "ready"} =>
           /\ u # t /\ pc'[u] = pc[u] /\ gen'[u] = gen[u]
           /\ mt'[Idx(gen[u])] = mt[Idx(gen[u])]
    BY <1>2, <1>3, <1>5, <1>7 DEF Others, Resume
  <2>2. \A u \in Thread :
         /\ pc'[u] = "recycle" =>
              /\ mt'[Idx(gen'[u])].generation = gen'[u]
              /\ mt'[Idx(gen'[u])].state = "incorporated"
              /\ gen'[u] <= generation_retired
              /\ mt'[Idx(gen'[u])].refs = 0
         /\ pc'[u] = "ready" =>
              /\ mt'[Idx(gen'[u])].state = "incorporated"
              /\ generation <= mt'[Idx(gen'[u])].generation
    BY <2>1 DEF IInv, RecycleInv, Has
  <2>3. \A u, v \in Thread :
         pc'[u] \in {"recycle", "ready"} /\ pc'[v] \in {"recycle", "ready"}
           /\ Idx(gen'[u]) = Idx(gen'[v]) => u = v
    BY <2>1 DEF IInv, RecycleInv
  <2>4. ASSUME NEW x \in Slot, mt'[x].refs = 0
        PROVE  \E u \in Thread : pc'[u] = "recycle" /\ gen'[u] = mt'[x].generation
    <3>1. mt[x].refs = 0 /\ mt'[x].generation = mt[x].generation
      BY <1>8, <2>4 DEF SameGenerations
    <3>2. PICK u \in Thread : pc[u] = "recycle" /\ gen[u] = mt[x].generation
      BY <3>1 DEF IInv, RecycleInv
    <3> QED
      BY <1>1, <1>4, <1>5, <3>1, <3>2 DEF Others
  <2> QED
    BY <1>6, <2>2, <2>3, <2>4 DEF RecycleInv, Has
<1>19. RefsInv'
  <2>1. \A x \in Slot : mt[x].generation <= generation_retired =>
           (mt'[x].state = "incorporated" <=> mt[x].state = "incorporated")
    <3>1. SUFFICES ASSUME NEW x \in Slot, mt[x].generation <= generation_retired
                   PROVE  x # s
      BY <1>7
    <3> QED
      BY <1>2, <1>3, <1>10, <3>1
  <2>2. /\ t \in Reader \/ Off(t, {"cleanup", "decref"})
        /\ t \notin Reader \/ Off(t, {"idle", "look", "found", "scan"})
    BY <1>1, <1>5 DEF Off, Resume
  <2> QED
    BY <1>2, <1>5, <1>6, <1>8, <2>1, <2>2, RefsFrame DEF IInv
<1>20. mt[s].value = 0 /\ ~mt[s].any /\ ~mt[s].full
  <2>1. phase = "up" => mt[s].generation # generation
    <3>1. phase = "up" => mt[Idx(generation)].state = "ready"
      BY DEF IInv, WindowInv
    <3>2. Idx(mt[s].generation) = s
      BY <1>2 DEF IInv, WindowInv
    <3> QED
      BY <1>3, <3>1, <3>2
  <2>2. generation < mt[s].generation \/ (generation = mt[s].generation /\ phase # "up")
    BY <1>2, <1>3, <2>1
  <2> QED
    BY <1>2, <2>2 DEF IInv, ValueInv
<1>21. ASSUME NEW h \in Generation
       PROVE  /\ Live(h)' => Live(h) \/ (generation <= h /\ branch[h] = 0)
              /\ Tree(h)' = Tree(h) /\ Tree(h) \in Nat
  <2>1. Tree(h) \in Nat
    BY TreeType DEF IInv, TypeOK, Tree
  <2>2. CASE Idx(h) = s /\ mt[s].generation = h
    <3>1. ~Live(h) /\ Live(h)'
      BY <1>3, <1>7, <2>2 DEF Live, Has
    <3>2. branch[h] = 0 /\ generation <= h
      BY <1>2, <1>3, <2>2 DEF IInv, ValueInv
    <3>3. Tree(h)' = 0 /\ Tree(h) = 0
      BY <1>7, <1>20, <2>2, <3>1, <3>2 DEF Tree
    <3> QED
      BY <2>1, <3>2, <3>3
  <2>3. CASE Idx(h) = s /\ mt[s].generation # h
    <3>1. ~Live(h) /\ ~Live(h)'
      BY <1>7, <2>3 DEF Live, Has
    <3> QED
      BY <1>4, <2>1, <3>1 DEF Tree
  <2>4. CASE Idx(h) # s
    <3>1. mt'[Idx(h)] = mt[Idx(h)]
      BY <1>2, <1>7, <2>4
    <3>2. Live(h)' <=> Live(h)
      BY <3>1 DEF Live, Has
    <3>3. Tree(h)' = Tree(h)
      BY <1>4, <3>1, <3>2 DEF Tree
    <3> QED
      BY <2>1, <3>2, <3>3
  <2> QED
    BY <2>2, <2>3, <2>4
<1>22. ValueInv'
  <2>1. /\ \A g, h \in Generation :
             g < h /\ h <= generation /\ Tree(g)' # 0 /\ Tree(h)' # 0 => Tree(g)' <= Tree(h)'
        /\ \A g \in Generation : Tree(g)' <= value
        /\ value = 0 \/ \E g \in Generation : g <= generation /\ Tree(g)' = value
        /\ \A g \in Generation : Live(g)' => branch[g] = 0
        /\ \A g \in Generation : generation <= g => branch[g] = 0
    BY <1>21 DEF IInv, ValueInv
  <2>2. ASSUME NEW x \in Slot
        PROVE  /\ generation < mt'[x].generation \/ (generation = mt'[x].generation /\ phase # "up") =>
                    mt'[x].value = 0 /\ ~mt'[x].any /\ ~mt'[x].full
               /\ mt'[x].state \in {"compacted", "assigned"} => compacted[x] = mt'[x].generation
               /\ mt'[x].state \in {"compacted", "assigned", "incorporated"}
                    /\ mt'[x].generation < generation => branch[mt'[x].generation] = mt'[x].value
               /\ mt'[x].state \in {"finalized", "compacting"} => mt'[x].any
               /\ mt'[x].full \/ mt'[x].value # 0 => mt'[x].any
    <3>1. CASE x = s
      BY <1>7, <1>20, <3>1
    <3>2. CASE x # s
      <4>1. mt'[x] = mt[x]
        BY <1>7, <3>2
      <4> QED
        BY <4>1 DEF IInv, ValueInv
    <3> QED
      BY <3>1, <3>2
  <2>3. phase = "up" => (is_empty <=> ~mt'[Idx(generation)].any)
    BY <1>8, Types DEF IInv, ValueInv
  <2> QED
    BY <1>4, <1>6, <2>1, <2>2, <2>3 DEF ValueInv
<1>23. RootInv'
  <2>1. \A x \in Slot : UseBranch(x)' => UseBranch(x)
    BY <1>7 DEF UseBranch
  <2>2. Off(t, {"block", "commit", "cleanup"})
    BY <1>1, <1>5 DEF Off, Resume
  <2> QED
    BY <1>4, <1>5, <1>6, <1>8, <2>1, <2>2, RootFrame DEF IInv
<1>24. QueryInv'
  <2>1. t \notin Reader \/ Off(t, {"look", "scan", "open", "found"})
    BY <1>1, <1>5 DEF Off, Resume
  <2>2. \A h \in Generation : Tree(h)' >= Tree(h)
    BY <1>21
  <2>3. \A h \in Generation : h < generation /\ ~Live(h) => ~Live(h)'
    BY <1>2, <1>21
  <2>4. branch' \in [Generation -> Value] /\ QueryInv /\ TypeOK
    BY <1>4 DEF IInv, TypeOK
  <2> QED
    BY <1>2, <1>4, <1>5, <1>6, <1>7, <2>1, <2>2, <2>3, <2>4, QueryFrame
<1> QED
  BY <1>11, <1>12, <1>13, <1>14, <1>15, <1>16, <1>17, <1>18, <1>19, <1>22, <1>23, <1>24
  DEF IInv
=============================================================================
