-------------------------- MODULE MemtableTheorems --------------------------
(***************************************************************************)
(* The inserts, the rotation, the queries and the shutdown preserve the    *)
(* invariant too, and what it implies: no assertion fails, lookups and     *)
(* iterators see what was there when they began, and nothing is stranded.  *)
(***************************************************************************)
EXTENDS MemtableProofs

\* memtable_insert: the current memtable gets the key's next value or a tuple
\* of another key, and may become full.
LEMMA InsertStep ==
    ASSUME IInv, NEW t \in Thread, Insert(t)
    PROVE  IInv'
<1> DEFINE s == Idx(generation)
<1>1. t \in Thread \ Reader /\ pc[t] = "insert" /\ phase = "up" /\ gen[t] = generation
  BY MemtableAssumption DEF IInv, PlaceInv, Placed, Insert
<1>2. /\ TypeOK /\ value \in Value /\ Value \subseteq Nat /\ value \in Nat
      /\ mt \in [Slot -> Record] /\ s \in Slot
      /\ mt[s].value \in Value /\ mt[s].value \in Nat /\ mt[s].full \in BOOLEAN /\ mt[s].any \in BOOLEAN
      /\ mt[s].generation = generation /\ mt[s].state = "ready" /\ generation \in Nat
      /\ generation \in Generation /\ \A h \in Generation : Idx(h) \in Slot
      /\ generation_retired \in Int /\ MaxGeneration \in Nat
  <2>1. TypeOK /\ WindowInv
    BY DEF IInv
  <2>2. mt[s] \in Record
    BY <2>1, Types
  <2>3. value \in Value /\ Value \subseteq Nat
    BY <2>1, MemtableAssumption DEF TypeOK, Value
  <2> QED
    BY <1>1, <2>1, <2>2, <2>3, Types DEF WindowInv, Has, Record
<1>3. PICK k \in {0, 1}, f \in BOOLEAN :
        /\ value + k \in Value /\ value' = value + k
        /\ f => generation < MaxGeneration
        /\ mt' = [mt EXCEPT ![s] = [mt[s] EXCEPT !.value = IF k = 1 THEN value' ELSE @,
                                                 !.any   = TRUE,
                                                 !.full  = @ \/ f]]
        /\ is_empty' = (is_empty /\ k = 1 /\ mt[s].value # 0)
  <2>1. PICK k \in {0, 1} \cap 0 .. MaxValue - value,
             f \in IF gen[t] < MaxGeneration THEN BOOLEAN ELSE {FALSE} :
        /\ value' = value + k
        /\ mt' = [mt EXCEPT ![s] = [mt[s] EXCEPT !.value = IF k = 1 THEN value' ELSE @,
                                                 !.any   = TRUE,
                                                 !.full  = @ \/ f]]
        /\ is_empty' = (is_empty /\ k = 1 /\ mt[s].value # 0)
    BY <1>1 DEF Insert
  <2>2. value + k \in Value
    BY <1>2, <2>1, MemtableAssumption DEF Value
  <2>3. f \in BOOLEAN /\ (f => generation < MaxGeneration)
    BY <1>1, <1>2
  <2> QED
    BY <2>1, <2>2, <2>3
<1>4. PICK l \in {"idle", "help"} :
        /\ pc' \in [Thread -> PC] /\ pc'[t] = l
        /\ Others(t) /\ gen' \in [Thread -> Nat]
  BY GotoEffect DEF IInv, Insert, PC
<1>5. /\ UNCHANGED <<generation, generation_to_incorporate, generation_retired>>
      /\ UNCHANGED <<compacted, branch, trunk, tasks, gen, queries, phase>>
      /\ UNCHANGED <<packed, root, post_root, pre_root, walk, held, floor, result>>
  BY DEF Insert, trunk, queries
<1> HIDE DEF s
<1> DEFINE v == IF k = 1 THEN value + 1 ELSE mt[s].value
<1>6. v \in Value /\ v \in Nat
  BY <1>2, <1>3
<1>7. /\ mt' \in [Slot -> Record]
      /\ \A x \in Slot \ {s} : mt'[x] = mt[x]
      /\ mt'[s].value = v /\ mt'[s].any = TRUE /\ mt'[s].full = (mt[s].full \/ f)
      /\ mt'[s].generation = mt[s].generation
      /\ mt'[s].state = mt[s].state /\ mt'[s].refs = mt[s].refs
  <2> DEFINE w == mt[s].full \/ f
  <2>1. w \in BOOLEAN /\ (IF k = 1 THEN value' ELSE mt[s].value) = v
    BY <1>2, <1>3
  <2>2. (mt[s].full \/ f) = w
    OBVIOUS
  <2> HIDE DEF v, w
  <2>3. mt' = [mt EXCEPT ![s] = [mt[s] EXCEPT !.value = v, !.any = TRUE, !.full = w]]
    BY <1>3, <2>1, <2>2, Zenon
  <2>4. /\ mt' \in [Slot -> Record]
        /\ \A x \in Slot \ {s} : mt'[x] = mt[x]
        /\ mt'[s].value = v /\ mt'[s].any = TRUE /\ mt'[s].full = w
        /\ mt'[s].generation = mt[s].generation
        /\ mt'[s].state = mt[s].state /\ mt'[s].refs = mt[s].refs
    <3>1. mt \in [Slot -> Record] /\ s \in Slot /\ v \in Value /\ w \in BOOLEAN
      BY <1>2, <1>6, <2>1
    <3> QED
      BY <2>3, <3>1, InsertEffect, Zenon
  <2> QED
    BY <2>2, <2>4, Zenon
<1>8. /\ SameGenerations /\ SameTables
      /\ \A x \in Slot : mt'[x].refs = mt[x].refs /\ mt'[x].state = mt[x].state
  BY <1>7 DEF SameGenerations, SameTables
<1>9. is_empty' = FALSE
  BY <1>1, <1>2, <1>3 DEF IInv, ValueInv, s
<1>10. TypeOK'
  BY <1>2, <1>3, <1>4, <1>5, <1>7, <1>9 DEF TypeOK
<1>11. PlaceInv'
  <2>1. Placed(t)'
    BY <1>1, <1>4, <1>5 DEF Placed, TaskPC, IInv, PlaceInv
  <2>2. mt[Idx(generation + 1)].state = "ready" => mt'[Idx(generation + 1)].state = "ready"
    BY <1>2, <1>8, Types
  <2>3. mt[Idx(generation)].full => mt'[Idx(generation)].full
    BY <1>7 DEF s
  <2> QED
    BY <1>1, <1>2, <1>4, <1>5, <2>1, <2>2, <2>3, PlaceFrame DEF IInv
<1>12. WindowInv'
  <2>1. \A x \in Slot : mt'[x].full => mt[x].full \/ mt[x].generation < MaxGeneration
    BY <1>2, <1>3, <1>7
  <2> QED
    BY <1>5, <1>8, <2>1, WindowFrame DEF IInv
<1>13. TaskInv'
  <2>1. \A j \in 1 .. Len(tasks) : tasks[j] \in Generation
    BY <1>2 DEF TypeOK
  <2> QED
    BY <1>2, <1>5, <1>8, <2>1, TaskFrame DEF IInv
<1>14. FlushInv'
  <2>1. Off(t, FlushPC \cup {"pack"})
    BY <1>1, <1>4 DEF Off, FlushPC
  <2> QED
    BY <1>2, <1>4, <1>5, <1>8, <2>1, Types, FlushFrame DEF IInv
<1>15. OwnerInv'
  <2>1. \A u \in Thread : pc[u] \in FlushPC \cup BeforePC \cup {"pack", "start"} =>
           pc'[u] = pc[u] /\ gen'[u] = gen[u]
    BY <1>1, <1>4 DEF Others, FlushPC, BeforePC
  <2> QED
    BY <1>5, <1>8, <2>1, OwnerFrame DEF IInv
<1>16. TurnInv'
  <2>1. Off(t, BeforePC \cup AfterPC)
    BY <1>1, <1>4 DEF Off, BeforePC, AfterPC
  <2> QED
    BY <1>1, <1>4, <1>5, <1>8, <2>1, TurnFrame DEF IInv
<1>17. RecycleInv'
  <2>1. Off(t, {"recycle", "ready"})
    BY <1>1, <1>4 DEF Off
  <2> QED
    BY <1>2, <1>4, <1>5, <1>8, <2>1, RecycleFrame DEF IInv
<1>18. RefsInv'
  <2>1. Off(t, {"cleanup", "decref"})
    BY <1>1, <1>4 DEF Off
  <2> QED
    BY <1>1, <1>2, <1>4, <1>5, <1>8, <2>1, RefsFrame DEF IInv
<1>19. ASSUME NEW h \in Generation
       PROVE  /\ Live(h)' <=> Live(h)
              /\ h # generation => Tree(h)' = Tree(h)
              /\ h = generation => Tree(h) = mt[s].value /\ Tree(h)' = v
              /\ Tree(h) \in Nat /\ Tree(h) <= value
  <2>1. Live(h)' <=> Live(h)
    BY <1>2, <1>8 DEF Live, Has, SameGenerations
  <2>2. Tree(h) \in Nat /\ Tree(h) <= value
    BY <1>2, TreeType DEF IInv, ValueInv, TypeOK, Tree
  <2>3. h = generation => Live(h) /\ Idx(h) = s
    BY <1>2 DEF Live, Has, s
  <2>4. h # generation /\ Live(h) => mt'[Idx(h)] = mt[Idx(h)]
    BY <1>2, <1>7 DEF Live, Has
  <2>5. h # generation => Tree(h)' = Tree(h)
    BY <1>5, <2>1, <2>4 DEF Tree
  <2>6. h = generation => Tree(h) = mt[s].value /\ Tree(h)' = v
    BY <1>7, <2>1, <2>3 DEF Tree
  <2> QED
    BY <2>1, <2>2, <2>5, <2>6
<1>20. ValueInv'
  <2>1. ASSUME NEW g \in Generation, NEW h \in Generation,
               g < h, h <= generation, Tree(g)' # 0, Tree(h)' # 0
        PROVE  Tree(g)' <= Tree(h)'
    <3>1. g # generation /\ Tree(g)' = Tree(g) /\ Tree(g) <= value /\ Tree(g) \in Nat
      BY <1>2, <1>19, <2>1, Types
    <3>2. CASE h = generation /\ k = 1
      BY <1>2, <1>19, <3>1, <3>2
    <3>3. CASE h # generation \/ k # 1
      <4>1. Tree(h)' = Tree(h)
        BY <1>19, <3>3
      <4> QED
        BY <2>1, <3>1, <4>1 DEF IInv, ValueInv
    <3> QED
      BY <3>2, <3>3
  <2>2. \A g \in Generation : Tree(g)' <= value'
    BY <1>2, <1>3, <1>19
  <2>3. value' = 0 \/ \E g \in Generation : g <= generation /\ Tree(g)' = value'
    <3>1. CASE k = 1
      BY <1>2, <1>3, <1>19, <3>1
    <3>2. CASE k = 0
      <4>1. value' = value /\ \A g \in Generation : Tree(g)' = Tree(g)
        BY <1>2, <1>3, <1>19, <3>2
      <4> QED
        BY <4>1 DEF IInv, ValueInv
    <3> QED
      BY <1>3, <3>1, <3>2
  <2>4. /\ \A g \in Generation : Live(g)' => branch[g] = 0
        /\ \A g \in Generation : generation <= g => branch[g] = 0
    BY <1>19 DEF IInv, ValueInv
  <2>5. ASSUME NEW x \in Slot
        PROVE  /\ generation < mt'[x].generation \/ (generation = mt'[x].generation /\ phase # "up") =>
                    mt'[x].value = 0 /\ ~mt'[x].any /\ ~mt'[x].full
               /\ mt'[x].state \in {"compacted", "assigned"} => compacted[x] = mt'[x].generation
               /\ mt'[x].state \in {"compacted", "assigned", "incorporated"}
                    /\ mt'[x].generation < generation => branch[mt'[x].generation] = mt'[x].value
               /\ mt'[x].state \in {"finalized", "compacting"} => mt'[x].any
               /\ mt'[x].full \/ mt'[x].value # 0 => mt'[x].any
    <3>1. CASE x = s
      BY <1>1, <1>2, <1>7, <3>1
    <3>2. CASE x # s
      <4>1. mt'[x] = mt[x]
        BY <1>7, <3>2
      <4> QED
        BY <4>1 DEF IInv, ValueInv
    <3> QED
      BY <3>1, <3>2
  <2>6. is_empty' <=> ~mt'[Idx(generation)].any
    BY <1>7, <1>9 DEF s
  <2> QED
    BY <1>5, <2>1, <2>2, <2>3, <2>4, <2>5, <2>6 DEF ValueInv
<1>21. RootInv'
  <2>1. \A x \in Slot : UseBranch(x)' => UseBranch(x)
    BY <1>8 DEF UseBranch
  <2>2. Off(t, {"block", "commit", "cleanup"})
    BY <1>1, <1>4 DEF Off
  <2> QED
    BY <1>1, <1>4, <1>5, <1>8, <2>1, <2>2, RootFrame DEF IInv
<1>22. QueryInv'
  <2>1. \A h \in Generation : Tree(h)' >= Tree(h)
    BY <1>2, <1>19
  <2>2. branch' \in [Generation -> Value] /\ QueryInv
    BY <1>2, <1>5 DEF IInv, TypeOK
  <2> QED
    BY <1>1, <1>2, <1>4, <1>5, <1>7, <1>19, <2>1, <2>2, QueryFrame
<1> QED
  BY <1>10, <1>11, <1>12, <1>13, <1>14, <1>15, <1>16, <1>17, <1>18, <1>20, <1>21, <1>22
  DEF IInv

-----------------------------------------------------------------------------
\* A memtable that is ready and comes after the current one is that of the
\* next generation.
LEMMA NextReady ==
    ASSUME IInv, mt[Idx(generation + 1)].state = "ready", Has(generation)
    PROVE  /\ Idx(generation + 1) # Idx(generation)
           /\ mt[Idx(generation + 1)].generation = generation + 1
<1> DEFINE n == Idx(generation + 1)
<1>1. generation \in Nat /\ generation_retired \in Int /\ n \in Slot /\ mt[n].generation \in Nat
  BY Types DEF IInv
<1>2. n # Idx(generation)
  BY <1>1, IdxDistinct, MemtableAssumption
<1>3. mt[n].state = "ready" /\ n = Idx(generation + 1)
  OBVIOUS
<1> HIDE DEF n
<1>4. Idx(mt[n].generation) = n
  BY <1>1 DEF IInv, WindowInv
<1>5. /\ mt[n].generation <= generation_retired + max_memtables
      /\ generation_retired < generation
      /\ generation <= mt[n].generation /\ mt[n].generation # generation
  BY <1>1, <1>2, <1>3, <1>4 DEF IInv, WindowInv
<1>6. ~(generation + 1 < mt[n].generation)
  BY <1>1, <1>3, <1>4, <1>5, IdxDistinct, MemtableAssumption
<1>7. mt[n].generation = generation + 1
  BY <1>1, <1>5, <1>6
<1> QED
  BY <1>2, <1>3, <1>7

\* With the insert lock write-locked, thread t finalizes the current memtable
\* and goes to the next generation: by a rotation, which has found that
\* generation's memtable ready, or at a shutdown, which has not looked.
Finalizes(t) ==
    /\ phase = "up" /\ phase' \in {"up", t}
    /\ mt' = [mt EXCEPT ![Idx(generation)].state = "finalized"]
    /\ generation' = generation + 1 /\ is_empty' = TRUE
    /\ UNCHANGED <<generation_to_incorporate, generation_retired>>
    /\ UNCHANGED <<compacted, branch, trunk, tasks, queries, value>>
    /\ pc' \in [Thread -> PC] /\ gen' \in [Thread -> Nat] /\ Others(t)
    /\ pc[t] \in {"drain", "idle"} /\ pc'[t] = "enqueue" /\ gen'[t] = generation
    /\ \A u \in Thread \ {t} : pc[u] \notin {"insert", "full", "drain"}
    /\ mt[Idx(generation)].any
    /\ \/ /\ phase' = "up"
          /\ mt[Idx(generation + 1)].state = "ready" /\ generation < MaxGeneration
       \/ phase' = t /\ \A u \in Writer \cup Reader : pc[u] = "idle"

\* The end of a generation preserves the invariant.
LEMMA FinalizeStep ==
    ASSUME IInv, NEW t \in Writer, Finalizes(t)
    PROVE  IInv'
<1> DEFINE s == Idx(generation)
<1>A. /\ phase = "up" /\ phase' \in {"up", t}
      /\ generation' = generation + 1 /\ is_empty' = TRUE
      /\ UNCHANGED <<generation_to_incorporate, generation_retired>>
      /\ UNCHANGED <<compacted, branch, trunk, tasks, queries, value>>
  BY DEF Finalizes
<1>B. /\ pc' \in [Thread -> PC] /\ gen' \in [Thread -> Nat] /\ Others(t)
      /\ pc[t] \in {"drain", "idle"} /\ pc'[t] = "enqueue" /\ gen'[t] = generation
  BY DEF Finalizes
<1>C. mt' = [mt EXCEPT ![s].state = "finalized"] /\ mt[s].any
  BY DEF Finalizes
<1>D. \/ /\ phase' = "up"
         /\ mt[Idx(generation + 1)].state = "ready" /\ generation < MaxGeneration
      \/ phase' = t /\ \A u \in Writer \cup Reader : pc[u] = "idle"
  BY DEF Finalizes
<1>E. \A u \in Thread \ {t} : pc[u] \notin {"insert", "full", "drain"}
  BY DEF Finalizes
<1>1. t \in Thread \ Reader /\ t \notin {"up", "down"}
  BY MemtableAssumption DEF Thread
<1>2. /\ TypeOK /\ generation \in Nat /\ generation \in Generation /\ generation <= MaxGeneration
      /\ generation_retired \in Int /\ generation_retired < generation /\ MaxGeneration \in Nat
      /\ mt \in [Slot -> Record] /\ s \in Slot /\ Idx(generation + 1) \in Slot
      /\ mt[s].generation = generation /\ mt[s].state = "ready"
      /\ \A h \in Generation : Idx(h) \in Slot /\ h \in Nat
      /\ \A u \in Thread : Idx(gen[u]) \in Slot /\ gen[u] \in Nat
      /\ \A x \in Slot : mt[x].generation \in Nat /\ Idx(mt[x].generation) = x
  BY <1>A, Types DEF IInv, WindowInv, Has
<1>2a. \A n \in Nat :  /\ generation <= n /\ n # generation => generation + 1 <= n
                       /\ n # generation /\ n < generation + 1 => n < generation
                       /\ generation + 1 <= n => generation < n
                       /\ generation + 1 < n \/ generation + 1 = n => generation < n
                       /\ generation + 1 <= n /\ ~(generation + 1 < n) => n = generation + 1
  BY <1>2
<1>2b. generation \in Nat
  BY <1>2
<1>3. /\ UNCHANGED <<packed, root, post_root, pre_root, walk, held, floor, result>>
  BY <1>A DEF trunk, queries
<1>4. \A x \in Slot \ {s} : mt[x].generation # generation
  BY <1>2
<1> HIDE DEF s
<1>5. /\ mt' \in [Slot -> Record]
      /\ \A x \in Slot \ {s} : mt'[x] = mt[x]
      /\ mt'[s].state = "finalized"
      /\ mt'[s].generation = mt[s].generation /\ mt'[s].refs = mt[s].refs
      /\ mt'[s].value = mt[s].value
      /\ mt'[s].any = mt[s].any /\ mt'[s].full = mt[s].full
  BY <1>C, <1>2, StateEffect DEF State, s
<1>6. /\ SameGenerations
      /\ \A x \in Slot : /\ mt'[x].value = mt[x].value /\ mt'[x].any = mt[x].any
                         /\ mt'[x].full = mt[x].full /\ mt'[x].refs = mt[x].refs
      /\ \A x \in Slot : mt[x].state # "ready" => mt'[x].state = mt[x].state
  BY <1>2, <1>5 DEF SameGenerations
<1>7. \A u \in Thread \ {t} : pc'[u] = pc[u] /\ gen'[u] = gen[u]
  BY <1>B DEF Others
<1>8. phase' = "up" => /\ Idx(generation + 1) # s
                       /\ mt[Idx(generation + 1)].generation = generation + 1
  BY <1>D, <1>1, <1>2, NextReady DEF Has, s
<1>9. TypeOK'
  <2>1. generation' \in Generation
    BY <1>A, <1>2 DEF Generation
  <2>2. phase' \in {"up", "down"} \cup Writer
    BY <1>A
  <2> QED
    BY <1>A, <1>B, <1>2, <1>3, <1>5, <2>1, <2>2 DEF TypeOK
<1>10. PlaceInv'
  <2>1. Placed(t)'
    BY <1>A, <1>B, <1>1, <1>2 DEF Placed, TaskPC
  <2>2. ASSUME NEW u \in Thread \ {t} PROVE Placed(u)'
    <3>1. pc'[u] = pc[u] /\ gen'[u] = gen[u] /\ pc[u] \notin {"insert", "full", "drain"}
      BY <1>E, <1>7
    <3>2. Placed(u)
      BY DEF IInv, PlaceInv
    <3>3. phase' = "up" \/ (pc[u] # "help" /\ (u \in Reader => pc[u] = "idle"))
      BY <1>D, <3>2 DEF Placed
    <3>4. pc[u] \in TaskPC => gen[u] < generation + 1
      BY <1>2, <3>2 DEF Placed
    <3> QED
      BY <1>A, <3>1, <3>2, <3>3, <3>4 DEF Placed
  <2>3. \A v, u \in Thread : pc'[v] = "drain" /\ pc'[u] = "drain" => v = u
    BY <1>B, <1>E, <1>7
  <2> QED
    BY <2>1, <2>2, <2>3 DEF PlaceInv
<1>11. WindowInv'
  <2>1. phase' = "up" => /\ generation + 1 <= MaxGeneration
                         /\ mt'[Idx(generation + 1)].generation = generation + 1
                         /\ mt'[Idx(generation + 1)].state = "ready"
    BY <1>D, <1>1, <1>2, <1>5, <1>8
  <2>2. ASSUME NEW h \in Generation, generation_retired < h, h < generation + 1
        PROVE  mt'[Idx(h)].generation = h /\ mt'[Idx(h)].state \in Pipeline
    <3>1. CASE h = generation
      BY <1>2, <1>5, <3>1 DEF s, Pipeline
    <3>2. CASE h # generation
      <4>1. mt[Idx(h)].generation = h /\ mt[Idx(h)].state \in Pipeline
        <5>1. h < generation
          BY <1>2, <1>2a, <2>2, <3>2
        <5> QED
          BY <2>2, <5>1 DEF IInv, WindowInv, Has
      <4>2. mt'[Idx(h)] = mt[Idx(h)]
        BY <1>2, <1>5, <3>2, <4>1
      <4> QED
        BY <4>1, <4>2
    <3> QED
      BY <3>1, <3>2
  <2>3. ASSUME NEW x \in Slot
        PROVE  /\ Idx(mt'[x].generation) = x
               /\ mt'[x].generation <= generation_retired + max_memtables
               /\ generation + 1 <= mt'[x].generation + max_memtables
               /\ mt'[x].full => mt'[x].generation < MaxGeneration
    <3>1. /\ mt'[x].generation = mt[x].generation /\ mt'[x].full = mt[x].full
          /\ mt[x].generation \in Nat /\ max_memtables \in Nat
      BY <1>2, <1>6, MemtableAssumption DEF SameGenerations
    <3>2. generation < mt[x].generation + max_memtables
      BY <1>A DEF IInv, WindowInv
    <3> QED
      BY <1>2, <3>1, <3>2 DEF IInv, WindowInv
  <2>4. ASSUME NEW x \in Slot, phase' = "up"
        PROVE  generation + 1 < mt'[x].generation + max_memtables
    <3>1. mt'[x].generation = mt[x].generation /\ mt[x].generation \in Nat /\ max_memtables \in Nat
      BY <1>2, <1>6, MemtableAssumption DEF SameGenerations
    <3>2. ASSUME generation + 1 = mt[x].generation + max_memtables
          PROVE  FALSE
      <4>1. Idx(generation + 1) = x
        BY <1>2, <3>1, <3>2, IdxShift
      <4>2. mt[x].generation = generation + 1
        BY <1>8, <2>4, <4>1
      <4> QED
        BY <1>2, <3>1, <3>2, <4>2, MemtableAssumption
    <3> QED
      BY <1>2, <2>3, <3>1, <3>2
  <2>5. ASSUME NEW x \in Slot
        PROVE  /\ mt'[x].state = "ready" => generation + 1 <= mt'[x].generation
               /\ mt'[x].state \in Pipeline =>
                    generation_retired < mt'[x].generation /\ mt'[x].generation < generation + 1
               /\ mt'[x].state = "incorporated" =>
                    mt'[x].generation <= generation_retired \/ generation + 1 <= mt'[x].generation
    <3>1. CASE x = s
      BY <1>2, <1>5, <3>1 DEF Pipeline
    <3>2. CASE x # s
      <4>1. mt'[x] = mt[x] /\ mt[x].generation # generation /\ mt[x].generation \in Nat
        BY <1>2, <1>4, <1>5, <3>2
      <4>2. /\ mt[x].state = "ready" => generation <= mt[x].generation
            /\ mt[x].state \in Pipeline =>
                 generation_retired < mt[x].generation /\ mt[x].generation < generation
            /\ mt[x].state = "incorporated" =>
                 mt[x].generation <= generation_retired \/ generation <= mt[x].generation
        BY DEF IInv, WindowInv
      <4>3. generation \in Nat /\ (mt[x].generation < generation => mt[x].generation < generation + 1)
        BY <1>2, <4>1
      <4> QED
        BY <1>2a, <4>1, <4>2, <4>3
    <3> QED
      BY <3>1, <3>2
  <2> QED
    BY <1>A, <1>2, <2>1, <2>2, <2>3, <2>4, <2>5 DEF WindowInv, Has
<1>12. TaskInv'
  <2>1. \A j \in 1 .. Len(tasks) : tasks[j] \in Generation
    BY <1>2 DEF TypeOK
  <2> QED
    BY <1>A, <1>2, <1>6, <2>1, TaskFrame DEF IInv
<1>13. FlushInv'
  <2>1. ASSUME NEW u \in Thread \ {t}
        PROVE  /\ pc'[u] \in FlushPC =>
                    /\ mt'[Idx(gen'[u])].generation = gen'[u]
                    /\ mt'[Idx(gen'[u])].state = "finalized"
                    /\ \A j \in 1 .. Len(tasks) : tasks[j] # gen'[u]
               /\ pc'[u] = "pack" =>
                    /\ mt'[Idx(gen'[u])].generation = gen'[u]
                    /\ mt'[Idx(gen'[u])].state = "compacting"
    <3>1. pc'[u] = pc[u] /\ gen'[u] = gen[u] /\ Idx(gen[u]) \in Slot
      BY <1>2, <1>7
    <3>2. /\ pc[u] \in FlushPC =>
               /\ mt[Idx(gen[u])].generation = gen[u]
               /\ mt[Idx(gen[u])].state = "finalized"
               /\ \A j \in 1 .. Len(tasks) : tasks[j] # gen[u]
          /\ pc[u] = "pack" =>
               /\ mt[Idx(gen[u])].generation = gen[u]
               /\ mt[Idx(gen[u])].state = "compacting"
      BY DEF IInv, FlushInv, Has
    <3> QED
      BY <1>6, <3>1, <3>2 DEF SameGenerations
  <2>2. /\ mt'[Idx(gen'[t])].generation = gen'[t]
        /\ mt'[Idx(gen'[t])].state = "finalized"
    BY <1>B, <1>2, <1>5 DEF s
  <2>3. ASSUME NEW j \in 1 .. Len(tasks)
        PROVE  tasks[j] # gen'[t]
    <3>1. mt[Idx(tasks[j])].state = "finalized"
      BY DEF IInv, TaskInv
    <3> QED
      BY <1>B, <1>2, <3>1 DEF s
  <2>4. \A u \in Thread \ {t} : pc'[u] \in FlushPC => gen'[u] # gen'[t]
    <3>1. \A u \in Thread \ {t} : pc[u] \in FlushPC => gen[u] < generation
      BY DEF IInv, PlaceInv, Placed, TaskPC, FlushPC
    <3> QED
      BY <1>B, <1>2, <1>7, <3>1
  <2>5. \A u, v \in Thread :
          /\ pc'[u] \in FlushPC /\ pc'[v] \in FlushPC /\ gen'[u] = gen'[v] => u = v
          /\ pc'[u] = "pack" /\ pc'[v] = "pack" /\ gen'[u] = gen'[v] => u = v
    BY <1>B, <1>7, <2>4 DEF IInv, FlushInv
  <2> QED
    BY <1>A, <1>B, <2>1, <2>2, <2>3, <2>5 DEF FlushInv, Has
<1>14. OwnerInv'
  <2>1. pc[t] \notin FlushPC \cup BeforePC \cup {"pack", "start"} /\ pc'[t] \in FlushPC
    BY <1>B DEF FlushPC, BeforePC
  <2>2. ASSUME NEW x \in Slot
        PROVE  /\ mt'[x].state = "finalized" =>
                    \/ \E k \in 1 .. Len(tasks) : tasks[k] = mt'[x].generation
                    \/ \E u \in Thread : pc'[u] \in FlushPC /\ gen'[u] = mt'[x].generation
               /\ mt'[x].state = "compacting" =>
                    \E u \in Thread : pc'[u] = "pack" /\ gen'[u] = mt'[x].generation
               /\ mt'[x].state = "compacted" /\ mt'[x].generation = generation_to_incorporate =>
                    \E u \in Thread : pc'[u] = "start" /\ gen'[u] = mt'[x].generation
               /\ mt'[x].state = "assigned" =>
                    \E u \in Thread : pc'[u] \in BeforePC /\ gen'[u] = mt'[x].generation
    <3>1. CASE x = s
      BY <1>B, <1>1, <1>2, <1>5, <2>1, <3>1
    <3>2. CASE x # s
      <4>1. mt'[x] = mt[x]
        BY <1>5, <3>2
      <4>2. /\ mt[x].state = "finalized" =>
                 \/ \E k \in 1 .. Len(tasks) : tasks[k] = mt[x].generation
                 \/ \E u \in Thread : pc[u] \in FlushPC /\ gen[u] = mt[x].generation
            /\ mt[x].state = "compacting" =>
                 \E u \in Thread : pc[u] = "pack" /\ gen[u] = mt[x].generation
            /\ mt[x].state = "compacted" /\ mt[x].generation = generation_to_incorporate =>
                 \E u \in Thread : pc[u] = "start" /\ gen[u] = mt[x].generation
            /\ mt[x].state = "assigned" =>
                 \E u \in Thread : pc[u] \in BeforePC /\ gen[u] = mt[x].generation
        BY DEF IInv, OwnerInv
      <4>3. \A u \in Thread : pc[u] \in FlushPC \cup BeforePC \cup {"pack", "start"} =>
               pc'[u] = pc[u] /\ gen'[u] = gen[u]
        BY <1>7, <2>1
      <4> QED
        BY <4>1, <4>2, <4>3
    <3> QED
      BY <3>1, <3>2
  <2> QED
    BY <1>A, <2>2 DEF OwnerInv
<1>15. TurnInv'
  <2>1. Off(t, BeforePC \cup AfterPC)
    BY <1>B DEF Off, BeforePC, AfterPC
  <2>2. \A x \in Slot : mt[x].state \in {"assigned", "incorporated"} => mt'[x].state = mt[x].state
    BY <1>6
  <2> QED
    BY <1>A, <1>B, <1>1, <1>6, <2>1, <2>2, TurnFrame DEF IInv
<1>16. RecycleInv'
  <2>1. ASSUME NEW u \in Thread
        PROVE  /\ pc'[u] = "recycle" =>
                    /\ mt'[Idx(gen'[u])].generation = gen'[u]
                    /\ mt'[Idx(gen'[u])].state = "incorporated"
                    /\ gen'[u] <= generation_retired
                    /\ mt'[Idx(gen'[u])].refs = 0
               /\ pc'[u] = "ready" =>
                    /\ mt'[Idx(gen'[u])].state = "incorporated"
                    /\ generation + 1 <= mt'[Idx(gen'[u])].generation
    <3>1. pc'[u] \in {"recycle", "ready"} =>
            u # t /\ pc'[u] = pc[u] /\ gen'[u] = gen[u] /\ Idx(gen[u]) \in Slot
      BY <1>B, <1>2, <1>7
    <3>2. /\ pc[u] = "recycle" =>
               /\ mt[Idx(gen[u])].generation = gen[u]
               /\ mt[Idx(gen[u])].state = "incorporated"
               /\ gen[u] <= generation_retired
               /\ mt[Idx(gen[u])].refs = 0
          /\ pc[u] = "ready" =>
               /\ mt[Idx(gen[u])].state = "incorporated"
               /\ generation <= mt[Idx(gen[u])].generation
      BY DEF IInv, RecycleInv, Has
    <3>3. pc[u] \in {"recycle", "ready"} => mt'[Idx(gen[u])] = mt[Idx(gen[u])]
                                            /\ Idx(gen[u]) # s
      BY <1>2, <1>5, <3>2
    <3>4. pc[u] = "ready" => generation + 1 <= mt[Idx(gen[u])].generation
      <4>1. SUFFICES ASSUME pc[u] = "ready" PROVE generation + 1 <= mt[Idx(gen[u])].generation
        OBVIOUS
      <4>2. /\ Idx(gen[u]) \in Slot \ {s} /\ generation <= mt[Idx(gen[u])].generation
            /\ mt[Idx(gen[u])].generation \in Nat
        BY <1>2, <3>2, <3>3, <4>1
      <4>3. mt[Idx(gen[u])].generation # generation
        BY <1>4, <4>2
      <4> QED
        BY <1>2b, <1>2a, <4>2, <4>3
    <3> QED
      BY <3>1, <3>2, <3>3, <3>4
  <2>2. \A u, v \in Thread :
         pc'[u] \in {"recycle", "ready"} /\ pc'[v] \in {"recycle", "ready"}
           /\ Idx(gen'[u]) = Idx(gen'[v]) => u = v
    BY <1>B, <1>7 DEF IInv, RecycleInv
  <2>3. ASSUME NEW x \in Slot, mt'[x].refs = 0
        PROVE  \E u \in Thread : pc'[u] = "recycle" /\ gen'[u] = mt'[x].generation
    <3>1. mt[x].refs = 0 /\ mt'[x].generation = mt[x].generation
      BY <1>6, <2>3 DEF SameGenerations
    <3>2. PICK u \in Thread : pc[u] = "recycle" /\ gen[u] = mt[x].generation
      BY <3>1 DEF IInv, RecycleInv
    <3> QED
      BY <1>B, <1>7, <3>1, <3>2
  <2> QED
    BY <1>A, <2>1, <2>2, <2>3 DEF RecycleInv, Has
<1>17. RefsInv'
  <2>1. Off(t, {"cleanup", "decref"})
    BY <1>B DEF Off
  <2>2. \A x \in Slot : mt'[x].state = "incorporated" <=> mt[x].state = "incorporated"
    BY <1>2, <1>5
  <2> QED
    BY <1>A, <1>B, <1>1, <1>2, <1>3, <1>6, <2>1, <2>2, RefsFrame DEF IInv
<1>18. \A h \in Generation : (Live(h)' <=> Live(h)) /\ Tree(h)' = Tree(h) /\ Tree(h) \in Nat
  <2>1. \A x \in Slot : Advances(x)
    BY <1>2, <1>5 DEF Advances
  <2> QED
    BY <1>A, <1>2, <1>6, <2>1, TreeFrame, TreeType DEF TypeOK, Tree
<1>19. ValueInv'
  <2>1. ASSUME NEW h \in Generation, h = generation + 1
        PROVE  Tree(h) = 0
    <3>1. branch[h] = 0
      BY <1>2, <2>1 DEF IInv, ValueInv
    <3>2. Live(h) => mt[Idx(h)].value = 0
      BY <1>2, <2>1 DEF IInv, ValueInv, Live, Has
    <3> QED
      BY <3>1, <3>2 DEF Tree
  <2>2. \A g, h \in Generation :
          g < h /\ h <= generation + 1 /\ Tree(g)' # 0 /\ Tree(h)' # 0 => Tree(g)' <= Tree(h)'
    <3>1. \A h \in Generation : h <= generation + 1 /\ Tree(h) # 0 => h <= generation
      BY <1>2, <2>1
    <3> QED
      BY <1>18, <3>1 DEF IInv, ValueInv
  <2>3. /\ \A g \in Generation : Tree(g)' <= value
        /\ \A g \in Generation : Live(g)' => branch[g] = 0
    BY <1>18 DEF IInv, ValueInv
  <2>4. value = 0 \/ \E g \in Generation : g <= generation + 1 /\ Tree(g)' = value
    <3>1. value = 0 \/ \E g \in Generation : g <= generation /\ Tree(g) = value
      BY DEF IInv, ValueInv
    <3> QED
      BY <1>2, <1>18, <3>1
  <2>5. \A g \in Generation : generation + 1 <= g => branch[g] = 0
    <3>1. \A g \in Generation : generation <= g => branch[g] = 0
      BY DEF IInv, ValueInv
    <3> QED
      BY <1>2, <3>1
  <2>6. ASSUME NEW x \in Slot
        PROVE  /\ generation + 1 < mt'[x].generation \/ (generation + 1 = mt'[x].generation /\ phase' # "up") =>
                    mt'[x].value = 0 /\ ~mt'[x].any /\ ~mt'[x].full
               /\ mt'[x].state \in {"compacted", "assigned"} => compacted[x] = mt'[x].generation
               /\ mt'[x].state \in {"compacted", "assigned", "incorporated"}
                    /\ mt'[x].generation < generation + 1 => branch[mt'[x].generation] = mt'[x].value
               /\ mt'[x].state \in {"finalized", "compacting"} => mt'[x].any
               /\ mt'[x].full \/ mt'[x].value # 0 => mt'[x].any
    <3>1. CASE x = s
      BY <1>C, <1>2, <1>5, <3>1 DEF s
    <3>2. CASE x # s
      <4>1. mt'[x] = mt[x] /\ mt[x].generation # generation /\ mt[x].generation \in Nat
        BY <1>2, <1>4, <1>5, <3>2
      <4>2. /\ generation + 1 < mt[x].generation \/ generation + 1 = mt[x].generation =>
                 generation < mt[x].generation
            /\ mt[x].generation < generation + 1 => mt[x].generation < generation
        BY <1>2b, <1>2a, <4>1
      <4>3. /\ generation < mt[x].generation =>
                 mt[x].value = 0 /\ ~mt[x].any /\ ~mt[x].full
            /\ mt[x].state \in {"compacted", "assigned"} => compacted[x] = mt[x].generation
            /\ mt[x].state \in {"compacted", "assigned", "incorporated"}
                 /\ mt[x].generation < generation => branch[mt[x].generation] = mt[x].value
            /\ mt[x].state \in {"finalized", "compacting"} => mt[x].any
            /\ mt[x].full \/ mt[x].value # 0 => mt[x].any
        BY DEF IInv, ValueInv
      <4> QED
        BY <4>1, <4>2, <4>3
    <3> QED
      BY <3>1, <3>2
  <2>7. phase' = "up" => ~mt'[Idx(generation + 1)].any
    <3>1. SUFFICES ASSUME phase' = "up" PROVE ~mt'[Idx(generation + 1)].any
      OBVIOUS
    <3>2. generation < mt[Idx(generation + 1)].generation
      BY <1>2, <1>8, <3>1
    <3>3. ~mt[Idx(generation + 1)].any
      BY <1>2, <3>2 DEF IInv, ValueInv
    <3> QED
      BY <1>2, <1>6, <3>3
  <2> QED
    BY <1>A, <2>2, <2>3, <2>4, <2>5, <2>6, <2>7 DEF ValueInv
<1>20. RootInv'
  <2>1. \A x \in Slot : UseBranch(x)' => UseBranch(x)
    BY <1>5 DEF UseBranch
  <2>2. Off(t, {"block", "commit", "cleanup"})
    BY <1>B DEF Off
  <2> QED
    BY <1>A, <1>B, <1>1, <1>3, <1>6, <2>1, <2>2, RootFrame DEF IInv
<1>21. QueryInv'
  <2>1. branch' \in [Generation -> Value] /\ QueryInv
    BY <1>A, <1>2 DEF IInv, TypeOK
  <2>2. \A h \in Generation : Tree(h)' >= Tree(h)
    BY <1>18
  <2> QED
    BY <1>A, <1>B, <1>1, <1>2, <1>5, <1>18, <2>1, <2>2, QueryFrame
<1> QED
  BY <1>9, <1>10, <1>11, <1>12, <1>13, <1>14, <1>15, <1>16, <1>17, <1>19, <1>20, <1>21
  DEF IInv

\* memtable_maybe_rotate_and_begin_insert with the insert lock write-locked.
LEMMA RotateStep ==
    ASSUME IInv, NEW t \in Thread, Rotate(t)
    PROVE  IInv'
<1>1. /\ t \in Writer /\ pc[t] = "drain" /\ phase = "up" /\ gen[t] = generation
      /\ mt[Idx(generation)].full /\ mt[Idx(generation + 1)].state = "ready"
      /\ \A u \in Thread \ {t} : pc[u] # "drain"
  BY DEF IInv, PlaceInv, Placed, Rotate
<1>2. /\ pc' \in [Thread -> PC] /\ pc'[t] = "enqueue"
      /\ Others(t) /\ gen' \in [Thread -> Nat] /\ gen' = gen
  BY GotoEffect DEF IInv, Rotate, PC
<1>3. \A u \in Thread \ {t} : pc[u] \notin {"insert", "full", "drain"}
  BY <1>1 DEF Rotate, Inserting, At
<1>4. mt[Idx(generation)].any /\ generation < MaxGeneration
  BY <1>1, Types DEF IInv, ValueInv, WindowInv, Has
<1>5. Finalizes(t)
  BY <1>1, <1>2, <1>3, <1>4 DEF Finalizes, Rotate, Finalize
<1> QED
  BY <1>1, <1>5, FinalizeStep

\* core_prepare_for_shutdown and task_perform_until_quiescent: the shutdown
\* only ends what may be called, if there is nothing to finalize.
LEMMA PhaseStep ==
    ASSUME IInv, UNCHANGED <<ctxt, mt, compacted, branch, trunk, tasks, pc, gen, queries, value>>,
           phase' \in {"down"} \cup Writer,
           phase = "up" => /\ \A u \in Writer \cup Reader : pc[u] = "idle"
                           /\ is_empty
    PROVE  IInv'
<1>1. /\ UNCHANGED <<generation, generation_to_incorporate, generation_retired, is_empty>>
      /\ UNCHANGED <<walk, held, floor, result>>
      /\ UNCHANGED <<packed, root, post_root, pre_root>>
  BY DEF ctxt, queries, trunk
<1>2. phase' # "up"
  BY MemtableAssumption
<1>3. TypeOK'
  BY <1>1 DEF IInv, TypeOK
<1>4. PlaceInv'
  <2>1. ASSUME NEW u \in Thread PROVE Placed(u)'
    <3>1. Placed(u)
      BY DEF IInv, PlaceInv
    <3>2. /\ pc[u] \notin {"insert", "full", "drain", "help"}
          /\ u \in Reader => pc[u] = "idle"
      BY <3>1 DEF Placed
    <3> QED
      BY <1>1, <3>1, <3>2 DEF Placed
  <2> QED
    BY <2>1 DEF IInv, PlaceInv
<1>5. WindowInv'
  BY <1>1, <1>2 DEF IInv, WindowInv, Has
<1>6. TaskInv' /\ FlushInv' /\ OwnerInv' /\ RecycleInv'
  BY <1>1 DEF IInv, TaskInv, FlushInv, OwnerInv, RecycleInv, Has
<1>7. TurnInv'
  BY <1>1, <1>2 DEF IInv, TurnInv, Has
<1>8. RefsInv'
  BY <1>1 DEF IInv, RefsInv, Holders, Dropped, Holding, Has
<1>9. ValueInv'
  <2>1. \A g \in Generation : (Live(g)' <=> Live(g)) /\ Tree(g)' = Tree(g)
    BY DEF Live, Tree, Has
  <2>2. ASSUME NEW x \in Slot, generation = mt[x].generation
        PROVE  mt[x].value = 0 /\ ~mt[x].any /\ ~mt[x].full
    <3>1. CASE phase = "up"
      <4>1. x = Idx(generation)
        BY <2>2 DEF IInv, WindowInv
      <4>2. ~mt[x].any
        BY <3>1, <4>1 DEF IInv, ValueInv
      <4> QED
        BY <4>2 DEF IInv, ValueInv
    <3>2. CASE phase # "up"
      BY <2>2, <3>2 DEF IInv, ValueInv
    <3> QED
      BY <3>1, <3>2
  <2>3. ASSUME NEW x \in Slot
        PROVE  /\ generation < mt[x].generation \/ (generation = mt[x].generation /\ phase' # "up") =>
                    mt[x].value = 0 /\ ~mt[x].any /\ ~mt[x].full
               /\ mt[x].state \in {"compacted", "assigned"} => compacted[x] = mt[x].generation
               /\ mt[x].state \in {"compacted", "assigned", "incorporated"}
                    /\ mt[x].generation < generation => branch[mt[x].generation] = mt[x].value
               /\ mt[x].state \in {"finalized", "compacting"} => mt[x].any
               /\ mt[x].full \/ mt[x].value # 0 => mt[x].any
    BY <2>2 DEF IInv, ValueInv
  <2>4. /\ \A g, h \in Generation :
             g < h /\ h <= generation /\ Tree(g)' # 0 /\ Tree(h)' # 0 => Tree(g)' <= Tree(h)'
        /\ \A g \in Generation : Tree(g)' <= value
        /\ value = 0 \/ \E g \in Generation : g <= generation /\ Tree(g)' = value
        /\ \A g \in Generation : Live(g)' => branch[g] = 0
        /\ \A g \in Generation : generation <= g => branch[g] = 0
    BY <2>1 DEF IInv, ValueInv
  <2> QED
    BY <1>1, <1>2, <2>3, <2>4 DEF ValueInv
<1>10. RootInv'
  BY <1>1 DEF IInv, RootInv, UseBranch
<1>11. QueryInv'
  BY <1>1 DEF IInv, QueryInv, Queried, Tree, Live, Has
<1> QED
  BY <1>3, <1>4, <1>5, <1>6, <1>7, <1>8, <1>9, <1>10, <1>11 DEF IInv

\* core_prepare_for_shutdown: a memtable that has tuples is finalized.
LEMMA ShutdownStep ==
    ASSUME IInv, NEW w \in Writer, Shutdown(w)
    PROVE  IInv'
<1>1. CASE is_empty
  BY <1>1, PhaseStep DEF Shutdown
<1>2. CASE ~is_empty
  <2>1. w \in Thread /\ phase = "up" /\ \A u \in Writer \cup Reader : pc[u] = "idle"
    BY DEF Shutdown, Thread
  <2>2. /\ TypeOK /\ generation \in Nat /\ gen \in [Thread -> Nat]
    BY Types DEF IInv
  <2>3. Goto(w, "enqueue") /\ "enqueue" \in PC /\ gen' = [gen EXCEPT ![w] = generation]
    BY <1>2 DEF Shutdown, PC
  <2>4. /\ pc' \in [Thread -> PC] /\ pc'[w] = "enqueue" /\ pc[w] = "idle"
        /\ \A u \in Thread \ {w} : pc'[u] = pc[u]
    BY <2>1, <2>2, <2>3, GotoEffect
  <2>5. gen' \in [Thread -> Nat] /\ gen'[w] = generation /\ Others(w)
    BY <2>1, <2>2, <2>3, <2>4 DEF Others
  <2>6. \A u \in Thread \ {w} : pc[u] \notin {"insert", "full", "drain"}
    BY <2>1 DEF IInv, PlaceInv, Placed
  <2>7. mt[Idx(generation)].any
    BY <1>2, <2>1 DEF IInv, ValueInv
  <2>8. /\ phase' = w /\ UNCHANGED <<compacted, branch, trunk, tasks, queries, value>>
        /\ Finalize(generation, "finalize_bound")
    BY <1>2 DEF Shutdown
  <2>9. Finalizes(w)
    BY <2>1, <2>4, <2>5, <2>6, <2>7, <2>8 DEF Finalizes, Finalize
  <2> QED
    BY <2>9, FinalizeStep
<1> QED
  BY <1>1, <1>2

\* task_perform_until_quiescent has found no task.
LEMMA QuiescentStep ==
    ASSUME IInv, Quiescent
    PROVE  IInv'
<1>1. phase # "up"
  BY MemtableAssumption DEF Quiescent
<1> QED
  BY <1>1, PhaseStep DEF Quiescent

-----------------------------------------------------------------------------
\* Where a reader is when it does not recycle a memtable.
ReadPC == {"idle", "look", "found", "scan", "open", "close"}

\* Only what is noted about the queries of the reader r changes, and not the
\* memtables it refers to.
Reads(r) ==
    /\ UNCHANGED <<ctxt, mt, compacted, branch, trunk, tasks, gen, value, phase>>
    /\ phase = "up"
    /\ pc[r] \in ReadPC /\ pc'[r] \in ReadPC
    /\ pc' \in [Thread -> PC] /\ Others(r)
    /\ walk' \in [Reader -> [cur : Generation \cup {-1}, end : Generation \cup {-1}]]
    /\ held' \in [Reader -> [mts : SUBSET Generation, branches : SUBSET Generation]]
    /\ floor' \in [Reader -> Value] /\ result' \in [Reader -> Value]
    /\ \A q \in Reader \ {r} : /\ walk'[q] = walk[q] /\ held'[q] = held[q]
                               /\ floor'[q] = floor[q] /\ result'[q] = result[q]
    /\ held'[r].mts = held[r].mts

\* A step of a query disturbs only what is said about that query.
LEMMA ReadStep ==
    ASSUME IInv, NEW r \in Reader, Reads(r), Holding(r)', Queried(r)'
    PROVE  IInv'
<1>1. /\ UNCHANGED <<ctxt, mt, compacted, branch, trunk, tasks, gen, value, phase>>
      /\ UNCHANGED <<generation, generation_to_incorporate, generation_retired, is_empty>>
      /\ UNCHANGED <<packed, root, post_root, pre_root>>
      /\ phase = "up"
  BY DEF Reads, ctxt, trunk
<1>2. /\ r \in Thread /\ pc[r] \in ReadPC /\ pc'[r] \in ReadPC
      /\ pc' \in [Thread -> PC] /\ Others(r)
  BY DEF Reads, Thread
<1>3. /\ \A q \in Reader \ {r} : /\ walk'[q] = walk[q] /\ held'[q] = held[q]
                                 /\ floor'[q] = floor[q] /\ result'[q] = result[q]
      /\ held'[r].mts = held[r].mts
  BY DEF Reads
<1>4. SameGenerations /\ SameTables /\ \A x \in Slot : Advances(x)
  BY <1>1 DEF SameGenerations, SameTables, Advances
<1>5. generation \in Nat /\ generation_retired \in Int
  BY Types DEF IInv
<1>6. TypeOK'
  BY <1>1, <1>2 DEF IInv, TypeOK, Reads
<1>7. PlaceInv'
  <2>1. Placed(r)'
    <3>1. r \notin Writer
      BY MemtableAssumption
    <3> QED
      BY <1>1, <1>2, <3>1 DEF Placed, TaskPC, ReadPC
  <2>2. pc'[r] # "drain"
    BY <1>2 DEF ReadPC
  <2> QED
    BY <1>1, <1>2, <1>5, <2>1, <2>2, PlaceFrame DEF IInv
<1>8. WindowInv' /\ TaskInv'
  BY <1>1, <1>4, WindowFrame, TaskFrame DEF IInv
<1>9. FlushInv'
  <2>1. Off(r, FlushPC \cup {"pack"})
    BY <1>2 DEF Off, FlushPC, ReadPC
  <2> QED
    BY <1>1, <1>2, <1>4, <2>1, FlushFrame DEF IInv
<1>10. OwnerInv'
  <2>1. \A u \in Thread : pc[u] \in FlushPC \cup BeforePC \cup {"pack", "start"} =>
           pc'[u] = pc[u] /\ gen'[u] = gen[u]
    BY <1>2 DEF Others, FlushPC, BeforePC, ReadPC
  <2> QED
    BY <1>1, <1>4, <2>1, OwnerFrame DEF IInv
<1>11. TurnInv'
  BY <1>1, <1>2, <1>4, TurnFrame DEF IInv
<1>12. RecycleInv'
  <2>1. Off(r, {"recycle", "ready"})
    BY <1>2 DEF Off, ReadPC
  <2> QED
    BY <1>1, <1>2, <1>4, <1>5, <2>1, RecycleFrame DEF IInv
<1>13. RefsInv'
  <2>1. ASSUME NEW x \in Slot
        PROVE  mt'[x].refs = Cardinality(Holders(x)') + IF Dropped(x)' THEN 0 ELSE 1
    <3>1. Holders(x)' = Holders(x)
      BY <1>1, <1>3 DEF Holders
    <3>2. \A u \in Thread \ Reader : pc'[u] = pc[u] /\ gen'[u] = gen[u]
      BY <1>2 DEF Others
    <3>3. Dropped(x)' <=> Dropped(x)
      BY <1>1, <3>2 DEF Dropped
    <3>4. mt[x].refs = Cardinality(Holders(x)) + IF Dropped(x) THEN 0 ELSE 1
      BY DEF IInv, RefsInv
    <3> QED
      BY <1>1, <3>1, <3>3, <3>4
  <2>2. ASSUME NEW q \in Reader \ {r} PROVE Holding(q)'
    <3>1. pc'[q] = pc[q] /\ walk'[q] = walk[q] /\ held'[q] = held[q]
      BY <1>2, <1>3 DEF Others, Thread
    <3>2. Holding(q)
      BY DEF IInv, RefsInv
    <3> QED
      BY <1>1, <3>1, <3>2 DEF Holding, Has
  <2> QED
    BY <2>1, <2>2 DEF RefsInv
<1>14. ValueInv'
  BY <1>1, <1>4, ValueFrame DEF IInv
<1>15. RootInv'
  <2>1. Off(r, {"block", "commit", "cleanup"})
    BY <1>2 DEF Off, ReadPC
  <2>2. \A x \in Slot : UseBranch(x)' => UseBranch(x)
    BY <1>1 DEF UseBranch
  <2> QED
    BY <1>1, <1>2, <1>4, <2>1, <2>2, RootFrame DEF IInv
<1>16. QueryInv'
  <2>1. ASSUME NEW q \in Reader \ {r} PROVE Queried(q)'
    <3>1. /\ pc'[q] = pc[q] /\ walk'[q] = walk[q] /\ held'[q] = held[q]
          /\ floor'[q] = floor[q] /\ result'[q] = result[q]
      BY <1>2, <1>3 DEF Others, Thread
    <3>2. Queried(q)
      BY DEF IInv, QueryInv
    <3>3. \A g \in Generation : (Live(g)' <=> Live(g)) /\ Tree(g)' = Tree(g)
      BY <1>1 DEF Live, Tree, Has
    <3>4. held[q].mts \subseteq Generation /\ held[q].branches \subseteq Generation
      BY ReaderTypes DEF IInv
    <3> QED
      BY <1>1, <3>1, <3>2, <3>3, <3>4 DEF Queried
  <2> QED
    BY <2>1 DEF QueryInv
<1> QED
  BY <1>6, <1>7, <1>8, <1>9, <1>10, <1>11, <1>12, <1>13, <1>14, <1>15, <1>16 DEF IInv

\* While only the queries change, the generations keep their values.
LEMMA ReadsTree ==
    ASSUME NEW r \in Reader, Reads(r)
    PROVE  \A g \in Generation : (Live(g)' <=> Live(g)) /\ Tree(g)' = Tree(g)
  BY DEF Reads, Live, Tree, Has

\* The memtable a walk comes to has the walk's generation and is not
\* incorporated yet, and it leads to the value of that generation.
LEMMA WalkTree ==
    ASSUME IInv, NEW r \in Reader, pc[r] \in {"look", "scan"}, walk[r].cur # walk[r].end
    PROVE  /\ walk[r].cur \in Generation /\ Idx(walk[r].cur) \in Slot
           /\ generation_retired < walk[r].cur /\ walk[r].cur <= generation
           /\ Has(walk[r].cur) /\ mt[Idx(walk[r].cur)].state # "incorporated"
           /\ UseBranch(Idx(walk[r].cur)) =>
                /\ compacted[Idx(walk[r].cur)] = walk[r].cur
                /\ ~Live(walk[r].cur) /\ walk[r].cur < generation
                /\ branch[walk[r].cur] = Tree(walk[r].cur)
           /\ ~UseBranch(Idx(walk[r].cur)) =>
                mt[Idx(walk[r].cur)].value = Tree(walk[r].cur)
           /\ Tree(walk[r].cur) \in Nat
<1> DEFINE g == walk[r].cur
           s == Idx(g)
<1>1. /\ g \in Int /\ walk[r].end \in Int /\ r \in Thread
      /\ walk[r].end = generation_retired /\ walk[r].end <= g /\ g <= generation
      /\ generation \in Nat /\ generation_retired \in Int /\ generation_retired >= -1
  BY ReaderTypes, Types DEF IInv, QueryInv, Queried
<1>2. g # walk[r].end
  OBVIOUS
<1> HIDE DEF g
<1>3. generation_retired < g /\ g \in Nat
  BY <1>1, <1>2
<1>4. g \in Generation /\ s \in Slot
  BY <1>1, <1>3, Below, IdxType DEF IInv
<1>5. phase = "up"
  BY <1>1 DEF IInv, PlaceInv, Placed
<1>6. Has(g) /\ (mt[s].state = "ready" \/ (mt[s].state \in Pipeline /\ g < generation))
  <2>1. CASE g = generation
    BY <1>5, <2>1 DEF IInv, WindowInv
  <2>2. CASE g # generation
    <3>1. g < generation
      BY <1>1, <1>3, <2>2
    <3> QED
      BY <1>3, <1>4, <3>1 DEF IInv, WindowInv
  <2> QED
    BY <2>1, <2>2
<1>7. Tree(g) \in Nat
  BY <1>4, TreeType DEF IInv, TypeOK, Tree
<1>8. CASE UseBranch(s)
  <2>1. mt[s].state \in {"compacted", "assigned"}
    BY <1>8 DEF UseBranch
  <2>2. ~Live(g) /\ g < generation
    BY <1>6, <2>1 DEF Live, Pipeline
  <2>3. compacted[s] = g
    BY <1>4, <1>6, <2>1 DEF IInv, ValueInv, Has
  <2> QED
    BY <1>1, <1>3, <1>4, <1>6, <1>7, <1>8, <2>1, <2>2, <2>3 DEF Tree, g
<1>9. CASE ~UseBranch(s)
  <2>1. Live(g) /\ mt[s].state # "incorporated"
    BY <1>6, <1>9 DEF Live, Pipeline, UseBranch
  <2> QED
    BY <1>1, <1>3, <1>4, <1>6, <1>7, <1>9, <2>1 DEF Tree, g
<1> QED
  BY <1>8, <1>9

\* A retired generation is in the trunk, and its value is that of its branch.
LEMMA RetiredTree ==
    ASSUME IInv
    PROVE  /\ root \subseteq Generation
           /\ \A g \in Generation : g <= generation_retired <=> g \in root
           /\ \A g \in root : ~Live(g) /\ Tree(g) = branch[g] /\ g < generation
<1>1. root = {g \in Generation : g <= generation_retired}
  BY DEF IInv, RootInv
<1>2. ASSUME NEW g \in root
      PROVE  ~Live(g) /\ Tree(g) = branch[g] /\ g < generation
  <2>1. /\ g \in Generation /\ g <= generation_retired /\ generation_retired < generation
        /\ g \in Nat /\ generation \in Nat /\ generation_retired \in Int
    BY <1>1, Types DEF IInv, WindowInv
  <2>2. Idx(g) \in Slot
    BY <2>1, IdxType
  <2>3. ASSUME Live(g) PROVE FALSE
    <3>1. mt[Idx(g)].generation = g
      BY <2>3 DEF Live, Has
    <3>2. mt[Idx(g)].state = "ready" \/ mt[Idx(g)].state \in Pipeline
      BY <2>3 DEF Live, Pipeline
    <3>3. generation <= g \/ generation_retired < g
      BY <2>2, <3>1, <3>2 DEF IInv, WindowInv
    <3> QED
      BY <2>1, <3>3
  <2> QED
    BY <2>1, <2>3 DEF Tree
<1> QED
  BY <1>1, <1>2

\* The trunk has the latest value that any of its generations has.
LEMMA RootNewest ==
    ASSUME IInv
    PROVE  /\ Newest(root, InBranch) \in Value /\ Newest(root, InBranch) \in Nat
           /\ \A g \in root : Tree(g) # 0 => Tree(g) <= Newest(root, InBranch)
<1> DEFINE known == {g \in root : branch[g] # 0}
<1>1. Newest(root, InBranch) = IF known = {} THEN 0 ELSE branch[Max(known)]
  BY DEF Newest, InBranch
<1>2. /\ root \subseteq Generation
      /\ \A g \in root : Tree(g) = branch[g] /\ g < generation
  BY RetiredTree
<1>3. Value \subseteq Nat /\ 0 \in Value /\ \A g \in Generation : branch[g] \in Value
  BY MemtableAssumption DEF IInv, TypeOK, Value
<1>4. known \in SUBSET Generation /\ Generation \subseteq Nat /\ generation \in Nat
  BY <1>2, Types DEF IInv
<1> HIDE DEF known
<1>5. CASE known = {}
  BY <1>1, <1>2, <1>3, <1>5 DEF known
<1>6. CASE known # {}
  <2> DEFINE m == Max(known)
  <2>1. m \in known /\ \A y \in known : y <= m
    BY <1>4, <1>6, MaxExists
  <2>2. Newest(root, InBranch) = branch[m]
    BY <1>1, <1>6
  <2> HIDE DEF m
  <2>3. m \in root /\ branch[m] # 0 /\ m \in Generation /\ Tree(m) = branch[m] /\ m <= generation
    BY <1>2, <1>4, <2>1 DEF known
  <2>4. ASSUME NEW g \in root, Tree(g) # 0 PROVE Tree(g) <= branch[m]
    <3>1. g \in known /\ g <= m /\ g \in Generation
      BY <1>2, <2>1, <2>4 DEF known
    <3>2. CASE g = m
      <4>1. Tree(g) = branch[m] /\ branch[m] \in Nat
        BY <1>2, <1>3, <2>3, <3>2
      <4> QED
        BY <4>1
    <3>3. CASE g # m
      <4>1. g < m
        BY <1>4, <2>3, <3>1, <3>3
      <4> QED
        BY <2>3, <2>4, <3>1, <4>1 DEF IInv, ValueInv
    <3> QED
      BY <3>2, <3>3
  <2> QED
    BY <1>3, <2>2, <2>3, <2>4
<1> QED
  BY <1>5, <1>6

\* core_lookup and core_range_iterator_init begin: the walk is to visit all
\* generations, one of which has the key's latest value.
LEMMA BeginWalkStep ==
    ASSUME IInv, NEW r \in Reader, NEW l \in {"look", "scan"}, BeginWalk(r, l)
    PROVE  IInv'
<1>1. /\ UNCHANGED <<ctxt, mt, compacted, branch, trunk, tasks, gen, held, result, value, phase>>
      /\ UNCHANGED <<generation, generation_retired>>
      /\ pc[r] = "idle" /\ phase = "up"
      /\ walk' = [walk EXCEPT ![r] = [cur |-> generation, end |-> generation_retired]]
      /\ floor' = [floor EXCEPT ![r] = value]
  BY DEF BeginWalk, ctxt
<1>2. r \in Thread /\ TypeOK /\ l \in PC /\ gen' = gen
  BY <1>1 DEF Thread, IInv, PC
<1>3. pc' \in [Thread -> PC] /\ pc'[r] = l /\ Others(r)
  BY <1>1, <1>2, GotoEffect DEF BeginWalk
<1>4. /\ generation \in Nat /\ generation \in Generation /\ generation_retired \in Int
      /\ generation_retired \in Generation \cup {-1} /\ generation_retired < generation
      /\ value \in Value
  BY <1>2, Types DEF IInv, WindowInv, TypeOK
<1>5. /\ walk' \in [Reader -> [cur : Generation \cup {-1}, end : Generation \cup {-1}]]
      /\ walk'[r] = [cur |-> generation, end |-> generation_retired]
      /\ \A q \in Reader \ {r} : walk'[q] = walk[q]
  BY <1>1, <1>2, <1>4 DEF TypeOK
<1>6. /\ floor' \in [Reader -> Value] /\ floor'[r] = value
      /\ \A q \in Reader \ {r} : floor'[q] = floor[q]
  BY <1>1, <1>2, <1>4 DEF TypeOK
<1>7. Reads(r)
  <2>1. held' = held /\ result' = result
    BY <1>1
  <2>2. /\ held' \in [Reader -> [mts : SUBSET Generation, branches : SUBSET Generation]]
        /\ result' \in [Reader -> Value]
    BY <1>2, <2>1 DEF TypeOK
  <2>3. pc[r] \in ReadPC /\ pc'[r] \in ReadPC
    BY <1>1, <1>3 DEF ReadPC
  <2> QED
    BY <1>1, <1>3, <1>5, <1>6, <2>1, <2>2, <2>3 DEF Reads
<1>8. held[r] = NoHeld
  BY <1>1 DEF IInv, RefsInv, Holding
<1>9. Holding(r)'
  BY <1>1, <1>3, <1>8 DEF Holding, NoHeld
<1>10. Queried(r)'
  <2>1. \A g \in Generation : Tree(g)' = Tree(g)
    BY <1>7, ReadsTree
  <2>2. walk'[r].cur = generation /\ walk'[r].end = generation_retired
    BY <1>5
  <2>3. value = 0 \/ \E g \in Generation : g <= generation /\ Tree(g)' >= value
    <3>1. value = 0 \/ \E g \in Generation : g <= generation /\ Tree(g) = value
      BY DEF IInv, ValueInv
    <3>2. value \in Nat
      BY <1>4, MemtableAssumption DEF Value
    <3> QED
      BY <2>1, <3>1, <3>2
  <2>4. held'[r].branches = {}
    BY <1>1, <1>8 DEF NoHeld
  <2> QED
    BY <1>1, <1>3, <1>4, <1>6, <2>2, <2>3, <2>4 DEF Queried
<1> QED
  BY <1>7, <1>9, <1>10, ReadStep

\* core_lookup in a memtable: what it finds there is as late as what it is to
\* find, and what it is to find is further down otherwise.
LEMMA LookMemtableStep ==
    ASSUME IInv, NEW r \in Reader, LookMemtable(r)
    PROVE  IInv'
<1> DEFINE g == walk[r].cur
<1>1. /\ UNCHANGED <<ctxt, mt, compacted, branch, trunk, tasks, gen, held, floor, value, phase>>
      /\ UNCHANGED <<generation, generation_retired>>
      /\ pc[r] = "look" /\ g # walk[r].end
  BY DEF LookMemtable, ctxt
<1>2. r \in Thread /\ TypeOK /\ gen' = gen /\ phase = "up"
  BY <1>1 DEF Thread, IInv, PlaceInv, Placed
<1>3. /\ g \in Generation /\ Idx(g) \in Slot
      /\ generation_retired < g /\ g <= generation
      /\ (IF UseBranch(Idx(g)) THEN branch[compacted[Idx(g)]] ELSE mt[Idx(g)].value) = Tree(g)
      /\ Tree(g) \in Nat
  BY <1>1, WalkTree
<1>4. \/ /\ Tree(g) # 0
         /\ result' = [result EXCEPT ![r] = Tree(g)]
         /\ Goto(r, "found") /\ walk' = walk
      \/ /\ Tree(g) = 0
         /\ walk' = [walk EXCEPT ![r].cur = g - 1]
         /\ result' = result /\ pc' = pc
  BY <1>3 DEF LookMemtable, OneDown
<1>5. /\ walk[r].end = generation_retired /\ Queried(r) /\ Holding(r)
      /\ held[r] = NoHeld
  BY <1>1 DEF IInv, QueryInv, Queried, RefsInv, Holding
<1>6. floor[r] \in Nat /\ generation \in Nat /\ generation_retired \in Int
      /\ Generation \subseteq Nat /\ generation_retired >= -1
  BY <1>2, ReaderTypes, Types
<1>7. Tree(g) \in Value
  <2>1. \A x \in Slot : mt[x].value \in Value
    BY <1>2 DEF TypeOK, Record
  <2>2. \A h \in Generation : branch[h] \in Value
    BY <1>2 DEF TypeOK
  <2> QED
    BY <1>3, <2>1, <2>2 DEF Tree
<1>8. floor[r] = 0 \/ \E h \in Generation : h <= g /\ Tree(h) >= floor[r]
  BY <1>1, <1>5 DEF Queried
<1>9. \A h \in Generation : Tree(h) \in Nat
  BY <1>2, TreeType DEF TypeOK, Tree
<1> HIDE DEF g
<1>10. CASE Tree(g) # 0
  <2>1. /\ result' = [result EXCEPT ![r] = Tree(g)]
        /\ Goto(r, "found") /\ walk' = walk
    BY <1>4, <1>10
  <2>2. pc' \in [Thread -> PC] /\ pc'[r] = "found" /\ Others(r)
    BY <1>2, <2>1, GotoEffect DEF PC
  <2>3. /\ result' \in [Reader -> Value] /\ result'[r] = Tree(g)
        /\ \A q \in Reader \ {r} : result'[q] = result[q]
    BY <1>2, <1>7, <2>1 DEF TypeOK
  <2>4. Reads(r)
    BY <1>1, <1>2, <2>1, <2>2, <2>3 DEF Reads, TypeOK, ReadPC
  <2>5. Tree(g) >= floor[r]
    <3>1. CASE floor[r] = 0
      BY <1>3, <3>1
    <3>2. CASE floor[r] # 0
      <4>1. PICK h \in Generation : h <= g /\ Tree(h) >= floor[r]
        BY <1>8, <3>2
      <4>2. CASE h = g
        BY <4>1, <4>2
      <4>3. CASE h # g
        <5>1. h < g /\ Tree(h) # 0 /\ Tree(h) \in Nat
          BY <1>3, <1>6, <1>9, <3>2, <4>1, <4>3
        <5>2. Tree(h) <= Tree(g)
          BY <1>3, <1>10, <5>1 DEF IInv, ValueInv
        <5> QED
          BY <1>3, <1>6, <4>1, <5>1, <5>2
      <4> QED
        BY <4>2, <4>3
    <3> QED
      BY <3>1, <3>2
  <2>6. Queried(r)'
    BY <1>1, <1>5, <2>2, <2>3, <2>5 DEF Queried, NoHeld
  <2>7. Holding(r)'
    BY <1>1, <1>5, <2>2 DEF Holding, NoHeld
  <2> QED
    BY <2>4, <2>6, <2>7, ReadStep
<1>11. CASE Tree(g) = 0
  <2>1. walk' = [walk EXCEPT ![r].cur = g - 1] /\ result' = result /\ pc' = pc
    BY <1>4, <1>11
  <2>2. g - 1 \in Generation \cup {-1}
    BY <1>3, MemtableAssumption DEF Generation
  <2>3. /\ walk' \in [Reader -> [cur : Generation \cup {-1}, end : Generation \cup {-1}]]
        /\ walk'[r].cur = g - 1 /\ walk'[r].end = walk[r].end
        /\ \A q \in Reader \ {r} : walk'[q] = walk[q]
    BY <1>2, <2>1, <2>2 DEF TypeOK
  <2>4. Reads(r)
    BY <1>1, <1>2, <2>1, <2>3 DEF Reads, TypeOK, ReadPC, Others
  <2>5. floor[r] = 0 \/ \E h \in Generation : h <= g - 1 /\ Tree(h)' >= floor[r]
    <3>1. SUFFICES ASSUME floor[r] # 0
                   PROVE  \E h \in Generation : h <= g - 1 /\ Tree(h)' >= floor[r]
      OBVIOUS
    <3>2. PICK h \in Generation : h <= g /\ Tree(h) >= floor[r]
      BY <1>8, <3>1
    <3>3. h # g
      BY <1>6, <1>11, <3>1, <3>2
    <3>4. h <= g - 1
      BY <1>3, <1>6, <3>2, <3>3
    <3>5. Tree(h)' = Tree(h)
      BY <2>4, ReadsTree
    <3> QED
      BY <3>2, <3>4, <3>5
  <2>6. /\ walk'[r].end = generation_retired' /\ walk'[r].end <= walk'[r].cur
        /\ walk'[r].cur <= generation'
    BY <1>1, <1>3, <1>5, <1>6, <2>3
  <2>7. Queried(r)'
    BY <1>1, <1>5, <2>1, <2>3, <2>5, <2>6 DEF Queried, NoHeld
  <2>8. Holding(r)'
    BY <1>1, <1>5, <2>1 DEF Holding, NoHeld
  <2> QED
    BY <2>4, <2>7, <2>8, ReadStep
<1> QED
  BY <1>10, <1>11

\* core_lookup in the trunk, which has all the generations that are left.
LEMMA LookTrunkStep ==
    ASSUME IInv, NEW r \in Reader, LookTrunk(r)
    PROVE  IInv'
<1>1. /\ UNCHANGED <<ctxt, mt, compacted, branch, trunk, tasks, gen, walk, held, floor,
                     value, phase>>
      /\ pc[r] = "look" /\ walk[r].cur = walk[r].end
      /\ result' = [result EXCEPT ![r] = Newest(root, InBranch)]
      /\ Goto(r, "found")
  BY DEF LookTrunk
<1>2. r \in Thread /\ TypeOK /\ gen' = gen /\ phase = "up"
  BY <1>1 DEF Thread, IInv, PlaceInv, Placed
<1>3. pc' \in [Thread -> PC] /\ pc'[r] = "found" /\ Others(r)
  BY <1>1, <1>2, GotoEffect DEF PC
<1>4. /\ Newest(root, InBranch) \in Value /\ Newest(root, InBranch) \in Nat
      /\ \A g \in root : Tree(g) # 0 => Tree(g) <= Newest(root, InBranch)
  BY RootNewest
<1>5. /\ result' \in [Reader -> Value] /\ result'[r] = Newest(root, InBranch)
      /\ \A q \in Reader \ {r} : result'[q] = result[q]
  BY <1>1, <1>2, <1>4 DEF TypeOK
<1>6. Reads(r)
  BY <1>1, <1>2, <1>3, <1>5 DEF Reads, TypeOK, ReadPC
<1>7. held[r] = NoHeld /\ walk[r].end = generation_retired
  BY <1>1 DEF IInv, QueryInv, Queried, RefsInv, Holding
<1>8. Newest(root, InBranch) >= floor[r]
  <2>1. floor[r] \in Nat /\ \A g \in Generation : Tree(g) \in Nat
    BY <1>2, ReaderTypes, TreeType DEF TypeOK, Tree
  <2>2. CASE floor[r] = 0
    BY <1>4, <2>2
  <2>3. CASE floor[r] # 0
    <3>1. PICK g \in Generation : g <= generation_retired /\ Tree(g) >= floor[r]
      BY <1>1, <1>7, <2>3 DEF IInv, QueryInv, Queried
    <3>2. g \in root
      BY <3>1, RetiredTree
    <3>3. Tree(g) \in Nat /\ Tree(g) # 0
      BY <2>1, <2>3, <3>1
    <3>4. Tree(g) <= Newest(root, InBranch)
      BY <1>4, <3>2, <3>3
    <3> QED
      BY <1>4, <2>1, <3>1, <3>3, <3>4
  <2> QED
    BY <2>2, <2>3
<1>9. Queried(r)'
  BY <1>1, <1>3, <1>5, <1>7, <1>8 DEF Queried, NoHeld
<1>10. Holding(r)'
  BY <1>1, <1>3, <1>7 DEF Holding, NoHeld
<1> QED
  BY <1>6, <1>9, <1>10, ReadStep

\* The end of core_lookup.
LEMMA EndLookupStep ==
    ASSUME IInv, NEW r \in Reader, EndLookup(r)
    PROVE  IInv'
<1>1. /\ UNCHANGED <<ctxt, mt, compacted, branch, trunk, tasks, gen, held, value, phase>>
      /\ pc[r] = "found" /\ Goto(r, "idle")
      /\ walk' = [walk EXCEPT ![r] = [cur |-> -1, end |-> -1]]
      /\ floor' = [floor EXCEPT ![r] = 0] /\ result' = [result EXCEPT ![r] = 0]
  BY DEF EndLookup
<1>2. r \in Thread /\ TypeOK /\ gen' = gen /\ phase = "up"
  BY <1>1 DEF Thread, IInv, PlaceInv, Placed
<1>3. pc' \in [Thread -> PC] /\ pc'[r] = "idle" /\ Others(r)
  BY <1>1, <1>2, GotoEffect DEF PC
<1>4. /\ walk' \in [Reader -> [cur : Generation \cup {-1}, end : Generation \cup {-1}]]
      /\ \A q \in Reader \ {r} : walk'[q] = walk[q]
  BY <1>1, <1>2 DEF TypeOK
<1>5. /\ floor' \in [Reader -> Value] /\ result' \in [Reader -> Value] /\ floor'[r] = 0
      /\ \A q \in Reader \ {r} : floor'[q] = floor[q] /\ result'[q] = result[q]
  BY <1>1, <1>2, MemtableAssumption DEF TypeOK, Value
<1>6. Reads(r)
  BY <1>1, <1>2, <1>3, <1>4, <1>5 DEF Reads, TypeOK, ReadPC
<1>7. held[r] = NoHeld
  BY <1>1 DEF IInv, RefsInv, Holding
<1>8. Queried(r)' /\ Holding(r)'
  BY <1>1, <1>3, <1>5, <1>7 DEF Queried, Holding, NoHeld
<1> QED
  BY <1>6, <1>8, ReadStep

\* core_range_iterator_init takes the branches of the trunk.
LEMMA ScanTrunkStep ==
    ASSUME IInv, NEW r \in Reader, ScanTrunk(r)
    PROVE  IInv'
<1>1. /\ UNCHANGED <<ctxt, mt, compacted, branch, trunk, tasks, gen, walk, floor, result,
                     value, phase>>
      /\ UNCHANGED <<generation, generation_retired>>
      /\ pc[r] = "scan" /\ walk[r].cur = walk[r].end
      /\ held' = [held EXCEPT ![r].branches = @ \cup root]
      /\ Goto(r, "open")
  BY DEF ScanTrunk, ctxt
<1>2. r \in Thread /\ TypeOK /\ gen' = gen /\ phase = "up"
  BY <1>1 DEF Thread, IInv, PlaceInv, Placed
<1>3. pc' \in [Thread -> PC] /\ pc'[r] = "open" /\ Others(r)
  BY <1>1, <1>2, GotoEffect DEF PC
<1>4. /\ root \subseteq Generation
      /\ \A g \in Generation : g <= generation_retired <=> g \in root
      /\ \A g \in root : ~Live(g) /\ g < generation
  BY RetiredTree
<1>5. /\ held' \in [Reader -> [mts : SUBSET Generation, branches : SUBSET Generation]]
      /\ held'[r].mts = held[r].mts /\ held'[r].branches = held[r].branches \cup root
      /\ \A q \in Reader \ {r} : held'[q] = held[q]
  <2>1. held[r].mts \in SUBSET Generation /\ held[r].branches \cup root \in SUBSET Generation
    BY <1>2, <1>4, ReaderTypes
  <2> QED
    BY <1>1, <1>2, <2>1, HeldEffect, HeldFields
<1>6. Reads(r)
  BY <1>1, <1>2, <1>3, <1>5 DEF Reads, TypeOK, ReadPC
<1>7. \A g \in Generation : (Live(g)' <=> Live(g)) /\ Tree(g)' = Tree(g)
  BY <1>6, ReadsTree
<1>8. Queried(r) /\ Holding(r) /\ walk[r].end = generation_retired
  BY <1>1 DEF IInv, QueryInv, Queried, RefsInv
<1>9. Queried(r)'
  <2>1. held[r].mts \subseteq Generation /\ held[r].branches \subseteq Generation
    BY <1>2, ReaderTypes
  <2>2. \A g \in held'[r].branches : g < generation /\ ~Live(g)'
    BY <1>4, <1>5, <1>7, <1>8, <2>1 DEF Queried
  <2>3. floor[r] = 0 \/ \E g \in held'[r].mts \cup held'[r].branches : Tree(g)' >= floor[r]
    <3>1. SUFFICES ASSUME floor[r] # 0
                   PROVE  \E g \in held'[r].mts \cup held'[r].branches : Tree(g)' >= floor[r]
      OBVIOUS
    <3>2. PICK g \in Generation :
            /\ g <= generation_retired \/ g \in held[r].mts \cup held[r].branches
            /\ Tree(g) >= floor[r]
      BY <1>1, <1>8, <3>1 DEF Queried
    <3>3. g \in held'[r].mts \cup held'[r].branches
      BY <1>4, <1>5, <3>2
    <3> QED
      BY <1>7, <3>2, <3>3
  <2> QED
    BY <1>1, <1>3, <2>2, <2>3 DEF Queried
<1>10. Holding(r)'
  BY <1>1, <1>3, <1>5, <1>8 DEF Holding, Has
<1> QED
  BY <1>6, <1>9, <1>10, ReadStep

\* core_range_iterator_deinit begins, ...
LEMMA CloseStep ==
    ASSUME IInv, NEW r \in Reader, Close(r)
    PROVE  IInv'
<1>1. /\ UNCHANGED <<ctxt, mt, compacted, branch, trunk, tasks, gen, held, result, value, phase>>
      /\ UNCHANGED <<generation, generation_retired>>
      /\ pc[r] = "open" /\ Goto(r, "close")
      /\ walk' = [walk EXCEPT ![r] = [cur |-> -1, end |-> -1]]
      /\ floor' = [floor EXCEPT ![r] = 0]
  BY DEF Close, ctxt
<1>2. r \in Thread /\ TypeOK /\ gen' = gen /\ phase = "up"
  BY <1>1 DEF Thread, IInv, PlaceInv, Placed
<1>3. pc' \in [Thread -> PC] /\ pc'[r] = "close" /\ Others(r)
  BY <1>1, <1>2, GotoEffect DEF PC
<1>4. /\ walk' \in [Reader -> [cur : Generation \cup {-1}, end : Generation \cup {-1}]]
      /\ \A q \in Reader \ {r} : walk'[q] = walk[q]
  BY <1>1, <1>2 DEF TypeOK
<1>5. /\ floor' \in [Reader -> Value] /\ floor'[r] = 0
      /\ \A q \in Reader \ {r} : floor'[q] = floor[q]
  BY <1>1, <1>2, MemtableAssumption DEF TypeOK, Value
<1>6. Reads(r)
  BY <1>1, <1>2, <1>3, <1>4, <1>5 DEF Reads, TypeOK, ReadPC
<1>7. held[r].branches \subseteq Generation /\ Queried(r) /\ Holding(r)
  BY <1>2, ReaderTypes DEF IInv, QueryInv, RefsInv
<1>8. Queried(r)'
  BY <1>1, <1>3, <1>5, <1>6, <1>7, ReadsTree DEF Queried
<1>9. Holding(r)'
  BY <1>1, <1>3, <1>7 DEF Holding, Has
<1> QED
  BY <1>6, <1>8, <1>9, ReadStep

\* ... and ends when the iterator refers to no memtable any more.
LEMMA CloseEndStep ==
    ASSUME IInv, NEW r \in Reader, CloseEnd(r)
    PROVE  IInv'
<1>1. /\ UNCHANGED <<ctxt, mt, compacted, branch, trunk, tasks, gen, walk, floor, result, value, phase>>
      /\ pc[r] = "close" /\ Goto(r, "idle") /\ held[r].mts = {}
      /\ held' = [held EXCEPT ![r] = NoHeld]
  BY DEF CloseEnd
<1>2. r \in Thread /\ TypeOK /\ gen' = gen /\ phase = "up"
  BY <1>1 DEF Thread, IInv, PlaceInv, Placed
<1>3. pc' \in [Thread -> PC] /\ pc'[r] = "idle" /\ Others(r)
  BY <1>1, <1>2, GotoEffect DEF PC
<1>4. /\ held' \in [Reader -> [mts : SUBSET Generation, branches : SUBSET Generation]]
      /\ held'[r] = NoHeld /\ held'[r].mts = {}
      /\ \A q \in Reader \ {r} : held'[q] = held[q]
  BY <1>1, <1>2 DEF TypeOK, NoHeld
<1>5. Reads(r)
  BY <1>1, <1>2, <1>3, <1>4 DEF Reads, TypeOK, ReadPC
<1>6. Queried(r)' /\ Holding(r)'
  BY <1>1, <1>3, <1>4 DEF Queried, Holding, NoHeld
<1> QED
  BY <1>5, <1>6, ReadStep

-----------------------------------------------------------------------------
\* A reader gets or gives up a reference on the memtable of generation g: the
\* references stay counted.
LEMMA HoldStep ==
    ASSUME IInv, NEW r \in Reader, NEW g \in Generation, Has(g),
           SameTables, UNCHANGED <<generation, generation_retired>>, Others(r),
           \A x \in Slot \ {Idx(g)} : mt'[x] = mt[x],
           \A q \in Reader \ {r} : held'[q] = held[q] /\ walk'[q] = walk[q],
           Holding(r)',
           \/ /\ g \notin held[r].mts /\ held'[r].mts = held[r].mts \cup {g}
              /\ mt'[Idx(g)].refs = mt[Idx(g)].refs + 1
           \/ /\ g \in held[r].mts /\ held'[r].mts = held[r].mts \ {g}
              /\ mt'[Idx(g)].refs = mt[Idx(g)].refs - 1
    PROVE  RefsInv'
<1> DEFINE s == Idx(g)
<1>1. s \in Slot /\ mt[s].generation = g /\ mt[s].refs \in Nat
  BY Types DEF IInv, Has
<1>2. \A x \in Slot : /\ IsFiniteSet(Holders(x)) /\ Cardinality(Holders(x)) \in Nat
                      /\ Holders(x) \subseteq Reader
  BY FS_Subset, FS_CardinalityType, MemtableAssumption DEF Holders
<1>3. ASSUME NEW x \in Slot PROVE Dropped(x)' <=> Dropped(x)
  <2>1. \A u \in Thread \ Reader : pc'[u] = pc[u] /\ gen'[u] = gen[u]
    BY DEF Others
  <2> QED
    BY <2>1 DEF Dropped, SameTables
<1>4. ASSUME NEW x \in Slot
      PROVE  mt'[x].refs = Cardinality(Holders(x)') + IF Dropped(x)' THEN 0 ELSE 1
  <2>1. mt[x].refs = Cardinality(Holders(x)) + IF Dropped(x) THEN 0 ELSE 1
    BY DEF IInv, RefsInv
  <2>2. CASE x # s
    <3>1. mt'[x] = mt[x] /\ mt[x].generation # g
      BY <2>2 DEF IInv, WindowInv
    <3>2. \A q \in Reader : mt[x].generation \in held'[q].mts <=> mt[x].generation \in held[q].mts
      BY <3>1
    <3>3. Holders(x)' = Holders(x)
      BY <3>1, <3>2 DEF Holders
    <3> QED
      BY <1>3, <2>1, <3>1, <3>3
  <2>3. CASE x = s /\ g \notin held[r].mts
    <3>1. mt'[s].refs = mt[s].refs + 1 /\ held'[r].mts = held[r].mts \cup {g}
      BY <2>3
    <3>2. Holders(s)' = Holders(s) \cup {r} /\ r \notin Holders(s)
      BY <1>1, <2>3, <3>1 DEF Holders, SameTables
    <3>3. Cardinality(Holders(s)') = Cardinality(Holders(s)) + 1
      <4>1. IsFiniteSet(Holders(s))
        BY <1>1, <1>2
      <4>2. Cardinality(Holders(s) \cup {r}) = Cardinality(Holders(s)) + 1
        BY <3>2, <4>1, FS_AddElement, Zenon
      <4> QED
        BY <3>2, <4>2, Zenon
    <3>4. Dropped(s)' <=> Dropped(s)
      BY <1>1, <1>3
    <3> QED
      BY <1>1, <1>2, <2>1, <2>3, <3>1, <3>3, <3>4
  <2>4. CASE x = s /\ g \in held[r].mts
    <3>1. mt'[s].refs = mt[s].refs - 1 /\ held'[r].mts = held[r].mts \ {g}
      BY <2>4
    <3>2. Holders(s)' = Holders(s) \ {r} /\ r \in Holders(s)
      BY <1>1, <2>4, <3>1 DEF Holders, SameTables
    <3>3. Cardinality(Holders(s)') = Cardinality(Holders(s)) - 1
      <4>1. IsFiniteSet(Holders(s))
        BY <1>1, <1>2
      <4>2. Cardinality(Holders(s) \ {r}) = Cardinality(Holders(s)) - 1
        BY <3>2, <4>1, FS_RemoveElement, Zenon
      <4> QED
        BY <3>2, <4>2, Zenon
    <3>4. Dropped(s)' <=> Dropped(s)
      BY <1>1, <1>3
    <3> QED
      BY <1>1, <1>2, <2>1, <2>4, <3>1, <3>3, <3>4
  <2> QED
    BY <2>2, <2>3, <2>4
<1>5. ASSUME NEW q \in Reader \ {r} PROVE Holding(q)'
  <2>1. pc'[q] = pc[q] /\ Holding(q) /\ held[q].mts \subseteq Generation
    BY ReaderTypes DEF Others, Thread, IInv, RefsInv
  <2>2. \A h \in held[q].mts : mt[Idx(h)].generation = h /\ h <= generation
    BY <2>1 DEF Holding, Has
  <2>3. \A h \in held[q].mts : mt'[Idx(h)].generation = h /\ h <= generation
    BY <2>1, <2>2, Types DEF SameTables, IInv
  <2> QED
    BY <2>1, <2>3 DEF Holding, Has
<1> QED
  BY <1>4, <1>5 DEF RefsInv

\* core_range_iterator_init takes a reference on a memtable, or on the branch
\* that was packed from it.
LEMMA ScanMemtableStep ==
    ASSUME IInv, NEW r \in Reader, ScanMemtable(r)
    PROVE  IInv'
<1> DEFINE g == walk[r].cur
           s == Idx(g)
<1>1. /\ UNCHANGED <<ctxt, compacted, branch, trunk, tasks, pc, gen, floor, result, value, phase>>
      /\ UNCHANGED <<generation, generation_to_incorporate, generation_retired, is_empty>>
      /\ pc[r] = "scan" /\ g # walk[r].end
      /\ walk' = [walk EXCEPT ![r].cur = g - 1]
  BY DEF ScanMemtable, OneDown, ctxt
<1>2. r \in Thread \ Writer /\ TypeOK /\ phase = "up"
  BY <1>1, MemtableAssumption DEF Thread, IInv, PlaceInv, Placed
<1>3. /\ g \in Generation /\ s \in Slot
      /\ generation_retired < g /\ g <= generation
      /\ Has(g) /\ mt[s].state # "incorporated"
      /\ UseBranch(s) => compacted[s] = g /\ ~Live(g) /\ g < generation
  BY <1>1, WalkTree
<1>4. /\ walk[r].end = generation_retired /\ Queried(r) /\ Holding(r)
  BY <1>1 DEF IInv, QueryInv, Queried, RefsInv
<1>5. /\ floor[r] \in Nat /\ generation \in Nat /\ generation_retired \in Int
      /\ Generation \subseteq Nat /\ mt[s].refs \in Nat
      /\ held[r].mts \subseteq Generation /\ held[r].branches \subseteq Generation
  BY <1>2, <1>3, ReaderTypes, Types
<1>6. /\ UseBranch(s) => /\ held' = [held EXCEPT ![r].branches = @ \cup {compacted[s]}]
                         /\ mt' = mt
      /\ ~UseBranch(s) => /\ held' = [held EXCEPT ![r].mts = @ \cup {g}]
                          /\ mt' = [mt EXCEPT ![s].refs = mt[s].refs + 1]
  BY DEF ScanMemtable
<1>7. pc' \in [Thread -> PC] /\ Others(r) /\ gen' = gen /\ pc' = pc
  BY <1>1, <1>2 DEF TypeOK, Others
<1> HIDE DEF g
<1>8. /\ walk' \in [Reader -> [cur : Generation \cup {-1}, end : Generation \cup {-1}]]
      /\ walk'[r].cur = g - 1 /\ walk'[r].end = walk[r].end
      /\ \A q \in Reader \ {r} : walk'[q] = walk[q]
  <2>1. g - 1 \in Generation \cup {-1}
    BY <1>3, MemtableAssumption DEF Generation
  <2> QED
    BY <1>1, <1>2, <2>1 DEF TypeOK
<1>9. /\ held' \in [Reader -> [mts : SUBSET Generation, branches : SUBSET Generation]]
      /\ \A q \in Reader \ {r} : held'[q] = held[q]
      /\ UseBranch(s) => /\ held'[r].mts = held[r].mts
                         /\ held'[r].branches = held[r].branches \cup {g}
      /\ ~UseBranch(s) => /\ held'[r].mts = held[r].mts \cup {g}
                          /\ held'[r].branches = held[r].branches
  <2>0. /\ held[r].mts \in SUBSET Generation /\ held[r].branches \in SUBSET Generation
        /\ held[r].mts \cup {g} \in SUBSET Generation
        /\ held[r].branches \cup {g} \in SUBSET Generation
    BY <1>3, <1>5
  <2>1. CASE UseBranch(s)
    <3>1. held' = [held EXCEPT ![r].branches = @ \cup {g}]
      BY <1>3, <1>6, <2>1
    <3>2. held' = [held EXCEPT ![r] = [mts |-> held[r].mts, branches |-> held[r].branches \cup {g}]]
      BY <1>2, <3>1, HeldFields
    <3> QED
      BY <1>2, <2>0, <2>1, <3>2, HeldEffect
  <2>2. CASE ~UseBranch(s)
    <3>1. held' = [held EXCEPT ![r].mts = @ \cup {g}]
      BY <1>6, <2>2
    <3>2. held' = [held EXCEPT ![r] = [mts |-> held[r].mts \cup {g}, branches |-> held[r].branches]]
      BY <1>2, <3>1, HeldFields
    <3> QED
      BY <1>2, <2>0, <2>2, <3>2, HeldEffect
  <2> QED
    BY <2>1, <2>2
<1>10. \A h \in held[r].mts : g < h
  BY <1>1, <1>4 DEF Holding, g
<1>10a. g \in Nat /\ Generation \subseteq Nat
  BY <1>3, <1>5
<1>10b. g - 1 < g /\ \A h \in Nat : (h <= g => h <= g - 1 \/ h = g) /\ (g < h => g - 1 < h)
  BY <1>10a
<1>11. ASSUME \A h \in Generation : (Live(h)' <=> Live(h)) /\ Tree(h)' = Tree(h)
       PROVE  Queried(r)'
  <2>1. \A h \in held'[r].branches : h < generation /\ ~Live(h)'
    <3>1. \A h \in held[r].branches : h < generation /\ ~Live(h)
      BY <1>4 DEF Queried
    <3> QED
      BY <1>3, <1>5, <1>9, <1>11, <3>1
  <2>2. floor[r] = 0 \/ \E h \in Generation :
            /\ h <= g - 1 \/ h \in held'[r].mts \cup held'[r].branches
            /\ Tree(h)' >= floor[r]
    <3>1. SUFFICES ASSUME floor[r] # 0
                   PROVE  \E h \in Generation :
                              /\ h <= g - 1 \/ h \in held'[r].mts \cup held'[r].branches
                              /\ Tree(h)' >= floor[r]
      OBVIOUS
    <3>2. PICK h \in Generation : /\ h <= g \/ h \in held[r].mts \cup held[r].branches
                                  /\ Tree(h) >= floor[r]
      BY <1>1, <1>4, <3>1 DEF Queried, g
    <3>3. h <= g => h <= g - 1 \/ h = g
      BY <1>10a, <1>10b
    <3>4. h <= g - 1 \/ h \in held'[r].mts \cup held'[r].branches
      BY <1>9, <3>2, <3>3
    <3> QED
      BY <1>11, <3>2, <3>4
  <2>3. /\ walk'[r].end = generation_retired' /\ walk'[r].end <= walk'[r].cur
        /\ walk'[r].cur <= generation'
    BY <1>1, <1>3, <1>4, <1>5, <1>8
  <2> QED
    BY <1>1, <1>7, <1>8, <2>1, <2>2, <2>3 DEF Queried
<1>12. CASE UseBranch(s)
  <2>1. Reads(r)
    BY <1>1, <1>2, <1>6, <1>7, <1>8, <1>9, <1>12 DEF Reads, TypeOK, ReadPC
  <2>2. Queried(r)'
    BY <1>11, <2>1, ReadsTree
  <2>3. Holding(r)'
    <3>1. \A h \in held[r].mts : mt'[Idx(h)].generation = h /\ h <= generation
      BY <1>4, <1>6, <1>12 DEF Holding, Has
    <3>2. \A h \in held[r].mts : g - 1 < h
      BY <1>5, <1>10, <1>10a, <1>10b, Zenon
    <3> QED
      BY <1>1, <1>7, <1>8, <1>9, <1>12, <3>1, <3>2 DEF Holding, Has
  <2> QED
    BY <2>1, <2>2, <2>3, ReadStep
<1>13. CASE ~UseBranch(s)
  <2>1. /\ PlaceInv' /\ WindowInv' /\ TaskInv' /\ FlushInv' /\ OwnerInv' /\ TurnInv'
        /\ ValueInv' /\ RootInv'
        /\ SameTables /\ SameGenerations /\ mt' \in [Slot -> Record]
        /\ mt'[s].refs = mt[s].refs + 1 /\ \A x \in Slot \ {s} : mt'[x] = mt[x]
        /\ \A h \in Generation : (Live(h)' <=> Live(h)) /\ Tree(h)' = Tree(h) /\ Tree(h) \in Nat
    <3>1. Placed(r)'
      BY <1>1, <1>2, <1>7 DEF Placed, TaskPC
    <3>2. Off(r, FlushPC \cup BeforePC \cup {"pack", "start", "cleanup", "drain"})
      BY <1>1, <1>7 DEF Off, FlushPC, BeforePC
    <3>3. mt[s].refs + 1 \in Nat /\ mt' = [mt EXCEPT ![s].refs = mt[s].refs + 1]
      BY <1>5, <1>6, <1>13
    <3> HIDE DEF s
    <3> QED
      BY <1>1, <1>2, <1>3, <1>7, <3>1, <3>2, <3>3, CountStep
  <2>2. TypeOK'
    BY <1>1, <1>2, <1>7, <1>8, <1>9, <2>1 DEF TypeOK, trunk
  <2>3. Queried(r)'
    BY <1>11, <2>1
  <2>4. Holding(r)'
    <3>1. \A h \in held[r].mts : mt'[Idx(h)].generation = h /\ h <= generation
      BY <1>2, <1>4, <1>5, <2>1, Types DEF Holding, Has, SameTables
    <3>2. mt'[s].generation = g
      BY <1>3, <2>1 DEF SameTables, Has
    <3>3. g - 1 < g /\ \A h \in held[r].mts : g - 1 < h
      <4>1. held[r].mts \subseteq Nat
        BY <1>5
      <4> QED
        BY <1>10, <1>10b, <4>1
    <3> QED
      BY <1>1, <1>3, <1>7, <1>8, <1>9, <1>13, <3>1, <3>2, <3>3 DEF Holding, Has
  <2>5. RefsInv'
    <3>1. g \notin held[r].mts
      BY <1>3, <1>5, <1>10
    <3> QED
      BY <1>1, <1>3, <1>7, <1>8, <1>9, <1>13, <2>1, <2>4, <3>1, HoldStep
  <2>6. RecycleInv'
    <3>1. ASSUME NEW u \in Thread, pc[u] \in {"recycle", "ready"}
          PROVE  mt'[Idx(gen[u])] = mt[Idx(gen[u])]
      <4>1. mt[Idx(gen[u])].state = "incorporated" /\ Idx(gen[u]) \in Slot
        BY <1>2, <3>1, Types DEF IInv, RecycleInv
      <4> QED
        BY <1>3, <2>1, <4>1
    <3>2. \A u \in Thread :
            /\ pc[u] = "recycle" =>
                 /\ mt'[Idx(gen[u])].generation = gen[u]
                 /\ mt'[Idx(gen[u])].state = "incorporated"
                 /\ gen[u] <= generation_retired
                 /\ mt'[Idx(gen[u])].refs = 0
            /\ pc[u] = "ready" =>
                 /\ mt'[Idx(gen[u])].state = "incorporated"
                 /\ generation <= mt'[Idx(gen[u])].generation
      BY <3>1 DEF IInv, RecycleInv, Has
    <3>3. ASSUME NEW x \in Slot, mt'[x].refs = 0
          PROVE  \E u \in Thread : pc[u] = "recycle" /\ gen[u] = mt'[x].generation
      <4>1. x # s
        BY <1>5, <2>1, <3>3
      <4>2. mt'[x] = mt[x]
        BY <2>1, <4>1
      <4> QED
        BY <3>3, <4>2 DEF IInv, RecycleInv
    <3> QED
      BY <1>1, <1>7, <3>2, <3>3 DEF IInv, RecycleInv, Has
  <2>7. QueryInv'
    <3>1. ASSUME NEW q \in Reader \ {r} PROVE Queried(q)'
      <4>1. /\ pc'[q] = pc[q] /\ walk'[q] = walk[q] /\ held'[q] = held[q]
            /\ floor'[q] = floor[q] /\ result'[q] = result[q]
        BY <1>1, <1>7, <1>8, <1>9
      <4>2. Queried(q)
        BY DEF IInv, QueryInv
      <4>3. held[q].mts \subseteq Generation /\ held[q].branches \subseteq Generation
        BY <1>2, ReaderTypes
      <4> QED
        BY <1>1, <2>1, <4>1, <4>2, <4>3 DEF Queried
    <3> QED
      BY <2>3, <3>1 DEF QueryInv
  <2> QED
    BY <2>1, <2>2, <2>5, <2>6, <2>7 DEF IInv
<1> QED
  BY <1>12, <1>13

\* A memtable an iterator refers to has a reference, and the iterator's is the
\* last one only when the incorporation has dropped its own.
LEMMA HeldRefs ==
    ASSUME IInv, NEW r \in Reader, NEW g \in held[r].mts
    PROVE  /\ g \in Generation /\ Idx(g) \in Slot /\ Has(g)
           /\ mt[Idx(g)].refs >= 1
           /\ mt[Idx(g)].refs = 1 =>
                mt[Idx(g)].state = "incorporated" /\ g <= generation_retired
<1> DEFINE s == Idx(g)
<1>1. g \in Generation /\ s \in Slot /\ Has(g) /\ mt[s].generation = g
  BY ReaderTypes, Types DEF IInv, RefsInv, Holding, Has
<1> HIDE DEF s
<1>2. IsFiniteSet(Holders(s)) /\ Cardinality(Holders(s)) \in Nat
  BY FS_Subset, FS_CardinalityType, MemtableAssumption DEF Holders
<1>3. r \in Holders(s)
  BY <1>1 DEF Holders
<1>4. Cardinality(Holders(s)) # 0
  BY <1>2, <1>3, FS_EmptySet
<1>5. mt[s].refs = Cardinality(Holders(s)) + IF Dropped(s) THEN 0 ELSE 1
  BY <1>1 DEF IInv, RefsInv
<1>6. mt[s].refs >= 1 /\ (mt[s].refs = 1 => Dropped(s))
  BY <1>2, <1>4, <1>5
<1> QED
  BY <1>1, <1>6 DEF Dropped, s

\* core_memtable_dec_ref for the newest memtable an iterator refers to: the
\* last reference is given up only after the incorporation has dropped its own.
LEMMA CloseMemtableStep ==
    ASSUME IInv, NEW r \in Reader, CloseMemtable(r)
    PROVE  IInv'
<1> DEFINE g == Max(held[r].mts)
           s == Idx(g)
<1>1. /\ UNCHANGED <<ctxt, compacted, branch, trunk, tasks, walk, floor, result, value, phase>>
      /\ UNCHANGED <<generation, generation_to_incorporate, generation_retired, is_empty>>
      /\ pc[r] = "close" /\ held[r].mts # {}
      /\ gen' = [gen EXCEPT ![r] = g]
      /\ held' = [held EXCEPT ![r].mts = @ \ {g}]
      /\ mt' = [mt EXCEPT ![s].refs = mt[s].refs - 1]
      /\ Goto(r, IF mt[s].refs = 1 THEN "recycle" ELSE "close")
  BY DEF CloseMemtable, DropRef, Resume, ctxt
<1>2. r \in Thread \ Writer /\ TypeOK /\ phase = "up"
  BY <1>1, MemtableAssumption DEF Thread, IInv, PlaceInv, Placed
<1>3. /\ held[r].mts \subseteq Generation /\ held[r].branches \subseteq Generation
      /\ Queried(r) /\ Holding(r)
  BY <1>2, ReaderTypes DEF IInv, QueryInv, RefsInv
<1>4. g \in held[r].mts
  BY <1>1, <1>3, MaxExists
<1> HIDE DEF g
<1>5. /\ g \in Generation /\ g \in Nat /\ s \in Slot /\ Has(g) /\ mt[s].generation = g
      /\ mt[s].refs \in Nat /\ generation \in Nat /\ generation_retired \in Int
      /\ generation_retired < generation
  BY <1>2, <1>3, <1>4, Types DEF Holding, Has, IInv, WindowInv
<1>6. mt[s].refs >= 1
  BY <1>4, HeldRefs
<1>7. mt[s].refs = 1 => mt[s].state = "incorporated" /\ g <= generation_retired
  BY <1>4, HeldRefs
<1> HIDE DEF s
<1>8. PICK l \in {"recycle", "close"} :
        Goto(r, l) /\ l \in PC /\ (l = "recycle" <=> mt[s].refs = 1)
  BY <1>1 DEF PC
<1>9. /\ pc' \in [Thread -> PC] /\ pc'[r] = l
      /\ \A u \in Thread \ {r} : pc'[u] = pc[u]
  BY <1>2, <1>8, GotoEffect
<1>10. gen' \in [Thread -> Nat] /\ gen'[r] = g /\ Others(r)
  BY <1>1, <1>2, <1>5, <1>9, Types DEF Others
<1>11. /\ held' \in [Reader -> [mts : SUBSET Generation, branches : SUBSET Generation]]
       /\ \A q \in Reader \ {r} : held'[q] = held[q]
       /\ held'[r].mts = held[r].mts \ {g} /\ held'[r].branches = held[r].branches
  <2> DEFINE M == held[r].mts \ {g}
             B == held[r].branches
  <2>1. M \in SUBSET Generation /\ B \in SUBSET Generation
    BY <1>3
  <2>2. held' = [held EXCEPT ![r] = [mts |-> M, branches |-> B]]
    BY <1>1, <1>2, HeldFields
  <2> HIDE DEF M, B
  <2>3. /\ held' \in [Reader -> [mts : SUBSET Generation, branches : SUBSET Generation]]
        /\ \A q \in Reader \ {r} : held'[q] = held[q]
        /\ held'[r].mts = M /\ held'[r].branches = B
    BY <1>2, <2>1, <2>2, HeldEffect
  <2> QED
    BY <2>3 DEF M, B
<1>12. /\ PlaceInv' /\ WindowInv' /\ TaskInv' /\ FlushInv' /\ OwnerInv' /\ TurnInv'
       /\ ValueInv' /\ RootInv'
       /\ SameTables /\ SameGenerations /\ mt' \in [Slot -> Record]
       /\ mt'[s].refs = mt[s].refs - 1 /\ \A x \in Slot \ {s} : mt'[x] = mt[x]
       /\ \A h \in Generation : (Live(h)' <=> Live(h)) /\ Tree(h)' = Tree(h) /\ Tree(h) \in Nat
  <2>1. Placed(r)'
    <3>1. l = "recycle" => g < generation
      BY <1>5, <1>7, <1>8
    <3> QED
      BY <1>1, <1>2, <1>9, <1>10, <3>1 DEF Placed, TaskPC
  <2>2. Off(r, FlushPC \cup BeforePC \cup {"pack", "start", "cleanup", "drain"})
    BY <1>1, <1>9 DEF Off, FlushPC, BeforePC
  <2>3. mt[s].refs - 1 \in Nat
    BY <1>5, <1>6
  <2> QED
    BY <1>1, <1>2, <1>5, <1>10, <2>1, <2>2, <2>3, CountStep
<1>13. TypeOK'
  BY <1>1, <1>2, <1>9, <1>10, <1>11, <1>12 DEF TypeOK, trunk
<1>14. RecycleInv'
  BY <1>1, <1>2, <1>5, <1>6, <1>7, <1>8, <1>9, <1>10, <1>12, DropRecycle DEF s
<1>15. Holding(r)'
  <2>1. \A h \in held[r].mts : mt'[Idx(h)].generation = h /\ h <= generation
    BY <1>2, <1>3, <1>12, Types DEF Holding, Has, SameTables
  <2> QED
    BY <1>1, <1>9, <1>11, <2>1 DEF Holding, Has
<1>16. RefsInv'
  BY <1>1, <1>4, <1>5, <1>10, <1>11, <1>12, <1>15, HoldStep DEF s
<1>17. QueryInv'
  <2>1. ASSUME NEW q \in Reader PROVE Queried(q)'
    <3>1. /\ walk'[q] = walk[q] /\ held'[q].branches = held[q].branches
          /\ floor'[q] = floor[q] /\ result'[q] = result[q]
          /\ q # r => held'[q] = held[q] /\ pc'[q] = pc[q]
      BY <1>1, <1>9, <1>11 DEF Thread
    <3>2. Queried(q) /\ held[q].mts \subseteq Generation /\ held[q].branches \subseteq Generation
      BY <1>2, ReaderTypes DEF IInv, QueryInv
    <3>3. \A h \in held'[q].branches : h < generation /\ ~Live(h)'
      BY <1>12, <3>1, <3>2 DEF Queried
    <3>4. CASE q = r
      BY <1>1, <1>9, <3>1, <3>3, <3>4 DEF Queried
    <3>5. CASE q # r
      BY <1>1, <1>12, <3>1, <3>2, <3>3, <3>5 DEF Queried
    <3> QED
      BY <3>4, <3>5
  <2> QED
    BY <2>1 DEF QueryInv
<1> QED
  BY <1>12, <1>13, <1>14, <1>16, <1>17 DEF IInv

-----------------------------------------------------------------------------
\* Every step preserves the invariant.
LEMMA NextStep == IInv /\ [Next]_vars => IInv'
<1> SUFFICES ASSUME IInv, [Next]_vars
             PROVE  IInv'
  OBVIOUS
<1>1. ASSUME NEW t \in Thread, Progress(t)
      PROVE  IInv'
  BY <1>1, InsertStep, InsertFailsStep, FullStep, RotateStep, EnqueueStep, TakeTaskStep,
     NoTaskStep, CompactStep, PackStep, TryStartStep, PrepareStep, BlockStep, CommitStep,
     CleanupStep, DecRefStep, RecycleStep, ReadyStep, ContinueStep, Zenon
  DEF Progress
<1>2. ASSUME NEW r \in Reader, Query(r)
      PROVE  IInv'
  BY <1>2, LookMemtableStep, LookTrunkStep, EndLookupStep, ScanMemtableStep, ScanTrunkStep,
     CloseStep, CloseMemtableStep, CloseEndStep, Zenon
  DEF Query
<1>3. ASSUME Begin
      PROVE  IInv'
  <2>1. ASSUME NEW r \in Reader, BeginLookup(r) \/ BeginScan(r)
        PROVE  IInv'
    <3>1. CASE BeginLookup(r)
      BY <3>1, BeginWalkStep DEF BeginLookup
    <3>2. CASE BeginScan(r)
      BY <3>2, BeginWalkStep DEF BeginScan
    <3> QED
      BY <2>1, <3>1, <3>2
  <2> QED
    BY <1>3, <2>1, BeginInsertStep, ShutdownStep, Zenon DEF Begin
<1>4. CASE UNCHANGED vars
  BY <1>4, StutterIInv
<1> QED
  BY <1>1, <1>2, <1>3, <1>4, QuiescentStep, Zenon DEF Next

\* The invariant of the memtables, their tasks, references and readers holds
\* in every reachable state, for any number of threads and of memtables.
THEOREM Invariance == Spec => []IInv
<1>1. Init => IInv
  BY InitIInv
<1>2. IInv /\ [Next]_vars => IInv'
  BY NextStep
<1> QED
  BY <1>1, <1>2, PTL DEF Spec

-----------------------------------------------------------------------------
\* What the steps of an insert, of a rotation and of a task assert: the
\* memtable of a generation in use has it, and each change of state starts
\* from the state expected.
LEMMA ProgressAsserts ==
    ASSUME IInv, NEW t \in Thread, Progress(t)
    PROVE  err' \subseteq err \cup DebugOnly
<1> USE DEF Unless
<1>1. /\ generation \in Nat /\ generation_retired \in Int
      /\ max_memtables \in Nat /\ Idx(gen[t]) \in Slot /\ gen[t] \in Nat
  BY Types DEF IInv
<1>2. CASE Insert(t)
  <2>1. pc[t] = "insert" /\ gen[t] = generation /\ mt[Idx(generation)].generation = generation
    BY <1>2 DEF Insert, IInv, PlaceInv, Placed, WindowInv, Has
  <2> QED
    BY <1>2, <2>1 DEF Insert
<1>3. CASE Rotate(t)
  <2>1. /\ t \in Writer /\ pc[t] = "drain" /\ phase = "up" /\ gen[t] = generation
        /\ mt[Idx(generation + 1)].state = "ready"
    BY <1>3 DEF IInv, PlaceInv, Placed, Rotate
  <2>2. Has(generation) /\ mt[Idx(generation)].state = "ready"
    BY <2>1 DEF IInv, WindowInv
  <2>3. mt[Idx(generation + 1)].generation = generation + 1
    BY <2>1, <2>2, NextReady
  <2>4. Idx(generation + 1) \in Slot
    BY <1>1, IdxType
  <2>5. generation + 1 <= generation_retired + max_memtables
    BY <2>3, <2>4 DEF IInv, WindowInv
  <2>6. generation + 1 - generation_retired <= max_memtables
    BY <1>1, <2>5
  <2>7. generation' - generation_retired <= max_memtables
    <3>1. generation' = generation + 1
      BY <1>3, Zenon DEF Rotate, Finalize
    <3> QED
      BY <1>1, <2>6, <3>1
  <2>8. err' = err \cup Unless(mt[Idx(gen[t])].state = "ready", "finalize")
                   \cup Unless(gen[t] = generation, "rotate_generation")
                   \cup Unless(generation' - generation_retired <= max_memtables, "rotate_bound")
    BY <1>3, Zenon DEF Rotate, Finalize
  <2> QED
    BY <2>1, <2>2, <2>7, <2>8
<1>4. CASE Enqueue(t)
  BY <1>4 DEF Enqueue, IInv, FlushInv, FlushPC, Has
<1>5. CASE Compact(t)
  BY <1>5 DEF Compact, IInv, FlushInv, FlushPC, Has
<1>6. CASE Pack(t)
  <2>1. mt[Idx(gen[t])].state = "compacting"
    BY <1>6 DEF Pack, IInv, FlushInv
  <2>2. mt[Idx(gen[t])].any
    BY <1>1, <2>1 DEF IInv, ValueInv
  <2> QED
    BY <1>6, <2>1, <2>2 DEF Pack
<1>7. CASE TryStart(t)
  BY <1>7 DEF TryStart, AssignErrors, DebugOnly
<1>8. CASE Prepare(t)
  <2>1. t \in Thread \ Reader /\ pc[t] = "prepare"
    BY <1>8 DEF Prepare, IInv, PlaceInv, Placed
  <2>2. mt[Idx(gen[t])].generation = gen[t] /\ mt[Idx(gen[t])].state = "assigned"
    BY <2>1 DEF IInv, TurnInv, BeforePC, Has
  <2>3. \A u \in Thread : pc[u] \notin {"block", "commit"}
    BY <1>8 DEF Prepare, Modifying, At
  <2>4. post_root = {}
    BY <2>3 DEF IInv, RootInv
  <2> QED
    BY <1>8, <2>2, <2>4 DEF Prepare
<1>9. CASE Commit(t)
  <2>1. t \in Thread \ Reader /\ pc[t] = "commit"
    BY <1>9 DEF Commit, IInv, PlaceInv, Placed
  <2>2. /\ mt[Idx(gen[t])].generation = gen[t] /\ mt[Idx(gen[t])].state = "assigned"
        /\ gen[t] = generation_retired + 1 /\ gen[t] = generation_to_incorporate
    BY <2>1 DEF IInv, TurnInv, BeforePC, Has
  <2>3. \A u \in Thread : pc[u] = "cleanup" => u \in Thread \ Reader
    BY DEF IInv, PlaceInv, Placed
  <2>4. \A u \in Thread : pc[u] # "cleanup"
    BY <2>1, <2>3 DEF IInv, TurnInv, BeforePC, AfterPC
  <2>5. pre_root = {}
    BY <2>4 DEF IInv, RootInv
  <2> QED
    BY <1>9, <2>2, <2>5 DEF Commit
<1>10. CASE DecRef(t)
  <2>1. t \in Thread \ Reader /\ pc[t] = "decref"
    BY <1>10 DEF DecRef, IInv, PlaceInv, Placed
  <2>2. mt[Idx(gen[t])].state = "incorporated"
    BY <2>1 DEF IInv, TurnInv
  <2> QED
    BY <1>10, <2>1, <2>2 DEF DecRef, DropRef
<1>11. CASE Ready(t)
  BY <1>11 DEF Ready, IInv, RecycleInv
<1>12. CASE Continue(t)
  <2>1. t \in Thread \ Reader /\ pc[t] = "continue"
    BY <1>12 DEF Continue, IInv, PlaceInv, Placed
  <2>2. gen[t] = generation_to_incorporate
    BY <2>1 DEF IInv, TurnInv, AfterPC
  <2> QED
    BY <1>12, <2>2 DEF Continue, AssignErrors, DebugOnly
<1>13. CASE \/ InsertFails(t) \/ Full(t) \/ TakeTask(t) \/ NoTask(t) \/ Block(t)
            \/ Cleanup(t) \/ Recycle(t)
  BY <1>13 DEF InsertFails, Full, TakeTask, NoTask, Block, Cleanup, Recycle
<1> QED
  BY <1>2, <1>3, <1>4, <1>5, <1>6, <1>7, <1>8, <1>9, <1>10, <1>11, <1>12, <1>13
  DEF Progress

\* What lookups and iterators assert: the memtables of the walk are there and
\* not incorporated, and a last reference is that of an incorporated memtable.
LEMMA QueryAsserts ==
    ASSUME IInv, NEW r \in Reader, Query(r)
    PROVE  err' \subseteq err
<1> USE DEF Unless
<1>1. CASE LookMemtable(r) \/ ScanMemtable(r)
  <2>1. pc[r] \in {"look", "scan"} /\ walk[r].cur # walk[r].end /\ err' = err \cup WalkErrors(r)
    BY <1>1 DEF LookMemtable, ScanMemtable
  <2>2. /\ mt[Idx(walk[r].cur)].generation = walk[r].cur
        /\ mt[Idx(walk[r].cur)].state # "incorporated"
    BY <2>1, WalkTree DEF Has
  <2> QED
    BY <2>1, <2>2 DEF WalkErrors
<1>2. CASE CloseMemtable(r)
  <2> DEFINE g == Max(held[r].mts)
  <2>1. held[r].mts # {} /\ DropRef(r, g)
    BY <1>2 DEF CloseMemtable
  <2>2. held[r].mts \in SUBSET Generation
    BY ReaderTypes DEF IInv
  <2>3. g \in held[r].mts
    BY <2>1, <2>2, MaxExists
  <2> HIDE DEF g
  <2>4. /\ mt[Idx(g)].generation = g /\ mt[Idx(g)].refs >= 1 /\ Idx(g) \in Slot
        /\ mt[Idx(g)].refs = 1 => mt[Idx(g)].state = "incorporated"
    BY <2>3, HeldRefs DEF Has
  <2>5. mt[Idx(g)].refs \in Nat
    BY <2>4, Types DEF IInv
  <2>6. mt[Idx(g)].refs > 1 \/ mt[Idx(g)].state = "incorporated"
    BY <2>4, <2>5
  <2> QED
    BY <2>1, <2>4, <2>6 DEF DropRef
<1>3. CASE LookTrunk(r) \/ EndLookup(r) \/ ScanTrunk(r) \/ Close(r) \/ CloseEnd(r)
  BY <1>3 DEF LookTrunk, EndLookup, ScanTrunk, Close, CloseEnd
<1> QED
  BY <1>1, <1>2, <1>3 DEF Query

\* What the beginning of a call asserts: only memtable_force_finalize can fail
\* its bound.
LEMMA BeginAsserts ==
    ASSUME IInv, Begin
    PROVE  err' \subseteq err \cup {"finalize_bound"}
<1> USE DEF Unless
<1>1. ASSUME phase = "up"
      PROVE  /\ mt[Idx(generation)].state = "ready"
             /\ generation - generation_retired <= max_memtables
  <2>1. /\ generation \in Nat /\ generation_retired \in Int
        /\ max_memtables \in Nat /\ Idx(generation) \in Slot
    BY Types, IdxType DEF IInv
  <2>2. mt[Idx(generation)].generation = generation /\ mt[Idx(generation)].state = "ready"
    BY <1>1 DEF IInv, WindowInv, Has
  <2>3. generation <= generation_retired + max_memtables
    BY <2>1, <2>2 DEF IInv, WindowInv
  <2> QED
    BY <2>1, <2>2, <2>3
<1>2. ASSUME NEW w \in Writer, BeginInsert(w) \/ Shutdown(w)
      PROVE  err' \subseteq err \cup {"finalize_bound"}
  BY <1>1, <1>2 DEF BeginInsert, Shutdown, Finalize
<1>3. ASSUME NEW r \in Reader, BeginLookup(r) \/ BeginScan(r)
      PROVE  err' \subseteq err
  BY <1>1, <1>3 DEF BeginLookup, BeginScan, BeginWalk
<1> QED
  BY <1>2, <1>3 DEF Begin

\* No platform_assert of memtable.c and of the memtable functions of core.c
\* fails, whatever the interleaving of inserts, rotations, tasks, lookups and
\* iterators; left out is only the bound asserted by memtable_force_finalize.
THEOREM AssertionsNeverFail == Spec => []AssertionsHold
<1>1. Init => AssertionsHold
  BY DEF Init, AssertionsHold
<1>2. ASSUME IInv, AssertionsHold, [Next]_vars
      PROVE  AssertionsHold'
  <2>1. CASE UNCHANGED vars \/ Quiescent
    BY <1>2, <2>1 DEF vars, Quiescent, AssertionsHold
  <2>2. ASSUME NEW t \in Thread, Progress(t)
        PROVE  AssertionsHold'
    BY <1>2, <2>2, ProgressAsserts DEF AssertionsHold
  <2>3. ASSUME NEW r \in Reader, Query(r)
        PROVE  AssertionsHold'
    BY <1>2, <2>3, QueryAsserts DEF AssertionsHold
  <2>4. CASE Begin
    BY <1>2, <2>4, BeginAsserts DEF AssertionsHold
  <2> QED
    BY <1>2, <2>1, <2>2, <2>3, <2>4, Zenon DEF Next
<1> QED
  BY <1>1, <1>2, Invariance, PTL DEF Spec

\* A lookup answers with the value the key had when it began, or a later one,
\* while memtables are rotated, compacted, incorporated and recycled.
THEOREM LookupsFresh == Spec => []LookupFresh
<1>1. IInv => LookupFresh
  BY DEF IInv, QueryInv, Queried, LookupFresh
<1> QED
  BY <1>1, Invariance, PTL

-----------------------------------------------------------------------------
\* What an open iterator reads in a memtable or a branch is the value of that
\* generation: the memtable has not been recycled, and a compacted one still
\* holds what its branch holds.
LEMMA IteratorTree ==
    ASSUME IInv, NEW r \in Reader, pc[r] = "open",
           NEW g \in held[r].mts \cup held[r].branches
    PROVE  /\ g \in Generation /\ g <= generation
           /\ Tree(g) = IF g \in held[r].mts THEN InMemtable(g) ELSE branch[g]
<1>1. /\ TypeOK /\ generation \in Nat
      /\ held[r].mts \subseteq Generation /\ held[r].branches \subseteq Generation
      /\ \A h \in Generation : h \in Nat /\ Idx(h) \in Slot
  BY ReaderTypes, Types DEF IInv
<1>2. r \in Thread /\ phase = "up"
  BY DEF IInv, PlaceInv, Placed, Thread
<1>3. CASE g \in held[r].mts
  <2>1. Has(g) /\ g <= generation /\ g \in Generation /\ Idx(g) \in Slot
    BY <1>1, <1>3 DEF IInv, RefsInv, Holding
  <2>2. mt[Idx(g)].state \in State
    BY <1>1, <2>1, Types
  <2>3. CASE mt[Idx(g)].state \in {"ready", "finalized", "compacting"}
    BY <1>3, <2>1, <2>3 DEF Tree, Live, InMemtable
  <2>4. CASE mt[Idx(g)].state \in {"compacted", "assigned", "incorporated"}
    <3>1. mt[Idx(generation)].state = "ready"
      BY <1>2 DEF IInv, WindowInv
    <3>2. g # generation
      BY <2>4, <3>1
    <3>3. g < generation /\ mt[Idx(g)].generation = g
      BY <1>1, <2>1, <3>2 DEF Has
    <3>4. branch[g] = mt[Idx(g)].value
      BY <2>1, <2>4, <3>3 DEF IInv, ValueInv
    <3>5. ~Live(g)
      BY <2>4 DEF Live
    <3> QED
      BY <1>3, <2>1, <3>4, <3>5 DEF Tree, InMemtable
  <2> QED
    BY <2>2, <2>3, <2>4 DEF State
<1>4. CASE g \notin held[r].mts
  <2>1. g \in held[r].branches /\ g \in Generation
    BY <1>1, <1>4
  <2>2. g < generation /\ ~Live(g)
    BY <2>1 DEF IInv, QueryInv, Queried
  <2> QED
    BY <1>1, <1>4, <2>1, <2>2 DEF Tree
<1> QED
  BY <1>3, <1>4

\* The newest value among the generations of a set is at least that of each.
LEMMA NewestAtLeast ==
    ASSUME IInv, NEW G \in SUBSET Generation, \A g \in G : g <= generation,
           NEW f \in Nat, f = 0 \/ \E g \in G : Tree(g) >= f
    PROVE  Newest(G, Tree) >= f
<1> DEFINE known == {g \in G : Tree(g) # 0}
<1>1. Newest(G, Tree) = IF known = {} THEN 0 ELSE Tree(Max(known))
  BY DEF Newest
<1>2. \A g \in Generation : Tree(g) \in Nat /\ g \in Nat
  BY TreeType, Types DEF IInv, TypeOK, Tree
<1>3. known \in SUBSET Generation /\ \A g \in known : g \in G /\ Tree(g) # 0
  OBVIOUS
<1>4. \A g \in G : Tree(g) # 0 => g \in known
  OBVIOUS
<1> HIDE DEF known
<1>5. CASE f = 0
  <2>1. known # {} => Max(known) \in Generation
    BY <1>3, MaxExists
  <2>2. Newest(G, Tree) \in Nat
    BY <1>1, <1>2, <2>1
  <2> QED
    BY <1>5, <2>2
<1>6. CASE f # 0
  <2>1. PICK g \in G : Tree(g) >= f
    BY <1>6
  <2>2. g \in known /\ g \in Generation /\ Tree(g) # 0
    BY <1>2, <1>4, <1>6, <2>1
  <2> DEFINE m == Max(known)
  <2>3. m \in known /\ g <= m
    BY <1>3, <2>2, MaxExists
  <2>4. Newest(G, Tree) = Tree(m)
    BY <1>1, <2>2
  <2> HIDE DEF m
  <2>5. m \in Generation /\ m <= generation /\ Tree(m) # 0
    BY <1>3, <2>3
  <2>6. CASE g = m
    BY <2>1, <2>4, <2>6
  <2>7. CASE g # m
    <3>1. g < m
      BY <1>2, <2>2, <2>3, <2>5, <2>7
    <3>2. Tree(g) <= Tree(m)
      BY <2>2, <2>5, <3>1 DEF IInv, ValueInv
    <3> QED
      BY <1>2, <2>1, <2>2, <2>4, <2>5, <3>2
  <2> QED
    BY <2>6, <2>7
<1> QED
  BY <1>5, <1>6

\* A branch that a lookup is sent to is referred to: by its packer until the
\* new root is prepared, by the new root after that.
LEMMA BranchKept ==
    ASSUME IInv, NEW s \in Slot, UseBranch(s)
    PROVE  compacted[s] \in packed \cup root \cup post_root
<1>1. compacted[s] = mt[s].generation
  BY DEF IInv, ValueInv, UseBranch
<1>2. CASE mt[s].generation \in packed
  BY <1>1, <1>2
<1>3. CASE mt[s].generation \notin packed
  <2>1. PICK t \in Thread : pc[t] \in {"block", "commit"} /\ gen[t] = mt[s].generation
    BY <1>3 DEF IInv, RootInv
  <2>2. t \in Thread \ Reader
    BY <2>1 DEF IInv, PlaceInv, Placed
  <2>3. gen[t] = generation_retired + 1
    BY <2>1, <2>2 DEF IInv, TurnInv, BeforePC
  <2>4. gen[t] < generation
    BY <2>1 DEF IInv, PlaceInv, Placed, TaskPC
  <2>5. generation \in Nat /\ gen[t] \in Nat /\ TypeOK
    BY Types DEF IInv
  <2>6. gen[t] \in Generation
    BY <2>4, <2>5, Below
  <2>7. post_root = {g \in Generation : g <= generation_retired + 1}
    BY <2>1 DEF IInv, RootInv
  <2>8. gen[t] <= generation_retired + 1
    BY <2>3, <2>5
  <2>9. gen[t] \in post_root
    BY <2>6, <2>7, <2>8
  <2> QED
    BY <1>1, <2>1, <2>9
<1> QED
  BY <1>2, <1>3

\* An open iterator's memtables are not recycled and its memtables and branches
\* hold the value the key had when it was opened, or a later one; a branch that
\* lookups are sent to is never freed under them.
THEOREM SnapshotsIntact == Spec => []SnapshotIntact
<1>1. IInv => SnapshotIntact
  <2> SUFFICES ASSUME IInv
               PROVE  SnapshotIntact
    OBVIOUS
  <2>1. ASSUME NEW r \in Reader, pc[r] = "open"
        PROVE  \A g \in held[r].mts : mt[Idx(g)].generation = g
    BY <2>1, HeldRefs DEF Has
  <2>2. ASSUME NEW r \in Reader, pc[r] = "open"
        PROVE  LET T(g) == IF g \in held[r].mts THEN InMemtable(g) ELSE branch[g]
               IN  Newest(held[r].mts \cup held[r].branches, T) >= floor[r]
    <3> DEFINE T(g) == IF g \in held[r].mts THEN InMemtable(g) ELSE branch[g]
               G == held[r].mts \cup held[r].branches
    <3>1. \A g \in G : g \in Generation /\ g <= generation /\ Tree(g) = T(g)
      BY <2>2, IteratorTree
    <3>2. floor[r] \in Nat /\ (floor[r] = 0 \/ \E g \in G : Tree(g) >= floor[r])
      BY <2>2, ReaderTypes DEF IInv, QueryInv, Queried
    <3>3. Newest(G, Tree) >= floor[r]
      BY <3>1, <3>2, NewestAtLeast
    <3>4. {g \in G : T(g) # 0} = {g \in G : Tree(g) # 0}
      BY <3>1
    <3>5. {g \in G : Tree(g) # 0} # {} => Max({g \in G : Tree(g) # 0}) \in G
      <4>1. {g \in G : Tree(g) # 0} \in SUBSET Generation
        BY <3>1
      <4> QED
        BY <4>1, MaxExists
    <3>6. Newest(G, T) = Newest(G, Tree)
      BY <3>1, <3>4, <3>5 DEF Newest
    <3> QED
      BY <3>3, <3>6
  <2>3. \A s \in Slot : UseBranch(s) => compacted[s] \in packed \cup root \cup post_root
    BY BranchKept
  <2> QED
    BY <2>1, <2>2, <2>3 DEF SnapshotIntact
<1> QED
  BY <1>1, Invariance, PTL

-----------------------------------------------------------------------------
\* When task_perform_until_quiescent finds no task waiting or executing, no
\* thread is on the way of a memtable into the trunk.
LEMMA QuiescentIdle ==
    ASSUME IInv, Quiescent
    PROVE  /\ phase # "up" /\ tasks = <<>>
           /\ \A t \in Thread : pc[t] \notin TaskPC
           /\ \A r \in Reader : held[r] = NoHeld
<1>1. phase # "up" /\ tasks = <<>> /\ Executing = {} /\ At({"enqueue"}) = {}
  BY MemtableAssumption DEF Quiescent
<1>2. \A r \in Reader : r \in Thread /\ pc[r] = "idle"
  BY <1>1 DEF IInv, PlaceInv, Placed, Thread
<1>3. ASSUME NEW t \in Thread
      PROVE  pc[t] \notin TaskPC
  <2>1. CASE t \in Reader
    BY <1>2, <2>1 DEF TaskPC
  <2>2. CASE t \notin Reader
    BY <1>1, <2>2 DEF Executing, At, TaskPC
  <2> QED
    BY <2>1, <2>2
<1>4. \A r \in Reader : held[r] = NoHeld
  BY <1>2 DEF IInv, RefsInv, Holding
<1> QED
  BY <1>1, <1>3, <1>4

\* Then every generation that was finalized has been retired: one that was not
\* would be in the queue, or some thread would be at it.
LEMMA QuiescentRetired ==
    ASSUME IInv, Quiescent
    PROVE  generation_retired = generation - 1
<1>1. /\ TypeOK /\ generation \in Nat /\ generation_retired \in Int /\ generation_retired >= -1
      /\ generation_to_incorporate \in Nat /\ generation_retired < generation
  BY Types DEF IInv, WindowInv
<1>2. /\ phase # "up" /\ tasks = <<>>
      /\ \A t \in Thread : pc[t] \notin TaskPC
  BY QuiescentIdle
<1>3. SUFFICES ASSUME generation_retired # generation - 1
               PROVE  FALSE
  OBVIOUS
<1> DEFINE g == generation_retired + 1
           s == Idx(g)
<1>4. g \in Nat /\ generation_retired < g /\ g < generation /\ g <= generation
  BY <1>1, <1>3
<1>5. g \in Generation /\ s \in Slot
  BY <1>1, <1>4, Below, IdxType
<1>6. g = generation_to_incorporate
  <2>1. \A t \in Thread : pc[t] \notin AfterPC
    BY <1>2 DEF TaskPC, AfterPC
  <2> QED
    BY <1>3, <2>1 DEF IInv, TurnInv
<1> HIDE DEF g
<1>7. mt[s].generation = g /\ mt[s].state \in Pipeline
  BY <1>4, <1>5 DEF IInv, WindowInv, Has
<1> HIDE DEF s
<1>8. \A k \in 1 .. Len(tasks) : FALSE
  BY <1>2
<1>9. \A t \in Thread : pc[t] \notin FlushPC \cup BeforePC \cup {"pack", "start"}
  BY <1>2 DEF TaskPC, FlushPC, BeforePC
<1>10. mt[s].state # "finalized"
  BY <1>5, <1>8, <1>9 DEF IInv, OwnerInv
<1>11. mt[s].state \notin {"compacting", "assigned"}
  BY <1>5, <1>9 DEF IInv, OwnerInv
<1>12. mt[s].state # "compacted"
  BY <1>5, <1>6, <1>7, <1>9 DEF IInv, OwnerInv
<1> QED
  BY <1>7, <1>10, <1>11, <1>12 DEF Pipeline

\* Then the trunk has the key's latest value.
LEMMA QuiescentValue ==
    ASSUME IInv, Quiescent
    PROVE  Newest(root, InBranch) = value
<1> DEFINE known == {g \in root : branch[g] # 0}
           v == Newest(root, InBranch)
<1>1. v = IF known = {} THEN 0 ELSE branch[Max(known)]
  BY DEF Newest, InBranch
<1>2. /\ root \subseteq Generation
      /\ \A g \in Generation : g <= generation_retired => g \in root
      /\ \A g \in root : Tree(g) = branch[g]
  BY RetiredTree
<1>3. /\ TypeOK /\ generation \in Nat /\ generation \in Generation /\ Generation \subseteq Nat
      /\ generation_retired = generation - 1 /\ value \in Nat /\ phase # "up"
      /\ Idx(generation) \in Slot
  <2>1. TypeOK
    BY DEF IInv
  <2>2. value \in Nat
    BY <2>1, MemtableAssumption DEF TypeOK, Value
  <2> QED
    BY <2>1, <2>2, Types, IdxType, QuiescentRetired, QuiescentIdle
<1>4. v \in Nat /\ \A g \in root : Tree(g) # 0 => Tree(g) <= v
  BY RootNewest
<1>5. v <= value
  <2>1. known \in SUBSET Generation /\ known \subseteq root
    BY <1>2
  <2>2. CASE known = {}
    BY <1>1, <1>3, <2>2
  <2>3. CASE known # {}
    <3>1. Max(known) \in root
      BY <2>1, <2>3, MaxExists
    <3>2. v = Tree(Max(known)) /\ Max(known) \in Generation
      BY <1>1, <1>2, <2>3, <3>1
    <3> QED
      BY <3>2 DEF IInv, ValueInv
  <2> QED
    BY <2>2, <2>3
<1> HIDE DEF v
<1>6. value <= v
  <2>1. CASE value = 0
    BY <1>4, <2>1
  <2>2. CASE value # 0
    <3>1. PICK g \in Generation : g <= generation /\ Tree(g) = value
      BY <2>2 DEF IInv, ValueInv
    <3>2. Tree(generation) = 0
      <4>1. branch[generation] = 0
        BY <1>3 DEF IInv, ValueInv
      <4>2. Live(generation) => mt[Idx(generation)].value = 0
        BY <1>3 DEF IInv, ValueInv, Live, Has
      <4> QED
        BY <4>1, <4>2 DEF Tree
    <3>3. g <= generation_retired
      BY <1>3, <2>2, <3>1, <3>2
    <3> QED
      BY <1>2, <1>4, <2>2, <3>1, <3>3
  <2> QED
    BY <2>1, <2>2
<1>7. v = value
  BY <1>3, <1>4, <1>5, <1>6
<1> QED
  BY <1>7 DEF v

\* Then every memtable has its own reference and no other.
LEMMA QuiescentRefs ==
    ASSUME IInv, Quiescent, NEW s \in Slot
    PROVE  mt[s].refs = 1
<1>1. Holders(s) = {}
  BY QuiescentIdle DEF Holders, NoHeld
<1>2. Cardinality(Holders(s)) = 0
  BY <1>1, FS_EmptySet
<1>3. mt[s].refs = 0 + IF Dropped(s) THEN 0 ELSE 1
  BY <1>2 DEF IInv, RefsInv
<1>4. mt[s].refs # 0
  <2>1. \A t \in Thread : pc[t] # "recycle"
    BY QuiescentIdle DEF TaskPC
  <2> QED
    BY <2>1 DEF IInv, RecycleInv
<1> QED
  BY <1>3, <1>4

\* Only task_perform_until_quiescent ends the shutdown.
LEMMA DownOnce ==
    ASSUME Next, phase # "down", ~Quiescent
    PROVE  phase' # "down"
<1>1. ASSUME NEW t \in Thread, Progress(t)
      PROVE  phase' = phase
  BY <1>1 DEF Progress, Insert, InsertFails, Full, Rotate, Enqueue, TakeTask, NoTask, Compact,
              Pack, TryStart, Prepare, Block, Commit, Cleanup, DecRef, Recycle, Ready, Continue
<1>2. ASSUME NEW r \in Reader, Query(r)
      PROVE  phase' = phase
  BY <1>2 DEF Query, LookMemtable, LookTrunk, EndLookup, ScanMemtable, ScanTrunk, Close,
              CloseMemtable, CloseEnd
<1>3. CASE Begin
  <2>1. ASSUME NEW w \in Writer, BeginInsert(w) \/ Shutdown(w)
        PROVE  phase' \in {phase} \cup Writer
    BY <2>1 DEF BeginInsert, Shutdown
  <2>2. ASSUME NEW r \in Reader, BeginLookup(r) \/ BeginScan(r)
        PROVE  phase' = phase
    BY <2>2 DEF BeginLookup, BeginScan, BeginWalk
  <2> QED
    BY <1>3, <2>1, <2>2, MemtableAssumption DEF Begin
<1>4. CASE UNCHANGED vars
  BY <1>4 DEF vars
<1> QED
  BY <1>1, <1>2, <1>3, <1>4 DEF Next

\* A compacted memtable whose turn it is has a thread about to start on it, and
\* when the handle is closed every finalized memtable is incorporated, the
\* trunk has the latest value and nothing refers to a memtable.
THEOREM NothingStranded == Spec => []NotStranded
<1> DEFINE Left == phase = "down" =>
                     /\ generation_retired = generation - 1
                     /\ Newest(root, InBranch) = value
                     /\ \A s \in Slot : mt[s].refs = 1
<1>1. Init => Left
  BY DEF Init
<1>2. IInv /\ Left /\ [Next]_vars => Left'
  <2> SUFFICES ASSUME IInv, Left, [Next]_vars
               PROVE  Left'
    OBVIOUS
  <2>1. CASE UNCHANGED vars
    BY <2>1 DEF vars, ctxt, trunk, Newest, InBranch
  <2>2. CASE Next /\ Quiescent
    <3>1. /\ generation_retired = generation - 1
          /\ Newest(root, InBranch) = value
          /\ \A s \in Slot : mt[s].refs = 1
      BY <2>2, QuiescentRetired, QuiescentValue, QuiescentRefs
    <3>2. UNCHANGED <<generation, generation_retired, mt, root, branch, value>>
      BY <2>2 DEF Quiescent, ctxt, trunk
    <3> QED
      BY <3>1, <3>2 DEF Newest, InBranch
  <2>3. CASE Next /\ ~Quiescent /\ phase # "down"
    BY <2>3, DownOnce
  <2>4. CASE Next /\ ~Quiescent /\ phase = "down"
    BY <2>1, <2>4 DEF Next, Stopped
  <2> QED
    BY <2>1, <2>2, <2>3, <2>4
<1>3. IInv /\ Left => NotStranded
  BY DEF IInv, OwnerInv, NotStranded
<1> HIDE DEF Left
<1> QED
  BY <1>1, <1>2, <1>3, Invariance, PTL DEF Spec
=============================================================================
