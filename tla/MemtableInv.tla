---------------------------- MODULE MemtableInv ----------------------------
(***************************************************************************)
(* The inductive invariant of Memtable: which generation each memtable is  *)
(* of, which thread or task owns each step of its way into the trunk, how  *)
(* its references are counted, and where the key's values are.             *)
(***************************************************************************)
EXTENDS Memtable

\* Where a thread runs a task, or is about to queue one.
TaskPC == {"enqueue", "compact", "pack", "start", "prepare", "block", "commit",
           "cleanup", "decref", "recycle", "ready", "continue"}

\* The incorporation before and after the generation is retired.
BeforePC == {"prepare", "block", "commit"}
AfterPC  == {"cleanup", "decref", "recycle", "ready", "continue"}

\* The states of a memtable between its finalization and its incorporation.
Pipeline == {"finalized", "compacting", "compacted", "assigned"}

\* The memtable that has generation g, if there is one.
Has(g) == mt[Idx(g)].generation = g

\* What a thread's place implies for it.
Placed(t) ==
    /\ pc[t] \in {"insert", "full", "drain", "help"} =>
         t \in Writer /\ phase = "up"
    /\ pc[t] \in {"insert", "full", "drain"} => gen[t] = generation
    /\ pc[t] = "enqueue" => t \in Writer
    /\ pc[t] \in {"look", "found", "scan", "open", "close"} => t \in Reader
    /\ t \in Reader /\ pc[t] # "idle" => phase = "up"
    /\ t \in Reader =>
         pc[t] \in {"idle", "look", "found", "scan", "open", "close",
                    "recycle", "ready"}
    /\ pc[t] \in TaskPC => gen[t] < generation
    /\ pc[t] \in {"full", "drain"} => mt[Idx(generation)].full
    /\ pc[t] = "drain" => mt[Idx(generation + 1)].state = "ready"

PlaceInv ==
    /\ \A t \in Thread : Placed(t)
    /\ \A t, u \in Thread : pc[t] = "drain" /\ pc[u] = "drain" => t = u

\* The generations from the last retired one to the current one are in the
\* memtables, in the states of the pipeline; the others are being recycled or
\* are ready for a generation to come.
WindowInv ==
    /\ generation_retired < generation
    /\ phase = "up" => generation <= MaxGeneration
    /\ phase = "up" => Has(generation) /\ mt[Idx(generation)].state = "ready"
    /\ \A g \in Generation : generation_retired < g /\ g < generation =>
         Has(g) /\ mt[Idx(g)].state \in Pipeline
    /\ \A s \in Slot :
         /\ Idx(mt[s].generation) = s
         /\ mt[s].generation <= generation_retired + max_memtables
         /\ generation <= mt[s].generation + max_memtables
         /\ phase = "up" => generation < mt[s].generation + max_memtables
         /\ mt[s].state = "ready" => generation <= mt[s].generation
         /\ mt[s].state \in Pipeline =>
              generation_retired < mt[s].generation /\ mt[s].generation < generation
         /\ mt[s].state = "incorporated" =>
              mt[s].generation <= generation_retired \/ generation <= mt[s].generation
         /\ mt[s].full => mt[s].generation < MaxGeneration

\* Every task is about a finalized memtable, and no two about the same.
TaskInv ==
    /\ \A k \in 1 .. Len(tasks) :
         Has(tasks[k]) /\ mt[Idx(tasks[k])].state = "finalized"
    /\ \A j, k \in 1 .. Len(tasks) : tasks[j] = tasks[k] => j = k

\* Where a thread brings a finalized memtable to the task queue, or from it.
FlushPC == {"enqueue", "compact"}

\* A memtable is flushed by one thread, and only if no task is about it; a
\* memtable that is being compacted has one thread at it.
FlushInv ==
    /\ \A t \in Thread :
         /\ pc[t] \in FlushPC =>
              /\ Has(gen[t]) /\ mt[Idx(gen[t])].state = "finalized"
              /\ \A k \in 1 .. Len(tasks) : tasks[k] # gen[t]
         /\ pc[t] = "pack" => Has(gen[t]) /\ mt[Idx(gen[t])].state = "compacting"
    /\ \A t, u \in Thread :
         /\ pc[t] \in FlushPC /\ pc[u] \in FlushPC /\ gen[t] = gen[u] => t = u
         /\ pc[t] = "pack" /\ pc[u] = "pack" /\ gen[t] = gen[u] => t = u

\* No memtable is left alone on its way; a compacted one may be, until its
\* turn comes.
OwnerInv ==
    \A s \in Slot :
        /\ mt[s].state = "finalized" =>
             \/ \E k \in 1 .. Len(tasks) : tasks[k] = mt[s].generation
             \/ \E t \in Thread : pc[t] \in FlushPC /\ gen[t] = mt[s].generation
        /\ mt[s].state = "compacting" =>
             \E t \in Thread : pc[t] = "pack" /\ gen[t] = mt[s].generation
        /\ mt[s].state = "compacted" /\ mt[s].generation = generation_to_incorporate =>
             \E t \in Thread : pc[t] = "start" /\ gen[t] = mt[s].generation
        /\ mt[s].state = "assigned" =>
             \E t \in Thread : pc[t] \in BeforePC /\ gen[t] = mt[s].generation

\* One thread at a time incorporates, the generation after the last retired
\* one; generation_to_incorporate moves on when it is done.
TurnInv ==
    /\ \A t, u \in Thread \ Reader :
         pc[t] \in BeforePC \cup AfterPC /\ pc[u] \in BeforePC \cup AfterPC => t = u
    /\ \A t \in Thread \ Reader :
         /\ pc[t] \in BeforePC =>
              /\ gen[t] = generation_retired + 1
              /\ gen[t] = generation_to_incorporate
              /\ Has(gen[t]) /\ mt[Idx(gen[t])].state = "assigned"
         /\ pc[t] \in AfterPC =>
              /\ gen[t] = generation_retired
              /\ gen[t] = generation_to_incorporate
         /\ pc[t] \in {"cleanup", "decref"} =>
              Has(gen[t]) /\ mt[Idx(gen[t])].state = "incorporated"
    /\ \/ generation_to_incorporate = generation_retired + 1
       \/ /\ generation_to_incorporate = generation_retired
          /\ \/ \E t \in Thread \ Reader : pc[t] \in AfterPC
             \/ generation_retired = generation - 1 /\ phase # "up"

\* One thread recycles a memtable, after its last reference is gone.
RecycleInv ==
    /\ \A t \in Thread :
         /\ pc[t] = "recycle" =>
              /\ Has(gen[t]) /\ mt[Idx(gen[t])].state = "incorporated"
              /\ gen[t] <= generation_retired
              /\ mt[Idx(gen[t])].refs = 0
         /\ pc[t] = "ready" =>
              /\ mt[Idx(gen[t])].state = "incorporated"
              /\ generation <= mt[Idx(gen[t])].generation
    /\ \A t, u \in Thread :
         pc[t] \in {"recycle", "ready"} /\ pc[u] \in {"recycle", "ready"}
           /\ Idx(gen[t]) = Idx(gen[u]) => t = u
    /\ \A s \in Slot : mt[s].refs = 0 =>
         \E t \in Thread : pc[t] = "recycle" /\ gen[t] = mt[s].generation

\* The incorporation has given up the memtable's own reference.
Dropped(s) ==
    /\ mt[s].state = "incorporated"
    /\ mt[s].generation <= generation_retired
    /\ \A t \in Thread \ Reader : pc[t] \in {"cleanup", "decref"} => gen[t] # mt[s].generation

Holders(s) == {r \in Reader : mt[s].generation \in held[r].mts}

\* What a reader's place implies for the memtables it refers to.
Holding(r) ==
    /\ \A g \in held[r].mts : Has(g) /\ g <= generation
    /\ pc[r] \in {"idle", "look", "found"} => held[r] = NoHeld
    /\ pc[r] = "scan" => \A g \in held[r].mts : walk[r].cur < g

\* Every reference is the memtable's own or that of an iterator.
RefsInv ==
    /\ \A s \in Slot :
         mt[s].refs = Cardinality(Holders(s)) + IF Dropped(s) THEN 0 ELSE 1
    /\ \A r \in Reader : Holding(r)

\* The value of generation g: in its memtable until it is compacted.
Live(g) == Has(g) /\ mt[Idx(g)].state \in {"ready", "finalized", "compacting"}
Tree(g) == IF Live(g) THEN mt[Idx(g)].value ELSE branch[g]

\* A younger generation has later values, the latest one is somewhere, and a
\* memtable that has not been used yet knows nothing.
ValueInv ==
    /\ \A g, h \in Generation :
         g < h /\ h <= generation /\ Tree(g) # 0 /\ Tree(h) # 0 => Tree(g) <= Tree(h)
    /\ \A g \in Generation : Tree(g) <= value
    /\ value = 0 \/ \E g \in Generation : g <= generation /\ Tree(g) = value
    /\ \A g \in Generation : Live(g) => branch[g] = 0
    /\ \A g \in Generation : generation <= g => branch[g] = 0
    /\ \A s \in Slot :
         /\ generation < mt[s].generation \/ (generation = mt[s].generation /\ phase # "up") =>
              mt[s].value = 0 /\ ~mt[s].any /\ ~mt[s].full
         /\ mt[s].state \in {"compacted", "assigned"} => compacted[s] = mt[s].generation
         /\ mt[s].state \in {"compacted", "assigned", "incorporated"}
              /\ mt[s].generation < generation => branch[mt[s].generation] = mt[s].value
         /\ mt[s].state \in {"finalized", "compacting"} => mt[s].any
         /\ mt[s].full \/ mt[s].value # 0 => mt[s].any
    /\ phase = "up" => (is_empty <=> ~mt[Idx(generation)].any)

\* The trunk holds the retired generations; a root under construction holds
\* one more.  A compacted branch is kept by its packer until then.
RootInv ==
    /\ root = {g \in Generation : g <= generation_retired}
    /\ (\E t \in Thread : pc[t] \in {"block", "commit"}) =>
         post_root = {g \in Generation : g <= generation_retired + 1}
    /\ (\A t \in Thread : pc[t] \notin {"block", "commit"}) => post_root = {}
    /\ (\A t \in Thread : pc[t] # "cleanup") => pre_root = {}
    /\ \A s \in Slot : UseBranch(s) =>
         \/ mt[s].generation \in packed
         \/ \E t \in Thread : pc[t] \in {"block", "commit"} /\ gen[t] = mt[s].generation

\* What a walk has still to visit, or has taken, leads to the value the key
\* had when it began.
Queried(r) ==
    /\ pc[r] \in {"look", "scan"} =>
         /\ walk[r].end = generation_retired
         /\ walk[r].end <= walk[r].cur
         /\ walk[r].cur <= generation
    /\ \A g \in held[r].branches : g < generation /\ ~Live(g)
    /\ floor[r] = 0 \/
         /\ pc[r] = "look" =>
              \E g \in Generation : g <= walk[r].cur /\ Tree(g) >= floor[r]
         /\ pc[r] = "scan" =>
              \E g \in Generation :
                  /\ g <= walk[r].cur \/ g \in held[r].mts \cup held[r].branches
                  /\ Tree(g) >= floor[r]
         /\ pc[r] = "open" =>
              \E g \in held[r].mts \cup held[r].branches : Tree(g) >= floor[r]
    /\ pc[r] = "found" => result[r] >= floor[r]

QueryInv == \A r \in Reader : Queried(r)

IInv ==
    /\ TypeOK
    /\ PlaceInv
    /\ WindowInv
    /\ TaskInv
    /\ FlushInv
    /\ OwnerInv
    /\ TurnInv
    /\ RecycleInv
    /\ RefsInv
    /\ ValueInv
    /\ RootInv
    /\ QueryInv
=============================================================================
