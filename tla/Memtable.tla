------------------------------- MODULE Memtable -------------------------------
(***************************************************************************)
(* The memtables of the store and their incorporation into the trunk       *)
(* (memtable.c, memtable.h and the memtable, lookup and range functions of *)
(* core.c).                                                                *)
(*                                                                         *)
(* Inserts go to the memtable of the current generation.  A full memtable  *)
(* is finalized by a rotation, compacted into a branch by a task, and the  *)
(* branch is incorporated into the trunk, strictly in the order of the     *)
(* generations, although the tasks are queued and run in any order.  A     *)
(* memtable is reused for the generation max_memtables later once it is    *)
(* incorporated and no iterator refers to it any more.  Lookups walk from  *)
(* the current generation down to the last retired one and then go to the  *)
(* trunk.                                                                  *)
(*                                                                         *)
(* The insert lock, the lookup lock and the claim on the trunk's root are  *)
(* locks of module RWLock; a thread's place says which of them it holds.   *)
(* One key is followed: the n-th insert of it writes the value n, and 0    *)
(* stands for its absence.  The inserts of all other keys only fill the    *)
(* memtable.  A b-tree, memtable or branch, is what it says about the key. *)
(***************************************************************************)
EXTENDS Integers, Sequences, FiniteSets, FiniteSetsExt

CONSTANTS Writer,         \* threads that insert
          Reader,         \* threads that look up and scan
          Worker,         \* background threads of the memtable task group
          max_memtables,  \* CORE_NUM_MEMTABLES, which is 4
          MaxGeneration,  \* bound: the memtable of this generation never fills
          MaxValue        \* bound: inserts of the key that is followed

ASSUME MemtableAssumption ==
    /\ Writer \cap Reader = {} /\ Writer \cap Worker = {} /\ Reader \cap Worker = {}
    /\ {"up", "down"} \cap (Writer \cup Reader \cup Worker) = {}
    /\ IsFiniteSet(Reader)
    /\ max_memtables \in Nat \ {0, 1}
    /\ MaxGeneration \in Nat
    /\ MaxValue \in Nat

VARIABLES generation,                 \* ctxt->generation
          generation_to_incorporate,  \* ctxt->generation_to_incorporate
          generation_retired,         \* ctxt->generation_retired
          is_empty,                   \* ctxt->is_empty
          mt,                         \* ctxt->mt[]
          compacted,                  \* spl->compacted_memtable[].branch
          branch,                     \* contents of the branch packed from a generation
          packed,                     \* branches whose packer's reference is left
          root, post_root, pre_root,  \* branches of context->root, of
                                      \* post_ and pre_incorporation_root
          tasks,                      \* queue of the memtable task group
          pc, gen,                    \* each thread's place and generation
          walk,                       \* the rest of a lookup's or scan's walk
          held,                       \* what an iterator has taken references on
          floor, result,              \* the key's value before a lookup, and its answer
          value,                      \* the key's latest value
          phase,                      \* up, the thread that shuts down, or down
          err                         \* assertions that have failed

ctxt    == <<generation, generation_to_incorporate, generation_retired, is_empty>>
trunk   == <<packed, root, post_root, pre_root>>
queries == <<walk, held, floor, result>>
vars    == <<ctxt, mt, compacted, branch, trunk, tasks, pc, gen, queries,
             value, phase, err>>

-----------------------------------------------------------------------------
Thread     == Writer \cup Reader \cup Worker
Slot       == 0 .. max_memtables - 1
Generation == 0 .. MaxGeneration + 1
Value      == 0 .. MaxValue
NoBranch   == -1      \* the zeroed branch of a compacted memtable

State == {"ready", "finalized", "compacting", "compacted", "assigned",
          "incorporated"}

(***************************************************************************)
(*  insert     holds the insert lock, the memtable had room                *)
(*  full       holds the insert lock, the memtable was full                *)
(*  drain      holds the claim of the insert lock, waits for the others    *)
(*  enqueue    has rotated, is about to queue the task                     *)
(*  help       may run a task before it goes on                            *)
(*  compact .. continue   core_memtable_flush_internal                     *)
(*  look, found           core_lookup, which holds the lookup lock in look *)
(*  scan, open, close     core_range_iterator, idem in scan                *)
(***************************************************************************)
PC == {"idle", "insert", "full", "drain", "enqueue", "help",
       "compact", "pack", "start", "prepare", "block", "commit", "cleanup",
       "decref", "recycle", "ready", "continue",
       "look", "found", "scan", "open", "close"}

At(P) == {t \in Thread : pc[t] \in P}

\* Who holds which lock.
Inserting  == At({"insert", "full"})
Rotating   == At({"drain"})
LookingUp  == At({"look", "scan"})
Blocking   == At({"commit"})
Modifying  == At({"block", "commit", "cleanup"})
Executing  == At({"compact", "pack", "start", "prepare", "block", "commit",
                  "cleanup", "decref", "recycle", "ready", "continue"})
                  \ Reader

Idx(g) == g % max_memtables

NoHeld == [mts |-> {}, branches |-> {}]

\* A memtable: its generation and state, what its b-tree says about the key,
\* whether it has any tuple and is full, and its references.
Record == [state : State, generation : Nat, value : Value, any : BOOLEAN,
           full : BOOLEAN, refs : Nat]

TypeOK ==
    /\ generation \in Generation
    /\ generation_to_incorporate \in Generation
    /\ generation_retired \in Generation \cup {-1}
    /\ is_empty \in BOOLEAN
    /\ mt \in [Slot -> Record]
    /\ compacted \in [Slot -> Generation \cup {NoBranch}]
    /\ branch \in [Generation -> Value]
    /\ {packed, root, post_root, pre_root} \subseteq SUBSET Generation
    /\ tasks \in Seq(Generation)
    /\ pc \in [Thread -> PC]
    /\ gen \in [Thread -> Nat]
    /\ walk \in [Reader -> [cur : Generation \cup {-1}, end : Generation \cup {-1}]]
    /\ held \in [Reader -> [mts : SUBSET Generation, branches : SUBSET Generation]]
    /\ floor \in [Reader -> Value]
    /\ result \in [Reader -> Value]
    /\ value \in Value
    /\ phase \in {"up", "down"} \cup Writer

\* The value of the newest b-tree that knows the key, 0 if none does.
Newest(G, Tree(_)) ==
    LET known == {g \in G : Tree(g) # 0}
    IN  IF known = {} THEN 0 ELSE Tree(Max(known))

InBranch(g)   == branch[g]
InMemtable(g) == mt[Idx(g)].value

Goto(t, l) == pc' = [pc EXCEPT ![t] = l]

\* platform_assert stops the process, debug_assert only debug builds.
Unless(holds, name) == IF holds THEN {} ELSE {name}
DebugOnly == {"start_compacted"}
Running   == err \subseteq DebugOnly

Init ==
    /\ generation = 0
    /\ generation_to_incorporate = 0
    /\ generation_retired = -1
    /\ is_empty = TRUE
    /\ mt = [s \in Slot |-> [state |-> "ready", generation |-> s, value |-> 0,
                             any |-> FALSE, full |-> FALSE, refs |-> 1]]
    /\ compacted = [s \in Slot |-> NoBranch]
    /\ branch = [g \in Generation |-> 0]
    /\ packed = {} /\ root = {} /\ post_root = {} /\ pre_root = {}
    /\ tasks = <<>>
    /\ pc = [t \in Thread |-> "idle"]
    /\ gen = [t \in Thread |-> 0]
    /\ walk = [r \in Reader |-> [cur |-> -1, end |-> -1]]
    /\ held = [r \in Reader |-> NoHeld]
    /\ floor = [r \in Reader |-> 0]
    /\ result = [r \in Reader |-> 0]
    /\ value = 0
    /\ phase = "up"
    /\ err = {}

-----------------------------------------------------------------------------
\* core_memtable_insert and memtable_maybe_rotate_and_begin_insert

\* Takes the insert lock and looks at the current memtable; while that is not
\* ready it lets the lock go and starts over, which changes nothing.
BeginInsert(w) ==
    /\ pc[w] = "idle" /\ phase = "up"
    /\ Rotating = {}
    /\ LET m == mt[Idx(generation)] IN
         /\ m.state = "ready"
         /\ Goto(w, IF m.full THEN "full" ELSE "insert")
    /\ gen' = [gen EXCEPT ![w] = generation]
    /\ UNCHANGED <<ctxt, mt, compacted, branch, trunk, tasks, queries, value, phase, err>>

\* memtable_insert, then the insert lock is released.  Any insert may bring
\* the memtable to its last extent; core_insert may run a task afterwards.
Insert(w) ==
    /\ pc[w] = "insert"
    /\ \E k \in {0, 1} \cap 0 .. MaxValue - value,
          f \in IF gen[w] < MaxGeneration THEN BOOLEAN ELSE {FALSE} :
         LET m == mt[Idx(gen[w])] IN
         /\ value' = value + k
         /\ mt' = [mt EXCEPT ![Idx(gen[w])] =
                     [m EXCEPT !.value = IF k = 1 THEN value' ELSE @,
                               !.any   = TRUE,
                               !.full  = @ \/ f]]
         /\ is_empty' = (is_empty /\ k = 1 /\ m.value # 0)
         /\ err' = err \cup Unless(m.generation = gen[w], "get_memtable")
    /\ \E l \in {"idle", "help"} : Goto(w, l)
    /\ UNCHANGED <<generation, generation_to_incorporate, generation_retired,
                   compacted, branch, trunk, tasks, gen, queries, phase>>

\* btree_insert has failed: only the insert lock is released.
InsertFails(w) ==
    /\ pc[w] = "insert"
    /\ Goto(w, "idle")
    /\ UNCHANGED <<ctxt, mt, compacted, branch, trunk, tasks, gen, queries, value, phase, err>>

\* Faulty: rotates without a look at the next memtable.
FullBlind(w) ==
    /\ pc[w] = "full"
    /\ Goto(w, IF Rotating # {} THEN "idle" ELSE "drain")
    /\ UNCHANGED <<ctxt, mt, compacted, branch, trunk, tasks, gen, queries, value, phase, err>>

\* The memtable is full: busy if the next one is still in use, otherwise one
\* of the threads that see it claims the insert lock.
Full(w) ==
    /\ pc[w] = "full"
    /\ Goto(w, CASE mt[Idx(gen[w] + 1)].state # "ready" -> "help"
                 [] Rotating # {}                       -> "idle"
                 [] OTHER                               -> "drain")
    /\ UNCHANGED <<ctxt, mt, compacted, branch, trunk, tasks, gen, queries, value, phase, err>>

\* With the insert lock write-locked: finalize and go to the next generation.
Finalize(g, bound) ==
    /\ mt' = [mt EXCEPT ![Idx(g)].state = "finalized"]
    /\ generation' = generation + 1
    /\ is_empty' = TRUE
    /\ err' = err \cup Unless(mt[Idx(g)].state = "ready", "finalize")
                   \cup Unless(g = generation, "rotate_generation")
                   \cup Unless(generation' - generation_retired <= max_memtables, bound)
    /\ UNCHANGED <<generation_to_incorporate, generation_retired>>

Rotate(w) ==
    /\ pc[w] = "drain"
    /\ Inserting = {}
    /\ Finalize(gen[w], "rotate_bound")
    /\ Goto(w, "enqueue")
    /\ UNCHANGED <<compacted, branch, trunk, tasks, gen, queries, value, phase>>

\* core_memtable_flush: the insert lock is no longer held.
Enqueue(w) ==
    /\ pc[w] = "enqueue"
    /\ tasks' = Append(tasks, gen[w])
    /\ err' = err \cup Unless(mt[Idx(gen[w])].generation = gen[w], "get_memtable")
                   \cup Unless(mt[Idx(gen[w])].state # "ready", "get_compacted")
    /\ Goto(w, "idle")
    /\ UNCHANGED <<ctxt, mt, compacted, branch, trunk, gen, queries, value, phase>>

-----------------------------------------------------------------------------
\* core_memtable_flush_internal, run by a worker, by a thread whose insert has
\* to wait or follows many queued tasks, and by the thread that shuts down.

TakeTask(t) ==
    /\ \/ pc[t] = "help"
       \/ pc[t] = "idle" /\ t \in Worker
       \/ pc[t] = "idle" /\ phase = t
    /\ tasks # <<>>
    /\ gen' = [gen EXCEPT ![t] = Head(tasks)]
    /\ tasks' = Tail(tasks)
    /\ Goto(t, "compact")
    /\ UNCHANGED <<ctxt, mt, compacted, branch, trunk, queries, value, phase, err>>

NoTask(t) ==
    /\ pc[t] = "help"
    /\ tasks = <<>>
    /\ Goto(t, "idle")
    /\ UNCHANGED <<ctxt, mt, compacted, branch, trunk, tasks, gen, queries, value, phase, err>>

Compact(t) ==
    LET s == Idx(gen[t]) IN
    /\ pc[t] = "compact"
    /\ err' = err \cup Unless(mt[s].generation = gen[t], "get_memtable")
                   \cup Unless(mt[s].state = "finalized", "compact")
    /\ mt' = [mt EXCEPT ![s].state = "compacting"]
    /\ compacted' = [compacted EXCEPT ![s] = NoBranch]
    /\ Goto(t, "pack")
    /\ UNCHANGED <<ctxt, branch, trunk, tasks, gen, queries, value, phase>>

\* btree_pack, which asserts that the memtable was not empty.
Pack(t) ==
    LET s == Idx(gen[t]) IN
    /\ pc[t] = "pack"
    /\ branch' = [branch EXCEPT ![gen[t]] = mt[s].value]
    /\ packed' = packed \cup {gen[t]}
    /\ compacted' = [compacted EXCEPT ![s] = gen[t]]
    /\ mt' = [mt EXCEPT ![s].state = "compacted"]
    /\ err' = err \cup Unless(mt[s].any, "num_tuples")
                   \cup Unless(mt[s].state = "compacting", "pack")
    /\ Goto(t, "start")
    /\ UNCHANGED <<ctxt, root, post_root, pre_root, tasks, gen, queries, value, phase>>

\* memtable_try_transition from COMPACTED to INCORPORATION_ASSIGNED.
TryAssign(s) ==
    mt' = IF mt[s].state = "compacted"
            THEN [mt EXCEPT ![s].state = "assigned"] ELSE mt

AssignErrors(s) == Unless(mt[s].state # "assigned", "start_compacted")

\* core_try_start_incorporate, under the incorporation mutex
TryStart(t) ==
    LET s == Idx(gen[t])
        turn == mt[s].generation = gen[t] /\ gen[t] = generation_to_incorporate
    IN
    /\ pc[t] = "start"
    /\ IF turn THEN TryAssign(s) /\ err' = err \cup AssignErrors(s)
               ELSE UNCHANGED <<mt, err>>
    /\ Goto(t, IF turn /\ mt[s].state = "compacted" THEN "prepare" ELSE "idle")
    /\ UNCHANGED <<ctxt, compacted, branch, trunk, tasks, gen, queries, value, phase>>

\* trunk_incorporate_prepare, which claims the root, and the release of the
\* packer's reference to the branch
Prepare(t) ==
    LET s == Idx(gen[t]) IN
    /\ pc[t] = "prepare"
    /\ Modifying = {}
    /\ err' = err \cup Unless(mt[s].generation = gen[t], "get_memtable")
                   \cup Unless(mt[s].state # "ready", "get_compacted")
                   \cup Unless(post_root = {}, "post_root")
    /\ post_root' = root \cup {compacted[s]}
    /\ packed' = packed \ {compacted[s]}
    /\ Goto(t, "block")
    /\ UNCHANGED <<ctxt, mt, compacted, branch, root, pre_root, tasks, gen, queries, value, phase>>

\* memtable_block_lookups: claims the lookup lock and sets it
Block(t) ==
    /\ pc[t] = "block"
    /\ Blocking = {}
    /\ Goto(t, "commit")
    /\ UNCHANGED <<ctxt, mt, compacted, branch, trunk, tasks, gen, queries, value, phase, err>>

\* With the lookups drained: retire the generation and switch to the new root.
Commit(t) ==
    LET s == Idx(gen[t]) IN
    /\ pc[t] = "commit"
    /\ LookingUp = {}
    /\ err' = err \cup Unless(mt[s].generation = gen[t], "get_memtable")
                   \cup Unless(mt[s].state = "assigned", "incorporate")
                   \cup Unless(generation_to_incorporate = gen[t], "to_incorporate")
                   \cup Unless(generation_retired + 1 = gen[t], "retired")
                   \cup Unless(pre_root = {}, "pre_root")
    /\ mt' = [mt EXCEPT ![s].state = "incorporated"]
    /\ generation_retired' = generation_retired + 1
    /\ pre_root' = root
    /\ root' = post_root
    /\ post_root' = {}
    /\ Goto(t, "cleanup")
    /\ UNCHANGED <<generation, generation_to_incorporate, is_empty, compacted, branch,
                   packed, tasks, gen, queries, value, phase>>

\* trunk_incorporate_cleanup
Cleanup(t) ==
    /\ pc[t] = "cleanup"
    /\ pre_root' = {}
    /\ Goto(t, "decref")
    /\ UNCHANGED <<ctxt, mt, compacted, branch, packed, root, post_root, tasks, gen,
                   queries, value, phase, err>>
-----------------------------------------------------------------------------
\* memtable_dec_ref_maybe_recycle, called by the incorporation and by a closing
\* iterator: the last reference frees the tree and starts a new one.

Resume(t) == IF t \in Reader THEN "close" ELSE "continue"

DropRef(t, g) ==
    LET s == Idx(g) IN
    /\ mt' = [mt EXCEPT ![s].refs = @ - 1]
    /\ err' = err \cup Unless(mt[s].refs > 1 \/ mt[s].state = "incorporated", "recycle")
                   \cup Unless(t \notin Reader \/ mt[s].generation = g, "get_memtable")
    /\ Goto(t, IF mt[s].refs = 1 THEN "recycle" ELSE Resume(t))

DecRef(t) ==
    /\ pc[t] = "decref"
    /\ DropRef(t, gen[t])
    /\ UNCHANGED <<ctxt, compacted, branch, trunk, tasks, gen, queries, value, phase>>

\* btree_create and, under the incorporation mutex, the new generation
Recycle(t) ==
    /\ pc[t] = "recycle"
    /\ mt' = [mt EXCEPT ![Idx(gen[t])] =
                 [state |-> @.state, generation |-> @.generation + max_memtables,
                  value |-> 0, any |-> FALSE, full |-> FALSE, refs |-> 1]]
    /\ Goto(t, "ready")
    /\ UNCHANGED <<ctxt, compacted, branch, trunk, tasks, gen, queries, value, phase, err>>

Ready(t) ==
    LET s == Idx(gen[t]) IN
    /\ pc[t] = "ready"
    /\ mt' = [mt EXCEPT ![s].state = "ready"]
    /\ err' = err \cup Unless(mt[s].state = "incorporated", "ready")
    /\ Goto(t, Resume(t))
    /\ UNCHANGED <<ctxt, compacted, branch, trunk, tasks, gen, queries, value, phase>>

\* Faulty: passes the turn on without a look whether the next memtable is
\* compacted already.
ContinueBlind(t) ==
    /\ pc[t] = "continue"
    /\ gen' = [gen EXCEPT ![t] = @ + 1]
    /\ generation_to_incorporate' = generation_to_incorporate + 1
    /\ Goto(t, "idle")
    /\ UNCHANGED <<generation, generation_retired, is_empty, mt, compacted, branch, trunk,
                   tasks, queries, value, phase, err>>

\* Faulty: passes the turn on only if the next memtable is compacted.
ContinueKeepsTurn(t) ==
    LET g == gen[t] + 1
        s == Idx(g)
        next == mt[s].generation = g /\ mt[s].state = "compacted"
    IN
    /\ pc[t] = "continue"
    /\ gen' = [gen EXCEPT ![t] = g]
    /\ generation_to_incorporate' = generation_to_incorporate + IF next THEN 1 ELSE 0
    /\ mt' = IF next THEN [mt EXCEPT ![s].state = "assigned"] ELSE mt
    /\ Goto(t, IF next THEN "prepare" ELSE "idle")
    /\ UNCHANGED <<generation, generation_retired, is_empty, compacted, branch, trunk,
                   tasks, queries, value, phase, err>>

\* core_try_continue_incorporate, under the incorporation mutex
Continue(t) ==
    LET g == gen[t] + 1
        s == Idx(g)
    IN
    /\ pc[t] = "continue"
    /\ gen' = [gen EXCEPT ![t] = g]
    /\ IF mt[s].generation # g
         THEN UNCHANGED <<generation_to_incorporate, mt, err>>
         ELSE /\ generation_to_incorporate' = generation_to_incorporate + 1
              /\ TryAssign(s)
              /\ err' = err \cup AssignErrors(s)
                             \cup Unless(generation_to_incorporate + 1 = g, "to_incorporate")
    /\ Goto(t, IF mt[s].generation = g /\ mt[s].state = "compacted"
                 THEN "prepare" ELSE "idle")
    /\ UNCHANGED <<generation, generation_retired, is_empty, compacted, branch, trunk,
                   tasks, queries, value, phase>>

-----------------------------------------------------------------------------
\* core_lookup, and core_lookup_async up to its first suspension

\* Faulty: the walk ends at generation_to_incorporate, as in the comment.
BeginWalkShort(r, l) ==
    /\ pc[r] = "idle" /\ phase = "up"
    /\ Blocking = {}
    /\ walk' = [walk EXCEPT ![r] = [cur |-> generation, end |-> generation_to_incorporate]]
    /\ floor' = [floor EXCEPT ![r] = value]
    /\ Goto(r, l)
    /\ UNCHANGED <<ctxt, mt, compacted, branch, trunk, tasks, gen, held, result, value, phase>>

\* The walk goes from the current generation down to the last retired one;
\* the lookup lock keeps generation_retired still.
BeginWalk(r, l) ==
    /\ pc[r] = "idle" /\ phase = "up"
    /\ Blocking = {}
    /\ walk' = [walk EXCEPT ![r] = [cur |-> generation, end |-> generation_retired]]
    /\ floor' = [floor EXCEPT ![r] = value]
    /\ Goto(r, l)
    /\ UNCHANGED <<ctxt, mt, compacted, branch, trunk, tasks, gen, held, result, value, phase>>

BeginLookup(r) ==
    /\ BeginWalk(r, "look")
    /\ err' = err \cup Unless(generation - generation_retired <= max_memtables, "lookup_bound")

\* core_memtable_root_addr_for_lookup
UseBranch(s) == mt[s].state \in {"compacted", "assigned"}

WalkErrors(r) ==
    LET s == Idx(walk[r].cur) IN
    Unless(mt[s].generation = walk[r].cur, "get_memtable")
      \cup Unless(mt[s].state # "incorporated", "ok_to_lookup")

OneDown(r) == walk' = [walk EXCEPT ![r].cur = @ - 1]

LookMemtable(r) ==
    LET s == Idx(walk[r].cur)
        v == IF UseBranch(s) THEN branch[compacted[s]] ELSE mt[s].value
    IN
    /\ pc[r] = "look"
    /\ walk[r].cur # walk[r].end
    /\ err' = err \cup WalkErrors(r)
    /\ IF v # 0 THEN /\ result' = [result EXCEPT ![r] = v]
                     /\ Goto(r, "found")
                     /\ UNCHANGED walk
                ELSE OneDown(r) /\ UNCHANGED <<result, pc>>
    /\ UNCHANGED <<ctxt, mt, compacted, branch, trunk, tasks, gen, held, floor, value, phase>>

\* The root is taken before the lookup lock is released; what it leads to does
\* not change any more.
LookTrunk(r) ==
    /\ pc[r] = "look"
    /\ walk[r].cur = walk[r].end
    /\ result' = [result EXCEPT ![r] = Newest(root, InBranch)]
    /\ Goto(r, "found")
    /\ UNCHANGED <<ctxt, mt, compacted, branch, trunk, tasks, gen, walk, held, floor,
                   value, phase, err>>

EndLookup(r) ==
    /\ pc[r] = "found"
    /\ walk' = [walk EXCEPT ![r] = [cur |-> -1, end |-> -1]]
    /\ floor' = [floor EXCEPT ![r] = 0]
    /\ result' = [result EXCEPT ![r] = 0]
    /\ Goto(r, "idle")
    /\ UNCHANGED <<ctxt, mt, compacted, branch, trunk, tasks, gen, held, value, phase, err>>

-----------------------------------------------------------------------------
\* core_range_iterator_init and core_range_iterator_deinit

BeginScan(r) ==
    /\ BeginWalk(r, "scan")
    /\ UNCHANGED err

\* Faulty: the iterator takes no reference on a memtable.
ScanUncounted(r) ==
    LET g == walk[r].cur
        s == Idx(g)
    IN
    /\ pc[r] = "scan"
    /\ g # walk[r].end
    /\ err' = err \cup WalkErrors(r)
    /\ held' = IF UseBranch(s) THEN [held EXCEPT ![r].branches = @ \cup {compacted[s]}]
                              ELSE [held EXCEPT ![r].mts = @ \cup {g}]
    /\ OneDown(r)
    /\ UNCHANGED <<ctxt, mt, compacted, branch, trunk, tasks, pc, gen, floor, result,
                   value, phase>>

\* A reference on the branch if there is one, on the memtable otherwise
ScanMemtable(r) ==
    LET g == walk[r].cur
        s == Idx(g)
    IN
    /\ pc[r] = "scan"
    /\ g # walk[r].end
    /\ err' = err \cup WalkErrors(r)
    /\ IF UseBranch(s)
         THEN /\ held' = [held EXCEPT ![r].branches = @ \cup {compacted[s]}]
              /\ UNCHANGED mt
         ELSE /\ held' = [held EXCEPT ![r].mts = @ \cup {g}]
              /\ mt' = [mt EXCEPT ![s].refs = @ + 1]
    /\ OneDown(r)
    /\ UNCHANGED <<ctxt, compacted, branch, trunk, tasks, pc, gen, floor, result, value, phase>>

ScanTrunk(r) ==
    /\ pc[r] = "scan"
    /\ walk[r].cur = walk[r].end
    /\ held' = [held EXCEPT ![r].branches = @ \cup root]
    /\ Goto(r, "open")
    /\ UNCHANGED <<ctxt, mt, compacted, branch, trunk, tasks, gen, walk, floor, result,
                   value, phase, err>>

Close(r) ==
    /\ pc[r] = "open"
    /\ floor' = [floor EXCEPT ![r] = 0]
    /\ walk' = [walk EXCEPT ![r] = [cur |-> -1, end |-> -1]]
    /\ Goto(r, "close")
    /\ UNCHANGED <<ctxt, mt, compacted, branch, trunk, tasks, gen, held, result,
                   value, phase, err>>

\* core_memtable_dec_ref for the memtables, the newest first
CloseMemtable(r) ==
    /\ pc[r] = "close"
    /\ held[r].mts # {}
    /\ LET g == Max(held[r].mts) IN
         /\ gen' = [gen EXCEPT ![r] = g]
         /\ held' = [held EXCEPT ![r].mts = @ \ {g}]
         /\ DropRef(r, g)
    /\ UNCHANGED <<ctxt, compacted, branch, trunk, tasks, walk, floor, result, value, phase>>

CloseEnd(r) ==
    /\ pc[r] = "close"
    /\ held[r].mts = {}
    /\ held' = [held EXCEPT ![r] = NoHeld]
    /\ Goto(r, "idle")
    /\ UNCHANGED <<ctxt, mt, compacted, branch, trunk, tasks, gen, walk, floor, result,
                   value, phase, err>>

-----------------------------------------------------------------------------
\* core_prepare_for_shutdown: called when all other calls have returned, while
\* background tasks may still be queued or running.

Shutdown(w) ==
    /\ phase = "up"
    /\ \A t \in Writer \cup Reader : pc[t] = "idle"
    /\ phase' = w
    /\ IF is_empty
         THEN UNCHANGED <<ctxt, mt, pc, gen, err>>
         ELSE /\ Finalize(generation, "finalize_bound")
              /\ gen' = [gen EXCEPT ![w] = generation]
              /\ Goto(w, "enqueue")
    /\ UNCHANGED <<compacted, branch, trunk, tasks, queries, value>>

\* task_perform_until_quiescent has found no task waiting or executing.
Quiescent ==
    /\ phase \in Writer
    /\ tasks = <<>>
    /\ Executing \cup At({"enqueue"}) = {}
    /\ phase' = "down"
    /\ UNCHANGED <<ctxt, mt, compacted, branch, trunk, tasks, pc, gen, queries, value, err>>

-----------------------------------------------------------------------------
\* What a thread does once it is in an operation
Progress(t) ==
    \/ Insert(t) \/ InsertFails(t) \/ Full(t) \/ Rotate(t) \/ Enqueue(t)
    \/ TakeTask(t) \/ NoTask(t) \/ Compact(t) \/ Pack(t) \/ TryStart(t)
    \/ Prepare(t) \/ Block(t) \/ Commit(t) \/ Cleanup(t)
    \/ DecRef(t) \/ Recycle(t) \/ Ready(t) \/ Continue(t)

Query(r) ==
    \/ LookMemtable(r) \/ LookTrunk(r) \/ EndLookup(r)
    \/ ScanMemtable(r) \/ ScanTrunk(r) \/ Close(r) \/ CloseMemtable(r) \/ CloseEnd(r)

Begin ==
    \/ \E w \in Writer : BeginInsert(w) \/ Shutdown(w)
    \/ \E r \in Reader : BeginLookup(r) \/ BeginScan(r)

\* The handle is closed, or an assertion has stopped the process.
Stopped == phase = "down" \/ ~Running

Next ==
    \/ /\ ~Stopped
       /\ \/ \E t \in Thread : Progress(t)
          \/ \E r \in Reader : Query(r)
          \/ Begin
          \/ Quiescent
    \/ Stopped /\ UNCHANGED vars

Spec == Init /\ [][Next]_vars

(***************************************************************************)
(* A thread inside an operation is scheduled again and again, and whoever  *)
(* opens an iterator closes it.  Nothing obliges anybody to insert, to     *)
(* look up or to shut down.                                                *)
(***************************************************************************)
Fairness ==
    /\ \A t \in Thread : WF_vars(~Stopped /\ Progress(t))
    /\ \A r \in Reader : WF_vars(~Stopped /\ Query(r))

FairSpec == Spec /\ Fairness

-----------------------------------------------------------------------------
(***************************************************************************)
(* No platform_assert of these functions fails while the handle is in use: *)
(* the memtable of a generation in use has that generation, every change   *)
(* of state starts from the expected one, the generations retire one by    *)
(* one, and never more than max_memtables of them are unretired.  Left     *)
(* out are the debug assertion on INCORPORATION_ASSIGNED, which the race   *)
(* of TryStart with Continue can fail without harm, and the bound that     *)
(* memtable_force_finalize asserts, which a shutdown can exceed.           *)
(***************************************************************************)
AssertionsHold == err \subseteq DebugOnly \cup {"finalize_bound"}

(***************************************************************************)
(* A lookup answers with the value the key had when it began, or a later   *)
(* one, although meanwhile memtables are rotated, compacted, replaced by   *)
(* their branches, moved to the trunk and recycled.                        *)
(***************************************************************************)
LookupFresh ==
    \A r \in Reader : pc[r] = "found" => result[r] >= floor[r]

(***************************************************************************)
(* While an iterator is open, the memtables it refers to have not been     *)
(* recycled, and together with its branches they hold the value the key    *)
(* had when the iterator was opened, or a later one.  A branch that a      *)
(* lookup would be sent to is kept by a reference: by its packer's until   *)
(* the new root is prepared, by the new root's after that, although the    *)
(* memtable still leads to it until the lookups are blocked.               *)
(***************************************************************************)
SnapshotIntact ==
    /\ \A r \in Reader :
         LET Tree(g) == IF g \in held[r].mts THEN InMemtable(g) ELSE branch[g]
         IN  pc[r] = "open" =>
               /\ \A g \in held[r].mts : mt[Idx(g)].generation = g
               /\ Newest(held[r].mts \cup held[r].branches, Tree) >= floor[r]
    /\ \A s \in Slot :
         UseBranch(s) => compacted[s] \in packed \cup root \cup post_root

(***************************************************************************)
(* The two cases of the comment on core_try_start_incorporate: a compacted *)
(* memtable whose turn it is has a thread that is about to start on it,    *)
(* because the one that incorporated its predecessor did not find it.      *)
(* When the handle is closed nothing is left behind: every memtable has    *)
(* been incorporated, the trunk has the key's latest value, and no         *)
(* memtable is referred to (the debug assertion of memtable_deinit).       *)
(***************************************************************************)
NotStranded ==
    /\ \A s \in Slot :
         mt[s].state = "compacted" /\ mt[s].generation = generation_to_incorporate
           => \E t \in Thread : pc[t] = "start" /\ gen[t] = mt[s].generation
    /\ phase = "down" =>
         /\ generation_retired = generation - 1
         /\ Newest(root, InBranch) = value
         /\ \A s \in Slot : mt[s].refs = 1

(***************************************************************************)
(* Every generation that has been left by the inserts is eventually        *)
(* retired: the incorporation catches up again and again, which is the     *)
(* same for the bounded number of generations here, and cheaper to check.  *)
(***************************************************************************)
Incorporated == []<>(generation_retired = generation - 1 \/ ~Running)
=============================================================================
