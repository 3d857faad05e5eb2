------------------------------ MODULE MCMemtable ------------------------------
(* Instance of Memtable for TLC *)
EXTENDS MemtableStore

CONSTANT Volunteers  \* bound: the threads that run a task after an insert

MCNext ==
    Next /\ \A w \in Writer \ Volunteers : pc[w] = "insert" => pc'[w] # "help"
MCSpec == Init /\ [][MCNext]_vars /\ Fairness
=============================================================================
