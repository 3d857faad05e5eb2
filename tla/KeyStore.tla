------------------------------ MODULE KeyStore ------------------------------
(***************************************************************************)
(* What the store promises the users of one key: a lookup or an iterator   *)
(* gives a value the key has had since the call began, an open iterator    *)
(* may see later inserts but never goes back, and closing the handle       *)
(* leaves the latest value in the trunk.  Nothing is said of memtables,    *)
(* branches, tasks or locks; Memtable implements it.                       *)
(***************************************************************************)
EXTENDS Integers

CONSTANT Reader    \* the threads that look up and scan

VARIABLES value,   \* the key's latest value; the n-th insert writes n
          query,   \* idle, busy, or what has been answered: lookup or scan
          floor,   \* the key's value when the query began
          answer,  \* what the lookup has returned, or the iterator gives
          kept     \* what the closed store holds, Open until then

vars == <<value, query, floor, answer, kept>>

Open == -1

Init ==
    /\ value = 0
    /\ query = [r \in Reader |-> "idle"]
    /\ floor = [r \in Reader |-> 0]
    /\ answer = [r \in Reader |-> 0]
    /\ kept = Open

\* An insert; iterators that are open may see it.
Write ==
    /\ kept = Open
    /\ value' = value + 1
    /\ \E S \in SUBSET {r \in Reader : query[r] = "scan"} :
         answer' = [r \in Reader |-> IF r \in S THEN value + 1 ELSE answer[r]]
    /\ UNCHANGED <<query, floor, kept>>

\* A lookup or an iterator begins.
Begin(r) ==
    /\ kept = Open
    /\ query[r] = "idle"
    /\ query' = [query EXCEPT ![r] = "busy"]
    /\ floor' = [floor EXCEPT ![r] = value]
    /\ UNCHANGED <<value, answer, kept>>

\* It has its answer, or the iterator is there.
Answer(r, q) ==
    /\ query[r] = "busy"
    /\ query' = [query EXCEPT ![r] = q]
    /\ \E v \in floor[r] .. value : answer' = [answer EXCEPT ![r] = v]
    /\ UNCHANGED <<value, floor, kept>>

\* The caller is done with it.
End(r) ==
    /\ query[r] \in {"lookup", "scan"}
    /\ query' = [query EXCEPT ![r] = "idle"]
    /\ floor' = [floor EXCEPT ![r] = 0]
    /\ answer' = [answer EXCEPT ![r] = 0]
    /\ UNCHANGED <<value, kept>>

\* The handle is closed when no query is left.
Close ==
    /\ kept = Open
    /\ \A r \in Reader : query[r] = "idle"
    /\ kept' = value
    /\ UNCHANGED <<value, query, floor, answer>>

Next ==
    \/ Write \/ Close
    \/ \E r \in Reader : Begin(r) \/ Answer(r, "lookup") \/ Answer(r, "scan") \/ End(r)

Spec == Init /\ [][Next]_vars
=============================================================================
