------------------------------- MODULE RWLock -------------------------------
(***************************************************************************)
(* What a reader/writer lock with an intermediate claim promises, as the   *)
(* state machine drawn in platform_types.h:                                *)
(*                                                                         *)
(*            get                claim             lock                    *)
(*  unlocked <---> read-locked <-------> claimed <------> write-locked     *)
(*           unget              unclaim           unlock                   *)
(*                                                                         *)
(* A claim excludes the other claims, a write lock excludes the readers.   *)
(* BatchRWLock implements it access by access; the memtables use it as the *)
(* insert lock, the lookup lock and the lock of the trunk's root.          *)
(***************************************************************************)

CONSTANT Thread        \* the threads that use the lock

VARIABLES readers,     \* threads that hold a read lock
          claimants,   \* the thread that holds the claim, if any
          writers      \* the thread that holds the write lock, if any

vars == <<readers, claimants, writers>>

Init ==
    /\ readers = {}
    /\ claimants = {}
    /\ writers = {}

\* A read lock is granted while nobody holds the write lock.
Get(t) ==
    /\ t \notin readers \cup claimants
    /\ writers = {}
    /\ readers' = readers \cup {t}
    /\ UNCHANGED <<claimants, writers>>

Unget(t) ==
    /\ t \in readers
    /\ readers' = readers \ {t}
    /\ UNCHANGED <<claimants, writers>>

\* A claim replaces the read lock of its holder.
Claim(t) ==
    /\ t \in readers
    /\ claimants = {}
    /\ readers' = readers \ {t}
    /\ claimants' = {t}
    /\ UNCHANGED writers

\* Giving the claim back leaves a read lock.
Unclaim(t) ==
    /\ t \in claimants
    /\ writers = {}
    /\ readers' = readers \cup {t}
    /\ claimants' = {}
    /\ UNCHANGED writers

\* The write lock is granted to the claimant once all readers are gone.
Lock(t) ==
    /\ t \in claimants
    /\ readers = {}
    /\ writers = {}
    /\ writers' = {t}
    /\ UNCHANGED <<readers, claimants>>

Unlock(t) ==
    /\ t \in writers
    /\ writers' = {}
    /\ UNCHANGED <<readers, claimants>>

Next ==
    \E t \in Thread :
        Get(t) \/ Unget(t) \/ Claim(t) \/ Unclaim(t) \/ Lock(t) \/ Unlock(t)

Spec == Init /\ [][Next]_vars
=============================================================================
