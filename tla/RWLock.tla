------------------------------- MODULE RWLock -------------------------------
(***************************************************************************)
(* What RWMutex (src/rwmutex.h) promises its users: any number of read     *)
(* locks at a time, or one write lock.  A lock is one RLock or WLock       *)
(* object, so a thread that holds three read locks is three members of     *)
(* Locks.                                                                  *)
(***************************************************************************)
CONSTANT Locks

VARIABLES readers, writers   \* the locks held

vars == <<readers, writers>>

Init == readers = {} /\ writers = {}

AcquireRead(l) ==
    /\ writers = {}
    /\ readers' = readers \cup {l}
    /\ UNCHANGED writers

ReleaseRead(l) ==
    /\ l \in readers
    /\ readers' = readers \ {l}
    /\ UNCHANGED writers

AcquireWrite(l) ==
    /\ readers = {}
    /\ writers = {}
    /\ writers' = {l}
    /\ UNCHANGED readers

ReleaseWrite(l) ==
    /\ l \in writers
    /\ writers' = writers \ {l}
    /\ UNCHANGED readers

Rename(held, l, from) == IF from \in held THEN (held \ {from}) \cup {l} ELSE held

(* A lock object is moved: another object now stands for the same hold.    *)
Transfer(l, from) ==
    /\ l \notin readers \cup writers
    /\ readers' = Rename(readers, l, from)
    /\ writers' = Rename(writers, l, from)

Next ==
    \E l \in Locks :
        \/ AcquireRead(l)
        \/ ReleaseRead(l)
        \/ AcquireWrite(l)
        \/ ReleaseWrite(l)
        \/ \E from \in Locks : Transfer(l, from)

Spec == Init /\ [][Next]_vars
=============================================================================
