------------------------------- MODULE RWMutex -------------------------------
(***************************************************************************)
(* RWMutex of src/rwmutex.h, built from a mutex, a condition variable and  *)
(* two counters, with its RLock and WLock helpers.                         *)
(*                                                                         *)
(* A lock is one RLock or WLock object: its construction locks, its        *)
(* destruction unlocks.  A lock is "free", "reading", "writing", "asleep"  *)
(* in the cv.wait() of lockWriter, or "woken": about to lock the mutex     *)
(* again and to re-evaluate the wait's predicate.                          *)
(*                                                                         *)
(* lockReader, unlockReader and the parts of lockWriter on either side of  *)
(* the wait hold the mutex throughout, so each is one step that needs the  *)
(* mutex free.  lockWriter returns with the mutex still held               *)
(* (lock.release()) and unlockWriter gives it back, so the mutex is held   *)
(* between steps by a writer and by nobody else.                           *)
(***************************************************************************)
EXTENDS Integers, FiniteSets

CONSTANTS Locks,   \* the lock objects
          None     \* the mutex is not held

ASSUME NoneAssumption == None \notin Locks

ASSUME LocksAssumption == IsFiniteSet(Locks)

VARIABLES readLocks, pendingWriteLocks, mutex, pc

vars == <<readLocks, pendingWriteLocks, mutex, pc>>

Init ==
    /\ readLocks = 0
    /\ pendingWriteLocks = 0
    /\ mutex = None
    /\ pc = [l \in Locks |-> "free"]

At(state) == {l \in Locks : pc[l] = state}

(* pc after l has moved to s and cv.notify_one() woke one sleeper, if any. *)
MoveAndNotifyOne(l, s) ==
    IF At("asleep") = {}
      THEN pc' = [pc EXCEPT ![l] = s]
      ELSE \E w \in At("asleep") : pc' = [pc EXCEPT ![l] = s, ![w] = "woken"]

Move(l, s) == pc' = [pc EXCEPT ![l] = s]
-----------------------------------------------------------------------------
LockReader(l) ==
    /\ pc[l] = "free" /\ mutex = None
    /\ readLocks' = readLocks + 1
    /\ Move(l, "reading")
    /\ UNCHANGED <<pendingWriteLocks, mutex>>

(* Mutant: the last reader forgets the pending writers.                    *)
UnlockReaderNoNotify(l) ==
    /\ pc[l] = "reading" /\ mutex = None
    /\ readLocks' = readLocks - 1
    /\ Move(l, "free")
    /\ UNCHANGED <<pendingWriteLocks, mutex>>

UnlockReader(l) ==
    /\ pc[l] = "reading" /\ mutex = None
    /\ readLocks' = readLocks - 1
    /\ IF readLocks' = 0 /\ pendingWriteLocks > 0
         THEN MoveAndNotifyOne(l, "free")
         ELSE Move(l, "free")
    /\ UNCHANGED <<pendingWriteLocks, mutex>>

LockWriter(l) ==
    /\ pc[l] = "free" /\ mutex = None
    /\ IF readLocks > 0
         THEN /\ pendingWriteLocks' = pendingWriteLocks + 1
              /\ Move(l, "asleep")
              /\ UNCHANGED mutex
         ELSE /\ mutex' = l
              /\ Move(l, "writing")
              /\ UNCHANGED pendingWriteLocks
    /\ UNCHANGED readLocks

(* Mutant: the wait has no predicate, a woken writer takes the lock.       *)
RecheckUnconditional(l) ==
    /\ pc[l] = "woken" /\ mutex = None
    /\ pendingWriteLocks' = pendingWriteLocks - 1
    /\ mutex' = l
    /\ Move(l, "writing")
    /\ UNCHANGED readLocks

(* The end of lockWriter's wait: the predicate is evaluated with the mutex *)
(* held, and the writer goes back to sleep when a reader came first.       *)
Recheck(l) ==
    /\ pc[l] = "woken" /\ mutex = None
    /\ IF readLocks = 0
         THEN /\ pendingWriteLocks' = pendingWriteLocks - 1
              /\ mutex' = l
              /\ Move(l, "writing")
         ELSE /\ Move(l, "asleep")
              /\ UNCHANGED <<pendingWriteLocks, mutex>>
    /\ UNCHANGED readLocks

(* Mutant: unlockWriter does not pass the wakeup on.                       *)
UnlockWriterNoNotify(l) ==
    /\ pc[l] = "writing" /\ mutex = l
    /\ mutex' = None
    /\ Move(l, "free")
    /\ UNCHANGED <<readLocks, pendingWriteLocks>>

UnlockWriter(l) ==
    /\ pc[l] = "writing" /\ mutex = l
    /\ mutex' = None
    /\ IF pendingWriteLocks > 0
         THEN MoveAndNotifyOne(l, "free")
         ELSE Move(l, "free")
    /\ UNCHANGED <<readLocks, pendingWriteLocks>>

(* RLock and WLock can be moved: the new object takes over the hold and    *)
(* the old one is left with none.  Only a move into an object that holds   *)
(* nothing is modelled: the assignment operators overwrite a hold without  *)
(* releasing it, and nothing in the library assigns to a lock.             *)
MoveLock(l, from) ==
    /\ pc[l] = "free" /\ pc[from] \in {"reading", "writing"}
    /\ pc' = [pc EXCEPT ![l] = pc[from], ![from] = "free"]
    /\ mutex' = IF mutex = from THEN l ELSE mutex
    /\ UNCHANGED <<readLocks, pendingWriteLocks>>

SpuriousWakeup(l) ==
    /\ pc[l] = "asleep"
    /\ Move(l, "woken")
    /\ UNCHANGED <<readLocks, pendingWriteLocks, mutex>>

Next ==
    \E l \in Locks :
        \/ LockReader(l)
        \/ UnlockReader(l)
        \/ LockWriter(l)
        \/ Recheck(l)
        \/ UnlockWriter(l)
        \/ SpuriousWakeup(l)
        \/ \E from \in Locks : MoveLock(l, from)

(* Holders release what they hold, and a woken thread runs in the end.     *)
(* std::mutex promises no order among its waiters, so nothing stronger.    *)
Spec ==
    /\ Init /\ [][Next]_vars
    /\ \A l \in Locks : /\ WF_vars(UnlockReader(l))
                        /\ WF_vars(UnlockWriter(l))
                        /\ WF_vars(Recheck(l))
-----------------------------------------------------------------------------
TypeOK ==
    /\ readLocks \in Nat
    /\ pendingWriteLocks \in Nat
    /\ mutex \in Locks \cup {None}
    /\ pc \in [Locks -> {"free", "reading", "asleep", "woken", "writing"}]

(* The counters count what they are named for, and the mutex stays locked  *)
(* exactly while a writer holds the lock.                                  *)
CountersMatch ==
    /\ readLocks = Cardinality(At("reading"))
    /\ pendingWriteLocks = Cardinality(At("asleep") \cup At("woken"))
    /\ \A l \in Locks : pc[l] = "writing" <=> mutex = l

(* rwmutex.h:28, "The lock can be held by an arbitrary number of readers   *)
(* or a single writer": while a write lock is held no other lock of either *)
(* kind is.                                                                *)
Exclusion ==
    \A w \in At("writing") : At("reading") = {} /\ At("writing") = {w}

(* notify_one is enough: whenever the lock is free and a writer sleeps,    *)
(* some writer has been woken and will take the lock or pass the wakeup on *)
(* (rwmutex.h:66-68, 83-85).                                               *)
NoLostWakeup ==
    (readLocks = 0 /\ mutex = None /\ At("asleep") # {}) => At("woken") # {}

NewRequest ==
    \E l \in Locks : \/ LockReader(l)
                    \/ LockWriter(l)
                    \/ \E from \in Locks : MoveLock(l, from)

(* Once no further lock is requested or moved, every writer that waits in  *)
(* lockWriter (rwmutex.h:72-80) gets the lock.  Without that premise       *)
(* readers that keep coming starve it: lockReader ignores pending writers. *)
WritersProceed ==
    <>[][~NewRequest]_vars
        => \A l \in Locks : pc[l] \in {"asleep", "woken"} ~> pc[l] = "writing"

(* RWMutex implements the abstract readers-writer lock.                    *)
Abstract == INSTANCE RWLock WITH readers <- At("reading"), writers <- At("writing")

ImplementsRWLock == Abstract!Spec
=============================================================================
