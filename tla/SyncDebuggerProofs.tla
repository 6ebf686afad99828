------------------------- MODULE SyncDebuggerProofs -------------------------
(***************************************************************************)
(* Proofs about the two primitives that threads meet in, for any set of    *)
(* threads, and about the example debugger.                                *)
(*                                                                         *)
(* RWMutex excludes readers from writers, loses no wakeup and implements   *)
(* the abstract readers-writer lock.  The argument rests on the counters:  *)
(* readLocks is the number of readers and pendingWriteLocks the number of  *)
(* writers inside the wait, so the tests "readLocks == 0" and              *)
(* "pendingWriteLocks > 0" of the code decide whether there are readers,   *)
(* and whether there is anybody to wake.                                   *)
(*                                                                         *)
(* Chan never loses a wakeup and implements the abstract Channel.          *)
(***************************************************************************)
EXTENDS RWMutex, Chan, HelloDebugger, FiniteSetTheorems, WellFoundedInduction, TLAPS

(* The time each step may take, and the time of a second attempt.          *)
USE SMTT(30), SMTT(60)

Pending == At("asleep") \cup At("woken")

Inv == TypeOK /\ CountersMatch /\ Exclusion /\ NoLostWakeup

(* Sets of lock objects are finite, and their cardinality is a natural     *)
(* number that is zero only for the empty set.                             *)
LEMMA LockSets ==
    ASSUME NEW S \in SUBSET Locks
    PROVE  /\ IsFiniteSet(S)
           /\ Cardinality(S) \in Nat
           /\ Cardinality(S) = 0 <=> S = {}
BY LocksAssumption, FS_Subset, FS_CardinalityType, FS_EmptySet

(* Adding to and removing from such a set changes its cardinality by one.  *)
LEMMA LockSetsStep ==
    ASSUME NEW S \in SUBSET Locks, NEW l \in Locks
    PROVE  /\ l \notin S => Cardinality(S \cup {l}) = Cardinality(S) + 1
           /\ l \in S => Cardinality(S \ {l}) = Cardinality(S) - 1
BY LockSets, FS_AddElement, FS_RemoveElement

(* What moving one lock object does to the sets of objects in each state.  *)
LEMMA MoveSets ==
    ASSUME TypeOK, NEW l \in Locks, NEW s \in {"free", "reading", "asleep", "woken", "writing"},
           Move(l, s)
    PROVE  /\ pc' \in [Locks -> {"free", "reading", "asleep", "woken", "writing"}]
           /\ At(s)' = At(s) \cup {l}
           /\ \A r : r # s => At(r)' = At(r) \ {l}
BY DEF TypeOK, Move, At

(* Waking one sleeper besides: readers, writers and the pending writers    *)
(* are as after a plain move, and if there was a sleeper one is woken.     *)
LEMMA NotifySets ==
    ASSUME TypeOK, NEW l \in Locks, pc[l] \in {"reading", "writing"},
           MoveAndNotifyOne(l, "free")
    PROVE  /\ pc' \in [Locks -> {"free", "reading", "asleep", "woken", "writing"}]
           /\ At("reading")' = At("reading") \ {l}
           /\ At("writing")' = At("writing") \ {l}
           /\ Pending' = Pending
           /\ At("asleep") # {} => At("woken")' # {}
           /\ At("asleep") = {} => At("asleep")' = {}
<1>1. CASE At("asleep") = {}
  <2>1. pc' = [pc EXCEPT ![l] = "free"]
    BY <1>1 DEF MoveAndNotifyOne
  <2> QED BY <1>1, <2>1 DEF TypeOK, At, Pending
<1>2. CASE At("asleep") # {}
  <2>1. PICK w \in At("asleep") : pc' = [pc EXCEPT ![l] = "free", ![w] = "woken"]
    BY <1>2 DEF MoveAndNotifyOne
  <2>2. w \in Locks /\ pc[w] = "asleep" /\ w # l
    BY <2>1 DEF At
  <2>3. \A m \in Locks :
          pc'[m] = IF m = w THEN "woken" ELSE IF m = l THEN "free" ELSE pc[m]
    BY <2>1, <2>2 DEF TypeOK
  <2>4. pc' \in [Locks -> {"free", "reading", "asleep", "woken", "writing"}]
    BY <2>1, <2>2 DEF TypeOK
  <2>5. At("reading")' = At("reading") \ {l} /\ At("writing")' = At("writing") \ {l}
    BY <2>2, <2>3 DEF At
  <2>6. Pending' = Pending
    BY <2>2, <2>3 DEF At, Pending
  <2>7. w \in At("woken")'
    BY <2>2, <2>3 DEF At
  <2> QED BY <1>2, <2>4, <2>5, <2>6, <2>7
<1> QED BY <1>1, <1>2

(* A fresh mutex satisfies the invariant.                                  *)
LEMMA InitInv == Init => Inv
<1> SUFFICES ASSUME Init PROVE Inv
  OBVIOUS
<1>1. At("reading") = {} /\ At("asleep") = {} /\ At("woken") = {} /\ At("writing") = {}
  BY DEF Init, At
<1>2. TypeOK
  BY DEF Init, TypeOK
<1>3. CountersMatch
  BY <1>1, FS_EmptySet, NoneAssumption DEF Init, CountersMatch
<1> QED BY <1>1, <1>2, <1>3 DEF Inv, Exclusion, NoLostWakeup

(* The sets of locks in each state partition Locks, and the test on        *)
(* readLocks in the code tells whether there are readers.                  *)
LEMMA ReadersCounted ==
    ASSUME Inv
    PROVE  /\ readLocks = 0 <=> At("reading") = {}
           /\ pendingWriteLocks = 0 <=> Pending = {}
           /\ At("reading") \in SUBSET Locks
           /\ Pending \in SUBSET Locks
           /\ mutex = None <=> At("writing") = {}
<1>1. At("reading") \in SUBSET Locks /\ Pending \in SUBSET Locks
  BY DEF At, Pending
<1>2. mutex = None <=> At("writing") = {}
  BY NoneAssumption DEF Inv, TypeOK, CountersMatch, At
<1> QED BY <1>1, <1>2, LockSets DEF Inv, CountersMatch, Pending

(* Every operation of RWMutex preserves the invariant.                     *)
LEMMA NextInv == Inv /\ [Next]_vars => Inv'
<1> SUFFICES ASSUME Inv, [Next]_vars PROVE Inv'
  OBVIOUS
<1>0. /\ TypeOK /\ CountersMatch /\ Exclusion /\ NoLostWakeup
      /\ readLocks = 0 <=> At("reading") = {}
      /\ pendingWriteLocks = 0 <=> Pending = {}
      /\ At("reading") \in SUBSET Locks
      /\ Pending \in SUBSET Locks
      /\ mutex = None <=> At("writing") = {}
  BY ReadersCounted DEF Inv
<1>1. ASSUME NEW l \in Locks, LockReader(l) PROVE Inv'
  <2>1. /\ pc[l] = "free" /\ mutex = None /\ mutex' = mutex
        /\ readLocks' = readLocks + 1 /\ pendingWriteLocks' = pendingWriteLocks
        /\ Move(l, "reading")
    BY <1>1 DEF LockReader
  <2>2. /\ pc' \in [Locks -> {"free", "reading", "asleep", "woken", "writing"}]
        /\ At("reading")' = At("reading") \cup {l}
        /\ At("asleep")' = At("asleep") /\ At("woken")' = At("woken")
        /\ At("writing")' = At("writing")
    BY <1>0, <2>1, MoveSets DEF At
  <2>3. TypeOK'
    BY <1>0, <2>1, <2>2 DEF TypeOK
  <2>4. Cardinality(At("reading")') = Cardinality(At("reading")) + 1
    BY <1>0, <2>1, <2>2, LockSetsStep DEF At
  <2>5. \A m \in Locks : pc'[m] = "writing" <=> mutex' = m
    BY <1>0, <2>1, <2>2, NoneAssumption DEF At, CountersMatch
  <2>6. CountersMatch'
    BY ZenonT(40), <1>0, <2>1, <2>2, <2>4, <2>5 DEF CountersMatch
  <2>7. Exclusion'
    BY <1>0, <2>1, <2>2 DEF Exclusion
  <2>8. NoLostWakeup'
    BY <1>0, <2>1 DEF NoLostWakeup, TypeOK
  <2> QED BY <2>3, <2>6, <2>7, <2>8 DEF Inv
<1>2. ASSUME NEW l \in Locks, UnlockReader(l) PROVE Inv'
  <2>1. /\ pc[l] = "reading" /\ mutex = None /\ mutex' = mutex
        /\ readLocks' = readLocks - 1 /\ pendingWriteLocks' = pendingWriteLocks
    BY <1>2 DEF UnlockReader
  <2>2. /\ l \in At("reading") /\ readLocks \in Nat /\ readLocks > 0
        /\ Cardinality(At("reading") \ {l}) = Cardinality(At("reading")) - 1
    BY <1>0, <2>1, LockSetsStep DEF At, TypeOK
  <2>3. /\ pc' \in [Locks -> {"free", "reading", "asleep", "woken", "writing"}]
        /\ At("reading")' = At("reading") \ {l}
        /\ At("writing")' = {}
        /\ Pending' = Pending
        /\ NoLostWakeup'
    <3>1. CASE readLocks' = 0 /\ pendingWriteLocks > 0
      <4>1. MoveAndNotifyOne(l, "free")
        BY ZenonT(40), <1>2, <3>1 DEF UnlockReader
      <4> QED BY <1>0, <2>1, <4>1, NotifySets DEF NoLostWakeup
    <3>2. CASE ~(readLocks' = 0 /\ pendingWriteLocks > 0)
      <4>1. Move(l, "free")
        BY <1>2, <3>2 DEF UnlockReader
      <4>2. /\ pc' \in [Locks -> {"free", "reading", "asleep", "woken", "writing"}]
            /\ At("reading")' = At("reading") \ {l}
            /\ At("writing")' = At("writing") \ {l}
            /\ At("asleep")' = At("asleep") /\ At("woken")' = At("woken")
        BY <1>0, <2>1, <4>1, MoveSets DEF At
      <4>3. readLocks' = 0 => Pending = {}
        BY <1>0, <3>2 DEF TypeOK
      <4> QED BY <1>0, <2>1, <4>2, <4>3 DEF NoLostWakeup, Pending
    <3> QED BY <3>1, <3>2
  <2>4. TypeOK'
    BY <1>0, <2>1, <2>2, <2>3 DEF TypeOK
  <2>5. \A m \in Locks : pc'[m] = "writing" <=> mutex' = m
    BY <2>1, <2>3, NoneAssumption DEF At
  <2>6. CountersMatch'
    BY ZenonT(40), <1>0, <2>1, <2>2, <2>3, <2>5 DEF CountersMatch, Pending
  <2>7. Exclusion'
    BY <2>3 DEF Exclusion
  <2> QED BY <2>3, <2>4, <2>6, <2>7 DEF Inv
<1>3. ASSUME NEW l \in Locks, LockWriter(l) PROVE Inv'
  <2>1. pc[l] = "free" /\ mutex = None /\ readLocks' = readLocks
    BY <1>3 DEF LockWriter
  <2>2. CASE readLocks > 0
    <3>1. /\ pendingWriteLocks' = pendingWriteLocks + 1 /\ mutex' = mutex
          /\ Move(l, "asleep")
      BY <1>3, <2>2 DEF LockWriter
    <3>2. /\ pc' \in [Locks -> {"free", "reading", "asleep", "woken", "writing"}]
          /\ At("reading")' = At("reading") /\ At("writing")' = At("writing")
          /\ Pending' = Pending \cup {l} /\ l \notin Pending
      <4>1. /\ pc' \in [Locks -> {"free", "reading", "asleep", "woken", "writing"}]
            /\ At("reading")' = At("reading") \ {l}
            /\ At("writing")' = At("writing") \ {l}
            /\ At("woken")' = At("woken") \ {l}
            /\ At("asleep")' = At("asleep") \cup {l}
        BY <1>0, <3>1, MoveSets
      <4>2. \A s : s # "free" => l \notin At(s)
        BY <2>1 DEF At
      <4> QED BY <4>1, <4>2 DEF Pending
    <3>3. Cardinality(Pending') = Cardinality(Pending) + 1
      BY <1>0, <3>2, LockSetsStep
    <3>4. TypeOK'
      BY <1>0, <2>1, <3>1, <3>2 DEF TypeOK
    <3>5. \A m \in Locks : pc'[m] = "writing" <=> mutex' = m
      BY <1>0, <2>1, <3>1, <3>2, NoneAssumption DEF At, CountersMatch
    <3>6. CountersMatch'
      BY <1>0, <2>1, <3>1, <3>2, <3>3, <3>5 DEF CountersMatch, Pending
    <3>7. Exclusion' /\ NoLostWakeup'
      BY <1>0, <2>1, <2>2, <3>2 DEF Exclusion, NoLostWakeup, TypeOK
    <3> QED BY <3>4, <3>6, <3>7 DEF Inv
  <2>3. CASE ~(readLocks > 0)
    <3>1. /\ pendingWriteLocks' = pendingWriteLocks /\ mutex' = l
          /\ Move(l, "writing") /\ readLocks = 0
      BY <1>0, <1>3, <2>3 DEF LockWriter, TypeOK
    <3>2. /\ pc' \in [Locks -> {"free", "reading", "asleep", "woken", "writing"}]
          /\ At("reading")' = {} /\ At("reading") = {} /\ At("writing")' = {l}
          /\ Pending' = Pending
      BY <1>0, <2>1, <3>1, MoveSets DEF At, Pending
    <3>3. TypeOK'
      BY <1>0, <2>1, <3>1, <3>2 DEF TypeOK
    <3>4. \A m \in Locks : pc'[m] = "writing" <=> mutex' = m
      BY <3>1, <3>2 DEF At
    <3>5. CountersMatch'
      BY <1>0, <2>1, <3>1, <3>2, <3>4 DEF CountersMatch, Pending
    <3>6. Exclusion' /\ NoLostWakeup'
      BY <3>1, <3>2, NoneAssumption DEF Exclusion, NoLostWakeup
    <3> QED BY <3>3, <3>5, <3>6 DEF Inv
  <2> QED BY <2>2, <2>3
<1>4. ASSUME NEW l \in Locks, Recheck(l) PROVE Inv'
  <2>1. pc[l] = "woken" /\ mutex = None /\ readLocks' = readLocks
    BY <1>4 DEF Recheck
  <2>2. CASE readLocks = 0
    <3>1. /\ pendingWriteLocks' = pendingWriteLocks - 1 /\ mutex' = l
          /\ Move(l, "writing")
      BY <1>4, <2>2 DEF Recheck
    <3>2. /\ pc' \in [Locks -> {"free", "reading", "asleep", "woken", "writing"}]
          /\ At("reading")' = {} /\ At("reading") = {} /\ At("writing")' = {l}
          /\ Pending' = Pending \ {l} /\ l \in Pending
      BY <1>0, <2>1, <2>2, <3>1, MoveSets DEF At, Pending
    <3>3. Cardinality(Pending') = Cardinality(Pending) - 1
      BY <1>0, <3>2, LockSetsStep
    <3>4. pendingWriteLocks > 0
      BY <1>0, <3>2 DEF TypeOK
    <3>5. TypeOK'
      BY <1>0, <2>1, <3>1, <3>2, <3>4 DEF TypeOK
    <3>6. \A m \in Locks : pc'[m] = "writing" <=> mutex' = m
      BY <3>1, <3>2 DEF At
    <3>7. CountersMatch'
      BY ZenonT(40), <1>0, <2>1, <3>1, <3>2, <3>3, <3>6 DEF CountersMatch, Pending
    <3>8. Exclusion' /\ NoLostWakeup'
      BY <3>1, <3>2, NoneAssumption DEF Exclusion, NoLostWakeup
    <3> QED BY <3>5, <3>7, <3>8 DEF Inv
  <2>3. CASE readLocks # 0
    <3>1. Move(l, "asleep") /\ mutex' = mutex /\ pendingWriteLocks' = pendingWriteLocks
      BY <1>4, <2>3 DEF Recheck
    <3>2. /\ pc' \in [Locks -> {"free", "reading", "asleep", "woken", "writing"}]
          /\ At("reading")' = At("reading") /\ At("writing")' = At("writing")
          /\ Pending' = Pending
      BY <1>0, <2>1, <3>1, MoveSets DEF At, Pending
    <3>3. TypeOK'
      BY <1>0, <2>1, <3>1, <3>2 DEF TypeOK
    <3>4. \A m \in Locks : pc'[m] = "writing" <=> mutex' = m
      BY <1>0, <2>1, <3>1, <3>2, NoneAssumption DEF At, CountersMatch
    <3>5. CountersMatch'
      BY <1>0, <2>1, <3>1, <3>2, <3>4 DEF CountersMatch, Pending
    <3>6. Exclusion' /\ NoLostWakeup'
      BY <1>0, <2>1, <2>3, <3>2 DEF Exclusion, NoLostWakeup
    <3> QED BY <3>3, <3>5, <3>6 DEF Inv
  <2> QED BY <2>2, <2>3
<1>5. ASSUME NEW l \in Locks, UnlockWriter(l) PROVE Inv'
  <2>1. /\ pc[l] = "writing" /\ mutex = l /\ mutex' = None
        /\ readLocks' = readLocks /\ pendingWriteLocks' = pendingWriteLocks
    BY <1>5 DEF UnlockWriter
  <2>2. At("writing") = {l} /\ At("reading") = {}
    BY <1>0, <2>1 DEF Exclusion, At
  <2>3. /\ pc' \in [Locks -> {"free", "reading", "asleep", "woken", "writing"}]
        /\ At("reading")' = {}
        /\ At("writing")' = {}
        /\ Pending' = Pending
        /\ NoLostWakeup'
    <3>1. CASE pendingWriteLocks > 0
      <4>1. MoveAndNotifyOne(l, "free")
        BY <1>5, <3>1 DEF UnlockWriter
      <4> QED BY <1>0, <2>1, <2>2, <4>1, NotifySets DEF NoLostWakeup
    <3>2. CASE ~(pendingWriteLocks > 0)
      <4>1. Move(l, "free")
        BY <1>5, <3>2 DEF UnlockWriter
      <4>2. /\ pc' \in [Locks -> {"free", "reading", "asleep", "woken", "writing"}]
            /\ At("reading")' = At("reading") \ {l}
            /\ At("writing")' = At("writing") \ {l}
            /\ At("asleep")' = At("asleep") /\ At("woken")' = At("woken")
        BY <1>0, <2>1, <4>1, MoveSets DEF At
      <4>3. Pending = {}
        BY <1>0, <3>2 DEF TypeOK
      <4> QED BY <2>2, <4>2, <4>3 DEF NoLostWakeup, Pending
    <3> QED BY <3>1, <3>2
  <2>4. TypeOK'
    BY <1>0, <2>1, <2>3 DEF TypeOK
  <2>5. \A m \in Locks : pc'[m] = "writing" <=> mutex' = m
    BY <2>1, <2>3, NoneAssumption DEF At
  <2>6. CountersMatch'
    BY <1>0, <2>1, <2>2, <2>3, <2>5 DEF CountersMatch, Pending
  <2>7. Exclusion'
    BY <2>3 DEF Exclusion
  <2> QED BY <2>3, <2>4, <2>6, <2>7 DEF Inv
<1>6. ASSUME NEW l \in Locks, SpuriousWakeup(l) PROVE Inv'
  <2>1. /\ pc[l] = "asleep" /\ Move(l, "woken") /\ mutex' = mutex
        /\ readLocks' = readLocks /\ pendingWriteLocks' = pendingWriteLocks
    BY <1>6 DEF SpuriousWakeup
  <2>2. /\ pc' \in [Locks -> {"free", "reading", "asleep", "woken", "writing"}]
        /\ At("reading")' = At("reading") /\ At("writing")' = At("writing")
        /\ At("woken")' # {}
        /\ Pending' = Pending
    BY <1>0, <2>1, MoveSets DEF At, Pending
  <2>3. TypeOK'
    BY <1>0, <2>1, <2>2 DEF TypeOK
  <2>4. \A m \in Locks : pc'[m] = "writing" <=> mutex' = m
    BY <1>0, <2>1, <2>2 DEF At, CountersMatch
  <2>5. CountersMatch'
    BY <1>0, <2>1, <2>2, <2>4 DEF CountersMatch, Pending
  <2>6. Exclusion' /\ NoLostWakeup'
    BY <1>0, <2>2 DEF Exclusion, NoLostWakeup
  <2> QED BY <2>3, <2>5, <2>6 DEF Inv
<1>7. ASSUME NEW l \in Locks, NEW from \in Locks, MoveLock(l, from) PROVE Inv'
  <2>1. /\ pc[l] = "free" /\ pc[from] \in {"reading", "writing"} /\ l # from
        /\ readLocks' = readLocks /\ pendingWriteLocks' = pendingWriteLocks
        /\ mutex' = IF mutex = from THEN l ELSE mutex
        /\ pc' = [pc EXCEPT ![l] = pc[from], ![from] = "free"]
    BY <1>7 DEF MoveLock
  <2>2. pc' \in [Locks -> {"free", "reading", "asleep", "woken", "writing"}]
    BY <1>0, <2>1 DEF TypeOK
  <2>3. \A m \in Locks :
          pc'[m] = IF m = from THEN "free" ELSE IF m = l THEN pc[from] ELSE pc[m]
    BY <1>0, <2>1 DEF TypeOK
  <2>4. At("asleep")' = At("asleep") /\ At("woken")' = At("woken") /\ Pending' = Pending
    BY ZenonT(40), <2>1, <2>3 DEF At, Pending
  <2>5. TypeOK'
    BY <1>0, <2>1, <2>2 DEF TypeOK
  <2>6. CASE pc[from] = "reading"
    <3>1. /\ At("reading")' = (At("reading") \ {from}) \cup {l}
          /\ At("writing")' = At("writing") /\ from \in At("reading")
          /\ l \notin At("reading")
      BY ZenonT(40), <2>1, <2>3, <2>6 DEF At
    <3>2. At("writing") = {} /\ mutex = None /\ mutex' = None
      BY <1>0, <2>1, <3>1, NoneAssumption DEF Exclusion
    <3>3. Cardinality(At("reading")') = Cardinality(At("reading"))
      <4>1. Cardinality(At("reading") \ {from}) = Cardinality(At("reading")) - 1
        BY <1>0, <3>1, LockSetsStep
      <4>2. Cardinality((At("reading") \ {from}) \cup {l})
              = Cardinality(At("reading") \ {from}) + 1
        BY <1>0, <3>1, LockSetsStep
      <4>3. Cardinality(At("reading")) \in Nat
        BY <1>0, LockSets
      <4>4. Cardinality(At("reading")') = Cardinality((At("reading") \ {from}) \cup {l})
        BY <3>1
      <4> QED BY <4>1, <4>2, <4>3, <4>4
    <3>4. \A m \in Locks : pc'[m] = "writing" <=> mutex' = m
      BY <3>1, <3>2, NoneAssumption DEF At
    <3>5. CountersMatch'
      BY ZenonT(40), <1>0, <2>1, <2>4, <3>3, <3>4 DEF CountersMatch
    <3>6. Exclusion' /\ NoLostWakeup'
      BY <1>0, <2>1, <2>4, <3>1, <3>2 DEF Exclusion, NoLostWakeup
    <3> QED BY <2>5, <3>5, <3>6 DEF Inv
  <2>7. CASE pc[from] = "writing"
    <3>1. /\ mutex = from /\ mutex' = l
          /\ At("writing") = {from} /\ At("reading") = {}
      BY <1>0, <2>1, <2>7 DEF CountersMatch, Exclusion, At
    <3>2. At("reading")' = {} /\ At("writing")' = {l}
      <4>1. \A m \in Locks : pc[m] # "reading" /\ (pc[m] = "writing" <=> m = from)
        BY <3>1 DEF At
      <4>2. \A m \in Locks : pc'[m] # "reading" /\ (pc'[m] = "writing" <=> m = l)
        BY ZenonT(40), <2>1, <2>3, <2>7, <4>1
      <4> QED BY <4>2 DEF At
    <3>3. \A m \in Locks : pc'[m] = "writing" <=> mutex' = m
      BY <3>1, <3>2 DEF At
    <3>4. CountersMatch'
      BY ZenonT(40), <1>0, <2>1, <2>4, <3>1, <3>2, <3>3 DEF CountersMatch
    <3>5. Exclusion' /\ NoLostWakeup'
      BY <3>1, <3>2, NoneAssumption DEF Exclusion, NoLostWakeup
    <3> QED BY <2>5, <3>4, <3>5 DEF Inv
  <2> QED BY <2>1, <2>6, <2>7
<1>8. CASE UNCHANGED vars
  BY <1>0, <1>8
  DEF vars, Inv, TypeOK, CountersMatch, Exclusion, NoLostWakeup, At
<1> QED
  BY <1>1, <1>2, <1>3, <1>4, <1>5, <1>6, <1>7, <1>8 DEF Next

LEMMA InvHolds == Spec => []Inv
  BY InitInv, NextInv, PTL DEF Spec

(* The safety of RWMutex (rwmutex.h:28): writers exclude everybody.        *)
THEOREM RWMutexSafe == Spec => []Exclusion
<1>1. Inv => Exclusion
  BY DEF Inv
<1> QED BY <1>1, InvHolds, PTL

(* readLocks and pendingWriteLocks (rwmutex.h:53-54) count the read locks  *)
(* that are held and the writers that wait, and the mutex is held by the   *)
(* writer and by nobody else.                                              *)
THEOREM CountersAreExact == Spec => []CountersMatch
<1>1. Inv => CountersMatch
  BY DEF Inv
<1> QED BY <1>1, InvHolds, PTL

(* notify_one (rwmutex.h:66-68, 83-85) is enough: a free lock with         *)
(* sleeping writers always has one awake.                                  *)
THEOREM NoWriterIsStranded == Spec => []NoLostWakeup
<1>1. Inv => NoLostWakeup
  BY DEF Inv
<1> QED BY <1>1, InvHolds, PTL

(* Every step of RWMutex is a step of the abstract lock, or changes none   *)
(* of the holds: falling asleep, waking up, and going back to sleep.       *)
LEMMA NextImplements == Inv /\ [Next]_vars => [Abstract!Next]_(Abstract!vars)
<1> SUFFICES ASSUME Inv, [Next]_vars PROVE [Abstract!Next]_(Abstract!vars)
  OBVIOUS
<1>0. /\ TypeOK /\ CountersMatch /\ Exclusion
      /\ readLocks = 0 <=> At("reading") = {}
      /\ mutex = None <=> At("writing") = {}
  BY ReadersCounted DEF Inv
<1>1. ASSUME NEW l \in Locks, LockReader(l) PROVE Abstract!AcquireRead(l)
  <2>1. At("reading")' = At("reading") \cup {l} /\ At("writing")' = At("writing") \ {l}
    BY <1>0, <1>1, MoveSets DEF LockReader
  <2> QED BY <1>0, <1>1, <2>1 DEF LockReader, Abstract!AcquireRead
<1>2. ASSUME NEW l \in Locks, UnlockReader(l) PROVE Abstract!ReleaseRead(l)
  <2>1. pc[l] = "reading" /\ mutex = None
    BY <1>2 DEF UnlockReader
  <2>2. At("reading")' = At("reading") \ {l} /\ At("writing")' = At("writing") \ {l}
    BY <1>0, <1>2, <2>1, MoveSets, NotifySets DEF UnlockReader
  <2>3. l \in At("reading")
    BY <2>1 DEF At
  <2> QED BY <1>0, <2>1, <2>2, <2>3 DEF Abstract!ReleaseRead
<1>3. ASSUME NEW l \in Locks, LockWriter(l)
      PROVE  Abstract!AcquireWrite(l) \/ UNCHANGED Abstract!vars
  <2>1. \A s : s # "free" => l \notin At(s)
    BY <1>3 DEF LockWriter, At
  <2>2. CASE readLocks > 0
    <3>1. At("reading")' = At("reading") \ {l} /\ At("writing")' = At("writing") \ {l}
      BY <1>0, <1>3, <2>2, MoveSets DEF LockWriter
    <3> QED BY <2>1, <3>1 DEF Abstract!vars
  <2>3. CASE ~(readLocks > 0)
    <3>1. /\ At("reading") = {} /\ At("writing") = {}
          /\ At("reading")' = At("reading") \ {l}
          /\ At("writing")' = At("writing") \cup {l}
      BY <1>0, <1>3, <2>3, MoveSets DEF LockWriter, TypeOK
    <3> QED BY <3>1 DEF Abstract!AcquireWrite
  <2> QED BY <2>2, <2>3
<1>4. ASSUME NEW l \in Locks, Recheck(l)
      PROVE  Abstract!AcquireWrite(l) \/ UNCHANGED Abstract!vars
  <2>1. l \notin At("reading") /\ l \notin At("writing")
    BY <1>4 DEF Recheck, At
  <2>2. CASE readLocks = 0
    <3>1. /\ At("reading") = {} /\ At("writing") = {}
          /\ At("reading")' = At("reading") \ {l}
          /\ At("writing")' = At("writing") \cup {l}
      BY <1>0, <1>4, <2>2, MoveSets DEF Recheck
    <3> QED BY <3>1 DEF Abstract!AcquireWrite
  <2>3. CASE readLocks # 0
    <3>1. At("reading")' = At("reading") \ {l} /\ At("writing")' = At("writing") \ {l}
      BY <1>0, <1>4, <2>3, MoveSets DEF Recheck
    <3> QED BY <2>1, <3>1 DEF Abstract!vars
  <2> QED BY <2>2, <2>3
<1>5. ASSUME NEW l \in Locks, UnlockWriter(l) PROVE Abstract!ReleaseWrite(l)
  <2>1. pc[l] = "writing"
    BY <1>5 DEF UnlockWriter
  <2>2. At("reading")' = At("reading") \ {l} /\ At("writing")' = At("writing") \ {l}
    BY <1>0, <1>5, <2>1, MoveSets, NotifySets DEF UnlockWriter
  <2>3. l \in At("writing") /\ l \notin At("reading")
    BY <2>1 DEF At
  <2> QED BY <2>2, <2>3 DEF Abstract!ReleaseWrite
<1>6. ASSUME NEW l \in Locks, SpuriousWakeup(l) PROVE UNCHANGED Abstract!vars
  <2>1. l \notin At("reading") /\ l \notin At("writing")
    BY <1>6 DEF SpuriousWakeup, At
  <2>2. At("reading")' = At("reading") \ {l} /\ At("writing")' = At("writing") \ {l}
    BY <1>0, <1>6, MoveSets DEF SpuriousWakeup
  <2> QED BY <2>1, <2>2 DEF Abstract!vars
<1>7. ASSUME NEW l \in Locks, NEW from \in Locks, MoveLock(l, from)
      PROVE  Abstract!Transfer(l, from)
  <2>1. /\ pc[l] = "free" /\ pc[from] \in {"reading", "writing"} /\ l # from
        /\ \A m \in Locks :
             pc'[m] = IF m = from THEN "free" ELSE IF m = l THEN pc[from] ELSE pc[m]
    BY <1>0, <1>7 DEF MoveLock, TypeOK
  <2>2. \A s : s # "free" => At(s)' = Abstract!Rename(At(s), l, from)
    BY <2>1 DEF At, Abstract!Rename
  <2>3. l \notin At("reading") \cup At("writing")
    BY <2>1 DEF At
  <2> QED BY <2>2, <2>3 DEF Abstract!Transfer
<1>8. CASE UNCHANGED vars
  BY <1>8 DEF vars, Abstract!vars, At
<1> QED
  BY <1>1, <1>2, <1>3, <1>4, <1>5, <1>6, <1>7, <1>8 DEF Next, Abstract!Next

(* The mutex, the condition variable and the two counters together behave  *)
(* as a readers-writer lock (rwmutex.h:27-29).                             *)
THEOREM RWMutexImplementsRWLock == Spec => ImplementsRWLock
<1>1. Init => Abstract!Init
  BY DEF Init, Abstract!Init, At
<1>2. Init /\ [][Next]_vars => []Inv
  BY InitInv, NextInv, PTL
<1>3. []Inv /\ [][Next]_vars => [][Abstract!Next]_(Abstract!vars)
  BY NextImplements, PTL
<1> QED
  BY <1>1, <1>2, <1>3, PTL DEF Spec, ImplementsRWLock, Abstract!Spec
-----------------------------------------------------------------------------
ChanInv == ChanTypes /\ TakersAreWoken

(* First and Rest give an optional value and a shorter queue.              *)
LEMMA FirstRestType ==
    ASSUME NEW q \in Seq(Values)
    PROVE  First(q) \in Seq(Values) /\ Rest(q) \in Seq(Values)
BY DEF First, Rest

(* notify_all leaves nobody asleep and is well typed.                      *)
LEMMA NotifyAllWakes ==
    ASSUME ChanTypes
    PROVE  /\ NotifyAll \in [Threads -> {"out", "asleep", "woken"}]
           /\ \A t \in Threads : NotifyAll[t] # "asleep"
           /\ \A t \in Threads : NotifyAll[t] = "out" <=> taking[t] = "out"
BY DEF ChanTypes, NotifyAll

(* Init establishes the invariant.                                         *)
LEMMA ChanInitInv == ChanInit => ChanInv
<1>1. <<>> \in Seq(Values)
  OBVIOUS
<1> QED BY <1>1, ZenonT(40) DEF ChanInit, ChanInv, ChanTypes, TakersAreWoken

(* Every method of Chan preserves the invariant.                           *)
LEMMA ChanNextInv == ChanInv /\ [ChanNext]_chanVars => ChanInv'
<1> SUFFICES ASSUME ChanInv, [ChanNext]_chanVars PROVE ChanInv'
  OBVIOUS
<1> USE DEF ChanInv
<1>1. CASE Reset
  <2>1. <<>> \in Seq(Values)
    OBVIOUS
  <2> QED BY <1>1, <2>1, ZenonT(40) DEF Reset, ChanTypes, TakersAreWoken
<1>2. CASE Close
  BY <1>2, NotifyAllWakes DEF Close, ChanTypes, TakersAreWoken
<1>3. ASSUME NEW v \in Values, Put(v) PROVE ChanInv'
  <2>1. queue' \in Seq(Values) /\ queue' # <<>>
    BY <1>3 DEF Put, ChanTypes
  <2>2. CASE queue = <<>> /\ ~closed
    BY <1>3, <2>1, <2>2, NotifyAllWakes DEF Put, ChanTypes, TakersAreWoken
  <2>3. CASE ~(queue = <<>> /\ ~closed)
    BY <1>3, <2>1, <2>3 DEF Put, ChanTypes, TakersAreWoken
  <2> QED BY <2>2, <2>3
<1>4. ASSUME NEW t \in Threads, Return(t) PROVE ChanInv'
  <2>1. First(queue) \in Seq(Values) /\ Rest(queue) \in Seq(Values)
    BY FirstRestType DEF ChanTypes
  <2>2. ChanTypes'
    BY <1>4, <2>1 DEF Return, ChanTypes
  <2>3. \A u \in Threads : taking[u] # "asleep"
    BY <1>4 DEF Return, Ready, TakersAreWoken
  <2>4. \A u \in Threads : taking'[u] # "asleep"
    BY <1>4, <2>3 DEF Return, ChanTypes
  <2> QED BY <2>2, <2>4 DEF TakersAreWoken
<1>5. ASSUME NEW t \in Threads, Sleep(t) PROVE ChanInv'
  BY <1>5 DEF Sleep, Ready, ChanTypes, TakersAreWoken
<1>6. ASSUME NEW t \in Threads, WakeSpuriously(t) PROVE ChanInv'
  BY <1>6 DEF WakeSpuriously, ChanTypes, TakersAreWoken
<1>7. CASE UNCHANGED chanVars
  BY <1>7 DEF chanVars, ChanTypes, TakersAreWoken
<1> QED
  BY <1>1, <1>2, <1>3, <1>4, <1>5, <1>6, <1>7 DEF ChanNext, Take, RecheckTake

(* Whatever the threads do, no taker is asleep while a value is queued or  *)
(* the channel is closed: chan.h:68-86 may notify only on the transition   *)
(* from empty because it notifies everybody.                               *)
THEOREM NoLostWakeupHolds == ChanSpec => [](ChanTypes /\ TakersAreWoken)
<1>1. ChanInit /\ [][ChanNext]_chanVars => []ChanInv
  BY ChanInitInv, ChanNextInv, PTL
<1> QED BY <1>1, PTL DEF ChanSpec, ChanInv

(* A step of Chan is a step of Channel, or leaves its variables alone      *)
(* (falling asleep again, and waking up).                                  *)
LEMMA ChanNextImplements == ChanInv /\ [ChanNext]_chanVars => [AbstractChannel!Next]_(AbstractChannel!vars)
<1> SUFFICES ASSUME ChanInv, [ChanNext]_chanVars PROVE [AbstractChannel!Next]_(AbstractChannel!vars)
  OBVIOUS
<1> USE DEF ChanInv
<1> DEFINE B == {t \in Threads : taking[t] # "out"}
<1>1. CASE Reset
  BY <1>1 DEF Reset, AbstractChannel!Next, AbstractChannel!Reset
<1>2. CASE Close
  <2>1. B' = B
    BY <1>2, NotifyAllWakes DEF Close
  <2> QED BY <1>2, <2>1 DEF Close, AbstractChannel!Next, AbstractChannel!Close
<1>3. ASSUME NEW v \in Values, Put(v) PROVE AbstractChannel!Next
  <2>1. B' = B
    BY <1>3, NotifyAllWakes DEF Put
  <2> QED BY <1>3, <2>1 DEF Put, AbstractChannel!Next, AbstractChannel!Put
<1>4. ASSUME NEW t \in Threads, Return(t) PROVE AbstractChannel!Next
  <2>1. B' = B \ {t}
    BY <1>4 DEF Return, ChanTypes
  <2>2. AbstractChannel!Serve(t)
    BY <1>4, <2>1
    DEF Return, AbstractChannel!Serve, Ready, AbstractChannel!Ready, First, AbstractChannel!First,
        Rest, AbstractChannel!Rest
  <2> QED BY <2>2 DEF AbstractChannel!Next, AbstractChannel!TakeNow, AbstractChannel!Unblock
<1>5. ASSUME NEW t \in Threads, Sleep(t) PROVE [AbstractChannel!Next]_(AbstractChannel!vars)
  <2>1. B' = B \cup {t}
    BY <1>5 DEF Sleep, ChanTypes
  <2>2. CASE taking[t] = "out"
    BY <1>5, <2>1, <2>2
    DEF Sleep, AbstractChannel!Next, AbstractChannel!Block, Ready, AbstractChannel!Ready
  <2>3. CASE taking[t] # "out"
    BY <1>5, <2>1, <2>3 DEF Sleep, AbstractChannel!vars
  <2> QED BY <2>2, <2>3
<1>6. ASSUME NEW t \in Threads, WakeSpuriously(t) PROVE UNCHANGED AbstractChannel!vars
  <2>1. B' = B
    BY <1>6 DEF WakeSpuriously, ChanTypes
  <2> QED BY <1>6, <2>1 DEF WakeSpuriously, AbstractChannel!vars
<1>7. CASE UNCHANGED chanVars
  BY <1>7 DEF chanVars, AbstractChannel!vars
<1> QED
  BY <1>1, <1>2, <1>3, <1>4, <1>5, <1>6, <1>7 DEF ChanNext, Take, RecheckTake

(* The channel built from a mutex and a condition variable behaves as the  *)
(* indivisible FIFO channel the session is written against.                *)
THEOREM ChanImplementsChannel == ChanSpec => AbstractChannel!SafeSpec
<1>1. ChanInit => AbstractChannel!Init
  BY DEF ChanInit, AbstractChannel!Init
<1>2. ChanSpec => [](ChanTypes /\ TakersAreWoken)
  BY NoLostWakeupHolds
<1>3. [](ChanTypes /\ TakersAreWoken) /\ [][ChanNext]_chanVars
        => [][AbstractChannel!Next]_(AbstractChannel!vars)
  BY ChanNextImplements, PTL DEF ChanInv
<1> QED
  BY <1>1, <1>2, <1>3, PTL DEF ChanSpec, AbstractChannel!SafeSpec
-----------------------------------------------------------------------------
(***************************************************************************)
(* What holds of the example debugger for any number of source lines, any  *)
(* requests and any number of them.                                        *)
(***************************************************************************)
Names == {r.name : r \in Requests}
         \cup {"initialized", "paused", "breakpoint", "stepped", "thread", "error"}

Messages(kinds) == [kind : kinds, name : Names, data : SUBSET Nat]

Answers == Messages({"response", "error", "event"})

Logs == Messages({"request", "response", "error", "event"})

DebuggerTypes ==
    /\ line \in 1..NumSourceLines
    /\ sent \in Seq(Requests) /\ received \in Seq(Requests) /\ Len(received) <= 1
    /\ inbox \in Seq(Requests) /\ handling \in Seq(Requests) /\ todo \in Seq(Answers)
    /\ sendMutex \in {"free", "dispatch", "main"}
    /\ stdout \in Seq(Answers) /\ log \in Seq(Logs)
    /\ sendMutex # "free" => stdout # <<>>
    /\ configured \in BOOLEAN /\ terminate \in BOOLEAN
    /\ alive \in BOOLEAN /\ dangling \in BOOLEAN

(* What the queue and the receiving thread hold of an orderly client are   *)
(* the last requests it has sent.  main() gets past terminate only when    *)
(* they hold nothing, as the request that fires it is the last.            *)
Lifetime ==
    Orderly =>
        /\ Len(inbox) + Len(received) <= Len(sent)
        /\ \A i \in 1..Len(inbox) :
              inbox[i] = sent[Len(sent) - Len(received) - Len(inbox) + i]
        /\ received # <<>> => received[1] = sent[Len(sent)]
        /\ terminate => /\ inbox = <<>> /\ received = <<>>
                        /\ sent # <<>> /\ Terminates(sent[Len(sent)])
        /\ mpc \in {"return", "~Impl"} => terminate
        /\ ~alive => mpc = "~Impl"
        /\ ~dangling

DebuggerInv == DebuggerTypes /\ LogFollowsStdout /\ Lifetime
-----------------------------------------------------------------------------
(* A set of numbers that is not empty has a least one.                     *)
LEMMA MinIsLeast ==
    ASSUME NEW S \in SUBSET Nat, S # {}
    PROVE  Min(S) \in S /\ \A y \in S : Min(S) <= y
<1> DEFINE R == {ss \in Nat \X Nat : ss[1] < ss[2]}
<1>1. IsWellFoundedOn(R, Nat)
  BY ZenonT(40), NatLessThanWellFounded DEF OpToRel
<1>2. PICK x \in S : \A y \in S : ~(<<y, x>> \in R)
  BY ZenonT(40), <1>1, WFMin
<1>3. \A y \in S : x <= y
  <2>1. TAKE y \in S
  <2>2. ~(y < x)
    BY ZenonT(40), <1>2
  <2> QED
    BY <2>2
<1> QED
  BY ZenonT(40), <1>3 DEF Min

(* run() looks at the line that is i lines further on as the i-th one.     *)
LEMMA AheadIsAhead ==
    ASSUME NEW l \in 1..NumSourceLines, NEW i \in 1..NumSourceLines
    PROVE  Ahead(l)[i] = IF l + i <= NumSourceLines THEN l + i ELSE l + i - NumSourceLines
<1> DEFINE n == NumSourceLines
<1>1. n \in Nat /\ n > 0
  BY LinesAssumption
<1>2. CASE l + i <= n
  <2>1. (l + i - 1) % n = l + i - 1
    BY <1>1, <1>2
  <2> QED
    BY <2>1, <1>2 DEF Ahead
<1>3. CASE l + i > n
  <2>1. (l + i - 1) % n = l + i - 1 - n
    BY <1>1, <1>3
  <2> QED
    BY <1>1, <2>1, <1>3 DEF Ahead
<1> QED
  BY <1>1, <1>2, <1>3

(* The i-th line is at distance i, and every line is the one its distance  *)
(* says.                                                                   *)
LEMMA AheadIsAtDistance ==
    ASSUME NEW l \in 1..NumSourceLines
    PROVE  /\ \A i \in 1..NumSourceLines :
                 Ahead(l)[i] \in 1..NumSourceLines /\ Distance(l, Ahead(l)[i]) = i
           /\ \A y \in 1..NumSourceLines :
                 Distance(l, y) \in 1..NumSourceLines /\ Ahead(l)[Distance(l, y)] = y
<1>1. NumSourceLines \in Nat \ {0}
  BY LinesAssumption
<1>2. \A i \in 1..NumSourceLines :
          Ahead(l)[i] = IF l + i <= NumSourceLines THEN l + i ELSE l + i - NumSourceLines
  BY AheadIsAhead
<1>3. \A y \in 1..NumSourceLines : Distance(l, y) \in 1..NumSourceLines
  BY <1>1 DEF Distance
<1> QED
  BY <1>1, <1>2, <1>3 DEF Distance

(* What run() finds is the breakpoint at the least distance.               *)
LEMMA RunsToNearest ==
    ASSUME NEW l \in 1..NumSourceLines, NEW b
    PROVE  \/ b \cap 1..NumSourceLines = {} /\ RunsTo(l, b) = {}
           \/ \E x \in b \cap 1..NumSourceLines :
                 /\ RunsTo(l, b) = {x}
                 /\ \A y \in b \cap 1..NumSourceLines : Distance(l, x) <= Distance(l, y)
<1> DEFINE N == 1..NumSourceLines
           hits == {i \in N : Ahead(l)[i] \in b}
<1>1. hits \in SUBSET Nat
  BY LinesAssumption
<1>2. \A y \in b \cap N : Distance(l, y) \in hits
  BY ZenonT(40), AheadIsAtDistance
<1>3. CASE hits = {}
  BY <1>2, <1>3 DEF RunsTo
<1>4. CASE hits # {}
  <2> DEFINE x == Ahead(l)[Min(hits)]
  <2>1. Min(hits) \in hits /\ \A y \in hits : Min(hits) <= y
    BY <1>1, <1>4, MinIsLeast
  <2>2. x \in b \cap N /\ Distance(l, x) = Min(hits)
    BY ZenonT(40), <2>1, AheadIsAtDistance
  <2>3. \A y \in b \cap N : Distance(l, x) <= Distance(l, y)
    BY <2>1, <2>2, <1>2
  <2>4. RunsTo(l, b) = {x}
    BY <1>4 DEF RunsTo
  <2> QED
    BY <2>2, <2>3, <2>4
<1> QED
  BY <1>3, <1>4
-----------------------------------------------------------------------------
(* Continue puts the debugger on the nearest line with a breakpoint.       *)
LEMMA ContinueMoves ==
    ASSUME DebuggerTypes, NEW r \in Requests, r.name = "continue", Control(r)
    PROVE  /\ line' \in 1..NumSourceLines /\ todo' \in Seq(Answers)
           /\ UNCHANGED <<breakpoints, configured, terminate>>
           /\ LET reachable == breakpoints \cap 1..NumSourceLines
              IN  IF reachable = {} THEN line' = line
                  ELSE /\ line' \in reachable
                       /\ \A b \in reachable : Distance(line, line') <= Distance(line, b)
<1> DEFINE hit == RunsTo(line, breakpoints)
           reachable == breakpoints \cap 1..NumSourceLines
<1>1. /\ line' = IF hit = {} THEN line ELSE CHOOSE l \in hit : TRUE
      /\ todo' = (IF hit = {} THEN <<>> ELSE <<Event("breakpoint")>>) \o <<Response(r.name, {})>>
      /\ UNCHANGED <<breakpoints, configured, terminate>>
  BY ZenonT(40) DEF Control
<1>2. Response(r.name, {}) \in Answers /\ Event("breakpoint") \in Answers
  <2>1. r.name \in Names /\ "breakpoint" \in Names
    BY DEF Names
  <2> QED
    BY <2>1 DEF Response, Event, Message, Answers, Messages
<1>3. todo' \in Seq(Answers)
  BY <1>1, <1>2
<1>4. line \in 1..NumSourceLines
  BY DEF DebuggerTypes
<1>5. CASE hit = {}
  <2>1. reachable = {}
    BY ZenonT(40), <1>4, <1>5, RunsToNearest
  <2> QED
    BY <1>1, <1>3, <1>4, <1>5, <2>1
<1>6. CASE hit # {}
  <2>1. PICK x \in reachable : /\ hit = {x}
                               /\ \A y \in reachable : Distance(line, x) <= Distance(line, y)
    BY ZenonT(40), <1>4, <1>6, RunsToNearest
  <2>2. line' = x
    BY <1>1, <1>6, <2>1
  <2> QED
    BY ZenonT(40), <1>1, <1>3, <2>1, <2>2
<1> QED
  BY <1>5, <1>6

(* One or two elements of a set make a sequence over it.                   *)
LEMMA OneOrTwo ==
    ASSUME NEW S, NEW a \in S, NEW b \in S
    PROVE  <<a>> \in Seq(S) /\ <<a, b>> \in Seq(S)
OBVIOUS

(* A handler leaves the debugger on a source line and sends answers and    *)
(* events only; terminate is fired by a disconnect that asks for it.       *)
LEMMA HandlersAreTyped ==
    ASSUME DebuggerTypes, NEW r \in Requests, Inspect(r) \/ Control(r)
    PROVE  /\ line' \in 1..NumSourceLines /\ todo' \in Seq(Answers)
           /\ configured' \in BOOLEAN /\ terminate' = (terminate \/ Terminates(r))
<1> USE DEF DebuggerTypes, debuggerVars
<1>1. r.name \in Names /\ r.data \in SUBSET Nat
  BY RequestsAssumption DEF Names
<1>2. NumSourceLines \in Nat \ {0}
  BY LinesAssumption
<1>3. CASE Inspect(r)
  <2>1. line' = line /\ configured' = configured /\ terminate' = terminate /\ ~Terminates(r)
    BY <1>3 DEF Inspect, Terminates
  <2>2. todo' \in Seq(Answers)
    <3>1. \A A \in Seq(Answers), a \in Answers : <<a>> \o A \in Seq(Answers) /\ <<a>> \in Seq(Answers)
      OBVIOUS
    <3>2. Response(r.name, {}) \in Answers /\ Response(r.name, {line}) \in Answers
          /\ Event("initialized") \in Answers /\ Message("error", r.name, {}) \in Answers
      <4>1. "initialized" \in Names
        BY DEF Names
      <4> QED
        BY <1>1, <1>2, <4>1 DEF Response, Event, Message, Answers, Messages
    <3>3. CASE r.name \in {"initialize", "threads"}
      <4>1. todo' = <<Response(r.name, {})>>
                    \o IF r.name = "initialize" THEN <<Event("initialized")>> ELSE <<>>
        BY ZenonT(40), <1>3, <3>3 DEF Inspect
      <4>2. <<>> \in Seq(Answers) /\ <<Event("initialized")>> \in Seq(Answers)
        BY <3>2
      <4> QED
        BY ZenonT(40), <3>1, <3>2, <4>1, <4>2
    <3>4. CASE r.name \notin {"initialize", "threads"}
      BY ZenonT(40), <1>3, <3>1, <3>2, <3>4 DEF Inspect
    <3> QED
      BY <3>3, <3>4
  <2> QED
    BY <2>1, <2>2, ZenonT(40)
<1>4. CASE Control(r) /\ r.name = "continue"
  BY ZenonT(40), <1>4, ContinueMoves DEF Terminates
<1>5. CASE Control(r) /\ r.name # "continue"
  <2>1. todo' \in Seq(Answers)
    <3>1. Verified(r.data) \in SUBSET Nat
      BY <1>1, ZenonT(40) DEF Verified
    <3>2. /\ Event("paused") \in Answers /\ Event("stepped") \in Answers
          /\ Response(r.name, {}) \in Answers /\ Response(r.name, Verified(r.data)) \in Answers
          /\ Message("error", r.name, {}) \in Answers
      <4>1. "paused" \in Names /\ "stepped" \in Names
        BY DEF Names
      <4> QED
        BY <1>1, <3>1, <4>1 DEF Response, Event, Message, Answers, Messages
    <3>3. \A a, b \in Answers : <<a>> \in Seq(Answers) /\ <<a, b>> \in Seq(Answers)
      BY OneOrTwo, ZenonT(40)
    <3> QED
      BY ZenonT(40), <1>5, <3>2, <3>3 DEF Control
  <2>2. line' \in 1..NumSourceLines
    <3>1. line' = line \/ StepForward
      BY ZenonT(40), <1>5 DEF Control
    <3> QED
      BY <1>2, <3>1 DEF StepForward
  <2>3. configured' \in BOOLEAN
    BY ZenonT(40), <1>5 DEF Control
  <2>4. terminate' = (terminate \/ Terminates(r))
    BY ZenonT(40), <1>5 DEF Control, Terminates
  <2> QED
    BY <2>1, <2>2, <2>3, <2>4
<1> QED
  BY <1>3, <1>4, <1>5
-----------------------------------------------------------------------------
(* The types, action by action.                                            *)
LEMMA TypesKept ==
    ASSUME DebuggerTypes, [DebuggerNext]_allVars
    PROVE  DebuggerTypes'
<1> USE DEF DebuggerTypes, debuggerVars, mainVars, recvVars, dispatchVars, writeVars
<1>1. Requests \subseteq Logs /\ Answers \subseteq Logs
  BY RequestsAssumption DEF Logs, Answers, Messages, Message, Names
<1>2. \A n \in {"error", "thread", "paused"} : Event(n) \in Answers
  BY DEF Event, Message, Answers, Messages, Names
<1>3. CASE UNCHANGED allVars
  BY <1>3 DEF allVars
<1>4. ASSUME NEW r \in Requests, Receive(r)
      PROVE  DebuggerTypes'
  BY <1>4 DEF Receive
<1>5. CASE HandOver
  BY <1>1, <1>5 DEF HandOver, Logged
<1>6. CASE OnError
  <2>1. log' \in Seq(Logs)
    BY <1>1, <1>2, <1>6 DEF OnError
  <2> QED
    BY <1>6, <2>1 DEF OnError
<1>7. CASE Dispatch
  <2>1. Head(inbox) \in Requests /\ Tail(inbox) \in Seq(Requests)
    BY <1>7 DEF Dispatch
  <2>2. Inspect(Head(inbox)) \/ Control(Head(inbox))
    BY <1>7 DEF Dispatch
  <2>3. /\ line' \in 1..NumSourceLines /\ todo' \in Seq(Answers)
        /\ configured' \in BOOLEAN /\ terminate' \in BOOLEAN
    BY <2>1, <2>2, HandlersAreTyped, ZenonT(40)
  <2>4. dangling' \in BOOLEAN /\ UNCHANGED <<alive, mpc, running, recvVars, writeVars>>
    BY ZenonT(40), <1>7 DEF Dispatch
  <2> QED
    BY <1>7, <2>1, <2>3, <2>4 DEF Dispatch
<1>8. CASE HandlerSends
  BY <1>8 DEF HandlerSends, Writes
<1>9. ASSUME NEW who \in {"dispatch", "main"}, Copies(who)
      PROVE  DebuggerTypes'
  <2>1. stdout[Len(stdout)] \in Answers
    BY <1>9 DEF Copies
  <2> QED
    BY <1>1, <1>9, <2>1 DEF Copies, Logged
<1>10. CASE HandlerEnds \/ DispatchEnds
  BY <1>10 DEF HandlerEnds, DispatchEnds
<1>11. CASE MainWaits \/ MainReturns
  BY <1>11, ZenonT(40) DEF MainWaits, MainReturns
<1>12. CASE MainSends
  <2>1. PICK n \in {"thread", "paused"} : Writes("main", Event(n))
    BY ZenonT(40), <1>12 DEF MainSends
  <2>2. UNCHANGED <<debuggerVars, configured, terminate, alive, recvVars, dispatchVars>>
    BY ZenonT(40), <1>12 DEF MainSends
  <2> QED
    BY <1>2, <2>1, <2>2 DEF Writes
<1> QED
  BY <1>3, <1>4, <1>5, <1>6, <1>7, <1>8, <1>9, <1>10, <1>11, <1>12
     DEF DebuggerNext, RecvSteps, DispatchSteps, MainSteps
-----------------------------------------------------------------------------
(* What is appended to a log does not change the numbers of the messages   *)
(* before it, and gets the next number if it was written.                  *)
LEMMA WrittenGrows ==
    ASSUME NEW l \in Seq(Logs), NEW m \in Logs
    PROVE  /\ Written(l, Len(l)) \in Nat
           /\ \A i \in 1..Len(l) : Written(Append(l, m), i) = Written(l, i)
           /\ Written(Append(l, m), Len(l) + 1) =
                Written(l, Len(l)) + IF m.kind # "request" THEN 1 ELSE 0
<1> DEFINE k == Append(l, m)
           S(s, i) == {j \in 1..i : s[j].kind # "request"}
<1>1. Len(l) \in Nat /\ Len(k) = Len(l) + 1 /\ k[Len(l) + 1] = m
      /\ \A j \in 1..Len(l) : k[j] = l[j]
  OBVIOUS
<1>2. \A i \in 1..Len(l) : S(k, i) = S(l, i)
  BY <1>1
<1>3. S(k, Len(l) + 1) = S(l, Len(l)) \cup (IF m.kind # "request" THEN {Len(l) + 1} ELSE {})
  BY <1>1
<1>4. IsFiniteSet(S(l, Len(l))) /\ Cardinality(S(l, Len(l))) \in Nat
  <2>1. S(l, Len(l)) \in SUBSET (1..Len(l))
    OBVIOUS
  <2>2. IsFiniteSet(1..Len(l))
    BY <1>1, FS_Interval
  <2> HIDE DEF S
  <2> QED
    BY ZenonT(40), <2>1, <2>2, FS_Subset, FS_CardinalityType
<1>5. Len(l) + 1 \notin S(l, Len(l))
  BY <1>1
<1>6. Cardinality(S(k, Len(l) + 1)) =
        Cardinality(S(l, Len(l))) + IF m.kind # "request" THEN 1 ELSE 0
  <2>1. CASE m.kind = "request"
    <3>1. S(k, Len(l) + 1) = S(l, Len(l))
      BY <1>3, <2>1
    <3> HIDE DEF S
    <3> QED
      BY <1>4, <2>1, <3>1
  <2>2. CASE m.kind # "request"
    <3>1. S(k, Len(l) + 1) = S(l, Len(l)) \cup {Len(l) + 1}
      BY <1>3, <2>2
    <3> HIDE DEF S
    <3> QED
      BY <1>4, <1>5, <2>2, <3>1, FS_AddElement, ZenonT(40)
  <2> QED
    BY <2>1, <2>2, ZenonT(40)
<1>7. \A s, i : Written(s, i) = Cardinality(S(s, i))
  BY ZenonT(40) DEF Written
<1> HIDE DEF S
<1> QED
  BY <1>2, <1>4, <1>6, <1>7

(* The number of a written message is one of those given so far.           *)
LEMMA WrittenIsBounded ==
    ASSUME NEW l \in Seq(Logs), NEW i \in 1..Len(l), l[i].kind # "request"
    PROVE  Written(l, i) \in 1..Written(l, Len(l))
<1> DEFINE S(n) == {j \in 1..n : l[j].kind # "request"}
<1>1. S(i) \in SUBSET S(Len(l)) /\ S(Len(l)) \in SUBSET (1..Len(l)) /\ i \in S(i)
  OBVIOUS
<1>2. IsFiniteSet(1..Len(l))
  <2>1. 1 \in Int /\ Len(l) \in Int
    OBVIOUS
  <2> QED
    BY <2>1, FS_Interval, ZenonT(40)
<1>3. \A n : Written(l, n) = Cardinality(S(n))
  BY ZenonT(40) DEF Written
<1> HIDE DEF S
<1>4. IsFiniteSet(S(Len(l))) /\ IsFiniteSet(S(i))
  BY ZenonT(40), <1>1, <1>2, FS_Subset
<1>5. Cardinality(S(i)) <= Cardinality(S(Len(l)))
  BY ZenonT(40), <1>1, <1>4, FS_Subset
<1>6. Cardinality(S(i)) \in Nat /\ Cardinality(S(Len(l))) \in Nat
  BY ZenonT(40), <1>4, FS_CardinalityType
<1>7. Cardinality(S(i)) # 0
  BY ZenonT(40), <1>1, <1>4, FS_EmptySet
<1> QED
  BY <1>3, <1>5, <1>6, <1>7

(* A message is written: its copy is still to be made.                     *)
LEMMA WritesKeepLog ==
    ASSUME DebuggerTypes, LogFollowsStdout, NEW who \in {"dispatch", "main"}, NEW m, Writes(who, m)
    PROVE  LogFollowsStdout'
<1> SUFFICES ASSUME logging' = "open"
             PROVE  /\ Written(log', Len(log')) =
                         Len(stdout') - IF sendMutex' = "free" THEN 0 ELSE 1
                    /\ \A i \in 1..Len(log') :
                         log'[i].kind # "request" => log'[i] = stdout'[Written(log', i)]
  BY ZenonT(40) DEF LogFollowsStdout
<1>1. /\ sendMutex = "free" /\ sendMutex' = who /\ who # "free"
      /\ log' = log /\ stdout' = Append(stdout, m)
  BY ZenonT(40) DEF Writes
<1>2. log \in Seq(Logs) /\ stdout \in Seq(Answers)
  BY DEF DebuggerTypes
<1>3. /\ Written(log, Len(log)) = Len(stdout)
      /\ \A i \in 1..Len(log) : log[i].kind # "request" => log[i] = stdout[Written(log, i)]
  BY <1>1, <1>2 DEF LogFollowsStdout, Writes
<1>4. Written(log', Len(log')) = Len(stdout') - 1
  BY <1>1, <1>2, <1>3
<1>5. ASSUME NEW i \in 1..Len(log), log[i].kind # "request"
      PROVE  log[i] = stdout'[Written(log, i)]
  <2>1. Written(log, i) \in 1..Len(stdout)
    BY <1>2, <1>3, <1>5, WrittenIsBounded, ZenonT(40)
  <2> QED
    BY <1>1, <1>2, <1>3, <1>5, <2>1
<1> QED
  BY <1>1, <1>4, <1>5, ZenonT(40)

(* A message is copied to the log: by the thread that has written it, and  *)
(* before another is written.                                              *)
LEMMA CopiesKeepLog ==
    ASSUME DebuggerTypes, LogFollowsStdout, NEW who \in {"dispatch", "main"}, Copies(who)
    PROVE  LogFollowsStdout'
<1> SUFFICES ASSUME logging' = "open"
             PROVE  /\ Written(log', Len(log')) =
                         Len(stdout') - IF sendMutex' = "free" THEN 0 ELSE 1
                    /\ \A i \in 1..Len(log') :
                         log'[i].kind # "request" => log'[i] = stdout'[Written(log', i)]
  BY ZenonT(40) DEF LogFollowsStdout
<1> DEFINE m == stdout[Len(stdout)]
<1>1. /\ sendMutex # "free" /\ sendMutex' = "free" /\ logging = "open"
      /\ log' = Append(log, m) /\ stdout' = stdout
  BY ZenonT(40) DEF Copies, Logged
<1>2. log \in Seq(Logs) /\ stdout \in Seq(Answers) /\ stdout # <<>>
  BY <1>1 DEF DebuggerTypes
<1>3. m \in Logs /\ m.kind # "request" /\ m = stdout[Len(stdout)]
  <2>1. m = stdout[Len(stdout)] /\ m \in Answers
    BY <1>2
  <2> QED
    BY <2>1 DEF Answers, Logs, Messages
<1>4. /\ Written(log, Len(log)) = Len(stdout) - 1
      /\ \A i \in 1..Len(log) : log[i].kind # "request" => log[i] = stdout[Written(log, i)]
  BY <1>1, <1>2 DEF LogFollowsStdout
<1> HIDE DEF m
<1>5. /\ \A i \in 1..Len(log) : Written(log', i) = Written(log, i)
      /\ Written(log', Len(log) + 1) = Len(stdout)
  BY <1>1, <1>2, <1>3, <1>4, WrittenGrows
<1>6. Len(log') = Len(log) + 1 /\ log'[Len(log) + 1] = m /\ Len(log) \in Nat
      /\ \A i \in 1..Len(log) : log'[i] = log[i]
  BY <1>1, <1>2, <1>3
<1>7. \A i \in 1..Len(log') : i \in 1..Len(log) \/ i = Len(log) + 1
  BY <1>6
<1> QED
  BY <1>1, <1>3, <1>4, <1>5, <1>6, <1>7

(* A request is copied to the log before it is handed over.                *)
LEMMA HandOverKeepsLog ==
    ASSUME DebuggerTypes, LogFollowsStdout, HandOver
    PROVE  LogFollowsStdout'
<1> SUFFICES ASSUME logging' = "open"
             PROVE  /\ Written(log', Len(log')) =
                         Len(stdout') - IF sendMutex' = "free" THEN 0 ELSE 1
                    /\ \A i \in 1..Len(log') :
                         log'[i].kind # "request" => log'[i] = stdout'[Written(log', i)]
  BY ZenonT(40) DEF LogFollowsStdout
<1> DEFINE m == received[1]
<1>1. /\ logging = "open" /\ log' = Append(log, m) /\ UNCHANGED <<stdout, sendMutex>>
  BY ZenonT(40) DEF HandOver, Logged
<1>2. log \in Seq(Logs) /\ m \in Requests
  BY DEF DebuggerTypes, HandOver
<1>3. m \in Logs /\ m.kind = "request"
  BY <1>2, RequestsAssumption DEF Logs, Messages, Message, Names
<1>4. /\ Written(log, Len(log)) = Len(stdout) - IF sendMutex = "free" THEN 0 ELSE 1
      /\ \A i \in 1..Len(log) : log[i].kind # "request" => log[i] = stdout[Written(log, i)]
  BY ZenonT(40), <1>1 DEF LogFollowsStdout
<1> HIDE DEF m
<1>5. /\ \A i \in 1..Len(log) : Written(log', i) = Written(log, i)
      /\ Written(log', Len(log) + 1) = Written(log, Len(log))
  BY <1>1, <1>2, <1>3, WrittenGrows
<1>6. Len(log') = Len(log) + 1 /\ log'[Len(log) + 1] = m /\ Len(log) \in Nat
      /\ \A i \in 1..Len(log) : log'[i] = log[i]
  BY <1>1, <1>2, <1>3
<1>7. \A i \in 1..Len(log') : i \in 1..Len(log) \/ i = Len(log) + 1
  BY <1>6
<1> QED
  BY <1>1, <1>3, <1>4, <1>5, <1>6, <1>7

LEMMA LogKept ==
    ASSUME DebuggerTypes, LogFollowsStdout, [DebuggerNext]_allVars
    PROVE  LogFollowsStdout'
<1> USE DEF allVars, debuggerVars, mainVars, recvVars, dispatchVars, writeVars
<1>1. CASE UNCHANGED <<sendMutex, stdout, log, logging>>
  BY ZenonT(40), <1>1 DEF LogFollowsStdout
<1>2. CASE OnError
  BY ZenonT(40), <1>2 DEF OnError, LogFollowsStdout
<1>3. UNCHANGED allVars \/ (\E r \in Requests : Receive(r)) \/ Dispatch \/ HandlerEnds
      \/ DispatchEnds \/ MainWaits \/ MainReturns
      => UNCHANGED <<sendMutex, stdout, log, logging>>
  BY ZenonT(40) DEF Receive, Dispatch, HandlerEnds, DispatchEnds, MainWaits, MainReturns
<1>4. HandlerSends \/ MainSends => \E who \in {"dispatch", "main"} : \E m : Writes(who, m)
  BY ZenonT(40) DEF HandlerSends, MainSends
<1> QED
  BY ZenonT(40), <1>1, <1>2, <1>3, <1>4, WritesKeepLog, CopiesKeepLog, HandOverKeepsLog
     DEF DebuggerNext, RecvSteps, DispatchSteps, MainSteps
-----------------------------------------------------------------------------
(* A queue that is not empty has a first element.                          *)
LEMMA HasFirst ==
    ASSUME NEW S, NEW q \in Seq(S), q # <<>>
    PROVE  Len(q) \in Nat \ {0} /\ Head(q) \in S /\ Head(q) = q[1]
OBVIOUS

(* A client that is orderly now was orderly before it sent the last        *)
(* request.                                                                *)
LEMMA ReceiveKeepsLifetime ==
    ASSUME DebuggerTypes, Lifetime, NEW r \in Requests, Receive(r)
    PROVE  Lifetime'
<1> SUFFICES ASSUME Orderly'
             PROVE  Lifetime'
  BY DEF Lifetime
<1>1. /\ received = <<>> /\ received' = <<r>> /\ sent' = Append(sent, r)
      /\ UNCHANGED <<inbox, terminate, mpc, alive, dangling>>
  BY DEF Receive, mainVars, dispatchVars
<1>2. sent \in Seq(Requests) /\ inbox \in Seq(Requests) /\ Len(sent) \in Nat /\ Len(inbox) \in Nat
  BY DEF DebuggerTypes
<1>3. Len(sent') = Len(sent) + 1 /\ sent'[Len(sent) + 1] = r
      /\ \A i \in 1..Len(sent) : sent'[i] = sent[i]
  BY <1>1, <1>2
<1>4. \A i \in 1..Len(sent) : Handled(sent[i]) /\ ~Terminates(sent[i])
  <2>1. \A i \in 1..Len(sent) : i \in DOMAIN sent' /\ i # Len(sent')
    BY <1>1, <1>2
  <2> QED
    BY ZenonT(40), <1>3, <2>1 DEF Orderly
<1>5. Orderly
  BY <1>2, <1>4 DEF Orderly
<1>6. ~terminate
  BY <1>2, <1>4, <1>5 DEF Lifetime
<1> QED
  BY <1>1, <1>2, <1>3, <1>5, <1>6 DEF Lifetime

LEMMA HandOverKeepsLifetime ==
    ASSUME DebuggerTypes, Lifetime, HandOver
    PROVE  Lifetime'
<1> SUFFICES ASSUME Orderly'
             PROVE  Lifetime'
  BY DEF Lifetime
<1>1. /\ received # <<>> /\ received' = <<>> /\ inbox' = Append(inbox, received[1])
      /\ UNCHANGED <<sent, terminate, mpc, alive, dangling>>
  BY DEF HandOver, mainVars, debuggerVars
<1>2. /\ sent \in Seq(Requests) /\ inbox \in Seq(Requests) /\ received \in Seq(Requests)
      /\ Len(sent) \in Nat /\ Len(inbox) \in Nat /\ Len(received) = 1
  <2>1. /\ sent \in Seq(Requests) /\ inbox \in Seq(Requests) /\ received \in Seq(Requests)
        /\ Len(received) <= 1
    BY ZenonT(40) DEF DebuggerTypes
  <2>2. Len(received) \in Nat \ {0}
    BY ZenonT(40), <1>1, <2>1, HasFirst
  <2>3. Len(sent) \in Nat /\ Len(inbox) \in Nat
    BY <2>1
  <2>4. \A n \in Nat \ {0} : n <= 1 => n = 1
    OBVIOUS
  <2> QED
    BY ZenonT(40), <2>1, <2>2, <2>3, <2>4
<1>3. Orderly
  BY ZenonT(40), <1>1 DEF Orderly
<1>4. ~terminate
  BY <1>1, <1>3 DEF Lifetime
<1>5. /\ Len(inbox') = Len(inbox) + 1 /\ inbox'[Len(inbox) + 1] = sent[Len(sent)]
      /\ \A i \in 1..Len(inbox) : inbox'[i] = sent[Len(sent) - 1 - Len(inbox) + i]
      /\ Len(inbox) + 1 <= Len(sent)
  BY <1>1, <1>2, <1>3 DEF Lifetime
<1> QED
  BY <1>1, <1>2, <1>3, <1>4, <1>5 DEF Lifetime

(* The request that fires terminate is the last that an orderly client     *)
(* sends, so it is alone in the queue.                                     *)
LEMMA DispatchKeepsLifetime ==
    ASSUME DebuggerTypes, Lifetime, Dispatch
    PROVE  Lifetime'
<1> SUFFICES ASSUME Orderly'
             PROVE  Lifetime'
  BY DEF Lifetime
<1> DEFINE r == Head(inbox)
<1>1. /\ inbox # <<>> /\ inbox' = Tail(inbox) /\ dangling' = (dangling \/ ~alive)
      /\ UNCHANGED <<sent, received, mpc, alive>>
  BY DEF Dispatch, recvVars
<1>2. /\ sent \in Seq(Requests) /\ inbox \in Seq(Requests) /\ received \in Seq(Requests)
      /\ Len(sent) \in Nat /\ Len(inbox) \in Nat \ {0} /\ Len(received) \in 0..1
      /\ r \in Requests
  <2>1. /\ sent \in Seq(Requests) /\ inbox \in Seq(Requests) /\ received \in Seq(Requests)
        /\ Len(received) <= 1
    BY ZenonT(40) DEF DebuggerTypes
  <2>2. Len(inbox) \in Nat \ {0} /\ r \in Requests
    BY ZenonT(40), <1>1, <2>1, HasFirst
  <2>3. Len(sent) \in Nat /\ Len(received) \in Nat
    BY <2>1
  <2>4. \A n \in Nat : n <= 1 => n \in 0..1
    OBVIOUS
  <2> QED
    BY ZenonT(40), <2>1, <2>2, <2>3, <2>4
<1>3. terminate' = (terminate \/ Terminates(r))
  BY <1>2, HandlersAreTyped DEF Dispatch
<1>4. Orderly
  BY ZenonT(40), <1>1 DEF Orderly
<1>5. ~terminate /\ alive /\ ~dangling /\ mpc \notin {"return", "~Impl"}
  BY <1>1, <1>4 DEF Lifetime, DebuggerTypes
<1>6. /\ Len(inbox') = Len(inbox) - 1
      /\ \A i \in 1..Len(inbox') : inbox'[i] = inbox[i + 1]
  BY <1>1, <1>2
<1>7. r = sent[Len(sent) - Len(received) - Len(inbox) + 1]
      /\ Len(sent) - Len(received) - Len(inbox) + 1 \in 1..Len(sent)
  BY <1>2, <1>4 DEF Lifetime
<1>8. ASSUME Terminates(r)
      PROVE  inbox' = <<>> /\ received' = <<>> /\ sent' # <<>> /\ Terminates(sent'[Len(sent')])
  <2>1. Len(sent) - Len(received) - Len(inbox) + 1 = Len(sent)
    <3> DEFINE k == Len(sent) - Len(received) - Len(inbox) + 1
    <3>1. k \in DOMAIN sent /\ r = sent[k]
      BY <1>2, <1>7
    <3> HIDE DEF k, r
    <3>2. k = Len(sent)
      BY ZenonT(40), <1>4, <1>8, <3>1 DEF Orderly
    <3> QED
      BY <3>2 DEF k
  <2>2. \A a, c \in Nat : \A b \in 0..1 : c # 0 /\ a - b - c + 1 = a => b = 0 /\ c = 1
    OBVIOUS
  <2>3. Len(received) = 0 /\ Len(inbox) = 1
    <3> HIDE DEF r
    <3> QED
      BY <1>2, <2>1, <2>2, ZenonT(40)
  <2> QED
    BY <1>1, <1>2, <1>6, <1>7, <1>8, <2>1, <2>3
<1>9. /\ Len(inbox') + Len(received') <= Len(sent')
      /\ \A i \in 1..Len(inbox') :
            inbox'[i] = sent'[Len(sent') - Len(received') - Len(inbox') + i]
      /\ received' # <<>> => received'[1] = sent'[Len(sent')]
  BY <1>1, <1>2, <1>4, <1>6 DEF Lifetime
<1> QED
  BY <1>1, <1>3, <1>5, <1>8, <1>9, ZenonT(40) DEF Lifetime

LEMMA LifetimeKept ==
    ASSUME DebuggerTypes, Lifetime, [DebuggerNext]_allVars
    PROVE  Lifetime'
<1> USE DEF allVars, debuggerVars, mainVars, recvVars, dispatchVars, writeVars
<1>1. CASE OnError
  <2>1. sent # <<>> /\ received[1] = sent[Len(sent)] => ~Orderly
    BY <1>1 DEF OnError, Orderly, DebuggerTypes
  <2>2. ~Orderly
    BY <1>1, <2>1 DEF OnError, Lifetime, DebuggerTypes
  <2> QED
    BY ZenonT(40), <1>1, <2>2 DEF OnError, Lifetime, Orderly
<1>2. CASE UNCHANGED <<sent, received, inbox, terminate, mpc, alive, dangling>>
  BY ZenonT(40), <1>2 DEF Lifetime, Orderly
<1>3. CASE MainWaits \/ MainSends \/ MainReturns
  BY ZenonT(40), <1>3 DEF MainWaits, MainSends, MainReturns, MainGoes, Lifetime, Orderly,
     DebuggerTypes
<1>4. UNCHANGED allVars \/ HandlerSends \/ HandlerEnds \/ DispatchEnds
      \/ Copies("dispatch") \/ Copies("main")
      => UNCHANGED <<sent, received, inbox, terminate, mpc, alive, dangling>>
  BY ZenonT(40) DEF HandlerSends, HandlerEnds, DispatchEnds, Copies
<1> QED
  BY ZenonT(40), <1>1, <1>2, <1>3, <1>4, ReceiveKeepsLifetime, HandOverKeepsLifetime,
     DispatchKeepsLifetime DEF DebuggerNext, RecvSteps, DispatchSteps, MainSteps
-----------------------------------------------------------------------------
LEMMA DebuggerInvHolds == DebuggerSpec => []DebuggerInv
<1>1. DebuggerInit => DebuggerInv
  <2>1. DebuggerInit => DebuggerTypes
    <3>1. 1 \in 1..NumSourceLines
      BY LinesAssumption
    <3>2. <<>> \in Seq(Requests) /\ <<>> \in Seq(Answers) /\ <<>> \in Seq(Logs) /\ Len(<<>>) <= 1
      OBVIOUS
    <3> QED
      BY ZenonT(40), <3>1, <3>2 DEF DebuggerInit, DebuggerTypes
  <2>2. DebuggerInit => LogFollowsStdout
    BY FS_EmptySet DEF DebuggerInit, LogFollowsStdout, Written
  <2>3. DebuggerInit => Lifetime
    BY DEF DebuggerInit, Lifetime
  <2> QED
    BY <2>1, <2>2, <2>3 DEF DebuggerInv
<1>2. DebuggerInv /\ [DebuggerNext]_allVars => DebuggerInv'
  BY TypesKept, LogKept, LifetimeKept DEF DebuggerInv
<1> QED
  BY <1>1, <1>2, PTL DEF DebuggerSpec

(* Whatever the two spies of io.cpp copy, and however the receiving and    *)
(* the sending threads interleave, an open log has the messages written to *)
(* stdout in their order: the copy is made under Impl::sendMutex.          *)
THEOREM LogIsInOrder == DebuggerSpec => []LogFollowsStdout
<1>1. DebuggerInv => LogFollowsStdout
  BY DEF DebuggerInv
<1> QED
  BY <1>1, DebuggerInvHolds, PTL

(* For every sequence of requests: no handler of hello_debugger.cpp runs   *)
(* after main() has destroyed debugger and the events, if the client sends *)
(* nothing after the disconnect that terminates it.                        *)
THEOREM LocalsOutliveHandlers == DebuggerSpec => []UsesLiveLocals
<1>1. DebuggerInv => UsesLiveLocals
  BY DEF DebuggerInv, Lifetime, UsesLiveLocals
<1> QED
  BY <1>1, DebuggerInvHolds, PTL

(* For every number of lines and every set of breakpoints: Debugger::run() *)
(* stops at the breakpoint that comes first after the current line.        *)
THEOREM RunStopsAtNearest == DebuggerSpec => ContinueStopsAtNearest
<1> DEFINE Nearest ==
             handling = <<>> /\ handling' # <<>> /\ handling'[1].name = "continue" =>
                LET reachable == breakpoints \cap 1..NumSourceLines
                IN  IF reachable = {} THEN line' = line
                    ELSE /\ line' \in reachable
                         /\ \A b \in reachable : Distance(line, line') <= Distance(line, b)
<1>1. DebuggerInv /\ [DebuggerNext]_allVars => [Nearest]_allVars
  <2> SUFFICES ASSUME DebuggerInv, DebuggerNext, handling = <<>>, handling' # <<>>,
                      handling'[1].name = "continue"
               PROVE  Nearest
    BY ZenonT(40)
  <2>1. Dispatch
    BY ZenonT(40) DEF DebuggerNext, RecvSteps, DispatchSteps, MainSteps, Receive, HandOver, OnError,
       HandlerSends, Copies, HandlerEnds, DispatchEnds, MainWaits, MainSends, MainReturns,
       dispatchVars
  <2>2. DebuggerTypes /\ Head(inbox) \in Requests /\ handling' = <<Head(inbox)>>
    BY <2>1 DEF DebuggerInv, DebuggerTypes, Dispatch
  <2>3. Head(inbox).name = "continue"
    BY <2>2, ZenonT(40)
  <2>4. Control(Head(inbox))
    BY <2>1, <2>3 DEF Dispatch, Inspect
  <2> QED
    BY ZenonT(40), <2>2, <2>3, <2>4, ContinueMoves
<1> QED
  BY <1>1, DebuggerInvHolds, PTL DEF DebuggerSpec, ContinueStopsAtNearest
=============================================================================
