-------------------------------- MODULE Chan --------------------------------
(***************************************************************************)
(* Chan<T> of src/chan.h: an unbounded queue guarded by a mutex, with a    *)
(* condition variable that blocked takers sleep on.                        *)
(*                                                                         *)
(* Every method holds the mutex from its first to its last access, so each *)
(* is one step; only take() releases it, inside cv.wait().  A taker is     *)
(* "out" (not inside take), "asleep" in cv.wait(), or "woken": notified,   *)
(* or woken spuriously, and about to lock the mutex again and to           *)
(* re-evaluate the wait's predicate.                                       *)
(*                                                                         *)
(* An optional<T> is a sequence of at most one element.                    *)
(***************************************************************************)
EXTENDS Naturals, Sequences

CONSTANTS Threads,   \* the threads that call take()
          Values,    \* the values that are put
          MaxQueue   \* bound: no put() while this many values are queued

ASSUME MaxQueueAssumption == MaxQueue \in Nat \ {0}

VARIABLES queue, closed, taking, got

chanVars == <<queue, closed, taking, got>>

ChanInit ==
    /\ queue = <<>>
    /\ closed = FALSE
    /\ taking = [t \in Threads |-> "out"]
    /\ got = [t \in Threads |-> <<>>]

(* cv.notify_all(): every sleeper becomes runnable.                        *)
NotifyAll == [t \in Threads |-> IF taking[t] = "asleep" THEN "woken" ELSE taking[t]]

(* The predicate the taker waits for.                                      *)
Ready == queue # <<>> \/ closed

First(q) == IF q = <<>> THEN <<>> ELSE <<Head(q)>>

Rest(q) == IF q = <<>> THEN <<>> ELSE Tail(q)
-----------------------------------------------------------------------------
Reset ==
    /\ queue' = <<>>
    /\ closed' = FALSE
    /\ UNCHANGED <<taking, got>>

(* Mutant: sleepers are not notified.                                      *)
CloseNoNotify ==
    /\ closed' = TRUE
    /\ UNCHANGED <<queue, taking, got>>

Close ==
    /\ closed' = TRUE
    /\ taking' = NotifyAll
    /\ UNCHANGED <<queue, got>>

(* Mutant: put() wakes one sleeper instead of all of them.                 *)
PutNotifyOne(v) ==
    /\ Len(queue) < MaxQueue
    /\ queue' = Append(queue, v)
    /\ IF queue = <<>> /\ ~closed /\ \E t \in Threads : taking[t] = "asleep"
         THEN \E t \in Threads : taking[t] = "asleep" /\ taking' = [taking EXCEPT ![t] = "woken"]
         ELSE UNCHANGED taking
    /\ UNCHANGED <<closed, got>>

(* Sleepers are notified only by the put() that finds the queue empty.     *)
Put(v) ==
    /\ Len(queue) < MaxQueue
    /\ queue' = Append(queue, v)
    /\ taking' = IF queue = <<>> /\ ~closed THEN NotifyAll ELSE taking
    /\ UNCHANGED <<closed, got>>

(* Mutant: no loop around the wait, the taker believes the wakeup.         *)
ReturnUnchecked(t) ==
    /\ Ready \/ taking[t] = "woken"
    /\ got' = [got EXCEPT ![t] = First(queue)]
    /\ queue' = Rest(queue)
    /\ taking' = [taking EXCEPT ![t] = "out"]
    /\ UNCHANGED closed

(* take() once the predicate holds: pop the front, or answer nothing when  *)
(* the channel is closed and drained.                                      *)
Return(t) ==
    /\ Ready
    /\ got' = [got EXCEPT ![t] = First(queue)]
    /\ queue' = Rest(queue)
    /\ taking' = [taking EXCEPT ![t] = "out"]
    /\ UNCHANGED closed

(* take() while the predicate does not hold: release the mutex and sleep.  *)
Sleep(t) ==
    /\ ~Ready
    /\ taking' = [taking EXCEPT ![t] = "asleep"]
    /\ UNCHANGED <<queue, closed, got>>

Take(t) == taking[t] = "out" /\ (Return(t) \/ Sleep(t))

(* The rest of cv.wait() after a wakeup.                                   *)
RecheckTake(t) == taking[t] = "woken" /\ (Return(t) \/ Sleep(t))

(* Condition variables may wake a sleeper without a notification.          *)
WakeSpuriously(t) ==
    /\ taking[t] = "asleep"
    /\ taking' = [taking EXCEPT ![t] = "woken"]
    /\ UNCHANGED <<queue, closed, got>>

ChanNext ==
    \/ Reset
    \/ Close
    \/ \E v \in Values : Put(v)
    \/ \E t \in Threads : Take(t) \/ RecheckTake(t) \/ WakeSpuriously(t)

(* A woken thread is scheduled and gets the mutex in the end.  Nothing     *)
(* makes a caller put, close or take again.                                *)
ChanSpec == ChanInit /\ [][ChanNext]_chanVars /\ \A t \in Threads : WF_chanVars(RecheckTake(t))
-----------------------------------------------------------------------------
ChanTypes ==
    /\ queue \in Seq(Values)
    /\ closed \in BOOLEAN
    /\ taking \in [Threads -> {"out", "asleep", "woken"}]
    /\ got \in [Threads -> Seq(Values)]

(* No wakeup is lost, although put() (chan.h:68-86) notifies only when it  *)
(* finds the queue empty: whenever a value is queued or the channel is     *)
(* closed, nobody is left sleeping in take() without a notification.       *)
TakersAreWoken ==
    \A t \in Threads : taking[t] = "asleep" => queue = <<>> /\ ~closed

(* close() (chan.h:49-54) releases every blocked take(), unless the        *)
(* channel is reopened by reset() first.                                   *)
CloseReleasesTakers ==
    \A t \in Threads : (closed /\ taking[t] # "out") ~> (taking[t] = "out" \/ ~closed)

(* Chan implements Channel: with sleeping and woken takers both seen as    *)
(* blocked, every step is a step of the abstract channel, and a blocked    *)
(* taker that can be served is served.                                     *)
AbstractChannel == INSTANCE Channel WITH blocked <- {t \in Threads : taking[t] # "out"}

ImplementsChannel == AbstractChannel!Spec
=============================================================================
