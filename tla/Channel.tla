------------------------------ MODULE Channel ------------------------------
(***************************************************************************)
(* What Chan<T> (src/chan.h) promises the session: a FIFO queue on which   *)
(* take() is one indivisible step.  A taker that cannot be served is       *)
(* blocked; it is served as soon as a value is queued or the channel is    *)
(* closed, and a closed channel hands out what is still queued before it   *)
(* starts answering with the empty optional.                               *)
(*                                                                         *)
(* An optional<T> is a sequence of at most one element.                    *)
(***************************************************************************)
EXTENDS Naturals, Sequences

CONSTANTS Threads,   \* the threads that call take()
          Values,    \* the values that are put
          MaxQueue   \* bound: no put() while this many values are queued

VARIABLES queue,     \* the values put and not yet taken, oldest first
          closed,    \* TRUE after close()
          blocked,   \* the threads inside take() that have not been served
          got        \* what the last take() of each thread returned

vars == <<queue, closed, blocked, got>>

Init ==
    /\ queue = <<>>
    /\ closed = FALSE
    /\ blocked = {}
    /\ got = [t \in Threads |-> <<>>]

Ready == queue # <<>> \/ closed

First(q) == IF q = <<>> THEN <<>> ELSE <<Head(q)>>

Rest(q) == IF q = <<>> THEN <<>> ELSE Tail(q)

Serve(t) ==
    /\ Ready
    /\ got' = [got EXCEPT ![t] = First(queue)]
    /\ queue' = Rest(queue)
    /\ blocked' = blocked \ {t}
    /\ UNCHANGED closed

Reset ==
    /\ queue' = <<>>
    /\ closed' = FALSE
    /\ UNCHANGED <<blocked, got>>

Close ==
    /\ closed' = TRUE
    /\ UNCHANGED <<queue, blocked, got>>

Put(v) ==
    /\ Len(queue) < MaxQueue
    /\ queue' = Append(queue, v)
    /\ UNCHANGED <<closed, blocked, got>>

Block(t) ==
    /\ t \notin blocked
    /\ ~Ready
    /\ blocked' = blocked \cup {t}
    /\ UNCHANGED <<queue, closed, got>>

TakeNow(t) == t \notin blocked /\ Serve(t)

Unblock(t) == t \in blocked /\ Serve(t)

Next ==
    \/ Reset
    \/ Close
    \/ \E v \in Values : Put(v)
    \/ \E t \in Threads : Block(t) \/ TakeNow(t) \/ Unblock(t)

Spec == Init /\ [][Next]_vars /\ \A t \in Threads : WF_vars(Unblock(t))

(* The safety part alone: what the proofs show Chan to implement.          *)
SafeSpec == Init /\ [][Next]_vars
=============================================================================
