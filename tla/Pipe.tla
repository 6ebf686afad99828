-------------------------------- MODULE Pipe --------------------------------
(***************************************************************************)
(* Pipe of src/io.cpp, the in-memory stream that pipe() returns, and RW,   *)
(* which joins the reader of one stream to the writer of another.          *)
(*                                                                         *)
(* A method of Pipe holds the mutex from its first to its last access, so  *)
(* it is one step; only read() releases it, in cv.wait().  A reader is     *)
(* "out" of read(), "asleep" in cv.wait(), or "woken": notified, or woken  *)
(* spuriously, and about to lock the mutex and look again.                 *)
(***************************************************************************)
EXTENDS Naturals, Sequences

CONSTANTS Pipes,    \* the pipes
          Readers   \* the threads that call read()

VARIABLES
    data,      \* data[p]: the deque of bytes written and not yet read
    closed,    \* closed[p]
    pc,        \* pc[t]: where thread t is in read()
    on,        \* on[t]: the pipe t reads
    want,      \* want[t]: the bytes t asked for
    out        \* out[t]: the bytes t's read() has put in the buffer so far

pipeVars == <<data, closed, pc, on, want, out>>

PipeInit ==
    /\ data = [p \in Pipes |-> <<>>]
    /\ closed = [p \in Pipes |-> FALSE]
    /\ pc = [t \in Readers |-> "out"]
    /\ on \in [Readers -> Pipes]
    /\ want = [t \in Readers |-> 0]
    /\ out = [t \in Readers |-> <<>>]

(* cv.notify_all() on the pipe's condition variable.                       *)
NotifyAll(p) ==
    [t \in Readers |-> IF pc[t] = "asleep" /\ on[t] = p THEN "woken" ELSE pc[t]]

IsOpen(p) == ~closed[p]

Close(p) ==
    /\ closed' = [closed EXCEPT ![p] = TRUE]
    /\ pc' = NotifyAll(p)
    /\ UNCHANGED <<data, on, want, out>>

(* Mutant: the notification is sent for a deque that had bytes already.    *)
WriteNotifiesLate(p, bytes) ==
    /\ IsOpen(p)
    /\ data' = [data EXCEPT ![p] = @ \o bytes]
    /\ pc' = IF data[p] # <<>> THEN NotifyAll(p) ELSE pc
    /\ UNCHANGED <<closed, on, want, out>>

(* write() of at least one byte to an open pipe; it returns true.  On a    *)
(* closed pipe it returns false and changes nothing.  Only the write that  *)
(* finds the deque empty notifies.                                         *)
Write(p, bytes) ==
    /\ IsOpen(p)
    /\ data' = [data EXCEPT ![p] = @ \o bytes]
    /\ pc' = IF data[p] = <<>> THEN NotifyAll(p) ELSE pc
    /\ UNCHANGED <<closed, on, want, out>>

Least(a, b) == IF a < b THEN a ELSE b

(* Mutant: read() returns as soon as it has a byte.                        *)
ReadLoopShort(t, p, n, sofar) ==
    LET k == Least(n - Len(sofar), Len(data[p]))
    IN  /\ data' = IF closed[p] THEN data
                   ELSE [data EXCEPT ![p] = SubSeq(@, k + 1, Len(@))]
        /\ out' = [out EXCEPT ![t] = IF closed[p] THEN sofar
                                     ELSE sofar \o SubSeq(data[p], 1, k)]
        /\ pc' = [pc EXCEPT ![t] = IF closed[p] \/ data[p] # <<>> THEN "out" ELSE "asleep"]
        /\ UNCHANGED closed

(* One turn of read()'s loop, from the predicate of cv.wait() to the       *)
(* return or to the next wait.  A closed pipe ends the read with what it   *)
(* has, and what is still in the deque is lost.  A turn that copies all    *)
(* there is and still lacks bytes finds the deque empty and waits again.   *)
ReadLoop(t, p, n, sofar) ==
    LET k == Least(n - Len(sofar), Len(data[p]))
        full == data[p] # <<>> /\ Len(sofar) + k = n
    IN  /\ data' = IF closed[p] THEN data
                   ELSE [data EXCEPT ![p] = SubSeq(@, k + 1, Len(@))]
        /\ out' = [out EXCEPT ![t] = IF closed[p] THEN sofar
                                     ELSE sofar \o SubSeq(data[p], 1, k)]
        /\ pc' = [pc EXCEPT ![t] = IF closed[p] \/ full THEN "out" ELSE "asleep"]
        /\ UNCHANGED closed

Read(t, p, n) ==
    /\ pc[t] = "out"
    /\ on' = [on EXCEPT ![t] = p]
    /\ want' = [want EXCEPT ![t] = n]
    /\ ReadLoop(t, p, n, <<>>)

ReadResumes(t) ==
    /\ pc[t] = "woken"
    /\ ReadLoop(t, on[t], want[t], out[t])
    /\ UNCHANGED <<on, want>>

(* cv.wait() may return for no reason.                                     *)
WakesSpuriously(t) ==
    /\ pc[t] = "asleep"
    /\ pc' = [pc EXCEPT ![t] = "woken"]
    /\ UNCHANGED <<data, closed, on, want, out>>
-----------------------------------------------------------------------------
(* No lost wakeup: a reader sleeps only on a pipe that is open and empty,  *)
(* although write() notifies only when it found the deque empty            *)
(* (io.cpp:69-76) and a reader that lacks bytes goes back to sleep.        *)
SleepsOnEmpty ==
    \A t \in Readers : pc[t] = "asleep" => IsOpen(on[t]) /\ data[on[t]] = <<>>
=============================================================================
