------------------------------- MODULE Socket -------------------------------
(***************************************************************************)
(* One dap::Socket::Shared (src/socket.cpp) and the threads inside its     *)
(* methods.  Its member s is a descriptor of the kernel, which the program *)
(* shares with everything else it has open: a number that was closed may   *)
(* be handed out again at once.  The RWMutex is seen as RWLock promises    *)
(* it; only read locks are held across a step, because whoever takes the   *)
(* write lock does one thing and releases it.                              *)
(*                                                                         *)
(* The kernel is modelled from how this file uses it: recv, send and       *)
(* accept block, ::shutdown ends them, SO_ERROR is cleared when it is      *)
(* read, a blocking send takes all the bytes unless the connection ends.   *)
(***************************************************************************)
EXTENDS Naturals, FiniteSets

CONSTANTS
    Threads,        \* the threads that may be inside the object
    Fds,            \* the descriptor numbers of the process
    InvalidSocket,
    WriteSize,      \* how many units one write() sends
    MaxArrivals,    \* bound: data, or connections, that come from the peer
    Room            \* what the kernel buffers before the peer reads

ASSUME SocketAssumption ==
    /\ InvalidSocket \notin Fds
    /\ WriteSize \in Nat \ {0} /\ MaxArrivals \in Nat /\ Room \in Nat \ {0}

VARIABLES
    s,              \* the member: a descriptor, or InvalidSocket
    readLocks,      \* the threads that hold the RWMutex for reading
    file,           \* per descriptor: whose it is and what happened to it
    waiting,        \* what has arrived and was not received or accepted
    arrivals,       \* how much has arrived so far
    room,           \* free space of the send buffer
    blocking,       \* whether the descriptor is in blocking mode
    pc,             \* where each thread is
    caller,         \* where it goes on when the method returns true, false
    used,           \* the descriptor its system call works on
    taken,          \* how much of its write() the kernel has taken
    truncated,      \* some write() returned true for a part of its bytes
    forgotten       \* descriptors isOpen() dropped without ::close()

kernel == <<file, waiting, arrivals, room, blocking>>
threads == <<pc, caller, used, taken>>
socketVars == <<s, readLocks, kernel, threads, truncated, forgotten>>

Closed == [of |-> "none", up |-> FALSE, eof |-> FALSE, error |-> FALSE]

(* The file behind a new descriptor: up until it is shut down or reset,    *)
(* eof when the peer has closed its direction in order.  And a file that   *)
(* another part of the program has opened.                                 *)
Opened == [of |-> "socket", up |-> TRUE, eof |-> FALSE, error |-> FALSE]

Other == [Closed EXCEPT !.of = "other"]

Ours(fd) == fd \in Fds /\ file[fd].of = "socket"

(* errored(): no descriptor, or a pending error.                           *)
Errored(fd) == fd = InvalidSocket \/ file[fd].error

(* getsockopt(SO_ERROR) takes the error away.                              *)
ErrorTaken(fd) ==
    IF fd = InvalidSocket THEN file ELSE [file EXCEPT ![fd].error = FALSE]

(* A blocked system call returns: the file was shut down or has an error.  *)
Ended(fd) == ~file[fd].up \/ file[fd].error

Call(t, method, yes, no) ==
    /\ pc' = [pc EXCEPT ![t] = method]
    /\ caller' = [caller EXCEPT ![t] = <<yes, no>>]

Goto(t, where) == pc' = [pc EXCEPT ![t] = where]

Return(t, result) == Goto(t, IF result THEN caller[t][1] ELSE caller[t][2])
-----------------------------------------------------------------------------
(* isOpen(): look under the read lock, then forget the descriptor under    *)
(* the write lock.  Another thread may come in between.                    *)
IsOpenLooks(t) ==
    /\ pc[t] = "isOpen"
    /\ file' = ErrorTaken(s)
    /\ IF Errored(s) THEN Goto(t, "isOpen.forget") ELSE Return(t, TRUE)
    /\ UNCHANGED <<s, readLocks, waiting, arrivals, room, blocking>>
    /\ UNCHANGED <<caller, used, taken, truncated, forgotten>>

IsOpenForgets(t) ==
    /\ pc[t] = "isOpen.forget"
    /\ readLocks = {}
    /\ s' = InvalidSocket
    /\ forgotten' = forgotten \cup ({s} \ {InvalidSocket})
    /\ Return(t, FALSE)
    /\ UNCHANGED <<readLocks, kernel, caller, used, taken, truncated>>

(* Mutant: ::close is called under the read lock, as it is on macOS.       *)
CloseShutsDownAndCloses(t) ==
    /\ pc[t] = "close"
    /\ file' = IF s = InvalidSocket THEN file ELSE [file EXCEPT ![s] = Closed]
    /\ Goto(t, "close.release")
    /\ UNCHANGED <<s, readLocks, waiting, arrivals, room, blocking>>
    /\ UNCHANGED <<caller, used, taken, truncated, forgotten>>

(* Mutant: nobody is woken.                                                *)
CloseShutsDownNot(t) ==
    /\ pc[t] = "close"
    /\ Goto(t, "close.release")
    /\ UNCHANGED <<s, readLocks, kernel, caller, used, taken, truncated, forgotten>>

(* close(): ::shutdown under the read lock wakes whoever is blocked in a   *)
(* system call and holds a read lock; ::close waits until they have left.  *)
CloseShutsDown(t) ==
    /\ pc[t] = "close"
    /\ file' = IF s = InvalidSocket THEN file ELSE [file EXCEPT ![s].up = FALSE]
    /\ Goto(t, "close.release")
    /\ UNCHANGED <<s, readLocks, waiting, arrivals, room, blocking>>
    /\ UNCHANGED <<caller, used, taken, truncated, forgotten>>

(* Mutant: the member is reset, the descriptor stays open.                 *)
CloseReleasesNot(t) ==
    /\ pc[t] = "close.release"
    /\ readLocks = {}
    /\ s' = InvalidSocket
    /\ Return(t, TRUE)
    /\ UNCHANGED <<readLocks, kernel, caller, used, taken, truncated, forgotten>>

CloseReleases(t) ==
    /\ pc[t] = "close.release"
    /\ readLocks = {}
    /\ file' = IF s = InvalidSocket THEN file ELSE [file EXCEPT ![s] = Closed]
    /\ s' = InvalidSocket
    /\ Return(t, TRUE)
    /\ UNCHANGED <<readLocks, waiting, arrivals, room, blocking>>
    /\ UNCHANGED <<caller, used, taken, truncated, forgotten>>
-----------------------------------------------------------------------------
(* read(), write() and accept() hold the read lock through their system    *)
(* call, which works on the descriptor s had when it began.                *)
Enter(t, call) ==
    /\ readLocks' = readLocks \cup {t}
    /\ used' = [used EXCEPT ![t] = s]
    /\ Goto(t, call)

Leave(t, result) ==
    /\ readLocks' = readLocks \ {t}
    /\ used' = [used EXCEPT ![t] = InvalidSocket]
    /\ Return(t, result)

ReadBegins(t) ==
    /\ pc[t] = "read"
    /\ IF s = InvalidSocket
         THEN Return(t, FALSE) /\ UNCHANGED <<readLocks, used>>
         ELSE Enter(t, "recv")
    /\ UNCHANGED <<s, kernel, caller, taken, truncated, forgotten>>

RecvReturns(t) ==
    /\ pc[t] = "recv"
    /\ \/ waiting > 0 /\ Leave(t, TRUE) /\ waiting' = waiting - 1
       \/ /\ waiting = 0
          /\ Ended(used[t]) \/ file[used[t]].eof
          /\ Leave(t, FALSE)
          /\ UNCHANGED waiting
    /\ file' = ErrorTaken(used[t])
    /\ UNCHANGED <<s, arrivals, room, blocking, caller, taken, truncated, forgotten>>

(* write(); no bytes are written successfully even without a connection    *)
(* that would take them.                                                   *)
WriteBegins(t) ==
    /\ pc[t] \in {"write", "write.nothing"}
    /\ IF s = InvalidSocket \/ pc[t] = "write.nothing"
         THEN Return(t, s # InvalidSocket) /\ UNCHANGED <<readLocks, used>>
         ELSE Enter(t, "send")
    /\ taken' = [taken EXCEPT ![t] = 0]
    /\ UNCHANGED <<s, kernel, caller, truncated, forgotten>>

SendTakes(t) ==
    /\ pc[t] = "send"
    /\ file[used[t]].up
    /\ room > 0 /\ taken[t] < WriteSize
    /\ room' = room - 1
    /\ taken' = [taken EXCEPT ![t] = @ + 1]
    /\ UNCHANGED <<s, readLocks, file, waiting, arrivals, blocking>>
    /\ UNCHANGED <<pc, caller, used, truncated, forgotten>>

(* ::send returns how much was taken; write() is true when that is more    *)
(* than nothing.                                                           *)
SendReturns(t) ==
    /\ pc[t] = "send"
    /\ \/ taken[t] = WriteSize
       \/ Ended(used[t])
       \/ ~blocking /\ room = 0
    /\ Leave(t, taken[t] > 0)
    /\ truncated' = (truncated \/ taken[t] \in 1 .. WriteSize - 1)
    /\ taken' = [taken EXCEPT ![t] = 0]
    /\ file' = ErrorTaken(used[t])
    /\ UNCHANGED <<s, waiting, arrivals, room, blocking, caller, forgotten>>
-----------------------------------------------------------------------------
(* Socket::accept(): one object for every connection.  ::accept also fails *)
(* for reasons of its own, such as no descriptor being left.               *)
AcceptBegins(t) ==
    /\ pc[t] = "accept"
    /\ file' = ErrorTaken(s)
    /\ IF Errored(s)
         THEN Return(t, FALSE) /\ UNCHANGED <<readLocks, used>>
         ELSE Enter(t, "accepting")
    /\ UNCHANGED <<s, waiting, arrivals, room, blocking>>
    /\ UNCHANGED <<caller, taken, truncated, forgotten>>

AcceptReturns(t) ==
    /\ pc[t] = "accepting"
    /\ waiting > 0
    /\ waiting' = waiting - 1
    /\ \E fd \in Fds : file[fd].of = "none" /\ file' = [file EXCEPT ![fd] = Other]
    /\ Leave(t, TRUE)
    /\ UNCHANGED <<s, arrivals, room, blocking, caller, taken, truncated, forgotten>>

AcceptFails(t) ==
    /\ pc[t] = "accepting"
    /\ Ended(used[t]) \/ (waiting > 0 /\ \A fd \in Fds : file[fd].of # "none")
    /\ Leave(t, FALSE)
    /\ UNCHANGED <<s, kernel, caller, taken, truncated, forgotten>>

Method(t) ==
    \/ IsOpenLooks(t) \/ IsOpenForgets(t)
    \/ CloseShutsDown(t) \/ CloseReleases(t)
    \/ ReadBegins(t) \/ RecvReturns(t)
    \/ WriteBegins(t) \/ SendTakes(t) \/ SendReturns(t)
    \/ AcceptBegins(t) \/ AcceptReturns(t) \/ AcceptFails(t)
-----------------------------------------------------------------------------
(* The world outside: the peer, and the rest of the program, which opens   *)
(* and closes files of its own.                                            *)
PeerSends ==
    /\ s # InvalidSocket /\ Ours(s) /\ file[s].up /\ ~file[s].eof
    /\ arrivals < MaxArrivals
    /\ waiting' = waiting + 1 /\ arrivals' = arrivals + 1
    /\ UNCHANGED <<s, readLocks, file, room, blocking, threads, truncated, forgotten>>

PeerReads ==
    /\ room < Room
    /\ room' = Room
    /\ UNCHANGED <<s, readLocks, file, waiting, arrivals, blocking>>
    /\ UNCHANGED <<threads, truncated, forgotten>>

(* The connection is reset, which is a pending error, or closed in order,  *)
(* which is none.                                                          *)
PeerEnds ==
    /\ s # InvalidSocket /\ Ours(s) /\ file[s].up
    /\ \/ file' = [file EXCEPT ![s].up = FALSE, ![s].error = TRUE]
       \/ file' = [file EXCEPT ![s].eof = TRUE]
    /\ UNCHANGED <<s, readLocks, waiting, arrivals, room, blocking>>
    /\ UNCHANGED <<threads, truncated, forgotten>>

OtherOpens ==
    /\ \E fd \in Fds : file[fd].of = "none" /\ file' = [file EXCEPT ![fd] = Other]
    /\ UNCHANGED <<s, readLocks, waiting, arrivals, room, blocking>>
    /\ UNCHANGED <<threads, truncated, forgotten>>

OtherCloses ==
    /\ \E fd \in Fds : file[fd].of = "other" /\ file' = [file EXCEPT ![fd] = Closed]
    /\ UNCHANGED <<s, readLocks, waiting, arrivals, room, blocking>>
    /\ UNCHANGED <<threads, truncated, forgotten>>
=============================================================================
