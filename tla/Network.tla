------------------------------- MODULE Network -------------------------------
(***************************************************************************)
(* dap::net (src/network.cpp): connect(), whose result several threads     *)
(* use, and Server, whose accept loop runs beside the threads that call    *)
(* start() and stop().  A behaviour is about one of the two: role says     *)
(* which, and the object of module Socket is the connection or the         *)
(* listening socket.                                                       *)
(***************************************************************************)
EXTENDS Socket

CONSTANTS
    Acceptor,        \* the thread of the accept loop
    None,            \* nobody
    Timeouts,        \* the values of timeoutMillis
    MilliMicros,     \* microseconds per millisecond: 1000
    SecondMicros,    \* microseconds per second: 1000000
    UintMod,         \* uint32_t arithmetic: 2^32
    MaxCalls         \* bound: calls per thread

Users == Threads \ {Acceptor}

ASSUME NetworkAssumption ==
    /\ Acceptor \in Threads /\ None \notin Threads
    /\ Timeouts \subseteq Nat /\ MaxCalls \in Nat
    /\ {MilliMicros, SecondMicros, UintMod} \subseteq Nat \ {0}

VARIABLES
    role,            \* "connection" or "server"
    object,          \* the connection: "none", "making", "shared" or "gone"
    timeout,         \* timeoutMillis of the connect() call
    tv,              \* the timeval given to select()
    mutex,           \* Server::mutex: its owner, or None
    stopped,         \* Server::stopped
    calls            \* how many calls each thread has made

serverVars == <<mutex, stopped>>
connectVars == <<object, timeout, tv>>
vars == <<socketVars, role, serverVars, connectVars, calls>>

NoTime == [sec |-> 0, usec |-> 0]

Init ==
    /\ s = InvalidSocket /\ readLocks = {}
    /\ file = [fd \in Fds |-> Closed]
    /\ waiting = 0 /\ arrivals = 0 /\ room = Room /\ blocking = TRUE
    /\ pc = [t \in Threads |-> IF t = Acceptor THEN "off" ELSE "idle"]
    /\ caller = [t \in Threads |-> <<"idle", "idle">>]
    /\ used = [t \in Threads |-> InvalidSocket]
    /\ taken = [t \in Threads |-> 0]
    /\ truncated = FALSE /\ forgotten = {}
    /\ role \in {"connection", "server"}
    /\ object = "none" /\ timeout = 0 /\ tv = NoTime
    /\ mutex = None /\ stopped = TRUE
    /\ calls = [t \in Users |-> 0]

Idle(t) == pc[t] = "idle" /\ calls[t] < MaxCalls

Counted(t) == calls' = [calls EXCEPT ![t] = @ + 1]
-----------------------------------------------------------------------------
(* connect().  Until it returns nobody else knows the object.              *)
Connect(t, millis) ==
    /\ role = "connection" /\ object = "none"
    /\ Idle(t) /\ Counted(t)
    /\ object' = "making" /\ timeout' = millis
    /\ Goto(t, "create")
    /\ UNCHANGED <<s, readLocks, kernel, caller, used, taken, truncated, forgotten>>
    /\ UNCHANGED <<role, serverVars, tv>>

(* Shared::create: the address may be unknown (no object), and ::socket    *)
(* may fail (an object without a descriptor).                              *)
ConnectCreates(t) ==
    /\ pc[t] = "create"
    /\ \/ Goto(t, "connected.not") /\ UNCHANGED <<s, file>>
       \/ Goto(t, "connect") /\ UNCHANGED <<s, file>>
       \/ \E fd \in Fds :
             /\ file[fd].of = "none"
             /\ file' = [file EXCEPT ![fd] = Opened]
             /\ s' = fd
             /\ Goto(t, "connect")
    /\ UNCHANGED <<readLocks, waiting, arrivals, room, blocking, caller, used, taken>>
    /\ UNCHANGED <<truncated, forgotten, role, serverVars, connectVars, calls>>

(* Under the read lock: with a timeout the descriptor is made non-blocking *)
(* first, which may fail.                                                  *)
ConnectLocks(t) ==
    /\ pc[t] = "connect"
    /\ \/ /\ s # InvalidSocket
          /\ Enter(t, "connecting")
          /\ blocking' = (timeout = 0)
       \/ /\ s = InvalidSocket \/ timeout # 0
          /\ Goto(t, "drop")
          /\ UNCHANGED <<readLocks, used, blocking>>
    /\ UNCHANGED <<s, file, waiting, arrivals, room, caller, taken>>
    /\ UNCHANGED <<truncated, forgotten, role, serverVars, connectVars, calls>>

Unlocked(t, where) ==
    /\ readLocks' = readLocks \ {t}
    /\ used' = [used EXCEPT ![t] = InvalidSocket]
    /\ Goto(t, where)

(* Mutant: the timeval's microseconds keep the whole seconds.              *)
SelectTimeWhole(millis) ==
    LET microseconds == (millis * MilliMicros) % UintMod
    IN  [sec |-> microseconds \div SecondMicros, usec |-> microseconds]

(* Lines 311-319, in uint32_t.                                             *)
SelectTime(millis) ==
    LET microseconds == (millis * MilliMicros) % UintMod
        sec == microseconds \div SecondMicros
    IN  [sec |-> sec, usec |-> microseconds - sec * SecondMicros]

(* Mutant: the descriptor of an immediate connection stays non-blocking.   *)
ConnectAnswersNonBlocking(t) ==
    /\ pc[t] = "connecting"
    /\ \/ Unlocked(t, "connect.check") /\ UNCHANGED <<blocking, tv>>
       \/ Unlocked(t, "drop") /\ UNCHANGED <<blocking, tv>>
       \/ /\ timeout # 0
          /\ tv' = SelectTime(timeout)
          /\ Goto(t, "select")
          /\ UNCHANGED <<readLocks, used, blocking>>
    /\ UNCHANGED <<s, file, waiting, arrivals, room, caller, taken>>
    /\ UNCHANGED <<truncated, forgotten, role, serverVars, object, timeout, calls>>

(* ::connect answers: connected, failed, or, without blocking, not yet.    *)
(* Blocking mode is restored before the connection is used, or it is not   *)
(* used.                                                                   *)
ConnectAnswers(t) ==
    /\ pc[t] = "connecting"
    /\ \/ Unlocked(t, "connect.check") /\ blocking' = TRUE /\ UNCHANGED tv
       \/ Unlocked(t, "drop") /\ UNCHANGED <<blocking, tv>>
       \/ /\ timeout # 0
          /\ tv' = SelectTime(timeout)
          /\ Goto(t, "select")
          /\ UNCHANGED <<readLocks, used, blocking>>
    /\ UNCHANGED <<s, file, waiting, arrivals, room, caller, taken>>
    /\ UNCHANGED <<truncated, forgotten, role, serverVars, object, timeout, calls>>

(* select() says the descriptor is ready, or the time is over; an error    *)
(* that came meanwhile, and a failing setBlocking(), count as failure.     *)
SelectAnswers(t) ==
    /\ pc[t] = "select"
    /\ \/ /\ ~Errored(s)
          /\ blocking' = TRUE
          /\ Unlocked(t, "connect.check")
          /\ UNCHANGED file
       \/ Unlocked(t, "drop") /\ UNCHANGED blocking /\ file' \in {file, ErrorTaken(s)}
    /\ UNCHANGED <<s, waiting, arrivals, room, caller, taken>>
    /\ UNCHANGED <<truncated, forgotten, role, serverVars, connectVars, calls>>

(* Line 331, and ~Shared when the last reference is dropped.               *)
ConnectChecks(t) ==
    /\ \/ pc[t] = "connect.check" /\ Call(t, "isOpen", "connected", "drop")
       \/ pc[t] = "drop" /\ Call(t, "close", "connected.not", "connected.not")
    /\ UNCHANGED <<s, readLocks, kernel, used, taken, truncated, forgotten>>
    /\ UNCHANGED <<role, serverVars, connectVars, calls>>

ConnectReturns(t) ==
    /\ pc[t] \in {"connected", "connected.not"}
    /\ object' = IF pc[t] = "connected" THEN "shared" ELSE "gone"
    /\ timeout' = 0 /\ tv' = NoTime
    /\ Goto(t, "idle")
    /\ UNCHANGED <<s, readLocks, kernel, caller, used, taken, truncated, forgotten>>
    /\ UNCHANGED <<role, serverVars, calls>>

(* The threads that share the connection call its methods; the last one to *)
(* let go of it runs ~Shared, which is close() once more.                  *)
Use(t) ==
    /\ object = "shared"
    /\ Idle(t) /\ Counted(t)
    /\ \E m \in {"read", "write", "write.nothing", "isOpen", "close"} :
          Call(t, m, "idle", "idle")
    /\ UNCHANGED <<s, readLocks, kernel, used, taken, truncated, forgotten>>
    /\ UNCHANGED <<role, serverVars, connectVars>>

Destroy(t) ==
    /\ object = "shared"
    /\ \A u \in Users : pc[u] = "idle"
    /\ object' = "gone"
    /\ Call(t, "close", "idle", "idle")
    /\ UNCHANGED <<s, readLocks, kernel, used, taken, truncated, forgotten>>
    /\ UNCHANGED <<role, serverVars, timeout, tv, calls>>

ConnectSteps(t) ==
    \/ ConnectCreates(t) \/ ConnectLocks(t) \/ ConnectAnswers(t) \/ SelectAnswers(t)
    \/ ConnectChecks(t) \/ ConnectReturns(t)
-----------------------------------------------------------------------------
(* Server.  start() and stop() hold the mutex from their first to their    *)
(* last step.                                                              *)
Serve(t) ==
    /\ role = "server"
    /\ Idle(t) /\ Counted(t)
    /\ Goto(t, "start") \/ Goto(t, "stop")
    /\ UNCHANGED <<s, readLocks, kernel, caller, used, taken, truncated, forgotten>>
    /\ UNCHANGED <<role, serverVars, connectVars>>

(* Mutant: stop() does not take the mutex.                                 *)
LockServerNot(t) ==
    /\ pc[t] \in {"start", "stop"}
    /\ IF pc[t] = "start" THEN mutex = None /\ mutex' = t ELSE UNCHANGED mutex
    /\ Goto(t, IF pc[t] = "start" THEN "start.stop" ELSE "stop.stop")
    /\ UNCHANGED <<s, readLocks, kernel, caller, used, taken, truncated, forgotten>>
    /\ UNCHANGED <<role, stopped, connectVars, calls>>

LockServer(t) ==
    /\ pc[t] \in {"start", "stop"}
    /\ mutex = None
    /\ mutex' = t
    /\ Goto(t, IF pc[t] = "start" THEN "start.stop" ELSE "stop.stop")
    /\ UNCHANGED <<s, readLocks, kernel, caller, used, taken, truncated, forgotten>>
    /\ UNCHANGED <<role, stopped, connectVars, calls>>

Stopping == {"start.stop", "stop.stop"}

AfterStop(where) == IF where = "start.stop" THEN "start.bind" ELSE "stop.done"

JoinOf(where) == IF where = "start.stop" THEN "start.join" ELSE "stop.join"

(* Mutant: stopped is set when the accept loop has already been woken.     *)
StopWithLockLate(t) ==
    /\ pc[t] \in Stopping
    /\ IF stopped
         THEN Goto(t, AfterStop(pc[t])) /\ UNCHANGED caller
         ELSE Call(t, "close", JoinOf(pc[t]), "idle")
    /\ UNCHANGED <<s, readLocks, kernel, used, taken, truncated, forgotten>>
    /\ UNCHANGED <<role, serverVars, connectVars, calls>>

(* stopWithLock(): stopped first, then close() wakes the accept loop.      *)
StopWithLock(t) ==
    /\ pc[t] \in Stopping
    /\ stopped' = TRUE
    /\ IF stopped
         THEN Goto(t, AfterStop(pc[t])) /\ UNCHANGED caller
         ELSE Call(t, "close", JoinOf(pc[t]), "idle")
    /\ UNCHANGED <<s, readLocks, kernel, used, taken, truncated, forgotten>>
    /\ UNCHANGED <<role, mutex, connectVars, calls>>

JoinAcceptor(t) ==
    /\ pc[t] \in {"start.join", "stop.join"}
    /\ pc[Acceptor] = "ended"
    /\ pc' = [pc EXCEPT ![t] = IF @ = "start.join" THEN "start.bind" ELSE "stop.done",
                        ![Acceptor] = "off"]
    /\ UNCHANGED <<s, readLocks, kernel, caller, used, taken, truncated, forgotten>>
    /\ UNCHANGED <<role, serverVars, connectVars, calls>>

(* new Socket(address, port): no object for an unknown address, or a       *)
(* socket that listens.  When bind() or listen() fails, as it does for the *)
(* object without a descriptor that a failing ::socket() leaves, the last  *)
(* reference is dropped with the object's read lock held (lines 238 and    *)
(* 243), and ~Shared calls close().                                        *)
StartBinds(t) ==
    /\ pc[t] = "start.bind"
    /\ \/ Goto(t, "start.check") /\ UNCHANGED <<s, file, readLocks, caller>>
       \/ /\ s' = InvalidSocket
          /\ readLocks' = readLocks \cup {t}
          /\ Call(t, "close", "start.check", "start.check")
          /\ UNCHANGED file
       \/ \E fd \in Fds, bound \in BOOLEAN :
             /\ file[fd].of = "none"
             /\ file' = [file EXCEPT ![fd] = Opened]
             /\ s' = fd
             /\ readLocks' = IF bound THEN readLocks ELSE readLocks \cup {t}
             /\ Call(t, IF bound THEN "start.check" ELSE "close", "start.check", "start.check")
    /\ UNCHANGED <<waiting, arrivals, room, blocking, used, taken>>
    /\ UNCHANGED <<truncated, forgotten, role, serverVars, connectVars, calls>>

StartChecks(t) ==
    /\ pc[t] = "start.check"
    /\ Call(t, "isOpen", "start.run", "start.fail")
    /\ UNCHANGED <<s, readLocks, kernel, used, taken, truncated, forgotten>>
    /\ UNCHANGED <<role, serverVars, connectVars, calls>>

(* The end of start(), with the accept loop running or an error reported,  *)
(* and the end of stop().                                                  *)
ServerReturns(t) ==
    /\ \/ /\ pc[t] = "start.run"
          /\ stopped' = FALSE
          /\ pc' = [pc EXCEPT ![t] = "idle", ![Acceptor] = "loop"]
       \/ pc[t] \in {"start.fail", "stop.done"} /\ Goto(t, "idle") /\ UNCHANGED stopped
    /\ mutex' = None
    /\ UNCHANGED <<s, readLocks, kernel, caller, used, taken, truncated, forgotten>>
    /\ UNCHANGED <<role, connectVars, calls>>

ServerSteps(t) ==
    \/ LockServer(t) \/ StopWithLock(t) \/ JoinAcceptor(t) \/ StartBinds(t)
    \/ StartChecks(t) \/ ServerReturns(t)

(* The accept loop, lines 54-63: onConnect is called for a connection; the *)
(* first accept() without one ends the loop, and onError is told unless    *)
(* the server is being stopped.                                            *)
AcceptLoop ==
    /\ \/ pc[Acceptor] = "loop" /\ Call(Acceptor, "accept", "onConnect", "failed")
       \/ pc[Acceptor] = "onConnect" /\ Goto(Acceptor, "loop") /\ UNCHANGED caller
       \/ /\ pc[Acceptor] = "failed"
          /\ Goto(Acceptor, IF stopped THEN "ended" ELSE "onError")
          /\ UNCHANGED caller
       \/ pc[Acceptor] = "onError" /\ Goto(Acceptor, "ended") /\ UNCHANGED caller
    /\ UNCHANGED <<s, readLocks, kernel, used, taken, truncated, forgotten>>
    /\ UNCHANGED <<role, serverVars, connectVars, calls>>
-----------------------------------------------------------------------------
InSocket == UNCHANGED <<role, serverVars, connectVars, calls>>

Steps(t) == (Method(t) /\ InSocket) \/ ConnectSteps(t) \/ ServerSteps(t)

(* Something arrives, data or a client; only a connection has a peer.      *)
Environment ==
    /\ PeerSends \/ OtherOpens \/ OtherCloses \/ (role = "connection" /\ (PeerReads \/ PeerEnds))
    /\ InSocket

Next ==
    \/ \E t \in Users :
          \/ \E millis \in Timeouts : Connect(t, millis)
          \/ Use(t) \/ Destroy(t) \/ Serve(t)
          \/ Steps(t)
    \/ (Method(Acceptor) /\ InSocket)
    \/ AcceptLoop
    \/ Environment

(* Every thread runs on, and the program's onConnect and onError return.   *)
Fairness ==
    /\ \A t \in Users : WF_vars(Steps(t))
    /\ WF_vars((Method(Acceptor) /\ InSocket) \/ AcceptLoop)

Spec == Init /\ [][Next]_vars /\ Fairness
-----------------------------------------------------------------------------
(* Every system call works on the socket's own file: neither a thread that *)
(* is blocked in recv, send or accept nor a later call uses, or closes, a  *)
(* number that close() has given back and somebody else has got since      *)
(* (socket.cpp:182-188).                                                   *)
OwnDescriptor ==
    /\ s # InvalidSocket => Ours(s)
    /\ \A t \in Threads : used[t] # InvalidSocket => Ours(used[t])

(* A descriptor is given back: one that is still open is the socket's      *)
(* member, or isOpen() has dropped it because of an error (line 168).      *)
NothingLeaks == \A fd \in Fds : Ours(fd) => fd = s \/ fd \in forgotten

(* A write() that reports success for a part of its bytes (line 221) is    *)
(* the last thing on the connection: the kernel takes nothing after it, so *)
(* the peer never reads a message with a hole in it.  It rests on          *)
(* connect() having restored blocking mode (lines 307, 321).               *)
NothingAfterTruncation == [][truncated => room' >= room]_vars

(* The time select() waits is timeoutMillis, while it fits in a uint32_t   *)
(* of microseconds (lines 311-319).                                        *)
TimeoutIsExact ==
    \A t \in Users :
        (pc[t] = "select" /\ timeout * MilliMicros < UintMod)
            => /\ tv.sec * SecondMicros + tv.usec = timeout * MilliMicros
               /\ tv.usec < SecondMicros

(* When stop() has returned, and until start() is called again, nobody is  *)
(* in onConnect or onError, or will be (network.cpp:77-82); and start()    *)
(* replaces the thread object only when nothing runs behind it, for        *)
(* assigning to a joinable std::thread ends the program (line 53).         *)
QuietAfterStop ==
    (\/ stopped /\ mutex = None
     \/ \E t \in Users : pc[t] \in {"start.bind", "start.check", "start.run"})
    => pc[Acceptor] = "off"

(* An orderly stop() is not reported as an error: while the accept loop is *)
(* on its way to onError, or in it, nobody had begun to close the          *)
(* listening socket when stopped was last tested (lines 59-61).            *)
NoErrorFromStop ==
    [][pc[Acceptor] = "failed" /\ pc'[Acceptor] = "onError"
         => s # InvalidSocket /\ file[s].up]_vars

(* A thread in ~Shared that holds the read lock of the object it destroys. *)
WaitsForItself(t) == pc[t] \in {"close", "close.release"} /\ t \in readLocks

(* start(), stop() and close(), and so ~Shared, return, in whatever state  *)
(* the accept loop is and although other threads are blocked in recv or    *)
(* send with the read lock in hand: ::shutdown wakes them (socket.cpp:187- *)
(* 194).  There is one exception: a start() that cannot create or bind its *)
(* socket waits for itself (socket.cpp:238), and keeps the server's mutex, *)
(* so that nobody else's start() or stop() returns either.                 *)
CallsReturn ==
    \A t \in Users :
        (pc[t] \in {"start", "stop", "close"})
            ~> (pc[t] = "idle" \/ \E u \in Users : WaitsForItself(u))

(* network.h:50, "onError will be called for any connection errors": a     *)
(* socket that cannot be created or bound is reported.                     *)
BindErrorIsReported == \A t \in Users : WaitsForItself(t) ~> (pc[t] = "start.fail")
=============================================================================
