------------------------------ MODULE PipeCall ------------------------------
(***************************************************************************)
(* Requests over two pipes, as Session::send() makes them: each caller     *)
(* writes a message and waits on the future of its answer, the session's   *)
(* receiving thread reads answers and sets promises, a peer reads requests *)
(* and answers them, and either side may close its ReaderWriter meanwhile. *)
(*                                                                         *)
(* A message is two bytes, for the two writes of ContentWriter::write().   *)
(***************************************************************************)
EXTENDS Pipe, Future, FiniteSetsExt

CONSTANTS Callers,    \* the threads that call send()
          SendError,  \* Error("Failed to send request")
          Rounds,     \* bound: the requests of one caller
          Sends       \* bound: the requests of all callers

ASSUME BoundsAssumption == Rounds \in Nat /\ Sends \in Nat

ASSUME ThreadsAssumption ==
    /\ Pipes = {"requests", "answers"}
    /\ Readers = {"session", "peer"}
    /\ Waiters = Callers /\ "free" \notin Callers
    /\ Promises = Callers \X (1..Rounds)

VARIABLES
    cpc,       \* cpc[c]: where caller c is
    round,     \* round[c]: the number of requests c has begun
    timed,     \* timed[c]: whether c waits with a timeout
    sendMutex, \* the caller that holds it, or "free"
    tpc,       \* tpc[t]: where the receiving thread and the peer are
    closing    \* the pipes that a running RW::close() has yet to close

callVars == <<cpc, round, timed, sendMutex, tpc, closing>>
vars == <<pipeVars, futureVars, callVars>>

Call(c) == <<c, round[c]>>

Header(m) == <<m, "header">>

Content(m) == <<m, "content">>

Init ==
    /\ PipeInit /\ on = [t \in Readers |-> IF t = "peer" THEN "requests" ELSE "answers"]
    /\ FutureInit /\ waitsFor = [c \in Callers |-> <<c, 1>>]
    /\ cpc = [c \in Callers |-> "idle"]
    /\ round = [c \in Callers |-> 0]
    /\ timed = [c \in Callers |-> FALSE]
    /\ sendMutex = "free"
    /\ tpc = [t \in Readers |-> "read"]
    /\ closing = <<"none">>

Goto(c, label) == cpc' = [cpc EXCEPT ![c] = label]
-----------------------------------------------------------------------------
(* The requests begun so far.                                              *)
Begun == MapThenSumSet(LAMBDA c : round[c], Callers)

(* send(request): a promise of its own for each request; the message is    *)
(* written under sendMutex.                                                *)
Send(c) ==
    /\ cpc[c] = "idle"
    /\ round[c] < Rounds /\ Begun < Sends
    /\ sendMutex = "free"
    /\ sendMutex' = c
    /\ round' = [round EXCEPT ![c] = @ + 1]
    /\ Goto(c, "header")
    /\ UNCHANGED <<pipeVars, futureVars, timed, tpc, closing>>

(* Mutant: sendMutex is released between the two writes.                   *)
SendHeaderUnlocks(c) ==
    /\ cpc[c] = "header"
    /\ Write("requests", <<Header(Call(c))>>)
    /\ Goto(c, "content")
    /\ sendMutex' = "free"
    /\ UNCHANGED <<futureVars, round, timed, tpc, closing>>

SendHeader(c) ==
    /\ cpc[c] = "header"
    /\ Write("requests", <<Header(Call(c))>>)
    /\ Goto(c, "content")
    /\ UNCHANGED <<futureVars, round, timed, sendMutex, tpc, closing>>

SendContent(c) ==
    /\ cpc[c] = "content"
    /\ Write("requests", <<Content(Call(c))>>)
    /\ Goto(c, "sent")
    /\ sendMutex' = "free"
    /\ UNCHANGED <<futureVars, round, timed, tpc, closing>>

(* write() has returned false: send() sets the promise to an error.        *)
SendFails(c) ==
    /\ cpc[c] \in {"header", "content"}
    /\ ~IsOpen("requests")
    /\ SetValue(Call(c), SendError)
    /\ Goto(c, "sent")
    /\ sendMutex' = "free"
    /\ UNCHANGED <<pipeVars, round, timed, tpc, closing>>

(* get() or wait(), or wait_for() or wait_until().                         *)
WaitForAnswer(c, t) ==
    /\ cpc[c] = "sent"
    /\ timed' = [timed EXCEPT ![c] = t]
    /\ Wait(c, Call(c))
    /\ Goto(c, "waiting")
    /\ UNCHANGED <<pipeVars, round, sendMutex, tpc, closing>>

Waits(c) == WaitResumes(c) /\ UNCHANGED <<pipeVars, callVars>>

TimePasses(c) == timed[c] /\ TimesOut(c) /\ UNCHANGED <<pipeVars, callVars>>

Returns(c) ==
    /\ cpc[c] = "waiting" /\ wpc[c] = "out"
    /\ Goto(c, "idle")
    /\ UNCHANGED <<pipeVars, futureVars, round, timed, sendMutex, tpc, closing>>
-----------------------------------------------------------------------------
(* The receiving thread and the peer read one message after the other.     *)
Reads(t) ==
    /\ tpc[t] = "read"
    /\ Read(t, on[t], 2)
    /\ tpc' = [tpc EXCEPT ![t] = "reading"]
    /\ UNCHANGED <<futureVars, cpc, round, timed, sendMutex, closing>>

Resumes(t) == ReadResumes(t) /\ UNCHANGED <<futureVars, callVars>>

(* A message that is not complete ends the loop: the stream is closed.     *)
Ends(t) ==
    /\ tpc[t] = "reading" /\ pc[t] = "out"
    /\ Len(out[t]) < 2
    /\ tpc' = [tpc EXCEPT ![t] = "ended"]
    /\ UNCHANGED <<pipeVars, futureVars, cpc, round, timed, sendMutex, closing>>

(* Mutant: the answer goes to the latest request of its sender.            *)
AnswersLatest ==
    /\ tpc["session"] = "reading" /\ pc["session"] = "out"
    /\ Len(out["session"]) = 2
    /\ SetValue(Call(out["session"][1][1][1]), out["session"][2][1])
    /\ tpc' = [tpc EXCEPT !["session"] = "read"]
    /\ UNCHANGED <<pipeVars, cpc, round, timed, sendMutex, closing>>

(* The receiving thread hands an answer to the promise of its request.     *)
Answers ==
    /\ tpc["session"] = "reading" /\ pc["session"] = "out"
    /\ Len(out["session"]) = 2
    /\ SetValue(out["session"][1][1], out["session"][2][1])
    /\ tpc' = [tpc EXCEPT !["session"] = "read"]
    /\ UNCHANGED <<pipeVars, cpc, round, timed, sendMutex, closing>>

(* The peer writes the answer, and ends when it cannot.                    *)
PeerAnswers ==
    LET m == out["peer"][1][1]
    IN  /\ tpc["peer"] = "reading" /\ pc["peer"] = "out"
        /\ Len(out["peer"]) = 2
        /\ IF IsOpen("answers")
             THEN /\ Write("answers", <<Header(m), Content(out["peer"][2][1])>>)
                  /\ tpc' = [tpc EXCEPT !["peer"] = "read"]
             ELSE tpc' = [tpc EXCEPT !["peer"] = "ended"] /\ UNCHANGED pipeVars
        /\ UNCHANGED <<futureVars, cpc, round, timed, sendMutex, closing>>

(* RW::close() of either side: its reader first, then its writer.          *)
RWClose ==
    /\ closing = <<"none">>
    /\ closing' \in {<<"answers", "requests">>, <<"requests", "answers">>}
    /\ UNCHANGED <<pipeVars, futureVars, cpc, round, timed, sendMutex, tpc>>

RWCloses ==
    /\ closing \notin {<<>>, <<"none">>}
    /\ Close(Head(closing))
    /\ closing' = Tail(closing)
    /\ UNCHANGED <<futureVars, cpc, round, timed, sendMutex, tpc>>

Spurious ==
    \/ (\E t \in Readers : WakesSpuriously(t)) /\ UNCHANGED <<futureVars, callVars>>
    \/ (\E c \in Callers : WaiterWakes(c)) /\ UNCHANGED <<pipeVars, callVars>>

CallerSteps(c) ==
    \/ SendHeader(c) \/ SendContent(c) \/ SendFails(c)
    \/ (\E t \in BOOLEAN : WaitForAnswer(c, t))
    \/ Waits(c) \/ Returns(c)

SessionSteps == Reads("session") \/ Resumes("session") \/ Ends("session") \/ Answers

PeerSteps == Reads("peer") \/ Resumes("peer") \/ Ends("peer") \/ PeerAnswers

Next ==
    \/ \E c \in Callers : Send(c) \/ CallerSteps(c) \/ TimePasses(c)
    \/ SessionSteps \/ PeerSteps
    \/ RWClose \/ RWCloses \/ Spurious

(* Every thread that can run does, and the time a wait is given ends.      *)
(* Nobody has to send or to close.                                         *)
Spec ==
    /\ Init /\ [][Next]_vars
    /\ \A c \in Callers : WF_vars(CallerSteps(c)) /\ WF_vars(TimePasses(c))
    /\ WF_vars(SessionSteps) /\ WF_vars(PeerSteps) /\ WF_vars(RWCloses)
-----------------------------------------------------------------------------
(* A read that returns all its bytes returns one message: the two writes   *)
(* of ContentWriter::write() are not mixed with another caller's, and a    *)
(* message that was sent is neither split nor joined by the loop in read() *)
(* (io.cpp:42-59, session.cpp's sendMutex).                                *)
ReadsWhole ==
    \A t \in Readers : pc[t] = "out" /\ Len(out[t]) = 2 =>
        \E m \in Promises : out[t] = <<Header(m), Content(m)>>

(* A future holds, and a wait that succeeds returns, the answer to the     *)
(* caller's own request or an error, although a request that timed out is  *)
(* still answered later (session.h:418-437, future.h:99-130).              *)
OwnAnswer ==
    /\ \A m \in Promises : hasVal[m] => val[m] \in {m, SendError}
    /\ \A c \in Waiters : status[c] = "ready" => result[c] \in {waitsFor[c], SendError}

(* Nobody sleeps in vain: a read() sleeps only on an open, empty pipe,     *)
(* although write() notifies only when it found the deque empty            *)
(* (io.cpp:69-76), and a wait only on a future without a value             *)
(* (future.h:161-175).                                                     *)
NobodySleepsInVain == SleepsOnEmpty /\ SleepsWithoutValue

(* Blocked calls end.  close() ends a read() (io.cpp:36-40, 47-50).  A     *)
(* wait with a timeout always ends; one without ends unless a side closes  *)
(* its stream while the answer is under way.                               *)
BlockedCallsEnd ==
    /\ \A t \in Readers : (pc[t] # "out" /\ ~IsOpen(on[t])) ~> (pc[t] = "out")
    /\ \A c \in Callers :
          (cpc[c] = "waiting") ~> (cpc[c] = "idle" \/ (~timed[c] /\ closing # <<"none">>))
=============================================================================
