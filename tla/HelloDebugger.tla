--------------------------- MODULE HelloDebugger ----------------------------
(***************************************************************************)
(* examples/hello_debugger.cpp: a debug adapter on stdin and stdout.       *)
(*                                                                         *)
(* Its threads are main(), the session's receiving thread, which reads     *)
(* requests and reports errors, and the session's dispatching thread,      *)
(* which runs the request handlers one after the other.  A log, when there *)
(* is one, gets a copy of all traffic from the two spies of src/io.cpp     *)
(* and is closed by the error handler.  The client is external.            *)
(*                                                                         *)
(* A message is [kind, name, data]: kind "request", "response", "error" or *)
(* "event"; data is a set of numbers.                                      *)
(***************************************************************************)
EXTENDS Naturals, Sequences, FiniteSetsExt, Functions

CONSTANTS NumSourceLines,  \* numSourceLines, 7 in the code
          Requests,        \* the requests the client may send
          MaxRequests      \* bound: the requests the client does send

ASSUME LinesAssumption == NumSourceLines \in Nat \ {0}

Message(kind, name, data) == [kind |-> kind, name |-> name, data |-> data]

ASSUME RequestsAssumption ==
    \A r \in Requests : r = Message("request", r.name, r.data) /\ r.data \subseteq Nat

VARIABLES
    line, breakpoints,      \* Debugger::line, Debugger::breakpoints
    configured, terminate,  \* whether the two Events are fired
    alive,                  \* whether main()'s locals exist
    mpc,                    \* where main() is
    sent,                   \* history: the requests the client has sent
    received,               \* the request the receiving thread holds, or none
    inbox,                  \* the session's queue of payloads
    todo,                   \* the messages the running handler is yet to send
    handling,               \* the request that is handled, or none
    sendMutex,              \* the thread that holds Impl::sendMutex, or "free"
    stdout, log,            \* the messages written so far
    logging,                \* "none" (no log), "open" or "closed"
    running,                \* whether the dispatching thread runs
    dangling                \* whether a handler has used a dead local

debuggerVars == <<line, breakpoints>>
mainVars == <<configured, terminate, alive, mpc>>
recvVars == <<sent, received>>
dispatchVars == <<inbox, todo, handling, running, dangling>>
writeVars == <<sendMutex, stdout, log, logging>>
allVars == <<debuggerVars, mainVars, recvVars, dispatchVars, writeVars>>

Event(name) == Message("event", name, {})

Response(name, data) == Message("response", name, data)

(* Session::onError and the handlers are registered before bind().         *)
DebuggerInit ==
    /\ line = 1 /\ breakpoints = {}
    /\ configured = FALSE /\ terminate = FALSE
    /\ alive = TRUE /\ mpc = "configured.wait"
    /\ sent = <<>> /\ received = <<>>
    /\ inbox = <<>> /\ todo = <<>> /\ handling = <<>>
    /\ sendMutex = "free" /\ stdout = <<>> /\ log = <<>>
    /\ logging \in {"none", "open"}
    /\ running = TRUE /\ dangling = FALSE
-----------------------------------------------------------------------------
(* File::read() on stdin gives the receiving thread the next message of    *)
(* the client, which sends what it likes.                                  *)
Receive(r) ==
    /\ received = <<>>
    /\ Len(sent) < MaxRequests
    /\ received' = <<r>>
    /\ sent' = Append(sent, r)
    /\ UNCHANGED <<debuggerVars, mainVars, dispatchVars, writeVars>>

(* File::write() does not look at closed; what a log that is closed gets   *)
(* is not modelled further.                                                *)
Logged(m) == IF logging = "open" THEN Append(log, m) ELSE log

(* The session knows a handler for every command except "unknown".         *)
Handled(r) == r.name # "unknown"

(* ReaderSpy::read() copies what it has read to the log before it returns; *)
(* the session then queues the request's payload.                          *)
HandOver ==
    /\ received # <<>> /\ Handled(received[1])
    /\ log' = Logged(received[1])
    /\ inbox' = Append(inbox, received[1])
    /\ received' = <<>>
    /\ UNCHANGED <<debuggerVars, mainVars, sent>>
    /\ UNCHANGED <<todo, handling, running, dangling, sendMutex, stdout, logging>>

(* A request without a handler: the error handler runs on the receiving    *)
(* thread, writes to the log, closes it, and fires terminate.              *)
OnError ==
    /\ received # <<>> /\ ~Handled(received[1])
    /\ log' = IF logging = "open" THEN log \o <<received[1], Event("error")>> ELSE log
    /\ logging' = IF logging = "open" THEN "closed" ELSE logging
    /\ terminate' = TRUE
    /\ received' = <<>>
    /\ UNCHANGED <<debuggerVars, configured, alive, mpc, sent, dispatchVars>>
    /\ UNCHANGED <<sendMutex, stdout>>
-----------------------------------------------------------------------------
(* The lines run() looks at, in the order of its loop.                     *)
Ahead(l) == [i \in 1..NumSourceLines |-> ((l + i - 1) % NumSourceLines) + 1]

(* Mutant: the loop begins at the current line.                            *)
RunsToFromHere(l, b) ==
    LET hits == {i \in 1..NumSourceLines : ((l + i - 2) % NumSourceLines) + 1 \in b}
    IN  IF hits = {} THEN {} ELSE {((l + Min(hits) - 2) % NumSourceLines) + 1}

(* Debugger::run(): the first of these with a breakpoint, or none.         *)
RunsTo(l, b) ==
    LET hits == {i \in 1..NumSourceLines : Ahead(l)[i] \in b}
    IN  IF hits = {} THEN {} ELSE {Ahead(l)[Min(hits)]}

StepForward == line' = (line % NumSourceLines) + 1

(* The breakpoints that the SetBreakpoints response calls verified.        *)
Verified(lines) == {l \in lines : l < NumSourceLines}

(* The handlers.  Each gives the messages that it, onSuccess or onError    *)
(* and the sent handler send, in that order.  The identifier a query names *)
(* may be unknown (data = {}).                                             *)
Inspect(r) ==
    \/ /\ r.name \in {"initialize", "threads"}
       /\ todo' = <<Response(r.name, {})>>
                  \o IF r.name = "initialize" THEN <<Event("initialized")>> ELSE <<>>
       /\ UNCHANGED <<debuggerVars, configured, terminate>>
    \/ /\ r.name \in {"stackTrace", "variables", "scopes"}
       /\ todo' = IF r.data = {} THEN <<Message("error", r.name, {})>>
                  ELSE <<Response(r.name, IF r.name = "scopes" THEN {} ELSE {line})>>
       /\ UNCHANGED <<debuggerVars, configured, terminate>>

Control(r) ==
    \/ /\ r.name = "pause"
       /\ todo' = <<Event("paused"), Response(r.name, {})>>
       /\ UNCHANGED <<debuggerVars, configured, terminate>>
    \/ /\ r.name = "continue"
       /\ LET hit == RunsTo(line, breakpoints)
          IN  /\ line' = IF hit = {} THEN line ELSE CHOOSE l \in hit : TRUE
              /\ todo' = (IF hit = {} THEN <<>> ELSE <<Event("breakpoint")>>)
                         \o <<Response(r.name, {})>>
       /\ UNCHANGED <<breakpoints, configured, terminate>>
    \/ /\ r.name \in {"next", "stepIn"}
       /\ StepForward
       /\ todo' = <<Event("stepped"), Response(r.name, {})>>
       /\ UNCHANGED <<breakpoints, configured, terminate>>
    \/ /\ r.name \in {"stepOut", "setExceptionBreakpoints", "launch"}
       /\ todo' = <<Response(r.name, {})>>
       /\ UNCHANGED <<debuggerVars, configured, terminate>>
    \/ /\ r.name = "setBreakpoints"
       /\ breakpoints' = r.data
       /\ todo' = <<Response(r.name, Verified(r.data))>>
       /\ UNCHANGED <<line, configured, terminate>>
    \/ /\ r.name = "setBreakpointsElsewhere"   \* another source's breakpoints
       /\ todo' = <<Response(r.name, {})>>
       /\ UNCHANGED <<debuggerVars, configured, terminate>>
    \/ /\ r.name = "source"
       /\ todo' = <<IF r.data = {} THEN Message("error", r.name, {}) ELSE Response(r.name, {})>>
       /\ UNCHANGED <<debuggerVars, configured, terminate>>
    \/ /\ r.name = "disconnect"
       /\ terminate' = (terminate \/ r.data # {})
       /\ todo' = <<Response(r.name, {})>>
       /\ UNCHANGED <<debuggerVars, configured>>
    \/ /\ r.name = "configurationDone"
       /\ configured' = TRUE
       /\ todo' = <<Response(r.name, {})>>
       /\ UNCHANGED <<debuggerVars, terminate>>

(* The dispatching thread takes a payload and runs its handler, which uses *)
(* main()'s locals.                                                        *)
Dispatch ==
    /\ running /\ handling = <<>> /\ inbox # <<>>
    /\ Inspect(Head(inbox)) \/ Control(Head(inbox))
    /\ handling' = <<Head(inbox)>>
    /\ inbox' = Tail(inbox)
    /\ dangling' = (dangling \/ ~alive)
    /\ UNCHANGED <<alive, mpc, running, recvVars, writeVars>>

(* Impl::send(): sendMutex is held for the write to stdout, which stays    *)
(* open, and for the WriterSpy's copy to the log.                          *)
Writes(who, m) ==
    /\ sendMutex = "free"
    /\ stdout' = Append(stdout, m)
    /\ sendMutex' = IF logging = "none" THEN "free" ELSE who
    /\ UNCHANGED <<log, logging>>

(* Mutant: the copy is made before the mutex is taken.                     *)
CopiesAnyOf(who) ==
    /\ sendMutex = who
    /\ \E m \in Range(stdout) : log' = Logged(m)
    /\ sendMutex' = "free"
    /\ UNCHANGED <<debuggerVars, mainVars, recvVars, dispatchVars, stdout, logging>>

Copies(who) ==
    /\ sendMutex = who
    /\ log' = Logged(stdout[Len(stdout)])
    /\ sendMutex' = "free"
    /\ UNCHANGED <<debuggerVars, mainVars, recvVars, dispatchVars, stdout, logging>>

HandlerSends ==
    /\ todo # <<>>
    /\ Writes("dispatch", Head(todo))
    /\ todo' = Tail(todo)
    /\ UNCHANGED <<debuggerVars, mainVars, recvVars, inbox, handling, running, dangling>>

(* Mutant: the thread does not finish what it is doing.                    *)
DispatchEndsAtOnce ==
    /\ running /\ mpc = "~Impl"
    /\ running' = FALSE
    /\ todo' = <<>>
    /\ UNCHANGED <<debuggerVars, mainVars, recvVars, inbox, handling>>
    /\ UNCHANGED <<dangling, writeVars>>

(* ~Impl has closed the inbox and the queue is empty: the thread ends.     *)
DispatchEnds ==
    /\ running /\ mpc = "~Impl"
    /\ handling = <<>> /\ inbox = <<>>
    /\ running' = FALSE
    /\ UNCHANGED <<debuggerVars, mainVars, recvVars, inbox, todo, handling>>
    /\ UNCHANGED <<dangling, writeVars>>

HandlerEnds ==
    /\ handling # <<>> /\ todo = <<>> /\ sendMutex # "dispatch"
    /\ handling' = <<>>
    /\ UNCHANGED <<debuggerVars, mainVars, recvVars, inbox, todo, running, dangling, writeVars>>
-----------------------------------------------------------------------------
MainGoes(from, to) == mpc = from /\ mpc' = to

(* Mutant: Event::wait() returns at the first wakeup.                      *)
MainWaitsNot ==
    /\ \/ MainGoes("configured.wait", "send thread")
       \/ MainGoes("terminate.wait", "return")
    /\ UNCHANGED <<debuggerVars, configured, terminate, alive>>
    /\ UNCHANGED <<recvVars, dispatchVars, writeVars>>

(* Event::wait() of configured and of terminate.                           *)
MainWaits ==
    /\ \/ configured /\ MainGoes("configured.wait", "send thread")
       \/ terminate /\ MainGoes("terminate.wait", "return")
    /\ UNCHANGED <<debuggerVars, configured, terminate, alive>>
    /\ UNCHANGED <<recvVars, dispatchVars, writeVars>>

(* The thread event, and the stopped event of debugger.pause().            *)
MainSends ==
    /\ \/ /\ MainGoes("send thread", "pause")
          /\ Writes("main", Event("thread"))
       \/ /\ sendMutex # "main"
          /\ MainGoes("pause", "terminate.wait")
          /\ Writes("main", Event("paused"))
    /\ UNCHANGED <<debuggerVars, configured, terminate, alive, recvVars, dispatchVars>>

(* return 0: the locals declared after the session are destroyed, then the *)
(* session; ~Impl waits for a receiving thread that stdin never releases.  *)
MainReturns ==
    /\ MainGoes("return", "~Impl")
    /\ sendMutex # "main"
    /\ alive' = FALSE
    /\ UNCHANGED <<debuggerVars, configured, terminate, recvVars, dispatchVars, writeVars>>

RecvSteps == HandOver \/ OnError

DispatchSteps == Dispatch \/ HandlerSends \/ Copies("dispatch") \/ HandlerEnds \/ DispatchEnds

MainSteps == MainWaits \/ MainSends \/ Copies("main") \/ MainReturns

DebuggerNext ==
    \/ \E r \in Requests : Receive(r)
    \/ RecvSteps \/ DispatchSteps \/ MainSteps

(* The three threads run on; a thread that waits for sendMutex gets it, as *)
(* each of the others sends finitely many messages.                        *)
DebuggerSpec ==
    /\ DebuggerInit /\ [][DebuggerNext]_allVars
    /\ WF_allVars(RecvSteps) /\ WF_allVars(DispatchSteps) /\ WF_allVars(MainSteps)
-----------------------------------------------------------------------------
Count(s, Test(_)) == Len(SelectSeq(s, Test))

Terminates(r) == r.name = "disconnect" /\ r.data # {}

(* The client sends only requests that have a handler, and none after the  *)
(* disconnect that terminates the debugger.                                *)
Orderly ==
    \A i \in DOMAIN sent : Handled(sent[i]) /\ (Terminates(sent[i]) => i = Len(sent))

(* The number of lines from a on to b, going round at the end.             *)
Distance(a, b) == IF b > a THEN b - a ELSE b + NumSourceLines - a

(* run() stops at the breakpoint that follows the current line first, and  *)
(* stays where it is when no line has one (hello_debugger.cpp:91-102).     *)
ContinueStopsAtNearest ==
    [][handling = <<>> /\ handling' # <<>> /\ handling'[1].name = "continue" =>
         LET reachable == breakpoints \cap 1..NumSourceLines
         IN  IF reachable = {} THEN line' = line
             ELSE /\ line' \in reachable
                  /\ \A b \in reachable : Distance(line, line') <= Distance(line, b)]_allVars

(* The number of messages among the first i of l that were written.        *)
Written(l, i) == Cardinality({j \in 1..i : l[j].kind # "request"})

(* While the log is open it holds what was written to stdout, in the same  *)
(* order, up to the message that is being copied (io.cpp:189-198).         *)
LogFollowsStdout ==
    logging = "open" =>
        /\ Written(log, Len(log)) = Len(stdout) - IF sendMutex = "free" THEN 0 ELSE 1
        /\ \A i \in 1..Len(log) :
              log[i].kind # "request" => log[i] = stdout[Written(log, i)]

(* No handler uses main()'s locals after they are destroyed, if the client *)
(* is orderly: the locals die before the session (lines 174-219, 468).     *)
UsesLiveLocals == Orderly => ~dangling

(* Every request of an orderly client is answered, the disconnect that     *)
(* lets main() return included.                                            *)
AllAnswered ==
    []<>(Orderly => Count(stdout, LAMBDA m : m.kind \in {"response", "error"}) = Len(sent))
=============================================================================
