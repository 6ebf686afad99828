----------------------------- MODULE SessionPeer -----------------------------
(***************************************************************************)
(* A session and the peer at the other end of its connection.  The peer is *)
(* any program that speaks the protocol, not necessarily one built on this *)
(* library: it sends requests and events of any name, with a body that is  *)
(* well formed, malformed or missing, and things that are no message at    *)
(* all; it answers requests it has received in full, in any order, more    *)
(* than once, or with a response that cannot be decoded; and it closes     *)
(* either direction of the connection whenever it likes.                   *)
(***************************************************************************)
EXTENDS Session

CONSTANTS
    Bodies,       \* the bodies the peer sends, a subset of {"ok", "bad", "absent"}
    Forms,        \* the forms of its responses, a subset of {"ok", "bad"}
    MaxAnswers,   \* bound: how often the peer answers one request
    MaxGarbage,   \* bound: how many things it sends that are no message
    MaxUnread     \* bound: how many messages wait in the connection at once

ASSUME PeerAssumption ==
    /\ Bodies \subseteq {"ok", "bad", "absent"}
    /\ Forms \subseteq {"ok", "bad"}
    /\ MaxAnswers \in Nat
    /\ MaxGarbage \in Nat
    /\ MaxUnread \in Nat

VARIABLES
    peerSent,     \* the requests and events the peer has sent
    answers,      \* how often it has answered each request
    garbage       \* how much garbage it has sent

peer == <<peerSent, answers, garbage>>

allVars == <<vars, peer>>

PeerInit ==
    /\ peerSent = {}
    /\ answers = [c \in ReqCalls |-> 0]
    /\ garbage = 0

(* The peer's end of a connection that the session has not yet connected   *)
(* to exists already; what is written to it waits there.                   *)
Deliver(m) ==
    /\ reader \in {"none", "open"}
    /\ Len(in) < MaxUnread
    /\ in' = Append(in, m)
    /\ UNCHANGED <<reader, writer, wire>>
    /\ UNCHANGED <<endpoint, sending, receiving, responseMap, dtor>>

PeerSendsRequest(r) ==
    /\ r \notin peerSent
    /\ \E n \in Commands, b \in Bodies : Deliver(PeerMessage("request", r, n, b))
    /\ peerSent' = peerSent \cup {r}
    /\ UNCHANGED <<answers, garbage>>

PeerSendsEvent(e) ==
    /\ e \notin peerSent
    /\ \E n \in EventNames, b \in Bodies : Deliver(PeerMessage("event", e, n, b))
    /\ peerSent' = peerSent \cup {e}
    /\ UNCHANGED <<answers, garbage>>

PeerSendsGarbage ==
    /\ garbage < MaxGarbage
    /\ Deliver(Garbage) \/ Deliver(Noise)
    /\ garbage' = garbage + 1
    /\ UNCHANGED <<peerSent, answers>>

PeerAnswers(c) ==
    /\ OnWire(c)
    /\ answers[c] < MaxAnswers
    /\ \E f \in Forms : Deliver(Response(Wrap(seq[c]), c, answers[c] + 1, f))
    /\ answers' = [answers EXCEPT ![c] = @ + 1]
    /\ UNCHANGED <<peerSent, garbage>>

(* A pipe is closed for both ends at once.  A socket or a file only        *)
(* reports the end of the data: its isOpen() stays true (socket.cpp:160-170*)
(* asks for a pending error and an orderly shutdown is none; io.cpp:115    *)
(* asks whether close() was called).                                       *)
PeerClosesIn ==
    /\ reader = "open"
    /\ reader' = IF transport = "pipe" THEN "closed" ELSE "eof"
    /\ UNCHANGED <<writer, in, wire>>
    /\ UNCHANGED <<endpoint, sending, receiving, responseMap, dtor, peer>>

PeerClosesOut ==
    /\ writer = "open"
    /\ writer' = IF transport = "pipe" THEN "closed" ELSE "broken"
    /\ UNCHANGED <<reader, in, wire>>
    /\ UNCHANGED <<endpoint, sending, receiving, responseMap, dtor, peer>>

PeerNext ==
    \/ \E r \in PeerRequests : PeerSendsRequest(r)
    \/ \E e \in PeerEvents : PeerSendsEvent(e)
    \/ PeerSendsGarbage
    \/ \E c \in ReqCalls : PeerAnswers(c)
    \/ PeerClosesIn
    \/ PeerClosesOut

SystemNext == (Next /\ UNCHANGED peer) \/ PeerNext

SystemInit == Init /\ PeerInit

SafeSpec == SystemInit /\ [][SystemNext]_allVars

(* The operating system runs every thread that can run.  A call that was   *)
(* begun is carried on, and so is ~Impl; nothing makes the program begin   *)
(* one.  Locks are held for a bounded time, so weak fairness is enough.    *)
ThreadFairness ==
    /\ \A c \in ReqCalls :
          WF_allVars((PutResponseHandler(c) \/ Send(c) \/ ReturnRequest(c)) /\ UNCHANGED peer)
    /\ \A e \in EvtCalls : WF_allVars((Send(e) \/ ReturnEvent(e)) /\ UNCHANGED peer)
    /\ \A r \in PeerRequests : WF_allVars((Send(r) \/ RunSentHandler(r)) /\ UNCHANGED peer)
    /\ WF_allVars(RecvThread /\ UNCHANGED peer)
    /\ WF_allVars(DispatchThread /\ UNCHANGED peer)
    /\ WF_allVars((DestroyReader \/ DestroyWriter \/ JoinRecvThread \/ JoinDispatchThread)
                    /\ UNCHANGED peer)

Spec == SafeSpec /\ ThreadFairness

(* A program that starts its session and a peer that answers every request *)
(* it receives while the connection lasts.                                 *)
CooperativeSpec ==
    /\ Spec
    /\ WF_allVars((Connect \/ StartProcessingMessages) /\ UNCHANGED peer)
    /\ \A c \in ReqCalls : WF_allVars(answers[c] = 0 /\ PeerAnswers(c))
-----------------------------------------------------------------------------
PeerMessages ==
    {PeerMessage(t, id, n, b) : t \in {"request", "event"}, id \in Payloads,
                                n \in Names, b \in {"ok", "bad", "absent"}}

Responses == {Response(k, c, n, f) : k \in Keys, c \in ReqCalls, n \in 1 .. MaxAnswers,
                                     f \in {"ok", "bad"}}

Messages == PeerMessages \cup Responses \cup {Garbage, Noise}

Halves == [part : {"header", "content"}, from : Senders, seq : Keys]

SendStates == {"idle", "numbered", "deferred", "ready", "header", "content",
               "sent", "failed", "done"}

EndpointTypes ==
    /\ isBound \in BOOLEAN /\ isProcessingMessages \in BOOLEAN
    /\ requestMap \subseteq Commands /\ eventMap \subseteq EventNames
    /\ transport \in Transports \cup {"none"}
    /\ onInvalidData \in {"kIgnore", "kClose"}

SendingTypes ==
    /\ nextSeq \in Nat
    /\ sendMutex \in Senders \cup {None}
    /\ spc \in [Senders -> SendStates]
    /\ seq \in [Senders -> Nat]
    /\ promise \in [ReqCalls -> ReqCalls \cup {None, NotSent}]
    /\ setValues \in [ReqCalls -> Nat]
    /\ sentHandlerRan \subseteq PeerRequests

ReceivingTypes ==
    /\ inbox \in Seq(Payloads) /\ inboxClosed \in BOOLEAN
    /\ recvPc \in {"off", "loop", "read", "put", "exited"}
    /\ recvItem \in Payloads \cup {None}
    /\ recvPc = "put" => recvItem # None
    /\ dispatchPc \in {"off", "take", "run", "answering", "exited"}
    /\ dispatchItem \in Payloads \cup {None}
    /\ onCloseRan \in BOOLEAN

ConnectionTypes ==
    /\ reader \in {"none", "open", "eof", "closed"}
    /\ writer \in {"none", "open", "broken", "closed"}
    /\ in \in Seq(Messages)
    /\ wire \in Seq(Halves)

PeerTypes ==
    /\ peerSent \subseteq Payloads
    /\ answers \in [ReqCalls -> Nat]
    /\ garbage \in Nat

(* The type invariant: in particular responses name keys of responseMap,   *)
(* and what the receive thread queues is a payload (session.cpp:88-89).    *)
TypeOK ==
    /\ EndpointTypes
    /\ SendingTypes
    /\ ReceivingTypes
    /\ ConnectionTypes
    /\ PeerTypes
    /\ responseMap \in [Keys -> ReqCalls \cup {None}]
    /\ dtor \in {"alive", "closeReader", "closeWriter", "joinRecv",
                 "joinDispatch", "dead"}

(* At most 2^32 sequence numbers have been taken; the first is 1.          *)
NotWrapped == nextSeq - 1 <= SeqMod

(* Concurrent send() calls (session.cpp:476-483) never tear each other's   *)
(* messages apart: on the wire every header is followed by its own         *)
(* content, whoever else is sending and whenever the writer is closed.     *)
FramesIntact ==
    \A i \in 1 .. Len(wire) :
        IF i % 2 = 1
          THEN wire[i].part = "header"
          ELSE wire[i].part = "content" /\ wire[i].from = wire[i - 1].from

(* No two messages on the wire carry the same sequence number, although    *)
(* requests, events and responses take it on different threads (lines 108, *)
(* 129, 354, 373).                                                         *)
NumbersUnique ==
    NotWrapped =>
        \A i, j \in 1 .. Len(wire) :
            wire[i].seq = wire[j].seq => wire[i].from = wire[j].from

(* A future holds the answer to its own request (session.h:212-213),       *)
(* whatever order the peer answers in and however often.                   *)
ResponseMatched ==
    NotWrapped => \A c \in ReqCalls : promise[c] \in {None, NotSent, c}

(* set_value() is called at most once per promise (future.h:143-144), also *)
(* when the connection breaks in the middle of send() (session.h:430-433)  *)
(* and when the peer answers twice (session.cpp:191-202).                  *)
PromiseSetOnce == NotWrapped => \A c \in ReqCalls : setValues[c] <= 1

InFlight(c) == {i \in 1 .. Len(in) : in[i].type = "response" /\ in[i].to = c}

Unread(c, n) == \E i \in InFlight(c) : in[i].nth = n

(* The first response to a request finds its handler registered: put() on  *)
(* line 110 comes before the request is written on line 123, so even the   *)
(* fastest answer is not reported as "Unknown response".                   *)
HandlerWaits ==
    NotWrapped =>
        \A c \in ReqCalls :
            OnWire(c) /\ (\A n \in 1 .. answers[c] : Unread(c, n))
                => responseMap[Wrap(seq[c])] = c

(* The response-sent handler runs after the response has been written      *)
(* (hello_debugger.cpp:242-243: "to ensure the event is sent *after* the   *)
(* initialize response"), unless the writer has failed or been closed.     *)
SentHandlerAfterResponse ==
    \A r \in sentHandlerRan : OnWire(r) \/ writer # "open"

(* When ~Impl returns nobody is inside the session: both threads have      *)
(* ended, no answer is half written and sendMutex is free.                 *)
QuietWhenDead ==
    dtor = "dead" =>
        /\ recvPc \in {"off", "exited"} /\ dispatchPc \in {"off", "exited"}
        /\ sendMutex = None
        /\ \A a \in Senders : spc[a] \in {"idle", "deferred", "done"}

(* ~Impl always returns: closing the streams ends the receive thread, and  *)
(* closing the inbox ends the dispatch thread (lines 141-151).             *)
DestructorReturns == (dtor = "closeReader") ~> (dtor = "dead")

InInbox(p) == \E i \in 1 .. Len(inbox) : inbox[i] = p

(* A request or event queued before the inbox is closed is handed to its   *)
(* handler, even when the session is being destroyed: the dispatch thread  *)
(* drains the inbox before it ends (lines 98-100, chan.h:56-66).           *)
QueuedIsDispatched ==
    \A p \in Payloads : (InInbox(p) /\ ~inboxClosed) ~> (dispatchItem = p)

(* An answer that has arrived reaches the future, unless the stream it     *)
(* sits in is closed first.                                                *)
AnswerReachesFuture ==
    \A c \in ReqCalls :
        (InFlight(c) # {} /\ recvPc \in {"loop", "read", "put"})
            ~> (promise[c] # None \/ reader = "closed")

(* The streams whose end the receive thread notices: a closed one, and in  *)
(* kClose mode one that ends where a header is expected, unless close()    *)
(* has no effect on it.                                                    *)
EndIsNoticed ==
    \/ reader = "closed"
    \/ reader = "eof" /\ onInvalidData = "kClose" /\ transport # "stdio"

(* onClose is called when the session endpoint has been closed             *)
(* (session.h:249-250), whoever closed it, the peer of a pipe, ~Impl or    *)
(* the ContentReader, and wherever the receive thread is (lines 87-94); in *)
(* kClose mode also after an orderly shutdown of a socket, which closes    *)
(* the reader once what came before it has been read.                      *)
ClosedIsReported == (isProcessingMessages /\ EndIsNoticed) ~> onCloseRan

(* session.h:212-213, "send() sends the request to the connected endpoint  *)
(* and returns a future that is assigned the request response or error".   *)
FutureIsAssigned == \A c \in ReqCalls : (spc[c] = "done") ~> (promise[c] # None)
=============================================================================
