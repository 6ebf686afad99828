------------------------------- MODULE Session -------------------------------
(***************************************************************************)
(* One endpoint: dap::Session's implementation (class Impl of              *)
(* src/session.cpp) with the promise/future glue of session.h.             *)
(*                                                                         *)
(* The threads are: the receive thread (reads and decodes messages, runs   *)
(* response handlers, queues requests and events), the dispatch thread     *)
(* (runs request and event handlers), the threads of the program that call *)
(* send(), the threads that answer a request after its handler returned,   *)
(* and the thread that destroys the session.                               *)
(*                                                                         *)
(* The actors that write to the connection are the calls themselves: a     *)
(* ReqCall is one Session::send(request), an EvtCall one                   *)
(* Session::send(event), and a member of PeerRequests one request of the   *)
(* peer, which acts when it is answered.  Any number of them run at once.  *)
(*                                                                         *)
(* The connection is seen through what it does to the session.  wire is    *)
(* everything written, in halves, because ContentWriter::write makes two   *)
(* writes (header, then content); in is the queue of whole messages the    *)
(* peer sent and the receive thread has not read.  The peer itself is not  *)
(* part of this module.                                                    *)
(***************************************************************************)
EXTENDS Naturals, Sequences

CONSTANTS
    ReqCalls,       \* calls of send() with a request
    EvtCalls,       \* calls of send() with an event
    PeerRequests,   \* requests the peer sends
    PeerEvents,     \* events the peer sends
    Commands,       \* the names of requests in use
    EventNames,     \* the names of events in use
    HasFields,      \* those of them whose structure has at least one field
    SeqMod,         \* nextSeq is a uint32_t: SeqMod stands for 2^32
    Transports,     \* what connect() may be given: pipes, a socket, stdin and stdout
    InvalidDataModes, \* what setOnInvalidData() may be given
    None,           \* no thread, no payload, no handler, no value
    NotSent         \* the value of a future whose request could not be sent

ASSUME SeqModAssumption == SeqMod \in Nat \ {0}

ASSUME NamesAssumption == HasFields \subseteq Commands \cup EventNames

ASSUME TransportAssumption ==
    /\ Transports \subseteq {"pipe", "socket", "stdio"}
    /\ InvalidDataModes \subseteq {"kIgnore", "kClose"}

ASSUME DistinctAssumption ==
    /\ ReqCalls \cap EvtCalls = {}
    /\ ReqCalls \cap PeerRequests = {}
    /\ EvtCalls \cap PeerRequests = {}
    /\ PeerRequests \cap PeerEvents = {}
    /\ {None, NotSent} \cap (ReqCalls \cup EvtCalls \cup PeerRequests \cup PeerEvents) = {}
    /\ None # NotSent

VARIABLES
    isBound, isProcessingMessages,
    transport,      \* what connect() was given, or "none"
    onInvalidData,  \* the mode connect() gives, or gave, to the ContentReader
    reader,         \* state of the Reader: "none", "open", "eof" or "closed"
    writer,         \* state of the Writer: "none", "open", "broken" or "closed"
    in,             \* messages received and not yet read
    wire,           \* every half of a message written, oldest first
    requestMap, eventMap,   \* the names that have a handler
    responseMap,    \* wrapped sequence number -> the call waiting for the answer
    nextSeq,        \* the counter, before it is wrapped to 32 bits
    sendMutex,      \* the actor that holds it, or None
    spc,            \* where each sending actor is
    seq,            \* the sequence number each of them took, unwrapped
    promise,        \* per ReqCall: None, NotSent, or the call whose answer it is
    setValues,      \* per ReqCall: how often set_value() was called on its promise
    sentHandlerRan, \* the PeerRequests for which the response-sent handler ran
    inbox, inboxClosed,
    recvPc, recvItem,
    dispatchPc, dispatchItem,
    onCloseRan,
    dtor            \* progress of ~Impl

Names == Commands \cup EventNames

Senders == ReqCalls \cup EvtCalls \cup PeerRequests

Payloads == PeerRequests \cup PeerEvents

settings == <<transport, onInvalidData>>
endpoint == <<isBound, isProcessingMessages, settings, requestMap, eventMap>>
sending == <<nextSeq, sendMutex, spc, seq, promise, setValues, sentHandlerRan>>
receiving == <<inbox, inboxClosed, recvPc, recvItem, dispatchPc, dispatchItem, onCloseRan>>
connection == <<reader, writer, in, wire>>

vars == <<endpoint, sending, receiving, connection, responseMap, dtor>>

(* uint32_t arithmetic; the cast to int on line 108 is a bijection.        *)
Wrap(n) == n % SeqMod

Keys == 0 .. SeqMod - 1

Init ==
    /\ isBound = FALSE /\ isProcessingMessages = FALSE
    /\ transport = "none"
    /\ onInvalidData = "kIgnore"
    /\ reader = "none" /\ writer = "none"
    /\ in = <<>> /\ wire = <<>>
    /\ requestMap = {} /\ eventMap = {}
    /\ responseMap = [k \in Keys |-> None]
    /\ nextSeq = 1
    /\ sendMutex = None
    /\ spc = [a \in Senders |-> "idle"]
    /\ seq = [a \in Senders |-> 0]
    /\ promise = [c \in ReqCalls |-> None]
    /\ setValues = [c \in ReqCalls |-> 0]
    /\ sentHandlerRan = {}
    /\ inbox = <<>> /\ inboxClosed = FALSE
    /\ recvPc = "off" /\ recvItem = None
    /\ dispatchPc = "off" /\ dispatchItem = None
    /\ onCloseRan = FALSE
    /\ dtor = "alive"
-----------------------------------------------------------------------------
(* Messages.  The peer's requests and events carry a name and a body that  *)
(* is well formed, malformed or absent; a response carries the sequence    *)
(* number of the request it answers and, for the properties, which call    *)
(* that is and the number of this answer to it.  "form" says whether its   *)
(* success and message fields can be read.  "garbage" is anything else     *)
(* with a valid header, "noise" is what has none.                          *)
PeerMessage(type, id, name, body) ==
    [type |-> type, id |-> id, name |-> name, body |-> body]

Response(key, call, nth, form) ==
    [type |-> "response", requestSeq |-> key, to |-> call, nth |-> nth, form |-> form]

Garbage == [type |-> "garbage"]

Noise == [type |-> "noise"]

Half(part, a) == [part |-> part, from |-> a, seq |-> Wrap(seq[a])]

(* An absent field is decoded with the NullDeserializer, which knows no    *)
(* field: it satisfies only a structure without fields.                    *)
Decodes(m) == m.body = "ok" \/ (m.body = "absent" /\ m.name \notin HasFields)

(* The message is on the wire from its first to its last byte.             *)
OnWire(a) == \E i \in 1 .. Len(wire) : wire[i].part = "content" /\ wire[i].from = a
-----------------------------------------------------------------------------
(* Setting the session up.  A second registration of a name, a second      *)
(* connect and a second startProcessingMessages only report an error.      *)
RegisterRequestHandler(n) ==
    /\ dtor = "alive"
    /\ n \notin requestMap
    /\ requestMap' = requestMap \cup {n}
    /\ UNCHANGED <<isBound, isProcessingMessages, settings, eventMap>>
    /\ UNCHANGED <<sending, receiving, connection, responseMap, dtor>>

RegisterEventHandler(n) ==
    /\ dtor = "alive"
    /\ n \notin eventMap
    /\ eventMap' = eventMap \cup {n}
    /\ UNCHANGED <<isBound, isProcessingMessages, settings, requestMap>>
    /\ UNCHANGED <<sending, receiving, connection, responseMap, dtor>>

(* setOnInvalidData() after connect() sets a member that nobody reads any  *)
(* more: the ContentReader has its own copy.                               *)
SetOnInvalidData(m) ==
    /\ dtor = "alive"
    /\ ~isBound
    /\ onInvalidData' = m
    /\ UNCHANGED <<isBound, isProcessingMessages, transport, requestMap, eventMap>>
    /\ UNCHANGED <<sending, receiving, connection, responseMap, dtor>>

Connect ==
    /\ dtor = "alive"
    /\ ~isBound
    /\ isBound' = TRUE
    /\ transport' \in Transports
    /\ reader' = "open" /\ writer' = "open"
    /\ UNCHANGED <<isProcessingMessages, onInvalidData, requestMap, eventMap, in, wire>>
    /\ UNCHANGED <<sending, receiving, responseMap, dtor>>

StartProcessingMessages ==
    /\ dtor = "alive"
    /\ ~isProcessingMessages
    /\ isProcessingMessages' = TRUE
    /\ recvPc' = "loop" /\ dispatchPc' = "take"
    /\ UNCHANGED <<isBound, settings, requestMap, eventMap>>
    /\ UNCHANGED <<inbox, inboxClosed, recvItem, dispatchItem, onCloseRan>>
    /\ UNCHANGED <<sending, connection, responseMap, dtor>>
-----------------------------------------------------------------------------
(* Mutant: the increment is not atomic, one of two at a time can get lost. *)
TakeNumberRacy(a) ==
    /\ seq' = [seq EXCEPT ![a] = nextSeq]
    /\ nextSeq' \in {nextSeq, nextSeq + 1}

(* nextSeq++, an atomic increment.                                         *)
TakeNumber(a) ==
    /\ seq' = [seq EXCEPT ![a] = nextSeq]
    /\ nextSeq' = nextSeq + 1

Goto(a, pc) == spc' = [spc EXCEPT ![a] = pc]

(* promise::set_value (future.h:161-175): it overwrites what is there.     *)
SetValue(c, v) ==
    /\ promise' = [promise EXCEPT ![c] = v]
    /\ setValues' = [setValues EXCEPT ![c] = @ + 1]

(* send(request), line 108.                                                *)
SendRequest(c) ==
    /\ dtor = "alive"
    /\ spc[c] = "idle"
    /\ TakeNumber(c)
    /\ Goto(c, "numbered")
    /\ UNCHANGED <<sendMutex, promise, setValues, sentHandlerRan>>
    /\ UNCHANGED <<endpoint, receiving, connection, responseMap, dtor>>

(* Mutant: the handler is not put in the map when the answer is awaited    *)
(* later than the request is sent.                                         *)
PutResponseHandlerLate(c) ==
    /\ spc[c] = "numbered"
    /\ Goto(c, "ready") \/ Goto(c, "failed")
    /\ UNCHANGED <<nextSeq, sendMutex, seq, promise, setValues, sentHandlerRan>>
    /\ UNCHANGED <<endpoint, receiving, connection, responseMap, dtor>>

(* Lines 110-122: the handler is put in the map before anything is sent,   *)
(* and emplace keeps the handler that is there already.  Serializing the   *)
(* request may fail; the entry stays.                                      *)
PutResponseHandler(c) ==
    /\ spc[c] = "numbered"
    /\ LET k == Wrap(seq[c])
       IN  responseMap' = IF responseMap[k] = None
                            THEN [responseMap EXCEPT ![k] = c]
                            ELSE responseMap
    /\ Goto(c, "ready") \/ Goto(c, "failed")
    /\ UNCHANGED <<nextSeq, sendMutex, seq, promise, setValues, sentHandlerRan>>
    /\ UNCHANGED <<endpoint, receiving, connection, dtor>>

(* send(event), lines 126-137.                                             *)
SendEvent(e) ==
    /\ dtor = "alive"
    /\ spc[e] = "idle"
    /\ TakeNumber(e)
    /\ Goto(e, "ready") \/ Goto(e, "failed")
    /\ UNCHANGED <<sendMutex, promise, setValues, sentHandlerRan>>
    /\ UNCHANGED <<endpoint, receiving, connection, responseMap, dtor>>

(* Mutant: send() does not hold sendMutex while it writes.                 *)
LockAndCheckOpenBriefly(a) ==
    /\ spc[a] = "ready"
    /\ sendMutex = None
    /\ Goto(a, IF writer \in {"open", "broken"} THEN "header" ELSE "failed")
    /\ UNCHANGED <<nextSeq, sendMutex, seq, promise, setValues, sentHandlerRan>>
    /\ UNCHANGED <<endpoint, receiving, connection, responseMap, dtor>>

(* send(string), lines 477-480: lock sendMutex and look at the writer.     *)
LockAndCheckOpen(a) ==
    /\ spc[a] = "ready"
    /\ sendMutex = None
    /\ IF writer \in {"open", "broken"}
         THEN sendMutex' = a /\ Goto(a, "header")
         ELSE sendMutex' = None /\ Goto(a, "failed")
    /\ UNCHANGED <<nextSeq, seq, promise, setValues, sentHandlerRan>>
    /\ UNCHANGED <<endpoint, receiving, connection, responseMap, dtor>>

(* ContentWriter::write: the header, then the content if that succeeded.   *)
WriteHeader(a) ==
    /\ spc[a] = "header"
    /\ IF writer = "open"
         THEN /\ wire' = Append(wire, Half("header", a))
              /\ Goto(a, "content")
              /\ UNCHANGED sendMutex
         ELSE /\ sendMutex' = None
              /\ Goto(a, "failed")
              /\ UNCHANGED wire
    /\ UNCHANGED <<nextSeq, seq, promise, setValues, sentHandlerRan, reader, writer, in>>
    /\ UNCHANGED <<endpoint, receiving, responseMap, dtor>>

WriteContent(a) ==
    /\ spc[a] = "content"
    /\ sendMutex' = None
    /\ IF writer = "open"
         THEN wire' = Append(wire, Half("content", a)) /\ Goto(a, "sent")
         ELSE UNCHANGED wire /\ Goto(a, "failed")
    /\ UNCHANGED <<nextSeq, seq, promise, setValues, sentHandlerRan, reader, writer, in>>
    /\ UNCHANGED <<endpoint, receiving, responseMap, dtor>>

(* send() returns.  A request that could not be sent sets its promise      *)
(* (session.h:430-433); an event's result is dropped.                      *)
ReturnRequest(c) ==
    /\ spc[c] \in {"sent", "failed"}
    /\ IF spc[c] = "failed" THEN SetValue(c, NotSent) ELSE UNCHANGED <<promise, setValues>>
    /\ Goto(c, "done")
    /\ UNCHANGED <<nextSeq, sendMutex, seq, sentHandlerRan>>
    /\ UNCHANGED <<endpoint, receiving, connection, responseMap, dtor>>

ReturnEvent(e) ==
    /\ spc[e] \in {"sent", "failed"}
    /\ Goto(e, "done")
    /\ UNCHANGED <<nextSeq, sendMutex, seq, promise, setValues, sentHandlerRan>>
    /\ UNCHANGED <<endpoint, receiving, connection, responseMap, dtor>>
-----------------------------------------------------------------------------
(* close() on a stream: a socket is one object with two directions, and a  *)
(* FILE opened with closable = false stays as it is (io.cpp:116-122).      *)
Closed(stream) == IF stream = "none" \/ transport = "stdio" THEN stream ELSE "closed"

CloseReader ==
    /\ reader' = Closed(reader)
    /\ writer' = IF transport = "socket" THEN Closed(writer) ELSE writer

(* The receive thread, lines 86-95.                                        *)
RecvLoop ==
    /\ recvPc = "loop"
    /\ IF reader \in {"open", "eof"}
         THEN recvPc' = "read" /\ UNCHANGED onCloseRan
         ELSE recvPc' = "exited" /\ onCloseRan' = TRUE
    /\ UNCHANGED <<inbox, inboxClosed, recvItem, dispatchPc, dispatchItem>>
    /\ UNCHANGED <<endpoint, sending, connection, responseMap, dtor>>

(* Mutant: in kClose mode too, the end of the data leaves the reader open. *)
RecvNothingStaysOpen ==
    /\ recvPc = "read"
    /\ reader = "closed" \/ (reader = "eof" /\ in = <<>>)
    /\ recvPc' = "loop"
    /\ UNCHANGED <<inbox, inboxClosed, recvItem, dispatchPc, dispatchItem, onCloseRan>>
    /\ UNCHANGED <<endpoint, sending, connection, responseMap, dtor>>

(* getPayload() on a stream that has ended or was closed: read() returned  *)
(* the empty string.  A closed reader hands out nothing it still holds.    *)
(* Where kClose expects a header, the end of the data is a bad one and     *)
(* closes the reader (content_stream.cpp:51-54, 163-168).                  *)
RecvNothing ==
    /\ recvPc = "read"
    /\ reader = "closed" \/ (reader = "eof" /\ in = <<>>)
    /\ IF onInvalidData = "kClose" THEN CloseReader ELSE UNCHANGED <<reader, writer>>
    /\ recvPc' = "loop"
    /\ UNCHANGED <<inbox, inboxClosed, recvItem, dispatchPc, dispatchItem, onCloseRan>>
    /\ UNCHANGED <<in, wire>>
    /\ UNCHANGED <<endpoint, sending, responseMap, dtor>>

CanRead == recvPc = "read" /\ reader \in {"open", "eof"} /\ in # <<>>

(* processRequest and processEvent: a payload is made for a message that   *)
(* has a handler and whose arguments or body can be decoded.               *)
Accepted(m) ==
    \/ m.type = "request" /\ m.name \in requestMap /\ Decodes(m)
    \/ m.type = "event" /\ m.name \in eventMap /\ Decodes(m)

RecvPayload ==
    /\ CanRead
    /\ Accepted(Head(in))
    /\ in' = Tail(in)
    /\ recvItem' = Head(in).id
    /\ recvPc' = "put"
    /\ UNCHANGED <<inbox, inboxClosed, dispatchPc, dispatchItem, onCloseRan>>
    /\ UNCHANGED <<reader, writer, wire>>
    /\ UNCHANGED <<endpoint, sending, responseMap, dtor>>

(* The message is dropped with a report to the error handler.              *)
RecvDropped ==
    /\ CanRead
    /\ Head(in).type \notin {"response", "noise"}
    /\ ~Accepted(Head(in))
    /\ in' = Tail(in)
    /\ recvPc' = "loop"
    /\ UNCHANGED <<inbox, inboxClosed, recvItem, dispatchPc, dispatchItem, onCloseRan>>
    /\ UNCHANGED <<reader, writer, wire>>
    /\ UNCHANGED <<endpoint, sending, responseMap, dtor>>

(* ContentReader::read on bytes that are no header: kIgnore scans past     *)
(* them, still inside read(); kClose leaves them and closes the reader.    *)
RecvNoiseSkipped ==
    /\ CanRead
    /\ Head(in).type = "noise"
    /\ onInvalidData = "kIgnore"
    /\ in' = Tail(in)
    /\ UNCHANGED <<reader, writer, wire>>
    /\ UNCHANGED <<endpoint, sending, receiving, responseMap, dtor>>

RecvNoiseCloses ==
    /\ CanRead
    /\ Head(in).type = "noise"
    /\ onInvalidData = "kClose"
    /\ CloseReader
    /\ recvPc' = "loop"
    /\ UNCHANGED <<inbox, inboxClosed, recvItem, dispatchPc, dispatchItem, onCloseRan>>
    /\ UNCHANGED <<in, wire>>
    /\ UNCHANGED <<endpoint, sending, responseMap, dtor>>

(* Mutant: the handler stays in the map.                                   *)
RecvResponseKeepsHandler ==
    /\ CanRead
    /\ Head(in).type = "response"
    /\ LET m == Head(in)
           c == responseMap[m.requestSeq]
       IN  IF c # None /\ m.form = "ok"
             THEN SetValue(c, m.to)
             ELSE UNCHANGED <<promise, setValues>>
    /\ in' = Tail(in)
    /\ recvPc' = "loop"
    /\ UNCHANGED <<inbox, inboxClosed, recvItem, dispatchPc, dispatchItem, onCloseRan>>
    /\ UNCHANGED <<reader, writer, wire, responseMap>>
    /\ UNCHANGED <<nextSeq, sendMutex, spc, seq, sentHandlerRan, endpoint, dtor>>

(* Mutant: a response that comes before send() has returned is lost.       *)
RecvResponseTooEarly ==
    /\ CanRead
    /\ Head(in).type = "response"
    /\ LET m == Head(in)
           c == responseMap[m.requestSeq]
       IN  /\ responseMap' = [responseMap EXCEPT ![m.requestSeq] = None]
           /\ IF c # None /\ m.form = "ok" /\ spc[c] = "done"
                THEN SetValue(c, m.to)
                ELSE UNCHANGED <<promise, setValues>>
    /\ in' = Tail(in)
    /\ recvPc' = "loop"
    /\ UNCHANGED <<inbox, inboxClosed, recvItem, dispatchPc, dispatchItem, onCloseRan>>
    /\ UNCHANGED <<reader, writer, wire>>
    /\ UNCHANGED <<nextSeq, sendMutex, spc, seq, sentHandlerRan, endpoint, dtor>>

(* processResponse, on the receive thread: the handler is taken out of the *)
(* map, then the rest of the response is decoded, then the handler sets    *)
(* the promise.  A response nobody waits for is reported and dropped; one  *)
(* that cannot be decoded is too, after its handler has been removed.      *)
RecvResponse ==
    /\ CanRead
    /\ Head(in).type = "response"
    /\ LET m == Head(in)
           c == responseMap[m.requestSeq]
       IN  /\ responseMap' = [responseMap EXCEPT ![m.requestSeq] = None]
           /\ IF c # None /\ m.form = "ok"
                THEN SetValue(c, m.to)
                ELSE UNCHANGED <<promise, setValues>>
    /\ in' = Tail(in)
    /\ recvPc' = "loop"
    /\ UNCHANGED <<inbox, inboxClosed, recvItem, dispatchPc, dispatchItem, onCloseRan>>
    /\ UNCHANGED <<reader, writer, wire>>
    /\ UNCHANGED <<nextSeq, sendMutex, spc, seq, sentHandlerRan, endpoint, dtor>>

(* inbox.put, which queues even when the channel is closed.                *)
RecvPut ==
    /\ recvPc = "put"
    /\ inbox' = Append(inbox, recvItem)
    /\ recvItem' = None
    /\ recvPc' = "loop"
    /\ UNCHANGED <<inboxClosed, dispatchPc, dispatchItem, onCloseRan>>
    /\ UNCHANGED <<endpoint, sending, connection, responseMap, dtor>>
-----------------------------------------------------------------------------
(* The dispatch thread, lines 97-101; Channel says what take() does.       *)
DispatchTake ==
    /\ dispatchPc = "take"
    /\ inbox # <<>>
    /\ dispatchItem' = Head(inbox)
    /\ inbox' = Tail(inbox)
    /\ dispatchPc' = "run"
    /\ UNCHANGED <<inboxClosed, recvPc, recvItem, onCloseRan>>
    /\ UNCHANGED <<endpoint, sending, connection, responseMap, dtor>>

(* Mutant: the thread ends as soon as the inbox is closed.                 *)
DispatchExitEarly ==
    /\ dispatchPc = "take"
    /\ inboxClosed
    /\ dispatchPc' = "exited"
    /\ UNCHANGED <<inbox, inboxClosed, recvPc, recvItem, dispatchItem, onCloseRan>>
    /\ UNCHANGED <<endpoint, sending, connection, responseMap, dtor>>

DispatchExit ==
    /\ dispatchPc = "take"
    /\ inbox = <<>> /\ inboxClosed
    /\ dispatchPc' = "exited"
    /\ UNCHANGED <<inbox, inboxClosed, recvPc, recvItem, dispatchItem, onCloseRan>>
    /\ UNCHANGED <<endpoint, sending, connection, responseMap, dtor>>

DispatchEvent ==
    /\ dispatchPc = "run" /\ dispatchItem \in PeerEvents
    /\ dispatchPc' = "take" /\ dispatchItem' = None
    /\ UNCHANGED <<inbox, inboxClosed, recvPc, recvItem, onCloseRan>>
    /\ UNCHANGED <<endpoint, sending, connection, responseMap, dtor>>

(* The handler answers before it returns: onSuccess and onError (lines     *)
(* 350-385) differ in the fields they write only.                          *)
DispatchRequestAnswered ==
    /\ dispatchPc = "run" /\ dispatchItem \in PeerRequests
    /\ TakeNumber(dispatchItem)
    /\ Goto(dispatchItem, "ready")
    /\ dispatchPc' = "answering"
    /\ UNCHANGED <<inbox, inboxClosed, recvPc, recvItem, dispatchItem, onCloseRan>>
    /\ UNCHANGED <<sendMutex, promise, setValues, sentHandlerRan>>
    /\ UNCHANGED <<endpoint, connection, responseMap, dtor>>

(* The handler keeps the callback and returns (session.h:171-175).         *)
DispatchRequestDeferred ==
    /\ dispatchPc = "run" /\ dispatchItem \in PeerRequests
    /\ Goto(dispatchItem, "deferred")
    /\ dispatchPc' = "take" /\ dispatchItem' = None
    /\ UNCHANGED <<inbox, inboxClosed, recvPc, recvItem, onCloseRan>>
    /\ UNCHANGED <<nextSeq, seq, sendMutex, promise, setValues, sentHandlerRan>>
    /\ UNCHANGED <<endpoint, connection, responseMap, dtor>>

AnswerDeferred(r) ==
    /\ dtor = "alive"
    /\ spc[r] = "deferred"
    /\ TakeNumber(r)
    /\ Goto(r, "ready")
    /\ UNCHANGED <<sendMutex, promise, setValues, sentHandlerRan>>
    /\ UNCHANGED <<endpoint, receiving, connection, responseMap, dtor>>

(* Mutant: the handler is called before the response is sent.              *)
RunSentHandlerFirst(r) ==
    \/ /\ spc[r] = "ready"
       /\ sentHandlerRan' = sentHandlerRan \cup {r}
       /\ UNCHANGED <<nextSeq, sendMutex, spc, seq, promise, setValues>>
       /\ UNCHANGED <<endpoint, receiving, connection, responseMap, dtor>>
    \/ /\ spc[r] \in {"sent", "failed"}
       /\ Goto(r, "done")
       /\ IF dispatchItem = r
            THEN dispatchPc' = "take" /\ dispatchItem' = None
            ELSE UNCHANGED <<dispatchPc, dispatchItem>>
       /\ UNCHANGED <<inbox, inboxClosed, recvPc, recvItem, onCloseRan>>
       /\ UNCHANGED <<nextSeq, seq, sendMutex, promise, setValues, sentHandlerRan>>
       /\ UNCHANGED <<endpoint, connection, responseMap, dtor>>

(* Lines 363-367 and 380-384: the result of send() is not looked at, and   *)
(* the response-sent handler runs if one is registered, which is a choice  *)
(* here.  The dispatch thread, if it is the one that answered, frees the   *)
(* request and goes on.                                                    *)
RunSentHandler(r) ==
    /\ spc[r] \in {"sent", "failed"}
    /\ sentHandlerRan' \in {sentHandlerRan, sentHandlerRan \cup {r}}
    /\ Goto(r, "done")
    /\ IF dispatchItem = r
         THEN dispatchPc' = "take" /\ dispatchItem' = None
         ELSE UNCHANGED <<dispatchPc, dispatchItem>>
    /\ UNCHANGED <<inbox, inboxClosed, recvPc, recvItem, onCloseRan>>
    /\ UNCHANGED <<nextSeq, seq, sendMutex, promise, setValues>>
    /\ UNCHANGED <<endpoint, connection, responseMap, dtor>>
-----------------------------------------------------------------------------
(* ~Impl, lines 141-151.  The program destroys the session when none of    *)
(* its own threads is inside it; the receive and the dispatch thread may   *)
(* be anywhere.                                                            *)
CallersAreOut ==
    /\ \A a \in ReqCalls \cup EvtCalls : spc[a] \in {"idle", "done"}
    /\ \A r \in PeerRequests :
          spc[r] \in {"idle", "deferred", "done"} \/ dispatchItem = r

(* Mutant: the inbox is not closed.                                        *)
DestroyInboxOpen ==
    /\ dtor = "alive"
    /\ CallersAreOut
    /\ dtor' = "closeReader"
    /\ UNCHANGED <<endpoint, sending, receiving, connection, responseMap>>

Destroy ==
    /\ dtor = "alive"
    /\ CallersAreOut
    /\ inboxClosed' = TRUE
    /\ dtor' = "closeReader"
    /\ UNCHANGED <<inbox, recvPc, recvItem, dispatchPc, dispatchItem, onCloseRan>>
    /\ UNCHANGED <<endpoint, sending, connection, responseMap>>

(* Mutant: the reader is not closed.                                       *)
DestroyReaderOpen ==
    /\ dtor = "closeReader"
    /\ dtor' = "closeWriter"
    /\ UNCHANGED <<endpoint, sending, receiving, connection, responseMap>>

DestroyReader ==
    /\ dtor = "closeReader"
    /\ CloseReader
    /\ dtor' = "closeWriter"
    /\ UNCHANGED <<in, wire>>
    /\ UNCHANGED <<endpoint, sending, receiving, responseMap>>

DestroyWriter ==
    /\ dtor = "closeWriter"
    /\ writer' = Closed(writer)
    /\ dtor' = "joinRecv"
    /\ UNCHANGED <<reader, in, wire>>
    /\ UNCHANGED <<endpoint, sending, receiving, responseMap>>

JoinRecvThread ==
    /\ dtor = "joinRecv"
    /\ recvPc \in {"off", "exited"}
    /\ dtor' = "joinDispatch"
    /\ UNCHANGED <<endpoint, sending, receiving, connection, responseMap>>

(* Mutant: the dispatch thread is detached instead of joined.              *)
JoinDispatchThreadNot ==
    /\ dtor = "joinDispatch"
    /\ dtor' = "dead"
    /\ UNCHANGED <<endpoint, sending, receiving, connection, responseMap>>

JoinDispatchThread ==
    /\ dtor = "joinDispatch"
    /\ dispatchPc \in {"off", "exited"}
    /\ dtor' = "dead"
    /\ UNCHANGED <<endpoint, sending, receiving, connection, responseMap>>
-----------------------------------------------------------------------------
Setup ==
    \/ \E n \in Commands : RegisterRequestHandler(n)
    \/ \E n \in EventNames : RegisterEventHandler(n)
    \/ \E m \in InvalidDataModes : SetOnInvalidData(m)
    \/ Connect
    \/ StartProcessingMessages

Send(a) == LockAndCheckOpen(a) \/ WriteHeader(a) \/ WriteContent(a)

RequestCall(c) == SendRequest(c) \/ PutResponseHandler(c) \/ Send(c) \/ ReturnRequest(c)

EventCall(e) == SendEvent(e) \/ Send(e) \/ ReturnEvent(e)

Answer(r) == AnswerDeferred(r) \/ Send(r) \/ RunSentHandler(r)

RecvThread ==
    \/ RecvLoop
    \/ RecvNothing
    \/ RecvPayload
    \/ RecvDropped
    \/ RecvNoiseSkipped
    \/ RecvNoiseCloses
    \/ RecvResponse
    \/ RecvPut

DispatchThread ==
    \/ DispatchTake
    \/ DispatchExit
    \/ DispatchEvent
    \/ DispatchRequestAnswered
    \/ DispatchRequestDeferred

Destructor ==
    \/ Destroy
    \/ DestroyReader
    \/ DestroyWriter
    \/ JoinRecvThread
    \/ JoinDispatchThread

Next ==
    \/ Setup
    \/ \E c \in ReqCalls : RequestCall(c)
    \/ \E e \in EvtCalls : EventCall(e)
    \/ \E r \in PeerRequests : Answer(r)
    \/ RecvThread
    \/ DispatchThread
    \/ Destructor
=============================================================================
