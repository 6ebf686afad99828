-------------------------- MODULE SessionInvariant ---------------------------
(* The inductive invariant of a session and its peer, and that every step  *)
(* keeps its types, the lock of send(string) and the frames on the wire.   *)
EXTENDS SessionPeer, TLAPS

(* The time each step may take, and the time of a second attempt.          *)
USE SMTT(30), SMTT(60)

(* What a message that has been read is made of.                           *)
LEMMA MessageKinds ==
    ASSUME NEW m \in Messages
    PROVE  /\ m.type \in {"request", "event"} => m.id \in Payloads
           /\ m.type = "response" => m.requestSeq \in Keys /\ m.to \in ReqCalls
<1>1. CASE m \in PeerMessages
  BY <1>1 DEF PeerMessages, PeerMessage
<1>2. CASE m \in Responses
  BY <1>2 DEF Responses, Response
<1>3. CASE m \in {Garbage, Noise}
  BY <1>3 DEF Garbage, Noise
<1> QED
  BY <1>1, <1>2, <1>3 DEF Messages

(* A sequence number wrapped to 32 bits is a key of the response map, and  *)
(* the first 2^32 numbers wrap to different keys (session.cpp:108).        *)
LEMMA WrapType == \A n \in Nat : Wrap(n) \in Keys
  BY SeqModAssumption DEF Wrap, Keys

LEMMA WrapInjective ==
    \A m, n \in 1 .. SeqMod : Wrap(m) = Wrap(n) => m = n
  BY SeqModAssumption DEF Wrap
-----------------------------------------------------------------------------
(* The inductive invariant, in parts.                                      *)

(* sendMutex is held by exactly the call that is writing (session.cpp:477).*)
LockInv == \A a \in Senders : spc[a] \in {"header", "content"} <=> sendMutex = a

(* While the writer is open, the wire ends in a whole message or in the    *)
(* header of the call that holds sendMutex.  A message is cut short only   *)
(* by a writer that has failed, and then nothing is written any more.      *)
WriterBound ==
    /\ isBound <=> writer # "none"
    /\ writer = "none" => /\ wire = <<>>
                          /\ \A a \in Senders : spc[a] \notin {"header", "content"}

WireEnd ==
    writer = "open" =>
        \/ Len(wire) % 2 = 0 /\ \A a \in Senders : spc[a] # "content"
        \/ Len(wire) % 2 = 1 /\ spc[wire[Len(wire)].from] = "content"

FrameInv == WriterBound /\ WireEnd /\ FramesIntact

(* Every actor takes one number of its own, and writes that one.           *)
NumberInv ==
    /\ nextSeq >= 1
    /\ \A a \in Senders : seq[a] < nextSeq
    /\ \A a \in Senders : seq[a] = 0 <=> spc[a] \in {"idle", "deferred"}
    /\ \A a, b \in Senders : seq[a] = seq[b] /\ seq[a] # 0 => a = b
    /\ \A i \in 1 .. Len(wire) :
          seq[wire[i].from] # 0 /\ wire[i].seq = Wrap(seq[wire[i].from])

(* A request of the peer is in one place at a time on its way from the     *)
(* connection to its handler, and nobody has answered it before.           *)
IsPayload(m) == m.type \in {"request", "event"}

Fresh(p) == p \in peerSent /\ (p \in PeerRequests => spc[p] = "idle")

InConnection ==
    \A i \in 1 .. Len(in) : IsPayload(in[i]) =>
        /\ Fresh(in[i].id)
        /\ in[i].id \notin {recvItem, dispatchItem}
        /\ \A j \in 1 .. Len(inbox) : in[i].id # inbox[j]
        /\ \A j \in 1 .. Len(in) : IsPayload(in[j]) /\ in[i].id = in[j].id => i = j

InQueue ==
    \A i \in 1 .. Len(inbox) :
        /\ Fresh(inbox[i])
        /\ inbox[i] \notin {recvItem, dispatchItem}
        /\ \A j \in 1 .. Len(inbox) : inbox[i] = inbox[j] => i = j

InThreads ==
    /\ isProcessingMessages \/ (recvPc = "off" /\ dispatchPc = "off")
    /\ dispatchItem # None <=> dispatchPc \in {"run", "answering"}
    /\ recvItem # None => Fresh(recvItem) /\ recvItem # dispatchItem
    /\ dispatchItem # None => dispatchItem \in peerSent
    /\ dispatchPc = "run" => Fresh(dispatchItem)
    /\ dispatchPc = "answering" => dispatchItem \in PeerRequests

PipelineInv ==
    /\ InConnection
    /\ InQueue
    /\ InThreads
    /\ \A r \in PeerRequests : r \notin peerSent => spc[r] = "idle"

(* A response in flight answers a request that is on the wire and carries  *)
(* its number; an entry of responseMap is under the number of its call; a  *)
(* call whose promise has been set is in no entry that can still be hit.   *)
ResponseInv ==
    /\ \A a \in Senders : OnWire(a) => spc[a] \in {"sent", "done"}
    /\ \A i \in 1 .. Len(in) :
          in[i].type = "response" => /\ OnWire(in[i].to)
                                     /\ in[i].requestSeq = Wrap(seq[in[i].to])
    /\ \A k \in Keys : responseMap[k] # None =>
          /\ k = Wrap(seq[responseMap[k]])
          /\ seq[responseMap[k]] # 0

PromiseInv ==
    NotWrapped => \A c \in ReqCalls :
        /\ promise[c] \in {None, NotSent, c}
        /\ setValues[c] <= 1
        /\ spc[c] \notin {"sent", "done"} => setValues[c] = 0
        /\ OnWire(c) /\ (\E k \in Keys : responseMap[k] = c) => setValues[c] = 0

(* ~Impl finds every thread of the program outside, and waits for the two  *)
(* of the session.                                                         *)
ShutdownInv ==
    /\ dtor # "alive" =>
          /\ \A a \in ReqCalls \cup EvtCalls : spc[a] \in {"idle", "done"}
          /\ \A r \in PeerRequests :
                spc[r] \in {"idle", "deferred", "done"} \/ dispatchItem = r
    /\ dtor \in {"joinDispatch", "dead"} => recvPc \in {"off", "exited"}
    /\ dtor = "dead" => dispatchPc \in {"off", "exited"}

(* A response was not sent only if the writer had failed by then.          *)
SentInv ==
    /\ isBound <=> reader # "none"
    /\ recvPc \in {"read", "put"} => isBound
    /\ inbox # <<>> \/ dispatchItem # None => isBound
    /\ \A r \in PeerRequests : spc[r] # "idle" => isBound
    /\ \A r \in PeerRequests : spc[r] = "sent" => OnWire(r)
    /\ \A r \in PeerRequests : spc[r] = "failed" => writer # "open"
    /\ \A r \in sentHandlerRan : isBound
    /\ SentHandlerAfterResponse

IInv == /\ TypeOK /\ LockInv /\ FrameInv /\ NumberInv /\ PipelineInv
        /\ ResponseInv /\ PromiseInv /\ ShutdownInv /\ SentInv
(* Queues: what taking from and adding to one leaves.                      *)
LEMMA TailType ==
    ASSUME NEW S, NEW q \in Seq(S), q # <<>>
    PROVE  Head(q) \in S /\ Tail(q) \in Seq(S)
  OBVIOUS

LEMMA AppendType ==
    ASSUME NEW S, NEW q \in Seq(S), NEW x \in S
    PROVE  Append(q, x) \in Seq(S)
  OBVIOUS

(* The connection delivers a message of the peer.                          *)
LEMMA DeliverTypes ==
    ASSUME TypeOK, NEW m \in Messages, Deliver(m)
    PROVE  /\ ConnectionTypes'
           /\ UNCHANGED <<endpoint, sending, receiving, responseMap, dtor>>
<1>1. in' \in Seq(Messages)
  BY AppendType DEF Deliver, TypeOK, ConnectionTypes
<1> QED
  BY <1>1 DEF Deliver, TypeOK, ConnectionTypes

LEMMA TailElements ==
    ASSUME NEW S, NEW q \in Seq(S), q # <<>>
    PROVE  /\ Len(q) \in Nat /\ Len(q) >= 1 /\ Len(Tail(q)) = Len(q) - 1
           /\ Head(q) = q[1]
           /\ \A i \in 1 .. Len(Tail(q)) : i + 1 \in 1 .. Len(q) /\ Tail(q)[i] = q[i + 1]
  OBVIOUS

LEMMA AppendElements ==
    ASSUME NEW S, NEW q \in Seq(S), NEW x \in S
    PROVE  /\ Len(q) \in Nat /\ Len(Append(q, x)) = Len(q) + 1
           /\ Append(q, x)[Len(q) + 1] = x
           /\ \A i \in 1 .. Len(q) : Append(q, x)[i] = q[i]
  OBVIOUS

LEMMA WireAppended ==
    ASSUME wire \in Seq(Halves), NEW h \in Halves, wire' = Append(wire, h)
    PROVE  /\ Len(wire') = Len(wire) + 1
           /\ wire'[Len(wire) + 1] = h
           /\ \A i \in 1 .. Len(wire) : wire'[i] = wire[i]
  BY ZenonT(40), AppendElements

LEMMA SetValueTypes ==
    ASSUME SendingTypes, NEW c \in ReqCalls, NEW v \in ReqCalls \cup {None, NotSent},
           SetValue(c, v)
    PROVE  /\ promise' \in [ReqCalls -> ReqCalls \cup {None, NotSent}]
           /\ setValues' \in [ReqCalls -> Nat]
<1>1. promise' \in [ReqCalls -> ReqCalls \cup {None, NotSent}]
  BY DEF SetValue, SendingTypes
<1>2. setValues[c] + 1 \in Nat
  BY DEF SendingTypes
<1>3. setValues' \in [ReqCalls -> Nat]
  BY <1>2 DEF SetValue, SendingTypes
<1> QED
  BY <1>1, <1>3

LEMMA ResponseType ==
    ASSUME TypeOK, NEW c \in ReqCalls, NEW f \in Forms, answers[c] < MaxAnswers
    PROVE  Response(Wrap(seq[c]), c, answers[c] + 1, f) \in Messages
<1>1. Wrap(seq[c]) \in Keys /\ f \in {"ok", "bad"}
  BY PeerAssumption, WrapType DEF TypeOK, SendingTypes, Senders
<1>2. answers[c] + 1 \in 1 .. MaxAnswers
  BY PeerAssumption DEF TypeOK, PeerTypes
<1> QED
  BY <1>1, <1>2 DEF Messages, Responses
-----------------------------------------------------------------------------
LEMMA TypeInit == Init /\ PeerInit => TypeOK
<1> SUFFICES ASSUME Init, PeerInit PROVE TypeOK
  OBVIOUS
<1>1. EndpointTypes
  BY ZenonT(40) DEF Init, EndpointTypes
<1>2. SendingTypes
  BY DEF Init, SendingTypes, SendStates
<1>3. ReceivingTypes
  <2>1. inbox \in Seq(Payloads)
    BY DEF Init
  <2> QED
    BY <2>1, ZenonT(40) DEF Init, ReceivingTypes
<1>4. ConnectionTypes
  <2>1. in \in Seq(Messages) /\ wire \in Seq(Halves)
    BY DEF Init
  <2> QED
    BY <2>1, ZenonT(40) DEF Init, ConnectionTypes
<1>5. PeerTypes
  BY DEF PeerInit, PeerTypes
<1> QED
  BY <1>1, <1>2, <1>3, <1>4, <1>5 DEF Init, TypeOK

(* A part of the state that a step leaves alone keeps its types.           *)
LEMMA TypesKept ==
    /\ EndpointTypes /\ UNCHANGED endpoint => EndpointTypes'
    /\ SendingTypes /\ UNCHANGED sending => SendingTypes'
    /\ ReceivingTypes /\ UNCHANGED receiving => ReceivingTypes'
    /\ ConnectionTypes /\ UNCHANGED connection => ConnectionTypes'
    /\ PeerTypes /\ UNCHANGED peer => PeerTypes'
<1>1. EndpointTypes /\ UNCHANGED endpoint => EndpointTypes'
  BY DEF EndpointTypes, endpoint, settings
<1>2. SendingTypes /\ UNCHANGED sending => SendingTypes'
  BY DEF SendingTypes, sending
<1>3. ReceivingTypes /\ UNCHANGED receiving => ReceivingTypes'
  BY DEF ReceivingTypes, receiving
<1>4. ConnectionTypes /\ UNCHANGED connection => ConnectionTypes'
  BY DEF ConnectionTypes, connection
<1>5. PeerTypes /\ UNCHANGED peer => PeerTypes'
  BY DEF PeerTypes, peer
<1> QED
  BY <1>1, <1>2, <1>3, <1>4, <1>5

(* Every step keeps the types, one case for each action.                   *)
LEMMA TypeStep == TypeOK /\ [SystemNext]_allVars => TypeOK'
<1> SUFFICES ASSUME TypeOK, [SystemNext]_allVars PROVE TypeOK'
  OBVIOUS
<1> USE DEF SendStates, Senders, Payloads
<1>1. ASSUME NEW n \in Commands, RegisterRequestHandler(n), UNCHANGED peer PROVE TypeOK'
  <2>1. EndpointTypes'
    BY <1>1 DEF RegisterRequestHandler, TypeOK, EndpointTypes, settings
  <2> QED
    BY <1>1, <2>1, TypesKept DEF TypeOK, RegisterRequestHandler
<1>2. ASSUME NEW n \in EventNames, RegisterEventHandler(n), UNCHANGED peer PROVE TypeOK'
  <2>1. EndpointTypes'
    BY <1>2 DEF RegisterEventHandler, TypeOK, EndpointTypes, settings
  <2> QED
    BY <1>2, <2>1, TypesKept DEF TypeOK, RegisterEventHandler
<1>55. ASSUME NEW m \in InvalidDataModes, SetOnInvalidData(m), UNCHANGED peer PROVE TypeOK'
  <2>1. EndpointTypes'
    BY <1>55, TransportAssumption DEF SetOnInvalidData, TypeOK, EndpointTypes, settings
  <2> QED
    BY <1>55, <2>1, TypesKept DEF TypeOK, SetOnInvalidData
<1>3. ASSUME Connect, UNCHANGED peer PROVE TypeOK'
  <2>1. EndpointTypes'
    BY <1>3 DEF Connect, TypeOK, EndpointTypes
  <2>2. ConnectionTypes'
    BY <1>3 DEF Connect, TypeOK, ConnectionTypes
  <2> QED
    BY <1>3, <2>1, <2>2, TypesKept DEF TypeOK, Connect
<1>4. ASSUME StartProcessingMessages, UNCHANGED peer PROVE TypeOK'
  <2>1. EndpointTypes'
    BY <1>4 DEF StartProcessingMessages, TypeOK, EndpointTypes, settings
  <2>2. ReceivingTypes'
    BY <1>4 DEF StartProcessingMessages, TypeOK, ReceivingTypes
  <2> QED
    BY <1>4, <2>1, <2>2, TypesKept DEF TypeOK, StartProcessingMessages
<1>5. ASSUME NEW c \in ReqCalls, SendRequest(c), UNCHANGED peer PROVE TypeOK'
  <2>1. SendingTypes'
    BY <1>5 DEF SendRequest, TakeNumber, Goto, TypeOK, SendingTypes
  <2> QED
    BY <1>5, <2>1, TypesKept DEF TypeOK, SendRequest
<1>6. ASSUME NEW c \in ReqCalls, PutResponseHandler(c), UNCHANGED peer PROVE TypeOK'
  <2>1. SendingTypes'
    BY <1>6, WrapType DEF PutResponseHandler, Goto, TypeOK, SendingTypes
  <2>2. responseMap' \in [Keys -> ReqCalls \cup {None}]
    BY <1>6, WrapType DEF PutResponseHandler, Goto, TypeOK, SendingTypes
  <2> QED
    BY <1>6, <2>1, <2>2, TypesKept DEF TypeOK, PutResponseHandler
<1>7. ASSUME NEW c \in ReqCalls, ReturnRequest(c), UNCHANGED peer PROVE TypeOK'
  <2>1. SendingTypes'
    <3>1. promise' \in [ReqCalls -> ReqCalls \cup {None, NotSent}] /\ setValues' \in [ReqCalls -> Nat]
      BY <1>7, SetValueTypes DEF ReturnRequest, TypeOK, SendingTypes
    <3> QED
      BY <1>7, <3>1 DEF ReturnRequest, Goto, TypeOK, SendingTypes
  <2> QED
    BY <1>7, <2>1, TypesKept DEF TypeOK, ReturnRequest
<1>8. ASSUME NEW e \in EvtCalls, SendEvent(e), UNCHANGED peer PROVE TypeOK'
  <2>1. SendingTypes'
    BY <1>8 DEF SendEvent, TakeNumber, Goto, TypeOK, SendingTypes
  <2> QED
    BY <1>8, <2>1, TypesKept DEF TypeOK, SendEvent
<1>9. ASSUME NEW e \in EvtCalls, ReturnEvent(e), UNCHANGED peer PROVE TypeOK'
  <2>1. SendingTypes'
    BY <1>9 DEF ReturnEvent, Goto, TypeOK, SendingTypes
  <2> QED
    BY <1>9, <2>1, TypesKept DEF TypeOK, ReturnEvent
<1>10. ASSUME NEW a \in Senders, LockAndCheckOpen(a), UNCHANGED peer PROVE TypeOK'
  <2>1. SendingTypes'
    BY <1>10 DEF LockAndCheckOpen, Goto, TypeOK, SendingTypes
  <2> QED
    BY <1>10, <2>1, TypesKept DEF TypeOK, LockAndCheckOpen
<1>11. ASSUME NEW a \in Senders, WriteHeader(a), UNCHANGED peer PROVE TypeOK'
  <2>1. SendingTypes'
    BY ZenonT(40), <1>11, WrapType DEF WriteHeader, Goto, Half, Halves, TypeOK, SendingTypes
  <2>2. ConnectionTypes'
    <3>1. Half("header", a) \in Halves
      BY WrapType DEF Half, Halves, TypeOK, SendingTypes
    <3>2. wire' \in Seq(Halves)
      BY ZenonT(40), <1>11, <3>1, AppendType DEF WriteHeader, TypeOK, ConnectionTypes
    <3> QED
      BY <1>11, <3>2 DEF WriteHeader, TypeOK, ConnectionTypes
  <2> QED
    BY <1>11, <2>1, <2>2, TypesKept DEF TypeOK, WriteHeader
<1>12. ASSUME NEW a \in Senders, WriteContent(a), UNCHANGED peer PROVE TypeOK'
  <2>1. SendingTypes'
    BY ZenonT(40), <1>12, WrapType DEF WriteContent, Goto, Half, Halves, TypeOK, SendingTypes
  <2>2. ConnectionTypes'
    <3>1. Half("content", a) \in Halves
      BY WrapType DEF Half, Halves, TypeOK, SendingTypes
    <3>2. wire' \in Seq(Halves)
      BY ZenonT(40), <1>12, <3>1, AppendType DEF WriteContent, TypeOK, ConnectionTypes
    <3> QED
      BY <1>12, <3>2 DEF WriteContent, TypeOK, ConnectionTypes
  <2> QED
    BY <1>12, <2>1, <2>2, TypesKept DEF TypeOK, WriteContent
<1>13. ASSUME NEW r \in PeerRequests, AnswerDeferred(r), UNCHANGED peer PROVE TypeOK'
  <2>1. SendingTypes'
    BY <1>13 DEF AnswerDeferred, TakeNumber, Goto, TypeOK, SendingTypes
  <2> QED
    BY <1>13, <2>1, TypesKept DEF TypeOK, AnswerDeferred
<1>14. ASSUME NEW r \in PeerRequests, RunSentHandler(r), UNCHANGED peer PROVE TypeOK'
  <2>1. SendingTypes'
    BY <1>14 DEF RunSentHandler, Goto, TypeOK, SendingTypes
  <2>2. ReceivingTypes'
    BY <1>14 DEF RunSentHandler, Goto, TypeOK, ReceivingTypes
  <2> QED
    BY <1>14, <2>1, <2>2, TypesKept DEF TypeOK, RunSentHandler
<1>15. ASSUME RecvLoop, UNCHANGED peer PROVE TypeOK'
  <2>1. ReceivingTypes'
    BY ZenonT(40), <1>15 DEF RecvLoop, TypeOK, ReceivingTypes
  <2> QED
    BY <1>15, <2>1, TypesKept DEF TypeOK, RecvLoop
<1>16. ASSUME RecvNothing, UNCHANGED peer PROVE TypeOK'
  <2>1. ReceivingTypes'
    BY <1>16 DEF RecvNothing, TypeOK, ReceivingTypes
  <2>2. ConnectionTypes'
    BY <1>16, ZenonT(40) DEF RecvNothing, CloseReader, Closed, TypeOK, ConnectionTypes
  <2> QED
    BY <1>16, <2>1, <2>2, TypesKept DEF TypeOK, RecvNothing
<1>17. ASSUME RecvPayload, UNCHANGED peer PROVE TypeOK'
  <2>1. ReceivingTypes'
    <3>1. Head(in) \in Messages
      BY <1>17, TailType DEF RecvPayload, CanRead, TypeOK, ConnectionTypes
    <3>2. Head(in).type \in {"request", "event"}
      BY <1>17 DEF RecvPayload, Accepted
    <3>3. Head(in).id \in Payloads /\ Head(in).id # None
      BY <3>1, <3>2, MessageKinds, DistinctAssumption
    <3> QED
      BY <1>17, <3>3 DEF RecvPayload, TypeOK, ReceivingTypes
  <2>2. ConnectionTypes'
    BY <1>17, TailType DEF RecvPayload, CanRead, TypeOK, ConnectionTypes
  <2> QED
    BY <1>17, <2>1, <2>2, TypesKept DEF TypeOK, RecvPayload
<1>18. ASSUME RecvDropped, UNCHANGED peer PROVE TypeOK'
  <2>1. ReceivingTypes'
    BY <1>18 DEF RecvDropped, CanRead, TypeOK, ReceivingTypes, ConnectionTypes
  <2>2. ConnectionTypes'
    BY <1>18, TailType DEF RecvDropped, CanRead, TypeOK, ConnectionTypes
  <2> QED
    BY <1>18, <2>1, <2>2, TypesKept DEF TypeOK, RecvDropped
<1>19. ASSUME RecvNoiseSkipped, UNCHANGED peer PROVE TypeOK'
  <2>1. ConnectionTypes'
    BY <1>19, TailType DEF RecvNoiseSkipped, CanRead, TypeOK, ConnectionTypes
  <2> QED
    BY <1>19, <2>1, TypesKept DEF TypeOK, RecvNoiseSkipped
<1>20. ASSUME RecvNoiseCloses, UNCHANGED peer PROVE TypeOK'
  <2>1. ReceivingTypes'
    BY <1>20 DEF RecvNoiseCloses, CanRead, CloseReader, Closed, TypeOK, ReceivingTypes
  <2>2. ConnectionTypes'
    BY <1>20, ZenonT(40) DEF RecvNoiseCloses, CanRead, CloseReader, Closed, TypeOK, ConnectionTypes
  <2> QED
    BY <1>20, <2>1, <2>2, TypesKept DEF TypeOK, RecvNoiseCloses
<1>21. ASSUME RecvResponse, UNCHANGED peer PROVE TypeOK'
  <2>1. SendingTypes'
    <3> DEFINE m == Head(in)
               c == responseMap[m.requestSeq]
    <3>1. m \in Messages /\ m.type = "response"
      BY <1>21, TailType DEF RecvResponse, CanRead, TypeOK, ConnectionTypes
    <3>2. c \in ReqCalls \cup {None} /\ m.to \in ReqCalls
      BY <3>1, MessageKinds, ZenonT(40) DEF TypeOK
    <3>3. promise' \in [ReqCalls -> ReqCalls \cup {None, NotSent}] /\ setValues' \in [ReqCalls -> Nat]
      BY <1>21, <3>2, SetValueTypes DEF RecvResponse, TypeOK, SendingTypes
    <3> QED
      BY <1>21, <3>3, ZenonT(40) DEF RecvResponse, TypeOK, SendingTypes
  <2>2. ReceivingTypes'
    BY ZenonT(40), <1>21, MessageKinds DEF RecvResponse, CanRead, SetValue, TypeOK,
       ReceivingTypes, ConnectionTypes
  <2>3. ConnectionTypes'
    BY ZenonT(40), <1>21, TailType DEF RecvResponse, CanRead, TypeOK, ConnectionTypes
  <2>4. responseMap' \in [Keys -> ReqCalls \cup {None}]
    BY <1>21, MessageKinds DEF RecvResponse, CanRead, SetValue, TypeOK, SendingTypes,
       ReceivingTypes, ConnectionTypes
  <2> QED
    BY <1>21, <2>1, <2>2, <2>3, <2>4, TypesKept, ZenonT(40) DEF TypeOK, RecvResponse
<1>22. ASSUME RecvPut, UNCHANGED peer PROVE TypeOK'
  <2>1. ReceivingTypes'
    <3>1. inbox' \in Seq(Payloads)
      BY <1>22, AppendType DEF RecvPut, TypeOK, ReceivingTypes
    <3> QED
      BY <1>22, <3>1 DEF RecvPut, TypeOK, ReceivingTypes
  <2> QED
    BY <1>22, <2>1, TypesKept DEF TypeOK, RecvPut
<1>23. ASSUME DispatchTake, UNCHANGED peer PROVE TypeOK'
  <2>1. ReceivingTypes'
    <3>1. Head(inbox) \in Payloads /\ inbox' \in Seq(Payloads)
      BY <1>23, TailType DEF DispatchTake, TypeOK, ReceivingTypes
    <3> QED
      BY <1>23, <3>1 DEF DispatchTake, TypeOK, ReceivingTypes
  <2> QED
    BY <1>23, <2>1, TypesKept DEF TypeOK, DispatchTake
<1>24. ASSUME DispatchExit, UNCHANGED peer PROVE TypeOK'
  <2>1. ReceivingTypes'
    BY <1>24 DEF DispatchExit, TypeOK, ReceivingTypes
  <2> QED
    BY <1>24, <2>1, TypesKept DEF TypeOK, DispatchExit
<1>25. ASSUME DispatchEvent, UNCHANGED peer PROVE TypeOK'
  <2>1. ReceivingTypes'
    BY <1>25 DEF DispatchEvent, TypeOK, ReceivingTypes
  <2> QED
    BY <1>25, <2>1, TypesKept DEF TypeOK, DispatchEvent
<1>26. ASSUME DispatchRequestAnswered, UNCHANGED peer PROVE TypeOK'
  <2>1. SendingTypes'
    <3>1. seq' \in [Senders -> Nat] /\ nextSeq' \in Nat
      <4>1. seq' = [seq EXCEPT ![dispatchItem] = nextSeq] /\ nextSeq' = nextSeq + 1
        BY <1>26 DEF DispatchRequestAnswered, TakeNumber
      <4>2. SendingTypes
        BY DEF TypeOK
      <4>3. nextSeq + 1 \in Nat
        BY <4>2 DEF SendingTypes
      <4> QED
        BY ZenonT(40), <4>1, <4>2, <4>3 DEF SendingTypes
    <3>2. spc' \in [Senders -> SendStates]
      BY <1>26 DEF DispatchRequestAnswered, Goto, TypeOK, SendingTypes
    <3> QED
      BY <1>26, <3>1, <3>2 DEF DispatchRequestAnswered, TypeOK, SendingTypes
  <2>2. ReceivingTypes'
    BY <1>26 DEF DispatchRequestAnswered, TakeNumber, Goto, TypeOK, ReceivingTypes
  <2> QED
    BY <1>26, <2>1, <2>2, TypesKept DEF TypeOK, DispatchRequestAnswered
<1>27. ASSUME DispatchRequestDeferred, UNCHANGED peer PROVE TypeOK'
  <2>1. SendingTypes'
    BY <1>27 DEF DispatchRequestDeferred, Goto, TypeOK, SendingTypes
  <2>2. ReceivingTypes'
    BY <1>27 DEF DispatchRequestDeferred, Goto, TypeOK, ReceivingTypes
  <2> QED
    BY <1>27, <2>1, <2>2, TypesKept DEF TypeOK, DispatchRequestDeferred
<1>28. ASSUME Destroy, UNCHANGED peer PROVE TypeOK'
  <2>1. ReceivingTypes'
    BY <1>28 DEF Destroy, TypeOK, ReceivingTypes
  <2> QED
    BY <1>28, <2>1, TypesKept DEF TypeOK, Destroy
<1>29. ASSUME DestroyReader, UNCHANGED peer PROVE TypeOK'
  <2>1. ConnectionTypes'
    BY <1>29 DEF DestroyReader, CloseReader, Closed, TypeOK, ConnectionTypes
  <2> QED
    BY <1>29, <2>1, TypesKept DEF TypeOK, DestroyReader
<1>30. ASSUME DestroyWriter, UNCHANGED peer PROVE TypeOK'
  <2>1. ConnectionTypes'
    BY <1>30 DEF DestroyWriter, Closed, TypeOK, ConnectionTypes
  <2> QED
    BY <1>30, <2>1, TypesKept DEF TypeOK, DestroyWriter
<1>31. ASSUME JoinRecvThread, UNCHANGED peer PROVE TypeOK'
  <2> QED
    BY <1>31, TypesKept DEF TypeOK, JoinRecvThread
<1>32. ASSUME JoinDispatchThread, UNCHANGED peer PROVE TypeOK'
  <2> QED
    BY <1>32, TypesKept DEF TypeOK, JoinDispatchThread
<1>33. ASSUME NEW r \in PeerRequests, PeerSendsRequest(r) PROVE TypeOK'
  <2>1. PICK n \in Commands, b \in Bodies : Deliver(PeerMessage("request", r, n, b))
    BY <1>33 DEF PeerSendsRequest
  <2>2. PeerMessage("request", r, n, b) \in Messages
    BY PeerAssumption DEF Messages, PeerMessages, Names
  <2>3. PeerTypes'
    BY <1>33 DEF PeerSendsRequest, TypeOK, PeerTypes
  <2> QED
    BY <2>1, <2>2, <2>3, DeliverTypes, TypesKept DEF TypeOK
<1>34. ASSUME NEW e \in PeerEvents, PeerSendsEvent(e) PROVE TypeOK'
  <2>1. PICK n \in EventNames, b \in Bodies : Deliver(PeerMessage("event", e, n, b))
    BY <1>34 DEF PeerSendsEvent
  <2>2. PeerMessage("event", e, n, b) \in Messages
    BY PeerAssumption DEF Messages, PeerMessages, Names
  <2>3. PeerTypes'
    BY <1>34 DEF PeerSendsEvent, TypeOK, PeerTypes
  <2> QED
    BY <2>1, <2>2, <2>3, DeliverTypes, TypesKept DEF TypeOK
<1>35. ASSUME PeerSendsGarbage PROVE TypeOK'
  <2>1. PICK m \in {Garbage, Noise} : Deliver(m)
    BY <1>35 DEF PeerSendsGarbage
  <2>2. m \in Messages
    BY DEF Messages
  <2>3. PeerTypes'
    <3>1. garbage' = garbage + 1 /\ peerSent' = peerSent /\ answers' = answers
      BY <1>35 DEF PeerSendsGarbage
    <3>2. PeerTypes
      BY DEF TypeOK
    <3>3. garbage + 1 \in Nat
      BY <3>2 DEF PeerTypes
    <3> QED
      BY <3>1, <3>2, <3>3 DEF PeerTypes
  <2> QED
    BY <2>1, <2>2, <2>3, DeliverTypes, TypesKept DEF TypeOK
<1>36. ASSUME NEW c \in ReqCalls, PeerAnswers(c) PROVE TypeOK'
  <2>1. PICK f \in Forms : Deliver(Response(Wrap(seq[c]), c, answers[c] + 1, f))
    BY <1>36 DEF PeerAnswers
  <2>2. Response(Wrap(seq[c]), c, answers[c] + 1, f) \in Messages
    BY ZenonT(40), <1>36, ResponseType DEF PeerAnswers
  <2>3. PeerTypes'
    <3>1. /\ answers' = [answers EXCEPT ![c] = @ + 1]
          /\ peerSent' = peerSent /\ garbage' = garbage
      BY <1>36 DEF PeerAnswers
    <3>2. PeerTypes
      BY DEF TypeOK
    <3>3. answers[c] + 1 \in Nat
      BY <3>2 DEF PeerTypes
    <3> QED
      BY <3>1, <3>2, <3>3 DEF PeerTypes
  <2> QED
    BY <2>1, <2>2, <2>3, DeliverTypes, TypesKept DEF TypeOK
<1>37. ASSUME PeerClosesIn PROVE TypeOK'
  <2>1. ConnectionTypes'
    BY <1>37 DEF PeerClosesIn, TypeOK, ConnectionTypes
  <2> QED
    BY <1>37, <2>1, TypesKept DEF TypeOK, PeerClosesIn
<1>38. ASSUME PeerClosesOut PROVE TypeOK'
  <2>1. ConnectionTypes'
    BY <1>38 DEF PeerClosesOut, TypeOK, ConnectionTypes
  <2> QED
    BY <1>38, <2>1, TypesKept DEF TypeOK, PeerClosesOut
<1>39. CASE UNCHANGED allVars
  BY <1>39, TypesKept DEF TypeOK, allVars, vars
<1> QED
  BY ZenonT(40), <1>55, <1>1, <1>2, <1>3, <1>4, <1>5, <1>6, <1>7, <1>8, <1>9, <1>10, <1>11, <1>12,
     <1>13, <1>14, <1>15, <1>16, <1>17, <1>18, <1>19, <1>20, <1>21, <1>22, <1>23, <1>24,
     <1>25, <1>26, <1>27, <1>28, <1>29, <1>30, <1>31, <1>32, <1>33, <1>34, <1>35, <1>36,
     <1>37, <1>38, <1>39
  DEF SystemNext, Next, Setup, RequestCall, EventCall, Answer, Send,
      RecvThread, DispatchThread, Destructor, PeerNext
-----------------------------------------------------------------------------
(* Whatever is not Connect or a step of send(string) neither writes nor    *)
(* touches sendMutex; at most it closes the writer.                        *)
Writes(a) == LockAndCheckOpen(a) \/ WriteHeader(a) \/ WriteContent(a)

QuietStep ==
    /\ UNCHANGED <<isBound, wire, sendMutex>>
    /\ writer' = writer \/ (writer # "none" /\ writer' \in {"closed", "broken"})
    /\ \A a \in Senders :
          spc'[a] = spc[a] \/ {spc[a], spc'[a]} \cap {"header", "content"} = {}

LEMMA QuietSteps ==
    ASSUME TypeOK, PipelineInv, [SystemNext]_allVars,
           ~Connect, \A a \in Senders : ~Writes(a)
    PROVE  QuietStep
<1> USE DEF Senders
<1>2. ASSUME NEW n \in Commands, RegisterRequestHandler(n), UNCHANGED peer PROVE QuietStep
  BY <1>2 DEF QuietStep, RegisterRequestHandler, sending, connection, endpoint, settings
<1>3. ASSUME NEW n \in EventNames, RegisterEventHandler(n), UNCHANGED peer PROVE QuietStep
  BY <1>3 DEF QuietStep, RegisterEventHandler, sending, connection, endpoint, settings
<1>55. ASSUME NEW m \in InvalidDataModes, SetOnInvalidData(m), UNCHANGED peer PROVE QuietStep
  BY <1>55 DEF QuietStep, SetOnInvalidData, sending, connection, endpoint, settings
<1>4. ASSUME StartProcessingMessages, UNCHANGED peer PROVE QuietStep
  BY <1>4 DEF QuietStep, StartProcessingMessages, sending, connection, endpoint,
     settings
<1>5. ASSUME NEW c \in ReqCalls, SendRequest(c), UNCHANGED peer PROVE QuietStep
  BY <1>5 DEF QuietStep, SendRequest, TakeNumber, Goto, connection, endpoint, settings,
     SendingTypes
<1>6. ASSUME NEW c \in ReqCalls, PutResponseHandler(c), UNCHANGED peer PROVE QuietStep
  BY <1>6 DEF QuietStep, PutResponseHandler, Goto, connection, endpoint, settings,
     SendingTypes
<1>7. ASSUME NEW c \in ReqCalls, ReturnRequest(c), UNCHANGED peer PROVE QuietStep
  BY <1>7 DEF QuietStep, ReturnRequest, Goto, connection, endpoint, settings,
     SendingTypes
<1>8. ASSUME NEW e \in EvtCalls, SendEvent(e), UNCHANGED peer PROVE QuietStep
  BY <1>8 DEF QuietStep, SendEvent, TakeNumber, Goto, connection, endpoint, settings,
     SendingTypes
<1>9. ASSUME NEW e \in EvtCalls, ReturnEvent(e), UNCHANGED peer PROVE QuietStep
  BY <1>9 DEF QuietStep, ReturnEvent, Goto, connection, endpoint, settings, SendingTypes
<1>10. ASSUME NEW r \in PeerRequests, AnswerDeferred(r), UNCHANGED peer PROVE QuietStep
  BY <1>10 DEF QuietStep, AnswerDeferred, TakeNumber, Goto, connection, endpoint,
     settings, SendingTypes
<1>11. ASSUME NEW r \in PeerRequests, RunSentHandler(r), UNCHANGED peer PROVE QuietStep
  BY <1>11 DEF QuietStep, RunSentHandler, Goto, connection, endpoint, settings,
     SendingTypes
<1>12. ASSUME RecvLoop, UNCHANGED peer PROVE QuietStep
  BY <1>12 DEF QuietStep, RecvLoop, sending, connection, endpoint, settings
<1>13. ASSUME RecvNothing, UNCHANGED peer PROVE QuietStep
  BY <1>13, ZenonT(40) DEF QuietStep, RecvNothing, CloseReader, Closed, sending, connection,
     endpoint, settings, ConnectionTypes
<1>14. ASSUME RecvPayload, UNCHANGED peer PROVE QuietStep
  BY <1>14 DEF QuietStep, RecvPayload, sending, connection, endpoint, settings
<1>15. ASSUME RecvDropped, UNCHANGED peer PROVE QuietStep
  BY <1>15 DEF QuietStep, RecvDropped, sending, connection, endpoint, settings
<1>16. ASSUME RecvNoiseSkipped, UNCHANGED peer PROVE QuietStep
  BY <1>16 DEF QuietStep, RecvNoiseSkipped, sending, connection, endpoint, settings
<1>17. ASSUME RecvNoiseCloses, UNCHANGED peer PROVE QuietStep
  BY <1>17, ZenonT(40) DEF QuietStep, RecvNoiseCloses, CloseReader, Closed, sending, connection,
     endpoint, settings, ConnectionTypes
<1>18. ASSUME RecvResponse, UNCHANGED peer PROVE QuietStep
  BY <1>18 DEF QuietStep, RecvResponse, sending, connection, endpoint, settings
<1>19. ASSUME RecvPut, UNCHANGED peer PROVE QuietStep
  BY <1>19 DEF QuietStep, RecvPut, sending, connection, endpoint, settings
<1>20. ASSUME DispatchTake, UNCHANGED peer PROVE QuietStep
  BY <1>20 DEF QuietStep, DispatchTake, sending, connection, endpoint, settings
<1>21. ASSUME DispatchExit, UNCHANGED peer PROVE QuietStep
  BY <1>21 DEF QuietStep, DispatchExit, sending, connection, endpoint, settings
<1>22. ASSUME DispatchEvent, UNCHANGED peer PROVE QuietStep
  BY <1>22, ZenonT(40) DEF QuietStep, DispatchEvent, sending, connection, endpoint, settings
<1>23. ASSUME DispatchRequestAnswered, UNCHANGED peer PROVE QuietStep
  BY <1>23 DEF QuietStep, DispatchRequestAnswered, TakeNumber, Goto, connection,
     endpoint, settings, PipelineInv, InThreads, Fresh
<1>24. ASSUME DispatchRequestDeferred, UNCHANGED peer PROVE QuietStep
  BY <1>24 DEF QuietStep, DispatchRequestDeferred, Goto, connection, endpoint, settings,
     PipelineInv, InThreads, Fresh
<1>25. ASSUME Destroy, UNCHANGED peer PROVE QuietStep
  BY <1>25 DEF QuietStep, Destroy, sending, connection, endpoint, settings
<1>26. ASSUME DestroyReader, UNCHANGED peer PROVE QuietStep
  BY <1>26 DEF QuietStep, DestroyReader, CloseReader, Closed, sending, connection,
     endpoint, settings, ConnectionTypes
<1>27. ASSUME DestroyWriter, UNCHANGED peer PROVE QuietStep
  BY <1>27 DEF QuietStep, DestroyWriter, Closed, sending, connection, endpoint,
     settings, ConnectionTypes
<1>28. ASSUME JoinRecvThread, UNCHANGED peer PROVE QuietStep
  BY <1>28 DEF QuietStep, JoinRecvThread, sending, connection, endpoint, settings
<1>29. ASSUME JoinDispatchThread, UNCHANGED peer PROVE QuietStep
  BY <1>29, ZenonT(40) DEF QuietStep, JoinDispatchThread, sending, connection, endpoint, settings
<1>30. ASSUME NEW r \in PeerRequests, PeerSendsRequest(r) PROVE QuietStep
  BY <1>30 DEF QuietStep, PeerSendsRequest, Deliver, sending, connection, endpoint,
     settings
<1>31. ASSUME NEW e \in PeerEvents, PeerSendsEvent(e) PROVE QuietStep
  BY <1>31, ZenonT(40) DEF QuietStep, PeerSendsEvent, Deliver, sending, connection, endpoint,
     settings
<1>32. ASSUME PeerSendsGarbage PROVE QuietStep
  BY <1>32, ZenonT(40) DEF QuietStep, PeerSendsGarbage, Deliver, sending, connection, endpoint,
     settings
<1>33. ASSUME NEW c \in ReqCalls, PeerAnswers(c) PROVE QuietStep
  BY <1>33, ZenonT(40) DEF QuietStep, PeerAnswers, Deliver, sending, connection, endpoint, settings
<1>34. ASSUME PeerClosesIn PROVE QuietStep
  BY <1>34, ZenonT(40) DEF QuietStep, PeerClosesIn, sending, connection, endpoint, settings
<1>35. ASSUME PeerClosesOut PROVE QuietStep
  BY <1>35, ZenonT(40) DEF QuietStep, PeerClosesOut, sending, connection, endpoint, settings,
     ConnectionTypes
<1>40. CASE UNCHANGED allVars
  BY <1>40 DEF allVars, vars, endpoint, settings, sending, connection, QuietStep
<1> QED
  BY ZenonT(40), <1>55, <1>2, <1>3, <1>4, <1>5, <1>6, <1>7, <1>8, <1>9, <1>10, <1>11, <1>12,
     <1>13, <1>14, <1>15, <1>16, <1>17, <1>18, <1>19, <1>20, <1>21, <1>22,
     <1>23, <1>24, <1>25, <1>26, <1>27, <1>28, <1>29, <1>30, <1>31, <1>32,
     <1>33, <1>34, <1>35, <1>40
  DEF Writes, SystemNext, Next, Setup, RequestCall, EventCall, Answer, Send,
      RecvThread, DispatchThread, Destructor, PeerNext
-----------------------------------------------------------------------------
(* A step of send(string) moves its own call only.                         *)
LEMMA LockStep ==
    ASSUME TypeOK, PipelineInv, LockInv, [SystemNext]_allVars
    PROVE  LockInv'
<1>1. CASE Connect
  BY <1>1 DEF Connect, sending, LockInv
<1>2. ASSUME NEW a \in Senders, LockAndCheckOpen(a) PROVE LockInv'
  <2>1. CASE sendMutex' = a /\ spc' = [spc EXCEPT ![a] = "header"]
    BY <1>2, <2>1, DistinctAssumption, ZenonT(40)
    DEF LockAndCheckOpen, LockInv, Senders, TypeOK, SendingTypes
  <2>2. CASE sendMutex' = None /\ spc' = [spc EXCEPT ![a] = "failed"]
    BY <1>2, <2>2, DistinctAssumption
    DEF LockAndCheckOpen, LockInv, Senders, TypeOK, SendingTypes
  <2> QED
    BY <1>2, <2>1, <2>2, ZenonT(40) DEF LockAndCheckOpen, Goto
<1>3. ASSUME NEW a \in Senders, WriteHeader(a) PROVE LockInv'
  <2>1. CASE sendMutex' = sendMutex /\ spc' = [spc EXCEPT ![a] = "content"]
    BY <1>3, <2>1, ZenonT(40) DEF WriteHeader, LockInv, TypeOK, SendingTypes
  <2>2. CASE sendMutex' = None /\ spc' = [spc EXCEPT ![a] = "failed"]
    BY <1>3, <2>2, DistinctAssumption, ZenonT(40)
    DEF WriteHeader, LockInv, Senders, TypeOK, SendingTypes
  <2> QED
    BY <1>3, <2>1, <2>2, ZenonT(40) DEF WriteHeader, Goto
<1>4. ASSUME NEW a \in Senders, WriteContent(a) PROVE LockInv'
  <2>1. PICK p \in {"sent", "failed"} : sendMutex' = None /\ spc' = [spc EXCEPT ![a] = p]
    BY <1>4 DEF WriteContent, Goto
  <2> QED
    BY <1>4, <2>1, DistinctAssumption DEF WriteContent, LockInv, Senders, TypeOK,
       SendingTypes
<1>5. CASE QuietStep
  BY ZenonT(40), <1>5 DEF QuietStep, LockInv
<1> QED
  BY <1>1, <1>2, <1>3, <1>4, <1>5, QuietSteps DEF Writes

(* FramesIntact: the holder of sendMutex writes its header after a whole   *)
(* message and its content after that header.                              *)
LEMMA FrameStep ==
    ASSUME TypeOK, PipelineInv, LockInv, FrameInv, [SystemNext]_allVars
    PROVE  FrameInv'
<1>0. /\ wire \in Seq(Halves) /\ Len(wire) \in Nat
      /\ \A i \in 1 .. Len(wire) : wire[i].from \in Senders
  <2>1. wire \in Seq(Halves)
    BY DEF TypeOK, ConnectionTypes
  <2>2. Len(wire) \in Nat /\ \A i \in 1 .. Len(wire) : wire[i] \in Halves
    BY <2>1
  <2>3. \A h \in Halves : h.from \in Senders
    BY ZenonT(40) DEF Halves
  <2> QED
    BY <2>1, <2>2, <2>3, ZenonT(40)
<1>1. CASE Connect
  <2>1. /\ isBound' /\ writer' = "open" /\ wire = <<>>
        /\ UNCHANGED <<wire, spc>>
        /\ \A a \in Senders : spc[a] \notin {"header", "content"}
    BY <1>1 DEF Connect, sending, FrameInv, WriterBound
  <2>2. Len(wire) = 0
    BY <2>1
  <2> QED
    BY <2>1, <2>2 DEF FrameInv, FramesIntact, WriterBound, WireEnd
<1>2. ASSUME NEW a \in Senders, LockAndCheckOpen(a) PROVE FrameInv'
  <2>1. UNCHANGED <<isBound, writer, wire>>
    BY <1>2 DEF LockAndCheckOpen, endpoint, settings, connection
  <2>2. PICK p \in {"header", "failed"} :
            spc' = [spc EXCEPT ![a] = p] /\ (p = "header" => writer # "none")
    BY <1>2 DEF LockAndCheckOpen, Goto
  <2>3. spc[a] = "ready" /\ \A b \in Senders : spc'[b] = IF b = a THEN p ELSE spc[b]
    BY <1>2, <2>2 DEF LockAndCheckOpen, TypeOK, SendingTypes
  <2>4. WriterBound'
    BY <2>1, <2>2, <2>3 DEF FrameInv, WriterBound
  <2>5. WireEnd'
    BY <1>0, <2>1, <2>3 DEF FrameInv, WireEnd
  <2> QED
    BY <2>1, <2>4, <2>5 DEF FrameInv, FramesIntact
<1>3. ASSUME NEW a \in Senders, WriteHeader(a) PROVE FrameInv'
  <2>1. isBound' = isBound /\ writer' = writer /\ writer # "none" /\ spc[a] = "header"
    BY <1>3 DEF WriteHeader, endpoint, settings, FrameInv, WriterBound
  <2>2. CASE writer = "open"
    <3>1. wire' = Append(wire, Half("header", a)) /\ spc' = [spc EXCEPT ![a] = "content"]
      BY <1>3, <2>2 DEF WriteHeader, Goto
    <3>2. Half("header", a) \in Halves /\ Half("header", a).part = "header" /\ Half("header", a).from = a
      BY WrapType DEF Half, Halves, TypeOK, SendingTypes
    <3>3. /\ Len(wire') = Len(wire) + 1
          /\ wire'[Len(wire) + 1] = Half("header", a)
          /\ \A i \in 1 .. Len(wire) : wire'[i] = wire[i]
      BY ZenonT(40), <1>0, <3>1, <3>2, WireAppended
    <3>4. \A b \in Senders : spc[b] # "content"
      BY <2>1, DistinctAssumption DEF LockInv
    <3>5. Len(wire) % 2 = 0
      <4>1. Len(wire) % 2 = 1 => Len(wire) \in 1 .. Len(wire)
        BY <1>0
      <4> QED
        BY <1>0, <2>2, <3>4, <4>1 DEF FrameInv, WireEnd
    <3>6. WireEnd'
      <4>1. spc'[a] = "content"
        BY <3>1 DEF TypeOK, SendingTypes
      <4>2. Len(wire') % 2 = 1
        BY <1>0, <3>3, <3>5
      <4> QED
        BY <3>2, <3>3, <4>1, <4>2 DEF WireEnd
    <3>7. FramesIntact'
      <4>1. ASSUME NEW i \in 1 .. Len(wire)
            PROVE  /\ i % 2 = 1 => wire'[i].part = "header"
                   /\ i % 2 # 1 => wire'[i].part = "content" /\ wire'[i].from = wire'[i - 1].from
        <5>1. i % 2 # 1 => i - 1 \in 1 .. Len(wire)
          BY <1>0
        <5> QED
          BY <3>3, <5>1, ZenonT(40) DEF FrameInv, FramesIntact
      <4>2. (Len(wire) + 1) % 2 = 1
        BY <1>0, <3>5
      <4>3. 1 .. Len(wire') = 1 .. Len(wire) \cup {Len(wire) + 1}
        BY <1>0, <3>3
      <4>4. ASSUME NEW i \in 1 .. Len(wire')
            PROVE  /\ i % 2 = 1 => wire'[i].part = "header"
                   /\ i % 2 # 1 => wire'[i].part = "content" /\ wire'[i].from = wire'[i - 1].from
        <5>1. CASE i \in 1 .. Len(wire)
          BY ZenonT(40), <4>1, <5>1
        <5>2. CASE i = Len(wire) + 1
          BY <3>2, <3>3, <4>2, <5>2
        <5> QED
          BY ZenonT(40), <4>3, <5>1, <5>2
      <4> QED
        BY ZenonT(40), <4>4 DEF FramesIntact
    <3> QED
      BY <2>1, <3>6, <3>7 DEF FrameInv, WriterBound
  <2>3. CASE writer # "open"
    BY <1>3, <2>1, <2>3, ZenonT(40) DEF WriteHeader, FrameInv, WriterBound, WireEnd, FramesIntact
  <2> QED
    BY <2>2, <2>3
<1>4. ASSUME NEW a \in Senders, WriteContent(a) PROVE FrameInv'
  <2>1. isBound' = isBound /\ writer' = writer /\ writer # "none" /\ spc[a] = "content"
    BY <1>4 DEF WriteContent, endpoint, settings, FrameInv, WriterBound
  <2>2. CASE writer = "open"
    <3>1. wire' = Append(wire, Half("content", a)) /\ spc' = [spc EXCEPT ![a] = "sent"]
      BY <1>4, <2>2, ZenonT(40) DEF WriteContent, Goto
    <3>2. Half("content", a) \in Halves /\ Half("content", a).part = "content" /\ Half("content", a).from = a
      BY WrapType DEF Half, Halves, TypeOK, SendingTypes
    <3>3. /\ Len(wire') = Len(wire) + 1
          /\ wire'[Len(wire) + 1] = Half("content", a)
          /\ \A i \in 1 .. Len(wire) : wire'[i] = wire[i]
      BY ZenonT(40), <1>0, <3>1, <3>2, WireAppended
    <3>4. \A b \in Senders : spc[b] = "content" => b = a
      BY <2>1 DEF LockInv
    <3>5. Len(wire) % 2 = 1 /\ spc[wire[Len(wire)].from] = "content"
      BY <2>1, <2>2 DEF FrameInv, WireEnd
    <3>6. Len(wire) \in 1 .. Len(wire) /\ wire[Len(wire)].from = a
      <4>1. Len(wire) \in 1 .. Len(wire)
        BY <1>0, <3>5
      <4> QED
        BY <1>0, <3>4, <3>5, <4>1
    <3>7. WireEnd'
      <4>1. \A b \in Senders : spc'[b] # "content"
        BY <3>1, <3>4 DEF TypeOK, SendingTypes
      <4>2. Len(wire') % 2 = 0
        BY <1>0, <3>3, <3>5
      <4> QED
        BY <4>1, <4>2 DEF WireEnd
    <3>8. FramesIntact'
      <4>1. ASSUME NEW i \in 1 .. Len(wire)
            PROVE  /\ i % 2 = 1 => wire'[i].part = "header"
                   /\ i % 2 # 1 => wire'[i].part = "content" /\ wire'[i].from = wire'[i - 1].from
        <5>1. i % 2 # 1 => i - 1 \in 1 .. Len(wire)
          BY <1>0
        <5> QED
          BY <3>3, <5>1, ZenonT(40) DEF FrameInv, FramesIntact
      <4>2. (Len(wire) + 1) % 2 # 1 /\ wire'[Len(wire) + 1 - 1].from = a
        BY <1>0, <3>3, <3>5, <3>6
      <4>3. 1 .. Len(wire') = 1 .. Len(wire) \cup {Len(wire) + 1}
        BY <1>0, <3>3
      <4>4. ASSUME NEW i \in 1 .. Len(wire')
            PROVE  /\ i % 2 = 1 => wire'[i].part = "header"
                   /\ i % 2 # 1 => wire'[i].part = "content" /\ wire'[i].from = wire'[i - 1].from
        <5>1. CASE i \in 1 .. Len(wire)
          BY ZenonT(40), <4>1, <5>1
        <5>2. CASE i = Len(wire) + 1
          BY <3>2, <3>3, <4>2, <5>2
        <5> QED
          BY ZenonT(40), <4>3, <5>1, <5>2
      <4> QED
        BY ZenonT(40), <4>4 DEF FramesIntact
    <3> QED
      BY <2>1, <3>7, <3>8 DEF FrameInv, WriterBound
  <2>3. CASE writer # "open"
    BY <1>4, <2>1, <2>3, ZenonT(40) DEF WriteContent, FrameInv, WriterBound, WireEnd, FramesIntact
  <2> QED
    BY <2>2, <2>3
<1>5. CASE QuietStep
  <2>1. WriterBound'
    BY ZenonT(40), <1>5 DEF QuietStep, FrameInv, WriterBound
  <2>2. WireEnd'
    <3>1. CASE writer' # "open"
      BY <3>1, ZenonT(40) DEF WireEnd
    <3>2. CASE writer' = "open"
      <4>1. writer = "open" /\ wire' = wire
        BY <1>5, <3>2 DEF QuietStep
      <4>2. \A b \in Senders : spc'[b] = "content" <=> spc[b] = "content"
        BY ZenonT(40), <1>5 DEF QuietStep
      <4>3. Len(wire) % 2 = 1 => wire[Len(wire)].from \in Senders
        <5>1. Len(wire) % 2 = 1 => Len(wire) \in 1 .. Len(wire)
          BY <1>0
        <5> QED
          BY <1>0, <5>1
      <4> QED
        BY <4>1, <4>2, <4>3 DEF FrameInv, WireEnd
    <3> QED
      BY <3>1, <3>2
  <2> QED
    BY <1>5, <2>1, <2>2 DEF QuietStep, FrameInv, FramesIntact
<1> QED
  BY <1>1, <1>2, <1>3, <1>4, <1>5, QuietSteps DEF Writes
=============================================================================
