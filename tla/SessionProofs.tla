---------------------------- MODULE SessionProofs ----------------------------
(* What the runs of MCSession check of the safety of a session, proved for *)
(* every number of calls, requests, events and threads that answer, every  *)
(* transport and every peer.                                               *)
EXTENDS SessionSteps

(* The time each step may take, and the time of a second attempt.          *)
USE SMTT(30), SMTT(60)

(* Where a request is whose handler is in the map and that is not sent yet. *)
Registered == {"ready", "header", "content"}

(* Answers: what a step does that neither writes, nor registers a handler, *)
(* nor answers, nor sets a promise.                                        *)
AnswersQuiet ==
    /\ UNCHANGED <<wire, promise, setValues, responseMap, answers>>
    /\ \A c \in ReqCalls : spc'[c] \in Registered => spc[c] \in Registered
    /\ nextSeq' \in {nextSeq, nextSeq + 1}
    /\ \A a \in Senders : /\ spc[a] \in {"sent", "done"} => spc'[a] \in {"sent", "done"}
                          /\ seq[a] # 0 => seq'[a] = seq[a]
    /\ \/ in' = in
       \/ in # <<>> /\ in' = Tail(in)
       \/ \E m \in Messages : m.type # "response" /\ in' = Append(in, m)

LEMMA AnswersQuietSteps ==
    ASSUME TypeOK, PipelineInv, NumberInv, [SystemNext]_allVars,
           \A c \in ReqCalls : ~(PutResponseHandler(c) \/ ReturnRequest(c) \/ PeerAnswers(c)),
           \A a \in Senders : ~(WriteHeader(a) \/ WriteContent(a)),
           ~RecvResponse
    PROVE  AnswersQuiet
<1> USE DEF Senders
<1>1. ASSUME NEW n \in Commands, RegisterRequestHandler(n), UNCHANGED peer PROVE AnswersQuiet
  BY ZenonT(40), <1>1 DEF AnswersQuiet, RegisterRequestHandler, connection, sending, peer
<1>2. ASSUME NEW n \in EventNames, RegisterEventHandler(n), UNCHANGED peer PROVE AnswersQuiet
  BY ZenonT(40), <1>2 DEF AnswersQuiet, RegisterEventHandler, connection, sending, peer
<1>55. ASSUME NEW m \in InvalidDataModes, SetOnInvalidData(m), UNCHANGED peer PROVE AnswersQuiet
  BY ZenonT(40), <1>55 DEF AnswersQuiet, SetOnInvalidData, connection, sending, peer
<1>3. ASSUME Connect, UNCHANGED peer PROVE AnswersQuiet
  BY <1>3 DEF AnswersQuiet, Connect, connection, sending, peer
<1>4. ASSUME StartProcessingMessages, UNCHANGED peer PROVE AnswersQuiet
  BY <1>4 DEF AnswersQuiet, StartProcessingMessages, connection, sending, peer
<1>5. ASSUME NEW c \in ReqCalls, SendRequest(c), UNCHANGED peer PROVE AnswersQuiet
  <2>1. PICK p \in SendStates : spc' = [spc EXCEPT ![c] = p] /\ p = "numbered"
    BY <1>5 DEF SendRequest, Goto, SendStates
  <2>2. c \in Senders /\ spc[c] \in {"idle", "deferred"}
    BY <1>5 DEF SendRequest
  <2>3. seq' = [seq EXCEPT ![c] = nextSeq] /\ nextSeq' = nextSeq + 1
    BY <1>5 DEF SendRequest, TakeNumber
  <2>4. UNCHANGED <<answers, in, wire, promise, setValues, responseMap>>
    BY <1>5 DEF SendRequest, connection, peer
  <2> QED
    BY <2>1, <2>2, <2>3, <2>4, DistinctAssumption
    DEF AnswersQuiet, NumberInv, TypeOK, SendingTypes, Registered
<1>6. ASSUME NEW e \in EvtCalls, SendEvent(e), UNCHANGED peer PROVE AnswersQuiet
  <2>1. PICK p \in SendStates : spc' = [spc EXCEPT ![e] = p]
    BY <1>6 DEF SendEvent, Goto, SendStates
  <2>2. e \in Senders /\ spc[e] \in {"idle", "deferred"}
    BY <1>6 DEF SendEvent
  <2>3. seq' = [seq EXCEPT ![e] = nextSeq] /\ nextSeq' = nextSeq + 1
    BY <1>6 DEF SendEvent, TakeNumber
  <2>4. UNCHANGED <<answers, in, wire, promise, setValues, responseMap>>
    BY <1>6 DEF SendEvent, connection, peer
  <2> QED
    BY <2>1, <2>2, <2>3, <2>4, DistinctAssumption
    DEF AnswersQuiet, NumberInv, TypeOK, SendingTypes, Registered
<1>7. ASSUME NEW e \in EvtCalls, ReturnEvent(e), UNCHANGED peer PROVE AnswersQuiet
  <2>1. PICK p \in SendStates : /\ spc' = [spc EXCEPT ![e] = p]
                                /\ spc[e] \in {"sent", "done"} => p = "done"
    BY <1>7 DEF ReturnEvent, Goto, SendStates
  <2>2. UNCHANGED <<answers, in, wire, promise, setValues, responseMap, seq, nextSeq>>
    BY <1>7 DEF ReturnEvent, connection, peer
  <2> QED
    BY <2>1, <2>2, DistinctAssumption DEF AnswersQuiet, TypeOK, SendingTypes, Registered
<1>8. ASSUME NEW a \in Senders, LockAndCheckOpen(a), UNCHANGED peer PROVE AnswersQuiet
  <2>1. PICK p \in SendStates : /\ spc' = [spc EXCEPT ![a] = p]
                                /\ spc[a] = "ready"
    BY <1>8 DEF LockAndCheckOpen, Goto, SendStates
  <2>2. UNCHANGED <<answers, in, wire, promise, setValues, responseMap, seq, nextSeq>>
    BY <1>8 DEF LockAndCheckOpen, connection, peer
  <2> QED
    BY <2>1, <2>2, DistinctAssumption DEF AnswersQuiet, TypeOK, SendingTypes, Registered
<1>9. ASSUME NEW r \in PeerRequests, AnswerDeferred(r), UNCHANGED peer PROVE AnswersQuiet
  <2>1. PICK p \in SendStates : spc' = [spc EXCEPT ![r] = p]
    BY <1>9 DEF AnswerDeferred, Goto, SendStates
  <2>2. r \in Senders /\ spc[r] \in {"idle", "deferred"}
    BY <1>9 DEF AnswerDeferred
  <2>3. seq' = [seq EXCEPT ![r] = nextSeq] /\ nextSeq' = nextSeq + 1
    BY <1>9 DEF AnswerDeferred, TakeNumber
  <2>4. UNCHANGED <<answers, in, wire, promise, setValues, responseMap>>
    BY <1>9 DEF AnswerDeferred, connection, peer
  <2> QED
    BY <2>1, <2>2, <2>3, <2>4, DistinctAssumption
    DEF AnswersQuiet, NumberInv, TypeOK, SendingTypes, Registered
<1>10. ASSUME NEW r \in PeerRequests, RunSentHandler(r), UNCHANGED peer PROVE AnswersQuiet
  <2>1. PICK p \in SendStates : /\ spc' = [spc EXCEPT ![r] = p]
                                /\ spc[r] \in {"sent", "done"} => p = "done"
    BY <1>10 DEF RunSentHandler, Goto, SendStates
  <2>2. UNCHANGED <<answers, in, wire, promise, setValues, responseMap, seq, nextSeq>>
    BY <1>10, ZenonT(40) DEF RunSentHandler, connection, peer
  <2> QED
    BY <2>1, <2>2, DistinctAssumption DEF AnswersQuiet, TypeOK, SendingTypes, Registered
<1>11. ASSUME RecvLoop, UNCHANGED peer PROVE AnswersQuiet
  BY <1>11 DEF AnswersQuiet, RecvLoop, connection, sending, peer
<1>12. ASSUME RecvNothing, UNCHANGED peer PROVE AnswersQuiet
  BY ZenonT(40), <1>12 DEF AnswersQuiet, RecvNothing, connection, sending, peer
<1>13. ASSUME RecvPayload, UNCHANGED peer PROVE AnswersQuiet
  BY <1>13 DEF AnswersQuiet, RecvPayload, connection, sending, peer, CanRead
<1>14. ASSUME RecvDropped, UNCHANGED peer PROVE AnswersQuiet
  BY <1>14 DEF AnswersQuiet, RecvDropped, connection, sending, peer, CanRead
<1>15. ASSUME RecvNoiseSkipped, UNCHANGED peer PROVE AnswersQuiet
  BY <1>15 DEF AnswersQuiet, RecvNoiseSkipped, connection, sending, peer, CanRead
<1>16. ASSUME RecvNoiseCloses, UNCHANGED peer PROVE AnswersQuiet
  BY ZenonT(40), <1>16 DEF AnswersQuiet, RecvNoiseCloses, connection, sending, peer
<1>17. ASSUME RecvPut, UNCHANGED peer PROVE AnswersQuiet
  BY <1>17 DEF AnswersQuiet, RecvPut, connection, sending, peer
<1>18. ASSUME DispatchTake, UNCHANGED peer PROVE AnswersQuiet
  BY <1>18 DEF AnswersQuiet, DispatchTake, connection, sending, peer
<1>19. ASSUME DispatchExit, UNCHANGED peer PROVE AnswersQuiet
  BY <1>19 DEF AnswersQuiet, DispatchExit, connection, sending, peer
<1>20. ASSUME DispatchEvent, UNCHANGED peer PROVE AnswersQuiet
  BY <1>20 DEF AnswersQuiet, DispatchEvent, connection, sending, peer
<1>21. ASSUME DispatchRequestAnswered, UNCHANGED peer PROVE AnswersQuiet
  <2>1. PICK p \in SendStates : spc' = [spc EXCEPT ![dispatchItem] = p]
    BY <1>21 DEF DispatchRequestAnswered, Goto, SendStates
  <2>2. dispatchItem \in PeerRequests /\ spc[dispatchItem] \in {"idle", "deferred"}
    BY <1>21 DEF DispatchRequestAnswered, PipelineInv, InThreads, Fresh
  <2>3. seq' = [seq EXCEPT ![dispatchItem] = nextSeq] /\ nextSeq' = nextSeq + 1
    BY <1>21 DEF DispatchRequestAnswered, TakeNumber
  <2>4. UNCHANGED <<answers, in, wire, promise, setValues, responseMap>>
    BY <1>21 DEF DispatchRequestAnswered, connection, peer
  <2> QED
    BY <2>1, <2>2, <2>3, <2>4, DistinctAssumption
    DEF AnswersQuiet, NumberInv, TypeOK, SendingTypes, Registered
<1>22. ASSUME DispatchRequestDeferred, UNCHANGED peer PROVE AnswersQuiet
  <2>1. PICK p \in SendStates : /\ spc' = [spc EXCEPT ![dispatchItem] = p]
                                /\ spc[dispatchItem] \in {"sent", "done"} => p = "done"
    BY <1>22 DEF DispatchRequestDeferred, Goto, SendStates, PipelineInv, InThreads,
       Fresh
  <2>2. /\ UNCHANGED <<answers, in, wire, promise, setValues, responseMap, seq, nextSeq>>
        /\ dispatchItem \in PeerRequests
    BY <1>22 DEF DispatchRequestDeferred, connection, peer
  <2> QED
    BY <2>1, <2>2, DistinctAssumption DEF AnswersQuiet, TypeOK, SendingTypes, Registered
<1>23. ASSUME Destroy, UNCHANGED peer PROVE AnswersQuiet
  BY ZenonT(40), <1>23 DEF AnswersQuiet, Destroy, connection, sending, peer
<1>24. ASSUME DestroyReader, UNCHANGED peer PROVE AnswersQuiet
  BY ZenonT(40), <1>24 DEF AnswersQuiet, DestroyReader, connection, sending, peer
<1>25. ASSUME DestroyWriter, UNCHANGED peer PROVE AnswersQuiet
  BY <1>25 DEF AnswersQuiet, DestroyWriter, connection, sending, peer
<1>26. ASSUME JoinRecvThread, UNCHANGED peer PROVE AnswersQuiet
  BY <1>26 DEF AnswersQuiet, JoinRecvThread, connection, sending, peer
<1>27. ASSUME JoinDispatchThread, UNCHANGED peer PROVE AnswersQuiet
  BY ZenonT(40), <1>27 DEF AnswersQuiet, JoinDispatchThread, connection, sending, peer
<1>28. ASSUME NEW r \in PeerRequests, PeerSendsRequest(r) PROVE AnswersQuiet
  <2>1. PICK n \in Commands, b \in Bodies : Deliver(PeerMessage("request", r, n, b))
    BY <1>28 DEF PeerSendsRequest
  <2>2. PeerMessage("request", r, n, b) \in Messages /\ PeerMessage("request", r, n, b).type # "response"
    BY PeerAssumption DEF PeerMessage, Messages, PeerMessages, Payloads, Names
  <2> QED
    BY ZenonT(40), <1>28, <2>1, <2>2 DEF AnswersQuiet, PeerSendsRequest, Deliver, sending,
       connection
<1>29. ASSUME NEW e \in PeerEvents, PeerSendsEvent(e) PROVE AnswersQuiet
  <2>1. PICK n \in EventNames, b \in Bodies : Deliver(PeerMessage("event", e, n, b))
    BY <1>29 DEF PeerSendsEvent
  <2>2. PeerMessage("event", e, n, b) \in Messages /\ PeerMessage("event", e, n, b).type # "response"
    BY PeerAssumption DEF PeerMessage, Messages, PeerMessages, Payloads, Names
  <2> QED
    BY ZenonT(40), <1>29, <2>1, <2>2 DEF AnswersQuiet, PeerSendsEvent, Deliver, sending,
       connection
<1>30. ASSUME PeerSendsGarbage PROVE AnswersQuiet
  BY ZenonT(40), <1>30 DEF AnswersQuiet, PeerSendsGarbage, Deliver, Messages, Garbage, Noise,
     sending, connection, peer
<1>31. ASSUME PeerClosesIn PROVE AnswersQuiet
  BY ZenonT(40), <1>31 DEF AnswersQuiet, PeerClosesIn, connection, sending, peer
<1>32. ASSUME PeerClosesOut PROVE AnswersQuiet
  BY ZenonT(40), <1>32 DEF AnswersQuiet, PeerClosesOut, connection, sending, peer
<1>50. CASE UNCHANGED allVars
  BY ZenonT(40), <1>50 DEF AnswersQuiet, allVars, vars, sending, connection, peer
<1> QED
  BY ZenonT(40), <1>55, <1>1, <1>2, <1>3, <1>4, <1>5, <1>6, <1>7, <1>8, <1>9, <1>10, <1>11,
     <1>12, <1>13, <1>14, <1>15, <1>16, <1>17, <1>18, <1>19, <1>20, <1>21,
     <1>22, <1>23, <1>24, <1>25, <1>26, <1>27, <1>28, <1>29, <1>30, <1>31,
     <1>32, <1>50
  DEF SystemNext, Next, Setup, RequestCall, EventCall, Answer, Send,
      RecvThread, DispatchThread, Destructor, PeerNext

(* Where the responses that are still to be read come from.                *)
LEMMA ResponsesRemain ==
    ASSUME TypeOK, NEW i \in 1 .. Len(in'), in'[i].type = "response",
           \/ in' = in
           \/ in # <<>> /\ in' = Tail(in)
           \/ \E m \in Messages : m.type # "response" /\ in' = Append(in, m)
    PROVE  \E j \in 1 .. Len(in) : in'[i] = in[j]
<1>1. in \in Seq(Messages)
  BY DEF TypeOK, ConnectionTypes
<1>2. CASE in # <<>> /\ in' = Tail(in)
  BY <1>1, <1>2, TailElements
<1>3. ASSUME NEW m \in Messages, m.type # "response", in' = Append(in, m)
      PROVE  \E j \in 1 .. Len(in) : in'[i] = in[j]
  BY <1>1, <1>3, AppendElements
<1> QED
  BY <1>2, <1>3

(* A message that is on the wire has a number and a sender.                *)
LEMMA OnWireNumbered ==
    ASSUME TypeOK, NumberInv, NEW a, OnWire(a)
    PROVE  a \in Senders /\ seq[a] # 0
<1>1. PICK i \in 1 .. Len(wire) : wire[i].from = a
  BY DEF OnWire
<1>2. wire \in Seq(Halves)
  BY DEF TypeOK, ConnectionTypes
<1>3. wire[i] \in Halves
  BY <1>2
<1> QED
  BY ZenonT(40), <1>1, <1>3 DEF Halves, NumberInv

LEMMA NotWrappedBefore ==
    ASSUME TypeOK, nextSeq' \in {nextSeq, nextSeq + 1}, NotWrapped'
    PROVE  NotWrapped
<1>1. nextSeq \in Nat /\ SeqMod \in Nat
  BY SeqModAssumption DEF TypeOK, SendingTypes
<1>2. CASE nextSeq' = nextSeq
  BY <1>2 DEF NotWrapped
<1>3. CASE nextSeq' = nextSeq + 1
  BY <1>1, <1>3 DEF NotWrapped
<1> QED
  BY <1>2, <1>3

LEMMA AnswersKept ==
    ASSUME TypeOK, NumberInv, ResponseInv, PromiseInv, AnswersQuiet
    PROVE  ResponseInv' /\ PromiseInv'
<1>1. \A a : OnWire(a)' <=> OnWire(a)
  BY DEF AnswersQuiet, OnWire
<1>2. \A a \in Senders : OnWire(a)' => spc'[a] \in {"sent", "done"}
  BY ZenonT(40), <1>1 DEF AnswersQuiet, ResponseInv
<1>3. ASSUME NEW i \in 1 .. Len(in'), in'[i].type = "response"
      PROVE  OnWire(in[i].to)' /\ in'[i].requestSeq = Wrap(seq'[in'[i].to])
  <2>1. PICK j \in 1 .. Len(in) : in'[i] = in[j]
    BY <1>3, ResponsesRemain DEF AnswersQuiet
  <2>2. OnWire(in[j].to) /\ in[j].requestSeq = Wrap(seq[in[j].to])
    BY ZenonT(40), <1>3, <2>1 DEF ResponseInv
  <2>3. seq'[in[j].to] = seq[in[j].to]
    BY ZenonT(40), <2>2, OnWireNumbered DEF AnswersQuiet
  <2> QED
    BY <1>1, <2>1, <2>2, <2>3 DEF OnWire, AnswersQuiet
<1>4. ASSUME NEW k \in Keys, responseMap'[k] # None
      PROVE  k = Wrap(seq'[responseMap'[k]]) /\ seq'[responseMap'[k]] # 0
  <2>1. responseMap[k] \in Senders /\ k = Wrap(seq[responseMap[k]]) /\ seq[responseMap[k]] # 0
    BY <1>4 DEF AnswersQuiet, ResponseInv, TypeOK, Senders
  <2> QED
    BY <2>1 DEF AnswersQuiet
<1>5. ResponseInv'
  BY ZenonT(40), <1>2, <1>3, <1>4 DEF ResponseInv, Wrap
<1>6. NotWrapped' => NotWrapped
  BY NotWrappedBefore DEF AnswersQuiet
<1>7. PromiseInv'
  BY ZenonT(40), <1>1, <1>6 DEF PromiseInv, AnswersQuiet, Senders
<1> QED
  BY <1>5, <1>7

(* The two halves of a message that is written.                            *)
LEMMA AnswersWritten ==
    ASSUME TypeOK, NumberInv, ResponseInv, PromiseInv, NEW a \in Senders,
           NEW h \in {"header", "content"}, spc[a] = h,
           NEW p \in SendStates, spc' = [spc EXCEPT ![a] = p],
           UNCHANGED <<in, nextSeq, seq, promise, setValues, responseMap>>,
           \/ wire' = wire
           \/ wire' = Append(wire, Half(h, a)) /\ (h = "content" => p = "sent")
    PROVE  ResponseInv' /\ PromiseInv'
<1>1. /\ spc \in [Senders -> SendStates] /\ wire \in Seq(Halves)
      /\ seq \in [Senders -> Nat] /\ in \in Seq(Messages)
  BY DEF TypeOK, SendingTypes, ConnectionTypes
<1>2. \A b \in Senders : spc'[b] = IF b = a THEN p ELSE spc[b]
  BY <1>1
<1>3. ~OnWire(a)
  BY DEF ResponseInv
<1>4. /\ \A b : OnWire(b) => OnWire(b)'
      /\ \A b : OnWire(b)' => OnWire(b) \/ (b = a /\ p = "sent")
  <2>1. CASE wire' = wire
    BY <2>1 DEF OnWire
  <2>2. CASE wire' = Append(wire, Half(h, a)) /\ (h = "content" => p = "sent")
    <3>1. Half(h, a) \in Halves /\ Half(h, a).from = a /\ Half(h, a).part = h
      BY <1>1, WrapType DEF Half, Halves
    <3>2. /\ Len(wire') = Len(wire) + 1 /\ Len(wire) \in Nat
          /\ wire'[Len(wire) + 1] = Half(h, a)
          /\ \A i \in 1 .. Len(wire) : wire'[i] = wire[i]
      BY <1>1, <2>2, <3>1, AppendElements
    <3> QED
      BY <2>2, <3>1, <3>2 DEF OnWire
  <2> QED
    BY <2>1, <2>2
<1>5. \A b \in Senders : OnWire(b)' => spc'[b] \in {"sent", "done"}
  BY <1>2, <1>3, <1>4 DEF ResponseInv
<1>6. \A i \in 1 .. Len(in') : in'[i].type = "response" =>
          OnWire(in[i].to)' /\ in'[i].requestSeq = Wrap(seq'[in'[i].to])
  BY ZenonT(40), <1>4 DEF ResponseInv
<1>7. ResponseInv'
  BY ZenonT(40), <1>5, <1>6 DEF ResponseInv, Wrap
<1>8. ASSUME NotWrapped, NEW c \in ReqCalls
      PROVE  /\ promise[c] \in {None, NotSent, c}
             /\ setValues[c] <= 1
             /\ spc'[c] \notin {"sent", "done"} => setValues[c] = 0
             /\ OnWire(c)' /\ (\E k \in Keys : responseMap[k] = c) => setValues[c] = 0
  BY ZenonT(40), <1>2, <1>3, <1>4, <1>8 DEF PromiseInv, Senders
<1>9. PromiseInv'
  BY ZenonT(40), <1>8 DEF PromiseInv, NotWrapped
<1> QED
  BY <1>7, <1>9

(* The handler is registered before the request is on the wire.            *)
LEMMA AnswersRegistered ==
    ASSUME TypeOK, NumberInv, ResponseInv, PromiseInv, NEW c \in ReqCalls, PutResponseHandler(c)
    PROVE  ResponseInv' /\ PromiseInv'
<1>1. /\ spc \in [Senders -> SendStates] /\ seq \in [Senders -> Nat] /\ c \in Senders
      /\ responseMap \in [Keys -> ReqCalls \cup {None}]
  BY DEF TypeOK, SendingTypes, Senders
<1>2. PICK p \in {"ready", "failed"} : spc' = [spc EXCEPT ![c] = p]
  BY DEF PutResponseHandler, Goto
<1>3. UNCHANGED <<in, wire, nextSeq, seq, promise, setValues>> /\ spc[c] = "numbered"
  BY ZenonT(40) DEF PutResponseHandler, connection
<1>4. \A b : OnWire(b)' <=> OnWire(b)
  BY ZenonT(40), <1>3 DEF OnWire
<1>5. ~OnWire(c)
  BY ZenonT(40), <1>1, <1>3 DEF ResponseInv
<1>6. \A k \in Keys : \/ responseMap'[k] = responseMap[k]
                      \/ k = Wrap(seq[c]) /\ responseMap'[k] = c
  BY <1>1 DEF PutResponseHandler
<1>7. \A b \in Senders : spc'[b] = IF b = c THEN p ELSE spc[b]
  BY <1>1, <1>2
<1>8. \A b \in Senders : OnWire(b)' => spc'[b] \in {"sent", "done"}
  BY ZenonT(40), <1>4, <1>5, <1>7 DEF ResponseInv
<1>9. \A i \in 1 .. Len(in') : in'[i].type = "response" =>
          OnWire(in[i].to)' /\ in'[i].requestSeq = Wrap(seq'[in'[i].to])
  BY ZenonT(40), <1>3, <1>4 DEF ResponseInv, OnWire
<1>10. seq[c] # 0
  BY <1>1, <1>3 DEF NumberInv
<1>11. \A k \in Keys : responseMap'[k] # None =>
          k = Wrap(seq'[responseMap'[k]]) /\ seq'[responseMap'[k]] # 0
  BY ZenonT(40), <1>3, <1>6, <1>10 DEF ResponseInv
<1>12. ResponseInv'
  BY ZenonT(40), <1>8, <1>9, <1>11 DEF ResponseInv, Wrap
<1>13. ASSUME NotWrapped, NEW b \in ReqCalls
       PROVE  /\ promise[b] \in {None, NotSent, b}
              /\ setValues[b] <= 1
              /\ spc'[b] \notin {"sent", "done"} => setValues[b] = 0
              /\ OnWire(b)' /\ (\E k \in Keys : responseMap'[k] = b) => setValues[b] = 0
  BY ZenonT(40), <1>3, <1>4, <1>5, <1>6, <1>7, <1>13 DEF PromiseInv, Senders
<1>14. PromiseInv'
  BY ZenonT(40), <1>3, <1>13 DEF PromiseInv, NotWrapped
<1> QED
  BY <1>12, <1>14

(* send() returns: it sets the promise of a call that was not sent, and    *)
(* no response can have found that one.                                    *)
LEMMA AnswersReturned ==
    ASSUME TypeOK, ResponseInv, PromiseInv, NEW c \in ReqCalls, ReturnRequest(c)
    PROVE  ResponseInv' /\ PromiseInv'
<1>1. /\ spc \in [Senders -> SendStates] /\ c \in Senders
      /\ promise \in [ReqCalls -> ReqCalls \cup {None, NotSent}]
      /\ setValues \in [ReqCalls -> Nat]
  BY DEF TypeOK, SendingTypes, Senders
<1>2. /\ UNCHANGED <<in, wire, nextSeq, seq, responseMap>>
      /\ spc' = [spc EXCEPT ![c] = "done"] /\ spc[c] \in {"sent", "failed"}
  BY DEF ReturnRequest, Goto, connection
<1>3. \A b : OnWire(b)' <=> OnWire(b)
  BY <1>2 DEF OnWire
<1>4. \A b \in Senders : spc'[b] = IF b = c THEN "done" ELSE spc[b]
  BY <1>1, <1>2
<1>5. ResponseInv'
  <2>1. \A b \in Senders : OnWire(b)' => spc'[b] \in {"sent", "done"}
    BY ZenonT(40), <1>3, <1>4 DEF ResponseInv
  <2>2. \A i \in 1 .. Len(in') : in'[i].type = "response" =>
           OnWire(in[i].to)' /\ in'[i].requestSeq = Wrap(seq'[in'[i].to])
    BY ZenonT(40), <1>2 DEF ResponseInv, OnWire
  <2>3. \A k \in Keys : responseMap'[k] # None =>
           k = Wrap(seq'[responseMap'[k]]) /\ seq'[responseMap'[k]] # 0
    BY ZenonT(40), <1>2 DEF ResponseInv
  <2> QED
    BY ZenonT(40), <1>2, <2>1, <2>2, <2>3 DEF ResponseInv, OnWire, Wrap
<1>6. \A b \in ReqCalls :
         \/ promise'[b] = promise[b] /\ setValues'[b] = setValues[b]
         \/ /\ b = c /\ spc[c] = "failed"
            /\ promise'[b] = NotSent /\ setValues'[b] = setValues[b] + 1
  BY <1>1 DEF ReturnRequest, SetValue
<1>7. ASSUME NotWrapped, NEW b \in ReqCalls
      PROVE  /\ promise'[b] \in {None, NotSent, b}
             /\ setValues'[b] <= 1
             /\ spc'[b] \notin {"sent", "done"} => setValues'[b] = 0
             /\ OnWire(b)' /\ (\E k \in Keys : responseMap'[k] = b) => setValues'[b] = 0
  <2>1. CASE promise'[b] = promise[b] /\ setValues'[b] = setValues[b]
    BY ZenonT(40), <1>2, <1>3, <1>4, <1>7, <2>1 DEF PromiseInv, Senders
  <2>2. CASE /\ b = c /\ spc[c] = "failed"
             /\ promise'[b] = NotSent /\ setValues'[b] = setValues[b] + 1
    <3>1. setValues[c] = 0 /\ ~OnWire(c)
      BY ZenonT(40), <1>1, <1>7, <2>2 DEF PromiseInv, ResponseInv
    <3>2. setValues'[b] = 1 /\ 1 <= 1
      BY <2>2, <3>1
    <3>3. spc'[b] = "done" /\ ~OnWire(b)'
      BY ZenonT(40), <1>1, <1>3, <1>4, <2>2, <3>1
    <3> QED
      BY ZenonT(40), <2>2, <3>2, <3>3
  <2> QED
    BY ZenonT(40), <1>6, <2>1, <2>2
<1>8. PromiseInv'
  BY ZenonT(40), <1>2, <1>7 DEF PromiseInv, NotWrapped
<1> QED
  BY <1>5, <1>8

(* Before the numbers wrap around, two calls do not share a key of         *)
(* responseMap.                                                            *)
LEMMA KeysDiffer ==
    ASSUME TypeOK, NumberInv, NotWrapped, NEW a \in Senders, NEW b \in Senders,
           seq[a] # 0, seq[b] # 0, Wrap(seq[a]) = Wrap(seq[b])
    PROVE  a = b
<1>1. nextSeq \in Nat /\ seq \in [Senders -> Nat] /\ SeqMod \in Nat
  BY ZenonT(40), SeqModAssumption DEF TypeOK, SendingTypes
<1>2. \A c \in Senders : seq[c] # 0 => seq[c] \in 1 .. SeqMod
  BY <1>1 DEF NumberInv, NotWrapped
<1>3. seq[a] = seq[b]
  BY ZenonT(40), <1>2, WrapInjective
<1> QED
  BY ZenonT(40), <1>3 DEF NumberInv

(* Until the numbers wrap around, the handler that a response finds is the *)
(* one of the request it answers.                                          *)
LEMMA ResponseFindsItsCall ==
    ASSUME TypeOK, NumberInv, ResponseInv, NotWrapped,
           NEW i \in 1 .. Len(in), in[i].type = "response",
           NEW c \in ReqCalls, NEW k \in Keys, responseMap[k] = c, in[i].requestSeq = k
    PROVE  c = in[i].to
<1>1. OnWire(in[i].to) /\ k = Wrap(seq[in[i].to])
  BY ZenonT(40) DEF ResponseInv
<1>2. in[i].to \in Senders /\ seq[in[i].to] # 0
  BY <1>1, OnWireNumbered
<1>3. c \in Senders /\ seq[c] # 0 /\ k = Wrap(seq[c])
  BY ZenonT(40), DistinctAssumption DEF ResponseInv, Senders
<1> QED
  BY ZenonT(40), <1>1, <1>2, <1>3, KeysDiffer

LEMMA AnswersReceived ==
    ASSUME TypeOK, NumberInv, ResponseInv, PromiseInv, RecvResponse
    PROVE  ResponseInv' /\ PromiseInv'
<1> DEFINE m == Head(in)
           d == responseMap[m.requestSeq]
<1>1. /\ in \in Seq(Messages) /\ in # <<>> /\ m.type = "response"
      /\ responseMap \in [Keys -> ReqCalls \cup {None}]
      /\ promise \in [ReqCalls -> ReqCalls \cup {None, NotSent}]
      /\ setValues \in [ReqCalls -> Nat]
  BY ZenonT(40) DEF RecvResponse, CanRead, TypeOK, ConnectionTypes, SendingTypes
<1>2. /\ UNCHANGED <<wire, nextSeq, seq, spc>> /\ in' = Tail(in)
      /\ responseMap' = [responseMap EXCEPT ![m.requestSeq] = None]
  BY ZenonT(40) DEF RecvResponse
<1>3. m \in Messages /\ m = in[1] /\ 1 \in 1 .. Len(in)
  BY <1>1, TailElements, TailType
<1>4. m.requestSeq \in Keys /\ m.to \in ReqCalls
  BY ZenonT(40), <1>1, <1>3, MessageKinds
<1>5. \A k \in Keys : responseMap'[k] = IF k = m.requestSeq THEN None ELSE responseMap[k]
  BY ZenonT(40), <1>1, <1>2
<1>6. \A b : OnWire(b)' <=> OnWire(b)
  BY <1>2 DEF OnWire
<1>7. ASSUME NEW i \in 1 .. Len(in'), in'[i].type = "response"
      PROVE  OnWire(in[i].to)' /\ in'[i].requestSeq = Wrap(seq'[in'[i].to])
  <2>1. PICK j \in 1 .. Len(in) : in'[i] = in[j]
    BY <1>1, <1>2, <1>7, ResponsesRemain
  <2> QED
    BY ZenonT(40), <1>2, <1>7, <2>1 DEF ResponseInv, OnWire
<1>8. ResponseInv'
  BY ZenonT(40), <1>2, <1>5, <1>6, <1>7 DEF ResponseInv, Wrap
<1>9. \/ UNCHANGED <<promise, setValues>>
      \/ /\ d # None
         /\ promise' = [promise EXCEPT ![d] = m.to]
         /\ setValues' = [setValues EXCEPT ![d] = @ + 1]
  BY ZenonT(40) DEF RecvResponse, SetValue
<1>10. ASSUME NotWrapped, NEW b \in ReqCalls
       PROVE  /\ promise'[b] \in {None, NotSent, b}
              /\ setValues'[b] <= 1
              /\ spc'[b] \notin {"sent", "done"} => setValues'[b] = 0
              /\ OnWire(b)' /\ (\E k \in Keys : responseMap'[k] = b) => setValues'[b] = 0
  <2>1. /\ promise[b] \in {None, NotSent, b} /\ setValues[b] <= 1
        /\ spc[b] \notin {"sent", "done"} => setValues[b] = 0
        /\ OnWire(b) /\ (\E k \in Keys : responseMap[k] = b) => setValues[b] = 0
    BY ZenonT(40), <1>10 DEF PromiseInv
  <2>2. (\E k \in Keys : responseMap'[k] = b) => \E k \in Keys : responseMap[k] = b
    BY ZenonT(40), <1>5, DistinctAssumption
  <2>3. CASE promise'[b] = promise[b] /\ setValues'[b] = setValues[b]
    BY ZenonT(40), <1>2, <1>6, <2>1, <2>2, <2>3
  <2>4. CASE d = b /\ promise'[b] = m.to /\ setValues'[b] = setValues[b] + 1
    <3>1. b = m.to
      BY ZenonT(40), <1>1, <1>3, <1>4, <1>10, <2>4, ResponseFindsItsCall
    <3>2. OnWire(b) /\ m.requestSeq = Wrap(seq[b])
      BY ZenonT(40), <1>1, <1>3, <3>1 DEF ResponseInv
    <3>3. setValues[b] = 0
      BY ZenonT(40), <1>4, <2>1, <2>4, <3>2
    <3>4. \A k \in Keys : responseMap'[k] # b
      BY <1>5, <3>2, DistinctAssumption DEF ResponseInv
    <3>5. spc'[b] \in {"sent", "done"}
      BY ZenonT(40), <1>2, <3>2 DEF ResponseInv, Senders
    <3>6. setValues'[b] <= 1
      BY <2>4, <3>3
    <3> QED
      BY ZenonT(40), <2>4, <3>1, <3>4, <3>5, <3>6
  <2> QED
    BY ZenonT(40), <1>1, <1>9, <2>3, <2>4
<1>11. PromiseInv'
  BY ZenonT(40), <1>2, <1>10 DEF PromiseInv, NotWrapped
<1> QED
  BY <1>8, <1>11

(* The peer answers a request it has read, under that request's number.    *)
LEMMA AnswersSent ==
    ASSUME TypeOK, ResponseInv, PromiseInv, NEW c \in ReqCalls, PeerAnswers(c)
    PROVE  ResponseInv' /\ PromiseInv'
<1>1. PICK f \in Forms : Deliver(Response(Wrap(seq[c]), c, answers[c] + 1, f))
  BY DEF PeerAnswers
<1> DEFINE m == Response(Wrap(seq[c]), c, answers[c] + 1, f)
<1>2. /\ UNCHANGED <<wire, nextSeq, seq, spc, promise, setValues, responseMap>>
      /\ in' = Append(in, m)
  BY <1>1 DEF Deliver, sending
<1>3. in \in Seq(Messages) /\ m \in Messages
  BY ZenonT(40), ResponseType DEF TypeOK, ConnectionTypes, PeerAnswers
<1>4. /\ Len(in') = Len(in) + 1 /\ Len(in) \in Nat /\ in'[Len(in) + 1] = m
      /\ \A i \in 1 .. Len(in) : in'[i] = in[i]
  BY <1>2, <1>3, AppendElements
<1>5. \A b : OnWire(b)' <=> OnWire(b)
  BY <1>2 DEF OnWire
<1>6. ASSUME NEW i \in 1 .. Len(in'), in'[i].type = "response"
      PROVE  OnWire(in[i].to)' /\ in'[i].requestSeq = Wrap(seq'[in'[i].to])
  <2>1. CASE i \in 1 .. Len(in)
    BY ZenonT(40), <1>2, <1>4, <1>6, <2>1 DEF ResponseInv, OnWire
  <2>2. CASE i = Len(in) + 1
    <3>1. in'[i].to = c /\ in'[i].requestSeq = Wrap(seq[c])
      <4>1. m.to = c /\ m.requestSeq = Wrap(seq[c])
        BY DEF Response
      <4>2. in'[i] = m
        BY <1>4, <2>2, ZenonT(40)
      <4> QED
        BY <4>1, <4>2, ZenonT(40)
    <3> QED
      BY ZenonT(40), <1>2, <3>1 DEF PeerAnswers, OnWire
  <2> QED
    BY <1>4, <2>1, <2>2
<1>7. ResponseInv'
  BY ZenonT(40), <1>2, <1>5, <1>6 DEF ResponseInv, Wrap
<1>8. PromiseInv'
  BY ZenonT(40), <1>2, <1>5 DEF PromiseInv, NotWrapped
<1> QED
  BY <1>7, <1>8

LEMMA AnswersStep ==
    ASSUME TypeOK, PipelineInv, NumberInv, ResponseInv, PromiseInv, [SystemNext]_allVars
    PROVE  ResponseInv' /\ PromiseInv'
<1>1. ASSUME NEW a \in Senders, WriteHeader(a) PROVE ResponseInv' /\ PromiseInv'
  <2>1. PICK p \in SendStates :
           /\ spc' = [spc EXCEPT ![a] = p]
           /\ wire' = wire \/ wire' = Append(wire, Half("header", a))
    BY <1>1 DEF WriteHeader, Goto, SendStates
  <2> QED
    BY ZenonT(40), <1>1, <2>1, AnswersWritten DEF WriteHeader
<1>2. ASSUME NEW a \in Senders, WriteContent(a) PROVE ResponseInv' /\ PromiseInv'
  <2>1. PICK p \in SendStates :
           /\ spc' = [spc EXCEPT ![a] = p]
           /\ wire' = wire \/ (wire' = Append(wire, Half("content", a)) /\ p = "sent")
    BY <1>2 DEF WriteContent, Goto, SendStates
  <2> QED
    BY ZenonT(40), <1>2, <2>1, AnswersWritten DEF WriteContent
<1>3. CASE /\ \A c \in ReqCalls :
                ~(PutResponseHandler(c) \/ ReturnRequest(c) \/ PeerAnswers(c))
           /\ \A a \in Senders : ~(WriteHeader(a) \/ WriteContent(a))
           /\ ~RecvResponse
  BY <1>3, AnswersQuietSteps, AnswersKept, ZenonT(40)
<1> QED
  BY <1>1, <1>2, <1>3, AnswersRegistered, AnswersReturned, AnswersReceived, AnswersSent
-----------------------------------------------------------------------------
(* The response-sent handler: steps that write nothing, do not run it and  *)
(* open no writer.                                                         *)
SentQuiet ==
    /\ UNCHANGED <<isBound, wire, sentHandlerRan>>
    /\ reader' = reader \/ (reader # "none" /\ reader' # "none")
    /\ writer' = writer \/ writer' # "open"
    /\ recvPc' \in {"read", "put"} => isBound
    /\ inbox' # <<>> \/ dispatchItem' # None => isBound
    /\ \A r \in PeerRequests :
          spc'[r] = spc[r] \/ (isBound /\ spc'[r] \notin {"sent", "failed"})

LEMMA SentQuietSteps ==
    ASSUME TypeOK, SentInv, [SystemNext]_allVars, ~Connect,
           \A a \in Senders : ~Writes(a), \A r \in PeerRequests : ~RunSentHandler(r)
    PROVE  SentQuiet
<1> USE DEF Senders
<1>0. /\ isBound <=> reader # "none"
      /\ recvPc \in {"read", "put"} => isBound
      /\ inbox # <<>> \/ dispatchItem # None => isBound
  BY ZenonT(40) DEF SentInv
<1>1. ASSUME NEW n \in Commands, RegisterRequestHandler(n), UNCHANGED peer PROVE SentQuiet
  BY <1>0, <1>1 DEF SentQuiet, RegisterRequestHandler, endpoint, settings, sending,
     receiving, connection
<1>2. ASSUME NEW n \in EventNames, RegisterEventHandler(n), UNCHANGED peer PROVE SentQuiet
  BY <1>0, <1>2 DEF SentQuiet, RegisterEventHandler, endpoint, settings, sending,
     receiving, connection
<1>55. ASSUME NEW m \in InvalidDataModes, SetOnInvalidData(m), UNCHANGED peer PROVE SentQuiet
  BY <1>0, <1>55 DEF SentQuiet, SetOnInvalidData, endpoint, settings, sending,
     receiving, connection
<1>3. ASSUME StartProcessingMessages, UNCHANGED peer PROVE SentQuiet
  BY <1>0, <1>3, ZenonT(40) DEF SentQuiet, StartProcessingMessages, endpoint, settings, sending,
     receiving, connection
<1>4. ASSUME NEW c \in ReqCalls, SendRequest(c), UNCHANGED peer PROVE SentQuiet
  <2>1. PICK p : spc' = [spc EXCEPT ![c] = p]
    BY ZenonT(40), <1>4 DEF SendRequest, Goto
  <2>2. \A r \in PeerRequests : spc'[r] = spc[r]
    BY <2>1, DistinctAssumption, ZenonT(40) DEF TypeOK, SendingTypes
  <2> QED
    BY <1>0, <1>4, <2>2 DEF SentQuiet, SendRequest, endpoint, settings, receiving,
       connection
<1>5. ASSUME NEW c \in ReqCalls, PutResponseHandler(c), UNCHANGED peer PROVE SentQuiet
  <2>1. PICK p : spc' = [spc EXCEPT ![c] = p]
    BY <1>5 DEF PutResponseHandler, Goto
  <2>2. \A r \in PeerRequests : spc'[r] = spc[r]
    BY <2>1, DistinctAssumption DEF TypeOK, SendingTypes
  <2> QED
    BY <1>0, <1>5, <2>2, ZenonT(40) DEF SentQuiet, PutResponseHandler, endpoint, settings,
       receiving, connection
<1>6. ASSUME NEW c \in ReqCalls, ReturnRequest(c), UNCHANGED peer PROVE SentQuiet
  <2>1. PICK p : spc' = [spc EXCEPT ![c] = p]
    BY ZenonT(40), <1>6 DEF ReturnRequest, Goto
  <2>2. \A r \in PeerRequests : spc'[r] = spc[r]
    BY <2>1, DistinctAssumption DEF TypeOK, SendingTypes
  <2> QED
    BY <1>0, <1>6, <2>2, ZenonT(40) DEF SentQuiet, ReturnRequest, endpoint, settings, receiving,
       connection
<1>7. ASSUME NEW e \in EvtCalls, SendEvent(e), UNCHANGED peer PROVE SentQuiet
  <2>1. PICK p : spc' = [spc EXCEPT ![e] = p]
    BY <1>7 DEF SendEvent, Goto
  <2>2. \A r \in PeerRequests : spc'[r] = spc[r]
    BY <2>1, DistinctAssumption DEF TypeOK, SendingTypes
  <2> QED
    BY <1>0, <1>7, <2>2, ZenonT(40) DEF SentQuiet, SendEvent, endpoint, settings, receiving,
       connection
<1>8. ASSUME NEW e \in EvtCalls, ReturnEvent(e), UNCHANGED peer PROVE SentQuiet
  <2>1. PICK p : spc' = [spc EXCEPT ![e] = p]
    BY ZenonT(40), <1>8 DEF ReturnEvent, Goto
  <2>2. \A r \in PeerRequests : spc'[r] = spc[r]
    BY <2>1, DistinctAssumption DEF TypeOK, SendingTypes
  <2> QED
    BY ZenonT(40), <1>0, <1>8, <2>2 DEF SentQuiet, ReturnEvent, endpoint, settings,
       receiving, connection
<1>9. ASSUME NEW r \in PeerRequests, AnswerDeferred(r), UNCHANGED peer PROVE SentQuiet
  <2>1. PICK p \in {"ready", "deferred"} : spc' = [spc EXCEPT ![r] = p]
    BY <1>9 DEF AnswerDeferred, Goto
  <2>2. isBound
    BY <1>9, DistinctAssumption DEF SentInv, AnswerDeferred
  <2>3. \A q \in PeerRequests : spc'[q] = spc[q] \/ spc'[q] \notin {"sent", "failed"}
    BY <2>1 DEF TypeOK, SendingTypes
  <2> QED
    BY <1>9, <2>2, <2>3, ZenonT(40) DEF SentQuiet, AnswerDeferred, endpoint, settings, receiving,
       connection
<1>10. ASSUME RecvLoop, UNCHANGED peer PROVE SentQuiet
  BY <1>0, <1>10 DEF SentQuiet, RecvLoop, endpoint, settings, sending, receiving,
     connection
<1>11. ASSUME RecvNothing, UNCHANGED peer PROVE SentQuiet
  BY <1>0, <1>11, ZenonT(40) DEF SentQuiet, RecvNothing, endpoint, settings, sending, receiving,
     connection, CloseReader, Closed
<1>12. ASSUME RecvPayload, UNCHANGED peer PROVE SentQuiet
  BY <1>0, <1>12 DEF SentQuiet, RecvPayload, endpoint, settings, sending, receiving,
     connection, CanRead
<1>13. ASSUME RecvDropped, UNCHANGED peer PROVE SentQuiet
  BY <1>0, <1>13 DEF SentQuiet, RecvDropped, endpoint, settings, sending, receiving,
     connection, CanRead
<1>14. ASSUME RecvNoiseSkipped, UNCHANGED peer PROVE SentQuiet
  BY <1>0, <1>14 DEF SentQuiet, RecvNoiseSkipped, endpoint, settings, sending,
     receiving, connection, CanRead
<1>15. ASSUME RecvNoiseCloses, UNCHANGED peer PROVE SentQuiet
  BY <1>0, <1>15, ZenonT(40) DEF SentQuiet, RecvNoiseCloses, endpoint, settings, sending, receiving,
     connection, CanRead, CloseReader, Closed
<1>16. ASSUME RecvResponse, UNCHANGED peer PROVE SentQuiet
  BY <1>0, <1>16 DEF SentQuiet, RecvResponse, endpoint, settings, sending, receiving,
     connection, CanRead
<1>17. ASSUME RecvPut, UNCHANGED peer PROVE SentQuiet
  BY <1>0, <1>17 DEF SentQuiet, RecvPut, endpoint, settings, sending, receiving,
     connection
<1>18. ASSUME DispatchTake, UNCHANGED peer PROVE SentQuiet
  BY <1>0, <1>18, ZenonT(40) DEF SentQuiet, DispatchTake, endpoint, settings, sending, receiving,
     connection
<1>19. ASSUME DispatchExit, UNCHANGED peer PROVE SentQuiet
  BY <1>0, <1>19 DEF SentQuiet, DispatchExit, endpoint, settings, sending, receiving,
     connection
<1>20. ASSUME DispatchEvent, UNCHANGED peer PROVE SentQuiet
  BY <1>0, <1>20 DEF SentQuiet, DispatchEvent, endpoint, settings, sending, receiving,
     connection
<1>21. ASSUME DispatchRequestAnswered, UNCHANGED peer PROVE SentQuiet
  <2>1. PICK p \in {"ready", "deferred"} : spc' = [spc EXCEPT ![dispatchItem] = p]
    BY <1>21 DEF DispatchRequestAnswered, Goto
  <2>2. isBound
    BY ZenonT(40), <1>0, <1>21, DistinctAssumption DEF DispatchRequestAnswered
  <2>3. \A r \in PeerRequests : spc'[r] = spc[r] \/ spc'[r] \notin {"sent", "failed"}
    BY <2>1 DEF TypeOK, SendingTypes
  <2>4. UNCHANGED <<isBound, wire, reader, writer, recvPc, inbox, sentHandlerRan>>
    BY ZenonT(40), <1>21 DEF DispatchRequestAnswered, endpoint, settings, connection
  <2> QED
    BY ZenonT(40), <1>0, <2>2, <2>3, <2>4 DEF SentQuiet
<1>22. ASSUME DispatchRequestDeferred, UNCHANGED peer PROVE SentQuiet
  <2>1. PICK p \in {"ready", "deferred"} : spc' = [spc EXCEPT ![dispatchItem] = p]
    BY <1>22 DEF DispatchRequestDeferred, Goto
  <2>2. isBound
    BY ZenonT(40), <1>0, <1>22, DistinctAssumption DEF DispatchRequestDeferred
  <2>3. \A r \in PeerRequests : spc'[r] = spc[r] \/ spc'[r] \notin {"sent", "failed"}
    BY <2>1 DEF TypeOK, SendingTypes
  <2>4. UNCHANGED <<isBound, wire, reader, writer, recvPc, inbox, sentHandlerRan>>
    BY ZenonT(40), <1>22 DEF DispatchRequestDeferred, endpoint, settings, connection
  <2> QED
    BY ZenonT(40), <1>0, <2>2, <2>3, <2>4 DEF SentQuiet
<1>23. ASSUME Destroy, UNCHANGED peer PROVE SentQuiet
  BY <1>0, <1>23 DEF SentQuiet, Destroy, endpoint, settings, sending, receiving,
     connection
<1>24. ASSUME DestroyReader, UNCHANGED peer PROVE SentQuiet
  BY <1>0, <1>24 DEF SentQuiet, DestroyReader, endpoint, settings, sending, receiving,
     connection, CloseReader, Closed
<1>25. ASSUME DestroyWriter, UNCHANGED peer PROVE SentQuiet
  BY <1>0, <1>25 DEF SentQuiet, DestroyWriter, endpoint, settings, sending, receiving,
     connection, CloseReader, Closed
<1>26. ASSUME JoinRecvThread, UNCHANGED peer PROVE SentQuiet
  BY <1>0, <1>26 DEF SentQuiet, JoinRecvThread, endpoint, settings, sending, receiving,
     connection
<1>27. ASSUME JoinDispatchThread, UNCHANGED peer PROVE SentQuiet
  BY <1>0, <1>27, ZenonT(40) DEF SentQuiet, JoinDispatchThread, endpoint, settings, sending,
     receiving, connection
<1>28. ASSUME NEW r \in PeerRequests, PeerSendsRequest(r) PROVE SentQuiet
  BY <1>0, <1>28, ZenonT(40) DEF SentQuiet, PeerSendsRequest, endpoint, settings, sending,
     receiving, connection, Deliver
<1>29. ASSUME NEW e \in PeerEvents, PeerSendsEvent(e) PROVE SentQuiet
  BY <1>0, <1>29, ZenonT(40) DEF SentQuiet, PeerSendsEvent, endpoint, settings, sending, receiving,
     connection, Deliver
<1>30. ASSUME PeerSendsGarbage PROVE SentQuiet
  BY <1>0, <1>30, ZenonT(40) DEF SentQuiet, PeerSendsGarbage, endpoint, settings, sending,
     receiving, connection, Deliver
<1>31. ASSUME NEW c \in ReqCalls, PeerAnswers(c) PROVE SentQuiet
  BY <1>0, <1>31 DEF SentQuiet, PeerAnswers, endpoint, settings, sending, receiving,
     connection, Deliver
<1>32. ASSUME PeerClosesIn PROVE SentQuiet
  BY <1>0, <1>32 DEF SentQuiet, PeerClosesIn, endpoint, settings, sending, receiving,
     connection
<1>33. ASSUME PeerClosesOut PROVE SentQuiet
  BY <1>0, <1>33, ZenonT(40) DEF SentQuiet, PeerClosesOut, endpoint, settings, sending, receiving,
     connection
<1>50. CASE UNCHANGED allVars
  BY <1>0, <1>50 DEF SentQuiet, allVars, vars, endpoint, settings, sending, receiving,
     connection
<1> QED
  BY ZenonT(40), <1>55, <1>1, <1>2, <1>3, <1>4, <1>5, <1>6, <1>7, <1>8, <1>9, <1>10, <1>11,
     <1>12, <1>13, <1>14, <1>15, <1>16, <1>17, <1>18, <1>19, <1>20, <1>21,
     <1>22, <1>23, <1>24, <1>25, <1>26, <1>27, <1>28, <1>29, <1>30, <1>31,
     <1>32, <1>33, <1>50
  DEF Writes, SystemNext, Next, Setup, RequestCall, EventCall, Answer, Send,
      RecvThread, DispatchThread, Destructor, PeerNext

LEMMA SentKept ==
    ASSUME SentInv, SentQuiet
    PROVE  SentInv'
<1>1. \A r : OnWire(r)' <=> OnWire(r)
  BY DEF SentQuiet, OnWire
<1> QED
  BY <1>1, ZenonT(40) DEF SentInv, SentQuiet, SentHandlerAfterResponse

(* A step of send(string).                                                 *)
LEMMA SentWritten ==
    ASSUME TypeOK, SentInv, NEW a \in Senders, NEW p, spc' = [spc EXCEPT ![a] = p],
           spc[a] # "idle", p = "failed" => writer # "open", p = "sent" => OnWire(a)',
           UNCHANGED <<isBound, sentHandlerRan, reader, writer, recvPc, inbox, dispatchItem>>,
           \A r : OnWire(r) => OnWire(r)'
    PROVE  SentInv'
<1>1. \A b \in Senders : spc'[b] = IF b = a THEN p ELSE spc[b]
  BY DEF TypeOK, SendingTypes
<1>2. \A r \in PeerRequests : spc'[r] # "idle" => isBound
  BY <1>1 DEF SentInv, Senders
<1>3. \A r \in PeerRequests : spc'[r] = "sent" => OnWire(r)'
  BY <1>1 DEF SentInv, Senders
<1>4. \A r \in PeerRequests : spc'[r] = "failed" => writer' # "open"
  BY <1>1 DEF SentInv, Senders
<1>5. SentHandlerAfterResponse'
  BY DEF SentInv, SentHandlerAfterResponse
<1> QED
  BY <1>2, <1>3, <1>4, <1>5 DEF SentInv

LEMMA WireGrows ==
    ASSUME TypeOK, NEW a \in Senders, NEW h \in {"header", "content"},
           wire' = Append(wire, Half(h, a))
    PROVE  (\A r : OnWire(r) => OnWire(r)') /\ (h = "content" => OnWire(a)')
<1>1. seq \in [Senders -> Nat] /\ wire \in Seq(Halves)
  BY DEF TypeOK, SendingTypes, ConnectionTypes
<1>2. Half(h, a) \in Halves /\ Half(h, a).from = a /\ Half(h, a).part = h
  BY <1>1, WrapType DEF Half, Halves
<1>3. /\ Len(wire') = Len(wire) + 1 /\ Len(wire) \in Nat
      /\ wire'[Len(wire) + 1] = Half(h, a)
      /\ \A i \in 1 .. Len(wire) : wire'[i] = wire[i]
  <2> DEFINE x == Half(h, a)
             w == wire
  <2>1. x \in Halves /\ w \in Seq(Halves)
    BY <1>1, <1>2, ZenonT(40)
  <2> HIDE DEF x, w
  <2>2. /\ Len(w) \in Nat /\ Len(Append(w, x)) = Len(w) + 1
        /\ Append(w, x)[Len(w) + 1] = x
        /\ \A i \in 1 .. Len(w) : Append(w, x)[i] = w[i]
    BY <2>1, AppendElements
  <2>3. wire' = Append(w, x)
    BY ZenonT(40) DEF w, x
  <2> QED
    BY <2>2, <2>3, ZenonT(40) DEF w, x
<1> QED
  BY <1>2, <1>3 DEF OnWire

LEMMA SentStep ==
    ASSUME TypeOK, SentInv, [SystemNext]_allVars
    PROVE  SentInv'
<1>1. CASE Connect
  <2>1. /\ isBound' /\ ~isBound /\ reader' = "open"
        /\ UNCHANGED <<spc, sentHandlerRan, wire>>
    BY <1>1 DEF Connect, sending
  <2>2. sentHandlerRan = {} /\ \A r \in PeerRequests : spc[r] = "idle"
    BY <2>1 DEF SentInv
  <2> QED
    BY <2>1, <2>2 DEF SentInv, SentHandlerAfterResponse
<1>2. ASSUME NEW a \in Senders, LockAndCheckOpen(a) PROVE SentInv'
  <2>1. PICK p : spc' = [spc EXCEPT ![a] = p] /\ p # "sent" /\ (p = "failed" => writer # "open")
    BY <1>2 DEF LockAndCheckOpen, Goto
  <2>2. wire' = wire
    BY <1>2 DEF LockAndCheckOpen, connection
  <2>3. \A r : OnWire(r) => OnWire(r)'
    BY <2>2 DEF OnWire
  <2> QED
    BY ZenonT(40), <1>2, <2>1, <2>3, SentWritten DEF LockAndCheckOpen, endpoint, settings,
       receiving, connection
<1>3. ASSUME NEW a \in Senders, WriteHeader(a) PROVE SentInv'
  <2>1. PICK p : spc' = [spc EXCEPT ![a] = p] /\ p # "sent" /\ (p = "failed" => writer # "open")
    BY ZenonT(40), <1>3 DEF WriteHeader, Goto
  <2>2. wire' = wire \/ wire' = Append(wire, Half("header", a))
    BY <1>3 DEF WriteHeader
  <2>3. \A r : OnWire(r) => OnWire(r)'
    BY <2>2, WireGrows DEF OnWire
  <2> QED
    BY ZenonT(40), <1>3, <2>1, <2>3, SentWritten DEF WriteHeader, endpoint, settings,
       receiving
<1>4. ASSUME NEW a \in Senders, WriteContent(a) PROVE SentInv'
  <2>1. \/ /\ wire' = wire /\ writer # "open"
           /\ spc' = [spc EXCEPT ![a] = "failed"]
        \/ /\ wire' = Append(wire, Half("content", a))
           /\ spc' = [spc EXCEPT ![a] = "sent"]
    BY <1>4 DEF WriteContent, Goto
  <2>2. /\ spc[a] # "idle"
        /\ UNCHANGED <<isBound, sentHandlerRan, reader, writer, recvPc, inbox, dispatchItem>>
    BY <1>4 DEF WriteContent, endpoint, settings, receiving
  <2>3. \A r : OnWire(r) => OnWire(r)'
    BY SMTT(20), <2>1, WireGrows DEF OnWire
  <2>4. CASE spc' = [spc EXCEPT ![a] = "failed"] /\ writer # "open"
    BY ZenonT(40), <2>2, <2>3, <2>4, SentWritten
  <2>5. CASE spc' = [spc EXCEPT ![a] = "sent"] /\ wire' = Append(wire, Half("content", a))
    <3>1. OnWire(a)'
      BY <2>5, WireGrows
    <3> QED
      BY ZenonT(40), <2>2, <2>3, <2>5, <3>1, SentWritten
  <2> QED
    BY <2>1, <2>4, <2>5
<1>5. ASSUME NEW r \in PeerRequests, RunSentHandler(r) PROVE SentInv'
  <2>1. /\ UNCHANGED <<isBound, wire, reader, writer, recvPc, inbox>>
        /\ dispatchItem' \in {dispatchItem, None}
        /\ sentHandlerRan' \subseteq sentHandlerRan \cup {r}
        /\ spc' = [spc EXCEPT ![r] = "done"] /\ spc[r] \in {"sent", "failed"}
    BY <1>5 DEF RunSentHandler, Goto, endpoint, settings, connection
  <2>2. \A q \in PeerRequests : spc'[q] = IF q = r THEN "done" ELSE spc[q]
    BY <2>1 DEF TypeOK, SendingTypes, Senders
  <2>3. isBound /\ (OnWire(r) \/ writer # "open")
    BY <2>1 DEF SentInv
  <2>4. \A q : OnWire(q)' <=> OnWire(q)
    BY <2>1 DEF OnWire
  <2>5. SentHandlerAfterResponse'
    BY <2>1, <2>3, <2>4 DEF SentInv, SentHandlerAfterResponse
  <2> QED
    BY <2>1, <2>2, <2>3, <2>4, <2>5 DEF SentInv
<1>6. CASE /\ ~Connect
           /\ \A a \in Senders : ~Writes(a)
           /\ \A r \in PeerRequests : ~RunSentHandler(r)
  BY <1>6, SentQuietSteps, SentKept
<1> QED
  BY <1>1, <1>2, <1>3, <1>4, <1>5, <1>6 DEF Writes
-----------------------------------------------------------------------------
LEMMA IInvInit == Init /\ PeerInit => IInv
<1> SUFFICES ASSUME Init, PeerInit PROVE IInv
  OBVIOUS
<1>1. TypeOK
  BY TypeInit
<1>2. /\ in = <<>> /\ wire = <<>> /\ inbox = <<>>
      /\ Len(in) = 0 /\ Len(wire) = 0 /\ Len(inbox) = 0
  BY DEF Init
<1>3. \A a \in Senders : spc[a] = "idle" /\ seq[a] = 0
  BY DEF Init
<1>4. LockInv
  BY <1>3, DistinctAssumption, ZenonT(40) DEF LockInv, Init, Senders
<1>5. FrameInv
  BY <1>2, <1>3 DEF FrameInv, WriterBound, WireEnd, FramesIntact, Init
<1>6. NumberInv
  BY <1>2, <1>3 DEF NumberInv, Init
<1>7. PipelineInv
  <2>1. 1 .. Len(in) = {} /\ 1 .. Len(inbox) = {}
    BY DEF Init
  <2>2. InConnection /\ InQueue
    BY ZenonT(40), <2>1 DEF InConnection, InQueue
  <2>3. InThreads
    BY ZenonT(40) DEF InThreads, Init
  <2> QED
    BY ZenonT(40), <1>2, <1>3, <2>2, <2>3 DEF PipelineInv, Senders
<1>8. ~\E a : OnWire(a)
  BY <1>2 DEF OnWire
<1>9. ResponseInv
  <2>1. 1 .. Len(in) = {}
    BY <1>2
  <2>2. \A k \in Keys : responseMap[k] = None
    BY ZenonT(40) DEF Init
  <2> QED
    BY ZenonT(40), <1>8, <2>1, <2>2 DEF ResponseInv
<1>10. PromiseInv
  <2>1. \A c \in ReqCalls : promise[c] = None /\ setValues[c] = 0
    BY ZenonT(40) DEF Init
  <2>2. 0 <= 1
    OBVIOUS
  <2> QED
    BY <2>1, <2>2, ZenonT(40) DEF PromiseInv
<1>11. ShutdownInv
  BY DEF ShutdownInv, Init
<1>12. SentInv
  BY <1>2, <1>3 DEF SentInv, SentHandlerAfterResponse, Init, Senders
<1> QED
  BY <1>1, <1>4, <1>5, <1>6, <1>7, <1>9, <1>10, <1>11, <1>12 DEF IInv

LEMMA IInvStep == IInv /\ [SystemNext]_allVars => IInv'
<1> SUFFICES ASSUME IInv, [SystemNext]_allVars PROVE IInv'
  OBVIOUS
<1> USE DEF IInv
<1>1. TypeOK' /\ PipelineInv'
  BY TypeStep, PipelineStep
<1>2. LockInv' /\ FrameInv'
  BY LockStep, FrameStep
<1>3. NumberInv' /\ ResponseInv' /\ PromiseInv'
  BY NumberStep, AnswersStep
<1>4. ShutdownInv' /\ SentInv'
  BY ShutdownStep, SentStep
<1> QED
  BY <1>1, <1>2, <1>3, <1>4

LEMMA IInvHolds == SafeSpec => []IInv
  BY IInvInit, IInvStep, PTL DEF SafeSpec, SystemInit

(* The type invariant of a session and its peer.                           *)
THEOREM SessionTypes == SafeSpec => []TypeOK
<1>1. IInv => TypeOK
  BY DEF IInv
<1> QED
  BY <1>1, IInvHolds, PTL

(* send() (session.cpp:476-483): on the wire every header is followed by   *)
(* its own content, whoever sends and whenever the writer fails.           *)
THEOREM SendKeepsFrames == SafeSpec => []FramesIntact
<1>1. IInv => FramesIntact
  BY DEF IInv, FrameInv
<1> QED
  BY <1>1, IInvHolds, PTL

(* nextSeq++ (session.cpp:108, 129, 354, 373): the first 2^32 messages     *)
(* carry different numbers.                                                *)
THEOREM NumbersAreUnique == SafeSpec => []NumbersUnique
<1>1. ASSUME IInv, NotWrapped, NEW i \in 1 .. Len(wire), NEW j \in 1 .. Len(wire),
             wire[i].seq = wire[j].seq
      PROVE  wire[i].from = wire[j].from
  <2>1. nextSeq \in Nat /\ seq \in [Senders -> Nat] /\ SeqMod \in Nat /\ wire \in Seq(Halves)
    BY SeqModAssumption, <1>1 DEF IInv, TypeOK, SendingTypes, ConnectionTypes
  <2>2. wire[i].from \in Senders /\ wire[j].from \in Senders
    <3>1. wire[i] \in Halves /\ wire[j] \in Halves
      BY <2>1
    <3> QED
      BY <3>1, ZenonT(40) DEF Halves
  <2>3. \A b \in Senders : seq[b] # 0 => seq[b] \in 1 .. SeqMod
    BY <1>1, <2>1 DEF IInv, NumberInv, NotWrapped
  <2>4. /\ seq[wire[i].from] # 0 /\ seq[wire[j].from] # 0
        /\ Wrap(seq[wire[i].from]) = Wrap(seq[wire[j].from])
    BY <1>1 DEF IInv, NumberInv
  <2>5. seq[wire[i].from] = seq[wire[j].from]
    BY <2>2, <2>3, <2>4, WrapInjective, ZenonT(40)
  <2> QED
    BY <1>1, <2>2, <2>4, <2>5, ZenonT(40) DEF IInv, NumberInv
<1>2. IInv => NumbersUnique
  BY <1>1 DEF NumbersUnique
<1> QED
  BY <1>2, IInvHolds, PTL

(* A future holds the answer to its own request (session.cpp:110, 191-202, *)
(* 433-474), in whatever order and however often the peer answers, until   *)
(* 2^32 numbers are used.                                                  *)
THEOREM FutureHoldsItsAnswer == SafeSpec => []ResponseMatched
<1>1. IInv => ResponseMatched
  BY ZenonT(40) DEF IInv, PromiseInv, ResponseMatched
<1> QED
  BY <1>1, IInvHolds, PTL

(* A promise is set at most once (session.cpp:191-202; session.h:430-433), *)
(* although the peer may answer twice, and answer a request that send()    *)
(* gave up.                                                                *)
THEOREM PromiseIsSetOnce == SafeSpec => []PromiseSetOnce
<1>1. IInv => PromiseSetOnce
  BY ZenonT(40) DEF IInv, PromiseInv, PromiseSetOnce
<1> QED
  BY <1>1, IInvHolds, PTL

(* The response-sent handler (session.cpp:363-367, 380-384) runs after the *)
(* response was written or could not be written.                           *)
THEOREM SentHandlerIsLate == SafeSpec => []SentHandlerAfterResponse
<1>1. IInv => SentHandlerAfterResponse
  BY DEF IInv, SentInv
<1> QED
  BY <1>1, IInvHolds, PTL

(* ~Impl (session.cpp:141-151) returns to a session nobody is inside of.   *)
THEOREM NobodyOutlivesTheSession == SafeSpec => []QuietWhenDead
<1>1. ASSUME IInv, dtor = "dead"
      PROVE  /\ recvPc \in {"off", "exited"} /\ dispatchPc \in {"off", "exited"}
             /\ sendMutex = None
             /\ \A a \in Senders : spc[a] \in {"idle", "deferred", "done"}
  <2>1. recvPc \in {"off", "exited"} /\ dispatchPc \in {"off", "exited"}
    BY <1>1 DEF IInv, ShutdownInv
  <2>2. dispatchItem \notin PeerRequests
    BY <1>1, <2>1, DistinctAssumption DEF IInv, PipelineInv, InThreads
  <2>3. \A a \in Senders : spc[a] \in {"idle", "deferred", "done"}
    BY <1>1, <2>2 DEF IInv, ShutdownInv, Senders
  <2>4. sendMutex \in Senders \cup {None}
    BY <1>1 DEF IInv, TypeOK, SendingTypes
  <2>5. sendMutex = None
    BY <1>1, <2>3, <2>4 DEF IInv, LockInv
  <2> QED
    BY <2>1, <2>3, <2>5
<1>2. IInv => QuietWhenDead
  BY <1>1 DEF QuietWhenDead
<1> QED
  BY <1>2, IInvHolds, PTL
-----------------------------------------------------------------------------
(* The first answer finds its handler: the handler is in the map from the  *)
(* time it is put there until an answer is read, and an answer that was    *)
(* read is missing in the connection for good, for the answers to a call   *)
(* are numbered.                                                           *)
To(q, c) == {i \in 1 .. Len(q) : q[i].type = "response" /\ q[i].to = c}

Has(q, c, n) == \E i \in To(q, c) : q[i].nth = n

Numbered(q, c, k) ==
    /\ \A i \in To(q, c) : q[i].nth \in 1 .. k
    /\ \A i, j \in To(q, c) : q[i].nth = q[j].nth => i = j

Waits(c) ==
    /\ Numbered(in, c, answers[c])
    /\ spc[c] \in Registered => responseMap[Wrap(seq[c])] = c
    /\ OnWire(c) => \/ responseMap[Wrap(seq[c])] = c
                    \/ \E n \in 1 .. answers[c] : ~Has(in, c, n)

WaitInv == NotWrapped => \A c \in ReqCalls : Waits(c)

(* What taking from a queue and adding to it do to the answers in it.      *)
LEMMA AnswersAfterTail ==
    ASSUME NEW q \in Seq(Messages), q # <<>>, NEW c, NEW k, Numbered(q, c, k)
    PROVE  /\ Numbered(Tail(q), c, k)
           /\ \A n : Has(Tail(q), c, n) => Has(q, c, n)
           /\ Head(q).type = "response" /\ Head(q).to = c
                => Head(q).nth \in 1 .. k /\ ~Has(Tail(q), c, Head(q).nth)
<1> DEFINE t == Tail(q)
<1>1. /\ Len(q) \in Nat /\ Len(q) >= 1 /\ Len(t) = Len(q) - 1 /\ Head(q) = q[1]
      /\ \A i \in 1 .. Len(t) : i + 1 \in 1 .. Len(q) /\ t[i] = q[i + 1]
  BY TailElements
<1> HIDE DEF t
<1>2. \A i \in To(t, c) : i + 1 \in To(q, c) /\ t[i] = q[i + 1]
  BY ZenonT(40), <1>1 DEF To
<1>3. \A i, j \in To(t, c) : (i + 1 = j + 1 => i = j) /\ i + 1 # 1
  BY <1>1 DEF To
<1>4. Numbered(t, c, k)
  <2>1. ASSUME NEW i \in To(t, c), NEW j \in To(t, c), t[i].nth = t[j].nth PROVE i = j
    <3>1. i + 1 = j + 1
      BY ZenonT(40), <1>2, <2>1 DEF Numbered
    <3> QED
      BY ZenonT(40), <1>3, <3>1
  <2>2. \A i \in To(t, c) : t[i].nth \in 1 .. k
    BY ZenonT(40), <1>2 DEF Numbered
  <2> QED
    BY ZenonT(40), <2>1, <2>2 DEF Numbered
<1>5. \A n : Has(t, c, n) => Has(q, c, n)
  BY ZenonT(40), <1>2 DEF Has
<1>6. ASSUME Head(q).type = "response", Head(q).to = c
      PROVE  Head(q).nth \in 1 .. k /\ ~Has(t, c, Head(q).nth)
  <2>1. 1 \in 1 .. Len(q)
    BY <1>1
  <2>2. 1 \in To(q, c)
    BY ZenonT(40), <1>1, <1>6, <2>1 DEF To
  <2> QED
    BY ZenonT(40), <1>1, <1>2, <1>3, <2>2 DEF Numbered, Has
<1> QED
  BY ZenonT(40), <1>4, <1>5, <1>6 DEF t

LEMMA AnswersAfterAppend ==
    ASSUME NEW q \in Seq(Messages), NEW m \in Messages, NEW c, NEW k \in Nat,
           Numbered(q, c, k)
    PROVE  /\ ~(m.type = "response" /\ m.to = c) =>
                /\ Numbered(Append(q, m), c, k)
                /\ \A n : Has(Append(q, m), c, n) => Has(q, c, n)
           /\ m.type = "response" /\ m.to = c /\ m.nth = k + 1 =>
                /\ Numbered(Append(q, m), c, k + 1)
                /\ \A n \in 1 .. k : Has(Append(q, m), c, n) => Has(q, c, n)
<1> DEFINE l == Append(q, m)
           z == Len(q) + 1
<1>1. /\ Len(q) \in Nat /\ Len(l) = z /\ l[z] = m
      /\ \A i \in 1 .. Len(q) : l[i] = q[i]
  BY AppendElements
<1>2. \A i \in 1 .. Len(l) : i \in 1 .. Len(q) \/ i = z
  BY <1>1
<1> HIDE DEF l, z
<1>3. \A i \in To(l, c) : \/ i \in To(q, c) /\ l[i] = q[i]
                          \/ i = z /\ l[i] = m /\ m.type = "response" /\ m.to = c
  BY ZenonT(40), <1>1, <1>2 DEF To
<1>4. ASSUME ~(m.type = "response" /\ m.to = c)
      PROVE  Numbered(l, c, k) /\ \A n : Has(l, c, n) => Has(q, c, n)
  BY ZenonT(40), <1>3, <1>4 DEF Numbered, Has
<1>5. ASSUME m.type = "response", m.to = c, m.nth = k + 1
      PROVE  Numbered(l, c, k + 1) /\ \A n \in 1 .. k : Has(l, c, n) => Has(q, c, n)
  <2>1. k + 1 \notin 1 .. k /\ k + 1 \in 1 .. (k + 1) /\ 1 .. k \subseteq 1 .. (k + 1)
    OBVIOUS
  <2>2. \A i \in To(q, c) : q[i].nth \in 1 .. k /\ q[i].nth # k + 1
    BY ZenonT(40), <2>1 DEF Numbered
  <2>3. \A i \in To(l, c) : l[i].nth \in 1 .. (k + 1)
    BY ZenonT(40), <1>3, <1>5, <2>1, <2>2
  <2>4. ASSUME NEW i \in To(l, c), NEW j \in To(l, c), l[i].nth = l[j].nth PROVE i = j
    <3>1. CASE i \in To(q, c) /\ l[i] = q[i]
      BY ZenonT(40), <1>3, <1>5, <2>2, <2>4, <3>1 DEF Numbered
    <3>2. CASE i = z /\ l[i] = m
      BY ZenonT(40), <1>3, <1>5, <2>2, <2>4, <3>2
    <3> QED
      BY ZenonT(40), <1>3, <3>1, <3>2
  <2>5. \A n \in 1 .. k : Has(l, c, n) => Has(q, c, n)
    BY ZenonT(40), <1>3, <1>5, <2>1 DEF Has
  <2> QED
    BY ZenonT(40), <2>3, <2>4, <2>5 DEF Numbered
<1> QED
  BY ZenonT(40), <1>4, <1>5 DEF l

(* A call waits on when no answer to it is added and its entry stays.      *)
LEMMA WaitsKept ==
    ASSUME NEW c \in ReqCalls, Waits(c), answers' = answers,
           Numbered(in', c, answers[c]), \A n : Has(in', c, n) => Has(in, c, n),
           OnWire(c)' => OnWire(c) \/ spc[c] \in Registered,
           spc'[c] \in Registered => spc[c] \in Registered,
           OnWire(c) \/ spc[c] \in Registered => seq'[c] = seq[c],
           OnWire(c) \/ spc[c] \in Registered =>
              (responseMap[Wrap(seq[c])] = c => responseMap'[Wrap(seq[c])] = c)
    PROVE  Waits(c)'
<1>1. Numbered(in, c, answers[c])'
  BY ZenonT(40) DEF Numbered, To
<1>2. \A n : Has(in, c, n)' => Has(in, c, n)
  BY ZenonT(40) DEF Has, To
<1> QED
  BY ZenonT(40), <1>1, <1>2 DEF Waits, Wrap

(* A call that has put its handler, or is on the wire, has a number.       *)
LEMMA NumberOfCall ==
    ASSUME TypeOK, NumberInv, NEW c \in ReqCalls, OnWire(c) \/ spc[c] \in Registered
    PROVE  c \in Senders /\ seq[c] # 0 /\ Wrap(seq[c]) \in Keys
<1>1. c \in Senders /\ seq \in [Senders -> Nat]
  BY ZenonT(40) DEF Senders, TypeOK, SendingTypes
<1>2. seq[c] # 0
  BY <1>1, OnWireNumbered, ZenonT(40) DEF NumberInv, Registered
<1>3. seq[c] \in Nat
  BY <1>1
<1> QED
  BY ZenonT(40), <1>1, <1>2, <1>3, WrapType

LEMMA WaitQuiet ==
    ASSUME TypeOK, NumberInv, WaitInv, AnswersQuiet
    PROVE  WaitInv'
<1> SUFFICES ASSUME NotWrapped', NEW c \in ReqCalls
             PROVE  Waits(c)'
  BY ZenonT(40) DEF WaitInv
<1>1. NotWrapped /\ Waits(c)
  BY NotWrappedBefore, ZenonT(40) DEF AnswersQuiet, WaitInv
<1>2. OnWire(c)' => OnWire(c)
  BY ZenonT(40) DEF AnswersQuiet, OnWire
<1>3. OnWire(c) \/ spc[c] \in Registered => seq'[c] = seq[c]
  BY ZenonT(40), NumberOfCall DEF AnswersQuiet
<1>4. in \in Seq(Messages) /\ answers[c] \in Nat /\ Numbered(in, c, answers[c])
  BY ZenonT(40), <1>1 DEF TypeOK, ConnectionTypes, PeerTypes, Waits
<1>5. Numbered(in', c, answers[c]) /\ \A n : Has(in', c, n) => Has(in, c, n)
  <2>1. CASE in' = in
    BY ZenonT(40), <1>4, <2>1
  <2>2. CASE in # <<>> /\ in' = Tail(in)
    BY ZenonT(40), <1>4, <2>2, AnswersAfterTail
  <2>3. ASSUME NEW m \in Messages, m.type # "response", in' = Append(in, m)
        PROVE  Numbered(in', c, answers[c]) /\ \A n : Has(in', c, n) => Has(in, c, n)
    BY ZenonT(40), <1>4, <2>3, AnswersAfterAppend
  <2> QED
    BY ZenonT(40), <2>1, <2>2, <2>3 DEF AnswersQuiet
<1> QED
  BY ZenonT(40), <1>1, <1>2, <1>3, <1>5, WaitsKept DEF AnswersQuiet

(* Steps of send() behind the put: nothing is read and nothing answered.   *)
LEMMA WaitSending ==
    ASSUME WaitInv, NEW a \in Senders,
           spc[a] \notin Registered => spc'[a] \notin Registered,
           \A b \in Senders : b # a => spc'[b] = spc[b],
           \A b : OnWire(b)' => OnWire(b) \/ (b = a /\ spc[a] \in Registered),
           UNCHANGED <<in, nextSeq, seq, responseMap, answers>>
    PROVE  WaitInv'
<1> SUFFICES ASSUME NotWrapped', NEW c \in ReqCalls
             PROVE  Waits(c)'
  BY ZenonT(40) DEF WaitInv
<1>1. Waits(c) /\ c \in Senders
  BY ZenonT(40) DEF NotWrapped, WaitInv, Senders
<1>2. Numbered(in', c, answers[c]) /\ \A n : Has(in', c, n) => Has(in, c, n)
  BY ZenonT(40), <1>1 DEF Waits
<1>3. /\ OnWire(c)' => OnWire(c) \/ spc[c] \in Registered
      /\ spc'[c] \in Registered => spc[c] \in Registered
  BY ZenonT(40), <1>1
<1>4. answers' = answers /\ seq'[c] = seq[c] /\ responseMap' = responseMap
  BY ZenonT(40)
<1> QED
  BY ZenonT(40), <1>1, <1>2, <1>3, <1>4, WaitsKept

LEMMA WaitWritten ==
    ASSUME TypeOK, WaitInv, NEW a \in Senders, UNCHANGED peer,
           WriteHeader(a) \/ WriteContent(a)
    PROVE  WaitInv'
<1>1. PICK h \in {"header", "content"}, p \in SendStates :
         /\ spc[a] = h /\ spc' = [spc EXCEPT ![a] = p]
         /\ wire' = wire \/ wire' = Append(wire, Half(h, a))
  BY ZenonT(40) DEF WriteHeader, WriteContent, Goto, SendStates
<1>2. UNCHANGED <<in, nextSeq, seq, responseMap, answers>>
  BY DEF WriteHeader, WriteContent, peer
<1>3. spc[a] \in Registered
  BY <1>1 DEF Registered
<1>4. \A b \in Senders : b # a => spc'[b] = spc[b]
  BY <1>1 DEF TypeOK, SendingTypes
<1>5. \A b : OnWire(b)' => OnWire(b) \/ (b = a /\ spc[a] \in Registered)
  <2>1. CASE wire' = wire
    BY ZenonT(40), <2>1 DEF OnWire
  <2>2. CASE wire' = Append(wire, Half(h, a))
    <3>1. wire \in Seq(Halves) /\ seq \in [Senders -> Nat]
      BY ZenonT(40) DEF TypeOK, ConnectionTypes, SendingTypes
    <3> DEFINE x == Half(h, a)
    <3>2. x \in Halves /\ x.from = a
      BY <3>1, WrapType DEF Half, Halves
    <3>3. wire' = Append(wire, x)
      BY ZenonT(40), <2>2
    <3> HIDE DEF x
    <3>4. /\ Len(wire') = Len(wire) + 1 /\ wire'[Len(wire) + 1] = x
          /\ \A i \in 1 .. Len(wire) : wire'[i] = wire[i]
      BY ZenonT(40), <3>1, <3>2, <3>3, WireAppended
    <3>5. Len(wire) \in Nat
      BY <3>1
    <3>6. \A i \in 1 .. Len(wire') : i \in 1 .. Len(wire) \/ i = Len(wire) + 1
      BY <3>4, <3>5
    <3> QED
      BY ZenonT(40), <1>3, <3>2, <3>4, <3>6 DEF OnWire
  <2> QED
    BY ZenonT(40), <1>1, <2>1, <2>2
<1> QED
  BY ZenonT(40), <1>2, <1>3, <1>4, <1>5, WaitSending

LEMMA WaitReturned ==
    ASSUME TypeOK, WaitInv, NEW c \in ReqCalls, UNCHANGED peer, ReturnRequest(c)
    PROVE  WaitInv'
<1>1. /\ UNCHANGED <<in, wire, nextSeq, seq, responseMap, answers>> /\ c \in Senders
      /\ spc' = [spc EXCEPT ![c] = "done"]
  BY ZenonT(40) DEF ReturnRequest, Goto, connection, peer, Senders
<1>2. /\ spc'[c] \notin Registered
      /\ \A b \in Senders : b # c => spc'[b] = spc[b]
  BY <1>1 DEF TypeOK, SendingTypes, Registered
<1>3. \A b : OnWire(b)' => OnWire(b)
  BY ZenonT(40), <1>1 DEF OnWire
<1> QED
  BY ZenonT(40), <1>1, <1>2, <1>3, WaitSending

(* The handler is put into the map before its request is sent.  The entry  *)
(* of another call stays, and no other call has this one's key.            *)
LEMMA WaitRegistered ==
    ASSUME TypeOK, NumberInv, ResponseInv, WaitInv, UNCHANGED peer,
           NEW c \in ReqCalls, PutResponseHandler(c)
    PROVE  WaitInv'
<1>1. /\ spc \in [Senders -> SendStates] /\ seq \in [Senders -> Nat] /\ c \in Senders
      /\ responseMap \in [Keys -> ReqCalls \cup {None}]
  BY DEF TypeOK, SendingTypes, Senders
<1>2. PICK p \in {"ready", "failed"} : spc' = [spc EXCEPT ![c] = p]
  BY ZenonT(40) DEF PutResponseHandler, Goto
<1>3. UNCHANGED <<in, wire, nextSeq, seq, answers>> /\ spc[c] = "numbered"
  BY ZenonT(40) DEF PutResponseHandler, connection, peer
<1>4. \A b : OnWire(b)' <=> OnWire(b)
  BY ZenonT(40), <1>3 DEF OnWire
<1>5. ~OnWire(c) /\ seq[c] # 0 /\ seq[c] \in Nat
  BY <1>1, <1>3, ZenonT(40) DEF ResponseInv, NumberInv
<1>6. Wrap(seq[c]) \in Keys
  BY ZenonT(40), <1>5, WrapType
<1>7. \A k \in Keys : responseMap[k] # None => responseMap'[k] = responseMap[k]
  BY <1>1 DEF PutResponseHandler
<1> SUFFICES ASSUME NotWrapped', NEW b \in ReqCalls
             PROVE  Waits(b)'
  BY ZenonT(40) DEF WaitInv
<1>8. NotWrapped /\ Waits(b)
  BY ZenonT(40), <1>3 DEF NotWrapped, WaitInv
<1>9. Numbered(in', b, answers'[b]) /\ \A n : Has(in', b, n) => Has(in, b, n)
  BY ZenonT(40), <1>3, <1>8 DEF Waits
<1>10. CASE b = c
  <2>1. responseMap'[Wrap(seq[c])] = c
    <3>1. CASE responseMap[Wrap(seq[c])] = None
      BY <1>1, <1>6, <3>1 DEF PutResponseHandler
    <3>2. CASE responseMap[Wrap(seq[c])] # None
      <4> DEFINE d == responseMap[Wrap(seq[c])]
      <4>1. d \in Senders /\ seq[d] # 0 /\ Wrap(seq[c]) = Wrap(seq[d])
        BY ZenonT(40), <1>1, <1>6, <3>2 DEF ResponseInv, Senders
      <4>2. d = c
        BY ZenonT(40), <1>1, <1>5, <1>8, <4>1, KeysDiffer
      <4> QED
        BY ZenonT(40), <1>6, <1>7, <3>2, <4>2
    <3> QED
      BY ZenonT(40), <3>1, <3>2
  <2>2. Numbered(in, b, answers[b])'
    BY ZenonT(40), <1>9 DEF Numbered, To
  <2> QED
    BY ZenonT(40), <1>3, <1>4, <1>5, <1>10, <2>1, <2>2 DEF Waits, Wrap
<1>11. CASE b # c
  <2>1. spc'[b] = spc[b]
    BY <1>1, <1>2, <1>11 DEF Senders
  <2>2. OnWire(b) \/ spc[b] \in Registered =>
           (responseMap[Wrap(seq[b])] = b => responseMap'[Wrap(seq[b])] = b)
    BY ZenonT(40), <1>7, NumberOfCall, DistinctAssumption
  <2> QED
    BY ZenonT(40), <1>3, <1>4, <1>8, <1>9, <2>1, <2>2, WaitsKept
<1> QED
  BY ZenonT(40), <1>10, <1>11

(* The receiving thread takes an answer and erases the entry it finds: the *)
(* entry is that of the call the answer is for.                            *)
LEMMA WaitReceived ==
    ASSUME TypeOK, NumberInv, ResponseInv, WaitInv, UNCHANGED peer, RecvResponse
    PROVE  WaitInv'
<1> DEFINE m == Head(in)
<1>1. /\ in \in Seq(Messages) /\ in # <<>> /\ m.type = "response"
      /\ responseMap \in [Keys -> ReqCalls \cup {None}]
  BY ZenonT(40) DEF RecvResponse, CanRead, TypeOK, ConnectionTypes
<1>2. /\ UNCHANGED <<wire, nextSeq, seq, spc, answers>> /\ in' = Tail(in)
      /\ responseMap' = [responseMap EXCEPT ![m.requestSeq] = None]
  BY ZenonT(40) DEF RecvResponse, peer
<1>3. m \in Messages /\ m = in[1] /\ 1 \in 1 .. Len(in)
  BY <1>1, TailElements, TailType
<1>4. m.requestSeq \in Keys /\ m.to \in ReqCalls
  BY ZenonT(40), <1>1, <1>3, MessageKinds
<1>5. \A k \in Keys : responseMap'[k] = IF k = m.requestSeq THEN None ELSE responseMap[k]
  BY ZenonT(40), <1>1, <1>2
<1>6. \A b : OnWire(b)' <=> OnWire(b)
  BY ZenonT(40), <1>2 DEF OnWire
<1> SUFFICES ASSUME NotWrapped', NEW c \in ReqCalls
             PROVE  Waits(c)'
  BY ZenonT(40) DEF WaitInv
<1>7. NotWrapped /\ Waits(c)
  BY ZenonT(40), <1>2 DEF NotWrapped, WaitInv
<1>8. /\ Numbered(in', c, answers[c])
      /\ \A n : Has(in', c, n) => Has(in, c, n)
      /\ m.to = c => m.nth \in 1 .. answers[c] /\ ~Has(in', c, m.nth)
  BY ZenonT(40), <1>1, <1>2, <1>7, AnswersAfterTail DEF Waits
<1>9. CASE m.to = c
  <2>1. OnWire(c) /\ c \in Senders
    BY ZenonT(40), <1>1, <1>3, <1>9 DEF ResponseInv, Senders
  <2>2. spc'[c] \notin Registered
    BY <1>2, <2>1, ZenonT(40) DEF ResponseInv, Registered
  <2>3. Numbered(in, c, answers[c])'
    BY ZenonT(40), <1>2, <1>8 DEF Numbered, To
  <2>4. \E n \in 1 .. answers'[c] : ~Has(in, c, n)'
    BY ZenonT(40), <1>2, <1>8, <1>9 DEF Has, To
  <2> QED
    BY ZenonT(40), <2>2, <2>3, <2>4 DEF Waits
<1>10. CASE m.to # c
  <2>1. ASSUME OnWire(c) \/ spc[c] \in Registered, responseMap[Wrap(seq[c])] = c
        PROVE  responseMap'[Wrap(seq[c])] = c
    <3>1. Wrap(seq[c]) \in Keys
      BY ZenonT(40), <2>1, NumberOfCall
    <3>2. ASSUME in[1].requestSeq = Wrap(seq[c]) PROVE FALSE
      <4>1. in[1].type = "response" /\ in[1].to # c
        BY ZenonT(40), <1>1, <1>3, <1>10
      <4> QED
        BY ZenonT(40), <1>3, <1>7, <2>1, <3>1, <3>2, <4>1, ResponseFindsItsCall
    <3> QED
      BY ZenonT(40), <1>3, <1>5, <2>1, <3>1, <3>2
  <2> QED
    BY ZenonT(40), <1>2, <1>6, <1>7, <1>8, <2>1, WaitsKept
<1> QED
  BY ZenonT(40), <1>9, <1>10

(* The peer answers: one answer more, and it is in the connection.         *)
LEMMA WaitAnswered ==
    ASSUME TypeOK, WaitInv, NEW b \in ReqCalls, PeerAnswers(b)
    PROVE  WaitInv'
<1>1. PICK f \in Forms : Deliver(Response(Wrap(seq[b]), b, answers[b] + 1, f))
  BY ZenonT(40) DEF PeerAnswers
<1> DEFINE m == Response(Wrap(seq[b]), b, answers[b] + 1, f)
<1>2. /\ UNCHANGED <<wire, nextSeq, seq, spc, responseMap>>
      /\ in' = Append(in, m) /\ answers' = [answers EXCEPT ![b] = @ + 1]
  BY ZenonT(40), <1>1 DEF PeerAnswers, Deliver, sending
<1>3. in \in Seq(Messages) /\ m \in Messages /\ answers \in [ReqCalls -> Nat]
  BY ZenonT(40), ResponseType DEF TypeOK, ConnectionTypes, PeerTypes, PeerAnswers
<1>4. m.type = "response" /\ m.to = b /\ m.nth = answers[b] + 1
  BY ZenonT(40) DEF Response
<1> HIDE DEF m
<1> SUFFICES ASSUME NotWrapped', NEW c \in ReqCalls
             PROVE  Waits(c)'
  BY ZenonT(40) DEF WaitInv
<1>5. Waits(c) /\ answers[c] \in Nat
  BY ZenonT(40), <1>2, <1>3 DEF NotWrapped, WaitInv
<1>6. OnWire(c)' <=> OnWire(c)
  BY ZenonT(40), <1>2 DEF OnWire
<1>7. CASE c # b
  <2>1. Numbered(in', c, answers[c]) /\ \A n : Has(in', c, n) => Has(in, c, n)
    BY ZenonT(40), <1>2, <1>3, <1>4, <1>5, <1>7, AnswersAfterAppend DEF Waits
  <2>2. answers'[c] = answers[c]
    BY ZenonT(40), <1>2, <1>3, <1>7
  <2>3. Numbered(in, c, answers[c])' /\ \A n : Has(in, c, n)' => Has(in, c, n)
    BY ZenonT(40), <2>1, <2>2 DEF Numbered, Has, To
  <2> QED
    BY ZenonT(40), <1>2, <1>5, <1>6, <2>2, <2>3 DEF Waits, Wrap
<1>8. CASE c = b
  <2>1. /\ Numbered(in', c, answers[c] + 1)
        /\ \A n \in 1 .. answers[c] : Has(in', c, n) => Has(in, c, n)
    BY ZenonT(40), <1>2, <1>3, <1>4, <1>5, <1>8, AnswersAfterAppend DEF Waits
  <2>2. answers'[c] = answers[c] + 1
    BY ZenonT(40), <1>2, <1>3, <1>8
  <2>3. 1 .. answers[c] \subseteq 1 .. (answers[c] + 1)
    BY <1>5
  <2>4. Numbered(in, c, answers[c])' /\ \A n \in 1 .. answers[c] : Has(in, c, n)' => Has(in, c, n)
    BY ZenonT(40), <2>1, <2>2 DEF Numbered, Has, To
  <2> QED
    BY ZenonT(40), <1>2, <1>5, <1>6, <2>2, <2>3, <2>4 DEF Waits, Wrap
<1> QED
  BY ZenonT(40), <1>7, <1>8

LEMMA WaitStep ==
    ASSUME TypeOK, PipelineInv, NumberInv, ResponseInv, WaitInv, [SystemNext]_allVars
    PROVE  WaitInv'
<1>1. CASE /\ \A c \in ReqCalls :
                ~(PutResponseHandler(c) \/ ReturnRequest(c) \/ PeerAnswers(c))
           /\ \A a \in Senders : ~(WriteHeader(a) \/ WriteContent(a))
           /\ ~RecvResponse
  BY ZenonT(40), <1>1, AnswersQuietSteps, WaitQuiet
<1>2. CASE UNCHANGED peer
  BY ZenonT(40), <1>1, <1>2, WaitRegistered, WaitReturned, WaitWritten, WaitReceived, WaitAnswered
<1>3. CASE PeerNext
  <2>1. UNCHANGED <<spc, recvPc>>
    BY <1>3, ZenonT(40) DEF PeerNext, PeerSendsRequest, PeerSendsEvent, PeerSendsGarbage, PeerAnswers,
                PeerClosesIn, PeerClosesOut, Deliver, sending, receiving
  <2>2. spc \in [Senders -> SendStates] /\ ReqCalls \subseteq Senders
    BY DEF TypeOK, SendingTypes, Senders
  <2>3. /\ \A c \in ReqCalls : ~(PutResponseHandler(c) \/ ReturnRequest(c))
        /\ \A a \in Senders : ~(WriteHeader(a) \/ WriteContent(a))
    BY <2>1, <2>2, ZenonT(40) DEF PutResponseHandler, ReturnRequest, WriteHeader, WriteContent, Goto
  <2>4. ~RecvResponse
    BY <2>1, ZenonT(40) DEF RecvResponse, CanRead
  <2> QED
    BY ZenonT(40), <1>1, <2>3, <2>4, WaitAnswered
<1>4. CASE UNCHANGED allVars
  BY ZenonT(40), <1>2, <1>4 DEF allVars
<1> QED
  BY ZenonT(40), <1>2, <1>3, <1>4 DEF SystemNext

(* The response to a request finds its handler waiting: send() puts the    *)
(* handler into responseMap (session.cpp:110) before it writes the request *)
(* (line 123), and only an answer to that request takes it out again       *)
(* (lines 191-202), whatever other calls and answers come between.         *)
THEOREM HandlerIsWaiting == SafeSpec => []HandlerWaits
<1>1. Init /\ PeerInit => WaitInv
  <2> SUFFICES ASSUME Init, PeerInit, NEW c \in ReqCalls
               PROVE  Waits(c)
    BY ZenonT(40) DEF WaitInv
  <2>1. /\ in = <<>> /\ wire = <<>> /\ c \in Senders
        /\ \A i : i \notin 1 .. Len(in) /\ i \notin 1 .. Len(wire)
    BY DEF Init, Senders
  <2>2. ~OnWire(c)
    BY ZenonT(40), <2>1 DEF OnWire
  <2>3. Numbered(in, c, answers[c])
    BY ZenonT(40), <2>1 DEF Numbered, To
  <2>4. spc[c] \notin Registered
    BY <2>1 DEF Init, Registered
  <2> QED
    BY ZenonT(40), <2>2, <2>3, <2>4 DEF Waits
<1>2. IInv /\ WaitInv /\ [SystemNext]_allVars => WaitInv'
  BY ZenonT(40), WaitStep DEF IInv
<1>3. WaitInv => HandlerWaits
  BY ZenonT(40) DEF WaitInv, Waits, HandlerWaits, Unread, InFlight, Has, To
<1> QED
  BY <1>1, <1>2, <1>3, IInvHolds, PTL DEF SafeSpec, SystemInit
=============================================================================
