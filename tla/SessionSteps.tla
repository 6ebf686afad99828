---------------------------- MODULE SessionSteps -----------------------------
(* Every step keeps the parts of the invariant that are about the way of a *)
(* request to its handler, sequence numbers (session.cpp:108) and ~Impl.   *)
EXTENDS SessionInvariant

(* Zenon proves most steps; the others name the SMT solver.                *)
USE ZenonT(40)

(* A step that takes nothing out of the pipeline and puts nothing in but   *)
(* what is no payload, or drops what has been read.                        *)
LEMMA PipelineKept ==
    ASSUME TypeOK, PipelineInv,
           UNCHANGED <<inbox, recvItem, dispatchItem, peerSent>>,
           isProcessingMessages' = isProcessingMessages,
           recvPc = "off" => recvPc' = "off",
           dispatchPc' = dispatchPc
              \/ {dispatchPc, dispatchPc'} \cap {"off", "run", "answering"} = {},
           \A r \in PeerRequests : spc[r] = "idle" => spc'[r] = "idle",
           \/ in' = in
           \/ in # <<>> /\ in' = Tail(in)
           \/ \E m \in Messages : ~IsPayload(m) /\ in' = Append(in, m)
    PROVE  PipelineInv'
<1>1. in \in Seq(Messages)
  BY DEF TypeOK, ConnectionTypes
<1>2. PICK d \in {0, 1} : \A i \in 1 .. Len(in') :
          IsPayload(in'[i]) => i + d \in 1 .. Len(in) /\ in'[i] = in[i + d]
  <2>1. CASE in' = in
    <3>1. \A i \in 1 .. Len(in') : i + 0 \in 1 .. Len(in) /\ in'[i] = in[i + 0]
      BY SMTT(60), <1>1, <2>1
    <3> QED
      BY <3>1
  <2>2. CASE in # <<>> /\ in' = Tail(in)
    <3>1. \A i \in 1 .. Len(in') : i + 1 \in 1 .. Len(in) /\ in'[i] = in[i + 1]
      BY <1>1, <2>2, TailElements
    <3> QED
      BY <3>1
  <2>3. ASSUME NEW m \in Messages, ~IsPayload(m), in' = Append(in, m)
        PROVE  \A i \in 1 .. Len(in') :
                  IsPayload(in'[i]) => i + 0 \in 1 .. Len(in) /\ in'[i] = in[i + 0]
    BY SMTT(60), <1>1, <2>3, AppendElements
  <2> QED
    BY <2>1, <2>2, <2>3
<1>3. ASSUME NEW p, Fresh(p) PROVE Fresh(p)'
  BY <1>3 DEF Fresh
<1>4. InConnection'
  <2> SUFFICES ASSUME NEW i \in 1 .. Len(in'), IsPayload(in'[i])
               PROVE  /\ Fresh(in[i].id)'
                      /\ in'[i].id \notin {recvItem, dispatchItem}
                      /\ \A j \in 1 .. Len(inbox) : in'[i].id # inbox[j]
                      /\ \A j \in 1 .. Len(in') :
                            IsPayload(in'[j]) /\ in'[i].id = in'[j].id => i = j
    BY DEF InConnection, IsPayload
  <2>1. i + d \in 1 .. Len(in) /\ in'[i] = in[i + d]
    BY <1>2
  <2>2. /\ Fresh(in[i + d].id)
        /\ in[i + d].id \notin {recvItem, dispatchItem}
        /\ \A j \in 1 .. Len(inbox) : in[i + d].id # inbox[j]
        /\ \A j \in 1 .. Len(in) : IsPayload(in[j]) /\ in[i + d].id = in[j].id => i + d = j
    BY <2>1 DEF PipelineInv, InConnection
  <2>3. ASSUME NEW j \in 1 .. Len(in'), IsPayload(in'[j]), in'[i].id = in'[j].id
        PROVE  i = j
    <3>1. j + d \in 1 .. Len(in) /\ in'[j] = in[j + d]
      BY <1>2, <2>3
    <3>2. i + d = j + d
      BY <2>1, <2>2, <2>3, <3>1
    <3> QED
      BY SMTT(60), <3>2
  <2>4. Fresh(in[i].id)'
    BY <1>3, <2>1, <2>2 DEF Fresh
  <2> QED
    BY <2>1, <2>2, <2>3, <2>4
<1>5. InQueue'
  BY <1>3 DEF PipelineInv, InQueue
<1>6. InThreads'
  BY <1>3 DEF PipelineInv, InThreads
<1> QED
  BY <1>4, <1>5, <1>6 DEF PipelineInv

(* The payloads on their way are real ones.                                *)
LEMMA PipelineTypes ==
    ASSUME TypeOK
    PROVE  /\ in \in Seq(Messages) /\ inbox \in Seq(Payloads)
           /\ None \notin Payloads
           /\ \A i \in 1 .. Len(in) : IsPayload(in[i]) => in[i].id \in Payloads
           /\ \A i \in 1 .. Len(inbox) : inbox[i] \in Payloads
<1>1. in \in Seq(Messages) /\ inbox \in Seq(Payloads)
  BY DEF TypeOK, ConnectionTypes, ReceivingTypes
<1>2. ASSUME NEW i \in 1 .. Len(in), IsPayload(in[i]) PROVE in[i].id \in Payloads
  <2>1. in[i] \in Messages
    BY SMTT(60), <1>1
  <2> QED
    BY <1>2, <2>1, MessageKinds DEF IsPayload
<1>3. None \notin Payloads
  BY DistinctAssumption DEF Payloads
<1>4. \A i \in 1 .. Len(inbox) : inbox[i] \in Payloads
  BY SMTT(60), <1>1
<1> QED
  BY <1>1, <1>2, <1>3, <1>4

(* The peer sends a payload that it has not sent before.                   *)
LEMMA PayloadArrives ==
    ASSUME TypeOK, PipelineInv, NEW p \in Payloads, NEW m \in Messages, m.id = p,
           p \notin peerSent, peerSent' = peerSent \cup {p}, in' = Append(in, m),
           UNCHANGED <<inbox, recvItem, recvPc, dispatchItem, dispatchPc, spc, isProcessingMessages>>
    PROVE  PipelineInv'
<1>1. /\ Len(in') = Len(in) + 1 /\ Len(in) \in Nat /\ in'[Len(in) + 1] = m
      /\ \A i \in 1 .. Len(in) : in'[i] = in[i]
  <2>1. in \in Seq(Messages)
    BY PipelineTypes
  <2> QED
    BY SMTT(60), <2>1, AppendElements
<1>2. ASSUME NEW q, Fresh(q) PROVE Fresh(q)' /\ q # p
  BY <1>2 DEF Fresh
<1>3. Fresh(p)'
  BY DEF Fresh, PipelineInv
<1>4. InConnection'
  <2>1. ASSUME NEW i \in 1 .. Len(in'), IsPayload(in'[i]), i # Len(in) + 1
        PROVE  i \in 1 .. Len(in) /\ in'[i] = in[i] /\ in'[i].id # p
    BY SMTT(60), <1>1, <1>2, <2>1 DEF PipelineInv, InConnection
  <2>2. p \notin {recvItem, dispatchItem} /\ \A j \in 1 .. Len(inbox) : p # inbox[j]
    BY <1>2, PipelineTypes DEF PipelineInv, InThreads, InQueue
  <2>3. ASSUME NEW i \in 1 .. Len(in), IsPayload(in[i]) PROVE Fresh(in[i].id)'
    BY <1>1, <2>3 DEF PipelineInv, InConnection, Fresh
  <2> QED
    BY SMTT(60), <1>1, <1>3, <2>1, <2>2, <2>3 DEF PipelineInv, InConnection
<1>5. InQueue'
  BY <1>2 DEF PipelineInv, InQueue
<1>6. InThreads'
  BY <1>2 DEF PipelineInv, InThreads
<1> QED
  BY <1>4, <1>5, <1>6 DEF PipelineInv

(* A request or event of the peer moves from the connection through the    *)
(* receive thread and the inbox to the dispatch thread, and never twice.   *)
LEMMA PipelineStep ==
    ASSUME TypeOK, PipelineInv, [SystemNext]_allVars PROVE PipelineInv'
<1> USE DEF Senders
<1>1. ASSUME StartProcessingMessages, UNCHANGED peer PROVE PipelineInv'
  <2>1. /\ UNCHANGED <<in, inbox, recvItem, dispatchItem, peerSent, spc>>
        /\ dispatchPc = "off" /\ dispatchPc' = "take" /\ isProcessingMessages'
    BY <1>1 DEF StartProcessingMessages, sending, connection, peer, PipelineInv,
       InThreads
  <2>2. \A p : Fresh(p) <=> Fresh(p)'
    BY <2>1 DEF Fresh
  <2> QED
    BY <2>1, <2>2 DEF PipelineInv, InConnection, InQueue, InThreads
<1>2. ASSUME RecvPayload, UNCHANGED peer PROVE PipelineInv'
  <2>1. /\ in # <<>> /\ IsPayload(Head(in)) /\ recvPc' # "off" /\ recvPc # "off"
        /\ in' = Tail(in) /\ recvItem' = Head(in).id
        /\ UNCHANGED <<inbox, dispatchItem, dispatchPc, peerSent, spc, isProcessingMessages>>
    BY <1>2 DEF RecvPayload, CanRead, Accepted, IsPayload, sending, endpoint, settings,
       peer
  <2>2. /\ \A i \in 1 .. Len(in') : i + 1 \in 1 .. Len(in) /\ in'[i] = in[i + 1]
        /\ 1 \in 1 .. Len(in) /\ Head(in) = in[1]
    BY SMTT(60), <2>1, PipelineTypes, TailElements
  <2>3. \A q : Fresh(q) <=> Fresh(q)'
    BY <2>1 DEF Fresh
  <2>4. InConnection'
    BY SMTT(60), <2>1, <2>2, <2>3 DEF PipelineInv, InConnection
  <2>5. InQueue'
    BY SMTT(60), <2>1, <2>2, <2>3 DEF PipelineInv, InConnection, InQueue
  <2>6. InThreads'
    BY <2>1, <2>2, <2>3 DEF PipelineInv, InConnection, InThreads
  <2> QED
    BY <2>1, <2>4, <2>5, <2>6 DEF PipelineInv
<1>3. ASSUME RecvPut, UNCHANGED peer PROVE PipelineInv'
  <2>1. /\ recvItem # None /\ recvPc' # "off" /\ recvPc # "off"
        /\ inbox' = Append(inbox, recvItem) /\ recvItem' = None
        /\ UNCHANGED <<in, dispatchItem, dispatchPc, peerSent, spc, isProcessingMessages>>
    BY <1>3 DEF RecvPut, sending, endpoint, settings, connection, peer, TypeOK,
       ReceivingTypes
  <2>2. recvItem \in Payloads
    BY <2>1 DEF TypeOK, ReceivingTypes
  <2>3. /\ Len(inbox') = Len(inbox) + 1 /\ Len(inbox) \in Nat
        /\ inbox'[Len(inbox) + 1] = recvItem
        /\ \A i \in 1 .. Len(inbox) : inbox'[i] = inbox[i]
    BY SMTT(60), <2>1, <2>2, PipelineTypes, AppendElements
  <2>4. \A q : Fresh(q) <=> Fresh(q)'
    BY <2>1 DEF Fresh
  <2>5. InConnection'
    <3>1. \A j \in 1 .. Len(inbox') : j \in 1 .. Len(inbox) \/ j = Len(inbox) + 1
      BY SMTT(60), <2>3
    <3>2. ASSUME NEW i \in 1 .. Len(in), IsPayload(in[i])
          PROVE  /\ in[i].id \notin {recvItem, None, dispatchItem}
                 /\ \A j \in 1 .. Len(inbox) : in[i].id # inbox[j]
      BY <3>2, PipelineTypes DEF PipelineInv, InConnection
    <3>3. ASSUME NEW i \in 1 .. Len(in), IsPayload(in[i]), NEW j \in 1 .. Len(inbox')
          PROVE  in[i].id # inbox'[j]
      BY <2>3, <3>1, <3>2, <3>3
    <3> QED
      BY <2>1, <2>4, <3>2, <3>3 DEF PipelineInv, InConnection
  <2>6. InQueue'
    BY SMTT(60), <2>1, <2>2, <2>3, <2>4, PipelineTypes DEF PipelineInv, InQueue, InThreads
  <2>7. InThreads'
    BY <2>1, <2>4 DEF PipelineInv, InThreads
  <2> QED
    BY <2>1, <2>5, <2>6, <2>7 DEF PipelineInv
<1>4. ASSUME DispatchTake, UNCHANGED peer PROVE PipelineInv'
  <2>1. /\ inbox # <<>> /\ dispatchPc = "take" /\ dispatchPc' = "run"
        /\ inbox' = Tail(inbox) /\ dispatchItem' = Head(inbox)
        /\ UNCHANGED <<in, recvItem, recvPc, peerSent, spc, isProcessingMessages>>
    BY <1>4 DEF DispatchTake, sending, endpoint, settings, connection, peer
  <2>2. /\ \A i \in 1 .. Len(inbox') : i + 1 \in 1 .. Len(inbox) /\ inbox'[i] = inbox[i + 1]
        /\ 1 \in 1 .. Len(inbox) /\ Head(inbox) = inbox[1]
    BY SMTT(60), <2>1, PipelineTypes, TailElements
  <2>3. \A q : Fresh(q) <=> Fresh(q)'
    BY <2>1 DEF Fresh
  <2>4. InConnection'
    BY SMTT(60), <2>1, <2>2, <2>3 DEF PipelineInv, InConnection
  <2>5. InQueue'
    BY SMTT(60), <2>1, <2>2, <2>3 DEF PipelineInv, InQueue
  <2>6. InThreads'
    <3>1. Head(inbox) # None /\ Fresh(Head(inbox)) /\ Head(inbox) # recvItem
      BY SMTT(60), <2>2, PipelineTypes DEF PipelineInv, InQueue
    <3> QED
      BY <2>1, <2>3, <3>1 DEF PipelineInv, InThreads, Fresh
  <2> QED
    BY <2>1, <2>4, <2>5, <2>6 DEF PipelineInv
<1>5. ASSUME DispatchEvent, UNCHANGED peer PROVE PipelineInv'
  <2>1. /\ dispatchPc = "run" /\ dispatchPc' = "take" /\ dispatchItem' = None
        /\ UNCHANGED <<in, inbox, recvItem, recvPc, peerSent, spc, isProcessingMessages>>
    BY <1>5 DEF DispatchEvent, sending, endpoint, settings, connection, peer
  <2>2. \A q : Fresh(q) <=> Fresh(q)'
    BY <2>1 DEF Fresh
  <2>3. InConnection'
    BY <2>1, <2>2, PipelineTypes DEF PipelineInv, InConnection
  <2>4. InQueue'
    BY <2>1, <2>2, PipelineTypes DEF PipelineInv, InQueue
  <2>5. InThreads'
    BY <2>1, <2>2 DEF PipelineInv, InThreads
  <2> QED
    BY <2>1, <2>3, <2>4, <2>5 DEF PipelineInv
<1>6. ASSUME DispatchRequestAnswered, UNCHANGED peer PROVE PipelineInv'
  <2>1. /\ dispatchPc = "run" /\ dispatchItem \in PeerRequests
        /\ dispatchPc' = "answering" /\ dispatchItem' = dispatchItem
        /\ UNCHANGED <<in, inbox, recvItem, recvPc, peerSent, isProcessingMessages>>
    BY <1>6 DEF DispatchRequestAnswered, endpoint, settings, connection, peer
  <2>2. \A q \in PeerRequests : q # dispatchItem => spc'[q] = spc[q]
    BY SMTT(60), <1>6 DEF DispatchRequestAnswered, Goto
  <2>3. ASSUME NEW q, q # dispatchItem, Fresh(q) PROVE Fresh(q)'
    BY <2>1, <2>2, <2>3 DEF Fresh
  <2>4. InConnection'
    BY <2>1, <2>3, PipelineTypes DEF PipelineInv, InConnection
  <2>5. InQueue'
    BY <2>1, <2>3, PipelineTypes DEF PipelineInv, InQueue
  <2>6. InThreads'
    BY <2>1, <2>3, PipelineTypes DEF PipelineInv, InThreads, Payloads
  <2>7. \A q \in PeerRequests : q \notin peerSent' => spc'[q] = "idle"
    BY <2>1, <2>2 DEF PipelineInv, InThreads, Fresh
  <2> QED
    BY <2>4, <2>5, <2>6, <2>7 DEF PipelineInv
<1>7. ASSUME DispatchRequestDeferred, UNCHANGED peer PROVE PipelineInv'
  <2>1. /\ dispatchPc = "run" /\ dispatchItem \in PeerRequests
        /\ dispatchPc' = "take" /\ dispatchItem' = None
        /\ UNCHANGED <<in, inbox, recvItem, recvPc, peerSent, isProcessingMessages>>
    BY <1>7 DEF DispatchRequestDeferred, endpoint, settings, connection, peer
  <2>2. \A q \in PeerRequests : q # dispatchItem => spc'[q] = spc[q]
    BY SMTT(60), <1>7 DEF DispatchRequestDeferred, Goto
  <2>3. ASSUME NEW q, q # dispatchItem, Fresh(q) PROVE Fresh(q)'
    BY <2>1, <2>2, <2>3 DEF Fresh
  <2>4. InConnection'
    BY <2>1, <2>3, PipelineTypes DEF PipelineInv, InConnection
  <2>5. InQueue'
    BY <2>1, <2>3, PipelineTypes DEF PipelineInv, InQueue
  <2>6. InThreads'
    BY <2>1, <2>3, PipelineTypes DEF PipelineInv, InThreads, Payloads
  <2>7. \A q \in PeerRequests : q \notin peerSent' => spc'[q] = "idle"
    BY <2>1, <2>2 DEF PipelineInv, InThreads, Fresh
  <2> QED
    BY <2>4, <2>5, <2>6, <2>7 DEF PipelineInv
<1>8. ASSUME NEW r \in PeerRequests, RunSentHandler(r), UNCHANGED peer PROVE PipelineInv'
  <2>1. /\ spc[r] \in {"sent", "failed"}
        /\ IF dispatchItem = r THEN dispatchPc' = "take" /\ dispatchItem' = None
                               ELSE dispatchPc' = dispatchPc /\ dispatchItem' = dispatchItem
        /\ UNCHANGED <<in, inbox, recvItem, recvPc, peerSent, isProcessingMessages>>
    BY <1>8 DEF RunSentHandler, endpoint, settings, connection, peer
  <2>2. \A q \in PeerRequests : q # r => spc'[q] = spc[q]
    BY SMTT(60), <1>8 DEF RunSentHandler, Goto
  <2>3. ASSUME NEW q, Fresh(q) PROVE Fresh(q)'
    BY <2>1, <2>2, <2>3 DEF Fresh
  <2>4. InConnection'
    BY SMTT(60), <2>1, <2>3, PipelineTypes DEF PipelineInv, InConnection
  <2>5. InQueue'
    BY <2>1, <2>3, PipelineTypes DEF PipelineInv, InQueue
  <2>6. InThreads'
    BY <2>1, <2>3, PipelineTypes DEF PipelineInv, InThreads, Payloads
  <2>7. \A q \in PeerRequests : q \notin peerSent' => spc'[q] = "idle"
    BY <2>1, <2>2 DEF PipelineInv
  <2> QED
    BY <2>4, <2>5, <2>6, <2>7 DEF PipelineInv
<1>9. ASSUME NEW r \in PeerRequests, PeerSendsRequest(r) PROVE PipelineInv'
  <2>1. PICK n \in Commands, b \in Bodies : Deliver(PeerMessage("request", r, n, b))
    BY <1>9 DEF PeerSendsRequest
  <2> DEFINE m == PeerMessage("request", r, n, b)
  <2>2. m \in Messages /\ m.id = r /\ r \in Payloads
    BY SMTT(60), PeerAssumption DEF Messages, PeerMessages, PeerMessage, Payloads, Names
  <2>3. /\ r \notin peerSent /\ peerSent' = peerSent \cup {r} /\ in' = Append(in, m)
        /\ UNCHANGED <<inbox, recvItem, recvPc, dispatchItem, dispatchPc, spc, isProcessingMessages>>
    BY <1>9, <2>1 DEF PeerSendsRequest, Deliver, sending, receiving, endpoint, settings
  <2> QED
    BY <2>2, <2>3, PayloadArrives
<1>10. ASSUME NEW e \in PeerEvents, PeerSendsEvent(e) PROVE PipelineInv'
  <2>1. PICK n \in EventNames, b \in Bodies : Deliver(PeerMessage("event", e, n, b))
    BY <1>10 DEF PeerSendsEvent
  <2> DEFINE m == PeerMessage("event", e, n, b)
  <2>2. m \in Messages /\ m.id = e /\ e \in Payloads
    BY SMTT(60), PeerAssumption DEF Messages, PeerMessages, PeerMessage, Payloads, Names
  <2>3. /\ e \notin peerSent /\ peerSent' = peerSent \cup {e} /\ in' = Append(in, m)
        /\ UNCHANGED <<inbox, recvItem, recvPc, dispatchItem, dispatchPc, spc, isProcessingMessages>>
    BY <1>10, <2>1 DEF PeerSendsEvent, Deliver, sending, receiving, endpoint, settings
  <2> QED
    BY <2>2, <2>3, PayloadArrives
<1>11. ASSUME PeerSendsGarbage PROVE PipelineInv'
  <2>1. PICK m \in {Garbage, Noise} : Deliver(m)
    BY <1>11 DEF PeerSendsGarbage
  <2>2. m \in Messages /\ ~IsPayload(m)
    BY SMTT(60) DEF Messages, IsPayload, Garbage, Noise
  <2> QED
    BY <1>11, <2>1, <2>2, PipelineKept
    DEF PeerSendsGarbage, Deliver, sending, receiving, endpoint, settings
<1>12. ASSUME NEW c \in ReqCalls, PeerAnswers(c) PROVE PipelineInv'
  <2> DEFINE m(f) == Response(Wrap(seq[c]), c, answers[c] + 1, f)
  <2>1. PICK f \in Forms : Deliver(m(f))
    BY <1>12 DEF PeerAnswers
  <2>2. m(f) \in Messages
    BY <1>12, ResponseType DEF PeerAnswers
  <2>3. ~IsPayload(m(f))
    BY DEF IsPayload, Response
  <2> QED
    BY <1>12, <2>1, <2>2, <2>3, PipelineKept
    DEF PeerAnswers, Deliver, sending, receiving, endpoint, settings
<1>13. ASSUME NEW n \in Commands, RegisterRequestHandler(n), UNCHANGED peer PROVE PipelineInv'
  BY <1>13, PipelineKept DEF RegisterRequestHandler, sending, receiving, connection,
     endpoint, settings, peer
<1>14. ASSUME NEW n \in EventNames, RegisterEventHandler(n), UNCHANGED peer PROVE PipelineInv'
  BY <1>14, PipelineKept DEF RegisterEventHandler, sending, receiving, connection,
     endpoint, settings, peer
<1>55. ASSUME NEW m \in InvalidDataModes, SetOnInvalidData(m), UNCHANGED peer PROVE PipelineInv'
  BY <1>55, PipelineKept DEF SetOnInvalidData, sending, receiving, connection, endpoint,
     settings, peer
<1>15. ASSUME Connect, UNCHANGED peer PROVE PipelineInv'
  BY <1>15, PipelineKept DEF Connect, sending, receiving, connection, endpoint,
     settings, peer
<1>16. ASSUME NEW c \in ReqCalls, SendRequest(c), UNCHANGED peer PROVE PipelineInv'
  BY SMTT(60), <1>16, PipelineKept, DistinctAssumption DEF SendRequest, Goto, receiving,
     connection, endpoint, settings, peer
<1>17. ASSUME NEW c \in ReqCalls, PutResponseHandler(c), UNCHANGED peer PROVE PipelineInv'
  <2>1. \A r \in PeerRequests : spc[r] = "idle" => spc'[r] = "idle"
    <3>1. spc[c] # "idle" /\ \E q : spc' = [spc EXCEPT ![c] = q]
      BY <1>17 DEF PutResponseHandler, Goto
    <3> QED
      BY SMTT(60), <3>1
  <2> QED
    BY <1>17, <2>1, PipelineKept DEF PutResponseHandler, receiving, connection,
       endpoint, settings, peer
<1>18. ASSUME NEW c \in ReqCalls, ReturnRequest(c), UNCHANGED peer PROVE PipelineInv'
  BY SMTT(60), <1>18, PipelineKept DEF ReturnRequest, Goto, receiving, connection, endpoint,
     settings, peer
<1>19. ASSUME NEW e \in EvtCalls, SendEvent(e), UNCHANGED peer PROVE PipelineInv'
  <2>1. \A r \in PeerRequests : spc[r] = "idle" => spc'[r] = "idle"
    <3>1. \E q : spc' = [spc EXCEPT ![e] = q]
      BY <1>19 DEF SendEvent, Goto
    <3> QED
      BY SMTT(60), <3>1, DistinctAssumption
  <2> QED
    BY <1>19, <2>1, PipelineKept DEF SendEvent, receiving, connection, endpoint,
       settings, peer
<1>20. ASSUME NEW e \in EvtCalls, ReturnEvent(e), UNCHANGED peer PROVE PipelineInv'
  BY SMTT(60), <1>20, PipelineKept DEF ReturnEvent, Goto, receiving, connection, endpoint,
     settings, peer
<1>21. ASSUME NEW a \in Senders, LockAndCheckOpen(a), UNCHANGED peer PROVE PipelineInv'
  <2>1. \A r \in PeerRequests : spc[r] = "idle" => spc'[r] = "idle"
    <3>1. spc[a] # "idle" /\ \E q : spc' = [spc EXCEPT ![a] = q]
      BY <1>21 DEF LockAndCheckOpen, Goto
    <3> QED
      BY SMTT(60), <3>1
  <2> QED
    BY <1>21, <2>1, PipelineKept DEF LockAndCheckOpen, receiving, connection, endpoint,
       settings, peer
<1>22. ASSUME NEW a \in Senders, WriteHeader(a), UNCHANGED peer PROVE PipelineInv'
  <2>1. \A r \in PeerRequests : spc[r] = "idle" => spc'[r] = "idle"
    <3>1. spc[a] # "idle" /\ \E q : spc' = [spc EXCEPT ![a] = q]
      BY <1>22 DEF WriteHeader, Goto
    <3> QED
      BY SMTT(60), <3>1
  <2> QED
    BY <1>22, <2>1, PipelineKept DEF WriteHeader, receiving, endpoint, settings,
       peer
<1>23. ASSUME NEW a \in Senders, WriteContent(a), UNCHANGED peer PROVE PipelineInv'
  <2>1. \A r \in PeerRequests : spc[r] = "idle" => spc'[r] = "idle"
    <3>1. spc[a] # "idle" /\ \E q : spc' = [spc EXCEPT ![a] = q]
      BY <1>23 DEF WriteContent, Goto
    <3> QED
      BY SMTT(60), <3>1
  <2> QED
    BY <1>23, <2>1, PipelineKept DEF WriteContent, receiving, endpoint, settings,
       peer
<1>24. ASSUME NEW r \in PeerRequests, AnswerDeferred(r), UNCHANGED peer PROVE PipelineInv'
  BY SMTT(60), <1>24, PipelineKept DEF AnswerDeferred, Goto, receiving, connection, endpoint,
     settings, peer
<1>25. ASSUME RecvLoop, UNCHANGED peer PROVE PipelineInv'
  BY <1>25, PipelineKept DEF RecvLoop, sending, receiving, connection, endpoint,
     settings, peer
<1>26. ASSUME RecvNothing, UNCHANGED peer PROVE PipelineInv'
  BY <1>26, PipelineKept DEF RecvNothing, sending, receiving, connection, endpoint,
     settings, peer
<1>27. ASSUME RecvDropped, UNCHANGED peer PROVE PipelineInv'
  BY <1>27, PipelineKept DEF RecvDropped, sending, CanRead, receiving, connection,
     endpoint, settings, peer
<1>28. ASSUME RecvNoiseSkipped, UNCHANGED peer PROVE PipelineInv'
  BY <1>28, PipelineKept DEF RecvNoiseSkipped, sending, CanRead, receiving, connection,
     endpoint, settings, peer
<1>29. ASSUME RecvNoiseCloses, UNCHANGED peer PROVE PipelineInv'
  BY <1>29, PipelineKept DEF RecvNoiseCloses, sending, CanRead, receiving, connection,
     endpoint, settings, peer
<1>30. ASSUME RecvResponse, UNCHANGED peer PROVE PipelineInv'
  BY <1>30, PipelineKept DEF RecvResponse, CanRead, receiving, connection, endpoint,
     settings, peer
<1>31. ASSUME DispatchExit, UNCHANGED peer PROVE PipelineInv'
  BY <1>31, PipelineKept DEF DispatchExit, sending, receiving, connection, endpoint,
     settings, peer
<1>32. ASSUME Destroy, UNCHANGED peer PROVE PipelineInv'
  BY <1>32, PipelineKept DEF Destroy, sending, receiving, connection, endpoint,
     settings, peer
<1>33. ASSUME DestroyReader, UNCHANGED peer PROVE PipelineInv'
  BY <1>33, PipelineKept DEF DestroyReader, sending, receiving, connection, endpoint,
     settings, peer
<1>34. ASSUME DestroyWriter, UNCHANGED peer PROVE PipelineInv'
  BY <1>34, PipelineKept DEF DestroyWriter, sending, receiving, connection, endpoint,
     settings, peer
<1>35. ASSUME JoinRecvThread, UNCHANGED peer PROVE PipelineInv'
  BY <1>35, PipelineKept DEF JoinRecvThread, sending, receiving, connection, endpoint,
     settings, peer
<1>36. ASSUME JoinDispatchThread, UNCHANGED peer PROVE PipelineInv'
  BY <1>36, PipelineKept DEF JoinDispatchThread, sending, receiving, connection,
     endpoint, settings, peer
<1>37. ASSUME PeerClosesIn PROVE PipelineInv'
  BY <1>37, PipelineKept DEF PeerClosesIn, sending, receiving, connection, endpoint,
     settings, peer
<1>38. ASSUME PeerClosesOut PROVE PipelineInv'
  BY <1>38, PipelineKept DEF PeerClosesOut, sending, receiving, connection, endpoint,
     settings, peer
<1>50. CASE UNCHANGED allVars
  BY <1>50, PipelineKept DEF allVars, vars, endpoint, settings, sending, receiving,
     connection, peer
<1> QED
  BY <1>55, <1>1, <1>2, <1>3, <1>4, <1>5, <1>6, <1>7, <1>8, <1>9, <1>10, <1>11,
     <1>12, <1>13, <1>14, <1>15, <1>16, <1>17, <1>18, <1>19, <1>20, <1>21,
     <1>22, <1>23, <1>24, <1>25, <1>26, <1>27, <1>28, <1>29, <1>30, <1>31,
     <1>32, <1>33, <1>34, <1>35, <1>36, <1>37, <1>38, <1>50
  DEF SystemNext, Next, Setup, RequestCall, EventCall, Answer, Send,
      RecvThread, DispatchThread, Destructor, PeerNext
-----------------------------------------------------------------------------
(* Numbers: a step takes a new one, writes one, or does neither.           *)
LEMMA NumberKept ==
    ASSUME NumberInv, UNCHANGED <<nextSeq, seq, wire>>,
           \A b \in Senders :
              spc'[b] \in {"idle", "deferred"} <=> spc[b] \in {"idle", "deferred"}
    PROVE  NumberInv'
  BY DEF NumberInv

LEMMA NumberTaken ==
    ASSUME TypeOK, NumberInv, NEW a \in Senders, spc[a] \in {"idle", "deferred"},
           TakeNumber(a), NEW p \in {"numbered", "ready", "failed"},
           spc' = [spc EXCEPT ![a] = p], wire' = wire
    PROVE  NumberInv'
<1>1. /\ nextSeq \in Nat /\ seq \in [Senders -> Nat] /\ spc \in [Senders -> SendStates]
      /\ wire \in Seq(Halves)
  BY DEF TypeOK, SendingTypes, ConnectionTypes
<1>2. nextSeq' = nextSeq + 1 /\ \A b \in Senders : seq'[b] = IF b = a THEN nextSeq ELSE seq[b]
  BY <1>1 DEF TakeNumber
<1>3. \A b \in Senders : spc'[b] = IF b = a THEN p ELSE spc[b]
  BY <1>1
<1>4. ASSUME NEW i \in 1 .. Len(wire) PROVE wire[i].from \in Senders \ {a}
  <2>1. wire[i] \in Halves
    BY SMTT(60), <1>1
  <2> QED
    BY <2>1 DEF Halves, NumberInv
<1>5. \A i \in 1 .. Len(wire) :
         seq'[wire[i].from] # 0 /\ wire[i].seq = Wrap(seq'[wire[i].from])
  BY <1>2, <1>4 DEF NumberInv
<1>6. /\ nextSeq' >= 1
      /\ \A b \in Senders : seq'[b] < nextSeq'
      /\ \A b \in Senders : seq'[b] = 0 <=> spc'[b] \in {"idle", "deferred"}
  BY SMTT(60), <1>1, <1>2, <1>3 DEF NumberInv
<1>7. ASSUME NEW b \in Senders, NEW c \in Senders, seq'[b] = seq'[c], seq'[b] # 0
      PROVE  b = c
  <2>1. seq[b] < nextSeq /\ seq[c] < nextSeq
    BY DEF NumberInv
  <2>2. CASE b = a \/ c = a
    BY SMTT(60), <1>1, <1>2, <1>7, <2>1, <2>2
  <2>3. CASE b # a /\ c # a
    BY SMTT(60), <1>2, <1>7, <2>3 DEF NumberInv
  <2> QED
    BY <2>2, <2>3
<1> QED
  BY <1>5, <1>6, <1>7 DEF NumberInv, Wrap

LEMMA NumberWritten ==
    ASSUME TypeOK, NumberInv, NEW a \in Senders, NEW h \in {"header", "content"},
           spc[a] = h, NEW p \in {"content", "sent", "failed"},
           spc' = [spc EXCEPT ![a] = p], nextSeq' = nextSeq, seq' = seq,
           wire' = wire \/ wire' = Append(wire, Half(h, a))
    PROVE  NumberInv'
<1>1. \A b \in Senders : spc'[b] \in {"idle", "deferred"} <=> spc[b] \in {"idle", "deferred"}
  BY DEF TypeOK, SendingTypes
<1>2. CASE wire' = wire
  BY <1>1, <1>2, NumberKept
<1>3. CASE wire' = Append(wire, Half(h, a))
  <2>1. Half(h, a) \in Halves /\ Half(h, a).from = a /\ Half(h, a).seq = Wrap(seq[a])
    BY WrapType DEF Half, Halves, TypeOK, SendingTypes
  <2>2. /\ Len(wire') = Len(wire) + 1 /\ Len(wire) \in Nat
        /\ wire'[Len(wire) + 1] = Half(h, a)
        /\ \A i \in 1 .. Len(wire) : wire'[i] = wire[i]
    <3>1. wire \in Seq(Halves)
      BY DEF TypeOK, ConnectionTypes
    <3> QED
      BY SMTT(60), <1>3, <2>1, <3>1, AppendElements
  <2>3. seq[a] # 0
    BY DEF NumberInv
  <2>4. \A i \in 1 .. Len(wire') :
           seq[wire'[i].from] # 0 /\ wire'[i].seq = Wrap(seq[wire'[i].from])
    BY SMTT(60), <2>1, <2>2, <2>3 DEF NumberInv
  <2> QED
    BY <1>1, <2>4 DEF NumberInv, Wrap
<1> QED
  BY <1>2, <1>3

LEMMA NumberStep ==
    ASSUME TypeOK, PipelineInv, NumberInv, [SystemNext]_allVars
    PROVE  NumberInv'
<1> USE DEF Senders
<1>1. ASSUME NEW n \in Commands, RegisterRequestHandler(n), UNCHANGED peer PROVE NumberInv'
  BY <1>1, NumberKept DEF RegisterRequestHandler, connection, sending
<1>2. ASSUME NEW n \in EventNames, RegisterEventHandler(n), UNCHANGED peer PROVE NumberInv'
  BY <1>2, NumberKept DEF RegisterEventHandler, connection, sending
<1>55. ASSUME NEW m \in InvalidDataModes, SetOnInvalidData(m), UNCHANGED peer PROVE NumberInv'
  BY <1>55, NumberKept DEF SetOnInvalidData, connection, sending
<1>3. ASSUME Connect, UNCHANGED peer PROVE NumberInv'
  BY <1>3, NumberKept DEF Connect, connection, sending
<1>4. ASSUME StartProcessingMessages, UNCHANGED peer PROVE NumberInv'
  BY <1>4, NumberKept DEF StartProcessingMessages, connection, sending
<1>5. ASSUME NEW c \in ReqCalls, SendRequest(c), UNCHANGED peer PROVE NumberInv'
  <2>1. PICK p \in {"numbered", "ready", "failed"} : spc' = [spc EXCEPT ![c] = p]
    BY <1>5 DEF SendRequest, Goto
  <2>2. c \in Senders /\ spc[c] \in {"idle", "deferred"} /\ TakeNumber(c) /\ wire' = wire
    BY <1>5 DEF SendRequest, connection
  <2> QED
    BY <2>1, <2>2, NumberTaken
<1>6. ASSUME NEW c \in ReqCalls, PutResponseHandler(c), UNCHANGED peer PROVE NumberInv'
  <2>1. PICK p \in {"ready", "header", "failed", "deferred", "done"} :
            spc' = [spc EXCEPT ![c] = p] /\ {spc[c], p} \cap {"idle", "deferred"} = {}
    BY <1>6 DEF PutResponseHandler, Goto
  <2>2. \A b \in Senders : spc'[b] \in {"idle", "deferred"} <=> spc[b] \in {"idle", "deferred"}
    BY <2>1 DEF TypeOK, SendingTypes
  <2> QED
    BY <1>6, <2>2, NumberKept DEF PutResponseHandler, connection
<1>7. ASSUME NEW c \in ReqCalls, ReturnRequest(c), UNCHANGED peer PROVE NumberInv'
  <2>1. PICK p \in {"ready", "header", "failed", "deferred", "done"} :
            spc' = [spc EXCEPT ![c] = p] /\ {spc[c], p} \cap {"idle", "deferred"} = {}
    BY <1>7 DEF ReturnRequest, Goto
  <2>2. \A b \in Senders : spc'[b] \in {"idle", "deferred"} <=> spc[b] \in {"idle", "deferred"}
    BY <2>1 DEF TypeOK, SendingTypes
  <2> QED
    BY <1>7, <2>2, NumberKept DEF ReturnRequest, connection
<1>8. ASSUME NEW e \in EvtCalls, SendEvent(e), UNCHANGED peer PROVE NumberInv'
  <2>1. PICK p \in {"numbered", "ready", "failed"} : spc' = [spc EXCEPT ![e] = p]
    BY <1>8 DEF SendEvent, Goto
  <2>2. e \in Senders /\ spc[e] \in {"idle", "deferred"} /\ TakeNumber(e) /\ wire' = wire
    BY <1>8 DEF SendEvent, connection
  <2> QED
    BY <2>1, <2>2, NumberTaken
<1>9. ASSUME NEW e \in EvtCalls, ReturnEvent(e), UNCHANGED peer PROVE NumberInv'
  <2>1. PICK p \in {"ready", "header", "failed", "deferred", "done"} :
            spc' = [spc EXCEPT ![e] = p] /\ {spc[e], p} \cap {"idle", "deferred"} = {}
    BY <1>9 DEF ReturnEvent, Goto
  <2>2. \A b \in Senders : spc'[b] \in {"idle", "deferred"} <=> spc[b] \in {"idle", "deferred"}
    BY <2>1 DEF TypeOK, SendingTypes
  <2> QED
    BY <1>9, <2>2, NumberKept DEF ReturnEvent, connection
<1>10. ASSUME NEW a \in Senders, LockAndCheckOpen(a), UNCHANGED peer PROVE NumberInv'
  <2>1. PICK p \in {"ready", "header", "failed", "deferred", "done"} :
            spc' = [spc EXCEPT ![a] = p] /\ {spc[a], p} \cap {"idle", "deferred"} = {}
    BY <1>10 DEF LockAndCheckOpen, Goto
  <2>2. \A b \in Senders : spc'[b] \in {"idle", "deferred"} <=> spc[b] \in {"idle", "deferred"}
    BY <2>1 DEF TypeOK, SendingTypes
  <2> QED
    BY <1>10, <2>2, NumberKept DEF LockAndCheckOpen, connection
<1>11. ASSUME NEW a \in Senders, WriteHeader(a), UNCHANGED peer PROVE NumberInv'
  <2>1. PICK p \in {"content", "sent", "failed"} : spc' = [spc EXCEPT ![a] = p]
    BY <1>11 DEF WriteHeader, Goto
  <2>2. /\ spc[a] = "header" /\ nextSeq' = nextSeq /\ seq' = seq
        /\ wire' = wire \/ wire' = Append(wire, Half("header", a))
    BY <1>11 DEF WriteHeader
  <2> QED
    BY <2>1, <2>2, NumberWritten
<1>12. ASSUME NEW a \in Senders, WriteContent(a), UNCHANGED peer PROVE NumberInv'
  <2>1. PICK p \in {"content", "sent", "failed"} : spc' = [spc EXCEPT ![a] = p]
    BY <1>12 DEF WriteContent, Goto
  <2>2. /\ spc[a] = "content" /\ nextSeq' = nextSeq /\ seq' = seq
        /\ wire' = wire \/ wire' = Append(wire, Half("content", a))
    BY <1>12 DEF WriteContent
  <2> QED
    BY <2>1, <2>2, NumberWritten
<1>13. ASSUME NEW r \in PeerRequests, AnswerDeferred(r), UNCHANGED peer PROVE NumberInv'
  <2>1. PICK p \in {"numbered", "ready", "failed"} : spc' = [spc EXCEPT ![r] = p]
    BY <1>13 DEF AnswerDeferred, Goto
  <2>2. r \in Senders /\ spc[r] \in {"idle", "deferred"} /\ TakeNumber(r) /\ wire' = wire
    BY <1>13 DEF AnswerDeferred, connection
  <2> QED
    BY <2>1, <2>2, NumberTaken
<1>14. ASSUME NEW r \in PeerRequests, RunSentHandler(r), UNCHANGED peer PROVE NumberInv'
  <2>1. PICK p \in {"ready", "header", "failed", "deferred", "done"} :
            spc' = [spc EXCEPT ![r] = p] /\ {spc[r], p} \cap {"idle", "deferred"} = {}
    BY <1>14 DEF RunSentHandler, Goto
  <2>2. \A b \in Senders : spc'[b] \in {"idle", "deferred"} <=> spc[b] \in {"idle", "deferred"}
    BY <2>1 DEF TypeOK, SendingTypes
  <2> QED
    BY <1>14, <2>2, NumberKept DEF RunSentHandler, connection
<1>15. ASSUME RecvLoop, UNCHANGED peer PROVE NumberInv'
  BY <1>15, NumberKept DEF RecvLoop, connection, sending
<1>16. ASSUME RecvNothing, UNCHANGED peer PROVE NumberInv'
  BY <1>16, NumberKept DEF RecvNothing, connection, sending
<1>17. ASSUME RecvPayload, UNCHANGED peer PROVE NumberInv'
  BY <1>17, NumberKept DEF RecvPayload, connection, sending
<1>18. ASSUME RecvDropped, UNCHANGED peer PROVE NumberInv'
  BY <1>18, NumberKept DEF RecvDropped, connection, sending
<1>19. ASSUME RecvNoiseSkipped, UNCHANGED peer PROVE NumberInv'
  BY <1>19, NumberKept DEF RecvNoiseSkipped, connection, sending
<1>20. ASSUME RecvNoiseCloses, UNCHANGED peer PROVE NumberInv'
  BY <1>20, NumberKept DEF RecvNoiseCloses, connection, sending
<1>21. ASSUME RecvResponse, UNCHANGED peer PROVE NumberInv'
  BY <1>21, NumberKept DEF RecvResponse, connection
<1>22. ASSUME RecvPut, UNCHANGED peer PROVE NumberInv'
  BY <1>22, NumberKept DEF RecvPut, connection, sending
<1>23. ASSUME DispatchTake, UNCHANGED peer PROVE NumberInv'
  BY <1>23, NumberKept DEF DispatchTake, connection, sending
<1>24. ASSUME DispatchExit, UNCHANGED peer PROVE NumberInv'
  BY <1>24, NumberKept DEF DispatchExit, connection, sending
<1>25. ASSUME DispatchEvent, UNCHANGED peer PROVE NumberInv'
  BY <1>25, NumberKept DEF DispatchEvent, connection, sending
<1>26. ASSUME DispatchRequestAnswered, UNCHANGED peer PROVE NumberInv'
  <2>1. PICK p \in {"numbered", "ready", "failed"} : spc' = [spc EXCEPT ![dispatchItem] = p]
    BY <1>26 DEF DispatchRequestAnswered, Goto
  <2>2. /\ dispatchItem \in Senders /\ spc[dispatchItem] \in {"idle", "deferred"}
        /\ TakeNumber(dispatchItem) /\ wire' = wire
    BY <1>26 DEF DispatchRequestAnswered, connection, PipelineInv, InThreads, Fresh
  <2> QED
    BY <2>1, <2>2, NumberTaken
<1>27. ASSUME DispatchRequestDeferred, UNCHANGED peer PROVE NumberInv'
  <2>1. PICK p \in {"ready", "header", "failed", "deferred", "done"} :
            spc' = [spc EXCEPT ![dispatchItem] = p] /\ spc[dispatchItem] = "idle" /\ p = "deferred"
    BY <1>27 DEF DispatchRequestDeferred, Goto, PipelineInv, InThreads, Fresh
  <2>2. \A b \in Senders : spc'[b] \in {"idle", "deferred"} <=> spc[b] \in {"idle", "deferred"}
    BY <2>1 DEF TypeOK, SendingTypes
  <2> QED
    BY <1>27, <2>2, NumberKept DEF DispatchRequestDeferred, connection
<1>28. ASSUME Destroy, UNCHANGED peer PROVE NumberInv'
  BY <1>28, NumberKept DEF Destroy, connection, sending
<1>29. ASSUME DestroyReader, UNCHANGED peer PROVE NumberInv'
  BY <1>29, NumberKept DEF DestroyReader, connection, sending
<1>30. ASSUME DestroyWriter, UNCHANGED peer PROVE NumberInv'
  BY <1>30, NumberKept DEF DestroyWriter, connection, sending
<1>31. ASSUME JoinRecvThread, UNCHANGED peer PROVE NumberInv'
  BY <1>31, NumberKept DEF JoinRecvThread, connection, sending
<1>32. ASSUME JoinDispatchThread, UNCHANGED peer PROVE NumberInv'
  BY <1>32, NumberKept DEF JoinDispatchThread, connection, sending
<1>33. ASSUME NEW r \in PeerRequests, PeerSendsRequest(r) PROVE NumberInv'
  BY <1>33, NumberKept DEF PeerSendsRequest, connection, sending, Deliver
<1>34. ASSUME NEW e \in PeerEvents, PeerSendsEvent(e) PROVE NumberInv'
  BY <1>34, NumberKept DEF PeerSendsEvent, connection, sending, Deliver
<1>35. ASSUME PeerSendsGarbage PROVE NumberInv'
  BY <1>35, NumberKept DEF PeerSendsGarbage, connection, sending, Deliver
<1>36. ASSUME NEW c \in ReqCalls, PeerAnswers(c) PROVE NumberInv'
  BY <1>36, NumberKept DEF PeerAnswers, connection, sending, Deliver
<1>37. ASSUME PeerClosesIn PROVE NumberInv'
  BY <1>37, NumberKept DEF PeerClosesIn, connection, sending
<1>38. ASSUME PeerClosesOut PROVE NumberInv'
  BY <1>38, NumberKept DEF PeerClosesOut, connection, sending
<1>50. CASE UNCHANGED allVars
  BY <1>50, NumberKept DEF allVars, vars, sending, connection
<1> QED
  BY <1>55, <1>1, <1>2, <1>3, <1>4, <1>5, <1>6, <1>7, <1>8, <1>9, <1>10, <1>11,
     <1>12, <1>13, <1>14, <1>15, <1>16, <1>17, <1>18, <1>19, <1>20, <1>21,
     <1>22, <1>23, <1>24, <1>25, <1>26, <1>27, <1>28, <1>29, <1>30, <1>31,
     <1>32, <1>33, <1>34, <1>35, <1>36, <1>37, <1>38, <1>50
  DEF SystemNext, Next, Setup, RequestCall, EventCall, Answer, Send,
      RecvThread, DispatchThread, Destructor, PeerNext
-----------------------------------------------------------------------------
(* ~Impl.                                                                  *)
LEMMA ShutdownStep ==
    ASSUME TypeOK, PipelineInv, ShutdownInv, [SystemNext]_allVars
    PROVE  ShutdownInv'
<1> USE DEF Senders
<1>1. ASSUME NEW n \in Commands, RegisterRequestHandler(n), UNCHANGED peer PROVE ShutdownInv'
  BY <1>1 DEF ShutdownInv, RegisterRequestHandler, sending, receiving
<1>2. ASSUME NEW n \in EventNames, RegisterEventHandler(n), UNCHANGED peer PROVE ShutdownInv'
  BY <1>2 DEF ShutdownInv, RegisterEventHandler, sending, receiving
<1>55. ASSUME NEW m \in InvalidDataModes, SetOnInvalidData(m), UNCHANGED peer PROVE ShutdownInv'
  BY <1>55 DEF ShutdownInv, SetOnInvalidData, sending, receiving
<1>3. ASSUME Connect, UNCHANGED peer PROVE ShutdownInv'
  BY <1>3 DEF ShutdownInv, Connect, sending, receiving
<1>4. ASSUME StartProcessingMessages, UNCHANGED peer PROVE ShutdownInv'
  BY <1>4 DEF ShutdownInv, StartProcessingMessages, sending, receiving
<1>5. ASSUME NEW c \in ReqCalls, SendRequest(c), UNCHANGED peer PROVE ShutdownInv'
  BY <1>5 DEF ShutdownInv, SendRequest, receiving
<1>6. ASSUME NEW c \in ReqCalls, PutResponseHandler(c), UNCHANGED peer PROVE ShutdownInv'
  <2>1. spc[c] \notin {"idle", "done"} /\ UNCHANGED <<dtor, recvPc, dispatchPc, dispatchItem>>
    BY <1>6 DEF PutResponseHandler, receiving
  <2> QED
    BY <2>1 DEF ShutdownInv
<1>7. ASSUME NEW c \in ReqCalls, ReturnRequest(c), UNCHANGED peer PROVE ShutdownInv'
  <2>1. spc[c] \notin {"idle", "done"} /\ UNCHANGED <<dtor, recvPc, dispatchPc, dispatchItem>>
    BY <1>7 DEF ReturnRequest, receiving
  <2> QED
    BY <2>1 DEF ShutdownInv
<1>8. ASSUME NEW e \in EvtCalls, SendEvent(e), UNCHANGED peer PROVE ShutdownInv'
  BY <1>8 DEF ShutdownInv, SendEvent, receiving
<1>9. ASSUME NEW e \in EvtCalls, ReturnEvent(e), UNCHANGED peer PROVE ShutdownInv'
  <2>1. spc[e] \notin {"idle", "done"} /\ UNCHANGED <<dtor, recvPc, dispatchPc, dispatchItem>>
    BY <1>9 DEF ReturnEvent, receiving
  <2> QED
    BY <2>1 DEF ShutdownInv
<1>10. ASSUME NEW a \in Senders, LockAndCheckOpen(a), UNCHANGED peer PROVE ShutdownInv'
  <2>1. PICK p : spc' = [spc EXCEPT ![a] = p]
    BY <1>10 DEF LockAndCheckOpen, Goto
  <2>2. \A b \in Senders : b # a => spc'[b] = spc[b]
    BY <2>1 DEF TypeOK, SendingTypes
  <2>3. UNCHANGED <<dtor, recvPc, dispatchPc, dispatchItem>> /\ spc[a] \in {"ready", "header", "content"}
    BY <1>10 DEF LockAndCheckOpen, receiving
  <2> QED
    BY <2>2, <2>3 DEF ShutdownInv, Senders
<1>11. ASSUME NEW a \in Senders, WriteHeader(a), UNCHANGED peer PROVE ShutdownInv'
  <2>1. PICK p : spc' = [spc EXCEPT ![a] = p]
    BY <1>11 DEF WriteHeader, Goto
  <2>2. \A b \in Senders : b # a => spc'[b] = spc[b]
    BY <2>1 DEF TypeOK, SendingTypes
  <2>3. UNCHANGED <<dtor, recvPc, dispatchPc, dispatchItem>> /\ spc[a] \in {"ready", "header", "content"}
    BY <1>11 DEF WriteHeader, receiving
  <2> QED
    BY <2>2, <2>3 DEF ShutdownInv, Senders
<1>12. ASSUME NEW a \in Senders, WriteContent(a), UNCHANGED peer PROVE ShutdownInv'
  <2>1. PICK p : spc' = [spc EXCEPT ![a] = p]
    BY <1>12 DEF WriteContent, Goto
  <2>2. \A b \in Senders : b # a => spc'[b] = spc[b]
    BY <2>1 DEF TypeOK, SendingTypes
  <2>3. UNCHANGED <<dtor, recvPc, dispatchPc, dispatchItem>> /\ spc[a] \in {"ready", "header", "content"}
    BY <1>12 DEF WriteContent, receiving
  <2> QED
    BY <2>2, <2>3 DEF ShutdownInv, Senders
<1>13. ASSUME NEW r \in PeerRequests, AnswerDeferred(r), UNCHANGED peer PROVE ShutdownInv'
  BY <1>13 DEF ShutdownInv, AnswerDeferred, receiving
<1>14. ASSUME NEW r \in PeerRequests, RunSentHandler(r), UNCHANGED peer PROVE ShutdownInv'
  <2>1. /\ dtor' = dtor /\ recvPc' = recvPc /\ spc' = [spc EXCEPT ![r] = "done"]
        /\ dispatchPc \in {"off", "exited"} => dispatchPc' = dispatchPc
        /\ dispatchItem' = dispatchItem \/ dispatchItem = r
    BY <1>14, DistinctAssumption DEF RunSentHandler, Goto, PipelineInv, InThreads
  <2>2. \A b \in Senders : spc'[b] = IF b = r THEN "done" ELSE spc[b]
    BY <2>1 DEF TypeOK, SendingTypes
  <2> QED
    BY <1>14, <2>1, <2>2, DistinctAssumption DEF ShutdownInv, Senders
<1>15. ASSUME RecvLoop, UNCHANGED peer PROVE ShutdownInv'
  BY <1>15 DEF ShutdownInv, RecvLoop, sending, receiving
<1>16. ASSUME RecvNothing, UNCHANGED peer PROVE ShutdownInv'
  BY <1>16 DEF ShutdownInv, RecvNothing, sending, receiving
<1>17. ASSUME RecvPayload, UNCHANGED peer PROVE ShutdownInv'
  BY <1>17 DEF ShutdownInv, RecvPayload, sending, receiving, CanRead
<1>18. ASSUME RecvDropped, UNCHANGED peer PROVE ShutdownInv'
  BY <1>18 DEF ShutdownInv, RecvDropped, sending, receiving, CanRead
<1>19. ASSUME RecvNoiseSkipped, UNCHANGED peer PROVE ShutdownInv'
  BY <1>19 DEF ShutdownInv, RecvNoiseSkipped, sending, receiving, CanRead
<1>20. ASSUME RecvNoiseCloses, UNCHANGED peer PROVE ShutdownInv'
  BY <1>20 DEF ShutdownInv, RecvNoiseCloses, sending, receiving, CanRead
<1>21. ASSUME RecvResponse, UNCHANGED peer PROVE ShutdownInv'
  BY <1>21 DEF ShutdownInv, RecvResponse, sending, receiving, CanRead
<1>22. ASSUME RecvPut, UNCHANGED peer PROVE ShutdownInv'
  BY <1>22 DEF ShutdownInv, RecvPut, sending, receiving
<1>23. ASSUME DispatchTake, UNCHANGED peer PROVE ShutdownInv'
  <2>1. UNCHANGED <<dtor, recvPc, spc>> /\ dispatchPc \in {"take", "run"}
        /\ \A r \in PeerRequests : dispatchItem = r => dispatchItem' = r
    BY <1>23, DistinctAssumption DEF DispatchTake, sending, PipelineInv, InThreads
  <2> QED
    BY <1>23, <2>1 DEF ShutdownInv, DispatchTake
<1>24. ASSUME DispatchExit, UNCHANGED peer PROVE ShutdownInv'
  <2>1. UNCHANGED <<dtor, recvPc, spc>> /\ dispatchPc \in {"take", "run"}
        /\ \A r \in PeerRequests : dispatchItem = r => dispatchItem' = r
    BY <1>24, DistinctAssumption DEF DispatchExit, sending, PipelineInv, InThreads
  <2> QED
    BY <1>24, <2>1 DEF ShutdownInv, DispatchExit
<1>25. ASSUME DispatchEvent, UNCHANGED peer PROVE ShutdownInv'
  <2>1. UNCHANGED <<dtor, recvPc, spc>> /\ dispatchPc \in {"take", "run"}
        /\ \A r \in PeerRequests : dispatchItem = r => dispatchItem' = r
    BY <1>25, DistinctAssumption DEF DispatchEvent, sending, PipelineInv, InThreads
  <2> QED
    BY <1>25, <2>1 DEF ShutdownInv, DispatchEvent
<1>26. ASSUME DispatchRequestAnswered, UNCHANGED peer PROVE ShutdownInv'
  <2>1. /\ UNCHANGED <<dtor, recvPc, dispatchItem>> /\ spc' = [spc EXCEPT ![dispatchItem] = "ready"]
        /\ dispatchPc = "run" /\ dispatchItem \in PeerRequests
    BY <1>26 DEF DispatchRequestAnswered, Goto
  <2>2. \A b \in Senders : b # dispatchItem => spc'[b] = spc[b]
    BY <2>1 DEF TypeOK, SendingTypes
  <2> QED
    BY <2>1, <2>2, DistinctAssumption DEF ShutdownInv, Senders
<1>27. ASSUME DispatchRequestDeferred, UNCHANGED peer PROVE ShutdownInv'
  <2>1. /\ dtor' = dtor /\ recvPc' = recvPc /\ spc' = [spc EXCEPT ![dispatchItem] = "deferred"]
        /\ dispatchPc \in {"off", "exited"} => dispatchPc' = dispatchPc
        /\ dispatchItem \in PeerRequests
    BY <1>27 DEF DispatchRequestDeferred, Goto, PipelineInv, InThreads
  <2>2. \A b \in Senders : spc'[b] = IF b = dispatchItem THEN "deferred" ELSE spc[b]
    BY <2>1 DEF TypeOK, SendingTypes
  <2> QED
    BY <1>27, <2>1, <2>2, DistinctAssumption DEF ShutdownInv, Senders
<1>28. ASSUME Destroy, UNCHANGED peer PROVE ShutdownInv'
  BY <1>28 DEF ShutdownInv, Destroy, sending, receiving, CallersAreOut
<1>29. ASSUME DestroyReader, UNCHANGED peer PROVE ShutdownInv'
  BY <1>29 DEF ShutdownInv, DestroyReader, sending, receiving
<1>30. ASSUME DestroyWriter, UNCHANGED peer PROVE ShutdownInv'
  BY <1>30 DEF ShutdownInv, DestroyWriter, sending, receiving
<1>31. ASSUME JoinRecvThread, UNCHANGED peer PROVE ShutdownInv'
  BY <1>31 DEF ShutdownInv, JoinRecvThread, sending, receiving
<1>32. ASSUME JoinDispatchThread, UNCHANGED peer PROVE ShutdownInv'
  BY <1>32 DEF ShutdownInv, JoinDispatchThread, sending, receiving
<1>33. ASSUME NEW r \in PeerRequests, PeerSendsRequest(r) PROVE ShutdownInv'
  BY <1>33 DEF ShutdownInv, PeerSendsRequest, sending, receiving, Deliver
<1>34. ASSUME NEW e \in PeerEvents, PeerSendsEvent(e) PROVE ShutdownInv'
  BY <1>34 DEF ShutdownInv, PeerSendsEvent, sending, receiving, Deliver
<1>35. ASSUME PeerSendsGarbage PROVE ShutdownInv'
  BY <1>35 DEF ShutdownInv, PeerSendsGarbage, sending, receiving, Deliver
<1>36. ASSUME NEW c \in ReqCalls, PeerAnswers(c) PROVE ShutdownInv'
  BY <1>36 DEF ShutdownInv, PeerAnswers, sending, receiving, Deliver
<1>37. ASSUME PeerClosesIn PROVE ShutdownInv'
  BY <1>37 DEF ShutdownInv, PeerClosesIn, sending, receiving
<1>38. ASSUME PeerClosesOut PROVE ShutdownInv'
  BY <1>38 DEF ShutdownInv, PeerClosesOut, sending, receiving
<1>50. CASE UNCHANGED allVars
  BY <1>50 DEF ShutdownInv, allVars, vars, sending, receiving
<1> QED
  BY <1>55, <1>1, <1>2, <1>3, <1>4, <1>5, <1>6, <1>7, <1>8, <1>9, <1>10, <1>11,
     <1>12, <1>13, <1>14, <1>15, <1>16, <1>17, <1>18, <1>19, <1>20, <1>21,
     <1>22, <1>23, <1>24, <1>25, <1>26, <1>27, <1>28, <1>29, <1>30, <1>31,
     <1>32, <1>33, <1>34, <1>35, <1>36, <1>37, <1>38, <1>50
  DEF SystemNext, Next, Setup, RequestCall, EventCall, Answer, Send,
      RecvThread, DispatchThread, Destructor, PeerNext
=============================================================================
