---------------------------- MODULE NetworkProofs ----------------------------
(***************************************************************************)
(* Proofs about Network: who may use which descriptor, what a server does  *)
(* after stop(), and what connect() leaves behind.                         *)
(***************************************************************************)
EXTENDS Network, TLAPS

(* The time each step may take, and the time of a second attempt.          *)
USE SMTT(30), SMTT(60)

InCall == {"recv", "send", "accepting", "connecting", "select"}
IsOpenPcs == {"isOpen", "isOpen.forget"}
ClosePcs == {"close", "close.release"}
ConnectPcs == {"create", "connect", "connecting", "select", "connect.check", "drop",
               "connected", "connected.not"}
UsePcs == {"idle", "read", "recv", "write", "write.nothing", "send"} \cup IsOpenPcs \cup ClosePcs
HeldPcs == {"start.stop", "stop.stop", "start.join", "stop.join", "start.bind",
            "start.check", "start.run", "start.fail", "stop.done"} \cup IsOpenPcs \cup ClosePcs
LoopPcs == {"off", "loop", "accept", "accepting", "onConnect", "failed", "onError", "ended"}
Pcs == ConnectPcs \cup UsePcs \cup HeldPcs \cup LoopPcs \cup {"start", "stop"}

Files == [of : {"none", "socket", "other"}, up : BOOLEAN, eof : BOOLEAN, error : BOOLEAN]

SocketTypes ==
    /\ s \in Fds \cup {InvalidSocket}
    /\ readLocks \subseteq Threads
    /\ file \in [Fds -> Files]
    /\ room \in Nat /\ blocking \in BOOLEAN
    /\ pc \in [Threads -> Pcs]
    /\ caller \in [Threads -> Pcs \X Pcs]
    /\ used \in [Threads -> Fds \cup {InvalidSocket}]
    /\ taken \in [Threads -> Nat]
    /\ truncated \in BOOLEAN

NetworkTypes ==
    /\ role \in {"connection", "server"}
    /\ object \in {"none", "making", "shared", "gone"}
    /\ timeout \in Nat
    /\ mutex \in Users \cup {None}
    /\ stopped \in BOOLEAN

TypeOK == SocketTypes /\ NetworkTypes

(* Whoever is in a system call holds the read lock, and uses what the      *)
(* member s still is: nobody changes s under the read locks.               *)
LocksInv ==
    \A t \in Threads :
        /\ pc[t] \in InCall <=> used[t] # InvalidSocket
        /\ used[t] # InvalidSocket => t \in readLocks /\ used[t] = s

(* The member is the socket's own file, and the only one of its files that *)
(* is open and not forgotten; a file with an error is down.                *)
FilesInv ==
    /\ s # InvalidSocket => Ours(s)
    /\ NothingLeaks
    /\ \A fd \in Fds : file[fd].error => ~file[fd].up

Down == s # InvalidSocket => ~file[s].up
Up == s # InvalidSocket => file[s].up

(* A thread that makes the connection.                                     *)
Making(u) ==
    /\ pc[u] \in {"idle"} \cup ConnectPcs \cup IsOpenPcs \cup ClosePcs
    /\ pc[u] = "create" => s = InvalidSocket
    /\ pc[u] = "select" => tv = SelectTime(timeout)
    /\ pc[u] \in {"connect.check", "connected"} \cup IsOpenPcs => blocking
    /\ pc[u] \in IsOpenPcs => caller[u] = <<"connected", "drop">>
    /\ pc[u] \in ClosePcs => caller[u] = <<"connected.not", "connected.not">>

Using(u) ==
    /\ pc[u] \in UsePcs
    /\ pc[u] # "idle" => caller[u] = <<"idle", "idle">>

ConnectionInv ==
    role = "connection" =>
        /\ mutex = None /\ stopped /\ pc[Acceptor] = "off"
        /\ object = "none" => s = InvalidSocket /\ \A u \in Users : pc[u] = "idle"
        /\ object # "shared" =>
              \A u, v \in Users : pc[u] # "idle" /\ pc[v] # "idle" => u = v
        /\ object = "making" => ~truncated /\ \A u \in Users : Making(u)
        /\ object = "shared" => blocking /\ \A u \in Users : Using(u)
        /\ object = "gone" =>
              \A u \in Users : Using(u) /\ pc[u] \in {"idle"} \cup ClosePcs
        /\ truncated => object \in {"shared", "gone"} /\ Down

(* A thread between LockServer and ServerReturns.                          *)
Serving(u) ==
    /\ pc[u] \in {"start.stop", "stop.stop"} /\ stopped =>
          s = InvalidSocket /\ pc[Acceptor] = "off"
    /\ pc[u] \notin {"start.stop", "stop.stop"} => stopped
    /\ pc[u] \in {"start.bind", "start.check", "start.run", "start.fail", "stop.done"} \cup IsOpenPcs
          => pc[Acceptor] = "off"
    /\ pc[u] \in {"start.join", "stop.join", "start.bind", "stop.done", "start.fail"}
          => s = InvalidSocket
    /\ pc[u] \in {"start.check", "start.run"} \cup IsOpenPcs => Up
    /\ pc[u] = "start.run" => s # InvalidSocket
    /\ pc[u] \in IsOpenPcs => caller[u] = <<"start.run", "start.fail">>
    /\ pc[u] \in ClosePcs =>
          \/ caller[u] \in {<<"start.join", "idle">>, <<"stop.join", "idle">>}
          \/ caller[u] = <<"start.check", "start.check">> /\ u \in readLocks /\ pc[Acceptor] = "off"

ServerInv ==
    role = "server" =>
        /\ object = "none" /\ ~truncated
        /\ \A u \in Users : IF mutex = u THEN pc[u] \in HeldPcs /\ Serving(u)
                            ELSE pc[u] \in {"idle", "start", "stop"}
        /\ mutex = None /\ stopped => pc[Acceptor] = "off" /\ s = InvalidSocket
        /\ ~stopped => s # InvalidSocket /\ Up /\ pc[Acceptor] # "off"
        /\ pc[Acceptor] \in LoopPcs
        /\ pc[Acceptor] \in {"accept", "accepting"} => caller[Acceptor] = <<"onConnect", "failed">>

Inv == TypeOK /\ LocksInv /\ FilesInv /\ ConnectionInv /\ ServerInv
-----------------------------------------------------------------------------
MethodPcs == {"read", "recv", "write", "write.nothing", "send", "accept", "accepting"}
             \cup IsOpenPcs \cup ClosePcs

(* A method returns to code that is in no system call.                     *)
LEMMA ReturnsOutside ==
    ASSUME Inv, NEW t \in Threads, pc[t] \in MethodPcs
    PROVE  caller[t][1] \in Pcs \ InCall /\ caller[t][2] \in Pcs \ InCall
<1>1. CASE role = "connection"
  BY <1>1, NetworkAssumption DEF Inv, TypeOK, NetworkTypes, ConnectionInv, Making,
     Using, Users, MethodPcs, Pcs, InCall, ConnectPcs, UsePcs, HeldPcs, LoopPcs,
     IsOpenPcs, ClosePcs
<1>2. CASE role = "server"
  BY <1>2, NetworkAssumption DEF Inv, TypeOK, NetworkTypes, ServerInv, Serving, Users,
     MethodPcs, Pcs, InCall, ConnectPcs, UsePcs, HeldPcs, LoopPcs, IsOpenPcs, ClosePcs
<1> QED
  BY <1>1, <1>2 DEF Inv, TypeOK, NetworkTypes

(* Taking the error away changes nothing else.                             *)
LEMMA ErrorTakenFiles ==
    ASSUME file \in [Fds -> Files], NEW fd \in Fds \cup {InvalidSocket}
    PROVE  /\ ErrorTaken(fd) \in [Fds -> Files]
           /\ \A g \in Fds :
                 /\ ErrorTaken(fd)[g].of = file[g].of
                 /\ ErrorTaken(fd)[g].up = file[g].up
                 /\ ErrorTaken(fd)[g].error => file[g].error
BY ZenonT(40) DEF ErrorTaken, Files

LEMMA FilesChanged ==
    ASSUME file \in [Fds -> Files], NEW fd \in Fds
    PROVE  /\ [file EXCEPT ![fd].up = FALSE] \in [Fds -> Files]
           /\ \A f \in {Closed, Opened, Other} : [file EXCEPT ![fd] = f] \in [Fds -> Files]
<1>1. [file EXCEPT ![fd].up = FALSE] \in [Fds -> Files]
  BY ZenonT(40) DEF Files
<1>2. Closed \in Files /\ Opened \in Files /\ Other \in Files
  BY ZenonT(40) DEF Files, Closed, Opened, Other
<1> QED
  BY <1>1, <1>2

LEMMA MethodKeepsTypes ==
    ASSUME Inv, NEW t \in Threads, Method(t), InSocket
    PROVE  TypeOK'
<1> USE DEF kernel, threads
<1> SUFFICES SocketTypes'
  BY DEF Inv, TypeOK, NetworkTypes, InSocket, serverVars, connectVars
<1>1. SocketTypes
  BY DEF Inv, TypeOK
<1>2. pc[t] \in MethodPcs
  BY ZenonT(40) DEF Method, MethodPcs, IsOpenPcs, ClosePcs, IsOpenLooks, IsOpenForgets,
     CloseShutsDown, CloseReleases, ReadBegins, RecvReturns, WriteBegins, SendTakes,
     SendReturns, AcceptBegins, AcceptReturns, AcceptFails
<1>3. caller[t][1] \in Pcs /\ caller[t][2] \in Pcs
  BY <1>2, ReturnsOutside
<1>4. /\ "isOpen.forget" \in Pcs /\ "close.release" \in Pcs
      /\ "recv" \in Pcs /\ "send" \in Pcs /\ "accepting" \in Pcs
  BY DEF Pcs, UsePcs, LoopPcs, IsOpenPcs, ClosePcs
<1>5. CASE IsOpenLooks(t)
  BY ZenonT(40), <1>1, <1>3, <1>4, <1>5, ErrorTakenFiles, FilesChanged DEF IsOpenLooks, Goto,
     Return, Enter, Leave, SocketTypes
<1>6. CASE IsOpenForgets(t)
  BY <1>1, <1>3, <1>4, <1>6, ErrorTakenFiles, FilesChanged DEF IsOpenForgets, Goto,
     Return, Enter, Leave, SocketTypes
<1>7. CASE CloseShutsDown(t)
  BY <1>1, <1>3, <1>4, <1>7, ErrorTakenFiles, FilesChanged DEF CloseShutsDown, Goto,
     Return, Enter, Leave, SocketTypes
<1>8. CASE CloseReleases(t)
  BY ZenonT(40), <1>1, <1>3, <1>4, <1>8, ErrorTakenFiles, FilesChanged DEF CloseReleases,
     Goto, Return, Enter, Leave, SocketTypes
<1>9. CASE ReadBegins(t)
  <2>1. CASE s = InvalidSocket
    BY <1>1, <1>3, <1>4, <1>9, <2>1 DEF ReadBegins, Goto, Return, Enter, SocketTypes
  <2>2. CASE ~(s = InvalidSocket)
    BY <1>1, <1>3, <1>4, <1>9, <2>2 DEF ReadBegins, Goto, Return, Enter, SocketTypes
  <2> QED
    BY <2>1, <2>2
<1>10. CASE RecvReturns(t)
  BY ZenonT(40), <1>1, <1>3, <1>4, <1>10, ErrorTakenFiles, FilesChanged DEF RecvReturns,
     Goto, Return, Enter, Leave, SocketTypes
<1>11. CASE WriteBegins(t)
  <2>1. CASE s = InvalidSocket \/ pc[t] = "write.nothing"
    BY <1>1, <1>3, <1>4, <1>11, <2>1 DEF WriteBegins, Goto, Return, Enter, SocketTypes
  <2>2. CASE ~(s = InvalidSocket \/ pc[t] = "write.nothing")
    BY <1>1, <1>3, <1>4, <1>11, <2>2 DEF WriteBegins, Goto, Return, Enter, SocketTypes
  <2> QED
    BY <2>1, <2>2
<1>12. CASE SendTakes(t)
  BY <1>1, <1>3, <1>4, <1>12, ErrorTakenFiles, FilesChanged DEF SendTakes, Goto, Return,
     Enter, Leave, SocketTypes
<1>13. CASE SendReturns(t)
  BY <1>1, <1>3, <1>4, <1>13, ErrorTakenFiles, FilesChanged DEF SendReturns, Goto,
     Return, Enter, Leave, SocketTypes
<1>14. CASE AcceptBegins(t)
  <2>1. CASE Errored(s)
    BY <1>1, <1>3, <1>4, <1>14, <2>1, ErrorTakenFiles DEF AcceptBegins, Goto, Return,
       Enter, SocketTypes
  <2>2. CASE ~(Errored(s))
    BY ZenonT(40), <1>1, <1>3, <1>4, <1>14, <2>2, ErrorTakenFiles DEF AcceptBegins, Goto,
       Return, Enter, SocketTypes
  <2> QED
    BY <2>1, <2>2
<1>15. CASE AcceptReturns(t)
  BY ZenonT(40), <1>1, <1>3, <1>4, <1>15, ErrorTakenFiles, FilesChanged DEF AcceptReturns,
     Goto, Return, Enter, Leave, SocketTypes
<1>16. CASE AcceptFails(t)
  BY <1>1, <1>3, <1>4, <1>16, ErrorTakenFiles, FilesChanged DEF AcceptFails, Goto,
     Return, Enter, Leave, SocketTypes
<1> QED
  BY <1>5, <1>6, <1>7, <1>8, <1>9, <1>10, <1>11, <1>12, <1>13, <1>14, <1>15, <1>16 DEF
     Method, TypeOK

LEMMA MethodKeepsLocks ==
    ASSUME Inv, NEW t \in Threads, Method(t)
    PROVE  LocksInv'
<1> USE DEF kernel, threads
<1>1. SocketTypes /\ LocksInv
  BY DEF Inv, TypeOK
<1>2. pc[t] \in MethodPcs
  BY ZenonT(40) DEF Method, MethodPcs, IsOpenPcs, ClosePcs, IsOpenLooks, IsOpenForgets,
     CloseShutsDown, CloseReleases, ReadBegins, RecvReturns, WriteBegins, SendTakes,
     SendReturns, AcceptBegins, AcceptReturns, AcceptFails
<1>3. caller[t][1] \notin InCall /\ caller[t][2] \notin InCall
  BY <1>2, ReturnsOutside
<1>4. CASE IsOpenLooks(t)
  BY <1>1, <1>3, <1>4 DEF IsOpenLooks, Goto, Return, Enter, Leave, SocketTypes,
     LocksInv, InCall
<1>5. CASE IsOpenForgets(t)
  BY <1>1, <1>3, <1>5 DEF IsOpenForgets, Goto, Return, Enter, Leave, SocketTypes,
     LocksInv, InCall
<1>6. CASE CloseShutsDown(t)
  BY <1>1, <1>3, <1>6 DEF CloseShutsDown, Goto, Return, Enter, Leave, SocketTypes,
     LocksInv, InCall
<1>7. CASE CloseReleases(t)
  BY <1>1, <1>3, <1>7 DEF CloseReleases, Goto, Return, Enter, Leave, SocketTypes,
     LocksInv, InCall
<1>8. CASE ReadBegins(t)
  BY <1>1, <1>3, <1>8 DEF ReadBegins, Goto, Return, Enter, Leave, SocketTypes, LocksInv,
     InCall
<1>9. CASE RecvReturns(t)
  BY <1>1, <1>3, <1>9 DEF RecvReturns, Goto, Return, Enter, Leave, SocketTypes,
     LocksInv, InCall
<1>10. CASE WriteBegins(t)
  BY <1>1, <1>3, <1>10 DEF WriteBegins, Goto, Return, Enter, Leave, SocketTypes,
     LocksInv, InCall
<1>11. CASE SendTakes(t)
  BY <1>1, <1>3, <1>11 DEF SendTakes, Goto, Return, Enter, Leave, SocketTypes, LocksInv,
     InCall
<1>12. CASE SendReturns(t)
  BY <1>1, <1>3, <1>12 DEF SendReturns, Goto, Return, Enter, Leave, SocketTypes,
     LocksInv, InCall
<1>13. CASE AcceptBegins(t)
  BY <1>1, <1>3, <1>13 DEF AcceptBegins, Goto, Return, Enter, Leave, SocketTypes,
     LocksInv, InCall, Errored
<1>14. CASE AcceptReturns(t)
  BY <1>1, <1>3, <1>14 DEF AcceptReturns, Goto, Return, Enter, Leave, SocketTypes,
     LocksInv, InCall
<1>15. CASE AcceptFails(t)
  BY <1>1, <1>3, <1>15 DEF AcceptFails, Goto, Return, Enter, Leave, SocketTypes,
     LocksInv, InCall
<1> QED
  BY <1>4, <1>5, <1>6, <1>7, <1>8, <1>9, <1>10, <1>11, <1>12, <1>13, <1>14, <1>15 DEF
     Method

(* Files stay whose they are; they may go down and lose their errors.      *)
LEMMA FilesKept ==
    ASSUME SocketTypes, FilesInv, s' = s, forgotten' = forgotten,
           \A g \in Fds :
              /\ file'[g].of = file[g].of
              /\ file'[g].up => file[g].up
              /\ file'[g].error => file[g].error
    PROVE  FilesInv'
BY DEF SocketTypes, FilesInv, NothingLeaks, Ours

LEMMA MethodKeepsFiles ==
    ASSUME Inv, NEW t \in Threads, Method(t)
    PROVE  FilesInv'
<1> USE DEF kernel, threads
<1>1. SocketTypes /\ LocksInv /\ FilesInv
  BY DEF Inv, TypeOK
<1>2. CASE UNCHANGED <<s, file, forgotten>>
  BY <1>1, <1>2, FilesKept
<1>3. CASE /\ UNCHANGED <<s, forgotten>>
           /\ \E fd \in Fds \cup {InvalidSocket} : file' = ErrorTaken(fd)
  BY <1>1, <1>3, ErrorTakenFiles, FilesKept DEF SocketTypes
<1>4. CASE CloseShutsDown(t)
  BY <1>1, <1>4, FilesKept DEF CloseShutsDown, SocketTypes, Files
<1>5. CASE IsOpenForgets(t)
  BY <1>1, <1>5, SocketAssumption DEF IsOpenForgets, Closed, Other, Files, SocketTypes,
     LocksInv, FilesInv, NothingLeaks, Ours
<1>6. CASE CloseReleases(t)
  BY <1>1, <1>6, SocketAssumption DEF CloseReleases, Closed, Other, Files, SocketTypes,
     LocksInv, FilesInv, NothingLeaks, Ours
<1>7. CASE AcceptReturns(t)
  BY <1>1, <1>7, SocketAssumption DEF AcceptReturns, Closed, Other, Files, SocketTypes,
     LocksInv, FilesInv, NothingLeaks, Ours
<1> QED
  BY ZenonT(40), <1>1, <1>2, <1>3, <1>4, <1>5, <1>6, <1>7 DEF Method, SocketTypes,
     IsOpenLooks, ReadBegins, RecvReturns, WriteBegins, SendTakes, SendReturns,
     AcceptBegins, AcceptFails

LEMMA MethodKeepsConnection ==
    ASSUME Inv, NEW t \in Threads, Method(t), InSocket
    PROVE  ConnectionInv'
<1> USE NetworkAssumption, SocketAssumption DEF kernel, threads, InSocket, serverVars,
   connectVars
<1>1. TypeOK /\ LocksInv /\ FilesInv /\ ConnectionInv
  BY DEF Inv
<1> SUFFICES ASSUME role = "connection"
             PROVE  ConnectionInv'
  BY DEF ConnectionInv
<1>2. t \in Users /\ object \in {"making", "shared", "gone"} /\ pc[t] \in UsePcs \ {"idle"}
  <2>1. pc[t] \in MethodPcs
    BY ZenonT(40) DEF Method, MethodPcs, IsOpenPcs, ClosePcs, IsOpenLooks, IsOpenForgets,
       CloseShutsDown, CloseReleases, ReadBegins, RecvReturns, WriteBegins, SendTakes,
       SendReturns, AcceptBegins, AcceptReturns, AcceptFails
  <2>2. pc[t] \notin {"off", "idle"}
    BY <2>1 DEF MethodPcs, IsOpenPcs, ClosePcs
  <2>3. t \in Users /\ object \in {"making", "shared", "gone"}
    BY <1>1, <2>2 DEF ConnectionInv, Users, TypeOK, NetworkTypes
  <2>4. pc[t] \in UsePcs
    BY <1>1, <2>1, <2>3 DEF ConnectionInv, Making, Using, MethodPcs, ConnectPcs, UsePcs
  <2> QED
    BY <2>2, <2>3, <2>4
<1>3. CASE IsOpenLooks(t)
  <2>1. CASE object = "making"
    <3>1. pc[t] = "isOpen" /\ caller[t] = <<"connected", "drop">> /\ blocking
      BY <1>1, <1>2, <1>3, <2>1 DEF IsOpenLooks, ConnectionInv, Making, IsOpenPcs
    <3>2. pc' = [pc EXCEPT ![t] = IF Errored(s) THEN "isOpen.forget" ELSE "connected"]
      BY <1>3, <3>1 DEF IsOpenLooks, Goto, Return
    <3>3. \A u \in Users : Making(u)'
      BY <1>1, <1>2, <1>3, <2>1, <3>1, <3>2 DEF IsOpenLooks, TypeOK, SocketTypes,
         ConnectionInv, Making, IsOpenPcs, ClosePcs, ConnectPcs
    <3> QED
      BY <1>1, <1>2, <1>3, <2>1, <3>1, <3>2, <3>3, ZenonT(40) DEF IsOpenLooks, TypeOK, SocketTypes,
         ConnectionInv, Users
  <2>2. CASE object = "shared"
    BY <1>1, <1>2, <1>3, <2>2 DEF IsOpenLooks, Goto, Return, Enter, Leave, Errored,
       ErrorTaken, Ended, Closed, Other, TypeOK, LocksInv, SocketTypes, NetworkTypes,
       ConnectionInv, Making, Using, Down, Users, InCall, IsOpenPcs, ClosePcs,
       ConnectPcs, UsePcs, Files
  <2>3. CASE object = "gone"
    BY <1>1, <1>2, <1>3, <2>3, ZenonT(40) DEF IsOpenLooks, Goto, Return, Enter, Leave, Errored,
       ErrorTaken, Ended, Closed, Other, TypeOK, LocksInv, SocketTypes, NetworkTypes,
       ConnectionInv, Making, Using, Down, Users, InCall, IsOpenPcs, ClosePcs,
       ConnectPcs, UsePcs, Files
  <2> QED
    BY <1>2, <2>1, <2>2, <2>3
<1>4. CASE IsOpenForgets(t)
  BY <1>1, <1>2, <1>4 DEF IsOpenForgets, Goto, Return, Enter, Leave, Errored,
     ErrorTaken, Ended, Closed, Other, TypeOK, LocksInv, SocketTypes, NetworkTypes,
     ConnectionInv, Making, Using, Down, Users, InCall, IsOpenPcs, ClosePcs, ConnectPcs,
     UsePcs, Files
<1>5. CASE CloseShutsDown(t)
  BY <1>1, <1>2, <1>5 DEF CloseShutsDown, Goto, Return, Enter, Leave, Errored,
     ErrorTaken, Ended, Closed, Other, TypeOK, LocksInv, SocketTypes, NetworkTypes,
     ConnectionInv, Making, Using, Down, Users, InCall, IsOpenPcs, ClosePcs, ConnectPcs,
     UsePcs, Files
<1>6. CASE CloseReleases(t)
  BY <1>1, <1>2, <1>6 DEF CloseReleases, Goto, Return, Enter, Leave, Errored,
     ErrorTaken, Ended, Closed, Other, TypeOK, LocksInv, SocketTypes, NetworkTypes,
     ConnectionInv, Making, Using, Down, Users, InCall, IsOpenPcs, ClosePcs, ConnectPcs,
     UsePcs, Files
<1>7. CASE ReadBegins(t)
  <2>1. CASE object = "making"
    BY <1>1, <1>2, <1>7, <2>1 DEF ReadBegins, Goto, Return, Enter, Leave, Errored,
       ErrorTaken, Ended, Closed, Other, TypeOK, LocksInv, SocketTypes, NetworkTypes,
       ConnectionInv, Making, Using, Down, Users, InCall, IsOpenPcs, ClosePcs,
       ConnectPcs, UsePcs, Files
  <2>2. CASE object = "shared"
    BY <1>1, <1>2, <1>7, <2>2 DEF ReadBegins, Goto, Return, Enter, Leave, Errored,
       ErrorTaken, Ended, Closed, Other, TypeOK, LocksInv, SocketTypes, NetworkTypes,
       ConnectionInv, Making, Using, Down, Users, InCall, IsOpenPcs, ClosePcs,
       ConnectPcs, UsePcs, Files
  <2>3. CASE object = "gone"
    BY <1>1, <1>2, <1>7, <2>3 DEF ReadBegins, Goto, Return, Enter, Leave, Errored,
       ErrorTaken, Ended, Closed, Other, TypeOK, LocksInv, SocketTypes, NetworkTypes,
       ConnectionInv, Making, Using, Down, Users, InCall, IsOpenPcs, ClosePcs,
       ConnectPcs, UsePcs, Files
  <2> QED
    BY <1>2, <2>1, <2>2, <2>3
<1>8. CASE RecvReturns(t)
  <2>1. CASE object = "making"
    BY ZenonT(40), <1>1, <1>2, <1>8, <2>1 DEF RecvReturns, Goto, Return, Enter, Leave,
       Errored, ErrorTaken, Ended, Closed, Other, TypeOK, LocksInv, SocketTypes,
       NetworkTypes, ConnectionInv, Making, Using, Down, Users, InCall, IsOpenPcs,
       ClosePcs, ConnectPcs, UsePcs, Files
  <2>2. CASE object = "shared"
    BY <1>1, <1>2, <1>8, <2>2 DEF RecvReturns, Goto, Return, Enter, Leave, Errored,
       ErrorTaken, Ended, Closed, Other, TypeOK, LocksInv, SocketTypes, NetworkTypes,
       ConnectionInv, Making, Using, Down, Users, InCall, IsOpenPcs, ClosePcs,
       ConnectPcs, UsePcs, Files
  <2>3. CASE object = "gone"
    BY <1>1, <1>2, <1>8, <2>3 DEF RecvReturns, Goto, Return, Enter, Leave, Errored,
       ErrorTaken, Ended, Closed, Other, TypeOK, LocksInv, SocketTypes, NetworkTypes,
       ConnectionInv, Making, Using, Down, Users, InCall, IsOpenPcs, ClosePcs,
       ConnectPcs, UsePcs, Files
  <2> QED
    BY <1>2, <2>1, <2>2, <2>3
<1>9. CASE WriteBegins(t)
  <2>1. CASE object = "making"
    BY <1>1, <1>2, <1>9, <2>1 DEF WriteBegins, Goto, Return, Enter, Leave, Errored,
       ErrorTaken, Ended, Closed, Other, TypeOK, LocksInv, SocketTypes, NetworkTypes,
       ConnectionInv, Making, Using, Down, Users, InCall, IsOpenPcs, ClosePcs,
       ConnectPcs, UsePcs, Files
  <2>2. CASE object = "shared"
    BY <1>1, <1>2, <1>9, <2>2 DEF WriteBegins, Goto, Return, Enter, Leave, Errored,
       ErrorTaken, Ended, Closed, Other, TypeOK, LocksInv, SocketTypes, NetworkTypes,
       ConnectionInv, Making, Using, Down, Users, InCall, IsOpenPcs, ClosePcs,
       ConnectPcs, UsePcs, Files
  <2>3. CASE object = "gone"
    BY <1>1, <1>2, <1>9, <2>3 DEF WriteBegins, Goto, Return, Enter, Leave, Errored,
       ErrorTaken, Ended, Closed, Other, TypeOK, LocksInv, SocketTypes, NetworkTypes,
       ConnectionInv, Making, Using, Down, Users, InCall, IsOpenPcs, ClosePcs,
       ConnectPcs, UsePcs, Files
  <2> QED
    BY <1>2, <2>1, <2>2, <2>3
<1>10. CASE SendTakes(t)
  BY <1>1, <1>2, <1>10 DEF SendTakes, Goto, Return, Enter, Leave, Errored, ErrorTaken,
     Ended, Closed, Other, TypeOK, LocksInv, SocketTypes, NetworkTypes, ConnectionInv,
     Making, Using, Down, Users, InCall, IsOpenPcs, ClosePcs, ConnectPcs, UsePcs, Files
<1>11. CASE SendReturns(t)
  <2>1. CASE object = "making"
    BY <1>1, <1>2, <1>11, <2>1 DEF SendReturns, Goto, Return, Enter, Leave, Errored,
       ErrorTaken, Ended, Closed, Other, TypeOK, LocksInv, SocketTypes, NetworkTypes,
       ConnectionInv, Making, Using, Down, Users, InCall, IsOpenPcs, ClosePcs,
       ConnectPcs, UsePcs, Files
  <2>2. CASE object = "shared"
    <3>1. s \in Fds /\ used[t] = s
      BY <1>1, <1>11 DEF SendReturns, TypeOK, SocketTypes, LocksInv, InCall
    <3>2. truncated' /\ ~truncated => ~file[s].up
      BY <1>1, <1>11, <2>2, <3>1 DEF SendReturns, ConnectionInv, Ended, FilesInv,
         TypeOK, SocketTypes
    <3>3. truncated' => ~file[s].up
      BY <1>1, <3>1, <3>2, SocketAssumption DEF ConnectionInv, Down, TypeOK, SocketTypes
    <3>4. truncated' => Down'
      BY <1>1, <1>11, <3>1, <3>3, ErrorTakenFiles DEF SendReturns, Down, TypeOK,
         SocketTypes
    <3>5. \A u \in Users : Using(u)'
      BY <1>1, <1>2, <1>11, <2>2 DEF SendReturns, Leave, Return, Goto, ConnectionInv,
         Using, UsePcs, TypeOK, SocketTypes
    <3> QED
      BY <1>1, <1>11, <2>2, <3>4, <3>5 DEF SendReturns, Leave, Return, Goto,
         ConnectionInv, Users, TypeOK, SocketTypes
  <2>3. CASE object = "gone"
    BY <1>1, <1>2, <1>11, <2>3 DEF SendReturns, Goto, Return, Enter, Leave, Errored,
       ErrorTaken, Ended, Closed, Other, TypeOK, LocksInv, SocketTypes, NetworkTypes,
       ConnectionInv, Making, Using, Down, Users, InCall, IsOpenPcs, ClosePcs,
       ConnectPcs, UsePcs, Files
  <2> QED
    BY <1>2, <2>1, <2>2, <2>3
<1>12. CASE AcceptBegins(t)
  BY <1>1, <1>2, <1>12 DEF AcceptBegins, Goto, Return, Enter, Leave, Errored,
     ErrorTaken, Ended, Closed, Other, TypeOK, LocksInv, SocketTypes, NetworkTypes,
     ConnectionInv, Making, Using, Down, Users, InCall, IsOpenPcs, ClosePcs, ConnectPcs,
     UsePcs, Files
<1>13. CASE AcceptReturns(t)
  BY <1>1, <1>2, <1>13, ZenonT(40) DEF AcceptReturns, Goto, Return, Enter, Leave, Errored,
     ErrorTaken, Ended, Closed, Other, TypeOK, LocksInv, SocketTypes, NetworkTypes,
     ConnectionInv, Making, Using, Down, Users, InCall, IsOpenPcs, ClosePcs, ConnectPcs,
     UsePcs, Files
<1>14. CASE AcceptFails(t)
  BY <1>1, <1>2, <1>14 DEF AcceptFails, Goto, Return, Enter, Leave, Errored, ErrorTaken,
     Ended, Closed, Other, TypeOK, LocksInv, SocketTypes, NetworkTypes, ConnectionInv,
     Making, Using, Down, Users, InCall, IsOpenPcs, ClosePcs, ConnectPcs, UsePcs, Files
<1> QED
  BY <1>3, <1>4, <1>5, <1>6, <1>7, <1>8, <1>9, <1>10, <1>11, <1>12, <1>13, <1>14 DEF
     Method

LEMMA MethodKeepsServer ==
    ASSUME Inv, NEW t \in Threads, Method(t), InSocket
    PROVE  ServerInv'
<1> USE NetworkAssumption, SocketAssumption DEF kernel, threads, InSocket, serverVars,
   connectVars
<1>1. TypeOK /\ LocksInv /\ FilesInv /\ ServerInv
  BY DEF Inv
<1> SUFFICES ASSUME role = "server"
             PROVE  ServerInv'
  BY DEF ServerInv
<1>2. \/ t \in Users /\ mutex = t /\ pc[t] \in IsOpenPcs \cup ClosePcs
      \/ t = Acceptor /\ pc[t] \in {"accept", "accepting"}
  <2>1. pc[t] \in MethodPcs
    BY ZenonT(40) DEF Method, MethodPcs, IsOpenPcs, ClosePcs, IsOpenLooks, IsOpenForgets,
       CloseShutsDown, CloseReleases, ReadBegins, RecvReturns, WriteBegins, SendTakes,
       SendReturns, AcceptBegins, AcceptReturns, AcceptFails
  <2> QED
    BY <1>1, <2>1 DEF ServerInv, HeldPcs, LoopPcs, MethodPcs, IsOpenPcs, ClosePcs, Users
<1>3. CASE IsOpenLooks(t)
  BY <1>1, <1>2, <1>3 DEF IsOpenLooks, Goto, Return, Enter, Leave, Errored, ErrorTaken,
     Closed, Other, TypeOK, FilesInv, Ours, SocketTypes, NetworkTypes, ServerInv,
     Serving, Up, Users, IsOpenPcs, ClosePcs, LoopPcs, HeldPcs, Files
<1>4. CASE IsOpenForgets(t)
  BY <1>1, <1>2, <1>4 DEF IsOpenForgets, Goto, Return, Enter, Leave, Errored,
     ErrorTaken, Closed, Other, TypeOK, FilesInv, Ours, SocketTypes, NetworkTypes,
     ServerInv, Serving, Up, Users, IsOpenPcs, ClosePcs, LoopPcs, HeldPcs, Files
<1>5. CASE CloseShutsDown(t)
  BY <1>1, <1>2, <1>5 DEF CloseShutsDown, Goto, Return, Enter, Leave, Errored,
     ErrorTaken, Closed, Other, TypeOK, FilesInv, Ours, SocketTypes, NetworkTypes,
     ServerInv, Serving, Up, Users, IsOpenPcs, ClosePcs, LoopPcs, HeldPcs, Files
<1>6. CASE CloseReleases(t)
  BY <1>1, <1>2, <1>6 DEF CloseReleases, Goto, Return, Enter, Leave, Errored,
     ErrorTaken, Closed, Other, TypeOK, FilesInv, Ours, SocketTypes, NetworkTypes,
     ServerInv, Serving, Up, Users, IsOpenPcs, ClosePcs, LoopPcs, HeldPcs, Files
<1>12. CASE AcceptBegins(t)
  BY <1>1, <1>2, <1>12 DEF AcceptBegins, Goto, Return, Enter, Leave, Errored,
     ErrorTaken, Closed, Other, TypeOK, FilesInv, Ours, SocketTypes, NetworkTypes,
     ServerInv, Serving, Up, Users, IsOpenPcs, ClosePcs, LoopPcs, HeldPcs, Files
<1>13. CASE AcceptReturns(t)
  BY <1>1, <1>2, <1>13 DEF AcceptReturns, Goto, Return, Enter, Leave, Errored,
     ErrorTaken, Closed, Other, TypeOK, FilesInv, Ours, SocketTypes, NetworkTypes,
     ServerInv, Serving, Up, Users, IsOpenPcs, ClosePcs, LoopPcs, HeldPcs, Files
<1>14. CASE AcceptFails(t)
  BY <1>1, <1>2, <1>14 DEF AcceptFails, Goto, Return, Enter, Leave, Errored, ErrorTaken,
     Closed, Other, TypeOK, FilesInv, Ours, SocketTypes, NetworkTypes, ServerInv,
     Serving, Up, Users, IsOpenPcs, ClosePcs, LoopPcs, HeldPcs, Files
<1> QED
  BY ZenonT(40), <1>2, <1>3, <1>4, <1>5, <1>6, <1>12, <1>13, <1>14 DEF Method, ReadBegins,
     RecvReturns, WriteBegins, SendTakes, SendReturns, IsOpenPcs, ClosePcs

LEMMA MethodKeepsInv ==
    ASSUME Inv, NEW t \in Threads, Method(t), InSocket
    PROVE  Inv'
BY MethodKeepsTypes, MethodKeepsLocks, MethodKeepsFiles, MethodKeepsConnection,
   MethodKeepsServer DEF Inv
-----------------------------------------------------------------------------
(* A thread that makes the connection goes on: the others are idle.        *)
LEMMA MakingAt ==
    ASSUME NEW t \in Users,
           \/ pc'[t] \in {"connect", "connecting", "drop", "connected.not"}
           \/ pc'[t] = "connect.check" /\ blocking'
           \/ pc'[t] = "select" /\ tv' = SelectTime(timeout')
           \/ pc'[t] = "isOpen" /\ blocking' /\ caller'[t] = <<"connected", "drop">>
           \/ pc'[t] = "close" /\ caller'[t] = <<"connected.not", "connected.not">>
    PROVE  Making(t)'
<1>1. CASE pc'[t] \in {"connect", "connecting", "drop", "connected.not"}
  BY <1>1 DEF Making, ConnectPcs, IsOpenPcs, ClosePcs
<1>2. CASE pc'[t] = "connect.check" /\ blocking'
  BY ZenonT(40), <1>2 DEF Making, ConnectPcs, IsOpenPcs, ClosePcs
<1>3. CASE pc'[t] = "select" /\ tv' = SelectTime(timeout')
  BY ZenonT(40), <1>3 DEF Making, ConnectPcs, IsOpenPcs, ClosePcs
<1>4. CASE pc'[t] = "isOpen" /\ blocking' /\ caller'[t] = <<"connected", "drop">>
  BY ZenonT(40), <1>4 DEF Making, ConnectPcs, IsOpenPcs, ClosePcs
<1>5. CASE pc'[t] = "close" /\ caller'[t] = <<"connected.not", "connected.not">>
  BY ZenonT(40), <1>5 DEF Making, ConnectPcs, IsOpenPcs, ClosePcs
<1> QED
  BY ZenonT(40), <1>1, <1>2, <1>3, <1>4, <1>5

LEMMA MakingKept ==
    ASSUME TypeOK, ConnectionInv, role = "connection", object = "making", NEW t \in Users,
           pc[t] # "idle", NEW w, pc' = [pc EXCEPT ![t] = w], Making(t)',
           UNCHANGED <<role, object, mutex, stopped, truncated>>
    PROVE  ConnectionInv'
<1>1. \A u \in Users : u # t => pc[u] = "idle"
  BY ZenonT(40) DEF ConnectionInv
<1>2. \A u \in Threads : u # t => pc'[u] = pc[u]
  BY DEF TypeOK, SocketTypes
<1>3. \A u \in Users : u # t => pc'[u] = "idle"
  BY ZenonT(40), <1>1, <1>2 DEF Users
<1>4. ASSUME NEW u \in Users, u # t PROVE Making(u)'
  BY ZenonT(40), <1>3, <1>4 DEF Making, ConnectPcs, IsOpenPcs, ClosePcs
<1>5. pc'[Acceptor] = "off"
  BY ZenonT(40), <1>2, NetworkAssumption DEF ConnectionInv, Users
<1> QED
  BY ZenonT(40), <1>3, <1>4, <1>5 DEF ConnectionInv

(* The steps of connect() after its first.                                 *)
LEMMA ConnectStepsKeepInv ==
    ASSUME Inv, NEW t \in Users, ConnectSteps(t)
    PROVE  Inv'
<1> USE NetworkAssumption, SocketAssumption DEF kernel, threads, serverVars, connectVars
<1>1. TypeOK /\ LocksInv /\ FilesInv /\ ConnectionInv /\ ServerInv
  BY DEF Inv
<1>2. pc[t] \in ConnectPcs /\ t \in Threads
  BY ZenonT(40) DEF ConnectSteps, ConnectPcs, Users, ConnectCreates, ConnectLocks,
     ConnectAnswers, SelectAnswers, ConnectChecks, ConnectReturns
<1>3. /\ role = "connection" /\ object = "making"
      /\ \A u \in Threads \ {t} : pc[u] \in {"idle", "off"}
  <2>1. role = "connection"
    BY <1>1, <1>2 DEF ServerInv, ConnectPcs, HeldPcs, IsOpenPcs, ClosePcs, TypeOK,
       NetworkTypes, Users
  <2> QED
    BY <1>1, <1>2, <2>1 DEF ConnectionInv, ConnectPcs, IsOpenPcs, ClosePcs, Using,
       UsePcs, TypeOK, NetworkTypes, Users
<1>4. /\ Making(t) /\ ~truncated /\ mutex = None /\ stopped
  BY <1>1, <1>3 DEF ConnectionInv
<1>5. {"connect", "connecting", "select", "connect.check", "drop", "connected",
       "connected.not", "isOpen", "close", "idle"} \subseteq Pcs
  BY DEF Pcs, ConnectPcs, UsePcs, IsOpenPcs, ClosePcs
<1>6. ServerInv'
  BY ZenonT(40), <1>3 DEF ConnectSteps, ConnectCreates, ConnectLocks, ConnectAnswers,
     SelectAnswers, ConnectChecks, ConnectReturns, ServerInv
<1>7. CASE ConnectCreates(t)
  <2>1. TypeOK'
    <3>1. pc' \in [Threads -> Pcs] /\ caller' \in [Threads -> Pcs \X Pcs]
      BY <1>1, <1>2, <1>5, <1>7 DEF ConnectCreates, Goto, Call, Enter, Unlocked, TypeOK,
         SocketTypes
    <3>2. file' \in [Fds -> Files]
      <4>1. file' = file \/ \E fd \in Fds : file' = [file EXCEPT ![fd] = Opened]
        BY <1>7 DEF ConnectCreates
      <4>2. file \in [Fds -> Files]
        BY <1>1 DEF TypeOK, SocketTypes
      <4> QED
        BY ZenonT(40), <4>1, <4>2, FilesChanged
    <3>3. NetworkTypes'
      BY <1>1, <1>7 DEF ConnectCreates, TypeOK, NetworkTypes
    <3> QED
      BY <1>1, <1>7, <3>1, <3>2, <3>3 DEF ConnectCreates, Enter, Unlocked, TypeOK,
         SocketTypes
  <2>2. LocksInv'
    BY <1>1, <1>2, <1>3, <1>4, <1>7, ZenonT(40) DEF ConnectCreates, Goto, Call, Enter, Unlocked,
       TypeOK, SocketTypes, LocksInv, InCall, Making
  <2>3. FilesInv'
    <3>1. UNCHANGED forgotten /\ s = InvalidSocket
      BY <1>1, <1>3, <1>4, <1>7, ZenonT(40) DEF ConnectCreates, Making
    <3>2. CASE UNCHANGED <<s, file>>
      BY <1>1, <3>1, <3>2, FilesKept DEF TypeOK
    <3>3. ASSUME NEW fd \in Fds, file[fd].of = "none", file' = [file EXCEPT ![fd] = Opened], s' = fd
          PROVE  FilesInv'
      BY <1>1, <3>1, <3>3, ZenonT(40) DEF FilesInv, NothingLeaks, Ours, Opened, TypeOK, SocketTypes,
         Files
    <3> QED
      BY <1>7, <3>2, <3>3, ZenonT(40) DEF ConnectCreates
  <2>4. ConnectionInv'
    <3>1. PICK w : pc' = [pc EXCEPT ![t] = w]
      BY <1>7 DEF ConnectCreates, Goto, Call, Enter, Unlocked
    <3>2. UNCHANGED <<role, object, mutex, stopped, truncated, timeout>>
      BY <1>7 DEF ConnectCreates
    <3>3. pc[t] # "idle"
      BY <1>2 DEF ConnectPcs
    <3>4. Making(t)'
      BY ZenonT(40), <1>1, <1>2, <1>4, <1>7, <3>2, MakingAt
      DEF ConnectCreates, Goto, Call, Enter, Unlocked, TypeOK, SocketTypes, Making
    <3> QED
      BY ZenonT(40), <1>1, <1>3, <3>1, <3>2, <3>3, <3>4, MakingKept
  <2> QED
    BY <1>6, <2>1, <2>2, <2>3, <2>4 DEF Inv
<1>8. CASE ConnectLocks(t)
  <2>1. TypeOK'
    <3>1. pc' \in [Threads -> Pcs] /\ caller' \in [Threads -> Pcs \X Pcs]
      BY <1>1, <1>2, <1>5, <1>8 DEF ConnectLocks, Goto, Call, Enter, Unlocked, TypeOK,
         SocketTypes
    <3>2. file' \in [Fds -> Files]
      BY <1>1, <1>8, FilesChanged, ErrorTakenFiles DEF ConnectLocks, TypeOK, SocketTypes
    <3>3. NetworkTypes'
      BY <1>1, <1>8 DEF ConnectLocks, TypeOK, NetworkTypes
    <3>4. blocking' \in BOOLEAN
      BY ZenonT(40), <1>1, <1>8 DEF ConnectLocks, TypeOK, SocketTypes
    <3>5. used' \in [Threads -> Fds \cup {InvalidSocket}] /\ readLocks' \subseteq Threads
      BY <1>1, <1>2, <1>8 DEF ConnectLocks, Enter, TypeOK, SocketTypes
    <3> QED
      BY <1>1, <1>8, <3>1, <3>2, <3>3, <3>4, <3>5 DEF ConnectLocks, TypeOK, SocketTypes
  <2>2. LocksInv'
    BY <1>1, <1>2, <1>3, <1>4, <1>8 DEF ConnectLocks, Goto, Call, Enter, Unlocked,
       TypeOK, SocketTypes, LocksInv, InCall, Making
  <2>3. FilesInv'
    BY <1>1, <1>8, ErrorTakenFiles, FilesKept DEF ConnectLocks, TypeOK, SocketTypes
  <2>4. ConnectionInv'
    <3>1. PICK w : pc' = [pc EXCEPT ![t] = w]
      BY <1>8 DEF ConnectLocks, Goto, Call, Enter, Unlocked
    <3>2. UNCHANGED <<role, object, mutex, stopped, truncated, timeout>>
      BY <1>8 DEF ConnectLocks
    <3>3. pc[t] # "idle"
      BY <1>2 DEF ConnectPcs
    <3>4. Making(t)'
      BY ZenonT(40), <1>1, <1>2, <1>4, <1>8, <3>2, MakingAt
      DEF ConnectLocks, Goto, Call, Enter, Unlocked, TypeOK, SocketTypes, Making
    <3> QED
      BY ZenonT(40), <1>1, <1>3, <3>1, <3>2, <3>3, <3>4, MakingKept
  <2> QED
    BY <1>6, <2>1, <2>2, <2>3, <2>4 DEF Inv
<1>9. CASE ConnectAnswers(t)
  <2>1. TypeOK'
    <3>1. pc' \in [Threads -> Pcs] /\ caller' \in [Threads -> Pcs \X Pcs]
      BY <1>1, <1>2, <1>5, <1>9 DEF ConnectAnswers, Goto, Call, Enter, Unlocked, TypeOK,
         SocketTypes
    <3>2. file' \in [Fds -> Files]
      BY <1>1, <1>9, FilesChanged, ErrorTakenFiles DEF ConnectAnswers, TypeOK,
         SocketTypes
    <3>3. NetworkTypes'
      BY <1>1, <1>9, ZenonT(40) DEF ConnectAnswers, TypeOK, NetworkTypes
    <3> QED
      BY ZenonT(40), <1>1, <1>9, <3>1, <3>2, <3>3 DEF ConnectAnswers, Enter, Unlocked,
         TypeOK, SocketTypes
  <2>2. LocksInv'
    BY <1>1, <1>2, <1>3, <1>4, <1>9 DEF ConnectAnswers, Goto, Call, Enter, Unlocked,
       TypeOK, SocketTypes, LocksInv, InCall, Making
  <2>3. FilesInv'
    BY <1>1, <1>9, ErrorTakenFiles, FilesKept DEF ConnectAnswers, TypeOK, SocketTypes
  <2>4. ConnectionInv'
    <3>1. PICK w : pc' = [pc EXCEPT ![t] = w]
      BY <1>9 DEF ConnectAnswers, Goto, Call, Enter, Unlocked
    <3>2. UNCHANGED <<role, object, mutex, stopped, truncated, timeout>>
      BY <1>9 DEF ConnectAnswers
    <3>3. pc[t] # "idle"
      BY <1>2 DEF ConnectPcs
    <3>4. Making(t)'
      BY ZenonT(40), <1>1, <1>2, <1>4, <1>9, <3>2, MakingAt
      DEF ConnectAnswers, Goto, Call, Enter, Unlocked, TypeOK, SocketTypes, Making
    <3> QED
      BY ZenonT(40), <1>1, <1>3, <3>1, <3>2, <3>3, <3>4, MakingKept
  <2> QED
    BY <1>6, <2>1, <2>2, <2>3, <2>4 DEF Inv
<1>10. CASE SelectAnswers(t)
  <2>1. TypeOK'
    <3>1. pc' \in [Threads -> Pcs] /\ caller' \in [Threads -> Pcs \X Pcs]
      BY <1>1, <1>2, <1>5, <1>10 DEF SelectAnswers, Goto, Call, Enter, Unlocked, TypeOK,
         SocketTypes
    <3>2. file' \in [Fds -> Files]
      BY <1>1, <1>10, FilesChanged, ErrorTakenFiles DEF SelectAnswers, TypeOK,
         SocketTypes
    <3>3. NetworkTypes'
      BY <1>1, <1>10, ZenonT(40) DEF SelectAnswers, TypeOK, NetworkTypes
    <3> QED
      BY ZenonT(40), <1>1, <1>10, <3>1, <3>2, <3>3 DEF SelectAnswers, Enter, Unlocked,
         TypeOK, SocketTypes
  <2>2. LocksInv'
    BY <1>1, <1>2, <1>3, <1>4, <1>10 DEF SelectAnswers, Goto, Call, Enter, Unlocked,
       TypeOK, SocketTypes, LocksInv, InCall, Making
  <2>3. FilesInv'
    BY <1>1, <1>10, ErrorTakenFiles, FilesKept DEF SelectAnswers, TypeOK, SocketTypes
  <2>4. ConnectionInv'
    <3>1. PICK w : pc' = [pc EXCEPT ![t] = w]
      BY <1>10 DEF SelectAnswers, Goto, Call, Enter, Unlocked
    <3>2. UNCHANGED <<role, object, mutex, stopped, truncated, timeout>>
      BY <1>10 DEF SelectAnswers
    <3>3. pc[t] # "idle"
      BY <1>2 DEF ConnectPcs
    <3>4. Making(t)'
      BY ZenonT(40), <1>1, <1>2, <1>4, <1>10, <3>2, MakingAt
      DEF SelectAnswers, Goto, Call, Enter, Unlocked, TypeOK, SocketTypes, Making
    <3> QED
      BY ZenonT(40), <1>1, <1>3, <3>1, <3>2, <3>3, <3>4, MakingKept
  <2> QED
    BY <1>6, <2>1, <2>2, <2>3, <2>4 DEF Inv
<1>11. CASE ConnectChecks(t)
  <2>1. TypeOK'
    <3>1. pc' \in [Threads -> Pcs] /\ caller' \in [Threads -> Pcs \X Pcs]
      BY <1>1, <1>2, <1>5, <1>11 DEF ConnectChecks, Goto, Call, Enter, Unlocked, TypeOK,
         SocketTypes
    <3>2. file' \in [Fds -> Files]
      BY <1>1, <1>11, FilesChanged, ErrorTakenFiles DEF ConnectChecks, TypeOK,
         SocketTypes
    <3>3. NetworkTypes'
      BY <1>1, <1>11, ZenonT(40) DEF ConnectChecks, TypeOK, NetworkTypes
    <3> QED
      BY <1>1, <1>11, <3>1, <3>2, <3>3 DEF ConnectChecks, Enter, Unlocked, TypeOK,
         SocketTypes
  <2>2. LocksInv'
    BY <1>1, <1>2, <1>3, <1>4, <1>11, ZenonT(40) DEF ConnectChecks, Goto, Call, Enter, Unlocked,
       TypeOK, SocketTypes, LocksInv, InCall, Making
  <2>3. FilesInv'
    BY <1>1, <1>11, ErrorTakenFiles, FilesKept DEF ConnectChecks, TypeOK, SocketTypes
  <2>4. ConnectionInv'
    <3>1. PICK w : pc' = [pc EXCEPT ![t] = w]
      BY <1>11 DEF ConnectChecks, Goto, Call, Enter, Unlocked
    <3>2. UNCHANGED <<role, object, mutex, stopped, truncated, timeout>>
      BY <1>11 DEF ConnectChecks
    <3>3. pc[t] # "idle"
      BY <1>2 DEF ConnectPcs
    <3>4. Making(t)'
      BY ZenonT(40), <1>1, <1>2, <1>4, <1>11, <3>2, MakingAt
      DEF ConnectChecks, Goto, Call, Enter, Unlocked, TypeOK, SocketTypes, Making
    <3> QED
      BY ZenonT(40), <1>1, <1>3, <3>1, <3>2, <3>3, <3>4, MakingKept
  <2> QED
    BY <1>6, <2>1, <2>2, <2>3, <2>4 DEF Inv
<1>12. CASE ConnectReturns(t)
  <2>1. TypeOK'
    <3>1. pc' \in [Threads -> Pcs] /\ caller' \in [Threads -> Pcs \X Pcs]
      BY <1>1, <1>2, <1>5, <1>12 DEF ConnectReturns, Goto, Call, Enter, Unlocked,
         TypeOK, SocketTypes
    <3>2. file' \in [Fds -> Files]
      BY <1>1, <1>12, FilesChanged, ErrorTakenFiles DEF ConnectReturns, TypeOK,
         SocketTypes
    <3>3. NetworkTypes'
      BY <1>1, <1>12 DEF ConnectReturns, TypeOK, NetworkTypes
    <3> QED
      BY <1>1, <1>12, <3>1, <3>2, <3>3 DEF ConnectReturns, Enter, Unlocked, TypeOK,
         SocketTypes
  <2>2. LocksInv'
    BY <1>1, <1>2, <1>3, <1>4, <1>12 DEF ConnectReturns, Goto, Call, Enter, Unlocked,
       TypeOK, SocketTypes, LocksInv, InCall, Making
  <2>3. FilesInv'
    BY <1>1, <1>12, ErrorTakenFiles, FilesKept DEF ConnectReturns, TypeOK, SocketTypes
  <2>4. ConnectionInv'
    BY ZenonT(40), <1>1, <1>2, <1>3, <1>4, <1>12 DEF ConnectReturns, Goto, Call, Enter,
       Unlocked, TypeOK, SocketTypes, NetworkTypes, ConnectionInv, Making, Using, Users,
       InCall, IsOpenPcs, ClosePcs, ConnectPcs, UsePcs
  <2> QED
    BY <1>6, <2>1, <2>2, <2>3, <2>4 DEF Inv
<1> QED
  BY <1>7, <1>8, <1>9, <1>10, <1>11, <1>12 DEF ConnectSteps

(* A call of a method begins or ~Shared runs close(): the caller is using  *)
(* the connection, and what the others do stays.                           *)
LEMMA UsingKept ==
    ASSUME TypeOK, ConnectionInv, role = "connection", object = "shared", NEW t \in Users,
           NEW w \in {"read", "write", "write.nothing", "isOpen", "close"},
           pc' = [pc EXCEPT ![t] = w], caller' = [caller EXCEPT ![t] = <<"idle", "idle">>],
           \/ object' = "shared"
           \/ object' = "gone" /\ w = "close" /\ \A u \in Users : pc[u] = "idle",
           UNCHANGED <<role, mutex, stopped, truncated, s, file, blocking>>
    PROVE  ConnectionInv'
<1>1. /\ mutex = None /\ stopped /\ pc[Acceptor] = "off" /\ blocking
      /\ (truncated => Down) /\ \A u \in Users : Using(u)
  BY ZenonT(40) DEF ConnectionInv
<1>2. /\ pc'[t] = w /\ caller'[t] = <<"idle", "idle">>
      /\ \A u \in Threads : u # t => pc'[u] = pc[u] /\ caller'[u] = caller[u]
  BY DEF TypeOK, SocketTypes, Users
<1>3. Using(t)'
  BY <1>2 DEF Using, UsePcs, IsOpenPcs, ClosePcs
<1>4. \A u \in Users : Using(u)'
  BY ZenonT(40), <1>1, <1>2, <1>3 DEF Using, Users
<1>5. pc'[Acceptor] = "off"
  BY ZenonT(40), <1>1, <1>2, NetworkAssumption DEF Users
<1>6. Down' <=> Down
  BY ZenonT(40) DEF Down
<1>7. CASE object' = "shared"
  BY ZenonT(40), <1>1, <1>4, <1>5, <1>6, <1>7 DEF ConnectionInv
<1>8. CASE object' = "gone" /\ w = "close" /\ \A u \in Users : pc[u] = "idle"
  <2>1. \A u \in Users : u # t => pc'[u] = "idle"
    BY ZenonT(40), <1>2, <1>8 DEF Users
  <2>2. pc'[t] = "close" /\ "close" \in ClosePcs
    BY <1>2, <1>8 DEF ClosePcs
  <2> QED
    BY ZenonT(40), <1>1, <1>4, <1>5, <1>6, <1>8, <2>1, <2>2 DEF ConnectionInv
<1> QED
  BY ZenonT(40), <1>7, <1>8

(* A call that begins: connect(), a method of the connection, ~Shared,     *)
(* start() or stop().                                                      *)
LEMMA CallsKeepInv ==
    ASSUME Inv, NEW t \in Users,
           (\E millis \in Timeouts : Connect(t, millis)) \/ Use(t) \/ Destroy(t) \/ Serve(t)
    PROVE  Inv'
<1> USE NetworkAssumption, SocketAssumption DEF kernel, threads, serverVars, connectVars
<1>1. TypeOK /\ LocksInv /\ FilesInv /\ ConnectionInv /\ ServerInv
  BY DEF Inv
<1>2. pc[t] = "idle" /\ t \in Threads /\ t # Acceptor
  BY ZenonT(40) DEF Connect, Use, Destroy, Serve, Idle, Users
<1>3. PICK w \in {"create", "read", "write", "write.nothing", "isOpen", "close", "start", "stop"} :
          pc' = [pc EXCEPT ![t] = w]
  BY DEF Connect, Use, Destroy, Serve, Goto, Call
<1>4. w \in Pcs /\ w \notin InCall /\ "idle" \in Pcs
  BY ZenonT(40) DEF Pcs, ConnectPcs, UsePcs, IsOpenPcs, ClosePcs, InCall
<1>5. TypeOK'
  <2>1. pc' \in [Threads -> Pcs] /\ caller' \in [Threads -> Pcs \X Pcs]
    BY <1>1, <1>2, <1>3, <1>4 DEF Connect, Use, Destroy, Serve, Call, TypeOK,
       SocketTypes
  <2>2. NetworkTypes'
    BY <1>1 DEF Connect, Use, Destroy, Serve, TypeOK, NetworkTypes
  <2> QED
    BY <1>1, <2>1, <2>2, ZenonT(40) DEF Connect, Use, Destroy, Serve, TypeOK, SocketTypes
<1>6. LocksInv'
  BY ZenonT(40), <1>1, <1>2, <1>3, <1>4 DEF Connect, Use, Destroy, Serve, LocksInv, TypeOK,
     SocketTypes, InCall
<1>7. FilesInv'
  BY <1>1, FilesKept DEF Connect, Use, Destroy, Serve, TypeOK
<1>8. ASSUME NEW millis \in Timeouts, Connect(t, millis)
      PROVE  ConnectionInv' /\ ServerInv'
  BY ZenonT(40), <1>1, <1>2, <1>8 DEF Connect, Goto, ConnectionInv, ServerInv, Making,
     TypeOK, SocketTypes, Users, ConnectPcs, IsOpenPcs, ClosePcs
<1>9. ASSUME Use(t)
      PROVE  ConnectionInv' /\ ServerInv'
  <2>1. role = "connection"
    BY ZenonT(40), <1>1, <1>9 DEF Use, ServerInv, TypeOK, NetworkTypes
  <2>2. PICK m \in {"read", "write", "write.nothing", "isOpen", "close"} :
           Call(t, m, "idle", "idle")
    BY ZenonT(40), <1>9 DEF Use
  <2>3. ConnectionInv'
    BY ZenonT(40), <1>1, <1>9, <2>1, <2>2, UsingKept DEF Use, Call
  <2> QED
    BY ZenonT(40), <1>9, <2>1, <2>3 DEF Use, ServerInv
<1>10. ASSUME Destroy(t)
      PROVE  ConnectionInv' /\ ServerInv'
  <2>1. role = "connection"
    BY ZenonT(40), <1>1, <1>10 DEF Destroy, ServerInv, TypeOK, NetworkTypes
  <2>2. ConnectionInv'
    BY ZenonT(40), <1>1, <1>10, <2>1, UsingKept DEF Destroy, Call
  <2> QED
    BY ZenonT(40), <1>10, <2>1, <2>2 DEF Destroy, ServerInv
<1>11. ASSUME Serve(t)
      PROVE  ConnectionInv' /\ ServerInv'
  <2>1. /\ role = "server" /\ mutex # t /\ caller' = caller
        /\ UNCHANGED <<role, object, truncated, mutex, stopped, s, file, readLocks>>
    BY ZenonT(40), <1>1, <1>2, <1>11 DEF Serve, ServerInv, HeldPcs, IsOpenPcs, ClosePcs
  <2>2. pc'[t] \in {"start", "stop"} /\ \A u \in Threads \ {t} : pc'[u] = pc[u]
    BY <1>1, <1>2, <1>11 DEF Serve, Goto, TypeOK, SocketTypes
  <2>3. \A u \in Users : Serving(u) /\ u # t => Serving(u)'
    BY ZenonT(40), <2>1, <2>2, <1>2 DEF Serving, Up, Users
  <2>4. Up' <=> Up
    BY <2>1 DEF Up
  <2> QED
    BY ZenonT(40), <1>1, <1>2, <2>1, <2>2, <2>3, <2>4 DEF ConnectionInv, ServerInv, Users
<1> QED
  BY <1>5, <1>6, <1>7, <1>8, <1>9, <1>10, <1>11 DEF Inv

(* The steps of start() and stop() after the first.                        *)
LEMMA ServerStepsKeepInv ==
    ASSUME Inv, NEW t \in Users, ServerSteps(t)
    PROVE  Inv'
<1> USE NetworkAssumption, SocketAssumption DEF kernel, threads, serverVars, connectVars
<1>1. TypeOK /\ LocksInv /\ FilesInv /\ ConnectionInv /\ ServerInv
  BY DEF Inv
<1>2. t \in Threads /\ t # Acceptor /\ Acceptor \in Threads
  BY DEF Users
<1>3. pc[t] \in {"start", "stop", "start.stop", "stop.stop", "start.join", "stop.join",
                "start.bind", "start.check", "start.run", "start.fail", "stop.done"}
  BY ZenonT(40) DEF ServerSteps, Stopping, LockServer, StopWithLock, JoinAcceptor,
     StartBinds, StartChecks, ServerReturns
<1>4. role = "server"
  BY ZenonT(40), <1>1, <1>3 DEF ConnectionInv, Making, Using, TypeOK, NetworkTypes,
     ConnectPcs, UsePcs, IsOpenPcs, ClosePcs
<1>5. {"start.stop", "stop.stop", "start.join", "stop.join", "start.bind", "start.check",
       "start.run", "start.fail", "stop.done", "off", "loop", "idle", "isOpen", "close"}
         \subseteq Pcs
  BY DEF Pcs, HeldPcs, LoopPcs, UsePcs, IsOpenPcs, ClosePcs
<1>6. ConnectionInv'
  BY ZenonT(40), <1>4 DEF ServerSteps, LockServer, StopWithLock, JoinAcceptor, StartBinds,
     StartChecks, ServerReturns, ConnectionInv
<1>7. CASE LockServer(t)
  <2>1. TypeOK'
    <3>1. pc' \in [Threads -> Pcs] /\ caller' \in [Threads -> Pcs \X Pcs]
      BY <1>1, <1>2, <1>5, <1>7 DEF LockServer, Goto, Call, Stopping, AfterStop, JoinOf,
         TypeOK, SocketTypes
    <3>2. NetworkTypes'
      BY <1>1, <1>7, ZenonT(40) DEF LockServer, TypeOK, NetworkTypes
    <3> QED
      BY <1>1, <1>7, <3>1, <3>2 DEF LockServer, TypeOK, SocketTypes
  <2>2. LocksInv'
    BY <1>1, <1>2, <1>3, <1>4, <1>7 DEF LockServer, Goto, Call, Stopping, AfterStop,
       JoinOf, TypeOK, SocketTypes, LocksInv, InCall
  <2>3. FilesInv'
    BY <1>1, <1>7, FilesKept DEF LockServer, TypeOK
  <2>4. ServerInv'
    BY ZenonT(40), <1>1, <1>2, <1>3, <1>4, <1>7 DEF LockServer, Goto, Call, Stopping,
       AfterStop, JoinOf, TypeOK, SocketTypes, NetworkTypes, ServerInv, Serving, Up,
       Users, HeldPcs, IsOpenPcs, ClosePcs, LoopPcs
  <2> QED
    BY <1>6, <2>1, <2>2, <2>3, <2>4 DEF Inv
<1>8. CASE StopWithLock(t)
  <2>1. TypeOK'
    <3>1. pc' \in [Threads -> Pcs] /\ caller' \in [Threads -> Pcs \X Pcs]
      BY <1>1, <1>2, <1>5, <1>8 DEF StopWithLock, Goto, Call, Stopping, AfterStop,
         JoinOf, TypeOK, SocketTypes
    <3>2. NetworkTypes'
      BY <1>1, <1>8 DEF StopWithLock, TypeOK, NetworkTypes
    <3> QED
      BY ZenonT(40), <1>1, <1>8, <3>1, <3>2 DEF StopWithLock, TypeOK, SocketTypes
  <2>2. LocksInv'
    BY ZenonT(40), <1>1, <1>2, <1>3, <1>4, <1>8 DEF StopWithLock, Goto, Call, Stopping,
       AfterStop, JoinOf, TypeOK, SocketTypes, LocksInv, InCall
  <2>3. FilesInv'
    BY <1>1, <1>8, FilesKept DEF StopWithLock, TypeOK
  <2>4. ServerInv'
    <3>1. mutex = t /\ Serving(t) /\ pc[t] \in Stopping
      BY ZenonT(40), <1>1, <1>2, <1>4, <1>8 DEF StopWithLock, ServerInv, Stopping
    <3>2. stopped' /\ UNCHANGED <<role, object, truncated, mutex, s, file>>
      BY <1>8 DEF StopWithLock
    <3>3. \A u \in Threads : u # t => pc'[u] = pc[u] /\ caller'[u] = caller[u]
      BY ZenonT(40), <1>1, <1>8 DEF StopWithLock, Goto, Call, TypeOK, SocketTypes
    <3>4. pc'[t] \in HeldPcs /\ Serving(t)'
      <4>1. CASE stopped
        <5>1. pc'[t] = "start.bind" \/ pc'[t] = "stop.done"
          BY ZenonT(40), <1>1, <1>2, <1>8, <4>1 DEF StopWithLock, Goto, AfterStop, TypeOK,
             SocketTypes
        <5>2. s' = InvalidSocket /\ pc'[Acceptor] = "off"
          BY ZenonT(40), <1>2, <3>1, <3>2, <3>3, <4>1 DEF Serving, Stopping
        <5> QED
          BY ZenonT(40), <3>2, <5>1, <5>2 DEF Serving, HeldPcs, IsOpenPcs, ClosePcs
      <4>2. CASE ~stopped
        <5>1. /\ pc'[t] = "close"
              /\ caller'[t] \in {<<"start.join", "idle">>, <<"stop.join", "idle">>}
          BY ZenonT(40), <1>1, <1>2, <1>8, <4>2 DEF StopWithLock, Call, JoinOf, TypeOK,
             SocketTypes
        <5> QED
          BY ZenonT(40), <3>2, <5>1 DEF Serving, HeldPcs, IsOpenPcs, ClosePcs
      <4> QED
        BY ZenonT(40), <4>1, <4>2
    <3>5. mutex # None
      BY ZenonT(40), <1>2, <3>1, NetworkAssumption
    <3> QED
      BY ZenonT(40), <1>1, <1>2, <1>4, <3>1, <3>2, <3>3, <3>4, <3>5 DEF ServerInv, Users
  <2> QED
    BY <1>6, <2>1, <2>2, <2>3, <2>4 DEF Inv
<1>9. CASE JoinAcceptor(t)
  <2>1. TypeOK'
    <3>1. pc' \in [Threads -> Pcs] /\ caller' \in [Threads -> Pcs \X Pcs]
      BY <1>1, <1>2, <1>5, <1>9 DEF JoinAcceptor, Goto, Call, Stopping, AfterStop,
         JoinOf, TypeOK, SocketTypes
    <3>2. NetworkTypes'
      BY <1>1, <1>9 DEF JoinAcceptor, TypeOK, NetworkTypes
    <3> QED
      BY ZenonT(40), <1>1, <1>9, <3>1, <3>2 DEF JoinAcceptor, TypeOK, SocketTypes
  <2>2. LocksInv'
    BY <1>1, <1>2, <1>3, <1>4, <1>9 DEF JoinAcceptor, Goto, Call, Stopping, AfterStop,
       JoinOf, TypeOK, SocketTypes, LocksInv, InCall
  <2>3. FilesInv'
    BY <1>1, <1>9, FilesKept DEF JoinAcceptor, TypeOK
  <2>4. ServerInv'
    <3>1. /\ pc'[t] \in {"start.bind", "stop.done"} /\ pc'[Acceptor] = "off"
          /\ \A u \in Users \ {t} : pc'[u] = pc[u]
      BY <1>1, <1>2, <1>9 DEF JoinAcceptor, TypeOK, SocketTypes, Users
    <3>2. mutex = t /\ Serving(t) /\ UNCHANGED <<role, object, truncated, mutex, stopped, s, file>>
      BY ZenonT(40), <1>1, <1>2, <1>4, <1>9 DEF JoinAcceptor, ServerInv
    <3>3. stopped /\ s = InvalidSocket
      <4>1. pc[t] = "start.join" \/ pc[t] = "stop.join"
        BY ZenonT(40), <1>9 DEF JoinAcceptor
      <4> QED
        BY ZenonT(40), <3>2, <4>1 DEF Serving
    <3>4. Serving(t)'
      <4>1. stopped' /\ s' = InvalidSocket /\ pc'[Acceptor] = "off"
        BY ZenonT(40), <3>1, <3>2, <3>3
      <4>2. pc'[t] = "start.bind" \/ pc'[t] = "stop.done"
        BY ZenonT(40), <3>1
      <4> QED
        BY ZenonT(40), <4>1, <4>2 DEF Serving, IsOpenPcs, ClosePcs, Up
    <3>5. \A u \in Users : IF mutex' = u THEN pc'[u] \in HeldPcs /\ Serving(u)'
                           ELSE pc'[u] \in {"idle", "start", "stop"}
      BY ZenonT(40), <1>1, <1>4, <3>1, <3>2, <3>4 DEF ServerInv, HeldPcs
    <3>6. t # None
      BY ZenonT(40), <1>2, NetworkAssumption
    <3> QED
      BY ZenonT(40), <1>1, <1>4, <3>1, <3>2, <3>3, <3>5, <3>6 DEF ServerInv, LoopPcs
  <2> QED
    BY <1>6, <2>1, <2>2, <2>3, <2>4 DEF Inv
<1>10. CASE StartBinds(t)
  <2>1. /\ mutex = t /\ stopped /\ s = InvalidSocket /\ pc[Acceptor] = "off" /\ pc[t] = "start.bind"
        /\ \A u \in Threads : used[u] = InvalidSocket
    <3>1. mutex = t /\ pc[t] = "start.bind"
      BY ZenonT(40), <1>1, <1>4, <1>10 DEF StartBinds, ServerInv
    <3>2. stopped /\ s = InvalidSocket /\ pc[Acceptor] = "off"
      BY ZenonT(40), <1>1, <1>4, <3>1 DEF ServerInv, Serving
    <3>3. \A u \in Threads : used[u] = InvalidSocket
      BY <1>1, <3>2 DEF LocksInv, TypeOK, SocketTypes
    <3> QED
      BY ZenonT(40), <3>1, <3>2, <3>3
  <2>2. CASE Goto(t, "start.check") /\ UNCHANGED <<s, file, readLocks, caller>>
    <3>1. TypeOK'
      BY ZenonT(40), <1>1, <1>2, <1>5, <1>10, <2>2 DEF StartBinds, Goto, TypeOK, SocketTypes,
         NetworkTypes
    <3>2. LocksInv'
      BY ZenonT(40), <1>1, <1>2, <1>10, <2>1, <2>2 DEF StartBinds, Goto, LocksInv, TypeOK,
         SocketTypes, InCall
    <3>3. FilesInv'
      <4>1. UNCHANGED <<s, file, forgotten>>
        BY <1>10, <2>2, ZenonT(40) DEF StartBinds
      <4> QED
        BY <1>1, <4>1, FilesKept DEF TypeOK
    <3>4. ServerInv'
      BY ZenonT(40), <1>1, <1>2, <1>4, <1>10, <2>1, <2>2 DEF StartBinds, Goto, ServerInv,
         Serving, Up, Users, HeldPcs, IsOpenPcs, ClosePcs, LoopPcs, TypeOK, SocketTypes
    <3> QED
      BY <1>6, <3>1, <3>2, <3>3, <3>4 DEF Inv
  <2>3. ASSUME NEW fd \in Fds, NEW bound \in BOOLEAN,
               file[fd].of = "none", file' = [file EXCEPT ![fd] = Opened], s' = fd,
               readLocks' = (IF bound THEN readLocks ELSE readLocks \cup {t}),
               Call(t, IF bound THEN "start.check" ELSE "close", "start.check", "start.check")
        PROVE  Inv'
    <3>1. TypeOK'
      <4>1. pc' \in [Threads -> Pcs] /\ caller' \in [Threads -> Pcs \X Pcs]
        BY <1>1, <1>2, <1>5, <2>3 DEF Call, TypeOK, SocketTypes
      <4>2. file' \in [Fds -> Files]
        BY ZenonT(40), <1>1, <2>3, FilesChanged DEF TypeOK, SocketTypes
      <4>3. NetworkTypes'
        BY <1>1, <1>10, ZenonT(40) DEF StartBinds, TypeOK, NetworkTypes
      <4> QED
        BY <1>1, <1>2, <1>10, <2>3, <4>1, <4>2, <4>3, ZenonT(40) DEF StartBinds, TypeOK, SocketTypes
    <3>2. LocksInv'
      BY <1>1, <1>2, <1>10, <2>1, <2>3 DEF StartBinds, Call, LocksInv, TypeOK,
         SocketTypes, InCall
    <3>3. FilesInv'
      BY ZenonT(40), <1>1, <1>10, <2>1, <2>3 DEF StartBinds, FilesInv, NothingLeaks, Ours,
         Opened, TypeOK, SocketTypes, Files
    <3>4. ServerInv'
      BY ZenonT(40), <1>1, <1>2, <1>4, <1>10, <2>1, <2>3 DEF StartBinds, Call, ServerInv,
         Serving, Up, Opened, Users, HeldPcs, IsOpenPcs, ClosePcs, LoopPcs, TypeOK,
         SocketTypes
    <3> QED
      BY <1>6, <3>1, <3>2, <3>3, <3>4, ZenonT(40) DEF Inv
  <2>4. ASSUME s' = InvalidSocket, readLocks' = readLocks \cup {t},
               Call(t, "close", "start.check", "start.check"), UNCHANGED file
        PROVE  Inv'
    <3>1. TypeOK'
      <4>1. pc' \in [Threads -> Pcs] /\ caller' \in [Threads -> Pcs \X Pcs]
        BY <1>1, <1>2, <1>5, <2>4 DEF Call, TypeOK, SocketTypes
      <4>2. NetworkTypes'
        BY <1>1, <1>10, ZenonT(40) DEF StartBinds, TypeOK, NetworkTypes
      <4> QED
        BY <1>1, <1>2, <1>10, <2>4, <4>1, <4>2, ZenonT(40) DEF StartBinds, TypeOK, SocketTypes
    <3>2. LocksInv'
      BY <1>1, <1>2, <1>10, <2>1, <2>4, ZenonT(40) DEF StartBinds, Call, LocksInv, TypeOK,
         SocketTypes, InCall
    <3>3. FilesInv'
      <4>1. UNCHANGED <<s, file, forgotten>>
        BY <1>10, <2>1, <2>4, ZenonT(40) DEF StartBinds
      <4> QED
        BY <1>1, <4>1, FilesKept DEF TypeOK
    <3>4. ServerInv'
      BY ZenonT(40), <1>1, <1>2, <1>4, <1>10, <2>1, <2>4 DEF StartBinds, Call, ServerInv,
         Serving, Up, Users, HeldPcs, IsOpenPcs, ClosePcs, LoopPcs, TypeOK, SocketTypes
    <3> QED
      BY <1>6, <3>1, <3>2, <3>3, <3>4, ZenonT(40) DEF Inv
  <2> QED
    BY <1>10, <2>2, <2>3, <2>4 DEF StartBinds
<1>11. CASE StartChecks(t)
  <2>1. TypeOK'
    <3>1. pc' \in [Threads -> Pcs] /\ caller' \in [Threads -> Pcs \X Pcs]
      BY <1>1, <1>2, <1>5, <1>11 DEF StartChecks, Goto, Call, Stopping, AfterStop,
         JoinOf, TypeOK, SocketTypes
    <3>2. NetworkTypes'
      BY <1>1, <1>11, ZenonT(40) DEF StartChecks, TypeOK, NetworkTypes
    <3> QED
      BY <1>1, <1>11, <3>1, <3>2 DEF StartChecks, TypeOK, SocketTypes
  <2>2. LocksInv'
    BY <1>1, <1>2, <1>3, <1>4, <1>11 DEF StartChecks, Goto, Call, Stopping, AfterStop,
       JoinOf, TypeOK, SocketTypes, LocksInv, InCall
  <2>3. FilesInv'
    BY <1>1, <1>11, FilesKept DEF StartChecks, TypeOK
  <2>4. ServerInv'
    BY ZenonT(40), <1>1, <1>2, <1>3, <1>4, <1>11 DEF StartChecks, Goto, Call, Stopping,
       AfterStop, JoinOf, TypeOK, SocketTypes, NetworkTypes, ServerInv, Serving, Up,
       Users, HeldPcs, IsOpenPcs, ClosePcs, LoopPcs
  <2> QED
    BY <1>6, <2>1, <2>2, <2>3, <2>4 DEF Inv
<1>12. CASE ServerReturns(t)
  <2>1. /\ mutex = t /\ stopped /\ pc[Acceptor] = "off"
        /\ Up /\ (pc[t] = "start.run" <=> s # InvalidSocket)
    BY ZenonT(40), <1>1, <1>4, <1>12 DEF ServerReturns, ServerInv, Serving, Up
  <2>2. /\ mutex' = None /\ UNCHANGED <<role, object, truncated, s, file, readLocks, caller, used>>
        /\ stopped' = (pc[t] # "start.run")
    BY ZenonT(40), <1>12, <2>1 DEF ServerReturns
  <2>3. /\ pc' \in [Threads -> Pcs] /\ pc'[t] = "idle"
        /\ pc'[Acceptor] = IF pc[t] = "start.run" THEN "loop" ELSE "off"
        /\ \A u \in Threads \ {t, Acceptor} : pc'[u] = pc[u]
    <3>1. CASE pc[t] = "start.run"
      <4>1. pc' = [pc EXCEPT ![t] = "idle", ![Acceptor] = "loop"]
        BY <1>12, <3>1 DEF ServerReturns
      <4> QED
        BY <1>1, <1>2, <1>5, <3>1, <4>1 DEF TypeOK, SocketTypes
    <3>2. CASE pc[t] # "start.run"
      <4>1. pc' = [pc EXCEPT ![t] = "idle"]
        BY <1>12, <3>2 DEF ServerReturns, Goto
      <4> QED
        BY <1>1, <1>2, <1>5, <2>1, <3>2, <4>1 DEF TypeOK, SocketTypes
    <3> QED
      BY <3>1, <3>2
  <2>4. TypeOK'
    <3>1. SocketTypes'
      BY <1>1, <1>12, <2>2, <2>3, ZenonT(40) DEF ServerReturns, TypeOK, SocketTypes
    <3>2. NetworkTypes'
      BY <1>1, <1>12, <2>2, ZenonT(40) DEF ServerReturns, TypeOK, NetworkTypes
    <3> QED
      BY <3>1, <3>2, ZenonT(40) DEF TypeOK
  <2>5. LocksInv'
    BY <1>1, <1>2, <1>3, <2>1, <2>2, <2>3, ZenonT(40) DEF LocksInv, InCall
  <2>6. FilesInv'
    BY <1>1, <2>2, <1>12, FilesKept DEF ServerReturns, TypeOK
  <2>7. Up'
    BY <2>1, <2>2 DEF Up
  <2>8. ServerInv'
    BY ZenonT(40), <1>1, <1>2, <1>4, <2>1, <2>2, <2>3, <2>7 DEF ServerInv, Users, LoopPcs
  <2> QED
    BY <1>6, <2>4, <2>5, <2>6, <2>8 DEF Inv
<1> QED
  BY <1>7, <1>8, <1>9, <1>10, <1>11, <1>12 DEF ServerSteps

LEMMA AcceptLoopKeepsInv ==
    ASSUME Inv, AcceptLoop
    PROVE  Inv'
<1> USE NetworkAssumption, SocketAssumption DEF kernel, serverVars, connectVars
<1>1. TypeOK /\ LocksInv /\ FilesInv /\ ConnectionInv /\ ServerInv
  BY DEF Inv
<1>2. pc[Acceptor] \in {"loop", "onConnect", "failed", "onError"} /\ role = "server"
  BY ZenonT(40), <1>1 DEF AcceptLoop, ConnectionInv, TypeOK, NetworkTypes
<1>3. PICK w \in {"accept", "loop", "ended", "onError"} : pc' = [pc EXCEPT ![Acceptor] = w]
  BY DEF AcceptLoop, Call, Goto
<1>4. w = "accept" => caller'[Acceptor] = <<"onConnect", "failed">>
  BY ZenonT(40), <1>1, <1>2, <1>3 DEF AcceptLoop, Call, Goto, TypeOK, SocketTypes
<1>5. \A u \in Users : caller'[u] = caller[u] /\ pc'[u] = pc[u]
  BY ZenonT(40), <1>1, <1>3 DEF AcceptLoop, Call, TypeOK, SocketTypes, Users
<1>6. TypeOK'
  <2>1. {"accept", "loop", "ended", "onError", "onConnect", "failed"} \subseteq Pcs
    BY DEF Pcs, LoopPcs
  <2>2. pc' \in [Threads -> Pcs] /\ caller' \in [Threads -> Pcs \X Pcs]
    <3>1. pc \in [Threads -> Pcs] /\ caller \in [Threads -> Pcs \X Pcs] /\ w \in Pcs
      BY ZenonT(40), <1>1, <2>1 DEF TypeOK, SocketTypes
    <3>2. \/ caller' = caller
          \/ caller' = [caller EXCEPT ![Acceptor] = <<"onConnect", "failed">>]
      BY ZenonT(40) DEF AcceptLoop, Call
    <3>3. <<"onConnect", "failed">> \in Pcs \X Pcs
      BY <2>1
    <3> QED
      BY ZenonT(40), <1>3, <3>1, <3>2, <3>3
  <2>3. NetworkTypes'
    BY ZenonT(40), <1>1 DEF AcceptLoop, TypeOK, NetworkTypes
  <2> QED
    BY ZenonT(40), <1>1, <2>2, <2>3 DEF AcceptLoop, TypeOK, SocketTypes
<1>7. LocksInv'
  BY ZenonT(40), <1>1, <1>2, <1>3 DEF AcceptLoop, LocksInv, InCall, TypeOK, SocketTypes
<1>8. FilesInv'
  BY ZenonT(40), <1>1, FilesKept DEF AcceptLoop, TypeOK
<1>9. ServerInv'
  <2>1. pc'[Acceptor] = w
    BY <1>1, <1>3 DEF TypeOK, SocketTypes
  <2>2. Up' <=> Up
    BY DEF AcceptLoop, Up
  <2>3. \A u \in Users : Serving(u) => Serving(u)'
    BY ZenonT(40), <1>2, <1>5, <2>2 DEF AcceptLoop, Serving
  <2> QED
    BY ZenonT(40), <1>1, <1>2, <1>4, <1>5, <2>1, <2>2, <2>3 DEF AcceptLoop, ServerInv,
       LoopPcs
<1>10. ConnectionInv'
  BY ZenonT(40), <1>2 DEF AcceptLoop, ConnectionInv
<1> QED
  BY <1>6, <1>7, <1>8, <1>9, <1>10 DEF Inv

(* The peer and the rest of the program leave the threads and the member   *)
(* alone, and touch a file of this socket only by ending its connection.   *)
LEMMA EnvironmentKeepsInv ==
    ASSUME Inv, Environment
    PROVE  Inv'
<1> USE SocketAssumption DEF threads, serverVars, connectVars, InSocket
<1>1. TypeOK /\ LocksInv /\ FilesInv /\ ConnectionInv /\ ServerInv
  BY DEF Inv
<1>2. /\ UNCHANGED <<s, readLocks, blocking, pc, caller, used, taken, truncated, forgotten>>
      /\ UNCHANGED <<role, mutex, stopped, object, timeout, tv>>
  BY DEF Environment, PeerSends, PeerReads, PeerEnds, OtherOpens, OtherCloses
<1>3. /\ file' \in [Fds -> Files]
      /\ \A fd \in Fds : /\ Ours(fd)' <=> Ours(fd)
                         /\ file'[fd].error => ~file'[fd].up
      /\ s # InvalidSocket => (file'[s].up => file[s].up)
      /\ s # InvalidSocket /\ role = "server" => file'[s].up = file[s].up
  <2>1. CASE PeerSends \/ PeerReads
    BY ZenonT(40), <1>1, <2>1 DEF PeerSends, PeerReads, TypeOK, SocketTypes, FilesInv, Ours
  <2>2. CASE role = "connection" /\ PeerEnds
    <3>1. s \in Fds /\ file \in [Fds -> Files]
      BY <1>1, <2>2 DEF PeerEnds, TypeOK, SocketTypes
    <3>2. CASE file' = [file EXCEPT ![s].up = FALSE, ![s].error = TRUE]
      BY ZenonT(40), <1>1, <2>2, <3>1, <3>2 DEF FilesInv, Ours, Files
    <3>3. CASE file' = [file EXCEPT ![s].eof = TRUE]
      BY ZenonT(40), <1>1, <2>2, <3>1, <3>3 DEF FilesInv, Ours, Files
    <3> QED
      BY ZenonT(40), <2>2, <3>2, <3>3 DEF PeerEnds
  <2>3. CASE OtherOpens \/ OtherCloses
    <3>1. PICK fd \in Fds, f \in {Other, Closed} :
              ~Ours(fd) /\ file' = [file EXCEPT ![fd] = f]
      BY <2>3 DEF OtherOpens, OtherCloses, Ours
    <3>2. f \in Files /\ f.of # "socket" /\ ~f.error
      <4>1. Closed \in Files /\ Closed.of = "none" /\ ~Closed.error
        BY DEF Closed, Files
      <4>2. Other \in Files /\ Other.of = "other" /\ ~Other.error
        BY <4>1 DEF Other, Files
      <4> QED
        BY <4>1, <4>2
    <3>3. file' \in [Fds -> Files]
      BY <1>1, <3>1, <3>2, ZenonT(40) DEF TypeOK, SocketTypes
    <3>4. \A g \in Fds : (Ours(g)' <=> Ours(g)) /\ (file'[g].error => ~file'[g].up)
      BY <1>1, <3>1, <3>2 DEF Ours, FilesInv, TypeOK, SocketTypes
    <3>5. s # InvalidSocket => s \in Fds /\ s # fd /\ file'[s] = file[s]
      BY <1>1, <3>1 DEF FilesInv, TypeOK, SocketTypes
    <3> QED
      BY <3>3, <3>4, <3>5
  <2> QED
    BY ZenonT(40), <2>1, <2>2, <2>3 DEF Environment
<1>4. TypeOK'
  <2>1. room' \in Nat
    BY <1>1 DEF Environment, PeerSends, PeerReads, PeerEnds, OtherOpens, OtherCloses,
       TypeOK, SocketTypes
  <2> QED
    BY ZenonT(40), <1>1, <1>2, <1>3, <2>1 DEF TypeOK, SocketTypes, NetworkTypes
<1>5. LocksInv'
  BY ZenonT(40), <1>1, <1>2 DEF LocksInv
<1>6. FilesInv'
  BY ZenonT(40), <1>1, <1>2, <1>3 DEF FilesInv, NothingLeaks, TypeOK, SocketTypes
<1>7. ConnectionInv'
  <2>1. Down => Down'
    BY ZenonT(40), <1>2, <1>3 DEF Down
  <2> QED
    BY ZenonT(40), <1>1, <1>2, <2>1 DEF ConnectionInv, Making, Using
<1>8. ServerInv'
  <2>1. role = "server" => (Up' <=> Up)
    BY ZenonT(40), <1>2, <1>3 DEF Up
  <2> QED
    BY ZenonT(40), <1>1, <1>2, <2>1 DEF ServerInv, Serving
<1> QED
  BY <1>4, <1>5, <1>6, <1>7, <1>8 DEF Inv

LEMMA InvHolds == Spec => []Inv
<1>1. Init => Inv
  <2> SUFFICES ASSUME Init
               PROVE  Inv
    OBVIOUS
  <2> USE NetworkAssumption, SocketAssumption
  <2>1. TypeOK
    <3>1. "idle" \in Pcs /\ "off" \in Pcs
      BY DEF Pcs, UsePcs, LoopPcs
    <3>2. Closed \in Files
      BY DEF Closed, Files
    <3> QED
      BY ZenonT(40), <3>1, <3>2 DEF Init, TypeOK, SocketTypes, NetworkTypes
  <2>2. LocksInv
    BY DEF Init, LocksInv, InCall
  <2>3. FilesInv
    BY ZenonT(40) DEF Init, FilesInv, NothingLeaks, Ours, Closed
  <2>4. ConnectionInv /\ ServerInv
    BY ZenonT(40) DEF Init, ConnectionInv, ServerInv, Users, LoopPcs
  <2> QED
    BY <2>1, <2>2, <2>3, <2>4 DEF Inv
<1>2. Inv /\ [Next]_vars => Inv'
  <2> SUFFICES ASSUME Inv, [Next]_vars
               PROVE  Inv'
    OBVIOUS
  <2>1. CASE UNCHANGED vars
    BY ZenonT(40), <2>1 DEF vars, socketVars, kernel, threads, serverVars, connectVars, Inv,
       TypeOK, SocketTypes, NetworkTypes, LocksInv, FilesInv, NothingLeaks, Ours,
       ConnectionInv, ServerInv, Making, Using, Serving, Up, Down
  <2>2. ASSUME NEW t \in Users, Steps(t)
        PROVE  Inv'
    BY <2>2, MethodKeepsInv, ConnectStepsKeepInv, ServerStepsKeepInv DEF Steps, Users
  <2>3. ASSUME Method(Acceptor), InSocket
        PROVE  Inv'
    BY <2>3, MethodKeepsInv, NetworkAssumption
  <2> QED
    BY <2>1, <2>2, <2>3, CallsKeepInv, AcceptLoopKeepsInv, EnvironmentKeepsInv DEF Next
<1> QED
  BY <1>1, <1>2, PTL DEF Spec

(* Every system call works on the socket's own file: the read lock keeps   *)
(* close() from giving the number back, and isOpen() from dropping it,     *)
(* while anybody uses it (socket.cpp:172-201).                             *)
THEOREM DescriptorIsOwn == Spec => []OwnDescriptor
<1>1. Inv => OwnDescriptor
  BY DEF Inv, LocksInv, FilesInv, OwnDescriptor
<1> QED
  BY <1>1, InvHolds, PTL

(* A descriptor that is open is the member, or was dropped by isOpen():    *)
(* nobody opens a second one over the first (network.cpp:42-52).           *)
THEOREM DescriptorsAreGivenBack == Spec => []NothingLeaks
<1>1. Inv => NothingLeaks
  BY DEF Inv, FilesInv
<1> QED
  BY <1>1, InvHolds, PTL

(* The division of lines 311-319 of socket.cpp loses nothing.              *)
LEMMA SelectTimeIsExact ==
    ASSUME NEW m \in Nat, m * MilliMicros < UintMod
    PROVE  /\ SelectTime(m).sec * SecondMicros + SelectTime(m).usec = m * MilliMicros
           /\ SelectTime(m).usec < SecondMicros
<1> DEFINE x == m * MilliMicros
           q == x \div SecondMicros
<1>1. x \in Nat /\ SecondMicros \in Nat \ {0} /\ UintMod \in Nat \ {0}
  BY NetworkAssumption
<1>2. x % UintMod = x
  BY <1>1
<1>3. q \in Nat /\ x = q * SecondMicros + (x % SecondMicros) /\ x % SecondMicros \in 0 .. SecondMicros - 1
  BY <1>1
<1>4. SelectTime(m) = [sec |-> q, usec |-> x - q * SecondMicros]
  BY <1>2 DEF SelectTime
<1> QED
  BY <1>1, <1>3, <1>4

(* select() waits for timeoutMillis, whatever the units and the width of   *)
(* the arithmetic, as long as the product fits.                            *)
THEOREM SelectWaitsAsTold == Spec => []TimeoutIsExact
<1>1. Inv => TimeoutIsExact
  <2> SUFFICES ASSUME Inv, NEW t \in Users, pc[t] = "select", timeout * MilliMicros < UintMod
               PROVE  /\ tv.sec * SecondMicros + tv.usec = timeout * MilliMicros
                      /\ tv.usec < SecondMicros
    BY DEF TimeoutIsExact
  <2>1. tv = SelectTime(timeout) /\ timeout \in Nat
    BY ZenonT(40) DEF Inv, TypeOK, NetworkTypes, ConnectionInv, ServerInv, Making, Using,
       UsePcs, HeldPcs, IsOpenPcs, ClosePcs
  <2> QED
    BY <2>1, SelectTimeIsExact
<1> QED
  BY <1>1, InvHolds, PTL

(* After stop(), and while start() has the accept loop joined, nobody runs *)
(* behind the server's thread object (network.cpp:42-82).                  *)
THEOREM StopIsQuiet == Spec => []QuietAfterStop
<1>1. Inv => QuietAfterStop
  <2>1. ASSUME Inv, stopped, mutex = None
        PROVE  pc[Acceptor] = "off"
    BY <2>1 DEF Inv, TypeOK, NetworkTypes, ConnectionInv, ServerInv
  <2>2. ASSUME Inv, NEW t \in Users, pc[t] \in {"start.bind", "start.check", "start.run"}
        PROVE  pc[Acceptor] = "off"
    BY ZenonT(40), <2>2 DEF Inv, TypeOK, NetworkTypes, ConnectionInv, ServerInv, Serving
  <2> QED
    BY <2>1, <2>2, ZenonT(40) DEF QuietAfterStop
<1> QED
  BY <1>1, InvHolds, PTL

(* The accept loop goes on to onError only with a listening socket that    *)
(* nobody has begun to close: stopWithLock() sets stopped before close()   *)
(* wakes the loop (network.cpp:55-62, 77-82).                              *)
THEOREM StopReportsNoError == Spec => NoErrorFromStop
<1> DEFINE Reports == pc[Acceptor] = "failed" /\ pc'[Acceptor] = "onError"
<1>1. Inv /\ [Next]_vars => [Reports => s # InvalidSocket /\ file[s].up]_vars
  <2> SUFFICES ASSUME Inv, Next, Reports
               PROVE  s # InvalidSocket /\ file[s].up
    OBVIOUS
  <2>1. AcceptLoop
    <3>1. pc \in [Threads -> Pcs] /\ Acceptor \in Threads /\ \A t \in Users : t # Acceptor
      BY NetworkAssumption DEF Inv, TypeOK, SocketTypes, Users
    <3>2. ASSUME NEW t \in Users, NEW w, pc' = [pc EXCEPT ![t] = w]
          PROVE  FALSE
      BY <3>1, <3>2
    <3>3. ~Environment
      BY ZenonT(40) DEF Environment, PeerSends, PeerReads, PeerEnds, OtherOpens, OtherCloses,
         threads
    <3>4. ASSUME NEW t \in Users
          PROVE  /\ \A millis \in Timeouts : ~Connect(t, millis)
                 /\ ~Use(t) /\ ~Destroy(t) /\ ~Serve(t)
      BY <3>2 DEF Connect, Use, Destroy, Serve, Goto, Call
    <3>5. ASSUME NEW t \in Users
          PROVE  ~ConnectSteps(t)
      BY ZenonT(40), <3>2 DEF ConnectSteps, ConnectCreates, ConnectLocks, ConnectAnswers,
         SelectAnswers, ConnectChecks, ConnectReturns, Goto, Call, Enter, Unlocked
    <3>6. ASSUME NEW t \in Users
          PROVE  ~ServerSteps(t)
      BY ZenonT(40), <3>1, <3>2 DEF ServerSteps, LockServer, StopWithLock, JoinAcceptor,
         StartBinds, StartChecks, ServerReturns, Goto, Call
    <3>7. ASSUME NEW t \in Users
          PROVE  ~Method(t)
      BY <3>1, <3>2 DEF Method, IsOpenLooks, IsOpenForgets, CloseShutsDown,
         CloseReleases, ReadBegins, RecvReturns, WriteBegins, SendTakes, SendReturns,
         AcceptBegins, AcceptReturns, AcceptFails, Enter, Leave, Return, Goto
    <3>8. ~Method(Acceptor)
      BY ZenonT(40) DEF Method, IsOpenLooks, IsOpenForgets, CloseShutsDown, CloseReleases,
         ReadBegins, RecvReturns, WriteBegins, SendTakes, SendReturns, AcceptBegins,
         AcceptReturns, AcceptFails
    <3> QED
      BY ZenonT(40), <3>3, <3>4, <3>5, <3>6, <3>7, <3>8 DEF Next, Steps
  <2>2. ~stopped /\ role = "server"
    BY <2>1, NetworkAssumption DEF AcceptLoop, Goto, Call, Inv, TypeOK, SocketTypes,
       NetworkTypes, ConnectionInv
  <2> QED
    BY ZenonT(40), <2>2 DEF Inv, ServerInv, Up
<1> QED
  BY <1>1, InvHolds, PTL DEF Spec, NoErrorFromStop

(* Once a write() has succeeded for a part of its bytes the kernel takes   *)
(* no more: that write was cut short because the connection had ended, as  *)
(* the descriptor is in blocking mode whenever others can use it           *)
(* (socket.cpp:213-223, 307, 321).                                         *)
THEOREM TruncationIsFinal == Spec => NothingAfterTruncation
<1>1. Inv /\ [Next]_vars => [truncated => room' >= room]_vars
  <2> SUFFICES ASSUME Inv, Next, truncated
               PROVE  room' >= room
    OBVIOUS
  <2> USE DEF kernel
  <2>1. room \in Nat
    BY DEF Inv, TypeOK, SocketTypes
  <2>2. ASSUME NEW t \in Threads, SendTakes(t)
        PROVE  FALSE
    <3>1. used[t] # InvalidSocket /\ used[t] = s /\ file[s].up
      BY ZenonT(40), <2>2 DEF SendTakes, Inv, LocksInv, InCall
    <3>2. role = "connection" /\ Down
      BY ZenonT(40) DEF Inv, TypeOK, NetworkTypes, ConnectionInv, ServerInv
    <3> QED
      BY <3>1, <3>2 DEF Down
  <2>3. ASSUME NEW t \in Threads, Method(t)
        PROVE  room' >= room
    <3>1. room' = room
      BY <2>2, <2>3, ZenonT(40) DEF Method, IsOpenLooks, IsOpenForgets, CloseShutsDown,
         CloseReleases, ReadBegins, RecvReturns, WriteBegins, SendReturns, AcceptBegins,
         AcceptReturns, AcceptFails
    <3> QED
      BY <2>1, <3>1
  <2>4. CASE Environment
    <3>1. room' = room \/ (room < Room /\ room' = Room)
      BY <2>4, ZenonT(40) DEF Environment, PeerSends, PeerReads, PeerEnds, OtherOpens,
         OtherCloses
    <3> QED
      BY <2>1, <3>1, SocketAssumption
  <2>5. ASSUME NEW t \in Users, ConnectSteps(t) \/ ServerSteps(t)
        PROVE  room' = room
    BY ZenonT(40), <2>5 DEF ConnectSteps, ConnectCreates, ConnectLocks, ConnectAnswers,
       SelectAnswers, ConnectChecks, ConnectReturns, ServerSteps, LockServer,
       StopWithLock, JoinAcceptor, StartBinds, StartChecks, ServerReturns
  <2>6. ASSUME NEW t \in Users,
               (\E millis \in Timeouts : Connect(t, millis)) \/ Use(t) \/ Destroy(t) \/ Serve(t)
        PROVE  room' = room
    BY ZenonT(40), <2>6 DEF Connect, Use, Destroy, Serve
  <2>7. CASE AcceptLoop
    BY <2>1, <2>7 DEF AcceptLoop
  <2> QED
    BY <2>1, <2>3, <2>4, <2>5, <2>6, <2>7, NetworkAssumption DEF Next, Steps, Users
<1> QED
  BY <1>1, InvHolds, PTL DEF Spec, NothingAfterTruncation
=============================================================================
