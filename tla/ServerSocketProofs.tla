--------------------------- MODULE ServerSocketProofs ---------------------------
(***************************************************************************)
(* The safety properties of ServerSocket for every number of sockets, every  *)
(* set of bytes, buffer size and time limit, under two assumptions about     *)
(* what surrounds it: a handshake does not beat the status read that follows *)
(* the LISTEN command, and ReleaseSocket is not called while the listener    *)
(* considers a connection open.                                              *)
(***************************************************************************)
EXTENDS ServerSocket, TLAPS

Assumed == ~FastHandshake /\ "open" \notin ReleaseIn

(***************************************************************************)
(* The inductive invariant.  The properties speak of moments between polls;  *)
(* what carries them through a poll is what is known at each step of it:     *)
(* which status the chip can be in, what the last recorded status was, and   *)
(* whether a disconnect is recorded.                                         *)
(***************************************************************************)

\* No socket but the bound one is in use for TCP.
OthersUnused ==
    \A s \in Sockets : s # sock_num_ => sr[s] \in {"CLOSED", "UDP"}

\* What the bound socket can be doing while the listener's connection is open.
ConnectionStatus == {"ESTABLISHED", "CLOSE_WAIT", "CLOSED"}

BoundWhenNeeded == (pc # "idle" \/ session = "open") => HasSocket

IdleInv ==
    pc = "idle" =>
        /\ StatusIsOpen(last_status_) <=> session = "open"
        /\ session = "open" => sr[sock_num_] \in ConnectionStatus

\* During a call that can close the connection.
CallInv ==
    pc \in {"OnConnect", "OnCanRead", "OnHalfClosed", "HandleCloseWait"} =>
        /\ session = (IF pc = "OnConnect" THEN "none" ELSE "open")
        /\ StatusIsOpen(last_status_)
        /\ sr[sock_num_] \in ConnectionStatus

\* While the peer's half-close is handled, no more bytes can arrive.
HalfCloseInv ==
    /\ pc \in {"HandleCloseWait", "OnHalfClosed"} => sr[sock_num_] # "ESTABLISHED"
    /\ pc = "OnHalfClosed" => rx = << >>

OnDisconnectInv ==
    pc = "OnDisconnect" => session = "open" /\ ~StatusIsOpen(last_status_)
                               /\ sr[sock_num_] = "CLOSED"

DetectInv ==
    pc = "DetectDisconnect" =>
        /\ session = "none"
        /\ sr[sock_num_] \in ClosingStatus \cup {"CLOSED"}

ListenStatusInv ==
    pc = "ListenStatus" =>
        /\ session = "none"
        /\ sr[sock_num_] \in {"LISTEN", "INIT", "0x11", "SYNRECV", "CLOSED"}

\* No disconnect is recorded of a connection that the listener considers open,
\* or is being told of, until OnDisconnect ends it.
NotRecordedInv ==
    \/ pc \in {"OnConnect", "OnCanRead", "OnHalfClosed", "HandleCloseWait"}
    \/ pc = "idle" /\ session = "open"
    => ~disconnected

IInv ==
    /\ NotRecordedInv
    /\ TypeOK
    /\ OthersUnused
    /\ BoundWhenNeeded
    /\ IdleInv
    /\ CallInv
    /\ HalfCloseInv
    /\ OnDisconnectInv
    /\ DetectInv
    /\ ListenStatusInv
    /\ ClosingIsTimed
-----------------------------------------------------------------------------
(***************************************************************************)
(* Facts about the data the model is built from.                             *)
(***************************************************************************)

\* Reading removes a prefix of the chip's receive buffer.
LEMMA ReadType ==
    ASSUME rx \in Seq(Byte), Len(rx) <= RxMax, RxMax \in Nat,
           NEW n, Read(n)
    PROVE  /\ rx' \in Seq(Byte)
           /\ Len(rx') <= RxMax
           /\ rx = << >> => rx' = << >>
BY DEF Read

\* A chip move does not open a connection, except by completing a handshake,
\* and enters a closing status only from one.
LEMMA ChipMovesFacts ==
    ASSUME NEW move \in ChipMoves
    PROVE  /\ move[1] \in Status /\ move[2] \in Status
           /\ move[1] \in ConnectionStatus => move[2] \in ConnectionStatus
           /\ move[1] = "CLOSE_WAIT" => move[2] = "CLOSED"
           /\ move[1] # "CLOSED"
           /\ move[2] \in ClosingStatus <=> (move[1] \in ClosingStatus /\ move[2] # "CLOSED")
           /\ move[1] \in ClosingStatus => move[2] \in ClosingStatus \cup {"CLOSED"}
           /\ (move[1] \in {"LISTEN", "INIT", "0x11", "SYNRECV"} /\ move[2] # "ESTABLISHED")
                 => move[2] \in {"LISTEN", "INIT", "0x11", "SYNRECV", "CLOSED"}
BY DEF ChipMoves, Status, ConnectionStatus, OpenStatus, ClosingStatus

\* The numbers of the hardware sockets, and the number that stands for none.
LEMMA SocketsFacts ==
    /\ MAX_SOCK_NUM \in Nat
    /\ 0 \in Sockets /\ 0 < MAX_SOCK_NUM
    /\ \A s : s \in Sockets => s \in Nat /\ s < MAX_SOCK_NUM
    /\ \A s \in 0 .. MAX_SOCK_NUM : s < MAX_SOCK_NUM => s \in Sockets
BY ConstantsAssumption DEF Sockets

\* FindUnusedSocket finds a closed socket, if anything.
LEMMA FindUnusedFact ==
    ASSUME NEW s \in FindUnusedSocket
    PROVE  s \in Sockets /\ sr[s] = "CLOSED"
BY DEF FindUnusedSocket
-----------------------------------------------------------------------------
\* The constructor establishes the invariant.
LEMMA InitIInv == Init => IInv
BY ConstantsAssumption, SocketsFacts
   DEF Init, IInv, TypeOK, OthersUnused, BoundWhenNeeded, IdleInv, CallInv,
       HalfCloseInv, NotRecordedInv, OnDisconnectInv, DetectInv, ListenStatusInv, ClosingIsTimed,
       HasSocket, StatusIsOpen, OpenStatus, Status, Step

\* Type correctness is inductive by itself.
LEMMA TypeStep == TypeOK /\ BoundWhenNeeded /\ [Next]_vars => TypeOK'
<1> SUFFICES ASSUME TypeOK, BoundWhenNeeded, [Next]_vars
             PROVE  TypeOK'
    OBVIOUS
<1> USE ConstantsAssumption, SocketsFacts DEF TypeOK
<1> USE DEF Status, OpenStatus, ClosingStatus, Step, ListenerCall
<1>1. CASE ChipMove
  <2>1. PICK move \in ChipMoves :
            /\ sr' = [sr EXCEPT ![sock_num_] = move[2]]
            /\ UNCHANGED <<rx, sock_num_, last_status_, disconnected, elapsed,
                           session, pc>>
    BY <1>1, Zenon DEF ChipMove
  <2>2. move[2] \in Status
    BY ChipMovesFacts
  <2>3. sr' \in [Sockets -> Status]
    BY <2>1, <2>2
  <2> QED
    BY <2>1, <2>3
<1>2. ASSUME NEW byte \in Byte, PeerSend(byte) PROVE TypeOK'
    BY <1>2 DEF PeerSend
<1>3. ASSUME NEW s \in Sockets, OtherUse(s) PROVE TypeOK'
    BY <1>3 DEF OtherUse
<1>4. CASE Tick
    BY <1>4 DEF Tick
<1>5. CASE PerformIOBroken
    BY <1>5 DEF PerformIOBroken, RecordDisconnect, HasSocket
<1>6. CASE PerformIOClosed
  <2>1. /\ last_status_' = "CLOSED"
        /\ UNCHANGED <<sock_num_, disconnected, elapsed, session>>
    BY <1>6 DEF PerformIOClosed, BeginListening
  <2>2. CASE InitializeTcpListenerSocket(sock_num_) /\ pc' = "ListenStatus"
    <3>1. sr' \in [Sockets -> Status]
      BY <2>2 DEF InitializeTcpListenerSocket
    <3>2. rx' \in Seq(Byte) /\ Len(rx') <= RxMax
      BY <2>2 DEF InitializeTcpListenerSocket
    <3> QED
      BY <2>1, <2>2, <3>1, <3>2
  <2>3. CASE UNCHANGED <<sr, rx, pc>>
    BY <2>1, <2>3
  <2> QED
    BY <1>6, <2>2, <2>3 DEF PerformIOClosed, BeginListening
<1>7. CASE PerformIOListening \/ PerformIOUndocumented
    BY <1>7 DEF PerformIOListening, PerformIOUndocumented, vars
<1>8. CASE AnnounceConnected \/ AnnounceCanRead \/ HandleCloseWait
  <2>1. PICK status \in OpenStatus, step \in {"OnConnect", "OnCanRead", "HandleCloseWait"} :
            PerformIOOpen(status, step)
    BY <1>8 DEF AnnounceConnected, AnnounceCanRead, HandleCloseWait
  <2>2. disconnected' = FALSE /\ elapsed' = 0
    BY <2>1 DEF PerformIOOpen, Reset
  <2>3. last_status_' \in Status /\ pc' \in Step
    BY <2>1 DEF PerformIOOpen
  <2>4. UNCHANGED <<sr, rx, sock_num_, session>>
    BY <2>1 DEF PerformIOOpen
  <2> QED
    BY <2>2, <2>3, <2>4
<1>9. CASE HandleCloseWaitAvailable
    BY <1>9 DEF HandleCloseWaitAvailable
<1>10. CASE DetectCloseTimeout
    BY <1>10 DEF DetectCloseTimeout, Poll, CloseHardwareSocket, HasSocket
<1>11. CASE PerformIOInit \/ PerformIOUnexpected
    BY <1>11 DEF PerformIOInit, PerformIOUnexpected, Poll, CloseHardwareSocket, HasSocket
<1>12. CASE ListenStatus \/ DetectListenerInitiatedDisconnect
    BY <1>12 DEF ListenStatus, DetectListenerInitiatedDisconnect, BoundWhenNeeded, HasSocket
<1>13. ASSUME NEW n \in 0 .. RxMax, ListenerKeeps(n) PROVE TypeOK'
    BY <1>13, ReadType DEF ListenerKeeps
<1>14. ASSUME NEW n \in 0 .. RxMax, ListenerCloses(n) PROVE TypeOK'
  <2>1. rx' \in Seq(Byte) /\ Len(rx') <= RxMax
    BY <1>14, ReadType DEF ListenerCloses
  <2>2. sr' \in [Sockets -> Status]
    BY <1>14 DEF ListenerCloses, DisconnectSocket
  <2>3. disconnected' = TRUE /\ elapsed' \in 0 .. (kDisconnectMaxMillis + 1)
    BY <1>14 DEF ListenerCloses, RecordDisconnect
  <2> QED
    BY <1>14, <2>1, <2>2, <2>3 DEF ListenerCloses
<1>15. CASE ListenerDisconnected
    BY <1>15 DEF ListenerDisconnected
<1>16. CASE PickClosedSocket
  <2>1. CASE /\ last_status_' = "CLOSED"
             /\ UNCHANGED <<sr, rx, sock_num_, pc, disconnected, elapsed, session>>
    BY <2>1
  <2>2. ASSUME NEW s \in FindUnusedSocket, BeginListening(s),
               sock_num_' = IF s \in ForeignPort THEN MAX_SOCK_NUM ELSE s,
               UNCHANGED <<disconnected, elapsed, session>>
        PROVE  TypeOK'
    <3>1. s \in Sockets
      BY FindUnusedFact
    <3>2. sock_num_' \in 0 .. MAX_SOCK_NUM
      BY <2>2, <3>1
    <3>3. rx' \in Seq(Byte) /\ Len(rx') <= RxMax /\ sr' \in [Sockets -> Status]
      BY <2>2, <3>1 DEF BeginListening, InitializeTcpListenerSocket
    <3>4. last_status_' \in Status /\ pc' \in Step
      BY <2>2 DEF BeginListening
    <3> QED
      BY <2>2, <3>2, <3>3, <3>4
  <2> QED
    BY <1>16, <2>1, <2>2 DEF PickClosedSocket
<1>17. CASE ReleaseSocket
    BY <1>17 DEF ReleaseSocket, CloseHardwareSocket
<1>18. CASE UNCHANGED vars
    BY <1>18 DEF vars
<1> QED
    BY <1>1, <1>2, <1>3, <1>4, <1>5, <1>6, <1>7, <1>8, <1>9, <1>10, <1>11, <1>12,
       <1>13, <1>14, <1>15, <1>16, <1>17, <1>18
       DEF Next, Environment, PerformIO, Listener, Owner

\* The steps in which the socket stays bound.
BoundNext == Environment \/ PerformIO \/ Listener \/ PickClosedSocket

\* One of these steps preserves the rest of the invariant.
LEMMA BoundStep == ~FastHandshake /\ IInv /\ [BoundNext]_vars => IInv'
<1> SUFFICES ASSUME ~FastHandshake, IInv, [BoundNext]_vars
             PROVE  IInv'
    OBVIOUS
<1>0. TypeOK'
    BY TypeStep DEF IInv, BoundNext, Next, Owner
<1> USE <1>0, SocketsFacts
<1> USE DEF IInv, OthersUnused, BoundWhenNeeded, IdleInv, CallInv, HalfCloseInv,
            NotRecordedInv, OnDisconnectInv, DetectInv, ListenStatusInv, ClosingIsTimed, HasSocket,
            StatusIsOpen, StatusIsClosing, OpenStatus, ClosingStatus, ConnectionStatus
<1>1. CASE ChipMove
  <2>1. PICK move \in ChipMoves :
            /\ HasSocket
            /\ sr[sock_num_] = move[1]
            /\ move[2] = "ESTABLISHED" => (FastHandshake \/ pc # "ListenStatus")
            /\ sr' = [sr EXCEPT ![sock_num_] = move[2]]
            /\ UNCHANGED <<rx, sock_num_, last_status_, disconnected, elapsed,
                           session, pc>>
    BY <1>1, Zenon DEF ChipMove
  <2>2. /\ sr'[sock_num_] = move[2]
        /\ \A s \in Sockets : s # sock_num_ => sr'[s] = sr[s]
    BY <2>1 DEF TypeOK
  <2> QED
    BY <2>1, <2>2, ChipMovesFacts
<1>2. ASSUME NEW byte \in Byte, PeerSend(byte) PROVE IInv'
    BY <1>2 DEF PeerSend
<1>3. ASSUME NEW s \in Sockets, OtherUse(s) PROVE IInv'
    BY <1>3 DEF OtherUse, TypeOK
<1>4. CASE Tick
    BY <1>4 DEF Tick
<1>5. CASE PerformIOBroken
    BY <1>5 DEF PerformIOBroken, RecordDisconnect, WasOpen
<1>6. CASE PerformIOClosed
    BY <1>6 DEF PerformIOClosed, BeginListening, InitializeTcpListenerSocket, Poll, WasOpen, TypeOK
<1>7. CASE PerformIOListening \/ PerformIOUndocumented
    BY <1>7 DEF PerformIOListening, PerformIOUndocumented, WasOpen, Poll, vars
<1>8. CASE AnnounceConnected \/ AnnounceCanRead \/ HandleCloseWait
  <2>1. CASE AnnounceConnected
    <3>1. PICK status \in OpenStatus : PerformIOOpen(status, "OnConnect")
      BY <2>1 DEF AnnounceConnected
    <3>2. session = "none"
      BY <2>1, <3>1 DEF AnnounceConnected, PerformIOOpen, Poll, WasOpen, TypeOK
    <3> QED
      BY <3>1, <3>2 DEF PerformIOOpen, Reset, Poll
  <2>2. CASE AnnounceCanRead
    BY <2>2 DEF AnnounceCanRead, PerformIOOpen, Reset, Poll, WasOpen
  <2>3. CASE HandleCloseWait
    BY <2>3 DEF HandleCloseWait, PerformIOOpen, Reset, Poll, WasOpen
  <2> QED
    BY <1>8, <2>1, <2>2, <2>3
<1>9. CASE HandleCloseWaitAvailable
    BY <1>9 DEF HandleCloseWaitAvailable, TypeOK
<1>10. CASE DetectCloseTimeout
    BY <1>10 DEF DetectCloseTimeout, Poll, CloseHardwareSocket, WasOpen, TypeOK
<1>11. CASE PerformIOInit \/ PerformIOUnexpected
    BY <1>11 DEF PerformIOInit, PerformIOUnexpected, Poll, CloseHardwareSocket, WasOpen, TypeOK
<1>12. CASE ListenStatus \/ DetectListenerInitiatedDisconnect
    BY <1>12 DEF ListenStatus, DetectListenerInitiatedDisconnect
<1>13. ASSUME NEW n \in 0 .. RxMax, ListenerKeeps(n) PROVE IInv'
    BY <1>13, ReadType DEF ListenerKeeps
<1>14. ASSUME NEW n \in 0 .. RxMax, ListenerCloses(n) PROVE IInv'
    BY <1>14 DEF ListenerCloses, DisconnectSocket, RecordDisconnect, TypeOK
<1>15. CASE ListenerDisconnected
    BY <1>15 DEF ListenerDisconnected
<1>16. CASE PickClosedSocket
    BY <1>16, FindUnusedFact DEF PickClosedSocket, BeginListening, InitializeTcpListenerSocket, TypeOK
<1>17. CASE UNCHANGED vars
    BY <1>17 DEF vars
<1> QED
    BY <1>1, <1>2, <1>3, <1>4, <1>5, <1>6, <1>7, <1>8, <1>9, <1>10, <1>11, <1>12,
       <1>13, <1>14, <1>15, <1>16, <1>17
       DEF BoundNext, Environment, PerformIO, Listener

\* ReleaseSocket does too, if no connection is open.
LEMMA IInvStep == Assumed /\ IInv /\ [Next]_vars => IInv'
<1> SUFFICES ASSUME Assumed, IInv, [Next]_vars
             PROVE  IInv'
    OBVIOUS
<1>1. CASE [BoundNext]_vars
    BY <1>1, BoundStep DEF Assumed
<1>2. CASE ReleaseSocket
  <2> USE SocketsFacts
  <2>1. TypeOK'
    BY TypeStep DEF IInv
  <2> QED
    BY <1>2, <2>1
       DEF ReleaseSocket, CloseHardwareSocket, TypeOK, Assumed, SocketIsInTcpConnectionLifecycle,
           IInv, OthersUnused, BoundWhenNeeded, IdleInv, CallInv, HalfCloseInv,
           NotRecordedInv, OnDisconnectInv, DetectInv, ListenStatusInv, ClosingIsTimed,
           HasSocket, StatusIsOpen, StatusIsClosing, OpenStatus, ClosingStatus, ConnectionStatus
<1> QED
    BY <1>1, <1>2 DEF Next, Owner, BoundNext
-----------------------------------------------------------------------------
(***************************************************************************)
(* The theorems.                                                             *)
(***************************************************************************)

\* Every variable keeps its type, and PerformIO touches the chip only while a
\* socket is bound, whatever the peer, the listener and the owner do.
THEOREM TypeCorrect == Spec => []TypeOK
<1>1. Init => TypeOK /\ BoundWhenNeeded
    BY InitIInv DEF IInv
<1>2. TypeOK /\ BoundWhenNeeded /\ [Next]_vars => TypeOK' /\ BoundWhenNeeded'
  <2> SUFFICES ASSUME TypeOK, BoundWhenNeeded, [Next]_vars
               PROVE  BoundWhenNeeded'
    BY TypeStep
  <2> USE SocketsFacts DEF BoundWhenNeeded, HasSocket
  <2>1. CASE Environment
    BY <2>1 DEF Environment, ChipMove, PeerSend, OtherUse, Tick
  <2>2. CASE PerformIO
    BY <2>2 DEF PerformIO, PerformIOBroken, PerformIOClosed, PerformIOListening,
         PerformIOUndocumented, AnnounceConnected, AnnounceCanRead, HandleCloseWait,
         HandleCloseWaitAvailable, DetectCloseTimeout, PerformIOInit,
         PerformIOUnexpected, ListenStatus, DetectListenerInitiatedDisconnect,
         PerformIOOpen, Poll, vars
  <2>3. CASE Listener
    BY <2>3 DEF Listener, ListenerKeeps, ListenerCloses, ListenerDisconnected
  <2>4. CASE PickClosedSocket
    BY <2>4, FindUnusedFact
       DEF PickClosedSocket, BeginListening, InitializeTcpListenerSocket
  <2>5. CASE ReleaseSocket
    BY <2>5 DEF ReleaseSocket
  <2>6. CASE UNCHANGED vars
    BY <2>6 DEF vars
  <2> QED
    BY <2>1, <2>2, <2>3, <2>4, <2>5, <2>6 DEF Next, Owner
<1> QED
    BY <1>1, <1>2, PTL DEF Spec

\* The invariant behind the others.
LEMMA Invariance == ASSUME Assumed PROVE Spec => []IInv
<1>1. IInv /\ [Next]_vars => IInv'
    BY IInvStep
<1> QED
    BY InitIInv, <1>1, PTL DEF Spec

\* last_status_ tells PerformIO, between polls, whether the listener considers
\* a connection open.
THEOREM StatusTracksSession == ASSUME Assumed PROVE Spec => []LastStatusTracksSession
<1>1. IInv => LastStatusTracksSession
    BY DEF IInv, IdleInv, LastStatusTracksSession
<1> QED
    BY Invariance, <1>1, PTL

\* A closing socket has its disconnect recorded, so DetectCloseTimeout can end
\* it, and the listener is done with it.
THEOREM ClosingSocketIsTimed == ASSUME Assumed PROVE Spec => []ClosingIsTimed
<1>1. IInv => ClosingIsTimed
    BY DEF IInv
<1> QED
    BY Invariance, <1>1, PTL

\* HandleCloseWait calls OnHalfClosed only when nothing is left to read.
THEOREM OnHalfClosedIsDrained == ASSUME Assumed PROVE Spec => []HalfClosedIsDrained
<1>1. IInv => HalfClosedIsDrained
    BY DEF IInv, HalfCloseInv, HalfClosedIsDrained
<1> QED
    BY Invariance, <1>1, PTL

\* PerformIO calls its listener as the abstract specification SocketListener
\* allows: each connection is announced once, first, and ended once.
THEOREM ImplementsListenerProtocol == ASSUME Assumed PROVE Spec => ListenerProtocol
<1> DEFINE called == IF pc \in ListenerCall THEN pc ELSE "none"
<1>1. Init => ListenerView!Init
    BY DEF Init, ListenerView!Init, ListenerCall
<1>2. IInv /\ [Next]_vars => [ListenerView!Next]_(ListenerView!vars)
  <2> SUFFICES ASSUME IInv, [Next]_vars
               PROVE  ListenerView!Next \/ UNCHANGED <<session, called>>
    BY DEF ListenerView!vars
  <2> USE DEF ListenerCall
  <2>1. CASE Environment \/ ReleaseSocket \/ UNCHANGED vars
    BY <2>1 DEF Environment, ChipMove, PeerSend, OtherUse, Tick, ReleaseSocket, vars
  <2>2. CASE PickClosedSocket \/ PerformIOClosed
    BY <2>2 DEF PickClosedSocket, PerformIOClosed, BeginListening, Poll
  <2>3. CASE \/ PerformIOListening \/ PerformIOUndocumented \/ DetectCloseTimeout
             \/ PerformIOInit \/ PerformIOUnexpected \/ ListenStatus
             \/ DetectListenerInitiatedDisconnect \/ HandleCloseWait
    BY <2>3 DEF PerformIOListening, PerformIOUndocumented, DetectCloseTimeout,
         PerformIOInit, PerformIOUnexpected, ListenStatus, PerformIOOpen, Poll,
         DetectListenerInitiatedDisconnect, HandleCloseWait, vars
  <2>4. CASE AnnounceConnected
    <3>1. pc = "idle" /\ session = "none" /\ pc' = "OnConnect" /\ UNCHANGED session
      BY <2>4 DEF AnnounceConnected, PerformIOOpen, Poll, WasOpen, IInv, IdleInv, TypeOK
    <3> QED
      BY <3>1 DEF ListenerView!Next, ListenerView!Announce
  <2>5. CASE PerformIOBroken \/ AnnounceCanRead \/ HandleCloseWaitAvailable
    <3>1. /\ pc \in {"idle", "HandleCloseWait"} /\ session = "open"
          /\ UNCHANGED session
          /\ pc' \in {"OnCanRead", "OnHalfClosed", "OnDisconnect"}
      BY <2>5 DEF PerformIOBroken, AnnounceCanRead, HandleCloseWaitAvailable,
           PerformIOOpen, Poll, WasOpen, IInv, IdleInv, CallInv, NotRecordedInv
    <3> QED
      BY <3>1 DEF ListenerView!Next, ListenerView!Notify
  <2>6. ASSUME NEW n \in 0 .. RxMax, ListenerKeeps(n) \/ ListenerCloses(n)
        PROVE  ListenerView!Next
    BY <2>6 DEF ListenerKeeps, ListenerCloses, ListenerView!Next, ListenerView!Return
  <2>7. CASE ListenerDisconnected
    BY <2>7 DEF ListenerDisconnected, ListenerView!Next, ListenerView!ReturnDisconnected
  <2> QED
    BY <2>1, <2>2, <2>3, <2>4, <2>5, <2>6, <2>7 DEF Next, PerformIO, Listener, Owner
<1> QED
    BY Invariance, <1>1, <1>2, PTL DEF Spec, ListenerProtocol, ListenerView!Spec
=============================================================================
