------------------------------ MODULE ServerSocket ------------------------------
(***************************************************************************)
(* One ServerSocket (src/utils/server_socket.cpp), the W5500 hardware socket *)
(* it is bound to, and any listener.                                         *)
(*                                                                           *)
(* The chip and the peer change the socket's status register and its receive *)
(* buffer at any moment, also while PerformIO is executing, so PerformIO is  *)
(* one action per read of the status register: the read that starts a poll   *)
(* (with everything up to the next access to the chip), the listener's call, *)
(* and the reads that follow it.  "pc" says where in PerformIO the program   *)
(* is.  The listener is arbitrary: in each call it may read some of the      *)
(* bytes the chip holds, and it may close the connection.                    *)
(***************************************************************************)
EXTENDS Naturals, Sequences

CONSTANTS
    MAX_SOCK_NUM,           \* number of hardware sockets of the chip
    ForeignPort,            \* sockets whose _server_port names another port
    Byte,                   \* what a peer may send
    RxMax,                  \* capacity of the chip's receive buffer
    kDisconnectMaxMillis,   \* how long a socket may take to close
    FastHandshake,          \* may a handshake beat the read after LISTEN?
    ReleaseIn               \* sessions in which the owner calls ReleaseSocket

Sockets == 0 .. (MAX_SOCK_NUM - 1)

ASSUME ConstantsAssumption ==
    /\ MAX_SOCK_NUM \in Nat \ {0}
    /\ ForeignPort \subseteq Sockets
    /\ RxMax \in Nat
    /\ kDisconnectMaxMillis \in Nat
    /\ FastHandshake \in BOOLEAN
    /\ ReleaseIn \subseteq {"none", "open"}

VARIABLES
    sr,             \* Sn_SR, the status register of every hardware socket
    rx,             \* bytes the chip holds for the bound socket
    sock_num_,      \* the bound hardware socket; MAX_SOCK_NUM if none
    last_status_,   \* the status PerformIO compares the next one with
    disconnected,   \* DisconnectData::disconnected
    elapsed,        \* DisconnectData::ElapsedDisconnectTime(), saturating
    session,        \* the listener's view: "open" from OnConnect to its end
    pc              \* "idle", or the step of PerformIO to execute next

chip == <<sr, rx>>
vars == <<sr, rx, sock_num_, last_status_, disconnected, elapsed, session, pc>>

ClosingStatus == {"FIN_WAIT", "CLOSING", "TIME_WAIT", "LAST_ACK"}
OpenStatus    == {"ESTABLISHED", "CLOSE_WAIT"}
\* UDP stands for each of the modes a TCP server socket should not be in
\* (SYNSENT, UDP, IPRAW, MACRAW, PPPOE), 0x11 for the undocumented statuses.
Status == {"CLOSED", "INIT", "LISTEN", "0x11", "SYNRECV", "UDP"}
              \cup OpenStatus \cup ClosingStatus

ListenerCall == {"OnConnect", "OnCanRead", "OnHalfClosed", "OnDisconnect"}
Step == {"idle", "ListenStatus", "HandleCloseWait", "DetectDisconnect"}
            \cup ListenerCall

StatusIsOpen(status)    == status \in OpenStatus
StatusIsClosing(status) == status \in ClosingStatus
HasSocket == sock_num_ < MAX_SOCK_NUM
SocketIsInTcpConnectionLifecycle(status) ==
    status \in {"SYNRECV", "INIT"} \cup OpenStatus \cup ClosingStatus

\* The one type invariant.
TypeOK ==
    /\ sr \in [Sockets -> Status]
    /\ rx \in Seq(Byte) /\ Len(rx) <= RxMax
    /\ sock_num_ \in 0 .. MAX_SOCK_NUM
    /\ last_status_ \in Status
    /\ disconnected \in BOOLEAN
    /\ elapsed \in 0 .. (kDisconnectMaxMillis + 1)
    /\ session \in {"none", "open"}
    /\ pc \in Step
-----------------------------------------------------------------------------
(***************************************************************************)
(* The chip, the peer, and the other users of the chip (none of this is      *)
(* under the control of server_socket.cpp).                                  *)
(***************************************************************************)

\* How the status of a TCP socket changes without a command: the handshake
\* (with the 0x11 that was observed after LISTEN) succeeds or fails; the peer
\* half-closes, resets, or vanishes until the chip gives up; a close that the
\* program started proceeds.  Nothing here is bound to happen.
ChipMoves ==
    {<<"LISTEN", "0x11">>, <<"LISTEN", "SYNRECV">>, <<"0x11", "SYNRECV">>,
     <<"SYNRECV", "ESTABLISHED">>, <<"SYNRECV", "CLOSED">>,
     <<"ESTABLISHED", "CLOSE_WAIT">>, <<"ESTABLISHED", "CLOSED">>,
     <<"CLOSE_WAIT", "CLOSED">>,
     <<"FIN_WAIT", "CLOSING">>, <<"FIN_WAIT", "TIME_WAIT">>,
     <<"FIN_WAIT", "CLOSED">>, <<"CLOSING", "TIME_WAIT">>,
     <<"CLOSING", "CLOSED">>, <<"TIME_WAIT", "CLOSED">>,
     <<"LAST_ACK", "CLOSED">>}

\* Unless FastHandshake, the program reads the status that follows its LISTEN
\* command before a peer can have completed a handshake.
ChipMove ==
    \E move \in ChipMoves :
        /\ HasSocket
        /\ sr[sock_num_] = move[1]
        /\ move[2] = "ESTABLISHED" => (FastHandshake \/ pc # "ListenStatus")
        /\ sr' = [sr EXCEPT ![sock_num_] = move[2]]
        /\ UNCHANGED <<rx, sock_num_, last_status_, disconnected, elapsed,
                       session, pc>>

\* A byte arrives; the peer cannot send once it has sent its FIN.
PeerSend(byte) ==
    /\ HasSocket
    /\ sr[sock_num_] = "ESTABLISHED"
    /\ Len(rx) < RxMax
    /\ rx' = Append(rx, byte)
    /\ UNCHANGED <<sr, sock_num_, last_status_, disconnected, elapsed,
                   session, pc>>

\* Another user of the chip (the discovery server, DHCP) opens or closes a
\* socket that is not ours; it runs in the same thread, between two polls.
OtherUse(s) ==
    /\ pc = "idle" /\ s # sock_num_
    /\ \/ sr[s] = "CLOSED" /\ sr' = [sr EXCEPT ![s] = "UDP"]
       \/ sr[s] = "UDP" /\ sr' = [sr EXCEPT ![s] = "CLOSED"]
    /\ UNCHANGED <<rx, sock_num_, last_status_, disconnected, elapsed,
                   session, pc>>

\* millis() advances; past the limit the exact value no longer matters.
Tick ==
    /\ disconnected /\ elapsed <= kDisconnectMaxMillis
    /\ elapsed' = elapsed + 1
    /\ UNCHANGED <<sr, rx, sock_num_, last_status_, disconnected, session, pc>>
-----------------------------------------------------------------------------
(***************************************************************************)
(* DisconnectData                                                            *)
(***************************************************************************)
RecordDisconnect ==
    /\ disconnected' = TRUE
    /\ elapsed' = IF disconnected THEN elapsed ELSE 0

Reset == disconnected' = FALSE /\ elapsed' = 0
-----------------------------------------------------------------------------
(***************************************************************************)
(* The binding of a hardware socket                                          *)
(***************************************************************************)

\* socket() and listen() report no error: a LISTEN command that fails leaves
\* the socket in INIT.  The receive buffer of a socket that opens is empty.
InitializeTcpListenerSocket(s) ==
    /\ s \notin ForeignPort
    /\ \E status \in {"LISTEN", "INIT"} : sr' = [sr EXCEPT ![s] = status]
    /\ rx' = << >>

\* Called for a socket found to be CLOSED, which no one else can open before
\* this is done: neither already a listener nor connected.  CloseHardwareSocket
\* has no effect on it but on last_status_; "ListenStatus" is the read of the
\* status of the new listener.
BeginListening(s) ==
    /\ last_status_' = "CLOSED"
    /\ \/ InitializeTcpListenerSocket(s) /\ pc' = "ListenStatus"
       \/ s \in ForeignPort /\ UNCHANGED <<sr, rx, pc>>

\* The lowest closed socket, as a set: empty where the code returns -1.
FindUnusedSocket ==
    {s \in Sockets : /\ sr[s] = "CLOSED"
                     /\ \A t \in Sockets : t < s => sr[t] # "CLOSED"}

PickClosedSocket ==
    /\ pc = "idle" /\ ~HasSocket
    /\ \/ /\ FindUnusedSocket = {}
          /\ last_status_' = "CLOSED"
          /\ UNCHANGED <<sr, rx, sock_num_, pc>>
       \/ \E s \in FindUnusedSocket :
             /\ BeginListening(s)
             /\ sock_num_' = IF s \in ForeignPort THEN MAX_SOCK_NUM ELSE s
    /\ UNCHANGED <<disconnected, elapsed, session>>

\* The end of BeginListening, and of PickClosedSocket when that called it.
ListenStatus ==
    /\ pc = "ListenStatus"
    /\ last_status_' = sr[sock_num_]
    /\ pc' = "idle"
    /\ UNCHANGED <<sr, rx, sock_num_, disconnected, elapsed, session>>

\* The close command and the read of the status that it leads to.
CloseHardwareSocket ==
    /\ sr' = [sr EXCEPT ![sock_num_] = "CLOSED"]
    /\ last_status_' = "CLOSED"

ReleaseSocket ==
    /\ pc = "idle" /\ HasSocket
    /\ session \in ReleaseIn
    /\ ~SocketIsInTcpConnectionLifecycle(sr[sock_num_])
    /\ CloseHardwareSocket
    /\ sock_num_' = 0
    /\ UNCHANGED <<rx, disconnected, elapsed, session, pc>>
-----------------------------------------------------------------------------
(***************************************************************************)
(* PerformIO: one action for each way through it up to the next access to    *)
(* the chip.                                                                 *)
(***************************************************************************)
WasOpen == StatusIsOpen(last_status_)

Poll(status) == pc = "idle" /\ HasSocket /\ sr[sock_num_] = status

\* Mutant: RecordDisconnect comes before the test, so OnDisconnect is never
\* called.
PerformIOBrokenRecordsFirst ==
    /\ pc = "idle" /\ HasSocket
    /\ WasOpen /\ ~StatusIsOpen(sr[sock_num_])
    /\ last_status_' = sr[sock_num_]
    /\ RecordDisconnect
    /\ UNCHANGED <<sr, rx, sock_num_, session, pc>>

\* The connection broke.  OnDisconnect is called unless the listener is known
\* to have closed the connection; the new status waits for the next poll.
PerformIOBroken ==
    /\ pc = "idle" /\ HasSocket
    /\ WasOpen /\ ~StatusIsOpen(sr[sock_num_])
    /\ last_status_' = sr[sock_num_]
    /\ pc' = IF disconnected THEN "idle" ELSE "OnDisconnect"
    /\ RecordDisconnect
    /\ UNCHANGED <<sr, rx, sock_num_, session>>

PerformIOClosed ==
    /\ ~WasOpen /\ Poll("CLOSED")
    /\ BeginListening(sock_num_)
    /\ UNCHANGED <<sock_num_, disconnected, elapsed, session>>

\* LISTEN, and SYNRECV, which is recorded as LISTEN.
PerformIOListening ==
    /\ ~WasOpen
    /\ Poll("LISTEN") \/ Poll("SYNRECV")
    /\ last_status_' = "LISTEN"
    /\ UNCHANGED <<sr, rx, sock_num_, disconnected, elapsed, session, pc>>

\* An undocumented status is forgotten.
PerformIOUndocumented ==
    /\ ~WasOpen /\ Poll("0x11")
    /\ UNCHANGED vars

\* Mutant: the constructor does not reset the disconnect data.
PerformIOOpenNoReset(status, step) ==
    /\ Poll(status)
    /\ last_status_' = status
    /\ pc' = step
    /\ UNCHANGED <<sr, rx, sock_num_, disconnected, elapsed, session>>

\* A TcpServerConnection is constructed, which resets the disconnect data, and
\* the listener is about to be called (after client.available() is read, when
\* the peer has half-closed).
PerformIOOpen(status, step) ==
    /\ Poll(status)
    /\ last_status_' = status
    /\ Reset
    /\ pc' = step
    /\ UNCHANGED <<sr, rx, sock_num_, session>>

AnnounceConnected == ~WasOpen /\ \E status \in OpenStatus : PerformIOOpen(status, "OnConnect")
AnnounceCanRead   == WasOpen /\ PerformIOOpen("ESTABLISHED", "OnCanRead")
HandleCloseWait   == WasOpen /\ PerformIOOpen("CLOSE_WAIT", "HandleCloseWait")

\* Mutant: CLOSE_WAIT is taken to mean that there is nothing to read.
HandleCloseWaitIgnoresInput ==
    /\ pc = "HandleCloseWait"
    /\ pc' = "OnHalfClosed"
    /\ UNCHANGED <<sr, rx, sock_num_, last_status_, disconnected, elapsed, session>>

HandleCloseWaitAvailable ==
    /\ pc = "HandleCloseWait"
    /\ pc' = IF Len(rx) > 0 THEN "OnCanRead" ELSE "OnHalfClosed"
    /\ UNCHANGED <<sr, rx, sock_num_, last_status_, disconnected, elapsed, session>>

\* Mutant: no time limit on a close.
DetectCloseTimeoutNever ==
    /\ ~WasOpen
    /\ \E status \in ClosingStatus : Poll(status) /\ last_status_' = status
    /\ UNCHANGED <<sr, rx, sock_num_, disconnected, elapsed, session, pc>>

DetectCloseTimeout ==
    /\ ~WasOpen
    /\ \E status \in ClosingStatus :
        /\ Poll(status)
        /\ IF disconnected /\ elapsed > kDisconnectMaxMillis
             THEN CloseHardwareSocket
             ELSE last_status_' = status /\ UNCHANGED sr
    /\ UNCHANGED <<rx, sock_num_, disconnected, elapsed, session, pc>>

\* The listener setup did not complete: closed when seen a second time.
PerformIOInit ==
    /\ Poll("INIT")
    /\ ~WasOpen
    /\ IF last_status_ = "INIT"
         THEN CloseHardwareSocket
         ELSE last_status_' = "INIT" /\ UNCHANGED sr
    /\ UNCHANGED <<rx, sock_num_, disconnected, elapsed, session, pc>>

PerformIOUnexpected ==
    /\ Poll("UDP")
    /\ ~WasOpen
    /\ CloseHardwareSocket
    /\ UNCHANGED <<rx, sock_num_, disconnected, elapsed, session, pc>>
-----------------------------------------------------------------------------
(***************************************************************************)
(* The listener's calls                                                      *)
(***************************************************************************)

\* Connection::read of the first n bytes that the chip holds.
Read(n) == n \in 0 .. Len(rx) /\ rx' = SubSeq(rx, n + 1, Len(rx))

\* The listener returns without having closed the connection;
\* DetectListenerInitiatedDisconnect then does nothing.
ListenerKeeps(n) ==
    /\ pc \in {"OnConnect", "OnCanRead", "OnHalfClosed"}
    /\ Read(n)
    /\ session' = "open"
    /\ pc' = "idle"
    /\ UNCHANGED <<sr, sock_num_, last_status_, disconnected, elapsed>>

\* The effect of the DISCON command on the status; none on a closed socket.
DisconnectSocket ==
    sr' = [sr EXCEPT ![sock_num_] =
              CASE @ = "ESTABLISHED" -> "FIN_WAIT"
                [] @ = "CLOSE_WAIT"  -> "LAST_ACK"
                [] OTHER             -> @]

\* Mutant: close does not record the disconnect.
ListenerClosesUnrecorded(n) ==
    /\ pc \in {"OnConnect", "OnCanRead", "OnHalfClosed"}
    /\ Read(n)
    /\ DisconnectSocket
    /\ session' = "none"
    /\ pc' = "idle"
    /\ UNCHANGED <<sock_num_, last_status_, disconnected, elapsed>>

\* The listener calls TcpServerConnection::close: DISCON if still open.
ListenerCloses(n) ==
    /\ pc \in {"OnConnect", "OnCanRead", "OnHalfClosed"}
    /\ Read(n)
    /\ DisconnectSocket
    /\ RecordDisconnect
    /\ session' = "none"
    /\ pc' = "DetectDisconnect"
    /\ UNCHANGED <<sock_num_, last_status_>>

\* Mutant: last_status_ keeps the open status.
DetectListenerInitiatedDisconnectStale ==
    /\ pc = "DetectDisconnect"
    /\ pc' = "idle"
    /\ UNCHANGED <<sr, rx, sock_num_, last_status_, disconnected, elapsed, session>>

DetectListenerInitiatedDisconnect ==
    /\ pc = "DetectDisconnect"
    /\ last_status_' = sr[sock_num_]
    /\ pc' = "idle"
    /\ UNCHANGED <<sr, rx, sock_num_, disconnected, elapsed, session>>

ListenerDisconnected ==
    /\ pc = "OnDisconnect"
    /\ session' = "none"
    /\ pc' = "idle"
    /\ UNCHANGED <<sr, rx, sock_num_, last_status_, disconnected, elapsed>>
-----------------------------------------------------------------------------
\* The constructor leaves disconnect_data_ uninitialized.
Init ==
    /\ sr \in [Sockets -> {"CLOSED", "UDP"}]
    /\ rx = << >>
    /\ sock_num_ = MAX_SOCK_NUM
    /\ last_status_ = "CLOSED"
    /\ disconnected \in BOOLEAN
    /\ elapsed = 0
    /\ session = "none"
    /\ pc = "idle"

Environment ==
    \/ ChipMove
    \/ \E byte \in Byte : PeerSend(byte)
    \/ \E s \in Sockets : OtherUse(s)
    \/ Tick

\* What the program does by itself in PerformIO, between listener calls.
PerformIO ==
    \/ PerformIOBroken \/ PerformIOClosed \/ PerformIOListening
    \/ PerformIOUndocumented \/ AnnounceConnected \/ AnnounceCanRead
    \/ HandleCloseWait \/ HandleCloseWaitAvailable \/ DetectCloseTimeout
    \/ PerformIOInit \/ PerformIOUnexpected \/ ListenStatus
    \/ DetectListenerInitiatedDisconnect

Listener ==
    \/ \E n \in 0 .. RxMax : ListenerKeeps(n) \/ ListenerCloses(n)
    \/ ListenerDisconnected

Owner == PickClosedSocket \/ ReleaseSocket

Next == Environment \/ PerformIO \/ Listener \/ Owner

Spec == Init /\ [][Next]_vars

\* The main loop polls for ever, listeners return and time passes; the chip
\* does not refuse the LISTEN command for ever.  Nothing is assumed of a peer.
Fairness ==
    /\ WF_vars(PerformIO)
    /\ WF_vars(Listener)
    /\ WF_vars(Tick)
    /\ SF_vars(PerformIOClosed /\ sr'[sock_num_] = "LISTEN")

FairSpec == Spec /\ Fairness
-----------------------------------------------------------------------------
(***************************************************************************)
(* Properties                                                                *)
(***************************************************************************)

\* The listener's view of this system: HandleCloseWait decides which call
\* follows, so it is no call yet.
ListenerView ==
    INSTANCE SocketListener
        WITH call <- IF pc \in ListenerCall THEN pc ELSE "none"

\* The calls PerformIO makes are those socket_listener.h describes: a new
\* connection is announced only when the last one is over for the listener,
\* nothing is said of a connection that was not announced, and the end of a
\* connection is told once, and never when the listener caused it.
ListenerProtocol == ListenerView!Spec

\* Between two polls, last_status_ is an open status exactly while the
\* listener considers a connection open: PerformIO, which sees only what the
\* status is and what it was, misses neither the start nor the end of a
\* connection ("updated at selected times so that we don't miss key
\* transitions").
LastStatusTracksSession ==
    pc = "idle" => (StatusIsOpen(last_status_) <=> session = "open")

\* A socket is in a closing state only after a disconnect has been recorded,
\* so DetectCloseTimeout, which requires that, is able to end it; and the
\* listener no longer considers that connection open.
ClosingIsTimed ==
    HasSocket /\ StatusIsClosing(sr[sock_num_]) => disconnected /\ session = "none"

\* OnHalfClosed means that there is no more to read: whatever arrived before
\* the peer's FIN has been offered to the listener by OnCanRead.
HalfClosedIsDrained == pc = "OnHalfClosed" => rx = << >>

\* A bound socket that is neither listening nor connected does not stay that
\* way: the close times out, or the listener is set up again, whatever the
\* peer does (or ReleaseSocket has bound it to another server's socket).
InService ==
    HasSocket /\ sr[sock_num_] \in {"LISTEN", "0x11", "SYNRECV"} \cup OpenStatus
ReturnsToService == HasSocket ~> (InService \/ sock_num_ \in ForeignPort)

\* A connection that breaks while the listener considers it open is always
\* brought to the listener's attention.
BreakIsReported ==
    (session = "open" /\ ~StatusIsOpen(sr[sock_num_])) ~> session = "none"

\* "The binding ... lasts from then until ReleaseSocket is called": a
\* ServerSocket never closes a hardware socket that another user of the chip,
\* such as the discovery server, has opened.
OthersUntouched ==
    [][PerformIO => \A s \in Sockets : sr[s] = "UDP" => sr'[s] = "UDP"]_vars
=============================================================================
