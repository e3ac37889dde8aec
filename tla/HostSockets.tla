------------------------------- MODULE HostSockets -------------------------------
(***************************************************************************)
(* The emulation of the W5500's sockets on a host                            *)
(* (extras/host/ethernet3/host_sockets.cpp, with EthernetServer and          *)
(* EthernetClient above it) on top of the descriptors of the operating       *)
(* system: each emulated socket has a descriptor that listens, one that is   *)
(* connected, or none.                                                       *)
(*                                                                           *)
(* Peers act between any two calls; a call is one step, as its calls of the  *)
(* operating system look at one descriptor.                                  *)
(***************************************************************************)
EXTENDS Integers, FiniteSets

CONSTANTS
    MAX_SOCK_NUM,
    TcpPorts,           \* ports that are listened to; not 0
    MaxFd               \* bound: descriptors that are open at a time

ASSUME HostAssumption ==
    MAX_SOCK_NUM \in Nat \ {0} /\ MaxFd \in Nat /\ TcpPorts \subseteq Nat \ {0}

Sockets == 0 .. (MAX_SOCK_NUM - 1)
Fds == 1 .. MaxFd

VARIABLES
    info,               \* HostSocketInfo: descriptors, -1 for none, and tcp_port
    _server_port,       \* of EthernetClass; only EthernetServer sets it
    os,                 \* the operating system: what each descriptor is
    reported,           \* what SocketStatus returned last, "none" if not since the
                        \* socket was last set up as a listener
    scan                \* how far EthernetServer::available is

hostVars == <<info, _server_port, os, reported, scan>>
-----------------------------------------------------------------------------
(* The operating system *)

Unused      == [kind |-> "unused"]
\* A socket that is bound to port; backlog is whether a connection waits, and
\* listens is whether listen was called.
Listener(port, listens) ==
    [kind |-> "listener", port |-> port, listens |-> listens, backlog |-> FALSE]
\* data is whether something can be read, error whether an error is pending.
Connection  == [kind |-> "connection", peer |-> "open", data |-> FALSE, error |-> FALSE,
                shut |-> FALSE]

FreeFds     == {fd \in Fds : os[fd] = Unused}
LowestFd    == CHOOSE fd \in FreeFds : \A other \in FreeFds : fd <= other
ClosedFd(fd) == IF fd = -1 THEN os ELSE [os EXCEPT ![fd] = Unused]

PeerConnects(fd) ==
    /\ os[fd].kind = "listener" /\ os[fd].listens
    /\ os' = [os EXCEPT ![fd].backlog = TRUE]
    /\ UNCHANGED <<info, _server_port, reported, scan>>

\* The peer sends, half-closes or resets the connection.  What was received before
\* stays readable, and only the reset of an open connection is an error for recv:
\* after the end of the peer's data there is nothing to be received anyway.
PeerActs(fd) ==
    /\ os[fd].kind = "connection"
    /\ \/ os[fd].peer = "open" /\ os' = [os EXCEPT ![fd].data = TRUE]
       \/ os[fd].peer = "open" /\ os' = [os EXCEPT ![fd].peer = "eof"]
       \/ /\ os[fd].peer # "reset"
          /\ os' = [os EXCEPT ![fd].peer = "reset", ![fd].error = (os[fd].peer = "open")]
    /\ UNCHANGED <<info, _server_port, reported, scan>>

\* What recv of a connection returns, with MSG_PEEK; and the connection after it, as
\* an error is reported once.
Peek(c) == IF c.data THEN "data"
           ELSE IF c.error THEN "error"
           ELSE IF c.peer = "open" THEN "again" ELSE "end"
Peeked(c) == IF Peek(c) = "error" THEN [c EXCEPT !.error = FALSE] ELSE c
-----------------------------------------------------------------------------
(* HostSocketInfo *)

IsClosed(s) == info[s].listener_socket = -1 /\ info[s].connection_socket = -1
IsUnused(s) == IsClosed(s) /\ info[s].tcp_port = 0

CloseListenerSocket(i) == [i EXCEPT !.listener_socket = -1, !.tcp_port = 0]
CloseConnectionSocket(i) == [i EXCEPT !.connection_socket = -1]

\* Mutant: the connection is forgotten but not closed.
AfterClosingLeaks(s) == os

\* What is left open when InitializeTcpListener has closed its connection.
AfterClosing(s) == ClosedFd(info[s].connection_socket)

\* InitializeTcpListener, up to the creation of a new listener: TRUE if one
\* that listens to the port is there already.
KeepsListener(s, port) == info[s].listener_socket # -1 /\ info[s].tcp_port = port

InitializeTcpListener(s, port) ==
    LET base == CloseConnectionSocket(info[s])
        free == IF base.listener_socket = -1 THEN AfterClosing(s)
                ELSE [AfterClosing(s) EXCEPT ![base.listener_socket] = Unused]
        fds  == {fd \in Fds : free[fd] = Unused}
        fd   == CHOOSE f \in fds : \A other \in fds : f <= other
    IN  IF KeepsListener(s, port)
          THEN info' = [info EXCEPT ![s] = base] /\ os' = AfterClosing(s)
          ELSE \* All is well.
               \/ /\ fds # {}
                  /\ os' = [free EXCEPT ![fd] = Listener(port, TRUE)]
                  /\ info' = [info EXCEPT ![s] = [base EXCEPT !.listener_socket = fd,
                                                              !.tcp_port = port]]
               \* No socket, or setsockopt, bind or listen fails.
               \/ /\ os' = free
                  /\ info' = [info EXCEPT ![s] = CloseListenerSocket(base)]
               \* Only set_non_blocking fails: the socket is kept.
               \/ /\ fds # {}
                  /\ os' = [free EXCEPT ![fd] = Listener(port, FALSE)]
                  /\ info' = [info EXCEPT ![s] = [CloseListenerSocket(base) EXCEPT
                                                     !.listener_socket = fd]]

\* ::accept, which succeeds if a connection waits.
CanAccept(s) ==
    /\ info[s].connection_socket = -1 /\ info[s].listener_socket # -1
    /\ os[info[s].listener_socket].backlog /\ FreeFds # {}

\* The connection takes a new descriptor; the listener is then closed.
AcceptConnection(s) ==
    /\ os' = [os EXCEPT ![LowestFd] = Connection, ![info[s].listener_socket] = Unused]
    /\ info' = [info EXCEPT ![s] = [CloseListenerSocket(@) EXCEPT
                                       !.connection_socket = LowestFd]]

CanReadFromConnection(c) == Peek(c) \in {"data", "again"}
IsConnectionHalfClosed(c) == Peek(c) = "end"
AvailableBytes(s) ==
    info[s].connection_socket # -1 /\ os[info[s].connection_socket].data
-----------------------------------------------------------------------------
(* HostSockets *)

\* Mutant: both questions are answered from one peek.
ConnectionStatusOnePeek(c) ==
    IF CanReadFromConnection(c) THEN "ESTABLISHED"
    ELSE IF IsConnectionHalfClosed(c) THEN "CLOSE_WAIT" ELSE "CLOSED"

\* The status of a connection takes two peeks, and the first may use up the error.
ConnectionStatus(c) ==
    IF CanReadFromConnection(c) THEN "ESTABLISHED"
    ELSE IF IsConnectionHalfClosed(Peeked(c)) THEN "CLOSE_WAIT" ELSE "CLOSED"

\* The status that SocketStatus returns; "abort" is its CHECK(false).
StatusOf(s) ==
    IF IsUnused(s) THEN "CLOSED"
    ELSE IF info[s].connection_socket # -1
      THEN ConnectionStatus(os[info[s].connection_socket])
    ELSE IF info[s].listener_socket # -1
      THEN IF CanAccept(s) THEN "ESTABLISHED" ELSE "LISTEN"
    ELSE "abort"

\* It accepts a connection, or peeks at one, on the way.
SocketStatus(s) ==
    /\ reported' = [reported EXCEPT ![s] = StatusOf(s)]
    /\ IF CanAccept(s) THEN AcceptConnection(s)
       ELSE /\ os' = IF info[s].connection_socket = -1 THEN os
                     ELSE [os EXCEPT ![info[s].connection_socket] = Peeked(@)]
            /\ UNCHANGED info

\* The call by a program that has a socket, or has found it CLOSED, and whose
\* sockets EthernetServer leaves alone.  What it is told from then on is about the
\* new listener.
InitializeTcpListenerSocket(s, port) ==
    /\ scan.step = "idle" /\ _server_port[s] = 0
    /\ InitializeTcpListener(s, port)
    /\ reported' = [reported EXCEPT ![s] = "none"]
    /\ UNCHANGED <<_server_port, scan>>

ReadStatus(s) ==
    /\ scan.step = "idle"
    /\ SocketStatus(s)
    /\ UNCHANGED <<_server_port, scan>>

\* HostSockets::AcceptConnection.
AcceptsConnection(s) ==
    /\ scan.step = "idle" /\ CanAccept(s)
    /\ AcceptConnection(s)
    /\ UNCHANGED <<_server_port, reported, scan>>

Disconnect(s) ==
    /\ scan.step = "idle" /\ info[s].connection_socket # -1
    /\ os' = [os EXCEPT ![info[s].connection_socket].shut = TRUE]
    /\ UNCHANGED <<info, _server_port, reported, scan>>
-----------------------------------------------------------------------------
(* EthernetServer.  available calls accept, which looks at the sockets in turn   *)
(* and calls begin if none listens, and then looks for one with data.          *)

Idle == [step |-> "idle", at |-> 0, port |-> 0, listening |-> FALSE]
Go(step) == scan' = [scan EXCEPT !.step = step, !.at = 0]
GoOn(step) == IF scan.at + 1 = MAX_SOCK_NUM THEN Go(step)
                                            ELSE scan' = [scan EXCEPT !.at = @ + 1]

Available(port) ==
    /\ scan.step = "idle"
    /\ scan' = [Idle EXCEPT !.step = "accept", !.port = port]
    /\ UNCHANGED <<info, _server_port, os, reported>>

\* stop does nothing on the host.
Accept ==
    /\ scan.step = "accept"
    /\ LET s == scan.at
           listening == scan.listening \/
                        (_server_port[s] = scan.port /\ StatusOf(s) = "LISTEN")
       IN  /\ IF _server_port[s] = scan.port THEN SocketStatus(s)
                                             ELSE UNCHANGED <<info, os, reported>>
           /\ scan' = IF s + 1 < MAX_SOCK_NUM
                        THEN [scan EXCEPT !.at = s + 1, !.listening = listening]
                        ELSE [scan EXCEPT !.at = 0, !.listening = FALSE,
                                          !.step = IF listening THEN "find" ELSE "begin"]
    /\ UNCHANGED _server_port

\* begin, with the first unused socket whose listener can be made.
Begin ==
    /\ scan.step = "begin"
    /\ LET s == scan.at
       IN  IF ~IsUnused(s)
             THEN GoOn("find") /\ UNCHANGED <<info, os, _server_port, reported>>
             ELSE /\ InitializeTcpListener(s, scan.port)
                  /\ reported' = [reported EXCEPT ![s] = "none"]
                  /\ IF info'[s].tcp_port = scan.port
                       THEN Go("find") /\ _server_port' = [_server_port EXCEPT ![s] = scan.port]
                       ELSE GoOn("find") /\ UNCHANGED _server_port

\* The rest of available; the first socket with data is returned.
Find ==
    /\ scan.step = "find"
    /\ LET s == scan.at
       IN  IF _server_port[s] = scan.port
             THEN /\ SocketStatus(s)
                  /\ IF (StatusOf(s) \in {"ESTABLISHED", "CLOSE_WAIT"} /\ AvailableBytes(s))
                        \/ s + 1 = MAX_SOCK_NUM
                       THEN scan' = Idle
                       ELSE scan' = [scan EXCEPT !.at = s + 1]
             ELSE /\ scan' = IF s + 1 = MAX_SOCK_NUM THEN Idle ELSE [scan EXCEPT !.at = s + 1]
                  /\ UNCHANGED <<info, os, reported>>
    /\ UNCHANGED _server_port

HostInit ==
    /\ info = [s \in Sockets |->
                  [listener_socket |-> -1, connection_socket |-> -1, tcp_port |-> 0]]
    /\ _server_port = [s \in Sockets |-> 0]
    /\ os = [fd \in Fds |-> Unused]
    /\ reported = [s \in Sockets |-> "none"]
    /\ scan = Idle

HostNext ==
    \/ \E fd \in Fds : PeerConnects(fd) \/ PeerActs(fd)
    \/ \E s \in Sockets, port \in TcpPorts : InitializeTcpListenerSocket(s, port)
    \/ \E s \in Sockets : ReadStatus(s) \/ AcceptsConnection(s) \/ Disconnect(s)
    \/ \E port \in TcpPorts : Available(port)
    \/ Accept \/ Begin \/ Find

HostSpec == HostInit /\ [][HostNext]_hostVars
-----------------------------------------------------------------------------
(***************************************************************************)
(* Properties                                                                *)
(***************************************************************************)

\* Every descriptor that is open belongs to one emulated socket, so that none is
\* lost when a socket listens again after its connection broke; and SocketStatus
\* never meets its CHECK(false), a socket with a port and no descriptor.
DescriptorsHeld ==
    /\ \A fd \in Fds : os[fd] # Unused =>
           Cardinality({s \in Sockets : fd \in {info[s].listener_socket,
                                                info[s].connection_socket}}) = 1
    /\ \A s \in Sockets : StatusOf(s) # "abort"

\* The order in which the chip goes through its states after a socket was set up as
\* a listener.
ChipOrder == [none |-> 0, LISTEN |-> 1, ESTABLISHED |-> 2, CLOSE_WAIT |-> 3, CLOSED |-> 4]

\* A program that polls an emulated socket sees its states in the order of the chip,
\* although it may miss some of them: a listener that has accepted does not listen
\* on, a half-closed connection is not whole again, and what was reported as closed,
\* be it a broken connection or a failed listener, is closed until the program sets
\* the socket up anew.
LooksLikeTheChip ==
    [][\A s \in Sockets :
           reported'[s] = "none" \/ ChipOrder[reported[s]] <= ChipOrder[reported'[s]]]_reported
=============================================================================
