------------------------------ MODULE ServerSockets ------------------------------
(***************************************************************************)
(* Who uses which of the chip's sockets: TinyAlpacaServer                    *)
(* (src/tiny_alpaca_server.cpp) starts the discovery server and then several *)
(* ServerSockets (src/server_sockets_and_connections.cpp), and the loop of   *)
(* the sketch alternates between the DHCP lease and PerformIO.               *)
(*                                                                           *)
(* Of a ServerSocket only what matters to the others is kept; module         *)
(* ServerSocket has the rest.  "TCP" is any status from SYNRECV to LAST_ACK. *)
(* The chip acts between any two steps of the program.                       *)
(***************************************************************************)
EXTENDS Integers, FiniteSets

CONSTANTS
    MAX_SOCK_NUM,
    kNumSockets,
    SkipIfLeaseFails    \* the loop skips PerformIO then (TinyAlpacaServerDemo.ino)

ASSUME SocketsAssumption ==
    /\ MAX_SOCK_NUM \in Nat /\ kNumSockets \in Nat
    /\ 0 < kNumSockets /\ kNumSockets < MAX_SOCK_NUM
    /\ SkipIfLeaseFails \in BOOLEAN

Sockets == 0 .. (MAX_SOCK_NUM - 1)
Servers == 0 .. (kNumSockets - 1)

VARIABLES
    sr,                 \* status of each hardware socket
    _server_port,       \* "none", "tcp", "discovery", "dhcp" or "other"
    sock_num_,          \* of each ServerSocket; MAX_SOCK_NUM for none
    udp_,               \* socket of the discovery server
    dhcp,               \* socket of the DHCP client while it is at work
    pc, ndx,            \* where the program is, and in a loop with which server
    result              \* of TinyAlpacaServer::Initialize

chip == <<sr, _server_port>>
program == <<sock_num_, udp_, dhcp, pc, ndx, result>>
socketVars == <<chip, program>>
-----------------------------------------------------------------------------
(* The chip and its library *)

\* A peer connects, a connection ends.
ChipActs(s) ==
    /\ \/ sr[s] = "LISTEN" /\ sr' = [sr EXCEPT ![s] = "TCP"]
       \/ sr[s] = "TCP" /\ sr' = [sr EXCEPT ![s] = "CLOSED"]
    /\ UNCHANGED <<_server_port, program>>

\* PlatformEthernet::FindUnusedSocket, and the same search in the library.
FindUnusedSocket ==
    IF \E s \in Sockets : sr[s] = "CLOSED"
      THEN CHOOSE s \in Sockets : sr[s] = "CLOSED" /\ \A t \in 0 .. (s - 1) : sr[t] # "CLOSED"
      ELSE -1

\* Mutant: the socket is closed but its port is not forgotten.
UdpStopKeepsPort(s) == sr' = [sr EXCEPT ![s] = "CLOSED"] /\ UNCHANGED _server_port

\* EthernetUDP::begin and stop.
UdpBegin(s, user) ==
    /\ sr' = [sr EXCEPT ![s] = "UDP"]
    /\ _server_port' = [_server_port EXCEPT ![s] = user]
UdpStop(s) ==
    /\ sr' = [sr EXCEPT ![s] = "CLOSED"]
    /\ _server_port' = [_server_port EXCEPT ![s] = "none"]

\* PlatformEthernet::InitializeTcpListenerSocket, of a socket that is closed.
CanListen(s) == _server_port[s] \in {"none", "tcp"}
Listen(s) ==
    /\ sr' = [sr EXCEPT ![s] = "LISTEN"]
    /\ _server_port' = [_server_port EXCEPT ![s] = "tcp"]
-----------------------------------------------------------------------------
(* setup *)

\* TinyAlpacaDiscoveryServer::Initialize.
InitializeDiscovery ==
    /\ pc = "setup"
    /\ IF FindUnusedSocket = -1
         THEN result' = FALSE /\ UNCHANGED <<chip, udp_>>
         ELSE /\ udp_' = FindUnusedSocket
              /\ UdpBegin(FindUnusedSocket, "discovery")
              /\ UNCHANGED result
    /\ pc' = "initialize"
    /\ UNCHANGED <<sock_num_, dhcp, ndx>>

\* Mutant: the search starts at the socket with the number of the server.
PickClosedSocketUnchecked ==
    /\ sock_num_' = [sock_num_ EXCEPT ![ndx] = ndx]
    /\ Listen(ndx)

\* ServerSocket::PickClosedSocket.
PickClosedSocket ==
    LET s == FindUnusedSocket
    IN  IF s # -1 /\ CanListen(s)
          THEN sock_num_' = [sock_num_ EXCEPT ![ndx] = s] /\ Listen(s)
          ELSE UNCHANGED <<sock_num_, chip>>

\* One round of the loop of ServerSocketsAndConnections::Initialize.
InitializeSocket ==
    /\ pc = "initialize" /\ ndx < kNumSockets
    /\ PickClosedSocket
    /\ ndx' = ndx + 1
    /\ UNCHANGED <<udp_, dhcp, pc, result>>

Initialized == Cardinality({i \in Servers : sock_num_[i] # MAX_SOCK_NUM})

\* Its end, and the result of both Initialize.
InitializeDone ==
    /\ pc = "initialize" /\ ndx = kNumSockets
    /\ result' = (result /\ Initialized # kNumSockets)
    /\ pc' = "maintain"
    /\ UNCHANGED <<chip, sock_num_, udp_, dhcp, ndx>>
-----------------------------------------------------------------------------
(* loop *)

\* MaintainDhcpLease: nothing is due, or the addresses are not from DHCP.
NothingToMaintain ==
    /\ pc = "maintain"
    /\ pc' = "discovery"
    /\ UNCHANGED <<chip, sock_num_, udp_, dhcp, ndx, result>>

\* The lease is to be renewed; without a socket for that it fails.
After(ok) == IF ok \/ ~SkipIfLeaseFails THEN "discovery" ELSE "maintain"
RenewLease ==
    /\ pc = "maintain"
    /\ IF FindUnusedSocket = -1
         THEN pc' = After(FALSE) /\ UNCHANGED <<chip, dhcp>>
         ELSE /\ dhcp' = FindUnusedSocket
              /\ UdpBegin(FindUnusedSocket, "dhcp")
              /\ pc' = "renewing"
    /\ UNCHANGED <<sock_num_, udp_, ndx, result>>

LeaseEnds ==
    /\ pc = "renewing"
    /\ UdpStop(dhcp)
    /\ dhcp' = MAX_SOCK_NUM
    /\ \E ok \in BOOLEAN : pc' = After(ok)
    /\ UNCHANGED <<sock_num_, udp_, ndx, result>>

\* TinyAlpacaDiscoveryServer::PerformIO; see module Discovery.
PerformDiscoveryIO ==
    /\ pc = "discovery"
    /\ pc' = "sockets" /\ ndx' = 0
    /\ UNCHANGED <<chip, sock_num_, udp_, dhcp, result>>

\* ServerSocket::PerformIO: one that is closed listens again, one that someone
\* else has opened is closed, a connection is served and perhaps closed.
Poll(s) ==
    CASE sr[s] = "CLOSED" /\ CanListen(s) -> Listen(s)
      [] sr[s] = "UDP" -> sr' = [sr EXCEPT ![s] = "CLOSED"] /\ UNCHANGED _server_port
      [] sr[s] = "TCP" -> /\ \E status \in {"TCP", "CLOSED"} : sr' = [sr EXCEPT ![s] = status]
                          /\ UNCHANGED _server_port
      [] OTHER -> UNCHANGED chip

\* ServerSocketsAndConnections::PerformIO, one round of its loop.
PerformIO ==
    /\ pc = "sockets"
    /\ IF sock_num_[ndx] # MAX_SOCK_NUM THEN Poll(sock_num_[ndx]) ELSE UNCHANGED chip
    /\ IF ndx + 1 < kNumSockets THEN ndx' = ndx + 1 /\ UNCHANGED pc
                                ELSE pc' = "maintain" /\ ndx' = 0
    /\ UNCHANGED <<sock_num_, udp_, dhcp, result>>

\* Before setup the chip has been reset; the sketch may use one socket itself.
SocketsInit ==
    /\ \E used \in SUBSET {0} :
           /\ sr = [s \in Sockets |-> IF s \in used THEN "UDP" ELSE "CLOSED"]
           /\ _server_port = [s \in Sockets |-> IF s \in used THEN "other" ELSE "none"]
    /\ sock_num_ = [i \in Servers |-> MAX_SOCK_NUM]
    /\ udp_ = MAX_SOCK_NUM
    /\ dhcp = MAX_SOCK_NUM
    /\ pc = "setup"
    /\ ndx = 0
    /\ result = TRUE

SocketsStep ==
    \/ InitializeDiscovery \/ InitializeSocket \/ InitializeDone
    \/ NothingToMaintain \/ RenewLease \/ LeaseEnds
    \/ PerformIO
ProgramStep == SocketsStep \/ PerformDiscoveryIO

SocketsNext == ProgramStep \/ \E s \in Sockets : ChipActs(s)

\* The loop of the sketch goes on.
SocketsSpec == SocketsInit /\ [][SocketsNext]_socketVars /\ WF_socketVars(ProgramStep)
-----------------------------------------------------------------------------
(***************************************************************************)
(* Properties                                                                *)
(***************************************************************************)

\* As many connections as the configuration says can be served at a time, each
\* server having a hardware socket of its own.  server_socket_and_connection.h
\* says it of the code, which does not keep it: a socket listens at once, and one
\* that a peer uses and leaves during Initialize is closed when the next server
\* looks for a socket.
SocketsDedicated ==
    \A i, j \in Servers : i # j /\ sock_num_[i] = sock_num_[j] => sock_num_[i] = MAX_SOCK_NUM

\* The discovery server's socket stays open and is no ServerSocket's, whenever
\* peers connect and leave, although the search for a closed socket is repeated,
\* sockets are lent to DHCP while they are closed, and servers may share one.
DiscoverySocketKept ==
    /\ \A i \in Servers : udp_ = sock_num_[i] => udp_ = MAX_SOCK_NUM
    /\ udp_ # MAX_SOCK_NUM => sr[udp_] = "UDP" /\ _server_port[udp_] = "discovery"

\* A server that has a socket listens or is connected again and again, whatever
\* DHCP did with the socket in between.  So it is in the loops of WeatherBox and
\* CoverCalibrator; that of TinyAlpacaServerDemo.ino skips PerformIO for as long
\* as the lease fails, and the sockets are then left as they are.
AllServe ==
    \A i \in Servers :
        []<>(sock_num_[i] # MAX_SOCK_NUM => sr[sock_num_[i]] \in {"LISTEN", "TCP"}
                                            /\ _server_port[sock_num_[i]] = "tcp")
=============================================================================
