----------------------------- MODULE NetworkProofs -----------------------------
(***************************************************************************)
(* Proofs about the chip's sockets (module ServerSockets) and about the      *)
(* client of discovery (module Discovery).                                   *)
(***************************************************************************)
EXTENDS Discovery, TLAPS, WellFoundedInduction
-----------------------------------------------------------------------------
(* Who uses which socket *)

SocketsType ==
    /\ sr \in [Sockets -> {"CLOSED", "LISTEN", "TCP", "UDP"}]
    /\ _server_port \in [Sockets -> {"none", "tcp", "discovery", "dhcp", "other"}]
    /\ sock_num_ \in [Servers -> 0 .. MAX_SOCK_NUM]
    /\ udp_ \in 0 .. MAX_SOCK_NUM
    /\ ndx \in 0 .. kNumSockets

\* The discovery server is the first to get a socket.
SetupInv ==
    pc = "setup" => udp_ = MAX_SOCK_NUM /\ \A i \in Servers : sock_num_[i] = MAX_SOCK_NUM

\* In the loop DHCP may borrow the closed socket of a server, but not the
\* discovery server's, which is never closed.
LoopInv ==
    /\ pc = "renewing" => dhcp \in Sockets /\ dhcp # udp_
    /\ pc = "sockets" => ndx \in Servers

SocketsInv == SocketsType /\ SetupInv /\ LoopInv /\ DiscoverySocketKept

LEMMA LeastNumber ==
    ASSUME NEW T \in SUBSET Nat, T # {}
    PROVE  \E m \in T : \A x \in T : m <= x
<1>1. PICK m \in T : \A y \in T : ~(<<y, m>> \in OpToRel(<, Nat))
    BY NatLessThanWellFounded, WFMin, Zenon
<1>2. \A y \in T : ~(y < m)
    BY <1>1 DEF OpToRel
<1> QED
    BY <1>2

\* FindUnusedSocket finds a closed socket, if there is one.
LEMMA FindUnusedSocketFacts ==
    \/ FindUnusedSocket = -1
    \/ FindUnusedSocket \in Sockets /\ sr[FindUnusedSocket] = "CLOSED"
<1> DEFINE closed == {s \in Sockets : sr[s] = "CLOSED"}
<1>1. CASE \E s \in Sockets : sr[s] = "CLOSED"
  <2>1. closed \in SUBSET Nat /\ closed # {}
    BY <1>1, SocketsAssumption DEF Sockets
  <2>2. PICK m \in closed : \A x \in closed : m <= x
    <3> HIDE DEF closed
    <3> QED
      BY <2>1, LeastNumber
  <2>3. \A t \in 0 .. (m - 1) : sr[t] # "CLOSED"
    BY <2>2, SocketsAssumption DEF Sockets
  <2>4. \E s \in Sockets : sr[s] = "CLOSED" /\ \A t \in 0 .. (s - 1) : sr[t] # "CLOSED"
    BY <2>2, <2>3
  <2> QED
    BY <1>1, <2>4, Zenon DEF FindUnusedSocket
<1>2. CASE ~\E s \in Sockets : sr[s] = "CLOSED"
    BY <1>2, Zenon DEF FindUnusedSocket
<1> QED
    BY <1>1, <1>2

LEMMA NumbersOfSockets ==
    /\ MAX_SOCK_NUM \in Nat /\ MAX_SOCK_NUM \notin Sockets /\ -1 \notin Sockets
    /\ \A n \in 0 .. MAX_SOCK_NUM : n # MAX_SOCK_NUM => n \in Sockets
    /\ \A s \in Sockets : s \in 0 .. MAX_SOCK_NUM
    /\ kNumSockets \in Nat /\ 0 < kNumSockets
    /\ \A n \in 0 .. kNumSockets : n < kNumSockets <=> n \in Servers
    /\ \A i \in Servers : i \in Nat /\ i < kNumSockets
BY SocketsAssumption DEF Sockets, Servers

\* The start of the discovery server and of the servers.
LEMMA SetupStep ==
    ASSUME SocketsInv, InitializeDiscovery \/ InitializeSocket \/ InitializeDone
    PROVE  SocketsInv'
<1> USE NumbersOfSockets
<1>1. CASE InitializeDiscovery
  <2>1. /\ pc = "setup" /\ pc' = "initialize" /\ ndx' = ndx
        /\ sock_num_' = sock_num_ /\ udp_ = MAX_SOCK_NUM
        /\ \A i \in Servers : sock_num_[i] = MAX_SOCK_NUM
    BY <1>1 DEF InitializeDiscovery, SocketsInv, SetupInv
  <2>2. CASE FindUnusedSocket = -1
    <3>1. udp_' = udp_ /\ sr' = sr /\ _server_port' = _server_port
      BY <1>1, <2>2 DEF InitializeDiscovery, chip
    <3> QED
      BY <2>1, <3>1 DEF SocketsInv, SocketsType, SetupInv, LoopInv, DiscoverySocketKept
  <2>3. CASE FindUnusedSocket # -1
    <3>1. PICK s \in Sockets : udp_' = s /\ UdpBegin(s, "discovery")
      BY <1>1, <2>3, FindUnusedSocketFacts, Zenon DEF InitializeDiscovery
    <3>2. /\ SocketsType' /\ sr'[s] = "UDP" /\ _server_port'[s] = "discovery"
      BY <2>1, <3>1 DEF UdpBegin, SocketsInv, SocketsType
    <3> QED
      BY <2>1, <3>1, <3>2 DEF SocketsInv, SocketsType, SetupInv, LoopInv, DiscoverySocketKept
  <2> QED
    BY <2>2, <2>3
<1>2. CASE InitializeSocket
  <2>1. /\ pc = "initialize" /\ pc' = pc /\ ndx \in Servers /\ ndx' = ndx + 1 /\ udp_' = udp_
        /\ ndx' \in 0 .. kNumSockets
    BY <1>2 DEF InitializeSocket, SocketsInv, SocketsType
  <2>2. CASE sock_num_' = sock_num_ /\ UNCHANGED chip
    <3>1. sr' = sr /\ _server_port' = _server_port
      BY <2>2, Zenon DEF chip
    <3> QED
      BY <2>1, <2>2, <3>1 DEF SocketsInv, SocketsType, SetupInv, LoopInv, DiscoverySocketKept
  <2>3. ASSUME NEW s \in Sockets, sr[s] = "CLOSED",
               sock_num_' = [sock_num_ EXCEPT ![ndx] = s], Listen(s)
        PROVE  SocketsInv'
    <3>1. /\ SocketsType' /\ sr'[s] = "LISTEN" /\ sock_num_'[ndx] = s
          /\ \A t \in Sockets \ {s} : sr'[t] = sr[t] /\ _server_port'[t] = _server_port[t]
          /\ \A i \in Servers \ {ndx} : sock_num_'[i] = sock_num_[i]
      BY <2>1, <2>3 DEF SocketsInv, SocketsType, Listen
    <3>2. udp_ # s
      BY <2>3 DEF SocketsInv, DiscoverySocketKept
    <3>3. SetupInv' /\ LoopInv'
      BY <2>1 DEF SetupInv, LoopInv
    <3>4. \A i \in Servers : udp_' = sock_num_'[i] => udp_' = MAX_SOCK_NUM
      BY <2>1, <3>1, <3>2 DEF SocketsInv, DiscoverySocketKept
    <3>5. udp_' # MAX_SOCK_NUM => sr'[udp_'] = "UDP" /\ _server_port'[udp_'] = "discovery"
      BY <2>1, <3>1, <3>2 DEF SocketsInv, DiscoverySocketKept, SocketsType
    <3> QED
      BY <3>1, <3>3, <3>4, <3>5 DEF SocketsInv, DiscoverySocketKept
  <2> QED
    BY <1>2, <2>2, <2>3, FindUnusedSocketFacts, Zenon DEF InitializeSocket, PickClosedSocket
<1>3. CASE InitializeDone
  <2>1. /\ pc' = "maintain" /\ udp_' = udp_ /\ sock_num_' = sock_num_ /\ ndx' = ndx
        /\ sr' = sr /\ _server_port' = _server_port
    BY <1>3, Zenon DEF InitializeDone, chip
  <2> QED
    BY <2>1 DEF SocketsInv, SocketsType, SetupInv, LoopInv, DiscoverySocketKept
<1> QED
    BY <1>1, <1>2, <1>3

\* A step of the loop that leaves the numbers of the sockets alone, and the
\* discovery server's socket open.
LEMMA LoopKeeps ==
    ASSUME SocketsInv, SocketsType', LoopInv',
           pc' # "setup",
           UNCHANGED <<sock_num_, udp_>>,
           udp_ # MAX_SOCK_NUM => sr'[udp_] = sr[udp_] /\ _server_port'[udp_] = _server_port[udp_]
    PROVE  SocketsInv'
BY DEF SocketsInv, SetupInv, DiscoverySocketKept

\* The DHCP lease.
LEMMA LeaseStep ==
    ASSUME SocketsInv, NothingToMaintain \/ RenewLease \/ LeaseEnds
    PROVE  SocketsInv'
<1> USE NumbersOfSockets
<1>1. UNCHANGED <<sock_num_, udp_, ndx>>
    BY Zenon DEF NothingToMaintain, RenewLease, LeaseEnds
<1>2. \A ok : After(ok) \in {"discovery", "maintain"}
    BY DEF After
<1>3. CASE NothingToMaintain
  <2>1. pc' = "discovery" /\ sr' = sr /\ _server_port' = _server_port
    BY <1>3, Zenon DEF NothingToMaintain, chip
  <2> QED
    BY <1>1, <2>1, LoopKeeps DEF SocketsInv, SocketsType, LoopInv
<1>4. CASE RenewLease
  <2>1. CASE FindUnusedSocket = -1
    <3>1. pc' \in {"discovery", "maintain"} /\ sr' = sr /\ _server_port' = _server_port
      BY <1>2, <1>4, <2>1, Zenon DEF RenewLease, chip
    <3> QED
      BY <1>1, <3>1, LoopKeeps DEF SocketsInv, SocketsType, LoopInv
  <2>2. CASE FindUnusedSocket # -1
    <3>1. PICK s \in Sockets : sr[s] = "CLOSED" /\ dhcp' = s /\ UdpBegin(s, "dhcp")
      BY <1>4, <2>2, FindUnusedSocketFacts, Zenon DEF RenewLease
    <3>2. pc' = "renewing"
      BY <1>4, <2>2, Zenon DEF RenewLease
    <3>3. s # udp_
      BY <3>1 DEF SocketsInv, DiscoverySocketKept
    <3>4. SocketsType' /\ LoopInv'
      BY <1>1, <3>1, <3>2, <3>3 DEF SocketsInv, SocketsType, LoopInv, UdpBegin
    <3>5. udp_ # MAX_SOCK_NUM => sr'[udp_] = sr[udp_] /\ _server_port'[udp_] = _server_port[udp_]
      BY <3>1, <3>3 DEF SocketsInv, SocketsType, UdpBegin
    <3> QED
      BY <1>1, <3>2, <3>4, <3>5, LoopKeeps
  <2> QED
    BY <2>1, <2>2
<1>5. CASE LeaseEnds
  <2>1. dhcp \in Sockets /\ dhcp # udp_ /\ UdpStop(dhcp)
    BY <1>5 DEF LeaseEnds, SocketsInv, LoopInv
  <2>2. pc' \in {"discovery", "maintain"}
    BY <1>2, <1>5, Zenon DEF LeaseEnds
  <2>3. SocketsType' /\ LoopInv'
    BY <1>1, <2>1, <2>2 DEF SocketsInv, SocketsType, LoopInv, UdpStop
  <2>4. udp_ # MAX_SOCK_NUM => sr'[udp_] = sr[udp_] /\ _server_port'[udp_] = _server_port[udp_]
    BY <2>1 DEF SocketsInv, SocketsType, UdpStop
  <2> QED
    BY <1>1, <2>2, <2>3, <2>4, LoopKeeps
<1> QED
    BY <1>3, <1>4, <1>5

\* A round of PerformIO, and the discovery server's part of it.
LEMMA PerformIOStep ==
    ASSUME SocketsInv, PerformIO \/ PerformDiscoveryIO
    PROVE  SocketsInv'
<1> USE NumbersOfSockets
<1>1. UNCHANGED <<sock_num_, udp_>>
    BY Zenon DEF PerformIO, PerformDiscoveryIO
<1>2. CASE PerformDiscoveryIO
  <2>1. pc' = "sockets" /\ ndx' = 0 /\ sr' = sr /\ _server_port' = _server_port
    BY <1>2, Zenon DEF PerformDiscoveryIO, chip
  <2>2. 0 \in Servers /\ 0 \in 0 .. kNumSockets
    BY SocketsAssumption DEF Servers
  <2> QED
    BY <1>1, <2>1, <2>2, LoopKeeps DEF SocketsInv, SocketsType, LoopInv
<1>3. CASE PerformIO
  <2>1. pc = "sockets" /\ ndx \in Servers /\ ndx \in 0 .. kNumSockets
    BY <1>3 DEF PerformIO, SocketsInv, SocketsType, LoopInv
  <2>2. pc' \in {"sockets", "maintain"} /\ ndx' \in 0 .. kNumSockets /\ LoopInv'
    <3>1. CASE ndx + 1 < kNumSockets
      BY <1>3, <2>1, <3>1, SocketsAssumption DEF PerformIO, LoopInv, Servers
    <3>2. CASE ~(ndx + 1 < kNumSockets)
      BY <1>3, <2>1, <3>2, SocketsAssumption DEF PerformIO, LoopInv, Servers
    <3> QED
      BY <3>1, <3>2
  <2>3. CASE sr' = sr /\ _server_port' = _server_port
    BY <1>1, <2>2, <2>3, LoopKeeps DEF SocketsInv, SocketsType
  <2>4. CASE sock_num_[ndx] # MAX_SOCK_NUM /\ Poll(sock_num_[ndx])
    <3> DEFINE s == sock_num_[ndx]
    <3>1. s \in Sockets /\ s # udp_
      BY <2>1, <2>4 DEF SocketsInv, SocketsType, DiscoverySocketKept
    <3> HIDE DEF s
    <3>2. \/ Listen(s)
          \/ (\E status \in {"TCP", "CLOSED"} : sr' = [sr EXCEPT ![s] = status])
             /\ _server_port' = _server_port
          \/ sr' = sr /\ _server_port' = _server_port
      <4>1. Poll(s)
        BY <2>4 DEF s
      <4> QED
        BY <4>1 DEF Poll, chip
    <3>3. SocketsType'
      BY <1>1, <2>2, <3>1, <3>2 DEF SocketsInv, SocketsType, Listen
    <3>4. udp_ # MAX_SOCK_NUM => sr'[udp_] = sr[udp_] /\ _server_port'[udp_] = _server_port[udp_]
      BY <3>1, <3>2 DEF SocketsInv, SocketsType, Listen
    <3> QED
      BY <1>1, <2>2, <3>3, <3>4, LoopKeeps
  <2> QED
    BY <1>3, <2>3, <2>4, Zenon DEF PerformIO, chip
<1> QED
    BY <1>2, <1>3

\* A peer connects or a connection ends, during setup too.
LEMMA ChipStep ==
    ASSUME SocketsInv, NEW s \in Sockets, ChipActs(s)
    PROVE  SocketsInv'
<1> USE NumbersOfSockets
<1>1. UNCHANGED <<sock_num_, udp_, dhcp, pc, ndx, _server_port>>
    BY Zenon DEF ChipActs, program
<1>2. sr[s] # "UDP" /\ \E status \in {"TCP", "CLOSED"} : sr' = [sr EXCEPT ![s] = status]
    BY DEF ChipActs
<1>3. SocketsType' /\ LoopInv'
    BY <1>1, <1>2 DEF SocketsInv, SocketsType, LoopInv
<1>4. udp_ # MAX_SOCK_NUM => sr'[udp_] = sr[udp_]
    BY <1>2 DEF SocketsInv, SocketsType, DiscoverySocketKept
<1> QED
    BY <1>1, <1>3, <1>4 DEF SocketsInv, SetupInv, DiscoverySocketKept

LEMMA SocketsStart == SocketsInit => SocketsInv
<1> USE NumbersOfSockets
<1> SUFFICES ASSUME SocketsInit PROVE SocketsInv
    OBVIOUS
<1>1. /\ sock_num_ = [i \in Servers |-> MAX_SOCK_NUM] /\ udp_ = MAX_SOCK_NUM
      /\ pc = "setup" /\ ndx = 0
    BY DEF SocketsInit
<1>2. /\ sr \in [Sockets -> {"CLOSED", "LISTEN", "TCP", "UDP"}]
      /\ _server_port \in [Sockets -> {"none", "tcp", "discovery", "dhcp", "other"}]
    BY DEF SocketsInit
<1> QED
    BY <1>1, <1>2 DEF SocketsInv, SocketsType, SetupInv, LoopInv, DiscoverySocketKept

LEMMA SocketsStepKeeps ==
    ASSUME SocketsInv, [SocketsNext]_socketVars
    PROVE  SocketsInv'
<1>1. CASE ProgramStep
    BY <1>1, SetupStep, LeaseStep, PerformIOStep DEF ProgramStep, SocketsStep
<1>2. CASE \E s \in Sockets : ChipActs(s)
    BY <1>2, ChipStep
<1>3. CASE UNCHANGED socketVars
    BY <1>3 DEF socketVars, chip, program, SocketsInv, SocketsType, SetupInv, LoopInv, DiscoverySocketKept
<1> QED
    BY <1>1, <1>2, <1>3 DEF SocketsNext

\* TinyAlpacaServer::Initialize and the loop of a sketch: on a chip with any number
\* of sockets, and whenever peers connect and leave, the discovery server has a
\* socket that is no server's and that stays open, although DHCP borrows sockets
\* that are closed for a moment.
THEOREM DiscoverySocketStays == SocketsSpec => []DiscoverySocketKept
<1>1. SocketsInv /\ [SocketsNext]_socketVars => SocketsInv'
    BY SocketsStepKeeps
<1>2. SocketsInv => DiscoverySocketKept
    BY DEF SocketsInv
<1> QED
    BY <1>1, <1>2, SocketsStart, PTL DEF SocketsSpec

\* In the composition with the network and the client, the sockets behave as
\* module ServerSockets says.
LEMMA DiscoveryStepsSockets ==
    ASSUME [DiscoveryNext]_discoveryVars
    PROVE  [SocketsNext]_socketVars
<1>1. CASE ServerStep
    BY <1>1, Zenon DEF ServerStep, AnswerDiscovery, SocketsNext, ProgramStep
<1>2. CASE \E s \in Sockets : ChipActs(s)
    BY <1>2, Zenon DEF SocketsNext
<1>3. CASE UNCHANGED socketVars
    BY <1>3
<1> QED
    BY <1>1, <1>2, <1>3, Zenon DEF DiscoveryNext, MainStep, WorkerStep, ReceiverStep, RequestArrives,
       IsLost, IsDuplicated, StrayArrives, discoveryVars

\* The discovery server and its clients do not disturb who uses which socket: the
\* composition implements the specification of the sockets.
THEOREM DiscoveryImplementsSockets ==
    DiscoverySpec => SocketsInit /\ [][SocketsNext]_socketVars
<1>1. DiscoveryInit => SocketsInit
    BY DEF DiscoveryInit
<1>2. [DiscoveryNext]_discoveryVars => [SocketsNext]_socketVars
    BY DiscoveryStepsSockets
<1> QED
    BY <1>1, <1>2, PTL DEF DiscoverySpec

\* The same while discovery requests are answered: TinyAlpacaDiscoveryServer keeps
\* its socket, and no server listens on it.
THEOREM DiscoveryKeepsSocket == DiscoverySpec => []DiscoverySocketKept
<1>1. SocketsInv /\ [SocketsNext]_socketVars => SocketsInv'
    BY SocketsStepKeeps
<1>2. SocketsInv => DiscoverySocketKept
    BY DEF SocketsInv
<1> QED
    BY <1>1, <1>2, SocketsStart, DiscoveryImplementsSockets, PTL
-----------------------------------------------------------------------------
(* The threads of the client *)

WorkerPlaces == {"none", "create", "send", "is_alive", "get", "yield", "rest", "yield rest", "done"}
ReceiverPlaces == {"none", "recvfrom", "put", "done"}

ClientType ==
    /\ requests \in [Sources -> Nat] /\ replies \in [Sources -> Nat]
    /\ q \in [Sources -> Nat] /\ response_queue \in [Sources -> Nat]
    /\ unhandled \in [Sources -> Nat]
    /\ rx \in Seq(Sources \cup Unexpected)
    /\ worker \in [Sources -> WorkerPlaces]
    /\ receiver \in [Sources -> ReceiverPlaces]
    /\ threads \subseteq Sources

\* The source has sent nothing that could still be answered.
Silent(s) ==
    /\ requests[s] = 0 /\ replies[s] = 0
    /\ s \notin Unexpected => \A i \in DOMAIN rx : rx[i] # s

Drained(s) == q[s] = 0 /\ receiver[s] # "put"

\* Where the responses of a source are: with the receiver, in the queue between
\* the threads, with the worker, or in the shared queue.
WithReceiver(s) == IF receiver[s] = "put" THEN 1 ELSE 0
WithWorker(s) == IF worker[s] \in {"yield", "yield rest"} THEN 1 ELSE 0
Accounted(s) == unhandled[s] = WithReceiver(s) + q[s] + WithWorker(s) + response_queue[s]

\* A worker that ends leaves nothing behind, even one that could not send: its receiver waits for
\* answers that nobody will send.
ThreadInv(s) ==
    /\ worker[s] \in {"none", "create", "send"} => Silent(s) /\ Drained(s)
    /\ worker[s] \in {"rest", "yield rest"} => receiver[s] = "done"
    /\ worker[s] = "done" => Drained(s) /\ (receiver[s] = "done" \/ Silent(s))
    /\ main = "start" => worker[s] = "none"
    /\ main # "start" /\ s \notin threads => worker[s] = "done"
    /\ Accounted(s)

ClientInv ==
    /\ ClientType
    /\ \A s \in Sources : ThreadInv(s)
    /\ main = "done" => threads = {} /\ response_queue = Zero

LEMMA Counts ==
    ASSUME ClientType, NEW s \in Sources
    PROVE  /\ q[s] \in Nat /\ response_queue[s] \in Nat /\ unhandled[s] \in Nat
           /\ WithReceiver(s) \in Nat /\ WithWorker(s) \in Nat
BY DEF ClientType, WithReceiver, WithWorker

LEMMA BumpUp ==
    ASSUME NEW f \in [Sources -> Nat], NEW s \in Sources
    PROVE  /\ Bump(f, s, 1) \in [Sources -> Nat]
           /\ Bump(f, s, 1)[s] = f[s] + 1
           /\ \A t \in Sources \ {s} : Bump(f, s, 1)[t] = f[t]
BY DEF Bump

LEMMA BumpDown ==
    ASSUME NEW f \in [Sources -> Nat], NEW s \in Sources, f[s] > 0
    PROVE  /\ Bump(f, s, -1) \in [Sources -> Nat]
           /\ Bump(f, s, -1)[s] = f[s] - 1
           /\ \A t \in Sources \ {s} : Bump(f, s, -1)[t] = f[t]
BY DEF Bump

\* What a source is about stays so while its threads, its counters and its part
\* of the network do.
LEMMA OtherSource ==
    ASSUME NEW s \in Sources, ThreadInv(s),
           worker'[s] = worker[s], receiver'[s] = receiver[s], q'[s] = q[s],
           response_queue'[s] = response_queue[s], unhandled'[s] = unhandled[s],
           Silent(s) => Silent(s)',
           main' = main, threads' = threads
    PROVE  ThreadInv(s)'
BY DEF ThreadInv, Drained, Accounted, WithReceiver, WithWorker

\* Nothing comes to a source that is silent, whatever the network and the server
\* do.
LEMMA NetworkStep ==
    ASSUME ClientInv,
           UNCHANGED <<worker, receiver, q, response_queue, unhandled, main, threads>>,
           requests' \in [Sources -> Nat], replies' \in [Sources -> Nat],
           rx' \in Seq(Sources \cup Unexpected),
           \A s \in Sources : Silent(s) => Silent(s)'
    PROVE  ClientInv'
<1>1. ClientType'
    BY DEF ClientInv, ClientType
<1>2. ASSUME NEW s \in Sources
      PROVE  ThreadInv(s)'
    BY <1>2, OtherSource DEF ClientInv
<1> QED
    BY <1>1, <1>2 DEF ClientInv, Zero

LEMMA NetworkActs ==
    ASSUME ClientInv, NEW s \in Sources, RequestArrives(s) \/ IsLost(s) \/ IsDuplicated(s)
    PROVE  ClientInv'
<1>1. UNCHANGED <<worker, receiver, q, response_queue, unhandled, main, threads>>
    BY Zenon DEF RequestArrives, IsLost, IsDuplicated, client
<1>2. CASE requests[s] > 0 /\ rx' = rx /\ replies' = replies
           /\ (requests' = Bump(requests, s, -1) \/ requests' = Bump(requests, s, 1))
  <2>1. /\ requests' \in [Sources -> Nat]
        /\ \A t \in Sources \ {s} : requests'[t] = requests[t]
    <3>1. requests \in [Sources -> Nat]
      BY DEF ClientInv, ClientType
    <3>2. CASE requests' = Bump(requests, s, -1)
      BY <1>2, <3>1, <3>2, BumpDown, Zenon
    <3>3. CASE requests' = Bump(requests, s, 1)
      BY <3>1, <3>3, BumpUp, Zenon
    <3> QED
      BY <1>2, <3>2, <3>3
  <2>2. ASSUME NEW t \in Sources, Silent(t)
        PROVE  Silent(t)'
    BY <1>2, <2>1, <2>2 DEF Silent
  <2> QED
    BY <1>1, <1>2, <2>1, <2>2, NetworkStep DEF ClientInv, ClientType
<1>3. CASE replies[s] > 0 /\ rx' = rx /\ requests' = requests
           /\ (replies' = Bump(replies, s, -1) \/ replies' = Bump(replies, s, 1))
  <2>1. /\ replies' \in [Sources -> Nat]
        /\ \A t \in Sources \ {s} : replies'[t] = replies[t]
    <3>1. replies \in [Sources -> Nat]
      BY DEF ClientInv, ClientType
    <3>2. CASE replies' = Bump(replies, s, -1)
      BY <1>3, <3>1, <3>2, BumpDown, Zenon
    <3>3. CASE replies' = Bump(replies, s, 1)
      BY <3>1, <3>3, BumpUp, Zenon
    <3> QED
      BY <1>3, <3>2, <3>3
  <2>2. ASSUME NEW t \in Sources, Silent(t)
        PROVE  Silent(t)'
    BY <1>3, <2>1, <2>2 DEF Silent
  <2> QED
    BY <1>1, <1>3, <2>1, <2>2, NetworkStep DEF ClientInv, ClientType
<1>4. CASE requests[s] > 0 /\ requests' = Bump(requests, s, -1)
           /\ rx' = Append(rx, s) /\ replies' = replies
  <2>1. /\ requests' \in [Sources -> Nat]
        /\ \A t \in Sources \ {s} : requests'[t] = requests[t]
    BY <1>4, BumpDown, Zenon DEF ClientInv, ClientType
  <2>2. /\ rx' \in Seq(Sources \cup Unexpected)
        /\ \A i \in DOMAIN rx' : rx'[i] = s \/ (i \in DOMAIN rx /\ rx'[i] = rx[i])
    BY <1>4 DEF ClientInv, ClientType
  <2>3. ASSUME NEW t \in Sources, Silent(t)
        PROVE  Silent(t)'
    BY <1>4, <2>1, <2>2, <2>3 DEF Silent
  <2> QED
    BY <1>1, <1>4, <2>1, <2>2, <2>3, NetworkStep DEF ClientInv, ClientType
<1> QED
    BY <1>2, <1>3, <1>4, Zenon DEF RequestArrives, IsLost, IsDuplicated

LEMMA StrayStep ==
    ASSUME ClientInv, NEW kind \in Unexpected, StrayArrives(kind)
    PROVE  ClientInv'
<1>1. /\ UNCHANGED <<worker, receiver, q, response_queue, unhandled, main, threads>>
      /\ rx' = Append(rx, kind) /\ UNCHANGED <<requests, replies>>
    BY Zenon DEF StrayArrives, client
<1>2. /\ rx' \in Seq(Sources \cup Unexpected)
      /\ \A i \in DOMAIN rx' : rx'[i] = kind \/ (i \in DOMAIN rx /\ rx'[i] = rx[i])
    BY <1>1 DEF ClientInv, ClientType
<1>3. ASSUME NEW t \in Sources, Silent(t)
      PROVE  Silent(t)'
    BY <1>1, <1>2, <1>3 DEF Silent
<1> QED
    BY <1>1, <1>2, <1>3, NetworkStep DEF ClientInv, ClientType

\* The server answers who asked, so nobody who did not.
LEMMA AnswerStep ==
    ASSUME ClientInv, AnswerDiscovery
    PROVE  ClientInv'
<1>1. UNCHANGED <<worker, receiver, q, response_queue, unhandled, main, threads, requests>>
    BY Zenon DEF AnswerDiscovery, client
<1>2. CASE rx' = rx /\ replies' = replies
    BY <1>1, <1>2, NetworkStep DEF Silent, ClientInv, ClientType
<1>3. CASE rx # << >> /\ rx' = Tail(rx)
  <2>1. /\ rx' \in Seq(Sources \cup Unexpected) /\ 1 \in DOMAIN rx /\ Head(rx) = rx[1]
        /\ Head(rx) \in Sources \cup Unexpected
        /\ \A i \in DOMAIN rx' : i + 1 \in DOMAIN rx /\ rx'[i] = rx[i + 1]
    BY <1>3 DEF ClientInv, ClientType
  <2>2. CASE replies' = replies
    BY <1>1, <2>1, <2>2, NetworkStep DEF Silent, ClientInv, ClientType
  <2>3. CASE Head(rx) \notin Unexpected /\ replies' = Bump(replies, Head(rx), 1)
    <3>1. /\ replies' \in [Sources -> Nat]
          /\ \A t \in Sources \ {Head(rx)} : replies'[t] = replies[t]
      <4>1. Head(rx) \in Sources
        BY <2>1, <2>3
      <4> QED
        BY <2>3, <4>1, BumpUp, Zenon DEF ClientInv, ClientType
    <3>2. ASSUME NEW t \in Sources, Silent(t)
          PROVE  Silent(t)'
      <4>1. t # Head(rx)
        BY <2>1, <2>3, <3>2 DEF Silent
      <4> QED
        BY <1>1, <2>1, <3>1, <3>2, <4>1 DEF Silent
    <3> QED
      BY <1>1, <2>1, <3>1, <3>2, NetworkStep DEF ClientInv, ClientType
  <2> QED
    BY <1>3, <2>2, <2>3, Zenon DEF AnswerDiscovery
<1> QED
    BY <1>2, <1>3, Zenon DEF AnswerDiscovery, ParsePacket

\* A step of the threads of one source leaves the others alone.
LEMMA ThreadStep ==
    ASSUME ClientInv, NEW s \in Sources, UNCHANGED <<main, threads>>,
           ClientType', ThreadInv(s)',
           \A t \in Sources \ {s} :
               /\ worker'[t] = worker[t] /\ receiver'[t] = receiver[t] /\ q'[t] = q[t]
               /\ response_queue'[t] = response_queue[t] /\ unhandled'[t] = unhandled[t]
               /\ Silent(t) => Silent(t)',
           main = "done" => response_queue' = response_queue
    PROVE  ClientInv'
<1>1. ASSUME NEW t \in Sources
      PROVE  ThreadInv(t)'
  <2>1. CASE t = s
    BY <2>1
  <2>2. CASE t # s
    BY <2>2, OtherSource DEF ClientInv
  <2> QED
    BY <2>1, <2>2
<1> QED
    BY <1>1 DEF ClientInv, Zero

LEMMA ReceiverKeeps ==
    ASSUME ClientInv, NEW s \in Sources, ReceiverStep(s)
    PROVE  ClientInv'
<1>1. /\ UNCHANGED <<requests, rx, worker, response_queue, main, threads>>
    BY Zenon DEF ReceiverStep
<1>2. ClientType /\ ThreadInv(s)
    BY DEF ClientInv
<1>3. \A value \in ReceiverPlaces :
          LET r == [receiver EXCEPT ![s] = value]
          IN  r \in [Sources -> ReceiverPlaces] /\ r[s] = value
              /\ \A t \in Sources \ {s} : r[t] = receiver[t]
    BY <1>2 DEF ClientType
<1>4. CASE receiver[s] = "recvfrom" /\ replies[s] > 0 /\ replies' = Bump(replies, s, -1)
           /\ unhandled' = Bump(unhandled, s, 1) /\ receiver' = [receiver EXCEPT ![s] = "put"]
           /\ q' = q
  <2>1. /\ replies' \in [Sources -> Nat] /\ \A t \in Sources \ {s} : replies'[t] = replies[t]
    BY <1>2, <1>4, BumpDown, Zenon DEF ClientType
  <2>2. /\ unhandled' \in [Sources -> Nat] /\ unhandled'[s] = unhandled[s] + 1
        /\ \A t \in Sources \ {s} : unhandled'[t] = unhandled[t]
    BY <1>2, <1>4, BumpUp, Zenon DEF ClientType
  <2>3. /\ receiver' \in [Sources -> ReceiverPlaces] /\ receiver'[s] = "put"
        /\ \A t \in Sources \ {s} : receiver'[t] = receiver[t]
    BY <1>3, <1>4 DEF ReceiverPlaces
  <2>4. ~Silent(s)
    BY <1>2, <1>4 DEF Silent, ClientType
  <2>5. ThreadInv(s)'
    <3>1. Accounted(s)'
      <4>1. WithReceiver(s) = 0 /\ WithReceiver(s)' = 1 /\ WithWorker(s)' = WithWorker(s)
        BY <1>1, <1>4, <2>3 DEF WithReceiver, WithWorker
      <4>2. ClientType /\ Accounted(s)
        BY DEF ClientInv, ThreadInv
      <4> QED
        BY <1>1, <1>4, <2>2, <4>1, <4>2, Counts DEF Accounted
    <3> QED
      BY <1>1, <1>2, <1>4, <2>2, <2>3, <2>4, <3>1 DEF ThreadInv, ClientType
  <2>6. ClientType'
    BY <1>1, <1>2, <1>4, <2>1, <2>2, <2>3 DEF ClientType
  <2> QED
    BY <1>1, <1>4, <2>1, <2>2, <2>3, <2>5, <2>6, ThreadStep DEF Silent
<1>5. CASE receiver[s] = "put" /\ q' = Bump(q, s, 1)
           /\ receiver' = [receiver EXCEPT ![s] = "recvfrom"] /\ UNCHANGED <<replies, unhandled>>
  <2>1. /\ q' \in [Sources -> Nat] /\ q'[s] = q[s] + 1
        /\ \A t \in Sources \ {s} : q'[t] = q[t]
    BY <1>2, <1>5, BumpUp, Zenon DEF ClientType
  <2>2. /\ receiver' \in [Sources -> ReceiverPlaces] /\ receiver'[s] = "recvfrom"
        /\ \A t \in Sources \ {s} : receiver'[t] = receiver[t]
    BY <1>3, <1>5 DEF ReceiverPlaces
  <2>3. ThreadInv(s)'
    <3>1. Accounted(s)'
      <4>1. WithReceiver(s) = 1 /\ WithReceiver(s)' = 0 /\ WithWorker(s)' = WithWorker(s)
        BY <1>1, <1>5, <2>2 DEF WithReceiver, WithWorker
      <4>2. ClientType /\ Accounted(s)
        BY DEF ClientInv, ThreadInv
      <4> QED
        BY <1>1, <1>5, <2>1, <4>1, <4>2, Counts DEF Accounted
    <3> QED
      BY <1>1, <1>2, <1>5, <2>1, <2>2, <3>1 DEF ThreadInv, Drained, ClientType
  <2>4. ClientType'
    BY <1>1, <1>2, <1>5, <2>1, <2>2 DEF ClientType
  <2> QED
    BY <1>1, <1>5, <2>1, <2>2, <2>3, <2>4, ThreadStep DEF Silent
<1>6. CASE receiver[s] = "recvfrom" /\ receiver' = [receiver EXCEPT ![s] = "done"]
           /\ UNCHANGED <<replies, unhandled, q>>
  <2>1. /\ receiver' \in [Sources -> ReceiverPlaces] /\ receiver'[s] = "done"
        /\ \A t \in Sources \ {s} : receiver'[t] = receiver[t]
    BY <1>3, <1>6 DEF ReceiverPlaces
  <2>2. ThreadInv(s)'
    <3>1. Accounted(s)'
      BY <1>1, <1>2, <1>6, <2>1 DEF ThreadInv, Drained, Accounted, ClientType, WithReceiver, WithWorker
    <3> QED
      BY <1>1, <1>2, <1>6, <2>1, <3>1 DEF ThreadInv, Drained, Silent, ClientType
  <2>3. ClientType'
    BY <1>1, <1>2, <1>6, <2>1 DEF ClientType
  <2> QED
    BY <1>1, <1>6, <2>1, <2>2, <2>3, ThreadStep DEF Silent
<1> QED
    BY <1>4, <1>5, <1>6, Zenon DEF ReceiverStep

LEMMA WorkerKeeps ==
    ASSUME ClientInv, NEW s \in Sources, WorkerStep(s)
    PROVE  ClientInv'
<1>1. /\ UNCHANGED <<rx, replies, main, threads, unhandled>>
    BY Zenon DEF WorkerStep
<1>2. ClientType /\ ThreadInv(s)
    BY DEF ClientInv
<1>3. \A value \in WorkerPlaces :
          LET w == [worker EXCEPT ![s] = value]
          IN  w \in [Sources -> WorkerPlaces] /\ w[s] = value
              /\ \A t \in Sources \ {s} : w[t] = worker[t]
    BY <1>2 DEF ClientType
<1>4. PICK value \in WorkerPlaces : worker' = [worker EXCEPT ![s] = value]
    BY DEF WorkerStep, CreateSocket, SendPacket, IsAlive, Get, GetRest, Put, WorkerPlaces
<1>5. /\ worker' \in [Sources -> WorkerPlaces] /\ worker'[s] = value
      /\ \A t \in Sources \ {s} : worker'[t] = worker[t]
    BY <1>3, <1>4
<1>6. CASE CreateSocket(s)
  <2>1. /\ worker[s] = "create" /\ UNCHANGED <<requests, q, response_queue>>
        /\ \/ worker'[s] = "send" /\ receiver' = [receiver EXCEPT ![s] = "recvfrom"]
           \/ worker'[s] = "done" /\ receiver' = receiver
    BY <1>2, <1>6 DEF CreateSocket, ClientType
  <2>2. /\ receiver' \in [Sources -> ReceiverPlaces]
        /\ \A t \in Sources \ {s} : receiver'[t] = receiver[t]
        /\ receiver'[s] # "put"
    BY <1>2, <2>1 DEF ClientType, ReceiverPlaces, ThreadInv, Drained
  <2>3. Silent(s)' /\ Silent(s)
    BY <1>1, <1>2, <2>1 DEF ThreadInv, Silent
  <2>4. ThreadInv(s)'
    <3>1. Accounted(s)'
      BY <1>1, <1>2, <2>1, <2>2, <2>3 DEF ThreadInv, Drained, Accounted, ClientType, WithReceiver, WithWorker
    <3> QED
      BY <1>1, <1>2, <2>1, <2>2, <2>3, <3>1 DEF ThreadInv, Drained, ClientType
  <2>5. ClientType'
    BY <1>1, <1>2, <1>5, <2>1, <2>2 DEF ClientType
  <2> QED
    BY <1>1, <1>5, <2>1, <2>2, <2>4, <2>5, ThreadStep DEF Silent
<1>7. CASE SendPacket(s)
  <2>1. /\ worker[s] = "send" /\ UNCHANGED <<receiver, q, response_queue>>
        /\ \/ worker'[s] = "is_alive" /\ requests' = Bump(requests, s, 1)
           \/ worker'[s] = "done" /\ requests' = requests
    BY <1>2, <1>7 DEF SendPacket, ClientType
  <2>2. /\ requests' \in [Sources -> Nat]
        /\ \A t \in Sources \ {s} : requests'[t] = requests[t]
    <3>1. requests \in [Sources -> Nat]
      BY <1>2 DEF ClientType
    <3>2. CASE requests' = Bump(requests, s, 1)
      BY <3>1, <3>2, BumpUp, Zenon
    <3> QED
      BY <2>1, <3>1, <3>2
  <2>3. requests' = requests => Silent(s)'
    BY <1>1, <1>2, <2>1 DEF ThreadInv, Silent
  <2>4. ThreadInv(s)'
    <3>1. Accounted(s)'
      BY <1>1, <1>2, <2>1, <2>3 DEF ThreadInv, Drained, Accounted, ClientType, WithReceiver, WithWorker
    <3> QED
      BY <1>1, <1>2, <2>1, <2>3, <3>1 DEF ThreadInv, Drained, ClientType
  <2>5. ClientType'
    BY <1>1, <1>2, <1>5, <2>1, <2>2 DEF ClientType
  <2> QED
    BY <1>1, <1>5, <2>1, <2>2, <2>4, <2>5, ThreadStep DEF Silent
<1>8. CASE IsAlive(s) \/ (Get(s) /\ q' = q) \/ (GetRest(s) /\ q' = q)
  <2>1. /\ UNCHANGED <<requests, receiver, q, response_queue>>
        /\ \/ worker[s] = "is_alive"
              /\ worker'[s] = IF receiver[s] = "done" THEN "rest" ELSE "get"
           \/ worker[s] = "get" /\ worker'[s] = "is_alive"
           \/ worker[s] = "rest" /\ worker'[s] = "done" /\ q[s] = 0
    <3>1. UNCHANGED <<requests, receiver, q, response_queue>>
      BY <1>8, Zenon DEF IsAlive, Get, GetRest
    <3>2. CASE IsAlive(s)
      BY <1>2, <3>1, <3>2 DEF IsAlive, ClientType
    <3>3. CASE Get(s) /\ q' = q
      <4>1. ~(q[s] > 0)
        <5> SUFFICES ASSUME q[s] > 0 PROVE FALSE
          OBVIOUS
        <5>1. q = Bump(q, s, -1)
          BY <3>3, Zenon DEF Get
        <5>2. q \in [Sources -> Nat]
          BY <1>2 DEF ClientType
        <5>3. Bump(q, s, -1)[s] = q[s] - 1
          BY <5>2, BumpDown, Zenon
        <5> QED
          BY <5>1, <5>2, <5>3
      <4> QED
        BY <1>2, <3>1, <3>3, <4>1 DEF Get, ClientType
    <3>4. CASE GetRest(s) /\ q' = q
      <4>1. ~(q[s] > 0)
        <5> SUFFICES ASSUME q[s] > 0 PROVE FALSE
          OBVIOUS
        <5>1. q = Bump(q, s, -1)
          BY <3>4, Zenon DEF GetRest
        <5>2. q \in [Sources -> Nat]
          BY <1>2 DEF ClientType
        <5>3. Bump(q, s, -1)[s] = q[s] - 1
          BY <5>2, BumpDown, Zenon
        <5> QED
          BY <5>1, <5>2, <5>3
      <4> QED
        BY <1>2, <3>1, <3>4, <4>1 DEF GetRest, ClientType
    <3> QED
      BY <1>8, <3>2, <3>3, <3>4
  <2>2. ThreadInv(s)'
    <3>1. Accounted(s)'
      BY <1>1, <1>2, <2>1 DEF ThreadInv, Drained, Accounted, ClientType, WithReceiver, WithWorker
    <3> QED
      BY <1>1, <1>2, <2>1, <3>1 DEF ThreadInv, Drained, ClientType
  <2>3. ClientType'
    BY <1>1, <1>2, <1>5, <2>1 DEF ClientType
  <2> QED
    BY <1>1, <1>5, <2>1, <2>2, <2>3, ThreadStep DEF Silent
<1>9. CASE (Get(s) \/ GetRest(s)) /\ q[s] > 0
  <2>1. /\ UNCHANGED <<requests, receiver, response_queue>> /\ q' = Bump(q, s, -1)
        /\ \/ worker[s] = "get" /\ worker'[s] = "yield"
           \/ worker[s] = "rest" /\ worker'[s] = "yield rest"
    BY <1>2, <1>9 DEF Get, GetRest, ClientType
  <2>2. /\ q' \in [Sources -> Nat] /\ q'[s] = q[s] - 1
        /\ \A t \in Sources \ {s} : q'[t] = q[t]
    BY <1>2, <1>9, <2>1, BumpDown, Zenon DEF ClientType
  <2>3. ThreadInv(s)'
    <3>1. Accounted(s)'
      <4>1. WithWorker(s) = 0 /\ WithWorker(s)' = 1 /\ WithReceiver(s)' = WithReceiver(s)
        BY <2>1 DEF WithReceiver, WithWorker
      <4>2. ClientType /\ Accounted(s)
        BY DEF ClientInv, ThreadInv
      <4>3. /\ q[s] \in Nat /\ response_queue[s] \in Nat /\ unhandled[s] \in Nat
            /\ WithReceiver(s) \in Nat /\ unhandled' = unhandled /\ response_queue' = response_queue
        BY <1>1, <2>1, <4>2, Counts
      <4>4. unhandled[s] = WithReceiver(s)' + q'[s] + WithWorker(s)' + response_queue'[s]
        BY <2>2, <4>1, <4>2, <4>3 DEF Accounted
      <4> QED
        BY <4>3, <4>4, Zenon DEF Accounted
    <3> QED
      BY <1>1, <1>2, <2>1, <2>2, <3>1 DEF ThreadInv, Drained, ClientType
  <2>4. ClientType'
    BY <1>1, <1>2, <1>5, <2>1, <2>2 DEF ClientType
  <2> QED
    BY <1>1, <1>5, <2>1, <2>2, <2>3, <2>4, ThreadStep DEF Silent
<1>10. CASE Put(s)
  <2>1. /\ UNCHANGED <<requests, receiver, q>> /\ response_queue' = Bump(response_queue, s, 1)
        /\ \/ worker[s] = "yield" /\ worker'[s] = "is_alive"
           \/ worker[s] = "yield rest" /\ worker'[s] = "rest"
    BY <1>2, <1>10 DEF Put, ClientType
  <2>2. /\ response_queue' \in [Sources -> Nat] /\ response_queue'[s] = response_queue[s] + 1
        /\ \A t \in Sources \ {s} : response_queue'[t] = response_queue[t]
    BY <1>2, <2>1, BumpUp, Zenon DEF ClientType
  <2>3. main # "done"
    BY <2>1 DEF ClientInv, ThreadInv
  <2>4. ThreadInv(s)'
    <3>1. Accounted(s)'
      <4>1. WithWorker(s) = 1 /\ WithWorker(s)' = 0 /\ WithReceiver(s)' = WithReceiver(s)
        BY <2>1 DEF WithReceiver, WithWorker
      <4>2. ClientType /\ Accounted(s)
        BY DEF ClientInv, ThreadInv
      <4>3. /\ q[s] \in Nat /\ response_queue[s] \in Nat /\ unhandled[s] \in Nat
            /\ WithReceiver(s) \in Nat /\ unhandled' = unhandled /\ q' = q
        BY <1>1, <2>1, <4>2, Counts
      <4>4. unhandled[s] = WithReceiver(s)' + q'[s] + WithWorker(s)' + response_queue'[s]
        BY <2>2, <4>1, <4>2, <4>3 DEF Accounted
      <4> QED
        BY <4>3, <4>4, Zenon DEF Accounted
    <3> QED
      BY <1>1, <1>2, <2>1, <2>2, <3>1 DEF ThreadInv, Drained, ClientType
  <2>5. ClientType'
    BY <1>1, <1>2, <1>5, <2>1, <2>2 DEF ClientType
  <2> QED
    BY <1>1, <1>5, <2>1, <2>2, <2>3, <2>4, <2>5, ThreadStep DEF Silent
<1> QED
    BY <1>6, <1>7, <1>8, <1>9, <1>10, Zenon DEF WorkerStep, Get, GetRest

LEMMA MainKeeps ==
    ASSUME ClientInv, MainStep
    PROVE  ClientInv'
<1>1. UNCHANGED <<requests, rx, replies, receiver, q>>
    BY Zenon DEF MainStep, network
<1>2. \A s \in Sources : Silent(s)' <=> Silent(s)
    BY <1>1 DEF Silent
<1>3. CASE StartThreads
  <2>1. /\ main = "start" /\ main' = "threads" /\ threads' = Sources
        /\ worker' = [s \in Sources |-> "create"] /\ UNCHANGED <<response_queue, unhandled>>
    BY <1>3, Zenon DEF StartThreads
  <2>2. ClientType'
    BY <1>1, <2>1 DEF ClientInv, ClientType, WorkerPlaces
  <2>3. ASSUME NEW s \in Sources
        PROVE  ThreadInv(s)'
    <3>1. ThreadInv(s) /\ worker[s] = "none" /\ worker'[s] = "create"
      BY <2>1 DEF ClientInv, ThreadInv
    <3> QED
      BY <1>1, <1>2, <2>1, <3>1 DEF ThreadInv, Drained, Accounted, WithReceiver, WithWorker
  <2> QED
    BY <2>1, <2>2, <2>3 DEF ClientInv
<1>4. CASE main # "start" /\ main' # "start" /\ UNCHANGED <<worker, response_queue, unhandled>>
           /\ threads' \subseteq threads /\ (\A s \in threads \ threads' : worker[s] = "done")
           /\ (main' = "done" => threads' = {} /\ response_queue = Zero)
  <2>1. ClientType'
    BY <1>1, <1>4 DEF ClientInv, ClientType
  <2>2. ASSUME NEW s \in Sources
        PROVE  ThreadInv(s)'
    BY <1>1, <1>2, <1>4 DEF ClientInv, ThreadInv, Drained, Accounted, WithReceiver, WithWorker
  <2> QED
    BY <1>4, <2>1, <2>2 DEF ClientInv, Zero
<1>5. ASSUME NEW s \in Sources, Handle(s)
      PROVE  ClientInv'
  <2>1. /\ main = "handle" /\ response_queue[s] > 0 /\ UNCHANGED <<main, threads, worker>>
        /\ response_queue' = Bump(response_queue, s, -1) /\ unhandled' = Bump(unhandled, s, -1)
    BY <1>5, Zenon DEF Handle
  <2>2. /\ response_queue' \in [Sources -> Nat] /\ response_queue'[s] = response_queue[s] - 1
        /\ \A t \in Sources \ {s} : response_queue'[t] = response_queue[t]
    BY <2>1, BumpDown, Zenon DEF ClientInv, ClientType
  <2>3. unhandled[s] > 0
    <3>1. ClientType /\ Accounted(s)
      BY DEF ClientInv, ThreadInv
    <3> QED
      BY <2>1, <3>1, Counts DEF Accounted
  <2>4. /\ unhandled' \in [Sources -> Nat] /\ unhandled'[s] = unhandled[s] - 1
        /\ \A t \in Sources \ {s} : unhandled'[t] = unhandled[t]
    BY <2>1, <2>3, BumpDown, Zenon DEF ClientInv, ClientType
  <2>5. ThreadInv(s)'
    <3>1. Accounted(s)'
      <4>1. WithWorker(s)' = WithWorker(s) /\ WithReceiver(s)' = WithReceiver(s)
        BY <1>1, <2>1 DEF WithReceiver, WithWorker
      <4>2. ClientType /\ Accounted(s)
        BY DEF ClientInv, ThreadInv
      <4> QED
        BY <1>1, <2>2, <2>4, <4>1, <4>2, Counts DEF Accounted
    <3> QED
      BY <1>1, <1>2, <2>1, <2>2, <2>4, <3>1 DEF ClientInv, ClientType, ThreadInv, Drained
  <2>6. ClientType'
    BY <1>1, <2>1, <2>2, <2>4 DEF ClientInv, ClientType
  <2> QED
    BY <1>1, <1>2, <2>1, <2>2, <2>4, <2>5, <2>6, ThreadStep
<1>6. ASSUME NEW s \in Sources, CheckThread(s)
      PROVE  ClientInv'
    BY <1>4, <1>6 DEF CheckThread
<1>7. CASE HandleResponses
  <2>1. CASE ThreadsChecked
    BY <1>4, <2>1 DEF ThreadsChecked
  <2>2. CASE /\ main = "handle" /\ response_queue = Zero
             /\ main' = IF threads = {} THEN "done" ELSE "threads"
             /\ UNCHANGED <<threads, worker, response_queue, unhandled>>
    BY <1>4, <2>2
  <2> QED
    BY <1>5, <1>7, <2>1, <2>2, Zenon DEF HandleResponses
<1> QED
    BY <1>3, <1>6, <1>7, Zenon DEF MainStep

\* perform_discovery and its threads: however the threads interleave and whatever
\* the network loses and duplicates, when it returns the handler has been given
\* every response that was received, for any number of sources and queues of any
\* length.
THEOREM EveryResponseHandled == DiscoverySpec => []ResponsesHandled
<1>1. DiscoveryInit => ClientInv
  <2> SUFFICES ASSUME DiscoveryInit PROVE ClientInv
    OBVIOUS
  <2>1. Zero \in [Sources -> Nat] /\ \A s \in Sources : Zero[s] = 0
    BY DEF Zero
  <2>2. ClientType
    BY <2>1 DEF DiscoveryInit, ClientType, WorkerPlaces, ReceiverPlaces
  <2>3. ASSUME NEW s \in Sources
        PROVE  ThreadInv(s)
    BY <2>1 DEF DiscoveryInit, ThreadInv, Silent, Drained, Accounted, WithReceiver, WithWorker
  <2> QED
    BY <2>2, <2>3 DEF ClientInv, DiscoveryInit
<1>2. ClientInv /\ [DiscoveryNext]_discoveryVars => ClientInv'
  <2> SUFFICES ASSUME ClientInv, [DiscoveryNext]_discoveryVars PROVE ClientInv'
    OBVIOUS
  <2>1. CASE UNCHANGED <<network, client>>
    BY <2>1, NetworkStep DEF network, client, ClientInv, ClientType, Silent
  <2>2. CASE ServerStep
    BY <2>1, <2>2, AnswerStep DEF ServerStep
  <2> QED
    BY <2>1, <2>2, MainKeeps, WorkerKeeps, ReceiverKeeps, NetworkActs, StrayStep, Zenon
       DEF DiscoveryNext, discoveryVars
<1>3. ClientInv => ResponsesHandled
  <2> SUFFICES ASSUME ClientInv, main = "done" PROVE unhandled = Zero
    BY DEF ResponsesHandled
  <2>1. ASSUME NEW s \in Sources
        PROVE  unhandled[s] = 0
    <3>1. WithReceiver(s) = 0 /\ WithWorker(s) = 0 /\ q[s] = 0 /\ response_queue[s] = 0
      BY DEF ClientInv, ThreadInv, Drained, WithReceiver, WithWorker, Zero
    <3>2. Accounted(s)
      BY DEF ClientInv, ThreadInv
    <3> QED
      BY <3>1, <3>2 DEF Accounted
  <2> QED
    BY <2>1 DEF ClientInv, ClientType, Zero
<1> QED
    BY <1>1, <1>2, <1>3, PTL DEF DiscoverySpec
=============================================================================
