-------------------------------- MODULE Discovery --------------------------------
(***************************************************************************)
(* Alpaca discovery: the server's part (src/alpaca_discovery_server.cpp) in  *)
(* the loop of module ServerSockets, and the client                          *)
(* (extras/client/alpaca_discovery.py), which for each of its sources has a  *)
(* worker thread and a receiver thread, joined by a queue, and a main        *)
(* thread that hands what the workers put into a shared queue to a handler.  *)
(* The network loses and duplicates datagrams.                               *)
(*                                                                           *)
(* The answers are all alike, so queues and counters are numbers per source. *)
(***************************************************************************)
EXTENDS ServerSockets, Sequences, FiniteSetsExt, Functions

CONSTANTS
    Sources,            \* the client's network interfaces
    maxsize,            \* of the queues (1000 in the code)
    RxMax,              \* datagrams the chip can buffer
    MaxCopies,          \* bound: datagrams the network duplicates
    MaxStray            \* bound: datagrams that are no discovery requests

ASSUME DiscoveryAssumption ==
    /\ IsFiniteSet(Sources)
    /\ maxsize \in Nat \ {0} /\ RxMax \in Nat \ {0}
    /\ MaxCopies \in Nat /\ MaxStray \in Nat

VARIABLES
    requests,           \* discovery datagrams of each source on their way
    rx,                 \* what the discovery server's socket has buffered
    replies,            \* answers on their way to each source
    answered,           \* the sources that the server has answered
    copies, strays,     \* spent of MaxCopies and MaxStray
    worker, receiver,   \* where the threads of a source are
    q,                  \* length of the queue between them
    response_queue,     \* responses of each source in the shared queue
    main, threads, todo,\* perform_discovery: threads not known to be done
    unhandled           \* responses received from the network, less those handled

network == <<requests, rx, replies, answered, copies, strays>>
client == <<worker, receiver, q, response_queue, main, threads, todo, unhandled>>
discoveryVars == <<socketVars, network, client>>

Zero == [s \in Sources |-> 0]
Length == MapThenSumSet(LAMBDA s : response_queue[s], Sources)
Bump(f, s, n) == [f EXCEPT ![s] = @ + n]
-----------------------------------------------------------------------------
(* The network *)

RequestArrives(s) ==
    /\ requests[s] > 0
    /\ requests' = Bump(requests, s, -1)
    /\ rx' = IF udp_ # MAX_SOCK_NUM /\ Len(rx) < RxMax THEN Append(rx, s) ELSE rx
    /\ UNCHANGED <<replies, answered, copies, strays, socketVars, client>>

\* A datagram of another length, or of that length with another text.
StrayArrives(kind) ==
    /\ strays < MaxStray /\ udp_ # MAX_SOCK_NUM /\ Len(rx) < RxMax
    /\ rx' = Append(rx, kind)
    /\ strays' = strays + 1
    /\ UNCHANGED <<requests, replies, answered, copies, socketVars, client>>

IsLost(s) ==
    /\ \/ requests[s] > 0 /\ requests' = Bump(requests, s, -1) /\ UNCHANGED replies
       \/ replies[s] > 0 /\ replies' = Bump(replies, s, -1) /\ UNCHANGED requests
    /\ UNCHANGED <<rx, answered, copies, strays, socketVars, client>>

IsDuplicated(s) ==
    /\ copies < MaxCopies
    /\ copies' = copies + 1
    /\ \/ requests[s] > 0 /\ requests' = Bump(requests, s, 1) /\ UNCHANGED replies
       \/ replies[s] > 0 /\ replies' = Bump(replies, s, 1) /\ UNCHANGED requests
    /\ UNCHANGED <<rx, answered, strays, socketVars, client>>
-----------------------------------------------------------------------------
(* The server *)

Unexpected == {"length", "text"}

\* Mutant: a datagram of another length is left for later.
ParsePacketLeavesLong == rx' = IF Head(rx) = "length" THEN rx ELSE Tail(rx)

\* EthernetUDP::parsePacket takes the next datagram, whatever becomes of it.
ParsePacket == rx' = Tail(rx)

\* TinyAlpacaDiscoveryServer::PerformIO: at most one datagram in each round of
\* the loop, and an answer to who sent it if it is a discovery request.
AnswerDiscovery ==
    /\ PerformDiscoveryIO
    /\ IF udp_ = MAX_SOCK_NUM \/ rx = <<>>
         THEN UNCHANGED <<rx, replies, answered>>
         ELSE /\ ParsePacket
              /\ IF Head(rx) \in Unexpected
                   THEN UNCHANGED <<replies, answered>>
                   ELSE /\ replies' = Bump(replies, Head(rx), 1)
                        /\ answered' = answered \union {Head(rx)}
    /\ UNCHANGED <<requests, copies, strays, client>>
-----------------------------------------------------------------------------
(* A receiver thread: receiver() *)

ReceiverStep(s) ==
    /\ \/ /\ receiver[s] = "recvfrom" /\ replies[s] > 0
          /\ replies' = Bump(replies, s, -1)
          /\ unhandled' = Bump(unhandled, s, 1)
          /\ receiver' = [receiver EXCEPT ![s] = "put"]
          /\ UNCHANGED q
       \/ /\ receiver[s] = "put" /\ q[s] < maxsize
          /\ q' = Bump(q, s, 1)
          /\ receiver' = [receiver EXCEPT ![s] = "recvfrom"]
          /\ UNCHANGED <<replies, unhandled>>
       \/ /\ receiver[s] = "recvfrom"           \* socket.timeout
          /\ receiver' = [receiver EXCEPT ![s] = "done"]
          /\ UNCHANGED <<replies, unhandled, q>>
    /\ UNCHANGED <<requests, rx, answered, copies, strays, socketVars,
                   worker, response_queue, main, threads, todo>>
-----------------------------------------------------------------------------
(* A worker thread: worker() and generate_responses() *)

\* create_bound_udp_socket, which may raise, and the start of the receiver.
CreateSocket(s) ==
    /\ worker[s] = "create"
    /\ \/ worker' = [worker EXCEPT ![s] = "send"] /\ receiver' = [receiver EXCEPT ![s] = "recvfrom"]
       \/ worker' = [worker EXCEPT ![s] = "done"] /\ UNCHANGED receiver
    /\ UNCHANGED <<requests, q, response_queue>>

\* send_discovery_packet, which may raise.
SendPacket(s) ==
    /\ worker[s] = "send"
    /\ \/ worker' = [worker EXCEPT ![s] = "is_alive"] /\ requests' = Bump(requests, s, 1)
       \/ worker' = [worker EXCEPT ![s] = "done"] /\ UNCHANGED requests
    /\ UNCHANGED <<receiver, q, response_queue>>

\* while t.is_alive(): q.get with a timeout, else on to the rest of the queue.
IsAlive(s) ==
    /\ worker[s] = "is_alive"
    /\ worker' = [worker EXCEPT ![s] = IF receiver[s] = "done" THEN "rest" ELSE "get"]
    /\ UNCHANGED <<requests, receiver, q, response_queue>>

Get(s) ==
    /\ worker[s] = "get"
    /\ IF q[s] > 0
         THEN q' = Bump(q, s, -1) /\ worker' = [worker EXCEPT ![s] = "yield"]
         ELSE worker' = [worker EXCEPT ![s] = "is_alive"] /\ UNCHANGED q
    /\ UNCHANGED <<requests, receiver, response_queue>>

GetRest(s) ==
    /\ worker[s] = "rest"
    /\ IF q[s] > 0
         THEN q' = Bump(q, s, -1) /\ worker' = [worker EXCEPT ![s] = "yield rest"]
         ELSE worker' = [worker EXCEPT ![s] = "done"] /\ UNCHANGED q
    /\ UNCHANGED <<requests, receiver, response_queue>>

\* response_queue.put waits while the shared queue is full.
Put(s) ==
    /\ worker[s] \in {"yield", "yield rest"} /\ Length < maxsize
    /\ response_queue' = Bump(response_queue, s, 1)
    /\ worker' = [worker EXCEPT ![s] = IF @ = "yield" THEN "is_alive" ELSE "rest"]
    /\ UNCHANGED <<requests, receiver, q>>

WorkerStep(s) ==
    /\ CreateSocket(s) \/ SendPacket(s) \/ IsAlive(s) \/ Get(s) \/ GetRest(s) \/ Put(s)
    /\ UNCHANGED <<rx, replies, answered, copies, strays, socketVars,
                   main, threads, todo, unhandled>>
-----------------------------------------------------------------------------
(* The main thread: perform_discovery() *)

StartThreads ==
    /\ main = "start"
    /\ worker' = [s \in Sources |-> "create"]
    /\ threads' = Sources /\ todo' = Sources
    /\ main' = "threads"
    /\ UNCHANGED <<response_queue, unhandled>>

\* The threads are asked one by one whether they are alive.
CheckThread(s) ==
    /\ main = "threads" /\ s \in todo
    /\ todo' = todo \ {s}
    /\ threads' = IF worker[s] = "done" THEN threads \ {s} ELSE threads
    /\ UNCHANGED <<main, worker, response_queue, unhandled>>
ThreadsChecked ==
    /\ main = "threads" /\ todo = {}
    /\ main' = "handle"
    /\ UNCHANGED <<threads, todo, worker, response_queue, unhandled>>

Handle(s) ==
    /\ main = "handle" /\ response_queue[s] > 0
    /\ response_queue' = Bump(response_queue, s, -1)
    /\ unhandled' = Bump(unhandled, s, -1)
    /\ UNCHANGED <<main, threads, todo, worker>>

\* Mutant: what the workers put is handled once they are all done.
HandleLast ==
    \/ ThreadsChecked
    \/ /\ main = "handle" /\ (threads = {} => response_queue = Zero)
       /\ main' = IF threads = {} THEN "done" ELSE "threads"
       /\ todo' = threads
       /\ UNCHANGED <<threads, worker, response_queue, unhandled>>
    \/ threads = {} /\ \E s \in Sources : Handle(s)

\* Mutant: the queue is emptied first, then the threads are checked.
HandleFirst ==
    \/ /\ main = "threads" /\ todo = {}
       /\ main' = IF threads = {} THEN "done" ELSE "handle"
       /\ UNCHANGED <<threads, todo, worker, response_queue, unhandled>>
    \/ /\ main = "handle" /\ response_queue = Zero
       /\ main' = "threads"
       /\ todo' = threads
       /\ UNCHANGED <<threads, worker, response_queue, unhandled>>
    \/ \E s \in Sources : Handle(s)

\* while not q.empty(), and the end of the round.
HandleResponses ==
    \/ ThreadsChecked
    \/ /\ main = "handle" /\ response_queue = Zero
       /\ main' = IF threads = {} THEN "done" ELSE "threads"
       /\ todo' = threads
       /\ UNCHANGED <<threads, worker, response_queue, unhandled>>
    \/ \E s \in Sources : Handle(s)

MainStep ==
    /\ StartThreads \/ (\E s \in Sources : CheckThread(s)) \/ HandleResponses
    /\ UNCHANGED <<network, socketVars, receiver, q>>
-----------------------------------------------------------------------------
DiscoveryInit ==
    /\ SocketsInit
    /\ requests = Zero /\ rx = <<>> /\ replies = Zero /\ answered = {}
    /\ copies = 0 /\ strays = 0
    /\ worker = [s \in Sources |-> "none"] /\ receiver = [s \in Sources |-> "none"]
    /\ q = Zero /\ response_queue = Zero
    /\ main = "start" /\ threads = {} /\ todo = {}
    /\ unhandled = Zero

ServerStep ==
    \/ SocketsStep /\ UNCHANGED <<network, client>>
    \/ AnswerDiscovery

DiscoveryNext ==
    \/ ServerStep
    \/ \E s \in Sockets : ChipActs(s) /\ UNCHANGED <<network, client>>
    \/ MainStep
    \/ \E s \in Sources :
           \/ WorkerStep(s) \/ ReceiverStep(s)
           \/ RequestArrives(s) \/ IsLost(s) \/ IsDuplicated(s)
    \/ \E kind \in Unexpected : StrayArrives(kind)

\* The loop of the sketch and the threads of the client go on; the network owes
\* nobody anything.
DiscoverySpec ==
    /\ DiscoveryInit /\ [][DiscoveryNext]_discoveryVars
    /\ WF_discoveryVars(ServerStep)
    /\ WF_discoveryVars(MainStep)
    /\ \A s \in Sources : WF_discoveryVars(WorkerStep(s)) /\ WF_discoveryVars(ReceiverStep(s))
-----------------------------------------------------------------------------
(***************************************************************************)
(* Properties                                                                *)
(***************************************************************************)

\* A discovery request in the server's buffer is answered, whatever else is in
\* it, whatever DHCP and the other sockets are doing (in a loop that polls also
\* when the lease fails, see AllServe).  It watches the first answer to each
\* source: a source stays in `answered'.
RequestsAnswered ==
    \A s \in Sources : (\E i \in DOMAIN rx : rx[i] = s) ~> (s \in answered)

\* When perform_discovery returns, the handler has been given every response
\* that a receiver took from its socket, late ones too.
ResponsesHandled == main = "done" => unhandled = Zero

\* perform_discovery returns: no thread waits for ever at a full queue.  A
\* receiver stops when its socket is quiet, so this says nothing of an endless
\* stream of datagrams: the answers are as many as MaxCopies allows.
DiscoveryEnds == <>(main = "done")
=============================================================================
