--------------------------- MODULE HostSocketsProofs ---------------------------
(***************************************************************************)
(* The properties of the emulated sockets of HostSockets, for every number   *)
(* of sockets, ports and descriptors.                                        *)
(***************************************************************************)
EXTENDS HostSockets, TLAPS, FiniteSetTheorems, WellFoundedInduction

(***************************************************************************)
(* The inductive invariant.                                                  *)
(***************************************************************************)

FdOrNone == Fds \cup {-1}
Infos == [listener_socket : FdOrNone, connection_socket : FdOrNone,
          tcp_port : TcpPorts \cup {0}]
Listeners == [kind : {"listener"}, port : TcpPorts, listens : BOOLEAN, backlog : BOOLEAN]
\* An error is pending only when there is nothing else to come.
Connections ==
    {c \in [kind : {"connection"}, peer : {"open", "eof", "reset"}, data : BOOLEAN,
            error : BOOLEAN, shut : BOOLEAN] : c.error = TRUE => c.peer # "open"}
Descriptors == {Unused} \cup Listeners \cup Connections

Scans == [step : {"idle", "accept", "begin", "find"}, at : Sockets,
          port : TcpPorts \cup {0}, listening : BOOLEAN]

Statuses == {"none", "CLOSED", "LISTEN", "ESTABLISHED", "CLOSE_WAIT"}

HostTypeOK ==
    /\ info \in [Sockets -> Infos]
    /\ _server_port \in [Sockets -> TcpPorts \cup {0}]
    /\ os \in [Fds -> Descriptors]
    /\ reported \in [Sockets -> Statuses]
    /\ scan \in Scans /\ (scan.step # "idle" => scan.port \in TcpPorts)

\* With i for info and o for os: a socket's descriptors are of the kind that it
\* takes them for, no two sockets have the same, and none that is open is
\* without a socket.  A socket with a port has a listener.
Held(i, o) ==
    /\ \A s \in Sockets :
           /\ i[s].listener_socket # -1 => o[i[s].listener_socket].kind = "listener"
           /\ i[s].connection_socket # -1 => o[i[s].connection_socket].kind = "connection"
           /\ i[s].tcp_port # 0 => i[s].listener_socket # -1
    /\ \A s, t \in Sockets : s # t =>
           /\ i[s].listener_socket = i[t].listener_socket => i[s].listener_socket = -1
           /\ i[s].connection_socket = i[t].connection_socket => i[s].connection_socket = -1
    /\ \A fd \in Fds : o[fd].kind # "unused" =>
           \E s \in Sockets : fd \in {i[s].listener_socket, i[s].connection_socket}

\* A socket that was last reported to be connected has a connection, one that was
\* reported to be half-closed gets no more data, and one that was reported to be
\* closed has no descriptor.
ReportInv ==
    \A s \in Sockets :
        /\ reported[s] \in {"ESTABLISHED", "CLOSE_WAIT"} => info[s].connection_socket # -1
        /\ reported[s] = "CLOSE_WAIT" =>
               /\ os[info[s].connection_socket].peer # "open"
               /\ ~os[info[s].connection_socket].data
        /\ reported[s] = "CLOSED" => IsUnused(s)

\* A step shows the status of a socket as the chip would.
InOrder(s) == reported'[s] = "none" \/ ChipOrder[reported[s]] <= ChipOrder[reported'[s]]

HostInv == HostTypeOK /\ Held(info, os) /\ ReportInv
-----------------------------------------------------------------------------
(***************************************************************************)
(* Facts about the data.                                                     *)
(***************************************************************************)

LEMMA LeastFd ==
    ASSUME NEW T \in SUBSET Fds, T # {}
    PROVE  (CHOOSE fd \in T : \A other \in T : fd <= other) \in T
<1>1. T \subseteq Nat /\ \A x \in T : x \in Nat
    BY HostAssumption DEF Fds
<1>2. PICK m \in T : \A y \in T : ~(<<y, m>> \in OpToRel(<, Nat))
    BY <1>1, NatLessThanWellFounded, WFMin, Zenon
<1>3. \A y \in T : m <= y
  <2>1. ASSUME NEW y \in T PROVE ~(y < m)
    <3>1. y \in Nat /\ m \in Nat
      BY <1>1
    <3> QED
      BY <3>1, <1>2 DEF OpToRel
  <2> QED
    BY <1>1, <2>1
<1>4. \E fd \in T : \A other \in T : fd <= other
    BY <1>3
<1> QED
    BY <1>4, Zenon

\* The kind of a descriptor tells what it is.
LEMMA KindFacts ==
    /\ Unused \in Descriptors /\ Unused.kind = "unused"
    /\ \A d \in Descriptors : /\ d = Unused <=> d.kind = "unused"
                              /\ d.kind = "listener" => d \in Listeners
                              /\ d.kind = "connection" => d \in Connections
    /\ \A port \in TcpPorts, listens \in BOOLEAN :
           /\ Listener(port, listens) \in Descriptors
           /\ Listener(port, listens).kind = "listener"
    /\ Connection \in Descriptors /\ Connection.kind = "connection"
    /\ Connection.peer = "open" /\ ~Connection.data
BY DEF Descriptors, Unused, Listeners, Connections, Listener, Connection

\* What a peek leaves of a connection, and the statuses that it can have.
LEMMA PeekFacts ==
    ASSUME NEW c \in Connections
    PROVE  /\ Peeked(c) \in Connections /\ Peeked(c).kind = "connection"
           /\ Peeked(c).peer = c.peer /\ Peeked(c).data = c.data
           /\ ConnectionStatus(c) \in {"ESTABLISHED", "CLOSE_WAIT"}
           /\ ConnectionStatus(c) = "CLOSE_WAIT" <=> c.peer # "open" /\ ~c.data
<1>1. /\ c.data \in BOOLEAN /\ c.error \in BOOLEAN /\ c.kind = "connection"
      /\ c.error = TRUE => c.peer # "open"
    BY DEF Connections
<1>2. CASE Peek(c) = "error"
  <2>1. Peeked(c) = [c EXCEPT !.error = FALSE] /\ ~c.data /\ c.peer # "open"
    BY <1>1, <1>2 DEF Peek, Peeked
  <2>2. /\ Peeked(c) \in Connections /\ Peeked(c).kind = "connection"
        /\ Peeked(c).peer = c.peer /\ Peeked(c).data = c.data /\ ~Peeked(c).error
    BY <2>1 DEF Connections
  <2>3. Peek(Peeked(c)) = "end"
    BY <2>1, <2>2 DEF Peek
  <2> QED
    BY <1>2, <2>1, <2>2, <2>3
       DEF ConnectionStatus, CanReadFromConnection, IsConnectionHalfClosed
<1>3. CASE Peek(c) # "error"
  <2>1. Peeked(c) = c
    BY <1>3 DEF Peeked
  <2> QED
    BY <1>1, <1>3, <2>1
       DEF Peek, ConnectionStatus, CanReadFromConnection, IsConnectionHalfClosed
<1> QED
    BY <1>2, <1>3

\* The order in numbers.
LEMMA OrderFacts ==
    /\ \A r \in Statuses : /\ ChipOrder[r] \in 0 .. 4
                           /\ ChipOrder[r] <= ChipOrder["CLOSED"]
                           /\ ChipOrder["none"] <= ChipOrder[r]
                           /\ r # "CLOSED" => ChipOrder[r] <= ChipOrder["CLOSE_WAIT"]
    /\ ChipOrder["LISTEN"] <= ChipOrder["ESTABLISHED"]
    /\ ChipOrder["ESTABLISHED"] <= ChipOrder["CLOSE_WAIT"]
BY DEF ChipOrder, Statuses

LEMMA SameStatus ==
    ASSUME HostTypeOK, UNCHANGED reported
    PROVE  \A s \in Sockets : InOrder(s)
BY OrderFacts DEF HostTypeOK, InOrder

LEMMA FdFacts ==
    /\ -1 \notin Fds /\ -1 \in FdOrNone
    /\ \A fd \in FdOrNone : fd # -1 => fd \in Fds
    /\ 0 \notin TcpPorts /\ 0 \in Sockets
    /\ \A s \in Sockets : s \in Nat /\ s < MAX_SOCK_NUM
    /\ \A n \in Nat : n < MAX_SOCK_NUM => n \in Sockets
BY HostAssumption DEF Fds, FdOrNone, Sockets

\* A call for one socket keeps the descriptors in order: it leaves those of the
\* others alone, takes new ones from those that are unused, and closes the ones
\* it gives up.
LEMMA Reown ==
    ASSUME NEW i, NEW o, NEW i2, NEW o2, NEW s \in Sockets,
           i \in [Sockets -> Infos], i2 \in [Sockets -> Infos],
           Held(i, o),
           \A t \in Sockets \ {s} : i2[t] = i[t],
           \A fd \in Fds : o[fd].kind = "unused" \/ fd \in {i[s].listener_socket, i[s].connection_socket}
                           \/ o2[fd].kind = o[fd].kind,
           \A fd \in {i2[s].listener_socket, i2[s].connection_socket} \ {-1} :
               \/ fd \in {i[s].listener_socket, i[s].connection_socket}
               \/ o[fd].kind = "unused",
           i2[s].listener_socket # -1 => o2[i2[s].listener_socket].kind = "listener",
           i2[s].connection_socket # -1 => o2[i2[s].connection_socket].kind = "connection",
           i2[s].tcp_port # 0 => i2[s].listener_socket # -1,
           \A fd \in Fds : o2[fd].kind # "unused" =>
               \/ fd \in {i2[s].listener_socket, i2[s].connection_socket}
               \/ o[fd].kind # "unused" /\ fd \notin {i[s].listener_socket, i[s].connection_socket}
    PROVE  Held(i2, o2)
<1> USE FdFacts
<1> DEFINE L(t) == i[t].listener_socket
           C(t) == i[t].connection_socket
           L2(t) == i2[t].listener_socket
           C2(t) == i2[t].connection_socket
<1>1. \A t \in Sockets : L(t) \in FdOrNone /\ C(t) \in FdOrNone /\ L2(t) \in FdOrNone /\ C2(t) \in FdOrNone
    BY DEF Infos
<1>2. \A t \in Sockets \ {s} : /\ L2(t) = L(t) /\ C2(t) = C(t)
                               /\ i2[t].tcp_port = i[t].tcp_port
    OBVIOUS
<1>3. ASSUME NEW t \in Sockets \ {s}, NEW fd \in {L(t), C(t)}, fd # -1
      PROVE  /\ fd \in Fds /\ fd \notin {L(s), C(s)}
             /\ o[fd].kind # "unused" /\ o2[fd].kind = o[fd].kind
  <2>1. fd \in Fds
    BY <1>1, <1>3
  <2>2. fd \notin {L(s), C(s)} /\ o[fd].kind # "unused"
    BY <1>3 DEF Held
  <2> QED
    BY <2>1, <2>2
<1>4. ASSUME NEW t \in Sockets
      PROVE  /\ L2(t) # -1 => o2[L2(t)].kind = "listener"
             /\ C2(t) # -1 => o2[C2(t)].kind = "connection"
             /\ i2[t].tcp_port # 0 => L2(t) # -1
  <2>1. CASE t = s
    BY <2>1
  <2>2. CASE t # s
    BY <2>2, <1>2, <1>3 DEF Held
  <2> QED
    BY <2>1, <2>2
<1>5. ASSUME NEW t \in Sockets, NEW u \in Sockets, t # u
      PROVE  /\ L2(t) = L2(u) => L2(t) = -1
             /\ C2(t) = C2(u) => C2(t) = -1
  <2>1. CASE t # s /\ u # s
    BY <2>1, <1>2, <1>5 DEF Held
  <2>2. ASSUME NEW v \in Sockets \ {s}
        PROVE  /\ L2(s) = L2(v) => L2(v) = -1
               /\ C2(s) = C2(v) => C2(v) = -1
    BY <1>2, <1>3
  <2> QED
    BY <2>1, <2>2, <1>5
<1>6. ASSUME NEW fd \in Fds, o2[fd].kind # "unused"
      PROVE  \E t \in Sockets : fd \in {L2(t), C2(t)}
  <2>1. CASE fd \in {L2(s), C2(s)}
    BY <2>1
  <2>2. CASE o[fd].kind # "unused" /\ fd \notin {L(s), C(s)}
    <3>1. PICK t \in Sockets : fd \in {L(t), C(t)}
      BY <2>2 DEF Held
    <3> QED
      BY <2>2, <3>1, <1>2
  <2> QED
    BY <1>6, <2>1, <2>2
<1> QED
    BY <1>4, <1>5, <1>6 DEF Held

\* What happens on a descriptor keeps its kind.
LEMMA SameKinds ==
    ASSUME NEW i, NEW o, NEW o2, Held(i, o), i \in [Sockets -> Infos],
           \A fd \in Fds : o2[fd].kind = o[fd].kind
    PROVE  Held(i, o2)
<1>1. \A s \in Sockets : /\ i[s].listener_socket # -1 => i[s].listener_socket \in Fds
                         /\ i[s].connection_socket # -1 => i[s].connection_socket \in Fds
    BY FdFacts DEF Infos
<1> QED
    BY <1>1 DEF Held
-----------------------------------------------------------------------------
(***************************************************************************)
(* The calls that change descriptors.                                        *)
(***************************************************************************)

\* What a call for s does to the other sockets and their connections: nothing.
OthersKept(s) ==
    \A t \in Sockets \ {s} :
        /\ info'[t] = info[t]
        /\ info[t].connection_socket # -1 =>
               os'[info[t].connection_socket] = os[info[t].connection_socket]

\* Closing the descriptors of s, if it has them, leaves those of others alone.
LEMMA ClosingFacts ==
    ASSUME HostInv, NEW s \in Sockets, NEW free,
           free = IF info[s].listener_socket = -1 THEN AfterClosing(s)
                  ELSE [AfterClosing(s) EXCEPT ![info[s].listener_socket] = Unused]
    PROVE  /\ AfterClosing(s) \in [Fds -> Descriptors] /\ free \in [Fds -> Descriptors]
           /\ \A fd \in Fds : AfterClosing(s)[fd] =
                  IF fd = info[s].connection_socket THEN Unused ELSE os[fd]
           /\ \A fd \in Fds : free[fd] =
                  IF fd \in {info[s].listener_socket, info[s].connection_socket}
                    THEN Unused ELSE os[fd]
<1>1. /\ os \in [Fds -> Descriptors] /\ Unused \in Descriptors
      /\ info[s].listener_socket \in FdOrNone /\ info[s].connection_socket \in FdOrNone
    BY KindFacts DEF HostInv, HostTypeOK, Infos
<1>2. /\ AfterClosing(s) \in [Fds -> Descriptors]
      /\ \A fd \in Fds : AfterClosing(s)[fd] =
             IF fd = info[s].connection_socket THEN Unused ELSE os[fd]
    BY <1>1, FdFacts DEF AfterClosing, ClosedFd
<1>3. /\ free \in [Fds -> Descriptors]
      /\ \A fd \in Fds : free[fd] =
             IF fd = info[s].listener_socket THEN Unused ELSE AfterClosing(s)[fd]
    BY <1>1, <1>2, FdFacts
<1> QED
    BY <1>2, <1>3

\* InitializeTcpListener: the connection is closed, and unless the listener is
\* kept, it is closed too and perhaps replaced.
LEMMA ListenStep ==
    ASSUME HostInv, NEW s \in Sockets, NEW port \in TcpPorts, InitializeTcpListener(s, port)
    PROVE  /\ info' \in [Sockets -> Infos] /\ os' \in [Fds -> Descriptors]
           /\ Held(info', os')
           /\ OthersKept(s)
<1> DEFINE l == info[s].listener_socket
           c == info[s].connection_socket
           base == CloseConnectionSocket(info[s])
           free == IF base.listener_socket = -1 THEN AfterClosing(s)
                   ELSE [AfterClosing(s) EXCEPT ![base.listener_socket] = Unused]
           fds == {fd \in Fds : free[fd] = Unused}
           fd == CHOOSE f \in fds : \A other \in fds : f <= other
<1>1. /\ info \in [Sockets -> Infos] /\ info[s] \in Infos /\ Held(info, os)
      /\ l \in FdOrNone /\ c \in FdOrNone
    BY DEF HostInv, HostTypeOK, Infos
<1>2. /\ base \in Infos /\ base.listener_socket = l /\ base.connection_socket = -1
      /\ base.tcp_port = info[s].tcp_port
    BY <1>1, FdFacts DEF CloseConnectionSocket, Infos
<1>3. /\ AfterClosing(s) \in [Fds -> Descriptors] /\ free \in [Fds -> Descriptors]
      /\ \A f \in Fds : AfterClosing(s)[f] = IF f = c THEN Unused ELSE os[f]
      /\ \A f \in Fds : free[f] = IF f \in {l, c} THEN Unused ELSE os[f]
  <2>1. free = IF l = -1 THEN AfterClosing(s) ELSE [AfterClosing(s) EXCEPT ![l] = Unused]
    BY <1>2
  <2> HIDE DEF free, base
  <2> QED
    BY <2>1, ClosingFacts
<1>4. /\ CloseListenerSocket(base) \in Infos
      /\ CloseListenerSocket(base).listener_socket = -1
      /\ CloseListenerSocket(base).connection_socket = -1
      /\ CloseListenerSocket(base).tcp_port = 0
    BY <1>2, FdFacts DEF CloseListenerSocket, Infos
<1>5. ASSUME NEW t \in Sockets \ {s}
      PROVE  info[t].connection_socket # -1 =>
                 info[t].connection_socket \in Fds \ {l, c}
    BY <1>1, <1>5, FdFacts DEF Held, Infos
<1>6. CASE KeepsListener(s, port)
  <2>1. info' = [info EXCEPT ![s] = base] /\ os' = AfterClosing(s)
    BY <1>6 DEF InitializeTcpListener
  <2> HIDE DEF base, free, fds, fd
  <2>2. /\ info' \in [Sockets -> Infos] /\ info'[s] = base
        /\ \A t \in Sockets \ {s} : info'[t] = info[t]
    BY <2>1, <1>1, <1>2
  <2>3. Held(info', os')
    <3>1. \A f \in Fds : os'[f] = IF f = c THEN Unused ELSE os[f]
      BY <2>1, <1>3
    <3>2. l # -1 => l # c /\ l \in Fds
      BY <1>1, FdFacts DEF Held
    <3>3. /\ \A f \in Fds : os[f].kind = "unused" \/ f \in {l, c} \/ os'[f].kind = os[f].kind
          /\ \A f \in Fds : os'[f].kind # "unused" =>
                 f \in {l, -1} \/ (os[f].kind # "unused" /\ f \notin {l, c})
      BY <3>1, KindFacts
    <3>4. l # -1 => os'[l].kind = "listener"
      BY <1>1, <3>1, <3>2 DEF Held
    <3>5. info'[s].tcp_port # 0 => l # -1
      BY <1>1, <1>2, <2>2 DEF Held
    <3> QED
      BY <1>1, <1>2, <2>2, <3>3, <3>4, <3>5, Reown
  <2> QED
    BY <1>3, <1>5, <2>1, <2>2, <2>3 DEF OthersKept
<1>7. ASSUME os' = free, info' = [info EXCEPT ![s] = CloseListenerSocket(base)]
      PROVE  /\ info' \in [Sockets -> Infos] /\ os' \in [Fds -> Descriptors]
             /\ Held(info', os') /\ OthersKept(s)
  <2> HIDE DEF base, free, fds, fd
  <2>1. /\ info' \in [Sockets -> Infos] /\ info'[s] = CloseListenerSocket(base)
        /\ \A t \in Sockets \ {s} : info'[t] = info[t]
    BY <1>1, <1>4, <1>7
  <2>2. \A f \in Fds : os'[f] = IF f \in {l, c} THEN Unused ELSE os[f]
    BY <1>3, <1>7
  <2>3. Held(info', os')
    BY <1>1, <1>4, <2>1, <2>2, KindFacts, Reown
  <2> QED
    BY <1>3, <1>5, <1>7, <2>1, <2>2, <2>3 DEF OthersKept
<1>8. ASSUME NEW listens \in BOOLEAN, NEW new \in Infos, fds # {},
             os' = [free EXCEPT ![fd] = Listener(port, listens)],
             info' = [info EXCEPT ![s] = new],
             new.listener_socket = fd, new.connection_socket = -1
      PROVE  /\ info' \in [Sockets -> Infos] /\ os' \in [Fds -> Descriptors]
             /\ Held(info', os') /\ OthersKept(s)
  <2>1. fd \in fds
    BY <1>8, LeastFd
  <2>2. fd \in Fds /\ free[fd] = Unused
    BY <2>1
  <2> HIDE DEF base, free, fds, fd
  <2>3. /\ info' \in [Sockets -> Infos] /\ info'[s] = new
        /\ \A t \in Sockets \ {s} : info'[t] = info[t]
    BY <1>1, <1>8
  <2>4. /\ os' \in [Fds -> Descriptors] /\ os'[fd] = Listener(port, listens)
        /\ \A f \in Fds \ {fd} : os'[f] = IF f \in {l, c} THEN Unused ELSE os[f]
    BY <1>3, <1>8, <2>2, KindFacts
  <2>5. fd \in {l, c} \/ os[fd].kind = "unused"
    BY <1>3, <2>2, KindFacts
  <2>6. Held(info', os')
    <3>1. /\ \A f \in Fds : os[f].kind = "unused" \/ f \in {l, c} \/ os'[f].kind = os[f].kind
          /\ \A f \in Fds : os'[f].kind # "unused" =>
                 f \in {fd, -1} \/ (os[f].kind # "unused" /\ f \notin {l, c})
      BY <2>4, <2>5, KindFacts
    <3>2. os'[fd].kind = "listener" /\ fd # -1
      BY <2>2, <2>4, KindFacts, FdFacts
    <3>3. info'[s].listener_socket = fd /\ info'[s].connection_socket = -1
      BY <1>8, <2>3
    <3>4. \A f \in {info'[s].listener_socket, info'[s].connection_socket} \ {-1} :
              f \in {l, c} \/ os[f].kind = "unused"
      BY <2>5, <3>3
    <3> QED
      BY <1>1, <2>3, <3>1, <3>2, <3>3, <3>4, Reown
  <2>7. OthersKept(s)
    <3>1. ASSUME NEW t \in Sockets \ {s}, info[t].connection_socket # -1
          PROVE  info[t].connection_socket # fd
      BY <1>1, <2>5, <1>5, <3>1 DEF Held
    <3> QED
      BY <1>5, <2>3, <2>4, <3>1 DEF OthersKept
  <2> QED
    BY <2>3, <2>4, <2>6, <2>7
<1>9. CASE ~KeepsListener(s, port)
  <2>1. \/ /\ fds # {}
           /\ os' = [free EXCEPT ![fd] = Listener(port, TRUE)]
           /\ info' = [info EXCEPT ![s] = [base EXCEPT !.listener_socket = fd,
                                                       !.tcp_port = port]]
        \/ /\ os' = free
           /\ info' = [info EXCEPT ![s] = CloseListenerSocket(base)]
        \/ /\ fds # {}
           /\ os' = [free EXCEPT ![fd] = Listener(port, FALSE)]
           /\ info' = [info EXCEPT ![s] = [CloseListenerSocket(base) EXCEPT
                                              !.listener_socket = fd]]
    BY <1>9 DEF InitializeTcpListener
  <2>2. fds # {} => fd \in FdOrNone
    <3>1. fds # {} => fd \in fds
      BY LeastFd
    <3> QED
      BY <3>1 DEF FdOrNone
  <2> HIDE DEF base, free, fds, fd
  <2>3. fds # {} =>
            /\ [base EXCEPT !.listener_socket = fd, !.tcp_port = port] \in Infos
            /\ [base EXCEPT !.listener_socket = fd, !.tcp_port = port].listener_socket = fd
            /\ [base EXCEPT !.listener_socket = fd, !.tcp_port = port].connection_socket = -1
    BY <1>2, <2>2 DEF Infos
  <2>4. fds # {} =>
            /\ [CloseListenerSocket(base) EXCEPT !.listener_socket = fd] \in Infos
            /\ [CloseListenerSocket(base) EXCEPT !.listener_socket = fd].listener_socket = fd
            /\ [CloseListenerSocket(base) EXCEPT !.listener_socket = fd].connection_socket = -1
    BY <1>4, <2>2 DEF Infos
  <2> QED
    BY <1>7, <1>8, <2>1, <2>3, <2>4
<1> QED
    BY <1>6, <1>9

\* AcceptConnection: the listener is replaced by a connection that is open and
\* has no data.
LEMMA AcceptStep ==
    ASSUME HostInv, NEW s \in Sockets, CanAccept(s), AcceptConnection(s)
    PROVE  /\ info' \in [Sockets -> Infos] /\ os' \in [Fds -> Descriptors]
           /\ Held(info', os')
           /\ OthersKept(s)
           /\ info'[s].connection_socket # -1
<1> DEFINE l == info[s].listener_socket
           new == [CloseListenerSocket(info[s]) EXCEPT !.connection_socket = LowestFd]
<1>1. /\ info \in [Sockets -> Infos] /\ info[s] \in Infos /\ Held(info, os)
      /\ os \in [Fds -> Descriptors]
      /\ l \in FdOrNone /\ l # -1 /\ info[s].connection_socket = -1
    BY DEF HostInv, HostTypeOK, Infos, CanAccept
<1>2. LowestFd \in Fds /\ os[LowestFd] = Unused
  <2>1. LowestFd \in FreeFds
    BY LeastFd DEF CanAccept, LowestFd, FreeFds
  <2> QED
    BY <2>1 DEF FreeFds
<1>3. l \in Fds /\ os[l].kind = "listener" /\ l # LowestFd
    BY <1>1, <1>2, FdFacts, KindFacts DEF Held
<1>4. /\ new \in Infos /\ new.listener_socket = -1 /\ new.connection_socket = LowestFd
      /\ new.tcp_port = 0
    BY <1>1, <1>2, FdFacts DEF CloseListenerSocket, Infos, FdOrNone
<1>5. info' = [info EXCEPT ![s] = new]
    BY DEF AcceptConnection
<1> HIDE DEF new
<1>6. /\ info' \in [Sockets -> Infos] /\ info'[s] = new
      /\ \A t \in Sockets \ {s} : info'[t] = info[t]
    BY <1>1, <1>4, <1>5
<1>7. /\ os' \in [Fds -> Descriptors] /\ os'[l] = Unused /\ os'[LowestFd] = Connection
      /\ \A f \in Fds \ {l, LowestFd} : os'[f] = os[f]
    BY <1>1, <1>2, <1>3, KindFacts DEF AcceptConnection
<1>8. Held(info', os')
  <2>1. /\ \A f \in Fds : os[f].kind = "unused" \/ f = l \/ os'[f].kind = os[f].kind
        /\ \A f \in Fds : os'[f].kind # "unused" =>
               f = LowestFd \/ (os[f].kind # "unused" /\ f \notin {l, -1})
        /\ os'[LowestFd].kind = "connection"
        /\ os[LowestFd].kind = "unused"
    BY <1>2, <1>3, <1>7, KindFacts, FdFacts
  <2>2. info'[s].listener_socket = -1 /\ info'[s].connection_socket = LowestFd /\ info'[s].tcp_port = 0
    BY <1>4, <1>6
  <2>3. \A f \in {info'[s].listener_socket, info'[s].connection_socket} \ {-1} :
              f \in {l, info[s].connection_socket} \/ os[f].kind = "unused"
    BY <2>1, <2>2
  <2>4. /\ \A f \in Fds : os[f].kind = "unused" \/ f \in {l, info[s].connection_socket}
                          \/ os'[f].kind = os[f].kind
        /\ \A f \in Fds : os'[f].kind # "unused" =>
               \/ f \in {info'[s].listener_socket, info'[s].connection_socket}
               \/ os[f].kind # "unused" /\ f \notin {l, info[s].connection_socket}
    BY <1>1, <2>1, <2>2
  <2> QED
    BY <1>1, <1>6, <2>1, <2>2, <2>3, <2>4, Reown
<1>9. OthersKept(s)
  <2>1. ASSUME NEW t \in Sockets \ {s}, info[t].connection_socket # -1
        PROVE  info[t].connection_socket \in Fds \ {l, LowestFd}
    <3>1. os[info[t].connection_socket].kind = "connection" /\ info[t].connection_socket \in Fds
      BY <1>1, <2>1, FdFacts DEF Held, Infos
    <3> QED
      BY <3>1, <1>2, <1>3, KindFacts
  <2> QED
    BY <1>6, <1>7, <2>1 DEF OthersKept
<1> QED
    BY <1>2, <1>4, <1>6, <1>7, <1>8, <1>9, FdFacts

LEMMA ConnectionOf ==
    ASSUME HostInv, NEW s \in Sockets, info[s].connection_socket # -1
    PROVE  /\ info[s].connection_socket \in Fds
           /\ os[info[s].connection_socket] \in Connections
<1>1. /\ info[s].connection_socket \in Fds
      /\ os[info[s].connection_socket].kind = "connection"
      /\ os[info[s].connection_socket] \in Descriptors
    BY FdFacts DEF HostInv, HostTypeOK, Held, Infos
<1> QED
    BY <1>1, KindFacts

\* StatusOf is one of the four statuses, CHECK(false) is not reached, and after
\* a report that a socket is connected it is not one that would go back.
LEMMA StatusFacts ==
    ASSUME HostInv, NEW s \in Sockets
    PROVE  /\ StatusOf(s) \in {"CLOSED", "LISTEN", "ESTABLISHED", "CLOSE_WAIT"}
           /\ StatusOf(s) = "ESTABLISHED" => CanAccept(s) \/ info[s].connection_socket # -1
           /\ StatusOf(s) = "CLOSE_WAIT" =>
                  /\ info[s].connection_socket # -1
                  /\ os[info[s].connection_socket].peer # "open"
                  /\ ~os[info[s].connection_socket].data
           /\ CanAccept(s) => StatusOf(s) = "ESTABLISHED" /\ info[s].connection_socket = -1
           /\ StatusOf(s) = "CLOSED" <=> IsUnused(s)
           /\ reported[s] \in {"ESTABLISHED", "CLOSE_WAIT"} => StatusOf(s) # "LISTEN"
           /\ reported[s] = "CLOSE_WAIT" => StatusOf(s) # "ESTABLISHED"
           /\ reported[s] = "CLOSED" => StatusOf(s) = "CLOSED"
<1>1. IsUnused(s) <=> /\ info[s].listener_socket = -1 /\ info[s].connection_socket = -1
                      /\ info[s].tcp_port = 0
    BY DEF IsUnused, IsClosed
<1>2. info[s].tcp_port # 0 => info[s].listener_socket # -1
    BY DEF HostInv, Held
<1>3. /\ reported[s] \in {"ESTABLISHED", "CLOSE_WAIT"} => info[s].connection_socket # -1
      /\ reported[s] = "CLOSE_WAIT" => /\ os[info[s].connection_socket].peer # "open"
                                       /\ ~os[info[s].connection_socket].data
      /\ reported[s] = "CLOSED" => IsUnused(s)
    BY DEF HostInv, ReportInv
<1>4. CanAccept(s) => info[s].connection_socket = -1 /\ info[s].listener_socket # -1
    BY DEF CanAccept
<1>5. CASE info[s].connection_socket # -1
  <2> DEFINE c == os[info[s].connection_socket]
  <2>1. c \in Connections
    BY <1>5, ConnectionOf
  <2>2. StatusOf(s) = ConnectionStatus(c)
    BY <1>1, <1>5 DEF StatusOf
  <2> QED
    BY <1>1, <1>3, <1>4, <1>5, <2>1, <2>2, PeekFacts
<1>6. CASE info[s].connection_socket = -1
  <2>1. StatusOf(s) = IF IsUnused(s) THEN "CLOSED"
                      ELSE IF CanAccept(s) THEN "ESTABLISHED" ELSE "LISTEN"
    BY <1>1, <1>2, <1>6 DEF StatusOf
  <2> QED
    BY <1>1, <1>3, <1>4, <1>6, <2>1
<1> QED
    BY <1>5, <1>6

\* SocketStatus: what a step that calls it does, and that the sequence of its
\* results is as on the chip.
LEMMA SocketStatusStep ==
    ASSUME HostInv, NEW s \in Sockets, SocketStatus(s)
    PROVE  /\ info' \in [Sockets -> Infos] /\ os' \in [Fds -> Descriptors]
           /\ Held(info', os')
           /\ reported' \in [Sockets -> Statuses]
           /\ ReportInv'
           /\ \A t \in Sockets : InOrder(t)
<1>1. /\ reported' \in [Sockets -> Statuses]
      /\ reported'[s] = StatusOf(s)
      /\ \A t \in Sockets \ {s} : reported'[t] = reported[t]
    BY StatusFacts DEF SocketStatus, HostInv, HostTypeOK, Statuses
<1>2. /\ info' \in [Sockets -> Infos] /\ os' \in [Fds -> Descriptors]
      /\ Held(info', os') /\ OthersKept(s)
      /\ CanAccept(s) => info'[s].connection_socket # -1
      /\ ~CanAccept(s) =>
             /\ info' = info
             /\ info[s].connection_socket # -1 =>
                    os'[info[s].connection_socket] = Peeked(os[info[s].connection_socket])
  <2>1. CASE CanAccept(s)
    BY <2>1, AcceptStep DEF SocketStatus
  <2>2. CASE ~CanAccept(s) /\ info[s].connection_socket = -1
    BY <2>2 DEF SocketStatus, HostInv, HostTypeOK, OthersKept
  <2>3. CASE ~CanAccept(s) /\ info[s].connection_socket # -1
    <3> DEFINE fd == info[s].connection_socket
    <3>1. fd \in Fds /\ os[fd] \in Connections /\ os[fd].kind = "connection"
      BY <2>3, ConnectionOf DEF Connections
    <3>2. /\ info' = info /\ info \in [Sockets -> Infos] /\ Held(info, os)
          /\ os \in [Fds -> Descriptors] /\ os' = [os EXCEPT ![fd] = Peeked(os[fd])]
      BY <2>3 DEF SocketStatus, HostInv, HostTypeOK
    <3>3. Peeked(os[fd]) \in Descriptors /\ Peeked(os[fd]).kind = os[fd].kind
      BY <3>1, PeekFacts DEF Descriptors
    <3> HIDE DEF fd
    <3>4. /\ os' \in [Fds -> Descriptors] /\ os'[fd] = Peeked(os[fd])
          /\ \A f \in Fds \ {fd} : os'[f] = os[f]
      BY <3>1, <3>2, <3>3
    <3>5. Held(info', os')
      <4>1. \A f \in Fds : os'[f].kind = os[f].kind
        BY <3>3, <3>4
      <4>2. info \in [Sockets -> Infos] /\ Held(info, os)
        BY <3>2
      <4>3. Held(info, os')
        BY <4>1, <4>2, SameKinds
      <4> QED
        BY <3>2, <4>3
    <3>6. OthersKept(s)
      <4>1. ASSUME NEW t \in Sockets \ {s}, info[t].connection_socket # -1
            PROVE  info[t].connection_socket \in Fds \ {fd}
        BY <2>3, <3>2, <4>1, FdFacts DEF Held, Infos, fd
      <4> QED
        BY <3>2, <3>4, <4>1 DEF OthersKept
    <3> QED
      BY <2>3, <3>2, <3>4, <3>5, <3>6 DEF fd
  <2> QED
    BY <2>1, <2>2, <2>3
<1>3. ReportInv'
  <2> SUFFICES ASSUME NEW t \in Sockets
               PROVE  /\ reported'[t] \in {"ESTABLISHED", "CLOSE_WAIT"} =>
                             info'[t].connection_socket # -1
                      /\ reported'[t] = "CLOSE_WAIT" =>
                             /\ os'[info'[t].connection_socket].peer # "open"
                             /\ ~os'[info'[t].connection_socket].data
                      /\ reported'[t] = "CLOSED" => IsUnused(t)'
    BY DEF ReportInv
  <2>1. CASE t = s
    <3>1. StatusOf(s) = "CLOSE_WAIT" \/ (info[s].connection_socket # -1 /\ ~CanAccept(s)) =>
              os[info[s].connection_socket] \in Connections
      BY StatusFacts, ConnectionOf
    <3>2. StatusOf(s) = "CLOSED" => IsUnused(s)' /\ ~CanAccept(s)
      <4>1. StatusOf(s) = "CLOSED" => IsUnused(s) /\ ~CanAccept(s)
        BY StatusFacts
      <4> QED
        BY <1>2, <4>1 DEF IsUnused, IsClosed
    <3> QED
      BY <2>1, <1>1, <1>2, <3>1, <3>2, StatusFacts, PeekFacts
  <2>2. CASE t # s
    <3>1. info'[t] = info[t] /\ reported'[t] = reported[t]
      BY <2>2, <1>1, <1>2 DEF OthersKept
    <3>2. IsUnused(t)' <=> IsUnused(t)
      BY <3>1 DEF IsUnused, IsClosed
    <3> QED
      BY <2>2, <1>2, <3>1, <3>2 DEF OthersKept, HostInv, ReportInv
  <2> QED
    BY <2>1, <2>2
<1>4. ASSUME NEW t \in Sockets
      PROVE  InOrder(t)
  <2>1. reported[t] \in Statuses /\ reported'[t] \in Statuses
    BY <1>1 DEF HostInv, HostTypeOK
  <2>2. CASE t # s
    BY <1>1, <2>1, <2>2, OrderFacts DEF InOrder
  <2>3. CASE t = s
    <3>1. /\ reported'[s] = StatusOf(s)
          /\ StatusOf(s) \in {"CLOSED", "LISTEN", "ESTABLISHED", "CLOSE_WAIT"}
          /\ reported[s] \in {"ESTABLISHED", "CLOSE_WAIT"} => StatusOf(s) # "LISTEN"
          /\ reported[s] = "CLOSE_WAIT" => StatusOf(s) # "ESTABLISHED"
          /\ reported[s] = "CLOSED" => StatusOf(s) = "CLOSED"
      BY <1>1, StatusFacts
    <3> QED
      BY <2>1, <2>3, <3>1 DEF InOrder, ChipOrder, Statuses
  <2> QED
    BY <2>2, <2>3
<1> QED
    BY <1>1, <1>2, <1>3, <1>4

\* After a call that sets up a listener the program has not yet been told anything.
LEMMA ListenReportStep ==
    ASSUME HostInv, NEW s \in Sockets, NEW port \in TcpPorts, InitializeTcpListener(s, port),
           reported' = [reported EXCEPT ![s] = "none"]
    PROVE  /\ info' \in [Sockets -> Infos] /\ os' \in [Fds -> Descriptors]
           /\ Held(info', os')
           /\ reported' \in [Sockets -> Statuses]
           /\ ReportInv'
           /\ \A t \in Sockets : InOrder(t)
<1>1. /\ reported \in [Sockets -> Statuses]
      /\ reported' \in [Sockets -> Statuses]
      /\ reported'[s] = "none"
      /\ \A t \in Sockets \ {s} : reported'[t] = reported[t]
    BY DEF HostInv, HostTypeOK, Statuses
<1>2. /\ info' \in [Sockets -> Infos] /\ os' \in [Fds -> Descriptors]
      /\ Held(info', os') /\ OthersKept(s)
    BY ListenStep
<1>3. ReportInv'
  <2>1. ASSUME NEW t \in Sockets \ {s}
        PROVE  info'[t] = info[t] /\ (IsUnused(t)' <=> IsUnused(t))
    BY <1>2 DEF OthersKept, IsUnused, IsClosed
  <2> QED
    BY <1>1, <1>2, <2>1 DEF OthersKept, HostInv, ReportInv
<1>4. \A t \in Sockets : InOrder(t)
    BY <1>1, OrderFacts DEF InOrder
<1> QED
    BY <1>1, <1>2, <1>3, <1>4

\* What happens on a descriptor: the kinds stay, and a connection that has
\* ended gets no data.
LEMMA DescriptorStep ==
    ASSUME HostInv, NEW fd \in Fds, NEW d \in Descriptors,
           d.kind = os[fd].kind,
           (os[fd].kind = "connection" /\ os[fd].peer # "open" /\ ~os[fd].data)
               => d.peer # "open" /\ ~d.data,
           os' = [os EXCEPT ![fd] = d],
           UNCHANGED <<info, reported>>
    PROVE  Held(info', os') /\ os' \in [Fds -> Descriptors] /\ ReportInv'
<1>1. /\ os \in [Fds -> Descriptors] /\ info \in [Sockets -> Infos] /\ Held(info, os)
    BY DEF HostInv, HostTypeOK
<1>2. /\ os' \in [Fds -> Descriptors] /\ os'[fd] = d
      /\ \A f \in Fds \ {fd} : os'[f] = os[f]
    BY <1>1
<1>3. Held(info', os')
  <2>1. \A f \in Fds : os'[f].kind = os[f].kind
    BY <1>2
  <2>2. Held(info, os')
    BY <1>1, <2>1, SameKinds
  <2> QED
    BY <2>2
<1>4. ASSUME NEW s \in Sockets, reported[s] = "CLOSE_WAIT"
      PROVE  /\ os'[info[s].connection_socket].peer # "open"
             /\ ~os'[info[s].connection_socket].data
  <2>1. /\ info[s].connection_socket # -1
        /\ os[info[s].connection_socket].peer # "open"
        /\ ~os[info[s].connection_socket].data
    BY <1>4 DEF HostInv, ReportInv
  <2>2. /\ info[s].connection_socket \in Fds
        /\ os[info[s].connection_socket].kind = "connection"
    BY <1>1, <2>1, FdFacts DEF Held, Infos
  <2> QED
    BY <1>2, <2>1, <2>2
<1>5. ReportInv'
    BY <1>4 DEF HostInv, ReportInv, IsUnused, IsClosed
<1> QED
    BY <1>2, <1>3, <1>5

\* The steps of available go from one socket to the next.
LEMMA ScanFacts ==
    ASSUME HostTypeOK, scan.step # "idle"
    PROVE  /\ scan.at \in Sockets /\ scan.port \in TcpPorts
           /\ Idle \in Scans /\ Idle.step = "idle"
           /\ \A step \in {"begin", "find"} :
                  Go(step) \/ GoOn(step) => scan' \in Scans /\ scan'.port \in TcpPorts
           /\ \A at \in Sockets, listening \in BOOLEAN, step \in {"accept", "begin", "find"} :
                  LET next == [scan EXCEPT !.at = at, !.listening = listening, !.step = step]
                  IN  next \in Scans /\ next.port \in TcpPorts
           /\ \A at \in Sockets, listening \in BOOLEAN :
                  LET next == [scan EXCEPT !.at = at, !.listening = listening]
                  IN  next \in Scans /\ next.port \in TcpPorts
           /\ \A at \in Sockets :
                  LET next == [scan EXCEPT !.at = at]
                  IN  next \in Scans /\ next.port \in TcpPorts
<1>1. scan \in Scans /\ scan.at \in Sockets /\ scan.port \in TcpPorts
    BY DEF HostTypeOK, Scans
<1>2. Idle \in Scans /\ Idle.step = "idle"
    BY FdFacts DEF Idle, Scans
<1>3. scan.at + 1 # MAX_SOCK_NUM => scan.at + 1 \in Sockets
    BY <1>1, HostAssumption DEF Sockets
<1>4. \A step \in {"begin", "find"} :
          Go(step) \/ GoOn(step) => scan' \in Scans /\ scan'.port \in TcpPorts
    BY <1>1, <1>3, FdFacts DEF Go, GoOn, Scans
<1> QED
    BY <1>1, <1>2, <1>4 DEF Scans

LEMMA AcceptScanStep ==
    ASSUME HostInv, Accept
    PROVE  /\ HostInv'
           /\ \A t \in Sockets : InOrder(t)
<1> DEFINE s == scan.at
           listening == scan.listening \/
                        (_server_port[s] = scan.port /\ StatusOf(s) = "LISTEN")
<1>1. HostTypeOK /\ scan.step = "accept" /\ s \in Sockets /\ UNCHANGED _server_port
    BY ScanFacts DEF HostInv, Accept
<1>2. listening \in BOOLEAN
    BY <1>1 DEF HostTypeOK, Scans
<1>3. scan' = IF s + 1 < MAX_SOCK_NUM
                THEN [scan EXCEPT !.at = s + 1, !.listening = listening]
                ELSE [scan EXCEPT !.at = 0, !.listening = FALSE,
                                  !.step = IF listening THEN "find" ELSE "begin"]
    BY DEF Accept
<1>4. scan' \in Scans /\ scan'.port \in TcpPorts
  <2> HIDE DEF listening
  <2>1. CASE s + 1 < MAX_SOCK_NUM
    <3>1. s + 1 \in Sockets
      BY <1>1, <2>1, FdFacts
    <3> QED
      BY <1>1, <1>2, <1>3, <2>1, <3>1, ScanFacts
  <2>2. CASE ~(s + 1 < MAX_SOCK_NUM)
    <3>1. 0 \in Sockets /\ (IF listening THEN "find" ELSE "begin") \in {"accept", "begin", "find"}
      BY FdFacts
    <3> QED
      BY <1>1, <1>3, <2>2, <3>1, ScanFacts
  <2> QED
    BY <2>1, <2>2
<1>5. SocketStatus(s) \/ UNCHANGED <<info, os, reported>>
    BY DEF Accept
<1>6. CASE SocketStatus(s)
    BY <1>1, <1>4, <1>6, SocketStatusStep DEF HostInv, HostTypeOK
<1>7. CASE UNCHANGED <<info, os, reported>>
    BY <1>1, <1>4, <1>7, SameStatus DEF HostInv, HostTypeOK, ReportInv, IsUnused, IsClosed
<1> QED
    BY <1>5, <1>6, <1>7

LEMMA BeginScanStep ==
    ASSUME HostInv, Begin
    PROVE  /\ HostInv'
           /\ \A t \in Sockets : InOrder(t)
<1> DEFINE s == scan.at
<1>1. HostTypeOK /\ scan.step = "begin" /\ s \in Sockets /\ scan.port \in TcpPorts
    BY ScanFacts DEF HostInv, Begin
<1>2. scan' \in Scans /\ scan'.port \in TcpPorts
  <2>1. Go("find") \/ GoOn("find")
    BY DEF Begin
  <2> QED
    BY <1>1, <2>1, ScanFacts
<1>3. _server_port' \in [Sockets -> TcpPorts \cup {0}]
    BY <1>1 DEF Begin, HostTypeOK
<1>4. \/ UNCHANGED <<info, os, reported>>
      \/ /\ InitializeTcpListener(s, scan.port)
         /\ reported' = [reported EXCEPT ![s] = "none"]
    BY DEF Begin
<1>5. CASE UNCHANGED <<info, os, reported>>
    BY <1>1, <1>2, <1>3, <1>5, SameStatus DEF HostInv, HostTypeOK, ReportInv, IsUnused, IsClosed
<1>6. CASE /\ InitializeTcpListener(s, scan.port)
           /\ reported' = [reported EXCEPT ![s] = "none"]
    BY <1>1, <1>2, <1>3, <1>6, ListenReportStep DEF HostInv, HostTypeOK
<1> QED
    BY <1>4, <1>5, <1>6

LEMMA FindScanStep ==
    ASSUME HostInv, Find
    PROVE  /\ HostInv'
           /\ \A t \in Sockets : InOrder(t)
<1> DEFINE s == scan.at
<1>1. HostTypeOK /\ scan.step = "find" /\ s \in Sockets /\ UNCHANGED _server_port
    BY ScanFacts DEF HostInv, Find
<1>2. \/ scan' = Idle
      \/ s + 1 # MAX_SOCK_NUM /\ scan' = [scan EXCEPT !.at = s + 1]
    BY DEF Find
<1>3. scan' \in Scans /\ (scan'.step # "idle" => scan'.port \in TcpPorts)
  <2>1. s + 1 # MAX_SOCK_NUM => s + 1 \in Sockets
    BY <1>1, HostAssumption DEF Sockets
  <2> QED
    BY <1>1, <1>2, <2>1, ScanFacts
<1>4. SocketStatus(s) \/ UNCHANGED <<info, os, reported>>
    BY DEF Find
<1>5. CASE SocketStatus(s)
    BY <1>1, <1>3, <1>5, SocketStatusStep DEF HostInv, HostTypeOK
<1>6. CASE UNCHANGED <<info, os, reported>>
    BY <1>1, <1>3, <1>6, SameStatus DEF HostInv, HostTypeOK, ReportInv, IsUnused, IsClosed
<1> QED
    BY <1>4, <1>5, <1>6

\* Every step keeps the invariant and shows the program what the chip would.
LEMMA HostStep ==
    ASSUME HostInv, [HostNext]_hostVars
    PROVE  /\ HostInv'
           /\ \A s \in Sockets : InOrder(s)
<1> USE FdFacts
<1>0. /\ HostTypeOK /\ Held(info, os) /\ ReportInv
    BY DEF HostInv
<1>1. ASSUME NEW fd \in Fds, PeerConnects(fd)
      PROVE  HostInv' /\ UNCHANGED reported
  <2>1. os[fd] \in Listeners
    BY <1>0, <1>1, KindFacts DEF PeerConnects, HostTypeOK
  <2> DEFINE d == [os[fd] EXCEPT !.backlog = TRUE]
  <2>2. d \in Descriptors /\ d.kind = os[fd].kind /\ os[fd].kind = "listener"
    BY <2>1 DEF Descriptors, Listeners
  <2>3. os' = [os EXCEPT ![fd] = d] /\ UNCHANGED <<info, _server_port, reported, scan>>
    BY <1>1 DEF PeerConnects
  <2> HIDE DEF d
  <2>4. Held(info', os') /\ os' \in [Fds -> Descriptors] /\ ReportInv'
    BY <2>2, <2>3, DescriptorStep
  <2> QED
    BY <1>0, <2>3, <2>4 DEF HostInv, HostTypeOK
<1>2. ASSUME NEW fd \in Fds, PeerActs(fd)
      PROVE  HostInv' /\ UNCHANGED reported
  <2>1. os[fd] \in Connections
    BY <1>0, <1>2, KindFacts DEF PeerActs, HostTypeOK
  <2>2. PICK d \in {[os[fd] EXCEPT !.data = TRUE], [os[fd] EXCEPT !.peer = "eof"],
                    [os[fd] EXCEPT !.peer = "reset", !.error = (os[fd].peer = "open")]} :
            /\ os' = [os EXCEPT ![fd] = d]
            /\ d # [os[fd] EXCEPT !.peer = "reset", !.error = (os[fd].peer = "open")] =>
                   os[fd].peer = "open"
    BY <1>2 DEF PeerActs
  <2>3. d \in Descriptors /\ d.kind = os[fd].kind
    BY <2>1, <2>2 DEF Descriptors, Connections
  <2>4. (os[fd].peer # "open" /\ ~os[fd].data) => d.peer # "open" /\ ~d.data
    BY <2>1, <2>2 DEF Connections
  <2>5. UNCHANGED <<info, _server_port, reported, scan>>
    BY <1>2 DEF PeerActs
  <2>6. Held(info', os') /\ os' \in [Fds -> Descriptors] /\ ReportInv'
    BY <2>2, <2>3, <2>4, <2>5, DescriptorStep
  <2> QED
    BY <1>0, <2>5, <2>6 DEF HostInv, HostTypeOK
<1>3. ASSUME NEW s \in Sockets, Disconnect(s)
      PROVE  HostInv' /\ UNCHANGED reported
  <2> DEFINE fd == info[s].connection_socket
             d == [os[fd] EXCEPT !.shut = TRUE]
  <2>1. fd \in Fds /\ os[fd].kind = "connection"
    BY <1>0, <1>3 DEF Disconnect, HostTypeOK, Infos, Held
  <2>2. os[fd] \in Connections
    BY <1>0, <2>1, KindFacts DEF HostTypeOK
  <2>3. d \in Descriptors /\ d.kind = os[fd].kind /\ d.peer = os[fd].peer /\ d.data = os[fd].data
    BY <2>2 DEF Descriptors, Connections
  <2>4. os' = [os EXCEPT ![fd] = d] /\ UNCHANGED <<info, _server_port, reported, scan>>
    BY <1>3 DEF Disconnect
  <2> HIDE DEF d, fd
  <2>5. Held(info', os') /\ os' \in [Fds -> Descriptors] /\ ReportInv'
    BY <2>1, <2>3, <2>4, DescriptorStep
  <2> QED
    BY <1>0, <2>4, <2>5 DEF HostInv, HostTypeOK
<1>4. ASSUME NEW s \in Sockets, NEW port \in TcpPorts, InitializeTcpListenerSocket(s, port)
      PROVE  /\ HostInv'
             /\ \A t \in Sockets : InOrder(t)
    BY <1>0, <1>4, ListenReportStep DEF InitializeTcpListenerSocket, HostInv, HostTypeOK
<1>5. ASSUME NEW s \in Sockets, ReadStatus(s)
      PROVE  /\ HostInv'
             /\ \A t \in Sockets : InOrder(t)
    BY <1>0, <1>5, SocketStatusStep DEF ReadStatus, HostInv, HostTypeOK
<1>6. ASSUME NEW s \in Sockets, AcceptsConnection(s)
      PROVE  HostInv' /\ UNCHANGED reported
  <2>1. /\ CanAccept(s) /\ UNCHANGED <<_server_port, reported, scan>>
        /\ info' \in [Sockets -> Infos] /\ os' \in [Fds -> Descriptors]
        /\ Held(info', os') /\ OthersKept(s)
        /\ info'[s].connection_socket # -1 /\ info[s].connection_socket = -1
        /\ ~IsUnused(s)
    BY <1>6, AcceptStep DEF AcceptsConnection, CanAccept, IsUnused, IsClosed
  <2>2. ASSUME NEW t \in Sockets \ {s} PROVE IsUnused(t)' <=> IsUnused(t)
    BY <2>1 DEF OthersKept, IsUnused, IsClosed
  <2>3. ReportInv'
    BY <1>0, <2>1, <2>2 DEF ReportInv, OthersKept
  <2> QED
    BY <1>0, <2>1, <2>3 DEF HostInv, HostTypeOK
<1>7. ASSUME NEW port \in TcpPorts, Available(port)
      PROVE  HostInv' /\ UNCHANGED reported
  <2>1. /\ scan' \in Scans /\ scan'.port \in TcpPorts
        /\ UNCHANGED <<info, _server_port, os, reported>>
    BY <1>7 DEF Available, Idle, Scans
  <2> QED
    BY <1>0, <2>1 DEF HostInv, HostTypeOK, ReportInv, IsUnused, IsClosed
<1>8. CASE UNCHANGED hostVars
  <2>1. UNCHANGED <<info, _server_port, os, reported, scan>>
    BY <1>8 DEF hostVars
  <2>2. ReportInv'
    BY <1>0, <2>1 DEF ReportInv, IsUnused, IsClosed
  <2>3. HostTypeOK'
    BY <1>0, <2>1 DEF HostTypeOK
  <2>4. Held(info', os')
    BY <1>0, <2>1
  <2> QED
    BY <1>0, <2>1, <2>2, <2>3, <2>4, SameStatus DEF HostInv
<1>9. UNCHANGED reported => \A t \in Sockets : InOrder(t)
    BY <1>0, SameStatus
<1> QED
    BY <1>1, <1>2, <1>3, <1>4, <1>5, <1>6, <1>7, <1>8, <1>9,
       AcceptScanStep, BeginScanStep, FindScanStep DEF HostNext
-----------------------------------------------------------------------------
(***************************************************************************)
(* The theorems.                                                             *)
(***************************************************************************)

LEMMA HostInitInv == HostInit => HostInv
<1> SUFFICES ASSUME HostInit PROVE HostInv
    OBVIOUS
<1>1. HostTypeOK
    BY FdFacts, KindFacts DEF HostInit, HostTypeOK, Infos, Idle, Scans, Statuses
<1>2. Held(info, os)
    BY KindFacts DEF HostInit, Held
<1>3. ReportInv
    BY DEF HostInit, ReportInv
<1> QED
    BY <1>1, <1>2, <1>3 DEF HostInv

\* Every open descriptor belongs to one emulated socket, and SocketStatus does
\* not reach its CHECK(false).
THEOREM HostDescriptorsHeld == HostSpec => []DescriptorsHeld
<1>1. HostInv /\ [HostNext]_hostVars => HostInv'
    BY HostStep
<1>2. HostInv => DescriptorsHeld
  <2> SUFFICES ASSUME HostInv PROVE DescriptorsHeld
    OBVIOUS
  <2>1. ASSUME NEW fd \in Fds, os[fd] # Unused
        PROVE  Cardinality({s \in Sockets : fd \in {info[s].listener_socket,
                                                    info[s].connection_socket}}) = 1
    <3>1. os[fd].kind # "unused" /\ fd # -1
      BY <2>1, KindFacts, FdFacts DEF HostInv, HostTypeOK
    <3>2. PICK s \in Sockets : fd \in {info[s].listener_socket, info[s].connection_socket}
      BY <3>1 DEF HostInv, Held
    <3>3. \A t \in Sockets : fd \in {info[t].listener_socket, info[t].connection_socket} => t = s
      BY <3>1, <3>2 DEF HostInv, Held
    <3>4. {t \in Sockets : fd \in {info[t].listener_socket, info[t].connection_socket}} = {s}
      BY <3>2, <3>3
    <3> QED
      BY <3>4, FS_Singleton
  <2>2. \A s \in Sockets : StatusOf(s) # "abort"
    BY StatusFacts
  <2> QED
    BY <2>1, <2>2 DEF DescriptorsHeld
<1> QED
    BY HostInitInv, <1>1, <1>2, PTL DEF HostSpec

\* A program that polls an emulated socket sees a sequence of statuses that the
\* chip could show.
THEOREM HostLooksLikeTheChip == HostSpec => LooksLikeTheChip
<1>1. HostInv /\ [HostNext]_hostVars => HostInv'
    BY HostStep
<1>2. HostInv /\ [HostNext]_hostVars =>
          [\A s \in Sockets :
               reported'[s] = "none" \/ ChipOrder[reported[s]] <= ChipOrder[reported'[s]]]_reported
    BY HostStep DEF InOrder
<1> QED
    BY HostInitInv, <1>1, <1>2, PTL DEF HostSpec, LooksLikeTheChip
=============================================================================
