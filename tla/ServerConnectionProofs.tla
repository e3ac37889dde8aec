------------------------- MODULE ServerConnectionProofs -------------------------
(***************************************************************************)
(* The safety properties of ServerConnection for every size of the input     *)
(* buffer, of the chip's buffer and of the stream, every number of sockets   *)
(* and of transaction ids.  As in ServerSocketProofs a handshake does not    *)
(* beat the status read that follows the LISTEN command.                     *)
(***************************************************************************)
EXTENDS ServerConnection, ServerSocketProofs, SequenceTheorems, FiniteSetTheorems,
        WellFoundedInduction

(***************************************************************************)
(* The inductive invariant.                                                  *)
(***************************************************************************)

\* The listener has the socket of the session that is open, and a decoder that
\* is ready for input.
SessionInv ==
    /\ conn_sock_num = IF session = "open" THEN sock_num_ ELSE MAX_SOCK_NUM
    /\ session = "open" => decoder_status \in {"kReset", "kDecoding"}

\* Until a connection is announced, all that its peer has sent is in the chip.
UnannouncedStatus ==
    {"LISTEN", "INIT", "0x11", "SYNRECV", "ESTABLISHED", "CLOSE_WAIT"}
FreshInv ==
    /\ ~HasSocket => stream = << >>
    /\ (HasSocket /\ session = "none" /\ sr[sock_num_] \in UnannouncedStatus) => rx = stream
    /\ pc = "OnConnect" => rx = stream

\* How much of the stream has been consumed.
Offset == Len(stream) - Len(input_buffer_) - Len(rx)

\* What follows in the stream is in input_buffer_ and then in the chip.
BufferInv ==
    session = "open" =>
        /\ Offset >= 0
        /\ \A i \in 1 .. Len(input_buffer_) : input_buffer_[i] = stream[Offset + i]
        /\ \A i \in 1 .. Len(rx) : rx[i] = stream[Offset + Len(input_buffer_) + i]

\* The ends of requests in the first n bytes of the stream.
EndsUpTo(n) == {i \in 1 .. n : stream[i] \in {"e", "b", "x"}}

RepliesInv ==
    session = "open" =>
        /\ \A i \in 1 .. Len(replies) : replies[i].status = "ok"
        /\ Len(replies) = Cardinality(EndsUpTo(Offset))

ConnectionInv ==
    /\ IInv
    /\ ConnectionTypeOK
    /\ SessionInv
    /\ FreshInv
    /\ BufferInv
    /\ RepliesInv
-----------------------------------------------------------------------------
(***************************************************************************)
(* Facts about the data.                                                     *)
(***************************************************************************)

\* A set of natural numbers that is not empty has a least element.
LEMMA LeastElement ==
    ASSUME NEW T \in SUBSET Nat, T # {}
    PROVE  \E m \in T : \A x \in T : m <= x
<1>1. PICK m \in T : \A y \in T : ~(<<y, m>> \in OpToRel(<, Nat))
    BY NatLessThanWellFounded, WFMin, Zenon
<1>2. \A y \in T : ~(y < m)
    BY <1>1 DEF OpToRel
<1> QED
    BY <1>2

\* FirstEnd is the first end of a request in the buffer, if there is one.
LEMMA FirstEndFacts ==
    ASSUME NEW buffer \in Seq(Byte)
    PROVE  /\ FirstEnd(buffer) \in 0 .. Len(buffer)
           /\ FirstEnd(buffer) = 0 <=> Ends(buffer) = {}
           /\ FirstEnd(buffer) > 0 =>
                  /\ FirstEnd(buffer) \in Ends(buffer)
                  /\ \A j \in Ends(buffer) : FirstEnd(buffer) <= j
<1>1. Ends(buffer) \subseteq 1 .. Len(buffer)
    BY DEF Ends
<1>2. CASE Ends(buffer) = {}
    BY <1>2 DEF FirstEnd
<1>3. CASE Ends(buffer) # {}
  <2>1. \E i \in Ends(buffer) : \A j \in Ends(buffer) : i <= j
    BY <1>1, <1>3, LeastElement
  <2>2. /\ FirstEnd(buffer) \in Ends(buffer)
        /\ \A j \in Ends(buffer) : FirstEnd(buffer) <= j
    BY <1>3, <2>1, Zenon DEF FirstEnd
  <2> QED
    BY <1>1, <1>3, <2>2
<1> QED
    BY <1>2, <1>3

\* LastToken is the place of a token, or 0.
LEMMA LastTokenFacts ==
    ASSUME NEW buffer \in Seq(Byte)
    PROVE  LastToken(buffer) \in 0 .. Len(buffer)
<1> DEFINE tokens == {i \in DOMAIN buffer : buffer[i] = "t"}
           distances == {n \in Nat : \E i \in tokens : n = Len(buffer) - i}
<1>1. CASE tokens = {}
    BY <1>1 DEF LastToken
<1>2. CASE tokens # {}
  <2>1. PICK i \in tokens : TRUE
    BY <1>2
  <2>2. Len(buffer) - i \in distances
    BY <2>1
  <2>3. PICK d \in distances : \A x \in distances : d <= x
    <3> HIDE DEF distances
    <3>1. distances \in SUBSET Nat
      BY DEF distances
    <3> QED
      BY <2>2, <3>1, LeastElement
  <2>4. PICK k \in tokens : d = Len(buffer) - k
    BY <2>3
  <2>5. \A j \in (k + 1) .. Len(buffer) : buffer[j] # "t"
    <3> SUFFICES ASSUME NEW j \in (k + 1) .. Len(buffer), buffer[j] = "t"
                 PROVE  FALSE
      OBVIOUS
    <3>1. j \in tokens
      BY <2>4
    <3>2. Len(buffer) - j \in distances
      BY <3>1
    <3> QED
      BY <2>3, <2>4, <3>2
  <2>6. \E l \in DOMAIN buffer :
            buffer[l] = "t" /\ \A j \in (l + 1) .. Len(buffer) : buffer[j] # "t"
    BY <2>4, <2>5
  <2>7. LastToken(buffer) \in DOMAIN buffer
    BY <2>6, Zenon DEF LastToken
  <2> QED
    BY <2>7
<1> QED
    BY <1>1, <1>2

\* What DecodeBuffer returns: it needs more only if no request is complete, and
\* accepts the first request that is.
LEMMA DecodeFacts ==
    ASSUME NEW buffer \in Seq(Byte), NEW full \in BOOLEAN, NEW result,
           result = DecodeBuffer(buffer, full)
    PROVE  /\ result.used \in 0 .. Len(buffer)
           /\ result.status \in {"ok", "error", "more"}
           /\ result.status = "more" => Ends(buffer) = {}
           /\ result.status = "ok" => /\ result.used \in Ends(buffer)
                                      /\ \A j \in Ends(buffer) : result.used <= j
BY FirstEndFacts, LastTokenFacts DEF DecodeBuffer

\* Loaded is input_buffer_ followed by the bytes that OnCanRead reads, which
\* are the first that the chip holds.
LEMMA LoadedFacts ==
    ASSUME ConnectionTypeOK
    PROVE  /\ ReadSize \in 0 .. Len(rx)
           /\ ReadSize \in 0 .. RxMax
           /\ Loaded \in Seq(Byte)
           /\ Len(Loaded) = Len(input_buffer_) + ReadSize
           /\ Len(Loaded) <= InputBufferSize
           /\ \A i \in 1 .. Len(Loaded) :
                  Loaded[i] = IF i <= Len(input_buffer_) THEN input_buffer_[i]
                              ELSE rx[i - Len(input_buffer_)]
<1> USE DEF ConnectionTypeOK, TypeOK
<1>1. ReadSize \in 0 .. Len(rx) /\ ReadSize <= InputBufferSize - Len(input_buffer_)
    BY ConnectionAssumption DEF ReadSize
<1>2. /\ SubSeq(rx, 1, ReadSize) \in Seq(Byte)
      /\ Len(SubSeq(rx, 1, ReadSize)) = ReadSize
      /\ \A i \in 1 .. ReadSize : SubSeq(rx, 1, ReadSize)[i] = rx[i]
    BY <1>1
<1>3. /\ Loaded \in Seq(Byte)
      /\ Len(Loaded) = Len(input_buffer_) + ReadSize
      /\ \A i \in 1 .. Len(input_buffer_) + ReadSize :
             Loaded[i] = IF i <= Len(input_buffer_) THEN input_buffer_[i]
                         ELSE SubSeq(rx, 1, ReadSize)[i - Len(input_buffer_)]
    BY <1>2, ConcatProperties DEF Loaded
<1> HIDE DEF Loaded, ReadSize
<1>4. ASSUME NEW i \in 1 .. Len(Loaded)
      PROVE  Loaded[i] = IF i <= Len(input_buffer_) THEN input_buffer_[i]
                         ELSE rx[i - Len(input_buffer_)]
    BY <1>1, <1>2, <1>3
<1>5. ReadSize \in 0 .. RxMax /\ Len(Loaded) <= InputBufferSize
    BY <1>1, <1>3, ConstantsAssumption, ConnectionAssumption
<1> HIDE DEF ConnectionTypeOK, TypeOK
<1> QED
    BY <1>1, <1>3, <1>4, <1>5, Zenon

\* A suffix, place by place.
LEMMA SuffixByPlace ==
    ASSUME NEW s \in Seq(Byte), NEW t \in Seq(Byte), Len(s) <= Len(t),
           \A i \in 1 .. Len(s) : s[i] = t[Len(t) - Len(s) + i]
    PROVE  IsSuffix(s, t)
<1>1. /\ Reverse(s) \in Seq(Byte) /\ Len(Reverse(s)) = Len(s)
      /\ \A i \in 1 .. Len(s) : Reverse(s)[i] = s[Len(s) - i + 1]
    BY DEF Reverse
<1>2. /\ Reverse(t) \in Seq(Byte) /\ Len(Reverse(t)) = Len(t)
      /\ \A i \in 1 .. Len(t) : Reverse(t)[i] = t[Len(t) - i + 1]
    BY DEF Reverse
<1>3. ASSUME NEW i \in 1 .. Len(s) PROVE Reverse(s)[i] = Reverse(t)[i]
  <2>1. /\ Len(s) - i + 1 \in 1 .. Len(s) /\ i \in 1 .. Len(t)
        /\ Len(t) - Len(s) + (Len(s) - i + 1) = Len(t) - i + 1
    OBVIOUS
  <2>2. s[Len(s) - i + 1] = t[Len(t) - i + 1]
    BY <2>1
  <2> QED
    BY <1>1, <1>2, <2>1, <2>2
<1>4. SubSeq(Reverse(s), 1, Len(s)) = SubSeq(Reverse(t), 1, Len(s))
    BY <1>1, <1>2, <1>3
<1> QED
    BY <1>1, <1>2, <1>4 DEF IsSuffix, IsPrefix
-----------------------------------------------------------------------------
(***************************************************************************)
(* What the steps of the ServerSocket below mean for the connection.         *)
(***************************************************************************)

\* Every step is a step of the ServerSocket in which it keeps its socket: what
\* ServerConnection does is what an arbitrary listener may do.
LEMMA ConnectionStepIsSocketStep ==
    ConnectionTypeOK /\ [ConnectionNext]_allvars => [BoundNext]_vars
<1> SUFFICES ASSUME ConnectionTypeOK, [ConnectionNext]_allvars
             PROVE  [BoundNext]_vars
    OBVIOUS
<1>0. ReadSize \in 0 .. RxMax /\ 0 \in 0 .. RxMax
    BY LoadedFacts, ConstantsAssumption
<1>1. ASSUME NEW byte \in Byte, Send(byte) PROVE BoundNext
    BY <1>1 DEF Send, BoundNext, Environment
<1>2. CASE PollStep
    BY <1>2 DEF PollStep, BoundNext
<1>3. CASE OtherStep
    BY <1>3 DEF OtherStep, BoundNext, Environment
<1>4. CASE ServerConnectionStep
  <2>1. \/ ListenerKeeps(0) \/ ListenerCloses(0)
        \/ ListenerKeeps(ReadSize) \/ ListenerCloses(ReadSize) \/ ListenerDisconnected
    BY <1>4 DEF ServerConnectionStep, OnConnect, OnCanReadNothing, OnCanReadNeedsMore,
                OnCanReadDecoded, OnCanReadCloses, OnHalfClosed, OnDisconnect
  <2> QED
    BY <1>0, <2>1 DEF BoundNext, Listener
<1>5. CASE UNCHANGED allvars \/ OtherConnectionStarts
    BY <1>5 DEF allvars, vars, OtherConnectionStarts
<1> QED
    BY <1>1, <1>2, <1>3, <1>4, <1>5 DEF ConnectionNext

\* PerformIO leaves the chip's buffer alone unless it sets up a listener, and
\* announces a connection that is not announced yet.
LEMMA PollFacts ==
    ASSUME IInv, PerformIO
    PROVE  /\ UNCHANGED <<session, sock_num_>>
           /\ HasSocket
           /\ IF pc' = "ListenStatus" THEN session = "none" /\ rx' = << >>
              ELSE /\ rx' = rx
                   /\ sr'[sock_num_] \in UnannouncedStatus => sr[sock_num_] \in UnannouncedStatus
           /\ pc' = "OnConnect" => session = "none" /\ sr[sock_num_] \in UnannouncedStatus
<1> USE SocketsFacts
<1> USE DEF IInv, BoundWhenNeeded, UnannouncedStatus, HasSocket
<1>1. CASE PerformIOBroken
    BY <1>1 DEF PerformIOBroken
<1>2. CASE PerformIOClosed
    BY <1>2 DEF PerformIOClosed, BeginListening, InitializeTcpListenerSocket, Poll, WasOpen,
                IdleInv, TypeOK
<1>3. CASE PerformIOListening \/ PerformIOUndocumented
    BY <1>3 DEF PerformIOListening, PerformIOUndocumented, Poll, vars
<1>4. CASE AnnounceConnected
    BY <1>4 DEF AnnounceConnected, PerformIOOpen, Poll, WasOpen, IdleInv, TypeOK, OpenStatus
<1>5. CASE AnnounceCanRead \/ HandleCloseWait
    BY <1>5 DEF AnnounceCanRead, HandleCloseWait, PerformIOOpen, Poll
<1>6. CASE HandleCloseWaitAvailable
    BY <1>6 DEF HandleCloseWaitAvailable
<1>7. CASE DetectCloseTimeout
    BY <1>7 DEF DetectCloseTimeout, Poll, CloseHardwareSocket, TypeOK
<1>8. CASE PerformIOInit \/ PerformIOUnexpected
    BY <1>8 DEF PerformIOInit, PerformIOUnexpected, Poll, CloseHardwareSocket, TypeOK
<1>9. CASE ListenStatus \/ DetectListenerInitiatedDisconnect
    BY <1>9 DEF ListenStatus, DetectListenerInitiatedDisconnect
<1> QED
    BY <1>1, <1>2, <1>3, <1>4, <1>5, <1>6, <1>7, <1>8, <1>9 DEF PerformIO

\* The chip, the clock and the other users of the chip change nothing that the
\* connection knows of; nor does the search for a socket, which has none yet.
LEMMA OtherFacts ==
    ASSUME IInv, ChipMove \/ Tick \/ PickClosedSocket \/ \E s \in Sockets : OtherUse(s)
    PROVE  /\ UNCHANGED session
           /\ pc' = "OnConnect" => pc = "OnConnect" /\ HasSocket
           /\ HasSocket =>
                  /\ UNCHANGED <<sock_num_, rx>>
                  /\ sr'[sock_num_] \in UnannouncedStatus => sr[sock_num_] \in UnannouncedStatus
           /\ ~HasSocket => session = "none" /\ (HasSocket' => rx' = << >>)
<1> USE SocketsFacts
<1> USE DEF IInv, BoundWhenNeeded, UnannouncedStatus, HasSocket, TypeOK
<1>1. CASE ChipMove
  <2>1. PICK move \in ChipMoves :
            /\ HasSocket
            /\ sr[sock_num_] = move[1]
            /\ sr' = [sr EXCEPT ![sock_num_] = move[2]]
            /\ UNCHANGED <<rx, sock_num_, last_status_, disconnected, elapsed, session, pc>>
    BY <1>1, Zenon DEF ChipMove
  <2>2. move[2] \in UnannouncedStatus => move[1] \in UnannouncedStatus
    BY DEF ChipMoves
  <2> QED
    BY <2>1, <2>2
<1>2. CASE Tick
    BY <1>2 DEF Tick
<1>3. ASSUME NEW s \in Sockets, OtherUse(s)
      PROVE  /\ UNCHANGED <<session, pc, sock_num_, rx>>
             /\ HasSocket => sr'[sock_num_] = sr[sock_num_]
    BY <1>3 DEF OtherUse
<1>4. CASE PickClosedSocket
    BY <1>4, FindUnusedFact DEF PickClosedSocket, BeginListening, InitializeTcpListenerSocket
<1> QED
    BY <1>1, <1>2, <1>3, <1>4
-----------------------------------------------------------------------------
(***************************************************************************)
(* What decoding does.                                                       *)
(***************************************************************************)

\* OnCanRead moves bytes from the chip to the buffer and from the buffer to the
\* part of the stream that is consumed, and keeps them in their order.  It
\* consumes the end of at most one request, and of one if it accepts it.
LEMMA DecodeStep ==
    ASSUME ConnectionTypeOK, BufferInv, session = "open", session' = "open",
           NEW result, Decode(result), Read(ReadSize)
    PROVE  /\ Offset' = Offset + result.used
           /\ BufferInv'
           /\ result.status = "more" => EndsUpTo(Offset)' = EndsUpTo(Offset)
           /\ result.status = "ok" => /\ EndsUpTo(Offset)' = EndsUpTo(Offset) \cup {Offset'}
                                      /\ Offset' \notin EndsUpTo(Offset)
<1>1. /\ Loaded \in Seq(Byte)
      /\ result = DecodeBuffer(Loaded, Len(Loaded) = InputBufferSize)
      /\ input_buffer_' = SubSeq(Loaded, result.used + 1, Len(Loaded))
      /\ stream' = stream
      /\ rx' = SubSeq(rx, ReadSize + 1, Len(rx))
    BY LoadedFacts DEF Decode, Read
<1>2. /\ result.used \in 0 .. Len(Loaded)
      /\ result.status = "more" => Ends(Loaded) = {}
      /\ result.status = "ok" => /\ result.used \in Ends(Loaded)
                                 /\ \A j \in Ends(Loaded) : result.used <= j
    BY <1>1, DecodeFacts
<1>3. /\ rx \in Seq(Byte) /\ input_buffer_ \in Seq(Byte) /\ stream \in Seq(Byte)
      /\ ReadSize \in 0 .. Len(rx)
      /\ Len(Loaded) = Len(input_buffer_) + ReadSize
      /\ Len(rx) \in Nat /\ Len(input_buffer_) \in Nat /\ Len(stream) \in Nat
    BY LoadedFacts DEF ConnectionTypeOK, TypeOK
<1>4. /\ Len(rx') = Len(rx) - ReadSize
      /\ \A i \in 1 .. Len(rx') : rx'[i] = rx[ReadSize + i]
    BY <1>1, <1>3
<1>5. /\ Len(input_buffer_') = Len(Loaded) - result.used
      /\ \A i \in 1 .. Len(input_buffer_') : input_buffer_'[i] = Loaded[result.used + i]
    BY <1>1, <1>2
<1>6. /\ Offset >= 0 /\ Offset \in Nat
      /\ \A i \in 1 .. Len(input_buffer_) : input_buffer_[i] = stream[Offset + i]
      /\ \A i \in 1 .. Len(rx) : rx[i] = stream[Offset + Len(input_buffer_) + i]
    BY <1>3 DEF BufferInv, Offset
<1>7. Offset' = Offset + result.used
  <2>1. Offset' = Len(stream) - Len(input_buffer_') - Len(rx')
    BY <1>1 DEF Offset
  <2>2. /\ result.used \in Nat /\ ReadSize \in Nat
        /\ Len(rx) \in Nat /\ Len(input_buffer_) \in Nat /\ Len(stream) \in Nat
        /\ Len(rx') = Len(rx) - ReadSize
        /\ Len(input_buffer_') = Len(input_buffer_) + ReadSize - result.used
    BY <1>2, <1>3, <1>4, <1>5
  <2>3. Offset = Len(stream) - Len(input_buffer_) - Len(rx)
    BY DEF Offset
  <2>4. Len(stream) - Len(input_buffer_') - Len(rx')
            = (Len(stream) - Len(input_buffer_) - Len(rx)) + result.used
    BY <2>2
  <2> QED
    BY <2>1, <2>3, <2>4, Zenon
<1>8. ASSUME NEW i \in 1 .. Len(Loaded) PROVE Loaded[i] = stream[Offset + i]
  <2>1. CASE i <= Len(input_buffer_)
    <3>1. i \in 1 .. Len(input_buffer_)
      BY <2>1, <1>3
    <3>2. Loaded[i] = input_buffer_[i]
      BY <2>1, LoadedFacts
    <3> QED
      BY <3>1, <3>2, <1>6
  <2>2. CASE i > Len(input_buffer_)
    <3>1. i - Len(input_buffer_) \in 1 .. Len(rx)
      BY <2>2, <1>3
    <3>2. Loaded[i] = rx[i - Len(input_buffer_)]
      BY <2>2, <1>3, LoadedFacts
    <3>3. rx[i - Len(input_buffer_)] =
              stream[Offset + Len(input_buffer_) + (i - Len(input_buffer_))]
      BY <3>1, <1>6
    <3> QED
      BY <3>2, <3>3, <1>3, <1>6
  <2> QED
    BY <2>1, <2>2, <1>3
<1>9. BufferInv'
  <2>0. /\ result.used \in Nat /\ ReadSize \in Nat /\ Offset \in Nat
        /\ Len(rx) \in Nat /\ Len(input_buffer_) \in Nat
        /\ Len(input_buffer_') = Len(input_buffer_) + ReadSize - result.used
    BY <1>2, <1>3, <1>5, <1>6
  <2>1. ASSUME NEW i \in 1 .. Len(input_buffer_')
        PROVE  input_buffer_'[i] = stream[Offset' + i]
    <3>1. result.used + i \in 1 .. Len(Loaded)
      BY <1>2, <1>3, <1>5
    <3>2. input_buffer_'[i] = stream[Offset + (result.used + i)]
      BY <3>1, <1>5, <1>8
    <3>3. Offset' + i = Offset + (result.used + i)
      BY <1>7, <2>0
    <3> QED
      BY <3>2, <3>3
  <2>2. ASSUME NEW i \in 1 .. Len(rx')
        PROVE  rx'[i] = stream[Offset' + Len(input_buffer_') + i]
    <3>1. ReadSize + i \in 1 .. Len(rx)
      BY <1>3, <1>4
    <3>2. rx'[i] = stream[Offset + Len(input_buffer_) + (ReadSize + i)]
      BY <3>1, <1>4, <1>6
    <3>3. Offset' + Len(input_buffer_') + i = Offset + Len(input_buffer_) + (ReadSize + i)
      <4>1. i \in Int
        OBVIOUS
      <4>2. /\ result.used \in Int /\ ReadSize \in Int
            /\ Offset \in Int /\ Len(input_buffer_) \in Int
        BY <2>0
      <4>3. (Offset + result.used) + (Len(input_buffer_) + ReadSize - result.used) + i
                = Offset + Len(input_buffer_) + (ReadSize + i)
        BY <4>1, <4>2
      <4>4. Len(input_buffer_') = Len(input_buffer_) + ReadSize - result.used
        BY <2>0, Zenon
      <4> QED
        BY <1>7, <4>3, <4>4, Zenon
    <3> QED
      BY <3>2, <3>3
  <2>3. Offset' >= 0
    BY <1>7, <2>0
  <2> QED
    BY <2>1, <2>2, <2>3, <1>1 DEF BufferInv
<1>10. \A n \in Nat : (n \in Ends(Loaded)) <=>
           n \in 1 .. Len(Loaded) /\ stream[Offset + n] \in {"e", "b", "x"}
    BY <1>1, <1>8 DEF Ends
<1>11. EndsUpTo(Offset)' = {i \in 1 .. Offset' : stream[i] \in {"e", "b", "x"}}
    BY <1>1 DEF EndsUpTo
<1>12. ASSUME NEW i \in 1 .. Offset', i > Offset, i < Offset' \/ result.status = "more"
       PROVE  result.status \in {"more", "ok"} => stream[i] \notin {"e", "b", "x"}
  <2>1. /\ i - Offset \in 1 .. Len(Loaded) /\ i - Offset \in Nat
        /\ Offset + (i - Offset) = i
        /\ result.status # "more" => i - Offset < result.used
    BY <1>2, <1>3, <1>6, <1>7, <1>12
  <2>2. result.status \in {"more", "ok"} => i - Offset \notin Ends(Loaded)
    BY <1>2, <2>1, <1>3
  <2> QED
    BY <1>10, <2>1, <2>2
<1>13. result.status = "ok" => stream[Offset'] \in {"e", "b", "x"} /\ Offset' > Offset
  <2> SUFFICES ASSUME result.status = "ok"
               PROVE  stream[Offset'] \in {"e", "b", "x"} /\ Offset' > Offset
    OBVIOUS
  <2>1. result.used \in Ends(Loaded) /\ result.used \in Nat
    BY <1>2, <1>3
  <2>2. result.used \in 1 .. Len(Loaded) /\ stream[Offset + result.used] \in {"e", "b", "x"}
    BY <1>10, <2>1
  <2> QED
    BY <1>6, <1>7, <2>2, <1>3
<1>14. Offset' \in Nat /\ Offset <= Offset'
    BY <1>2, <1>3, <1>6, <1>7
<1> HIDE DEF Offset
<1> QED
    BY <1>6, <1>7, <1>9, <1>11, <1>12, <1>13, <1>14 DEF EndsUpTo
-----------------------------------------------------------------------------
(***************************************************************************)
(* The invariant is inductive: one lemma for each kind of step.              *)
(***************************************************************************)

LEMMA ConnectionInitInv == ConnectionInit => ConnectionInv
<1> SUFFICES ASSUME ConnectionInit PROVE ConnectionInv
    OBVIOUS
<1>1. IInv
    BY InitIInv DEF ConnectionInit
<1>2. ConnectionTypeOK
  <2>1. /\ MAX_SOCK_NUM \in 0 .. MAX_SOCK_NUM /\ 0 \in 0 .. (TransactionIds - 1)
        /\ 0 <= InputBufferSize
    BY ConnectionAssumption, SocketsFacts
  <2>2. TypeOK
    BY <1>1 DEF IInv
  <2>3. /\ conn_sock_num \in 0 .. MAX_SOCK_NUM
        /\ decoder_status \in {"kReset", "kDecoding", "kDecoded"}
        /\ request_id \in 0 .. (TransactionIds - 1)
        /\ server_transaction_id_ \in 0 .. (TransactionIds - 1)
    BY <2>1 DEF ConnectionInit
  <2>4. /\ input_buffer_ \in Seq(Byte) /\ Len(input_buffer_) <= InputBufferSize
        /\ stream \in Seq(Byte)
        /\ replies \in Seq([id : 0 .. (TransactionIds - 1), status : {"ok", "error"}])
        /\ theirs \in Seq(0 .. (TransactionIds - 1))
    BY <2>1 DEF ConnectionInit
  <2>5. between_requests_ \in BOOLEAN
    BY DEF ConnectionInit
  <2> QED
    BY <2>2, <2>3, <2>4, <2>5 DEF ConnectionTypeOK
<1>3. session = "none" /\ pc = "idle" /\ ~HasSocket /\ conn_sock_num = MAX_SOCK_NUM
      /\ stream = << >> /\ replies = << >>
    BY SocketsFacts DEF ConnectionInit, Init, HasSocket
<1> QED
    BY <1>1, <1>2, <1>3
       DEF ConnectionInv, SessionInv, FreshInv, BufferInv, RepliesInv

\* A byte of the peer is at the end of the stream and of the chip's buffer.
LEMMA SendStep ==
    ASSUME ConnectionInv, NEW byte \in Byte, Send(byte), IInv'
    PROVE  ConnectionInv'
<1>1. /\ HasSocket /\ UNCHANGED <<sr, sock_num_, session, pc, connection, replies, theirs>>
      /\ rx' = Append(rx, byte) /\ stream' = Append(stream, byte)
    BY DEF Send, PeerSend
<1>2. /\ rx \in Seq(Byte) /\ stream \in Seq(Byte) /\ input_buffer_ \in Seq(Byte)
      /\ Len(rx) \in Nat /\ Len(stream) \in Nat /\ Len(input_buffer_) \in Nat
    BY DEF ConnectionInv, ConnectionTypeOK, TypeOK
<1>3. ConnectionTypeOK'
    BY <1>1, <1>2 DEF ConnectionInv, ConnectionTypeOK, IInv, connection
<1>4. SessionInv' /\ FreshInv'
    BY <1>1 DEF ConnectionInv, SessionInv, FreshInv, HasSocket, connection
<1>5. Offset' = Offset
  <2>1. Len(rx') = Len(rx) + 1 /\ Len(stream') = Len(stream) + 1 /\ input_buffer_' = input_buffer_
    BY <1>1, <1>2 DEF connection
  <2>2. (Len(stream) + 1) - Len(input_buffer_) - (Len(rx) + 1)
            = Len(stream) - Len(input_buffer_) - Len(rx)
    BY <1>2
  <2> QED
    BY <2>1, <2>2, Zenon DEF Offset
<1>6. BufferInv' /\ RepliesInv'
  <2> SUFFICES ASSUME session = "open" PROVE BufferInv' /\ RepliesInv'
    BY <1>1 DEF BufferInv, RepliesInv
  <2>1. /\ Offset >= 0 /\ Offset \in Nat
        /\ Offset + Len(input_buffer_) + Len(rx) = Len(stream)
        /\ \A i \in 1 .. Len(input_buffer_) : input_buffer_[i] = stream[Offset + i]
        /\ \A i \in 1 .. Len(rx) : rx[i] = stream[Offset + Len(input_buffer_) + i]
    BY <1>2 DEF ConnectionInv, BufferInv, Offset
  <2>2. \A i \in 1 .. Len(stream) : stream'[i] = stream[i]
    BY <1>1, <1>2
  <2>3. /\ stream'[Len(stream) + 1] = byte /\ rx'[Len(rx) + 1] = byte
        /\ Len(rx') = Len(rx) + 1 /\ \A i \in 1 .. Len(rx) : rx'[i] = rx[i]
        /\ input_buffer_' = input_buffer_
    BY <1>1, <1>2 DEF connection
  <2>4. \A i \in 1 .. Len(input_buffer_) : input_buffer_[i] = stream'[Offset + i]
    BY <1>2, <2>1, <2>2
  <2>5. ASSUME NEW i \in 1 .. Len(rx) + 1
        PROVE  rx'[i] = stream'[Offset + Len(input_buffer_) + i]
    <3>1. CASE i = Len(rx) + 1
      <4>1. Offset + Len(input_buffer_) + i = Len(stream) + 1
        BY <1>2, <2>1, <3>1
      <4> QED
        BY <2>3, <3>1, <4>1
    <3>2. CASE i \in 1 .. Len(rx)
      <4>1. Offset + Len(input_buffer_) + i \in 1 .. Len(stream)
        BY <1>2, <2>1, <3>2
      <4> QED
        BY <2>1, <2>2, <2>3, <3>2, <4>1
    <3> QED
      BY <1>2, <3>1, <3>2
  <2>6. BufferInv'
    BY <1>5, <2>1, <2>3, <2>4, <2>5 DEF BufferInv
  <2>7. EndsUpTo(Offset)' = EndsUpTo(Offset)
    BY <1>5, <1>2, <2>1, <2>2 DEF EndsUpTo
  <2> QED
    BY <1>1, <2>6, <2>7 DEF ConnectionInv, RepliesInv
<1> QED
    BY <1>3, <1>4, <1>6 DEF ConnectionInv

\* The steps of PerformIO and of what surrounds the server leave the buffers of
\* an open connection alone.
LEMMA QuietStep ==
    ASSUME ConnectionInv, IInv', UNCHANGED <<replies, session>>,
           UNCHANGED <<conn_sock_num, between_requests_, input_buffer_, decoder_status, request_id>>,
           session = "open" => UNCHANGED <<sock_num_, rx, stream>>,
           stream' \in Seq(Byte),
           server_transaction_id_' \in 0 .. (TransactionIds - 1),
           theirs' \in Seq(0 .. (TransactionIds - 1)),
           FreshInv'
    PROVE  ConnectionInv'
<1>1. ConnectionTypeOK'
    BY DEF ConnectionInv, ConnectionTypeOK, IInv
<1>2. SessionInv'
    BY DEF ConnectionInv, SessionInv
<1>3. BufferInv' /\ RepliesInv'
  <2>1. CASE session = "open"
    <3>1. Offset' = Offset /\ UNCHANGED <<input_buffer_, rx, stream>>
      BY <2>1 DEF Offset
    <3> QED
      BY <3>1 DEF ConnectionInv, BufferInv, RepliesInv, EndsUpTo
  <2> QED
    BY <2>1 DEF BufferInv, RepliesInv
<1> QED
    BY <1>1, <1>2, <1>3 DEF ConnectionInv

LEMMA PollStepInv ==
    ASSUME ConnectionInv, PollStep, IInv'
    PROVE  ConnectionInv'
<1>1. /\ UNCHANGED <<connection, replies, theirs, session, sock_num_>> /\ HasSocket
      /\ stream' = IF pc' = "ListenStatus" THEN << >> ELSE stream
      /\ session = "open" => UNCHANGED <<rx, stream>>
    BY PollFacts DEF ConnectionInv, PollStep
<1>2. FreshInv'
    BY <1>1, PollFacts DEF ConnectionInv, PollStep, FreshInv, HasSocket
<1>3. stream' \in Seq(Byte)
    BY <1>1, EmptySeq DEF ConnectionInv, ConnectionTypeOK
<1>4. /\ UNCHANGED <<conn_sock_num, between_requests_, input_buffer_, decoder_status, request_id>>
      /\ server_transaction_id_' \in 0 .. (TransactionIds - 1)
      /\ theirs' \in Seq(0 .. (TransactionIds - 1))
    BY <1>1 DEF ConnectionInv, ConnectionTypeOK, connection
<1> QED
    BY <1>1, <1>2, <1>3, <1>4, QuietStep

LEMMA OtherStepInv ==
    ASSUME ConnectionInv, OtherStep, IInv'
    PROVE  ConnectionInv'
<1>1. /\ UNCHANGED <<connection, replies, theirs, session, stream>>
      /\ session = "open" => UNCHANGED <<sock_num_, rx>>
    BY OtherFacts DEF ConnectionInv, OtherStep
<1>2. FreshInv'
    BY <1>1, OtherFacts DEF ConnectionInv, OtherStep, FreshInv, HasSocket
<1>3. stream' \in Seq(Byte)
    BY <1>1 DEF ConnectionInv, ConnectionTypeOK
<1>4. /\ UNCHANGED <<conn_sock_num, between_requests_, input_buffer_, decoder_status, request_id>>
      /\ server_transaction_id_' \in 0 .. (TransactionIds - 1)
      /\ theirs' \in Seq(0 .. (TransactionIds - 1))
    BY <1>1 DEF ConnectionInv, ConnectionTypeOK, connection
<1> QED
    BY <1>1, <1>2, <1>3, <1>4, QuietStep

\* The counter stays in its range.
LEMMA NextIdInRange ==
    ASSUME ConnectionTypeOK PROVE NextId \in 0 .. (TransactionIds - 1)
<1>1. \A n \in Nat : n % TransactionIds \in 0 .. (TransactionIds - 1)
    BY ConnectionAssumption
<1>2. server_transaction_id_ + 1 \in Nat
    BY ConnectionAssumption DEF ConnectionTypeOK
<1> QED
    BY <1>1, <1>2 DEF NextId

\* Another connection draws an id.
LEMMA OtherConnectionStep ==
    ASSUME ConnectionInv, OtherConnectionStarts, IInv'
    PROVE  ConnectionInv'
<1>1. /\ UNCHANGED <<conn_sock_num, between_requests_, input_buffer_, decoder_status, request_id>>
      /\ UNCHANGED <<replies, stream, session, sock_num_, rx, sr, pc>>
      /\ server_transaction_id_' = NextId /\ theirs' = Append(theirs, NextId)
    BY DEF OtherConnectionStarts, vars
<1>2. /\ server_transaction_id_' \in 0 .. (TransactionIds - 1)
      /\ theirs' \in Seq(0 .. (TransactionIds - 1)) /\ stream' \in Seq(Byte)
    BY <1>1, NextIdInRange DEF ConnectionInv, ConnectionTypeOK
<1>3. FreshInv'
    BY <1>1 DEF ConnectionInv, FreshInv, HasSocket
<1> QED
    BY <1>1, <1>2, <1>3, QuietStep

\* The ids that the decoding of a request leaves are in their range.
LEMMA StartedFacts ==
    ASSUME ConnectionTypeOK
    PROVE  /\ StartedId \in 0 .. (TransactionIds - 1)
           /\ OnStartDecoding => server_transaction_id_' \in 0 .. (TransactionIds - 1)
<1>1. /\ NextId \in 0 .. (TransactionIds - 1) /\ request_id \in 0 .. (TransactionIds - 1)
      /\ server_transaction_id_ \in 0 .. (TransactionIds - 1)
    BY NextIdInRange DEF ConnectionTypeOK
<1> QED
    BY <1>1, Zenon DEF StartedId, OnStartDecoding

\* A response is added to the others.
LEMMA ReplyFacts ==
    ASSUME ConnectionTypeOK,
           NEW id \in 0 .. (TransactionIds - 1), NEW status \in {"ok", "error"},
           Reply(id, status)
    PROVE  /\ replies' \in Seq([id : 0 .. (TransactionIds - 1), status : {"ok", "error"}])
           /\ Len(replies') = Len(replies) + 1 /\ Len(replies) \in Nat
           /\ replies'[Len(replies) + 1] = [id |-> id, status |-> status]
           /\ \A i \in 1 .. Len(replies) : replies'[i] = replies[i]
<1> DEFINE R == [id : 0 .. (TransactionIds - 1), status : {"ok", "error"}]
           new == [id |-> id, status |-> status]
<1>1. replies \in Seq(R) /\ new \in R /\ replies' = Append(replies, new) /\ Len(replies) \in Nat
    BY DEF ConnectionTypeOK, Reply
<1> HIDE DEF R
<1>2. /\ replies' \in Seq(R) /\ Len(replies') = Len(replies) + 1
      /\ replies'[Len(replies) + 1] = new
      /\ \A i \in 1 .. Len(replies) : replies'[i] = replies[i]
    <2> HIDE DEF new
    <2> QED
      BY <1>1, AppendProperties
<1> QED
    BY <1>1, <1>2 DEF R

\* A new connection starts with an empty buffer and an empty list.
LEMMA OnConnectStep ==
    ASSUME ConnectionInv, OnConnect, IInv'
    PROVE  ConnectionInv'
<1>1. /\ rx' = SubSeq(rx, 1, Len(rx)) /\ session' = "open" /\ pc' = "idle" /\ pc = "OnConnect"
      /\ conn_sock_num' = sock_num_ /\ decoder_status' = "kReset" /\ request_id' = 0
      /\ between_requests_' = TRUE /\ input_buffer_' = << >> /\ replies' = << >>
      /\ theirs' = << >>
      /\ UNCHANGED <<server_transaction_id_, stream, sr, sock_num_>>
    BY DEF OnConnect, ListenerKeeps, Read, ConnectionInv, ConnectionTypeOK, TypeOK
<1>2. /\ rx \in Seq(Byte) /\ stream \in Seq(Byte) /\ Len(rx) \in Nat /\ rx = stream /\ rx' = rx
      /\ HasSocket /\ sock_num_ \in 0 .. MAX_SOCK_NUM
    BY <1>1 DEF ConnectionInv, ConnectionTypeOK, TypeOK, FreshInv, IInv, BoundWhenNeeded
<1>3. ConnectionTypeOK'
  <2>1. TypeOK' /\ conn_sock_num' \in 0 .. MAX_SOCK_NUM
        /\ decoder_status' \in {"kReset", "kDecoding", "kDecoded"}
        /\ request_id' \in 0 .. (TransactionIds - 1)
        /\ server_transaction_id_' \in 0 .. (TransactionIds - 1)
        /\ stream' \in Seq(Byte)
    BY <1>1, <1>2, ConnectionAssumption DEF IInv, ConnectionInv, ConnectionTypeOK
  <2>2. /\ input_buffer_' \in Seq(Byte) /\ Len(input_buffer_') <= InputBufferSize
        /\ replies' \in Seq([id : 0 .. (TransactionIds - 1), status : {"ok", "error"}])
        /\ theirs' \in Seq(0 .. (TransactionIds - 1))
    BY <1>1, ConnectionAssumption
  <2>3. between_requests_' \in BOOLEAN
    BY <1>1
  <2> QED
    BY <2>1, <2>2, <2>3 DEF ConnectionTypeOK
<1>4. SessionInv' /\ FreshInv'
    BY <1>1, <1>2 DEF SessionInv, FreshInv, HasSocket
<1>5. Offset' = 0
  <2>1. Len(stream) - 0 - Len(rx) = 0
    BY <1>2
  <2>2. Len(input_buffer_') = 0 /\ rx' = rx /\ stream' = stream
    BY <1>1, <1>2
  <2> QED
    BY <2>1, <2>2, Zenon DEF Offset
<1>6. BufferInv'
    BY <1>1, <1>2, <1>5 DEF BufferInv
<1>7. RepliesInv'
  <2>1. EndsUpTo(Offset)' = {}
    BY <1>5 DEF EndsUpTo
  <2> QED
    BY <1>1, <2>1, FS_EmptySet DEF RepliesInv
<1> QED
    BY <1>3, <1>4, <1>6, <1>7 DEF ConnectionInv

\* OnCanRead with nothing to decode changes nothing.
LEMMA OnCanReadNothingStep ==
    ASSUME ConnectionInv, OnCanReadNothing, IInv'
    PROVE  ConnectionInv'
<1>1. /\ UNCHANGED <<connection, replies, theirs, sock_num_, stream, sr>>
      /\ pc = "OnCanRead" /\ session' = "open" /\ pc' = "idle"
      /\ rx' = SubSeq(rx, 1, Len(rx))
    BY DEF OnCanReadNothing, ListenerKeeps, Read, ConnectionInv, ConnectionTypeOK, TypeOK
<1>2. session = "open" /\ HasSocket /\ rx' = rx /\ stream \in Seq(Byte)
    BY <1>1 DEF ConnectionInv, IInv, CallInv, BoundWhenNeeded, ConnectionTypeOK, TypeOK
<1>3. FreshInv'
    BY <1>1, <1>2 DEF FreshInv, HasSocket
<1>4. /\ UNCHANGED <<conn_sock_num, between_requests_, input_buffer_, decoder_status, request_id>>
      /\ server_transaction_id_' \in 0 .. (TransactionIds - 1)
      /\ theirs' \in Seq(0 .. (TransactionIds - 1))
    BY <1>1 DEF ConnectionInv, ConnectionTypeOK, connection
<1> QED
    BY <1>1, <1>2, <1>3, <1>4, QuietStep

\* What the steps that decode have in common.
LEMMA DecodeTypes ==
    ASSUME ConnectionInv, NEW result, Decode(result), OnStartDecoding
    PROVE  /\ session = "open" /\ HasSocket /\ decoder_status \in {"kReset", "kDecoding"}
           /\ result.status \in {"ok", "error", "more"}
           /\ input_buffer_' \in Seq(Byte) /\ Len(input_buffer_') <= InputBufferSize
           /\ between_requests_' \in BOOLEAN
           /\ server_transaction_id_' \in 0 .. (TransactionIds - 1)
           /\ StartedId \in 0 .. (TransactionIds - 1)
           /\ stream' = stream /\ stream \in Seq(Byte)
           /\ theirs' = theirs /\ theirs \in Seq(0 .. (TransactionIds - 1))
<1>1. /\ pc = "OnCanRead" /\ stream' = stream /\ theirs' = theirs
      /\ result = DecodeBuffer(Loaded, Len(Loaded) = InputBufferSize)
      /\ input_buffer_' = SubSeq(Loaded, result.used + 1, Len(Loaded))
    BY DEF Decode
<1>2. session = "open" /\ HasSocket /\ decoder_status \in {"kReset", "kDecoding"}
    BY <1>1 DEF ConnectionInv, IInv, CallInv, BoundWhenNeeded, SessionInv
<1>3. Loaded \in Seq(Byte) /\ Len(Loaded) <= InputBufferSize /\ stream \in Seq(Byte)
    BY LoadedFacts DEF ConnectionInv, ConnectionTypeOK
<1>4. result.status \in {"ok", "error", "more"} /\ result.used \in 0 .. Len(Loaded)
    BY <1>1, <1>3, DecodeFacts
<1>5. input_buffer_' \in Seq(Byte) /\ Len(input_buffer_') <= InputBufferSize
    BY <1>1, <1>3, <1>4, ConnectionAssumption
<1>6. between_requests_' \in BOOLEAN
    BY Zenon DEF Decode
<1>7. theirs \in Seq(0 .. (TransactionIds - 1))
    BY DEF ConnectionInv, ConnectionTypeOK
<1> QED
    BY <1>1, <1>2, <1>3, <1>4, <1>5, <1>6, <1>7, StartedFacts DEF ConnectionInv

\* OnCanRead that needs more input consumes no end of a request.
LEMMA OnCanReadNeedsMoreStep ==
    ASSUME ConnectionInv, OnCanReadNeedsMore, IInv'
    PROVE  ConnectionInv'
<1>1. PICK result :
        /\ Decode(result) /\ result.status = "more"
        /\ ListenerKeeps(ReadSize)
        /\ OnStartDecoding
        /\ request_id' = StartedId
        /\ decoder_status' = "kDecoding"
        /\ UNCHANGED <<conn_sock_num, replies>>
    BY Zenon DEF OnCanReadNeedsMore
<1>2. /\ Read(ReadSize) /\ session' = "open" /\ pc' = "idle" /\ UNCHANGED <<sr, sock_num_>>
    BY <1>1 DEF ListenerKeeps
<1>3. ConnectionTypeOK'
    BY <1>1, <1>2, DecodeTypes DEF ConnectionTypeOK, ConnectionInv, IInv
<1>4. /\ BufferInv' /\ EndsUpTo(Offset)' = EndsUpTo(Offset)
    BY <1>1, <1>2, DecodeStep, DecodeTypes DEF ConnectionInv
<1>5. RepliesInv'
    BY <1>1, <1>4, DecodeTypes DEF RepliesInv, ConnectionInv
<1>6. SessionInv' /\ FreshInv'
    BY <1>1, <1>2, DecodeTypes DEF ConnectionInv, SessionInv, FreshInv, HasSocket
<1> QED
    BY <1>3, <1>4, <1>5, <1>6 DEF ConnectionInv

\* OnCanRead that accepts a request consumes its end and adds its response.
LEMMA OnCanReadDecodedStep ==
    ASSUME ConnectionInv, OnCanReadDecoded, IInv'
    PROVE  ConnectionInv'
<1>1. PICK result :
        /\ Decode(result) /\ result.status = "ok"
        /\ ListenerKeeps(ReadSize)
        /\ OnStartDecoding
        /\ Reply(StartedId, "ok")
        /\ request_id' = 0
        /\ decoder_status' = "kReset"
        /\ UNCHANGED conn_sock_num
    BY Zenon DEF OnCanReadDecoded
<1>2. /\ Read(ReadSize) /\ session' = "open" /\ pc' = "idle" /\ UNCHANGED <<sr, sock_num_>>
    BY <1>1 DEF ListenerKeeps
<1>3. /\ replies' \in Seq([id : 0 .. (TransactionIds - 1), status : {"ok", "error"}])
      /\ Len(replies') = Len(replies) + 1
      /\ replies'[Len(replies) + 1] = [id |-> StartedId, status |-> "ok"]
      /\ \A i \in 1 .. Len(replies) : replies'[i] = replies[i]
    BY <1>1, DecodeTypes, ReplyFacts DEF ConnectionInv
<1>4. ConnectionTypeOK'
    BY <1>1, <1>2, <1>3, DecodeTypes, ConnectionAssumption DEF ConnectionTypeOK, ConnectionInv, IInv
<1>5. /\ BufferInv' /\ EndsUpTo(Offset)' = EndsUpTo(Offset) \cup {Offset'}
      /\ Offset' \notin EndsUpTo(Offset)
    BY <1>1, <1>2, DecodeStep, DecodeTypes DEF ConnectionInv
<1>6. RepliesInv'
  <2>1. session = "open" /\ replies \in Seq([id : 0 .. (TransactionIds - 1), status : {"ok", "error"}])
    BY <1>1, DecodeTypes DEF ConnectionInv, ConnectionTypeOK
  <2>2. IsFiniteSet(EndsUpTo(Offset)) /\ Offset \in Int
    <3>1. Offset \in Int
      BY DEF Offset, ConnectionInv, ConnectionTypeOK, TypeOK
    <3>2. IsFiniteSet(1 .. Offset) /\ EndsUpTo(Offset) \in SUBSET (1 .. Offset)
      BY <3>1, FS_Interval DEF EndsUpTo
    <3> QED
      BY <3>1, <3>2, FS_Subset
  <2>3. Cardinality(EndsUpTo(Offset) \cup {Offset'}) = Cardinality(EndsUpTo(Offset)) + 1
    BY <1>5, <2>2, FS_AddElement
  <2>4. Len(replies) = Cardinality(EndsUpTo(Offset)) /\ \A i \in 1 .. Len(replies) : replies[i].status = "ok"
    BY <2>1 DEF ConnectionInv, RepliesInv
  <2>5. Len(replies') = Cardinality(EndsUpTo(Offset)')
    BY <1>3, <1>5, <2>3, <2>4
  <2>6. ASSUME NEW i \in 1 .. Len(replies')
        PROVE  replies'[i].status = "ok"
    <3>1. Len(replies) \in Nat /\ Len(replies') = Len(replies) + 1
      BY <1>3, <2>1, LenProperties
    <3>2. CASE i = Len(replies')
      BY <1>3, <3>2
    <3>3. CASE i # Len(replies')
      <4>1. i \in 1 .. Len(replies)
        BY <3>1, <3>3
      <4>2. replies'[i] = replies[i]
        BY <1>3, <4>1, Zenon
      <4> QED
        BY <2>4, <4>1, <4>2, Zenon
    <3> QED
      BY <3>2, <3>3
  <2> QED
    BY <2>5, <2>6 DEF RepliesInv
<1>7. SessionInv' /\ FreshInv'
    BY <1>1, <1>2, DecodeTypes DEF ConnectionInv, SessionInv, FreshInv, HasSocket
<1> QED
    BY <1>3, <1>4, <1>5, <1>6, <1>7 DEF ConnectionInv

\* When the listener is done with a connection, only what the chip is doing
\* still matters.
LEMMA EndOfSession ==
    ASSUME ConnectionInv, IInv', ConnectionTypeOK',
           session' = "none", conn_sock_num' = MAX_SOCK_NUM,
           HasSocket, sock_num_' = sock_num_, pc' # "OnConnect",
           sr'[sock_num_] \notin UnannouncedStatus
    PROVE  ConnectionInv'
BY DEF ConnectionInv, SessionInv, FreshInv, BufferInv, RepliesInv, HasSocket

\* A closing or closed socket has no connection to announce.
LEMMA ClosedIsAnnounced ==
    ASSUME NEW status \in ClosingStatus \cup {"CLOSED"}
    PROVE  status \notin UnannouncedStatus
BY DEF ClosingStatus, UnannouncedStatus

\* OnCanRead that closes the connection adds a last response.
LEMMA OnCanReadClosesStep ==
    ASSUME ConnectionInv, OnCanReadCloses, IInv'
    PROVE  ConnectionInv'
<1>1. PICK result :
        /\ Decode(result) /\ result.status \in {"ok", "error"}
        /\ ListenerCloses(ReadSize)
        /\ OnStartDecoding
        /\ request_id' = StartedId
        /\ Reply(StartedId, result.status)
        /\ decoder_status' = "kDecoded"
        /\ conn_sock_num' = MAX_SOCK_NUM
    BY Zenon DEF OnCanReadCloses
<1>2. session' = "none" /\ pc' = "DetectDisconnect" /\ UNCHANGED sock_num_
    BY <1>1 DEF ListenerCloses
<1>3. replies' \in Seq([id : 0 .. (TransactionIds - 1), status : {"ok", "error"}])
    BY <1>1, DecodeTypes, ReplyFacts DEF ConnectionInv
<1>4. ConnectionTypeOK'
    BY <1>1, <1>3, DecodeTypes, SocketsFacts DEF ConnectionTypeOK, ConnectionInv, IInv
<1>5. sr'[sock_num_] \notin UnannouncedStatus
    BY <1>2, ClosedIsAnnounced DEF IInv, DetectInv
<1> QED
    BY <1>1, <1>2, <1>3, <1>4, <1>5, DecodeTypes, EndOfSession

\* OnHalfClosed closes the connection, perhaps with an error response.
LEMMA OnHalfClosedStep ==
    ASSUME ConnectionInv, OnHalfClosed, IInv'
    PROVE  ConnectionInv'
<1>1. /\ pc = "OnHalfClosed" /\ conn_sock_num' = MAX_SOCK_NUM
      /\ replies' = replies \/ Reply(request_id, "error")
      /\ session' = "none" /\ pc' = "DetectDisconnect"
      /\ UNCHANGED <<between_requests_, input_buffer_, decoder_status, request_id,
                     server_transaction_id_, stream, theirs, sock_num_>>
    BY DEF OnHalfClosed, ListenerCloses
<1>2. HasSocket
    BY <1>1 DEF ConnectionInv, IInv, BoundWhenNeeded
<1>3. replies' \in Seq([id : 0 .. (TransactionIds - 1), status : {"ok", "error"}])
  <2>1. CASE replies' = replies
    BY <2>1 DEF ConnectionInv, ConnectionTypeOK
  <2>2. CASE Reply(request_id, "error")
    <3>1. request_id \in 0 .. (TransactionIds - 1)
      BY DEF ConnectionInv, ConnectionTypeOK
    <3> QED
      BY <2>2, <3>1, ReplyFacts DEF ConnectionInv
  <2> QED
    BY <1>1, <2>1, <2>2
<1>4. ConnectionTypeOK'
    BY <1>1, <1>3, SocketsFacts DEF ConnectionTypeOK, ConnectionInv, IInv
<1>5. sr'[sock_num_] \notin UnannouncedStatus
    BY <1>1, ClosedIsAnnounced DEF IInv, DetectInv
<1> QED
    BY <1>1, <1>2, <1>3, <1>4, <1>5, EndOfSession

\* OnDisconnect forgets the socket.
LEMMA OnDisconnectStep ==
    ASSUME ConnectionInv, OnDisconnect, IInv'
    PROVE  ConnectionInv'
<1>1. /\ pc = "OnDisconnect" /\ conn_sock_num' = MAX_SOCK_NUM
      /\ session' = "none" /\ pc' = "idle"
      /\ UNCHANGED <<between_requests_, input_buffer_, decoder_status, request_id,
                     server_transaction_id_, stream, replies, theirs, sock_num_, sr>>
    BY DEF OnDisconnect, ListenerDisconnected
<1>2. HasSocket /\ sr[sock_num_] = "CLOSED"
    BY <1>1 DEF ConnectionInv, IInv, BoundWhenNeeded, OnDisconnectInv
<1>3. ConnectionTypeOK'
    BY <1>1, SocketsFacts DEF ConnectionTypeOK, ConnectionInv, IInv
<1>4. sr'[sock_num_] \notin UnannouncedStatus
    BY <1>1, <1>2, ClosedIsAnnounced
<1> QED
    BY <1>1, <1>2, <1>3, <1>4, EndOfSession

\* One step of any kind.
LEMMA ConnectionInvStep ==
    ~FastHandshake /\ ConnectionInv /\ [ConnectionNext]_allvars => ConnectionInv'
<1> SUFFICES ASSUME ~FastHandshake, ConnectionInv, [ConnectionNext]_allvars
             PROVE  ConnectionInv'
    OBVIOUS
<1>1. IInv'
    BY ConnectionStepIsSocketStep, BoundStep DEF ConnectionInv
<1>2. CASE UNCHANGED allvars
  <2>1. /\ UNCHANGED <<sr, rx, sock_num_, session, pc, replies, stream, theirs>>
        /\ UNCHANGED <<conn_sock_num, between_requests_, input_buffer_, decoder_status, request_id,
                       server_transaction_id_>>
    BY <1>2 DEF allvars, vars, connection
  <2>2. /\ FreshInv' /\ stream' \in Seq(Byte) /\ theirs' \in Seq(0 .. (TransactionIds - 1))
        /\ server_transaction_id_' \in 0 .. (TransactionIds - 1)
    BY <2>1 DEF ConnectionInv, FreshInv, HasSocket, ConnectionTypeOK
  <2> QED
    BY <1>1, <2>1, <2>2, QuietStep
<1> QED
    BY <1>1, <1>2, SendStep, PollStepInv, OtherStepInv, OtherConnectionStep, OnConnectStep, OnCanReadNothingStep,
       OnCanReadNeedsMoreStep, OnCanReadDecodedStep, OnCanReadClosesStep, OnHalfClosedStep,
       OnDisconnectStep
       DEF ConnectionNext, ServerConnectionStep
-----------------------------------------------------------------------------
(***************************************************************************)
(* The theorems.                                                             *)
(***************************************************************************)

\* The invariant behind the others.
LEMMA ConnectionInvariance == ASSUME ~FastHandshake PROVE ConnectionSpec => []ConnectionInv
<1>1. ConnectionInv /\ [ConnectionNext]_allvars => ConnectionInv'
    BY ConnectionInvStep
<1> QED
    BY ConnectionInitInv, <1>1, PTL DEF ConnectionSpec

\* The buffer is never overrun and ids stay in their range.
THEOREM ConnectionTypeCorrect == ASSUME ~FastHandshake PROVE ConnectionSpec => []ConnectionTypeOK
<1>1. ConnectionInv => ConnectionTypeOK
    BY DEF ConnectionInv
<1> QED
    BY ConnectionInvariance, <1>1, PTL

\* The DCHECKs of ServerConnection's methods hold whenever ServerSocket calls
\* them.
THEOREM ConnectionChecks == ASSUME ~FastHandshake PROVE ConnectionSpec => []ListenerChecks
<1>1. ConnectionInv => ListenerChecks
    BY DEF ConnectionInv, IInv, CallInv, OnDisconnectInv, SessionInv, ListenerChecks
<1> QED
    BY ConnectionInvariance, <1>1, PTL

\* What ServerConnection has buffered, and what the chip holds for it, is the
\* end of what this peer has sent.
THEOREM ConnectionBuffersOwnBytes ==
    ASSUME ~FastHandshake PROVE ConnectionSpec => []NothingForeignBuffered
<1>1. ConnectionInv => NothingForeignBuffered
  <2> SUFFICES ASSUME ConnectionInv, session = "open"
               PROVE  IsSuffix(input_buffer_ \o rx, stream)
    BY DEF NothingForeignBuffered
  <2>1. /\ input_buffer_ \in Seq(Byte) /\ rx \in Seq(Byte) /\ stream \in Seq(Byte)
        /\ Len(rx) \in Nat /\ Len(input_buffer_) \in Nat /\ Len(stream) \in Nat
    BY DEF ConnectionInv, ConnectionTypeOK, TypeOK
  <2>2. /\ Offset \in Nat /\ Offset = Len(stream) - (Len(input_buffer_) + Len(rx))
        /\ \A i \in 1 .. Len(input_buffer_) : input_buffer_[i] = stream[Offset + i]
        /\ \A i \in 1 .. Len(rx) : rx[i] = stream[Offset + Len(input_buffer_) + i]
    BY <2>1 DEF ConnectionInv, BufferInv, Offset
  <2> DEFINE buffered == input_buffer_ \o rx
  <2>3. /\ buffered \in Seq(Byte) /\ Len(buffered) = Len(input_buffer_) + Len(rx)
        /\ \A i \in 1 .. Len(input_buffer_) + Len(rx) :
               buffered[i] = IF i <= Len(input_buffer_) THEN input_buffer_[i]
                             ELSE rx[i - Len(input_buffer_)]
    BY <2>1, ConcatProperties
  <2> HIDE DEF buffered
  <2>4. ASSUME NEW i \in 1 .. Len(buffered) PROVE buffered[i] = stream[Offset + i]
    <3>1. CASE i <= Len(input_buffer_)
      <4>1. i \in 1 .. Len(input_buffer_) /\ buffered[i] = input_buffer_[i]
        BY <2>1, <2>3, <3>1
      <4> QED
        BY <4>1, <2>2
    <3>2. CASE i > Len(input_buffer_)
      <4>1. i - Len(input_buffer_) \in 1 .. Len(rx) /\ buffered[i] = rx[i - Len(input_buffer_)]
        BY <2>1, <2>3, <3>2
      <4>2. Offset + Len(input_buffer_) + (i - Len(input_buffer_)) = Offset + i
        BY <2>1, <2>2
      <4>3. rx[i - Len(input_buffer_)] =
                stream[Offset + Len(input_buffer_) + (i - Len(input_buffer_))]
        BY <4>1, <2>2
      <4> QED
        BY <4>1, <4>2, <4>3
    <3> QED
      BY <2>1, <2>3, <3>1, <3>2
  <2>5. Len(buffered) <= Len(stream) /\ Len(stream) - Len(buffered) = Offset
    BY <2>1, <2>2, <2>3
  <2>6. IsSuffix(buffered, stream)
    BY <2>1, <2>3, <2>4, <2>5, SuffixByPlace
  <2> QED
    BY <2>6 DEF buffered
<1> QED
    BY ConnectionInvariance, <1>1, PTL

\* While a connection is open, OnCanRead has answered each request that it has
\* consumed, once and with "ok".
THEOREM ConnectionAnswersOnce ==
    ASSUME ~FastHandshake PROVE ConnectionSpec => []OneReplyPerRequest
<1>1. ConnectionInv => OneReplyPerRequest
  <2> SUFFICES ASSUME ConnectionInv, session = "open"
               PROVE  /\ \A i \in DOMAIN replies : replies[i].status = "ok"
                      /\ Len(replies) = Cardinality(Ends(Consumed))
    BY DEF OneReplyPerRequest
  <2>1. /\ stream \in Seq(Byte) /\ Offset \in Nat /\ Offset <= Len(stream)
        /\ DOMAIN replies = 1 .. Len(replies)
    BY DEF ConnectionInv, ConnectionTypeOK, TypeOK, BufferInv, Offset
  <2>2. Consumed = SubSeq(stream, 1, Offset)
    BY DEF Consumed, Offset
  <2>3. /\ DOMAIN Consumed = 1 .. Offset
        /\ \A i \in 1 .. Offset : Consumed[i] = stream[i]
    BY <2>1, <2>2
  <2>4. Ends(Consumed) = EndsUpTo(Offset)
    BY <2>3 DEF Ends, EndsUpTo
  <2> QED
    BY <2>1, <2>4 DEF ConnectionInv, RepliesInv
<1> QED
    BY ConnectionInvariance, <1>1, PTL

-----------------------------------------------------------------------------
(***************************************************************************)
(* The transaction ids, which all connections of the server draw from one    *)
(* counter.  The argument counts: an id that was drawn n draws ago is the    *)
(* counter's value less n, around the end of the range.                      *)
(***************************************************************************)

\* How long ago an id was drawn, by the value of the counter now.
Age(counter, id) == IF id <= counter THEN counter - id ELSE counter + TransactionIds - id

\* The ids that the connection and the others have drawn since it opened, at
\* most: some responses are written without one.
Drawn == Len(replies) + Len(theirs) + (IF decoder_status = "kDecoding" THEN 1 ELSE 0)

\* Until the counter has gone round, these ids are recent and different.
RecentIds ==
    /\ \A i \in 1 .. Len(replies) :
           replies[i].status = "ok" => Age(server_transaction_id_, replies[i].id) < Drawn
    /\ \A j \in 1 .. Len(theirs) : Age(server_transaction_id_, theirs[j]) < Drawn
    /\ decoder_status = "kDecoding" => Age(server_transaction_id_, request_id) < Drawn

DifferentIds ==
    /\ \A i \in 1 .. Len(replies) : replies[i].status = "ok" =>
           /\ \A j \in 1 .. (i - 1) : replies[j].status = "ok" => replies[j].id # replies[i].id
           /\ \A j \in 1 .. Len(theirs) : theirs[j] # replies[i].id
           /\ decoder_status = "kDecoding" => request_id # replies[i].id
    /\ decoder_status = "kDecoding" => \A j \in 1 .. Len(theirs) : theirs[j] # request_id

IdsInv == Drawn <= TransactionIds => RecentIds /\ DifferentIds

\* The types that the argument needs.
IdTypes ==
    /\ Len(replies) \in Nat /\ Len(theirs) \in Nat
    /\ \A i \in 1 .. Len(replies) : replies[i].id \in 0 .. (TransactionIds - 1)
    /\ \A j \in 1 .. Len(theirs) : theirs[j] \in 0 .. (TransactionIds - 1)
    /\ request_id \in 0 .. (TransactionIds - 1)
    /\ server_transaction_id_ \in 0 .. (TransactionIds - 1)

LEMMA IdsTyped == ConnectionTypeOK => IdTypes
<1> SUFFICES ASSUME ConnectionTypeOK PROVE IdTypes
    OBVIOUS
<1> DEFINE R == [id : 0 .. (TransactionIds - 1), status : {"ok", "error"}]
<1>1. replies \in Seq(R) /\ theirs \in Seq(0 .. (TransactionIds - 1))
    BY DEF ConnectionTypeOK
<1>2. \A x \in R : x.id \in 0 .. (TransactionIds - 1)
    OBVIOUS
<1>3. Len(theirs) \in Nat /\ \A j \in 1 .. Len(theirs) : theirs[j] \in 0 .. (TransactionIds - 1)
    BY <1>1, ElementOfSeq, LenProperties
<1> HIDE DEF R
<1>4. Len(replies) \in Nat /\ \A i \in 1 .. Len(replies) : replies[i] \in R
    BY <1>1, ElementOfSeq, LenProperties
<1> QED
    BY <1>2, <1>3, <1>4 DEF IdTypes, ConnectionTypeOK

\* A draw makes every id one draw older and returns none that is younger than
\* the whole range.
LEMMA NextAge ==
    ASSUME NEW c \in 0 .. (TransactionIds - 1)
    PROVE  /\ Age((c + 1) % TransactionIds, (c + 1) % TransactionIds) = 0
           /\ \A id \in 0 .. (TransactionIds - 1) :
                  /\ Age(c, id) \in Nat
                  /\ Age(c, id) < TransactionIds - 1 =>
                         /\ Age((c + 1) % TransactionIds, id) = Age(c, id) + 1
                         /\ id # (c + 1) % TransactionIds
<1>1. TransactionIds \in Nat /\ TransactionIds > 0
    BY ConnectionAssumption
<1>2. (c + 1) % TransactionIds = IF c = TransactionIds - 1 THEN 0 ELSE c + 1
  <2>1. CASE c = TransactionIds - 1
    BY <1>1, <2>1
  <2>2. CASE c # TransactionIds - 1
    <3>1. c + 1 \in 0 .. (TransactionIds - 1)
      BY <1>1, <2>2
    <3> QED
      BY <1>1, <2>2, <3>1
  <2> QED
    BY <2>1, <2>2
<1> DEFINE d == (c + 1) % TransactionIds
<1>3. d = IF c = TransactionIds - 1 THEN 0 ELSE c + 1
    BY <1>2
<1> HIDE DEF d
<1>4. /\ Age(d, d) = 0
      /\ \A id \in 0 .. (TransactionIds - 1) :
             /\ Age(c, id) \in Nat
             /\ Age(c, id) < TransactionIds - 1 => Age(d, id) = Age(c, id) + 1 /\ id # d
    BY <1>1, <1>3 DEF Age
<1> QED
    BY <1>4 DEF d

\* Steps that draw no id and write no response.
LEMMA IdsKept ==
    ASSUME IdsInv,
           UNCHANGED <<replies, theirs, decoder_status, request_id, server_transaction_id_>>
    PROVE  IdsInv'
BY DEF IdsInv, RecentIds, DifferentIds, Drawn

\* A draw: the ids so far become older, and the new one is not among them.
LEMMA IdDrawn ==
    ASSUME ConnectionTypeOK, IdsInv, Drawn + 1 <= TransactionIds
    PROVE  /\ Age(NextId, NextId) = 0
           /\ \A i \in 1 .. Len(replies) : replies[i].status = "ok" =>
                  Age(NextId, replies[i].id) < Drawn + 1 /\ replies[i].id # NextId
           /\ \A j \in 1 .. Len(theirs) :
                  Age(NextId, theirs[j]) < Drawn + 1 /\ theirs[j] # NextId
           /\ decoder_status = "kDecoding" =>
                  Age(NextId, request_id) < Drawn + 1 /\ request_id # NextId
<1>1. IdTypes
    BY IdsTyped
<1>2. Drawn \in Nat /\ TransactionIds \in Nat /\ Drawn <= TransactionIds
    BY <1>1, ConnectionAssumption DEF IdTypes, Drawn
<1>3. RecentIds
    BY <1>2 DEF IdsInv
<1>4. /\ Age(NextId, NextId) = 0
      /\ \A id \in 0 .. (TransactionIds - 1) :
             Age(server_transaction_id_, id) < Drawn =>
                 Age(NextId, id) < Drawn + 1 /\ id # NextId
  <2>1. server_transaction_id_ \in 0 .. (TransactionIds - 1)
    BY <1>1 DEF IdTypes
  <2> HIDE DEF Age, Drawn
  <2>2. /\ Age(NextId, NextId) = 0
        /\ \A id \in 0 .. (TransactionIds - 1) :
               /\ Age(server_transaction_id_, id) \in Nat
               /\ Age(server_transaction_id_, id) < TransactionIds - 1 =>
                      /\ Age(NextId, id) = Age(server_transaction_id_, id) + 1
                      /\ id # NextId
    BY <2>1, NextAge DEF NextId
  <2> QED
    BY <1>2, <2>2
<1> QED
    BY <1>1, <1>3, <1>4 DEF IdTypes, RecentIds

\* Another connection draws an id.
LEMMA IdsOther ==
    ASSUME ConnectionTypeOK, IdsInv, OtherConnectionStarts
    PROVE  IdsInv'
<1>1. IdTypes
    BY IdsTyped
<1>2. /\ UNCHANGED <<replies, decoder_status, request_id>> /\ server_transaction_id_' = NextId
      /\ theirs \in Seq(0 .. (TransactionIds - 1)) /\ theirs' = Append(theirs, NextId)
      /\ NextId \in 0 .. (TransactionIds - 1)
    BY NextIdInRange DEF OtherConnectionStarts, ConnectionTypeOK
<1>3. /\ Len(theirs') = Len(theirs) + 1 /\ theirs'[Len(theirs) + 1] = NextId
      /\ \A j \in 1 .. Len(theirs) : theirs'[j] = theirs[j]
    BY <1>2, AppendProperties
<1>4. Drawn' = Drawn + 1 /\ Drawn \in Nat
    BY <1>1, <1>2, <1>3 DEF Drawn, IdTypes
<1> SUFFICES ASSUME Drawn + 1 <= TransactionIds PROVE RecentIds' /\ DifferentIds'
    BY <1>4 DEF IdsInv
<1>5. \A j \in 1 .. Len(theirs') : j \in 1 .. Len(theirs) \/ j = Len(theirs) + 1
    BY <1>1, <1>3 DEF IdTypes
<1>6. DifferentIds
    BY <1>4, ConnectionAssumption DEF IdsInv
<1>7. RecentIds'
  <2> HIDE DEF Drawn, Age
  <2> QED
    BY <1>2, <1>3, <1>4, <1>5, IdDrawn DEF RecentIds
<1>8. DifferentIds'
    BY <1>2, <1>3, <1>5, <1>6, IdDrawn DEF DifferentIds
<1> QED
    BY <1>7, <1>8

\* A response is written, with the id of the request, which is drawn now or was
\* drawn when its first byte was decoded.
LEMMA IdsReply ==
    ASSUME ConnectionTypeOK, IdsInv, NEW status \in {"ok", "error"},
           Reply(StartedId, status), OnStartDecoding, theirs' = theirs,
           decoder_status \in {"kReset", "kDecoding"}, decoder_status' # "kDecoding"
    PROVE  IdsInv'
<1>1. IdTypes /\ StartedId \in 0 .. (TransactionIds - 1)
    BY IdsTyped, StartedFacts
<1>2. /\ Len(replies') = Len(replies) + 1 /\ Len(replies) \in Nat
      /\ replies'[Len(replies) + 1] = [id |-> StartedId, status |-> status]
      /\ \A i \in 1 .. Len(replies) : replies'[i] = replies[i]
    BY <1>1, ReplyFacts
<1>3. \A i \in 1 .. Len(replies') : i \in 1 .. Len(replies) \/ i = Len(replies) + 1
    BY <1>2
<1>4. \A i \in 1 .. Len(replies) : 1 .. (i - 1) \subseteq 1 .. Len(replies)
    BY <1>2
<1>5. 1 .. ((Len(replies) + 1) - 1) = 1 .. Len(replies)
    BY <1>2
<1>6. /\ replies'[Len(replies) + 1].id = StartedId
    BY <1>2
<1>7. CASE decoder_status = "kReset"
  <2>1. StartedId = NextId /\ server_transaction_id_' = NextId
    BY <1>7 DEF StartedId, OnStartDecoding
  <2>2. Drawn' = Drawn + 1 /\ Drawn \in Nat
    BY <1>1, <1>2, <1>7 DEF Drawn, IdTypes
  <2> SUFFICES ASSUME Drawn + 1 <= TransactionIds PROVE RecentIds' /\ DifferentIds'
    BY <2>2 DEF IdsInv
  <2>3. DifferentIds
    BY <2>2, ConnectionAssumption DEF IdsInv
  <2>4. RecentIds'
    <3> HIDE DEF Drawn, Age
    <3> QED
      BY <1>2, <1>3, <1>6, <2>1, <2>2, IdDrawn DEF RecentIds
  <2>5. DifferentIds'
    BY <1>2, <1>3, <1>4, <1>5, <1>6, <2>1, <2>3, IdDrawn DEF DifferentIds
  <2> QED
    BY <2>4, <2>5
<1>8. CASE decoder_status = "kDecoding"
  <2>1. StartedId = request_id /\ server_transaction_id_' = server_transaction_id_
    BY <1>8 DEF StartedId, OnStartDecoding
  <2>2. Drawn' = Drawn
    BY <1>1, <1>2, <1>8 DEF Drawn, IdTypes
  <2> SUFFICES ASSUME Drawn <= TransactionIds PROVE RecentIds' /\ DifferentIds'
    BY <2>2 DEF IdsInv
  <2>3. RecentIds /\ DifferentIds
    BY DEF IdsInv
  <2>4. RecentIds'
    <3> HIDE DEF Drawn, Age
    <3> QED
      BY <1>2, <1>3, <1>6, <1>8, <2>1, <2>2, <2>3 DEF RecentIds
  <2>5. DifferentIds'
    BY <1>2, <1>3, <1>4, <1>5, <1>6, <1>8, <2>1, <2>3 DEF DifferentIds
  <2> QED
    BY <2>4, <2>5
<1> QED
    BY <1>7, <1>8

\* A request is begun, or continued, without being complete.
LEMMA IdsNeedsMore ==
    ASSUME ConnectionTypeOK, IdsInv, OnStartDecoding, UNCHANGED <<replies, theirs>>,
           request_id' = StartedId,
           decoder_status \in {"kReset", "kDecoding"}, decoder_status' = "kDecoding"
    PROVE  IdsInv'
<1>1. IdTypes
    BY IdsTyped
<1>2. CASE decoder_status = "kReset"
  <2>1. request_id' = NextId /\ server_transaction_id_' = NextId
    BY <1>2 DEF StartedId, OnStartDecoding
  <2>2. Drawn' = Drawn + 1 /\ Drawn \in Nat
    BY <1>1, <1>2 DEF Drawn, IdTypes
  <2> SUFFICES ASSUME Drawn + 1 <= TransactionIds PROVE RecentIds' /\ DifferentIds'
    BY <2>2 DEF IdsInv
  <2>3. DifferentIds
    BY <2>2, ConnectionAssumption DEF IdsInv
  <2>4. RecentIds'
    <3> HIDE DEF Drawn, Age
    <3> QED
      BY <2>1, <2>2, IdDrawn DEF RecentIds
  <2>5. DifferentIds'
    BY <2>1, <2>3, IdDrawn DEF DifferentIds
  <2> QED
    BY <2>4, <2>5
<1>3. CASE decoder_status = "kDecoding"
    BY <1>3, IdsKept DEF StartedId, OnStartDecoding
<1> QED
    BY <1>2, <1>3

\* The error response to half a request carries no id.
LEMMA IdsHalfClosed ==
    ASSUME ConnectionTypeOK, IdsInv, OnHalfClosed
    PROVE  IdsInv'
<1>1. /\ replies' = replies \/ Reply(request_id, "error")
      /\ UNCHANGED <<decoder_status, request_id, server_transaction_id_, theirs>>
    BY DEF OnHalfClosed
<1>2. CASE replies' = replies
    BY <1>1, <1>2, IdsKept
<1>3. CASE Reply(request_id, "error")
  <2>1. IdTypes
    BY IdsTyped
  <2>2. /\ Len(replies') = Len(replies) + 1 /\ Len(replies) \in Nat
        /\ replies'[Len(replies) + 1] = [id |-> request_id, status |-> "error"]
        /\ \A i \in 1 .. Len(replies) : replies'[i] = replies[i]
    BY <1>3, <2>1, ReplyFacts DEF IdTypes
  <2>3. \A i \in 1 .. Len(replies') : replies'[i].status = "ok" => i \in 1 .. Len(replies)
    BY <2>2
  <2>4. \A i \in 1 .. Len(replies) : 1 .. (i - 1) \subseteq 1 .. Len(replies)
    BY <2>2
  <2>5. Drawn' = Drawn + 1 /\ Drawn \in Nat
    BY <1>1, <2>1, <2>2 DEF Drawn, IdTypes
  <2> SUFFICES ASSUME Drawn + 1 <= TransactionIds PROVE RecentIds' /\ DifferentIds'
    BY <2>5 DEF IdsInv
  <2>6. RecentIds /\ DifferentIds
    BY <2>5, ConnectionAssumption DEF IdsInv
  <2>7. \A id \in 0 .. (TransactionIds - 1) : Age(server_transaction_id_, id) \in Nat
    BY <2>1, NextAge DEF IdTypes
  <2>8. RecentIds'
    <3> HIDE DEF Drawn, Age
    <3>1. \A n \in Nat : n < Drawn => n < Drawn'
      BY <2>5
    <3>2. \A id \in 0 .. (TransactionIds - 1) :
              Age(server_transaction_id_, id) < Drawn => Age(server_transaction_id_', id) < Drawn'
      BY <1>1, <2>7, <3>1
    <3>3. \A i \in 1 .. Len(replies') : replies'[i].status = "ok" =>
              Age(server_transaction_id_', replies'[i].id) < Drawn'
      BY <2>1, <2>2, <2>3, <2>6, <3>2 DEF RecentIds, IdTypes
    <3>4. \A j \in 1 .. Len(theirs') : Age(server_transaction_id_', theirs'[j]) < Drawn'
      BY <1>1, <2>1, <2>6, <3>2 DEF RecentIds, IdTypes
    <3>5. decoder_status' = "kDecoding" => Age(server_transaction_id_', request_id') < Drawn'
      BY <1>1, <2>1, <2>6, <3>2 DEF RecentIds, IdTypes
    <3> QED
      BY <3>3, <3>4, <3>5 DEF RecentIds
  <2>9. DifferentIds'
    BY <1>1, <2>2, <2>3, <2>4, <2>6 DEF DifferentIds
  <2> QED
    BY <2>8, <2>9
<1> QED
    BY <1>1, <1>2, <1>3

LEMMA IdsStep ==
    ConnectionInv /\ IdsInv /\ [ConnectionNext]_allvars => IdsInv'
<1> SUFFICES ASSUME ConnectionInv, IdsInv, [ConnectionNext]_allvars PROVE IdsInv'
    OBVIOUS
<1>1. ConnectionTypeOK
    BY DEF ConnectionInv
<1>2. CASE \/ \E byte \in Byte : Send(byte)
           \/ PollStep \/ OtherStep \/ OnCanReadNothing \/ OnDisconnect \/ UNCHANGED allvars
    BY <1>2, IdsKept
       DEF Send, PollStep, OtherStep, OnCanReadNothing, OnDisconnect, connection, allvars
<1>3. CASE OnConnect
  <2>1. replies' = << >> /\ theirs' = << >> /\ decoder_status' = "kReset"
    BY <1>3 DEF OnConnect
  <2> QED
    BY <2>1 DEF IdsInv, RecentIds, DifferentIds
<1>4. CASE OnCanReadNeedsMore
  <2>1. PICK result : /\ Decode(result) /\ OnStartDecoding /\ request_id' = StartedId
                      /\ decoder_status' = "kDecoding" /\ replies' = replies
    BY <1>4, Zenon DEF OnCanReadNeedsMore
  <2> QED
    BY <1>1, <2>1, DecodeTypes, IdsNeedsMore
<1>5. CASE OnCanReadDecoded
  <2>1. PICK result : /\ Decode(result) /\ OnStartDecoding /\ Reply(StartedId, "ok")
                      /\ decoder_status' = "kReset"
    BY <1>5, Zenon DEF OnCanReadDecoded
  <2> QED
    BY <1>1, <2>1, DecodeTypes, IdsReply
<1>6. CASE OnCanReadCloses
  <2>1. PICK result : /\ Decode(result) /\ result.status \in {"ok", "error"}
                      /\ OnStartDecoding /\ Reply(StartedId, result.status)
                      /\ decoder_status' = "kDecoded"
    BY <1>6, Zenon DEF OnCanReadCloses
  <2> QED
    BY <1>1, <2>1, DecodeTypes, IdsReply
<1>7. CASE OnHalfClosed
    BY <1>1, <1>7, IdsHalfClosed
<1>8. CASE OtherConnectionStarts
    BY <1>1, <1>8, IdsOther
<1> QED
    BY <1>2, <1>3, <1>4, <1>5, <1>6, <1>7, <1>8 DEF ConnectionNext, ServerConnectionStep

\* However many connections draw ids meanwhile, the "ok" responses of a
\* connection carry ids that differ from each other and from the others', until
\* the counter has gone round.
THEOREM ConnectionIdsUnique ==
    ASSUME ~FastHandshake PROVE ConnectionSpec => []UniqueIds
<1>1. ConnectionInit => IdsInv
  <2> SUFFICES ASSUME ConnectionInit PROVE RecentIds /\ DifferentIds
    BY DEF IdsInv
  <2>1. replies = << >> /\ theirs = << >> /\ decoder_status = "kReset"
    BY DEF ConnectionInit
  <2> QED
    BY <2>1 DEF RecentIds, DifferentIds
<1>2. ConnectionInv /\ IdsInv => UniqueIds
  <2> SUFFICES ASSUME ConnectionInv, IdsInv, Len(replies) + Len(theirs) < TransactionIds
               PROVE  \A i \in DOMAIN replies : replies[i].status = "ok" =>
                        /\ \A j \in 1 .. (i - 1) :
                               replies[j].status = "ok" => replies[j].id # replies[i].id
                        /\ \A j \in DOMAIN theirs : theirs[j] # replies[i].id
    BY DEF UniqueIds
  <2>1. IdTypes /\ DOMAIN replies = 1 .. Len(replies) /\ DOMAIN theirs = 1 .. Len(theirs)
    BY IdsTyped DEF ConnectionInv, ConnectionTypeOK
  <2>2. Drawn <= TransactionIds
    BY <2>1, ConnectionAssumption DEF Drawn, IdTypes
  <2> QED
    BY <2>1, <2>2 DEF IdsInv, DifferentIds
<1> QED
    BY ConnectionInvariance, IdsStep, <1>1, <1>2, PTL DEF ConnectionSpec

\* A ServerSocketAndConnection implements the ServerSocket with an arbitrary
\* listener: what is proved of that one holds of the composition.
THEOREM ConnectionImplementsSocket == ASSUME ~FastHandshake PROVE ConnectionSpec => Spec
<1>1. ConnectionInit => Init
    BY DEF ConnectionInit
<1>2. ConnectionTypeOK /\ [ConnectionNext]_allvars => [Next]_vars
    BY ConnectionStepIsSocketStep DEF BoundNext, Next, Owner
<1> QED
    BY ConnectionTypeCorrect, <1>1, <1>2, PTL DEF ConnectionSpec, Spec
=============================================================================
