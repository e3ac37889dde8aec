---------------------------- MODULE ServerConnection ----------------------------
(***************************************************************************)
(* A ServerSocketAndConnection: the ServerSocket of module ServerSocket with *)
(* the listener it has in this server, a ServerConnection                    *)
(* (src/server_connection.cpp), and the RequestListener behind that one      *)
(* (src/tiny_alpaca_server.cpp).  The other connections of the server appear *)
(* as far as they share its counter of transaction ids.                      *)
(*                                                                           *)
(* A byte is abstracted to what it completes for the request decoder:        *)
(*   "p"  nothing: it waits in the buffer for the rest of its token;         *)
(*   "t"  a token, with which all bytes so far are consumed;                 *)
(*   "e"  a valid request, with no body;                                     *)
(*   "b"  a valid request, as the last byte of the body of a PUT;            *)
(*   "x"  a request that the decoder rejects at this byte.                   *)
(***************************************************************************)
EXTENDS ServerSocket, SequencesExt

CONSTANTS
    InputBufferSize,    \* SERVER_CONNECTION_INPUT_BUFFER_SIZE
    TransactionIds,     \* how many there are: 2^32 for uint32_t
    MaxStream,          \* bound: bytes sent on one connection
    MaxOthers           \* bound: requests of other connections meanwhile

ASSUME ConnectionAssumption ==
    /\ Byte \subseteq {"p", "t", "e", "b", "x"}
    /\ InputBufferSize \in Nat \ {0}
    /\ TransactionIds \in Nat \ {0}
    /\ MaxStream \in Nat
    /\ MaxOthers \in Nat

VARIABLES
    conn_sock_num,          \* ServerConnection::sock_num_
    between_requests_,
    input_buffer_,
    decoder_status,         \* of request_decoder_
    request_id,             \* request_.server_transaction_id; 0 when reset
    server_transaction_id_, \* of the server, for all its connections
    \* What has happened on the current connection, for the properties:
    stream,                 \* the bytes that the peer has sent
    replies,                \* the responses written, in order
    theirs                  \* the ids that other connections have drawn since

connection == <<conn_sock_num, between_requests_, input_buffer_, decoder_status,
                request_id, server_transaction_id_>>
allvars == <<vars, connection, stream, replies, theirs>>

ConnectionTypeOK ==
    /\ TypeOK
    /\ conn_sock_num \in 0 .. MAX_SOCK_NUM
    /\ between_requests_ \in BOOLEAN
    /\ input_buffer_ \in Seq(Byte) /\ Len(input_buffer_) <= InputBufferSize
    /\ decoder_status \in {"kReset", "kDecoding", "kDecoded"}
    /\ request_id \in 0 .. (TransactionIds - 1)
    /\ server_transaction_id_ \in 0 .. (TransactionIds - 1)
    /\ stream \in Seq(Byte)
    /\ replies \in Seq([id : 0 .. (TransactionIds - 1), status : {"ok", "error"}])
    /\ theirs \in Seq(0 .. (TransactionIds - 1))
-----------------------------------------------------------------------------
(***************************************************************************)
(* RequestDecoder::DecodeBuffer: how much of the buffer is consumed and with *)
(* which result.                                                             *)
(***************************************************************************)
Ends(buffer) == {i \in DOMAIN buffer : buffer[i] \in {"e", "b", "x"}}
\* The number of bytes of the first request in the buffer, 0 if incomplete.
FirstEnd(buffer) ==
    IF Ends(buffer) = {} THEN 0
    ELSE CHOOSE i \in Ends(buffer) : \A j \in Ends(buffer) : i <= j
LastToken(buffer) ==
    IF \E i \in DOMAIN buffer : buffer[i] = "t"
      THEN CHOOSE i \in DOMAIN buffer :
               buffer[i] = "t" /\ \A j \in (i + 1) .. Len(buffer) : buffer[j] # "t"
      ELSE 0

\* A PUT is rejected if the bytes of another request follow its body: the
\* decoder compares what is in the buffer with Content-Length.  Without a
\* complete request the decoder needs more input, which is an error if the
\* buffer is full and nothing in it was consumed.  at_end_of_input is never
\* true: peer_half_closed tests the number of the socket, not its status.
DecodeBuffer(buffer, buffer_is_full) ==
    LET end == FirstEnd(buffer)
    IN  IF end > 0
          THEN [used |-> end,
                status |-> IF buffer[end] = "e" \/ (buffer[end] = "b" /\ end = Len(buffer))
                             THEN "ok" ELSE "error"]
          ELSE [used |-> LastToken(buffer),
                status |-> IF buffer_is_full /\ LastToken(buffer) = 0
                             THEN "error" ELSE "more"]
-----------------------------------------------------------------------------
\* Mutant: the bytes left by the last connection stay in the buffer.
OnConnectKeepsBuffer ==
    /\ pc = "OnConnect"
    /\ ListenerKeeps(0)
    /\ conn_sock_num' = sock_num_
    /\ decoder_status' = "kReset"
    /\ request_id' = 0
    /\ between_requests_' = TRUE
    /\ replies' = << >>
    /\ theirs' = << >>
    /\ UNCHANGED <<input_buffer_, server_transaction_id_, stream>>

\* ServerConnection::OnConnect, called by AnnounceConnected.
OnConnect ==
    /\ pc = "OnConnect"
    /\ ListenerKeeps(0)
    /\ conn_sock_num' = sock_num_
    /\ decoder_status' = "kReset"
    /\ request_id' = 0
    /\ between_requests_' = TRUE
    /\ input_buffer_' = << >>
    /\ replies' = << >>
    /\ theirs' = << >>
    /\ UNCHANGED <<server_transaction_id_, stream>>

\* Connection::read into the room that input_buffer_ has.
ReadSize ==
    LET room == InputBufferSize - Len(input_buffer_)
    IN  IF Len(rx) < room THEN Len(rx) ELSE room

\* Mutant: nothing is decoded unless something was read.
LoadedOnlyIfRead ==
    IF ReadSize = 0 THEN << >> ELSE input_buffer_ \o SubSeq(rx, 1, ReadSize)

Loaded == input_buffer_ \o SubSeq(rx, 1, ReadSize)

\* ++server_transaction_id_.
NextId == (server_transaction_id_ + 1) % TransactionIds

\* Mutant: the id is taken from the server when the response is written.
StartedIdOfServer == IF decoder_status = "kReset" THEN NextId ELSE server_transaction_id_

\* OnStartDecoding: the first byte of a request draws a transaction id.
StartedId == IF decoder_status = "kReset" THEN NextId ELSE request_id
OnStartDecoding ==
    server_transaction_id_' =
        IF decoder_status = "kReset" THEN StartedId ELSE server_transaction_id_

Reply(id, status) == replies' = Append(replies, [id |-> id, status |-> status])

\* OnCanRead without anything to decode.
OnCanReadNothing ==
    /\ pc = "OnCanRead"
    /\ Loaded = << >>
    /\ ListenerKeeps(0)
    /\ UNCHANGED <<connection, stream, replies, theirs>>

\* Mutant: the undecoded bytes are not moved to the front of the buffer.
DecodeWithoutMove(result) ==
    /\ pc = "OnCanRead"
    /\ Loaded # << >>
    /\ result = DecodeBuffer(Loaded, Len(Loaded) = InputBufferSize)
    /\ input_buffer_' = SubSeq(Loaded, 1, Len(Loaded) - result.used)
    /\ between_requests_' =
           \/ result.status = "ok" /\ input_buffer_' = << >>
           \/ ReadSize = 0 /\ between_requests_
    /\ UNCHANGED <<stream, theirs>>

\* The part of OnCanRead up to the result of the decoder.
Decode(result) ==
    /\ pc = "OnCanRead"
    /\ Loaded # << >>
    /\ result = DecodeBuffer(Loaded, Len(Loaded) = InputBufferSize)
    /\ input_buffer_' = SubSeq(Loaded, result.used + 1, Len(Loaded))
    /\ between_requests_' =
           \/ result.status = "ok" /\ input_buffer_' = << >>
           \/ ReadSize = 0 /\ between_requests_
    /\ UNCHANGED <<stream, theirs>>

OnCanReadNeedsMore ==
    \E result \in {DecodeBuffer(Loaded, Len(Loaded) = InputBufferSize)} :
        /\ Decode(result)
        /\ result.status = "more"
        /\ ListenerKeeps(ReadSize)
        /\ OnStartDecoding
        /\ request_id' = StartedId
        /\ decoder_status' = "kDecoding"
        /\ UNCHANGED <<conn_sock_num, replies>>

\* OnRequestDecoded writes the response; true: keep the connection, and Reset
\* the decoder, which clears the id of the request.
OnCanReadDecoded ==
    \E result \in {DecodeBuffer(Loaded, Len(Loaded) = InputBufferSize)} :
        /\ Decode(result)
        /\ result.status = "ok"
        /\ ListenerKeeps(ReadSize)
        /\ OnStartDecoding
        /\ Reply(StartedId, "ok")
        /\ request_id' = 0
        /\ decoder_status' = "kReset"
        /\ UNCHANGED conn_sock_num

\* The request is answered and the connection closed: either the response
\* demands it (OnRequestDecoded returned false) or it is an error.
OnCanReadCloses ==
    \E result \in {DecodeBuffer(Loaded, Len(Loaded) = InputBufferSize)} :
        /\ Decode(result)
        /\ result.status \in {"ok", "error"}
        /\ ListenerCloses(ReadSize)
        /\ OnStartDecoding
        /\ request_id' = StartedId
        /\ Reply(StartedId, result.status)
        /\ decoder_status' = "kDecoded"
        /\ conn_sock_num' = MAX_SOCK_NUM

\* Mutant: the socket number is not forgotten.
OnHalfClosedKeepsSocket ==
    /\ pc = "OnHalfClosed"
    /\ ListenerCloses(0)
    /\ IF between_requests_ THEN UNCHANGED replies ELSE Reply(request_id, "error")
    /\ UNCHANGED <<connection, stream, theirs>>

\* ServerConnection::OnHalfClosed.
OnHalfClosed ==
    /\ pc = "OnHalfClosed"
    /\ ListenerCloses(0)
    /\ IF between_requests_ THEN UNCHANGED replies ELSE Reply(request_id, "error")
    /\ conn_sock_num' = MAX_SOCK_NUM
    /\ UNCHANGED <<between_requests_, input_buffer_, decoder_status, request_id,
                   server_transaction_id_, stream, theirs>>

\* ServerConnection::OnDisconnect.
OnDisconnect ==
    /\ ListenerDisconnected
    /\ conn_sock_num' = MAX_SOCK_NUM
    /\ UNCHANGED <<between_requests_, input_buffer_, decoder_status, request_id,
                   server_transaction_id_, stream, replies, theirs>>
-----------------------------------------------------------------------------
\* The peer's bytes, recorded; a new listener starts a new stream.
Send(byte) ==
    /\ PeerSend(byte)
    /\ Len(stream) < MaxStream
    /\ stream' = Append(stream, byte)
    /\ UNCHANGED <<connection, replies, theirs>>

\* A step of PerformIO outside the listener's calls.  The chip's receive buffer
\* is empty, and a new stream starts, when it is set up to listen.
PollStep ==
    /\ PerformIO
    /\ stream' = IF pc' = "ListenStatus" THEN << >> ELSE stream
    /\ UNCHANGED <<connection, replies, theirs>>

\* ServerSocketAndConnection::Initialize, and what surrounds the server.
OtherStep ==
    /\ ChipMove \/ Tick \/ PickClosedSocket \/ \E s \in Sockets : OtherUse(s)
    /\ UNCHANGED <<connection, stream, replies, theirs>>

\* Between two polls of this socket the server polls the others: one of their
\* decoders sees the first byte of a request and calls OnStartDecoding.
OtherConnectionStarts ==
    /\ pc = "idle"
    /\ Len(theirs) < MaxOthers
    /\ server_transaction_id_' = NextId
    /\ theirs' = Append(theirs, NextId)
    /\ UNCHANGED <<vars, conn_sock_num, between_requests_, input_buffer_,
                   decoder_status, request_id, stream, replies>>

ServerConnectionStep ==
    \/ OnConnect \/ OnCanReadNothing \/ OnCanReadNeedsMore \/ OnCanReadDecoded
    \/ OnCanReadCloses \/ OnHalfClosed \/ OnDisconnect

ConnectionInit ==
    /\ Init
    /\ conn_sock_num = MAX_SOCK_NUM
    /\ between_requests_ = FALSE
    /\ input_buffer_ = << >>
    /\ decoder_status = "kReset"
    /\ request_id = 0
    /\ server_transaction_id_ = 0
    /\ stream = << >>
    /\ replies = << >>
    /\ theirs = << >>

ConnectionNext ==
    \/ \E byte \in Byte : Send(byte)
    \/ PollStep
    \/ OtherStep
    \/ OtherConnectionStarts
    \/ ServerConnectionStep

ConnectionSpec == ConnectionInit /\ [][ConnectionNext]_allvars

ConnectionFairness ==
    /\ WF_allvars(PollStep)
    /\ WF_allvars(ServerConnectionStep)

FairConnectionSpec == ConnectionSpec /\ ConnectionFairness
-----------------------------------------------------------------------------
(***************************************************************************)
(* Properties                                                                *)
(***************************************************************************)

\* The DCHECKs at the start of the listener's methods hold: OnConnect is called
\* without a socket, the others with the socket that is calling, and OnCanRead
\* with a decoder that is ready for input.  They are compiled out on the
\* device, where OnCanRead would go on with a decoder that has no function.
ListenerChecks ==
    /\ pc = "OnConnect" => conn_sock_num = MAX_SOCK_NUM
    /\ pc \in {"OnCanRead", "OnHalfClosed", "OnDisconnect"} => conn_sock_num = sock_num_
    /\ pc = "OnCanRead" => decoder_status \in {"kReset", "kDecoding"}

\* While the connection is open, what waits in input_buffer_ and in the chip is
\* the end of what this peer has sent on this connection: nothing is left over
\* from an earlier one, and no byte is lost, repeated or reordered.
NothingForeignBuffered ==
    session = "open" /\ pc # "OnDisconnect" => IsSuffix(input_buffer_ \o rx, stream)

\* The part of the stream that is neither in the buffer nor in the chip.
Consumed == SubSeq(stream, 1, Len(stream) - Len(input_buffer_) - Len(rx))

\* While a connection is open, each request consumed has had exactly one
\* response, each of them "ok", and none was answered with an error: an error
\* response ends the connection.
OneReplyPerRequest ==
    session = "open" =>
        /\ \A i \in DOMAIN replies : replies[i].status = "ok"
        /\ Len(replies) = Cardinality(Ends(Consumed))

\* A transaction id identifies a request although all connections of the
\* server draw from one counter and requests finish in another order than they
\* started: until the counter has gone round, no two "ok" responses of a
\* connection carry the same id, and none carries an id that a request on
\* another connection has drawn since this one opened.  (Error responses carry
\* no id.)
UniqueIds ==
    Len(replies) + Len(theirs) < TransactionIds =>
        \A i \in DOMAIN replies : replies[i].status = "ok" =>
            /\ \A j \in 1 .. (i - 1) :
                   replies[j].status = "ok" => replies[j].id # replies[i].id
            /\ \A j \in DOMAIN theirs : theirs[j] # replies[i].id

\* A complete request that has reached the chip or the input buffer is
\* answered if the connection stays established, also when it came together
\* with an earlier one, and no further byte arrives to wake the server.  (The
\* bytes of a connection are bounded, so later requests cannot hide one that is
\* never answered.)
Unanswered ==
    /\ session = "open" /\ sr[sock_num_] = "ESTABLISHED"
    /\ Len(replies) < Cardinality(Ends(stream))
RequestsAreAnswered == Unanswered ~> ~Unanswered

\* "We've read some data but haven't been able to decode a complete request":
\* what server_connection.cpp says of an error response sent when the peer has
\* half-closed.
HalfCloseErrorIsIncomplete ==
    pc = "OnHalfClosed" /\ ~between_requests_ => Ends(input_buffer_) = {}
=============================================================================
