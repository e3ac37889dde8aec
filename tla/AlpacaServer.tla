------------------------------ MODULE AlpacaServer ------------------------------
(***************************************************************************)
(* From a decoded request to what its client reads: TinyAlpacaServerBase     *)
(* (src/tiny_alpaca_server.cpp) hands the request to its handler, the        *)
(* handler's reply is printed by WriteResponse into the write buffer of the  *)
(* connection (src/utils/connection.cpp), which is flushed to the chip, and  *)
(* the client reads the text back.  What the text of a response is, and how  *)
(* a client reads it, are parameters here: module Response has them.         *)
(*                                                                           *)
(* The server handles one request at a time, from PerformIO; phase says how  *)
(* far it is with the current one.  What happens concurrently: the peer      *)
(* closes its side or the connection breaks, and the client reads.           *)
(***************************************************************************)
EXTENDS Devices

CONSTANTS
    TextOf(_, _),       \* the text that WriteResponse prints for a request and a
                        \* reply, a sequence of strings
    ResponsesIn(_, _),  \* the complete responses, at most one, that a text starts
                        \* with for a client that sent this method; its field
                        \* beyond is the text that is left
    IsTo(_, _),         \* whether a response is the one to an answer, a request
                        \* with its reply
    Requests,           \* what clients send, as decoded
    ErrorStatuses,      \* results of the decoder for what is not a request
    DeviceInfos,        \* of devices_, in order
    write_buffer_limit_,
    TxSize,             \* size of the buffer of the chip from which it sends
    WriteSizes,         \* how much client().write takes of what it is given
    TransactionIds,     \* how many there are: 2^32 for uint32_t
    Pipelined           \* bound: the methods that a client calls one after the
                        \* other without reading the first response

ASSUME ServerAssumption ==
    /\ write_buffer_limit_ \in Nat \ {0}
    /\ TxSize \in Nat
    /\ WriteSizes \subseteq 1 .. TxSize /\ WriteSizes # {}
    /\ TransactionIds \in Nat \ {0}

\* The parameters that are read below have their type in AlpacaRequest.
ASSUME RequestsAssumption ==
    \A r \in Requests :
        /\ Has(r, "Brightness") => /\ r.params.Brightness \in Int
                                   /\ -UInt32Values <= 2 * r.params.Brightness
                                   /\ 2 * r.params.Brightness < UInt32Values
        /\ Has(r, "State") => r.params.State \in BOOLEAN

VARIABLES
    server_transaction_id_,
    phase,              \* "idle", "print", "write", "check", "done"
    closes,             \* the connection is closed after this response
    printing,           \* text of the response that is not yet in the buffer
    write_buffer_,
    write_error,        \* of the Connection
    link,               \* "connected": connected() and can be written to;
                        \* "halfclosed": can be written to; "closed"
    wire,               \* text that the chip was given and the client has not read
    held,               \* how much of the end of it still occupies the chip's buffer
    unread,             \* what was replied and not read by the client
    written             \* what accepted requests set, for the properties

connection == <<closes, printing, write_buffer_, write_error>>
vars == <<devices, reply, server_transaction_id_, phase, connection, link, wire, held,
          unread, written>>
-----------------------------------------------------------------------------
(* The write buffer *)

\* Mutant: the buffer is full when it holds more than fits.
BufferFullLate(buffer) == Len(buffer) > write_buffer_limit_

\* FlushIfFull.
BufferFull(buffer) == Len(buffer) >= write_buffer_limit_

\* The end of flush: whatever the buffer has left is gone.
Flushed ==
    /\ write_buffer_' = << >>
    /\ phase' = IF printing' = << >> THEN "done" ELSE "print"

\* write(buf, size), as much as there is room for, and the flush that follows if
\* the buffer is full or, from close or the destructor, the response complete.
Write ==
    /\ phase = "print"
    /\ LET room == write_buffer_limit_ - Len(write_buffer_)
           n == IF room < Len(printing) THEN room ELSE Len(printing)
           filled == write_buffer_ \o SubSeq(printing, 1, n)
       IN  /\ printing' = SubSeq(printing, n + 1, Len(printing))
           /\ IF ~BufferFull(filled) /\ printing' # << >>
                THEN write_buffer_' = filled /\ UNCHANGED phase
              ELSE IF write_error \/ link # "connected"
                THEN Flushed
              ELSE write_buffer_' = filled /\ phase' = "write"
    /\ UNCHANGED <<devices, reply, server_transaction_id_, closes, write_error, link,
                   wire, held, unread, written>>

\* Mutant: the cursor is not moved.
ClientWriteFromStart ==
    /\ phase = "write" /\ link # "closed"
    /\ \E size \in WriteSizes :
           LET wrote == IF size < Len(write_buffer_) THEN size ELSE Len(write_buffer_)
           IN  /\ held + wrote <= TxSize
               /\ held' = held + wrote
               /\ wire' = wire \o SubSeq(write_buffer_, 1, wrote)
               /\ write_buffer_' = SubSeq(write_buffer_, 1, Len(write_buffer_) - wrote)
    /\ phase' = "check"
    /\ UNCHANGED <<devices, reply, server_transaction_id_, closes, printing,
                   write_error, link, unread, written>>

\* client().write in the loop of flush.  It takes as much as it means to take, and
\* it blocks until the chip has room for that, unless the connection is gone: then
\* it takes nothing.  The buffer has what is at and after the cursor.
ClientWrite ==
    /\ phase = "write" /\ link # "closed"
    /\ \E size \in WriteSizes :
           LET wrote == IF size < Len(write_buffer_) THEN size ELSE Len(write_buffer_)
           IN  /\ held + wrote <= TxSize
               /\ held' = held + wrote
               /\ wire' = wire \o SubSeq(write_buffer_, 1, wrote)
               /\ write_buffer_' = SubSeq(write_buffer_, wrote + 1, Len(write_buffer_))
    /\ phase' = "check"
    /\ UNCHANGED <<devices, reply, server_transaction_id_, closes, printing,
                   write_error, link, unread, written>>

ClientWriteFails ==
    /\ phase = "write" /\ link = "closed"
    /\ write_error' = TRUE
    /\ UNCHANGED printing /\ Flushed
    /\ UNCHANGED <<devices, reply, server_transaction_id_, closes, link, wire, held,
                   unread, written>>

\* client().connected() after a write.
CheckConnected ==
    /\ phase = "check"
    /\ write_error' = (write_error \/ link # "connected")
    /\ UNCHANGED printing
    /\ IF write_error' \/ write_buffer_ = << >>
         THEN Flushed
         ELSE phase' = "write" /\ UNCHANGED write_buffer_
    /\ UNCHANGED <<devices, reply, server_transaction_id_, closes, link, wire, held,
                   unread, written>>

\* Without a connection the chip holds nothing for the peer.
HeldFor(later) == IF later = "closed" THEN 0 ELSE held

\* The Connection goes away, and its write error with it; the listener may have
\* called its close.
Done ==
    /\ phase = "done"
    /\ phase' = "idle"
    /\ write_error' = FALSE
    /\ link' = IF closes THEN "closed" ELSE link
    /\ held' = HeldFor(link')
    /\ closes' = FALSE
    /\ reply' = OkReply
    /\ UNCHANGED <<devices, server_transaction_id_, printing, write_buffer_, wire,
                   unread, written>>

\* ServerConnection::OnHalfClosed, between two requests.
OnHalfClosed ==
    /\ phase = "idle" /\ link = "halfclosed"
    /\ link' = "closed" /\ held' = 0
    /\ UNCHANGED <<devices, reply, server_transaction_id_, phase, connection, wire,
                   unread, written>>
-----------------------------------------------------------------------------
(* TinyAlpacaServerBase *)

\* The first device with the type and number of the request.
Addressed(request) ==
    {i \in DOMAIN DeviceInfos :
        /\ DeviceInfos[i].device_type = request.device_type
        /\ DeviceInfos[i].device_number = request.device_number}
FirstAddressed(request) ==
    DeviceInfos[CHOOSE i \in Addressed(request) : \A j \in Addressed(request) : i <= j]

\* AlpacaDevices::DispatchDeviceRequest.
DispatchDeviceRequest(request) ==
    IF Addressed(request) = {}
      THEN reply' = HttpErrorReply(400, <<"Unknown device">>) /\ UNCHANGED devices
    ELSE IF request.api = "kDeviceApi"
      THEN HandleDeviceApiRequest(request, FirstAddressed(request))
    ELSE /\ reply' = HtmlReply(<<"Device Setup">> \o FirstAddressed(request).name)
         /\ UNCHANGED devices

\* DeviceInfo::AddTo.
DeviceInfoObject(info) ==
    [object |-> Property("DeviceName", [string |-> info.name])
                \o Property("DeviceType", Text(info.device_type))
                \o Property("DeviceNumber", [int |-> info.device_number])
                \o Property("UniqueID", Text(info.unique_id))]

\* The apis that no device is concerned with.
ServerReply(api) ==
    CASE api = "kManagementApiVersions" -> ValueReply([array |-> <<[int |-> 1]>>])
      [] api = "kManagementDescription" ->
             ValueReply([object |-> Property("ServerName", Text("Server"))
                                    \o Property("Manufacturer", Text("Manufacturer"))
                                    \o Property("ManufacturerVersion", Text("1"))
                                    \o Property("Location", Text("Location"))])
      [] api = "kManagementConfiguredDevices" ->
             ValueReply([array |-> [i \in DOMAIN DeviceInfos |->
                                       DeviceInfoObject(DeviceInfos[i])]])
      [] api = "kServerSetup" -> HtmlReply(<<"No setup">>)
      [] OTHER -> HttpErrorReply(500, <<"Unknown API">>)

\* What an accepted request asks for.
Wanted(request) ==
    IF request.api # "kDeviceApi" \/ request.http_method # "PUT" \/ IsError(reply')
      THEN written
    ELSE CASE request.method = "CalibratorOn"  ->
                  [written EXCEPT !.on = TRUE, !.brightness = request.params.Brightness]
           [] request.method = "CalibratorOff" ->
                  [written EXCEPT !.on = FALSE, !.brightness = 0]
           [] request.method = "SetSwitch" ->
                  [written EXCEPT !.switch[request.params.Id] = request.params.State]
           [] request.method = "SetSwitchValue" ->
                  [written EXCEPT !.switch[request.params.Id] = request.params.Value >= 1]
           [] OTHER -> written

NextId == (server_transaction_id_ + 1) % TransactionIds

\* A new Connection prints the response.
StartResponse(request) ==
    /\ phase' = "print"
    /\ printing' = TextOf(request, reply')
    /\ closes' = Closes(request, reply')
    /\ unread' = Append(unread, [request |-> request, reply |-> reply'])
    /\ server_transaction_id_' = NextId
    /\ UNCHANGED <<write_buffer_, write_error, link, wire, held>>

Ready == phase = "idle" /\ link = "connected"

OnRequestDecoded(r) ==
    /\ Ready
    /\ unread = << >> \/ (Len(unread) = 1 /\ {unread[1].request.method, r.method} \subseteq Pipelined)
    /\ IF r.api \in {"kDeviceApi", "kDeviceSetup"}
         THEN DispatchDeviceRequest(r)
         ELSE reply' = ServerReply(r.api) /\ UNCHANGED devices
    /\ StartResponse([server_transaction_id |-> NextId] @@ r)
    /\ written' = Wanted(r)

\* The status is all that is said; the text is empty.
OnRequestDecodingError(status) ==
    /\ Ready
    /\ unread = << >>
    /\ reply' = HttpErrorReply(status, << >>)
    /\ StartResponse([http_method |-> "kUnknown", do_close |-> TRUE, params |-> << >>])
    /\ UNCHANGED <<devices, written>>

\* PerformIO calls MaintainDevices before it turns to the sockets.  It is done
\* here only when the next request could tell: the pipelined ones cannot.
Maintain ==
    /\ Ready /\ unread = << >>
    /\ MaintainDevices
    /\ UNCHANGED <<server_transaction_id_, phase, connection, link, wire, held, unread,
                   written>>
-----------------------------------------------------------------------------
(* Peers *)

\* The connection is half-closed by the peer, or breaks.  Done does not look at
\* the link: there the failure may as well come after it.
LinkFails ==
    /\ phase # "done"
    /\ link' \in CASE link = "connected"  -> {"halfclosed", "closed"}
                   [] link = "halfclosed" -> {"closed"}
                   [] link = "closed"     -> {}
    /\ held' = HeldFor(link')
    /\ UNCHANGED <<devices, reply, server_transaction_id_, phase, connection, wire,
                   unread, written>>

ClientConnects ==
    /\ phase = "idle" /\ link = "closed"
    /\ link' = "connected"
    /\ wire' = << >>
    /\ unread' = << >>
    /\ UNCHANGED <<devices, reply, server_transaction_id_, phase, connection, held, written>>

ReadBy(text, answer) == ResponsesIn(text, answer.request.http_method)

\* What the chip holds arrives at the peer, and the chip has room for more.  It is
\* up to the peer when it takes the text, and whether it does.
ClientReceives ==
    /\ held > 0
    /\ held' = 0
    /\ UNCHANGED <<devices, reply, server_transaction_id_, phase, connection, link,
                   wire, unread, written>>

\* The client takes a complete response, all of which has arrived, off the stream.
ClientReads ==
    /\ unread # << >>
    /\ \E response \in ReadBy(wire, unread[1]) :
           Len(response.beyond) >= held /\ wire' = response.beyond
    /\ unread' = Tail(unread)
    /\ UNCHANGED <<devices, reply, server_transaction_id_, phase, connection, link,
                   held, written>>

ConnectionStep ==
    Write \/ ClientWrite \/ ClientWriteFails \/ CheckConnected \/ Done
    \/ OnHalfClosed

Init ==
    /\ DevicesInit
    /\ server_transaction_id_ = 0
    /\ phase = "idle"
    /\ closes = FALSE
    /\ printing = << >> /\ write_buffer_ = << >>
    /\ write_error = FALSE
    /\ link = "closed"
    /\ wire = << >> /\ held = 0
    /\ unread = << >>
    /\ written = [on |-> FALSE, brightness |-> 0, switch |-> [id \in Switches |-> TRUE]]

Next ==
    \/ \E r \in Requests : OnRequestDecoded(r)
    \/ \E status \in ErrorStatuses : OnRequestDecodingError(status)
    \/ Maintain
    \/ ConnectionStep
    \/ LinkFails
    \/ ClientConnects
    \/ ClientReceives
    \/ ClientReads

Spec == Init /\ [][Next]_vars

\* The server goes on with the response it is writing.
FairSpec == Spec /\ WF_vars(ConnectionStep)
-----------------------------------------------------------------------------
(***************************************************************************)
(* Properties                                                                *)
(***************************************************************************)

Printout(answer) == TextOf(answer.request, answer.reply)

\* No part of the text of an answer is taken for a response, and the whole of it
\* for the response to this answer, also if one of these texts follows in part.
Framed(answer, following) ==
    LET printout == Printout(answer)
    IN  /\ printout \in Seq(STRING)
        /\ \A n \in 0 .. (Len(printout) - 1) :
               ReadBy(SubSeq(printout, 1, n), answer) = {}
        /\ \A text \in following : \A n \in 0 .. Len(text) :
               LET responses == ReadBy(printout \o SubSeq(text, 1, n), answer)
               IN  /\ responses # {}
                   /\ \A response \in responses :
                          IsTo(response, answer) /\ response.beyond = SubSeq(text, 1, n)

AllFramed ==
    \A i \in DOMAIN unread :
        Framed(unread[i], {<< >>} \union {Printout(unread[j]) : j \in (i + 1) .. Len(unread)})

\* What is printed for a request can be told apart on the stream, with the status,
\* the transaction ids and the value or error that the handler gave: the lines of
\* the header, Content-Length and the JSON of the body, which are printed in
\* separate passes, agree with each other.
ResponsesFramed ==
    phase = "print" /\ link = "connected" /\ printing = Printout(unread[Len(unread)])
        => AllFramed

\* However the text is cut into writes and wherever they fail, the client reads
\* its answers in order, each as it was given.  What it cannot read yet is the
\* last one, while it is being written or once the connection has failed: a
\* response that flush has dropped in part is never followed by another.  (This
\* is about the first unread answer; that it holds again after ClientReads makes
\* it true of the ones behind.)
ClientInStep ==
    IF unread = << >> THEN wire = << >>
    ELSE LET responses == ReadBy(wire, unread[1])
         IN  /\ \A response \in responses : IsTo(response, unread[1])
             /\ responses = {} => Len(unread) = 1 /\ (phase # "idle" \/ link # "connected")

\* What the getters report is what the accepted requests have set, whichever
\* device they were sent to, although the switches set the brightness again.
ReadsBack ==
    /\ calibrator_on_ = written.on
    /\ brightness_ = written.brightness
    /\ \A id \in Jumpers : GetLedChannelEnabled(id) = written.switch[id]

\* A response that was begun is ended, so that the next device and socket get
\* their turn, provided that the peer goes on taking what the chip has for it, or
\* the connection is gone.  The proviso is needed: a peer that keeps its connection
\* and takes nothing blocks client().write, and with it the whole server.
ResponsesEnd == []<>(held = 0) => ((phase = "print") ~> (phase = "idle"))
=============================================================================
