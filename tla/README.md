# Tiny Alpaca Server: specifications and proofs

Tiny Alpaca Server is an HTTP server for Arduino boards with a WIZnet W5500
network chip. It serves the ASCOM Alpaca protocol: it listens on several TCP
hardware sockets, decodes HTTP requests as they trickle in, dispatches them to
devices, and writes JSON responses. Everything runs in one `loop()`, but the
chip and its peers act on the sockets at any moment, also in the middle of a
poll, and each hardware socket, decoder and request object is reused for every
connection, for years.

Paths below are relative to the repository, whose code is in `src/`.

## Inventory

| part | state | operations | what makes it correct |
|---|---|---|---|
| `ServerSocket` (`src/utils/server_socket.cpp`) | bound socket, `last_status_`, disconnect data | `PickClosedSocket`, `PerformIO`, `ReleaseSocket`; `TcpServerConnection::close` | tells its listener of every connection once, in order; gets back to listening whatever happens |
| `SocketListener` (`src/utils/socket_listener.h`) | none | `OnConnect`, `OnCanRead`, `OnHalfClosed`, `OnDisconnect` | the contract between the two |
| `PlatformEthernet` (`src/utils/platform_ethernet.cpp`) | the chip's registers | status reads, LISTEN, DISCON, CLOSE | |
| `ServerConnection` (`src/server_connection.cpp`) | input buffer, `between_requests_`, decoder, request | the four listener methods | one response per request; nothing moves between requests or connections |
| `RequestDecoder` (`src/request_decoder.cpp`, `src/match_literals.cpp`) | decode function, flags, remaining length | `Reset`, `DecodeBuffer` | the result does not depend on how TCP cuts the text |
| `AlpacaRequest` (`src/alpaca_request.cpp`) | fields and `have_` bits | `Reset`, setters | holds what the last request said, and nothing older |
| `TinyAlpacaServer` (`src/tiny_alpaca_server.cpp`) | transaction id, devices | `OnStartDecoding`, `OnRequestDecoded`, `OnRequestDecodingError` | an id per request, an answer per request |
| `ServerSocketsAndConnections` (`src/server_sockets_and_connections.cpp`) | array of servers | `Initialize`, `PerformIO` | all its sockets serve, whatever borrowed them meanwhile |
| `AlpacaDevices` (`src/alpaca_devices.cpp`) | the list of devices | `Initialize`, dispatch, `MaintainDevices` | an address names one device |
| device adapters and example devices (`src/device_types`, `examples/CoverCalibrator`, `examples/AM_WeatherBox`) | switches, brightness, sensors | one handler per method | what is set is what is reported; errors change nothing |
| `WriteResponse`, header, JSON encoder (`src/alpaca_response.cpp`, `src/utils/json_encoder.cpp`) | none | count, then print | `Content-Length` is the length of the body; the text parses to the value |
| write buffer (`src/utils/connection.cpp`) | buffer, write error | `write`, `flush` | bytes in order, or an error and nothing more |
| `AlpacaDiscoveryServer` and its client (`extras/client/alpaca_discovery.py`) | UDP socket; threads and queues | `PerformIO`; `perform_discovery` | requests are answered; the client ends with all responses handled |
| `Addresses`, EEPROM, `IpDevice` (`src/utils`) | stored addresses with a CRC, lease | load, generate, save, bring up | never accepts a torn save; a server keeps its address |
| host emulation (`extras/host/ethernet3`) | descriptors per emulated socket | listen, accept, status, disconnect | behaves as the chip; leaks nothing |
| number and period conversions (`string_view.cpp`, `avr_timer_counter.cpp`) | none | `to_uint32` ..., `From...` | nothing wraps |
| `CoverCalibrator` example | motor, LED channels | commands, timer interrupt | stops at its limits, also when an interrupt comes between two steps of a command |
| `BouncySwitch`, `PulseSpacingModulation` sketches | records, motor | loop, interrupt | what the loop reports is what the interrupt did |

How they interact: `loop()` calls `TinyAlpacaServer::PerformIO`, which polls each
`ServerSocket`. That reads the chip and makes at most one call to its listener,
the `ServerConnection`, which reads bytes, feeds the decoder, and calls the
`RequestListener` (the server) with each decoded request; the response is
written through the `Connection` it was given. Within a poll everything is a
synchronous call; the concurrency is with the chip, with a timer or pin
interrupt in three sketches, and between the threads of the discovery client.
The discovery server, DHCP and the servers share the hardware sockets.

What is hard: the status register changes between two reads in one poll; the
peer half-closes with data unread, resets, or vanishes; a close may never
complete; requests arrive in arbitrary pieces or several at once; a write takes
only a part; power fails between two EEPROM cells; datagrams are lost or
duplicated; state is reused without being constructed anew. `PROJECT.json` lists these hazards line by line
with the properties that watch them.

## Modules

| module | models | uses |
|---|---|---|
| `SocketListener` | the contract of `socket_listener.h` as an abstract specification | |
| `ServerSocket` | one `ServerSocket`, its hardware socket, the peer, an arbitrary listener | refines `SocketListener` |
| `ServerConnection` | a `ServerSocketAndConnection`: `ServerSocket` with the server's own listener | extends `ServerSocket` |
| `RequestDecoder` | `RequestDecoderState` with its `AlpacaRequest` and the input buffer | |
| `RequestGrammar` | reference definition: what a request is and what its decoding should yield | extends `RequestDecoder` |
| `Cover` | the motorized covers with their timer interrupt | |
| `CoverCalibrator` | the cover together with the LED channels | extends `Cover` |
| `Json` | the JSON encoder, and the decoder of the test tools | |
| `Replies` | what a handler hands to `WriteResponse` | |
| `Response` | the text of an HTTP response, printed and read back | extends `Json`, `Replies` |
| `Devices` | handlers and state of the example devices behind their adapters | extends `Replies` |
| `AlpacaServer` | dispatch, write buffer, connection and client together | extends `Devices`; `MCAlpacaServer` adds `Response` |
| `ServerSockets` | several servers, discovery, DHCP on one chip | |
| `Discovery` | the discovery server and the discovery client over a network | extends `ServerSockets` |
| `Addresses` | start-up: EEPROM, address generation, network, lease | |
| `HostSockets` | the emulation of the chip on a host | |
| `Conversions` | numbers in requests, settings of timers | |
| `DeviceList` | the check of the list of devices | |
| `BouncySwitch`, `PulseSpacing` | the two sketches with interrupts | |
| `ServerSocketProofs`, `ServerConnectionProofs`, `RequestDecoderProofs`, `HostSocketsProofs`, `AddressesProofs` | theorems about the module of that name | extend the modules they are about |
| `AlpacaServerProofs`, `NetworkProofs`, `SketchProofs` | theorems about `AlpacaServer` and `DeviceList`; `ServerSockets` and `Discovery`; `CoverCalibrator` and `BouncySwitch` | extend the modules they are about |
| `MC...` | constants for TLC | |

Definitions named `...Unchecked`, `...Stale`, `...NoReset` and the like, marked
"Mutant", are deliberately wrong versions of the definition that follows them.
They are not used by any specification; each shows that a property is able to
fail.

### ServerSocket

`sr` is the status register of each hardware socket, `rx` the chip's receive
buffer for the bound one; `sock_num_`, `last_status_` and `disconnected` are the
program's. `elapsed` is `ElapsedDisconnectTime()`, saturating just past the
limit. `session` is what the listener believes. Since the chip moves by itself,
`PerformIO` is cut wherever it accesses the chip again: `pc` says where it is.
The first read of a poll and everything up to the next access is one action, one
for each branch of the code (`PerformIOBroken`, `PerformIOClosed`, ...,
`DetectCloseTimeout`); then a listener call that keeps or closes the connection
(`ListenerKeeps`, `ListenerCloses`), and the read after it
(`DetectListenerInitiatedDisconnect`). `ChipMoves` lists the status changes that
happen without a command. `UDP` stands for the modes that a TCP socket should
not be in, which the code treats alike; `0x11` for the undocumented statuses.

Abstractions: `close()` reads the status up to three times around its `flush`;
what matters is the status when DISCON is issued, so it is one action.
`Init` leaves `disconnect_data_` undetermined, as the constructor does.

Two constants restrict the surroundings. `FastHandshake` allows a handshake to
complete between the LISTEN command and the status read that follows it.
`ReleaseIn` says in which sessions the owner calls `ReleaseSocket` (nothing in
the repository calls it).

### ServerConnection

A byte is abstracted to what it completes: nothing, a token, a request without
body, a request with body, or an error; `DecodeBuffer` says what the decoder
consumes of a buffer and returns. This is the interface that `RequestDecoder`
models in detail. `stream` and `replies` are history variables: what the peer
sent, and what was answered, on the current connection. The counter of
transaction ids belongs to the server, not to the connection: between two polls
of this socket the decoders of the other sockets draw from it too
(`OtherConnectionStarts`), and `theirs` has the ids they drew since this connection
was opened. `OnCanRead` is one action per outcome. `at_end_of_input` is always false because
`TcpServerConnection::peer_half_closed` passes a socket number where a status is
expected.

### RequestDecoder

Text is a sequence of symbols: delimiters, words of the decoder's vocabulary,
numbers, and `kUnknown` for any other word. The decode functions look at text
only through "where does this run of characters end" and "is it this word", so a
word is never split; sizes are counted in symbols. There is one action per decode
function (the ones that go through `ExtractAndProcessName` share
`NameIncomplete` and `BadTerminator`). Tab is not distinguished from space.
`DecodeBuffer(n)` appends any number of the unsent symbols that fits, which
gives every chunking. A request ends in `pc = "done"`; then the client sends the
next one on the same connection (`NextRequest`) or connects anew (`OnConnect`),
and a connection may be abandoned in mid-request. `is_decoding_start_line`,
which nothing reads, is left out, and so are the listener and extra parameters
that are compiled out on the device. Each vocabulary is represented by enough
words to take every branch.

`RequestGrammar` describes requests as records (method, path, query, version,
headers, body), gives their text and, independently of decoding, the status that
each part deserves: the first part that is wrong determines the result.

### Cover and CoverCalibrator

The only preemption in the repository: the overflow interrupt of Timer/Counter 5
comes between any two instructions of the main loop. `Open`, `Close` and `Halt`
are cut at each access to what they share with it (`interrupt_handler`,
`motor_status_`, `step_count_`, the direction pin, the timer); `pc` names the
next access, `self` and `wanted` are the parameters of the command. A section with
interrupts disabled is one action, and so is the interrupt itself (`StepMotor`,
`HandleInterruptNotMoving`, `InterruptWithoutHandler`). `ResetTimer5` is one
action because its first write disables the interrupt. `Open` and `Close` are the
same code but for the direction and share their actions. The motor may stall: a
pulse moves the cover or does not. Several covers share the timer, as the comment
at `cover.cpp:9` provides for. Any number of interrupts may come in a window,
more than the 100 microseconds between two of them allow. Jumpers are set before
power-on and do not change. `CoverCalibrator` adds the handlers for brightness and
switches, which run in the main loop between commands.

### Json, Response, Devices and AlpacaServer

What happens between a decoded request and its client. `Devices` has one operator
or action for each handler of `DeviceImplBase` and of the three adapters, with the
state of the cover calibrator, its LED switches and the weather box. A handler
sets `reply`, what it hands to `WriteResponse`. `Response` turns a reply into text,
as a sequence of units: a unit is a character with a meaning of its own, or a run
of characters that matters only as a whole. `Content-Length` is computed in a
first pass, as in the code, and the client (`Make`, after the tools with which
the tests read responses) cuts the stream by it and parses the JSON. `Meaning` is
the reference: what the value of the reply should decode to. Control characters
without an escape letter are dropped by the encoder, in `Meaning` too.

`AlpacaServer` puts the text through the write buffer. What the text is and how a
client reads it are its parameters `TextOf`, `ResponsesIn` and `IsTo`, which
`MCAlpacaServer.cfg` sets to the operators of `Response`: the buffer and the
connection do not depend on them, and so can be proved correct without the
recursive encoder and parser. `phase` says how far the
server is with a response: `Write` fills the buffer up to its limit, a flush is
one or more `ClientWrite`s that take a part or fail, and `Done` ends the request
or closes the connection. `held` is how much of the text the chip holds for the peer:
`client().write` loops until there is room for what it means to take
(`extras/host/ethernet3/ethernet_client.h:20-23`), so `ClientWrite` is disabled until the
peer takes some (`ClientReceives`) or the connection is gone. Meanwhile the peer
half-closes, the link fails, and the client reads. Clients pipeline the requests of
`Pipelined`.

### ServerSockets and Discovery

`ServerSockets` reduces each `ServerSocket` to whether its hardware socket is
closed, listens or is in a TCP state, and adds what that module leaves out: the
order of `Initialize`, the discovery server's UDP socket, the socket DHCP takes
while it renews the lease, and the loops of the sketches (`SkipIfLeaseFails`
distinguishes them). Peers act at any time, also while `Initialize` still chooses
sockets. `_server_port` is the library's record of the port of each
socket, which `FindUnusedSocket` does not look at.

`Discovery` adds a buffer of datagrams at the server, and the client: for each
source a receiver thread that puts what arrives into a queue, a worker thread
that moves it to the common queue, and the main thread that hands it to the
handler. `queue.Queue`s are bounded; a `get` with a timeout may find nothing at
any time. Datagrams are lost, duplicated and late.

### Addresses

The EEPROM is a sequence of cells and `save` writes one at a time; power may fail
before each. `Crc32` is computed nibble by nibble with the table of the source, so
that a collision that the real code can have would be found. `last` and `begun`
are history variables: which addresses were used last, and which are in the EEPROM or
were begun to be saved since.

### HostSockets

Each emulated socket has a listening or a connected descriptor, or none; `os` is
what the operating system knows of each descriptor: a reset is an error that one
`recv` reports, the next reads the end of the data. `SocketStatus` peeks twice, so it
takes a connection that was reset for half-closed, where the chip says CLOSED. A call
of the emulation is one action. `reported` is the status a program saw last; `scan` is the position of
`EthernetServer::available`, which goes over the sockets in several calls.

### Conversions, DeviceList, BouncySwitch and PulseSpacing

Four small parts without connection to each other. `Conversions` is a function in
and a result out: the type of a number has 8 bits (with 255 as its greatest
value), a timer has its 16 and the clock its 16 MHz. `IntWidth` is the width of
`int`, 16 on the board. `DeviceList` takes any list of pointers. The two sketches
are cut, like `Cover`, at each access of the loop to what the interrupt shares;
`BouncySwitch` also has the flag that remembers one pending interrupt.

`MCParts` runs these four, `Addresses`, `HostSockets` and `CoverCalibrator` in one
specification, one of the seven in each behaviour: they share nothing.

## Runs

| run | expects | shows |
|---|---|---|
| `server_socket` | pass | the listener contract, safety and liveness of one socket |
| `server_connection` | pass | answers, ids and buffers over all byte streams, beside another connection |
| `request_decoder` | pass | decoding agrees with the grammar for every chunking |
| `alpaca_server` | pass | from the decoded request to what the client parses, with failing and blocking writes |
| `network` | pass | servers, discovery and DHCP on one chip; the discovery client over an unreliable network |
| `parts` | pass | one in each behaviour: covers and LEDs under every interleaving with the interrupt; start-up after power failures at any cell; the emulation of the chip; conversions; the list of devices; two sketches with interrupts |
| `average_period` | violation | `AveragePeriod` survives `Reset` |
| `led_switch` | violation | an LED lit though switched off |
| `cover_steps` | violation | a movement of one step more than its maximum |
| `avr_timer` | violation | with a 16-bit `int`, a long period disables the timer |
| `device_list` | violation | two devices with one address are accepted |
| `shared_socket` | violation | two servers get the same hardware socket |

The properties:

* `LastStatusTracksSession`, `ListenerProtocol`: between polls `last_status_` is
  open exactly while the listener has an open connection; the calls are a
  behaviour of `SocketListener`. `BreakIsReported` is the liveness side.
* `ClosingIsTimed`, `ReturnsToService`: a closing socket can time out, and every
  bound socket gets back to listening.
* `HalfClosedIsDrained`: `OnHalfClosed` only after everything was read.
* `NothingForeignBuffered`, `OneReplyPerRequest`, `UniqueIds`, `ListenerChecks`,
  `RequestsAreAnswered` for a connection: the bytes buffered are the end of this
  connection's stream; requests and responses correspond one to one; until the
  counter has gone round, no two requests have the same transaction id, whether they
  came on this connection or on another; the DCHECKs hold; a request that came with
  another is answered without further input.
* `DecodesAsSent`: the main property of the decoder. `BodyChecks`, `HandsOver`:
  its internal checks (TAS_CHECK stops the device). `EveryRequestGetsResult`: also
  when a token does not fit the buffer.
* `MovingIsDriven`, `OnlyOneMoves`, `StepsLeft`, `StepsAsCommanded`,
  `MotorComesToRest` for the covers: what a cover reports is so, one moves at a
  time, within its steps, where it was told, and in the end all stand with the
  timer off. `OffIsDark` for the LEDs.
* `ResponsesFramed`: no part of the text of a response is taken for a response, and
  the whole is read as the status, ids, value or error that was replied, also with
  part of the next one behind it. It takes count, print, escape and parse to be
  right at once. `ClientInStep`: whatever part of a response each write takes and
  wherever the connection fails, the client reads the responses to its requests in
  order, and only the last may be incomplete.
  `ReadsBack`: the getters of two devices that share the LEDs report what the
  accepted requests set. `ResponsesEnd`: the write loops end, if the peer again and
  again takes what the chip has for it or the connection goes; otherwise
  `client().write`, and with it the whole server, waits for the peer.
* `StoredWhole`, `SameAfterRestart`: a server never starts with half of an old and
  half of a new address, what was saved loads, and the address stays the same until
  a sketch asks for another prefix.
* `DescriptorsHeld`, `LooksLikeTheChip`: each open descriptor belongs to one
  emulated socket; until a socket is set up anew, the statuses that a program sees
  go in the order LISTEN, ESTABLISHED, CLOSE_WAIT, CLOSED and never back.
* `DiscoverySocketKept`, `AllServe`: the discovery server's hardware socket is
  nobody else's, and each server listens again after DHCP had its socket. (This is
  the loop of the sketches that call `PerformIO` whether or not there is a lease;
  `TinyAlpacaServerDemo` does not, and there DHCP may keep the socket for ever.)
  `RequestsAnswered`: a request in the discovery server's buffer is answered, in the
  same loop; of each source the first is watched. `ResponsesHandled`,
  `DiscoveryEnds`: the client returns, also when a queue is full while the main
  thread waits for the thread that fills it, and no response that a receiver took
  is left in a queue. (The datagrams are bounded: against an endless stream of
  them nothing could end.)
* `NumberAsWritten`: the number in a request is the one written or is refused.
  `ListChecked`: a refused list is wrong, and an accepted one has no address twice
  within a run of one type. `EventsAccounted`: what
  the loop prints is what the interrupt saw first (events between the copy of the
  records and the reset are not watched). `MovementReported`: each movement
  ends and its report has the pulses made.
* `DisabledIsDark`, `StepsAllowed`, `PeriodAsAsked`, `AcceptedAreValid`,
  `SocketsDedicated` and, for a repeated `AveragePeriod`, `DecodesAsSent` state what
  comments in the code say and are refuted.

### Further counterexamples

These configurations belong to no run; TLC refutes the property of each, with
`tlc -config <cfg> <module>`.

| cfg | module | property | what the code does |
|---|---|---|---|
| `MCServerSocketFast.cfg` | `MCServerSocket` | `LastStatusTracksSession` | `server_socket.cpp:152` stores the status read after LISTEN; a handshake that completed before is then never announced, though `server_socket.h:17-18` says it is |
| `MCServerConnectionHalfClose.cfg` | `MCServerConnection` | `HalfCloseErrorIsIncomplete` | a complete pipelined request still in `input_buffer_` is answered with 400 when the peer half-closes (`server_connection.cpp:127`) |
| `MCRequestDecoderHead.cfg` | `MCRequestDecoder` | `NoInternalError` | HEAD is accepted by the method decoder and ends in the branch commented "Shouldn't get here" (`request_decoder.cpp:349-351`) |
| `MCRequestDecoderEmptyValue.cfg` | `MCRequestDecoder` | `EmptyBufferEndsLoop` | the debug check at `request_decoder.cpp:1059` fails for the legal body `Action=` |
| `MCCoverCalibratorReversal.cfg` | `MCCoverCalibrator` | `AcceptedCommandMoves` | an interrupt between `motor_status_ = kOpening` (`cover.cpp:210`) and `ResetTimer5` can end the movement that the command is about to start |

### Bounds

* Three hardware sockets (one whose `_server_port` names another port) suffice
  for "none free", "the lowest is taken", "socket 0 is someone else's". A
  receive buffer of two bytes distinguishes none, some and all read. The time
  limit is 2 ticks in `server_socket`, 0 in `server_connection`, where time is
  not the subject.
* `MaxStream` = 3 bytes per connection, an input buffer of 2 and a receive buffer
  of 2: two requests and a part of a third, requests that straddle a read, a
  full buffer with and without progress. The number of connections is not
  bounded. `TransactionIds` = 4 makes the id wrap; with `MaxOthers` = 1, a request of
  another connection at any moment, the four ids are just enough for `UniqueIds` to
  compare two requests and the other one.
* The decoder's buffer holds 4 symbols: the longest token sequence that it must
  hold at once is 3 (`HTTP/1.1 \r \n`), so 4 lets both "fits" and "does not fit"
  occur. `kMaxPayloadSize` = 12 is above the longest body and below `huge`.
  `Abandoned` limits the requests during which a client may vanish to one, a PUT
  with a body, which passes through every part of the decoder.
* Two covers, a travel of 2 steps, 2 steps allowed, the start checked at step 1:
  a cover can be at either end or between, fail to start, run out of steps and
  be reversed at each point. One channel with brightness 0 or 1; a board with both
  covers has no channel, as an LED command is one action, and one cover's movement
  shows it between any two steps.
* `alpaca_server`: two LED channels, one with a jumper, brightness up to 1, and for
  each handler a request with, without and with a wrong parameter. A write buffer
  of 64 units is shorter than most responses, though not than the shortest ones; a
  write takes 50 units or all; `TxSize` = 64 units of the chip hold one full buffer, so
  a write of the next one waits for the peer. Only `CalibratorOn` and `Brightness` are
  pipelined, and only two deep: a
  second response is what a wrong length disturbs. Transaction ids 0 and 1 tell a
  response from its neighbour and wrap. `UInt32Values` = 16 is above twice the
  brightness, so that a negative one, converted to `uint32_t`, is too large.
* Addresses: one prefix and no prefix, two draws of all random bytes at the ends
  of their ranges, an EEPROM that is erased or has addresses that another program
  put there, and two power failures, so that a cell can come from any of three
  generations. The layout has its real 19 bytes and the real CRC.
* Host emulation: two sockets, two ports, three descriptors (one socket can hold two
  for a moment, and there can be none left).
* `network`: three hardware sockets for two servers, the discovery server, DHCP and
  the sketch, so that DHCP finds only a socket that is closed for a moment, or
  none; one source, queues of length one, a buffer of two datagrams, one duplicate
  and one stray datagram.
* The other parts: texts of up to four of the characters `- . x 0 2 5 6`, with 255 as
  the greatest number; periods around the limit of each prescaler, as far as TLC's
  32-bit integers go; lists of up to three of three devices of two types, numbers
  and ids; two recorded events, at most four interrupts between two resets; three
  allowed steps on a travel of two; the speeds 19500 and 19550.

### Fairness

`loop()` runs for ever and polls every socket, so the program's steps are weakly
fair, and so are listeners (they return) and time. The chip is not assumed to do
anything, nor is a peer, with one exception: strong fairness for a LISTEN command
that succeeds (`ReturnsToService` cannot hold for a chip that refuses it for
ever). In the decoder's specification, strong fairness of
reading at least one symbol says that what a client has sent arrives at some
poll, although any number of polls may find nothing new.
For the covers: the main loop finishes a command, and an enabled timer overflows;
nobody has to give a command, and a motor may stall for ever. The same holds for
the loop and the timer of `PulseSpacing`.
`AlpacaServer` assumes only that the server goes on with a response it has begun,
which it cannot while `client().write` waits for room; that the peer makes room, or
the connection goes, is the premise of `ResponsesEnd` and no fairness condition.
`Discovery`, that the loop of the sketch and each thread of the client go on and a
receiver's timeout comes. The network, the chip and peers owe nothing.

## Proofs

Every inductive invariant below was first checked by TLC as an invariant of its
module on the constants of the run, `CellsInv` of `AddressesProofs` with one power
failure; `BegunInv` follows from `NeverAMixture`, which the run checks. The
exception is the `ClientInv` of `AlpacaServerProofs`, which speaks of all texts. A
theorem holds for every value of the constants that the
named assumptions of the modules admit; anything assumed beyond these stands as
the `ASSUME` of the theorem and is given here. The sizes are those of the check
from nothing: 6614 obligations in eight modules.

| property | theorem | assumes |
|---|---|---|
| `TypeOK` (`ServerSocket`), proved only | `TypeCorrect` | |
| `LastStatusTracksSession` | `StatusTracksSession` | `Assumed` |
| `ClosingIsTimed` | `ClosingSocketIsTimed` | `Assumed` |
| `HalfClosedIsDrained` | `OnHalfClosedIsDrained` | `Assumed` |
| `ListenerProtocol` | `ImplementsListenerProtocol` | `Assumed` |
| `ListenerChecks` | `ConnectionChecks` | `~FastHandshake` |
| `NothingForeignBuffered` | `ConnectionBuffersOwnBytes` | `~FastHandshake` |
| `OneReplyPerRequest` | `ConnectionAnswersOnce` | `~FastHandshake` |
| `UniqueIds` | `ConnectionIdsUnique` | `~FastHandshake` |
| `TypeOK` (`RequestDecoder`) | `DecoderTypeCorrect` | |
| `BodyChecks`, `HandsOver` | `DecoderBodyChecks`, `DecoderHandsOver` | |
| `StepsLeft`, `MovingIsDriven`, `OnlyOneMoves` | `CoverStepsLeft`, `CoverMovingIsDriven`, `CoverOnlyOneMoves` | |
| `CoverTypeOK` and `OneStepMore`, proved only | `CoverStepsBounded` | |
| `StepsAsCommanded`, `OffIsDark` | `CoverStepsAsCommanded`, `CalibratorOffIsDark` | |
| `DescriptorsHeld`, `LooksLikeTheChip` | `HostDescriptorsHeld`, `HostLooksLikeTheChip` | |
| `DiscoverySocketKept` | `DiscoverySocketStays`, `DiscoveryKeepsSocket` | |
| `ResponsesHandled` | `EveryResponseHandled` | |
| `SameAfterRestart` | `AddressesStay` | |
| `StoredWhole`, unless `SomeMixtureMatches(begun)` | `AddressesStoredWhole` | |
| its part `SavedLoads` | `SavedAddressesLoad` | |
| `ClientInStep` | `ServerClientInStep` | `[]ResponsesFramed` |
| `ReadsBack` | `DevicesReadBack` | |
| `ListChecked` | `DeviceListChecked` | |
| `EventsAccounted` | `BouncyEventsAccounted` | `MaxCalls < kMaxEvents + 65536` |

Without `Assumed` (no fast handshake, no release during a session) the properties are
false, as `MCServerSocketFast.cfg` shows of the first part. The other assumptions are
discussed with the proofs.

`ServerSocketProofs`, for any number of sockets, bytes, buffer size and time limit.
`TypeCorrect` needs in addition that a socket is bound whenever a poll is under
way. The other properties speak of moments between polls and are not
inductive. `IInv` adds what is known at each step of a poll: which statuses the
chip may have reached meanwhile, that `last_status_` is open during a call,
that no disconnect is recorded of a connection that is open for the listener,
and that no other socket is in a TCP state. The refinement follows: each
step is a step of `SocketListener` or leaves the listener's view alone.

`ServerConnectionProofs`, for streams, buffers and counters of any size. The
server never releases a socket, so only fast handshakes are excluded.
`ConnectionInv` is the `IInv` above together with:

* `ConnectionTypeOK`, which bounds the input buffer, and `SessionInv`: the listener
  has the socket exactly during a session, with a decoder ready for input. This
  gives the DCHECKs.
* `FreshInv`: until a connection is announced, all its peer has sent is in the
  chip. That is what makes `OnConnect`, which forgets what it had buffered, safe.
* `BufferInv`: what follows the consumed part of the stream is in `input_buffer_`
  and then in the chip.
* `RepliesInv`: there are as many "ok" responses as ends of requests in the consumed
  part. The count is a cardinality, which grows by one with each end that is consumed.

The ids have an invariant of their own, `IdsInv`: as long as no more ids were drawn,
on any connection, than there are, each was drawn fewer draws ago than that
(`RecentIds`, by `Age`, the distance to the counter around the end of the range), and
no two are the same (`DifferentIds`). A new id has age zero and every other grows older
by one, so a new one differs from all.

`ConnectionImplementsSocket` shows that `ServerSocket` with this listener is a
special case of `ServerSocket` with an arbitrary one; so its theorems, the
listener contract included, hold of the composition. It is about the safety
specifications, without the fairness conditions.

`RequestDecoderProofs`, for every set of requests (any sequence of
symbols), every chunking, buffer size and payload limit. `DecoderEndOfPathInView`
is proved only, no run checks it. The
inductive invariant `IInv` has three parts: a function is set while decoding
(`FunctionInv`); in a body, only the three parameter functions occur, the view
never exceeds the remaining length, and `is_final_input` holds exactly when the
two are equal, which both shrink by the same amount (`BodyInv`); and
`DecodeEndOfPath` is never left waiting (`PathInv`). Most actions go through one
lemma, `CallStep`, about a decode function that consumes n symbols.

`SketchProofs`. Of `CoverCalibrator`, for any number of covers, any travel and
limits, any channels: `IInv` adds to the properties who may interrupt whom: a command past `CanMove` is the only
user of the timer, and from `ResetTimer5` to `StartTimer5` there is no interrupt
(`HandlerInv`), so the count and the direction it prepared are intact when the
timer starts (`PreparedInv`, `DirectionInv`). `StepMotorIInv` treats the pulse,
which may come at any place of a command. Of `BouncySwitch`, for any number of
events: `BouncyEventsAccounted` takes the interrupt at any access of the loop
(`FlagInv`, `BouncyInv`). Its assumption is the width of `missed_count_`: 65536 missed
events look like none.

`HostSocketsProofs`, for any number of sockets, descriptors and ports. `Held` says
that the descriptors of an emulated socket are of the kind it takes them for, that
no two sockets have the same, that none that is open is without a socket, and that a
socket with a port has a listener. `ReportInv` is what the action property needs of
the state before a step: a socket last reported as connected has a connection, one
reported as half-closed gets no more data, and one reported as closed has no
descriptor: as the error of a reset is used up by the first of two peeks, a connection
that broke is reported as half-closed, and closed only when the program gave it up.

`NetworkProofs`, for any number of sockets, servers, sources and any lengths of
queues. The discovery server gets its socket before any other server has one
(`SetupInv`), and from then on it is UDP, so that no search for a closed socket finds
it: neither the ones that `Initialize` and `PerformIO` repeat, nor DHCP's (`LoopInv`).
So this needs no assumption about peers, while servers may come to share a socket
(the run `shared_socket`). `DiscoveryImplementsSockets` carries it over to the
system with discovery. For the client, `ClientInv` says of each source where its
unhandled responses are: with the receiver, in its queue, with the worker or in
the common queue (`Accounted`). A worker that ended left its queue empty and its
receiver ended or `Silent`: a worker that could not send leaves a receiver for which
there is no request and no answer under way. When all workers were seen dead and
the common queue was found empty, everything is handled.

`AddressesProofs`, for any prefixes, draws and initial contents of the EEPROM.
`EepromInv` and `LoadInv` give the shape of what is stored and loaded, `SaveInv`
that addresses are only saved when there are none to be kept and that the cells
already written are theirs, and
`UsedInv` that the addresses in use, and those used last, are in the EEPROM, whole
and with the prefix that is asked for. For these two, of the CRC only that it is a
function of the bytes is used, so they hold for any checksum.
`AddressesStoredWhole` also says that what loads was saved as a whole
(`NeverAMixture`), which no checksum of 32 bits can promise of all addresses. It is
proved unless `SomeMixtureMatches(begun)`: some addresses, not among those that were in
the EEPROM at first or began to be saved since, can be pieced together from the bytes
that these left behind, with a CRC that can be too. With the real CRC that is an
accident (one in 2^32 for a mixture), and the run shows that it does not happen
for its addresses. What
is left behind is the point of the proof (`CellsInv`): up to some cell, each holds a
byte of addresses that began to be saved, or 255, and behind it is what was there at
first, whatever the order of saves and failures.

`AlpacaServerProofs`, for lists of devices of any length, any requests, any size of
the write buffer, and any texts of replies (the operators that make them are
parameters of `AlpacaServer`).

* `DeviceListChecked`: the inner loop of `Initialize` stops at the first entry of
  another type; two entries with only entries of their type between them are compared,
  as the loop that starts at the first reaches the second. Others are not compared,
  and may have one address (the run `device_list`).
* `DevicesReadBack`: what a device last accepted is what it reports (`SettingsInv`).
* `ServerClientInStep`: what the client reads is the responses to its requests, one
  each and in their order, however the write buffer cuts them and however little the
  chip takes at a time. `StreamInv` says that what the client has not read yet is one
  whole response, or none, and the sent part of the last; the rest of that one
  (`Stream`) is in the write buffer and then in what is still to be printed, or it was
  dropped and the connection has failed. `WriteInv` is what the steps of a write need
  of the buffer and the error flag, `AllFramed` is where a reader sees the ends of
  responses. The theorem assumes `[]ResponsesFramed`, that a response ends where its
  header says: this is what the JSON encoder must give, and the run checks it.

Where the code takes the first element that satisfies a condition (`CHOOSE` in the
model), the proofs get it from the well-foundedness of `<` on the naturals
(`WFMin`), not by induction.

Only model-checked:

* Liveness, which is outside what the prover can do: `BreakIsReported`,
  `ReturnsToService`, `RequestsAreAnswered`, `EveryRequestGetsResult`,
  `MotorComesToRest`, `ResponsesEnd`, `AllServe`, `RequestsAnswered`,
  `DiscoveryEnds`, `MovementReported`.
* `DecodesAsSent` and `NumberAsWritten`: what a fold over a text computes needs
  induction over the text.
* `ResponsesFramed`, which `ServerClientInStep` assumes: the encoder and the parser of
  JSON are recursive operators, with which tlapm loses its SMT backend.
* `StoredWhole` for the addresses of the run, without the proviso of
  `AddressesStoredWhole`.

## What the runs say about the code

Six disagreements between code and comments are in `PROJECT.json` under
"findings", five more under "Further counterexamples". Smaller observations:

* `request_decoder.cpp:38` says a name may not be empty, but an empty parameter
  name is accepted as an unknown one; `Reset` leaves `remaining_content_length`
  alone, which is harmless because `found_content_length` guards it; a second
  request behind a PUT is refused with 413 if it arrives in the same read, and
  accepted otherwise. `peer_half_closed` (`server_socket.cpp:63`) passes a socket
  number where a status is expected.
* `SetCalibratorOff` sets the pulse count of channels without hardware too, which
  fails the debug check in `set_pulse_count`.
* `ServerSocketsAndConnections::Initialize` (line 29) returns true exactly when some
  socket was not found, contrary to the comment in its header; all sketches ignore
  the result. The loop of
  `TinyAlpacaServerDemo` skips `PerformIO` as long as the lease fails.
* `device_impl_base.h:114-115` says that the default of `SetConnected` returns an
  error; it accepts.
* `ReleaseSocket` sets `sock_num_` to 0 (`server_socket.cpp:123`), which is a valid
  socket, the next `PerformIO` would take it; nothing calls it today.
* A client that keeps its connection and reads nothing blocks the server in
  `client().write` until the chip gives the connection up.
* Host emulation: a failure of `fcntl` (`host_sockets.cpp:122-126`) leaves a bound
  socket that is reported as LISTEN; line 148 makes the listener, not the
  connection, non-blocking; `EthernetClient::stop` does nothing;
  `EEPROM.put` (`extras/host/eeprom/eeprom.h:33-40`) never advances its index.
* `BouncySwitch`: events between the copy of `count_` and `Reset` are lost, and the
  missed events are never reported, because `count > kMaxEvents` (line 102) cannot be.
* `PulseSpacingModulation.ino:253`: the 16-bit product wraps for `OCR5A` above 4369,
  so that the first interrupt of a movement sets a shorter period than the target.
* `FromMicroSeconds` wraps above 26843545 microseconds, beyond any timer's range.

## Not modelled

* The moving average: floating point, out of the reach of TLC and TLAPS.
* Tables of text, formatting of numbers, logging, the literals in PROGMEM.
* `RequestDecoderListener` and extra parameters: compiled out on the device.
* Writing the registers of AVR timers, and the sketches that try them out
  (`LedFadeInFadeOut`, `HighResPwmExperiment`), memory measurements, `extras/futures`.
* The multi-switch adapter and toggle switches, which the complete examples do not
  use; readings of sensors, which are fixed words here.
* The emulated UDP socket, which does nothing; generators of source text, HTTP
  scripts, fakes and mocks of the tests.

## Plan

All components with state or control of their own are modelled, and every safety
property that the prover can reach is proved for one specification at least. Left
open:

1. That the decoder implements the abstraction of it in `ServerConnection`: how many
   symbols a call consumes and which of the three results it returns. The two
   modules cut the stream differently, into symbols and into bytes, so a mapping
   between the two streams has to be written first.
2. The safety part of `MovementReported` for `PulseSpacing`: the report has the
   pulses that were made.
3. `DecodesAsSent`, `NumberAsWritten` and `ResponsesFramed` for texts
   of any length, with a prover that can do induction over data.
