----------------------------- MODULE RequestDecoder -----------------------------
(***************************************************************************)
(* The HTTP request decoder (src/request_decoder.cpp) with the AlpacaRequest *)
(* it fills in, fed by an input buffer of limited size.                      *)
(*                                                                           *)
(* Text is a sequence of symbols.  A symbol is a delimiter, or a run of      *)
(* characters that the decoder either takes whole or not at all: a word of   *)
(* its vocabulary, a number, or some other word.  Sizes (of the buffer, of   *)
(* a body) are counted in symbols.  Every chunking of the input is possible. *)
(*                                                                           *)
(* DecodeBuffer applies decode_function repeatedly; there is one action for  *)
(* each decode function, named after it.                                     *)
(***************************************************************************)
EXTENDS Naturals, Sequences, FiniteSets

CONSTANTS
    Message,            \* the requests a client may send
    Text(_),            \* their text
    Abandoned,          \* bound: requests during which a client may vanish
    BufferSize,         \* capacity of the input buffer
    kMaxPayloadSize

\* The numbers that occur, by name.
Numeral == [zero |-> 0, one |-> 1, two |-> 2, three |-> 3, four |-> 4, five |-> 5,
            six |-> 6, seven |-> 7, eight |-> 8, nine |-> 9, ten |-> 10, huge |-> 1000]
HttpMethod == {"GET", "PUT", "HEAD"}
\* EApiGroup kDevice is "api".
ApiGroup == {"api", "management", "setup"}
ManagementMethod == {"description", "configureddevices"}
DeviceType == {"camera"}
DeviceMethod == {"connected", "description", "name"}
NumberParameter == {"ClientID", "ClientTransactionID", "Id", "Brightness", "Value",
                    "AveragePeriod"}
BooleanParameter == {"Connected", "State"}
SensorName == {"humidity"}
BuiltInParameter == NumberParameter \cup BooleanParameter \cup {"SensorName"}
\* Recognized, but without built-in support (kAction, kRaw...).
Parameter == BuiltInParameter \cup {"Action"}
HttpHeader == {"Content-Length", "Content-Type", "Connection", "Date"}

\* kUnknown stands for any other word.
Word == DOMAIN Numeral \cup HttpMethod \cup ApiGroup \cup ManagementMethod
          \cup DeviceType \cup DeviceMethod \cup Parameter \cup SensorName
          \cup HttpHeader \cup {"v1", "apiversions", "true", "false", "close", "kUnknown"}
\* "form" is the media type application/x-www-form-urlencoded, which, like the
\* version of HTTP, contains a character that no name does.
Symbol == Word \cup {"HTTP/1.1", "form", " ", "/", "?", "=", "&", ":", "\r", "\n"}

IsNameChar       == Word
IsParamValueChar == Word \cup {"="}
IsFieldContent   == Symbol \ {"\r", "\n"}

ASSUME DecoderAssumption ==
    /\ \A m \in Message : Text(m) \in Seq(Symbol)
    /\ Abandoned \subseteq Message
    /\ BufferSize \in Nat \ {0}
    /\ kMaxPayloadSize \in Nat

VARIABLES
    message,                    \* the request being sent
    unsent,                     \* the rest of its text
    view,                       \* the input buffer, without what is decoded
    decode_function,            \* "nullptr" before Reset and after a result
    is_decoding_header,
    is_final_input,
    found_content_length,
    remaining_content_length,
    current,                    \* the union of current_parameter and current_header
    request,
    decoder_status,
    start_size,                 \* local variables of DecodeBuffer
    buffer_is_full,
    status,                     \* what the last decode function, or DecodeBuffer, returned
    pc                          \* where in DecodeBuffer control is

input   == <<message, unsent>>
flags   == <<is_decoding_header, is_final_input, found_content_length>>
locals  == <<start_size, buffer_is_full>>
vars == <<input, view, decode_function, flags, remaining_content_length, current,
          request, decoder_status, locals, status, pc>>

NameFunction == {"DecodeHttpMethod", "DecodeApiGroup", "DecodeManagementType",
                 "DecodeManagementMethod", "DecodeApiVersion", "DecodeDeviceType",
                 "DecodeDeviceNumber", "DecodeDeviceMethod", "DecodeParamName",
                 "DecodeHeaderName"}
DecodeFunction == NameFunction \cup
                  {"MatchStartOfPath", "DecodeEndOfPath", "DecodeParamValue",
                   "DecodeParamSeparator", "MatchHttpVersion", "DecodeHeaderLines",
                   "DecodeHeaderValue", "SkipHeaderValue", "DecodeHeaderLineEnd"}
FinalStatus == {"200", "400", "405", "411", "413", "415", "431", "500", "501", "505"}
EAlpacaApi == {"kUnknown", "kDeviceApi", "kDeviceSetup", "kServerSetup",
               "kManagementApiVersions", "kManagementDescription",
               "kManagementConfiguredDevices"}

\* params[p] is the text from which parameter p was set, empty if it is not set.
AlpacaRequest == [http_method : HttpMethod \cup {"kUnknown"},
                  api_group : ApiGroup \cup {"kUnknown"},
                  api : EAlpacaApi,
                  do_close : BOOLEAN,
                  params : [BuiltInParameter -> Seq(Symbol)]]

TypeOK ==
    /\ unsent \in Seq(Symbol)
    /\ view \in Seq(Symbol) /\ Len(view) <= BufferSize
    /\ decode_function \in DecodeFunction \cup {"nullptr"}
    /\ is_decoding_header \in BOOLEAN
    /\ is_final_input \in BOOLEAN
    /\ found_content_length \in BOOLEAN
    /\ remaining_content_length \in 0 .. kMaxPayloadSize
    /\ current \in Parameter \cup HttpHeader \cup {"kUnknown"}
    /\ request \in AlpacaRequest
    /\ decoder_status \in {"kReset", "kDecoding", "kDecoded"}
    /\ start_size \in 0 .. BufferSize
    /\ buffer_is_full \in BOOLEAN
    /\ status \in {"kContinueDecoding", "kNeedMoreInput"} \cup FinalStatus
    /\ pc \in {"idle", "body", "call", "return", "done"}
-----------------------------------------------------------------------------
(***************************************************************************)
(* What a decode function may do: consume input, and return.                 *)
(***************************************************************************)

\* FindFirstNotOf: the number of symbols before the first one not in S.
FindFirstNotOf(text, S) ==
    Cardinality({i \in 1 .. Len(text) : \A j \in 1 .. i : text[j] \in S})

\* Mutant: DecodeMessageBody does not count what is consumed.
ConsumeUncounted(n) ==
    /\ view' = SubSeq(view, n + 1, Len(view))
    /\ UNCHANGED remaining_content_length

\* Removes n symbols; the loop of DecodeMessageBody counts what is consumed.
Consume(n) ==
    /\ view' = SubSeq(view, n + 1, Len(view))
    /\ remaining_content_length' =
           IF is_decoding_header THEN remaining_content_length
                                 ELSE remaining_content_length - n

SetDecodeFunction(func) ==
    /\ decode_function' = func
    /\ status' = "kContinueDecoding"
    /\ pc' = "call"

Return(code) ==
    /\ status' = code
    /\ pc' = "return"
    /\ UNCHANGED decode_function

NeedMoreInput == Return("kNeedMoreInput")

Calling(func) == pc = "call" /\ decode_function = func
Fixed == UNCHANGED <<input, decoder_status, locals>>

\* The word that starts the view, and where it ends: nothing is known of it
\* until something that is not part of a name follows.
NameLength == FindFirstNotOf(view, IsNameChar)
Name == SubSeq(view, 1, NameLength)
Matches(words) == \E w \in words : Name = <<w>>
Terminator == view[NameLength + 1]

\* What must follow the name; the functions without an entry accept anything,
\* or decide in their processor.
ValidTerminators(func) ==
    CASE func = "DecodeHttpMethod"   -> {" "}
      [] func = "DecodeDeviceMethod" -> {"?", " "}
      [] func = "DecodeParamName"    -> {"="}
      [] func = "DecodeHeaderName"   -> {":"}
      [] func \in {"DecodeApiVersion", "DecodeDeviceType", "DecodeDeviceNumber"} -> {"/"}
      [] OTHER -> Symbol \ Word

\* ExtractAndProcessName: more input is needed ...
NameIncomplete ==
    /\ pc = "call" /\ decode_function \in NameFunction
    /\ NameLength = Len(view)
    /\ NeedMoreInput
    /\ Fixed
    /\ UNCHANGED <<view, flags, remaining_content_length, current, request>>

\* ... or the terminator is not valid ...
BadTerminator ==
    /\ pc = "call" /\ decode_function \in NameFunction
    /\ NameLength < Len(view)
    /\ Terminator \notin ValidTerminators(decode_function)
    /\ Consume(NameLength)
    /\ Return("400")
    /\ Fixed
    /\ UNCHANGED <<flags, current, request>>

\* ... or the name is processed, after it and n symbols more are consumed.
NameFound(func, n) ==
    /\ Calling(func)
    /\ NameLength < Len(view)
    /\ Terminator \in ValidTerminators(func)
    /\ Consume(NameLength + n)
    /\ Fixed
    /\ UNCHANGED flags
-----------------------------------------------------------------------------
(***************************************************************************)
(* The start line                                                            *)
(***************************************************************************)
ProcessHttpMethod ==
    /\ NameFound("DecodeHttpMethod", 1)
    /\ \/ \E method \in HttpMethod :
             /\ Name = <<method>>
             /\ request' = [request EXCEPT !.http_method = method]
             /\ SetDecodeFunction("MatchStartOfPath")
       \/ ~Matches(HttpMethod) /\ Return("501") /\ UNCHANGED request
    /\ UNCHANGED current

MatchStartOfPath ==
    /\ Calling("MatchStartOfPath")
    /\ \/ view = << >> /\ NeedMoreInput /\ Consume(0)
       \/ /\ view # << >> /\ view[1] = "/"
          /\ Consume(1)
          /\ SetDecodeFunction("DecodeApiGroup")
       \/ view # << >> /\ view[1] # "/" /\ Return("400") /\ Consume(0)
    /\ Fixed
    /\ UNCHANGED <<flags, current, request>>

HttpMethodIsRead == request.http_method \in {"GET", "HEAD"}

\* The path continues after '/' or, for the setup of the server, ends here.
ProcessApiGroup ==
    /\ NameFound("DecodeApiGroup", IF Matches(ApiGroup) /\ Terminator = "/" THEN 1 ELSE 0)
    /\ \/ /\ ~Matches(ApiGroup)
          /\ Return("400")
          /\ UNCHANGED request
       \/ \E group \in ApiGroup :
          /\ Name = <<group>>
          /\ \/ /\ Terminator = "/"
                /\ ~HttpMethodIsRead /\ group # "api"
                /\ Return("405")
                /\ request' = [request EXCEPT !.api_group = group]
             \/ /\ Terminator = "/" /\ HttpMethodIsRead /\ group = "management"
                /\ SetDecodeFunction("DecodeManagementType")
                /\ request' = [request EXCEPT !.api_group = group]
             \/ /\ Terminator = "/" /\ (HttpMethodIsRead \/ group = "api")
                /\ group # "management"
                /\ SetDecodeFunction("DecodeApiVersion")
                /\ request' = [request EXCEPT !.api_group = group,
                                  !.api = IF group = "setup" THEN "kDeviceSetup" ELSE "kDeviceApi"]
             \/ /\ Terminator # "/" /\ group # "setup"
                /\ Return("400")
                /\ request' = [request EXCEPT !.api_group = group]
             \/ /\ Terminator # "/" /\ group = "setup"
                /\ request' = [request EXCEPT !.api_group = group, !.api = "kServerSetup"]
                /\ IF HttpMethodIsRead THEN SetDecodeFunction("DecodeEndOfPath")
                                       ELSE Return("405")
    /\ UNCHANGED current

ProcessManagementType ==
    /\ NameFound("DecodeManagementType",
                 IF Name = <<"v1">> /\ Terminator = "/" THEN 1 ELSE 0)
    /\ \/ /\ Name = <<"v1">> /\ Terminator = "/"
          /\ SetDecodeFunction("DecodeManagementMethod")
          /\ UNCHANGED request
       \/ /\ Name = <<"apiversions">>
          /\ request' = [request EXCEPT !.api = "kManagementApiVersions"]
          /\ SetDecodeFunction("DecodeEndOfPath")
       \/ /\ ~(Name = <<"v1">> /\ Terminator = "/") /\ Name # <<"apiversions">>
          /\ Return("400")
          /\ UNCHANGED request
    /\ UNCHANGED current

ProcessManagementMethod ==
    /\ NameFound("DecodeManagementMethod", 0)
    /\ \/ /\ Matches(ManagementMethod)
          /\ request' = [request EXCEPT !.api =
                            IF Name = <<"description">> THEN "kManagementDescription"
                                                        ELSE "kManagementConfiguredDevices"]
          /\ SetDecodeFunction("DecodeEndOfPath")
       \/ ~Matches(ManagementMethod) /\ Return("400") /\ UNCHANGED request
    /\ UNCHANGED current

\* A segment of the path of a device that is checked and, but for the type and
\* the number of the device, which are abstracted away, not recorded.
PathSegment(func, n, valid, next) ==
    /\ NameFound(func, n)
    /\ IF valid THEN SetDecodeFunction(next) ELSE Return("400")
    /\ UNCHANGED <<request, current>>

ProcessApiVersion ==
    PathSegment("DecodeApiVersion", 1, Name = <<"v1">>, "DecodeDeviceType")
ProcessDeviceType ==
    PathSegment("DecodeDeviceType", 1, Matches(DeviceType), "DecodeDeviceNumber")
ProcessDeviceNumber ==
    PathSegment("DecodeDeviceNumber", 1, Matches(DOMAIN Numeral), "DecodeDeviceMethod")
\* MatchDeviceMethod: which names are methods depends on the API group.
ProcessDeviceMethod ==
    PathSegment("DecodeDeviceMethod", 0,
                Matches(IF request.api_group = "setup" THEN {"setup"} ELSE DeviceMethod),
                "DecodeEndOfPath")

DecodeEndOfPath ==
    /\ Calling("DecodeEndOfPath")
    /\ \/ /\ view[1] = "?" /\ Consume(1)
          /\ SetDecodeFunction("DecodeParamName")
       \/ /\ view[1] = " " /\ Consume(1)
          /\ SetDecodeFunction("MatchHttpVersion")
       \/ view[1] \notin {"?", " "} /\ Consume(0) /\ Return("400")
    /\ Fixed
    /\ UNCHANGED <<flags, current, request>>

\* A wrong version is an error only when the view is long enough.
HttpVersionEndOfLine == <<"HTTP/1.1", "\r", "\n">>
StartsWith(text, prefix) ==
    Len(text) >= Len(prefix) /\ SubSeq(text, 1, Len(prefix)) = prefix

MatchHttpVersion ==
    /\ Calling("MatchHttpVersion")
    /\ \/ /\ StartsWith(view, HttpVersionEndOfLine)
          /\ Consume(Len(HttpVersionEndOfLine))
          /\ SetDecodeFunction("DecodeHeaderLines")
       \/ Len(view) < Len(HttpVersionEndOfLine) /\ NeedMoreInput /\ Consume(0)
       \/ /\ Len(view) >= Len(HttpVersionEndOfLine)
          /\ ~StartsWith(view, HttpVersionEndOfLine)
          /\ Return("505") /\ Consume(0)
    /\ Fixed
    /\ UNCHANGED <<flags, current, request>>
-----------------------------------------------------------------------------
(***************************************************************************)
(* Parameters, in the query of the path and in the body                      *)
(***************************************************************************)
ProcessParamName ==
    /\ NameFound("DecodeParamName", 1)
    /\ \/ \E param \in Parameter : Name = <<param>> /\ current' = param
       \/ ~Matches(Parameter) /\ current' = "kUnknown"
    /\ SetDecodeFunction("DecodeParamValue")
    /\ UNCHANGED request

ConvertsTo(param, value) ==
    \E w \in Word :
        /\ value = <<w>>
        /\ \/ param \in NumberParameter /\ w \in DOMAIN Numeral
           \/ param \in BooleanParameter /\ w \in {"true", "false"}
           \/ param = "SensorName" /\ w \in SensorName

\* The end of a value is recognized by what follows it or, in the body, by
\* the end of the input.  A second value for a parameter is an error.
DecodeParamValue ==
    LET n == FindFirstNotOf(view, IsParamValueChar)
        value == SubSeq(view, 1, n)
    IN  /\ Calling("DecodeParamValue")
        /\ \/ /\ n = Len(view) /\ (is_decoding_header \/ ~is_final_input)
              /\ NeedMoreInput
              /\ Consume(0)
              /\ UNCHANGED request
           \/ /\ n < Len(view) \/ (~is_decoding_header /\ is_final_input)
              /\ Consume(n)
              /\ \/ /\ current \in BuiltInParameter
                    /\ ConvertsTo(current, value) /\ request.params[current] = << >>
                    /\ request' = [request EXCEPT !.params[current] = value]
                    /\ SetDecodeFunction("DecodeParamSeparator")
                 \/ /\ current \in BuiltInParameter
                    /\ ~(ConvertsTo(current, value) /\ request.params[current] = << >>)
                    /\ Return("400")
                    /\ UNCHANGED request
                 \/ /\ current \notin BuiltInParameter
                    /\ SetDecodeFunction("DecodeParamSeparator")
                    /\ UNCHANGED request
        /\ Fixed
        /\ UNCHANGED <<flags, current>>

\* All but the last of the separators are consumed while it is not known what
\* follows them.
DecodeParamSeparator ==
    LET n == FindFirstNotOf(view, {"&"})
    IN  /\ Calling("DecodeParamSeparator")
        /\ \/ /\ n = Len(view) /\ ~is_decoding_header /\ is_final_input
              /\ Consume(n)
              /\ Return("200")
           \/ /\ n = Len(view) /\ (is_decoding_header \/ ~is_final_input)
              /\ Consume(IF n > 1 THEN n - 1 ELSE 0)
              /\ NeedMoreInput
           \/ /\ n < Len(view) /\ view[n + 1] = " "
              /\ IF is_decoding_header
                   THEN Consume(n + 1) /\ SetDecodeFunction("MatchHttpVersion")
                   ELSE Consume(n) /\ Return("400")
           \/ /\ n < Len(view) /\ view[n + 1] # " "
              /\ Consume(n)
              /\ SetDecodeFunction("DecodeParamName")
        /\ Fixed
        /\ UNCHANGED <<flags, current, request>>
-----------------------------------------------------------------------------
(***************************************************************************)
(* Header lines                                                              *)
(***************************************************************************)
kEndOfHeaderLine == <<"\r", "\n">>
IsStartOfEndOfLine(text) == text \in {<< >>, <<"\r">>}

\* After a header line or the start line: the headers end, or another begins.
\* The text of a PUT request continues with the body.
DecodeHeaderLines ==
    /\ Calling("DecodeHeaderLines")
    /\ \/ /\ StartsWith(view, kEndOfHeaderLine)
          /\ Consume(2)
          /\ \/ request.http_method = "GET" /\ Return("200") /\ UNCHANGED flags
             \/ request.http_method \notin {"GET", "PUT"} /\ Return("500") /\ UNCHANGED flags
             \/ /\ request.http_method = "PUT"
                /\ ~found_content_length
                /\ Return("411")
                /\ UNCHANGED flags
             \/ /\ request.http_method = "PUT"
                /\ found_content_length /\ remaining_content_length = 0
                /\ Return("200")
                /\ UNCHANGED flags
             \/ /\ request.http_method = "PUT"
                /\ found_content_length /\ remaining_content_length > 0
                /\ is_decoding_header' = FALSE
                /\ decode_function' = "DecodeParamName"
                /\ status' = "kNeedMoreInput"
                /\ pc' = "body"
                /\ UNCHANGED <<is_final_input, found_content_length>>
       \/ IsStartOfEndOfLine(view) /\ NeedMoreInput /\ Consume(0) /\ UNCHANGED flags
       \/ /\ ~StartsWith(view, kEndOfHeaderLine) /\ ~IsStartOfEndOfLine(view)
          /\ SetDecodeFunction("DecodeHeaderName")
          /\ Consume(0)
          /\ UNCHANGED flags
    /\ Fixed
    /\ UNCHANGED <<current, request>>

ProcessHeaderName ==
    /\ NameFound("DecodeHeaderName", 1)
    /\ \/ \E header \in HttpHeader :
             /\ Name = <<header>>
             /\ current' = header
             /\ SetDecodeFunction("DecodeHeaderValue")
       \/ /\ ~Matches(HttpHeader)
          /\ current' = "kUnknown"
          /\ SetDecodeFunction("SkipHeaderValue")
    /\ UNCHANGED request

TrimTrailingOptionalWhitespace(text) ==
    SubSeq(text, 1, CHOOSE n \in 0 .. Len(text) :
                        /\ n > 0 => text[n] # " "
                        /\ \A i \in (n + 1) .. Len(text) : text[i] = " ")

\* value.to_uint32(content_length), which leaves 0 if it fails.
Converted(value) == \E w \in DOMAIN Numeral : value = <<w>>
ContentLength(value) == IF Converted(value) THEN Numeral[value[1]] ELSE 0

HeaderValueStatus(value) ==
    CASE current = "Content-Length" ->
           IF \/ found_content_length \/ ~Converted(value)
              \/ ContentLength(value) > kMaxPayloadSize
             THEN IF ContentLength(value) > 0 THEN "413" ELSE "400"
             ELSE IF ContentLength(value) > 0 /\ request.http_method # "PUT"
                    THEN "400" ELSE "kContinueDecoding"
      [] current = "Content-Type" ->
           IF request.http_method = "PUT" /\ value # <<"form">>
             THEN "415" ELSE "kContinueDecoding"
      [] OTHER -> "kContinueDecoding"

\* The value and its effect, once its end is in view.
HeaderValue(value) ==
    LET result == HeaderValueStatus(value)
        is_length == current = "Content-Length" /\ result = "kContinueDecoding"
    IN  /\ IF result = "kContinueDecoding" THEN SetDecodeFunction("DecodeHeaderLineEnd")
                                           ELSE Return(result)
        /\ remaining_content_length' =
               IF is_length THEN ContentLength(value) ELSE remaining_content_length
        /\ found_content_length' = (found_content_length \/ is_length)
        /\ request' = [request EXCEPT !.do_close =
                          @ \/ (current = "Connection" /\ value = <<"close">>)]

DecodeHeaderValue ==
    LET skip == FindFirstNotOf(view, {" "})
        rest == SubSeq(view, skip + 1, Len(view))
        n == FindFirstNotOf(rest, IsFieldContent)
    IN  /\ Calling("DecodeHeaderValue")
        /\ \/ /\ n = Len(rest)
              /\ view' = rest
              /\ NeedMoreInput
              /\ UNCHANGED <<remaining_content_length, found_content_length, request>>
           \/ /\ n < Len(rest)
              /\ view' = SubSeq(rest, n + 1, Len(rest))
              /\ HeaderValue(TrimTrailingOptionalWhitespace(SubSeq(rest, 1, n)))
        /\ Fixed
        /\ UNCHANGED <<is_decoding_header, is_final_input, current>>

SkipHeaderValue ==
    LET n == FindFirstNotOf(view, Symbol \ {"\r"})
    IN  /\ Calling("SkipHeaderValue")
        /\ Consume(n)
        /\ IF n < Len(view) THEN SetDecodeFunction("DecodeHeaderLineEnd") ELSE NeedMoreInput
        /\ Fixed
        /\ UNCHANGED <<flags, current, request>>

\* Mutant: the function is not changed at the end of the line.
DecodeHeaderLineEndStays ==
    /\ Calling("DecodeHeaderLineEnd")
    /\ StartsWith(view, kEndOfHeaderLine)
    /\ Consume(2)
    /\ SetDecodeFunction("DecodeHeaderLineEnd")
    /\ Fixed
    /\ UNCHANGED <<flags, current, request>>

DecodeHeaderLineEnd ==
    /\ Calling("DecodeHeaderLineEnd")
    /\ \/ /\ StartsWith(view, kEndOfHeaderLine)
          /\ Consume(2)
          /\ SetDecodeFunction("DecodeHeaderLines")
       \/ IsStartOfEndOfLine(view) /\ NeedMoreInput /\ Consume(0)
       \/ /\ ~StartsWith(view, kEndOfHeaderLine) /\ ~IsStartOfEndOfLine(view)
          /\ Return("400") /\ Consume(0)
    /\ Fixed
    /\ UNCHANGED <<flags, current, request>>
-----------------------------------------------------------------------------
(***************************************************************************)
(* DecodeBuffer and Reset, as ServerConnection calls them                    *)
(***************************************************************************)

\* n symbols more are read into the buffer; also n = 0: a poll without news.
DecodeBuffer(n) ==
    /\ pc = "idle" /\ decode_function # "nullptr"
    /\ n <= Len(unsent) /\ Len(view) + n <= BufferSize
    /\ view' = view \o SubSeq(unsent, 1, n)
    /\ unsent' = SubSeq(unsent, n + 1, Len(unsent))
    /\ view' # << >>
    /\ start_size' = Len(view')
    /\ buffer_is_full' = (Len(view') = BufferSize)
    /\ decoder_status' = "kDecoding"
    /\ pc' = IF is_decoding_header THEN "call" ELSE "body"
    /\ UNCHANGED <<message, decode_function, flags, remaining_content_length,
                   current, request, status>>

\* Mutant: input beyond Content-Length is taken for the end of the body.
DecodeMessageBodyUnchecked ==
    /\ pc = "body"
    /\ is_final_input' = (Len(view) >= remaining_content_length)
    /\ pc' = "call"
    /\ Fixed
    /\ UNCHANGED <<view, status, decode_function, is_decoding_header,
                   found_content_length, remaining_content_length, current, request>>

\* The start of DecodeMessageBody, whose at_end_of_input becomes true together
\* with is_final_input: the caller's is always false.
DecodeMessageBody ==
    /\ pc = "body"
    /\ \/ /\ Len(view) > remaining_content_length
          /\ Return("413")
          /\ UNCHANGED is_final_input
       \/ /\ Len(view) = remaining_content_length
          /\ is_final_input' = TRUE
          /\ pc' = "call"
          /\ UNCHANGED <<status, decode_function>>
       \/ /\ Len(view) < remaining_content_length
          /\ IF is_final_input THEN Return("400")
                               ELSE pc' = "call" /\ UNCHANGED <<status, decode_function>>
          /\ UNCHANGED is_final_input
    /\ Fixed
    /\ UNCHANGED <<view, is_decoding_header, found_content_length,
                   remaining_content_length, current, request>>

\* The ends of DecodeMessageBody (no more input can come) and DecodeBuffer (no
\* more input fits).
BodyStatus ==
    IF status = "kNeedMoreInput" /\ ~is_decoding_header /\ is_final_input
      THEN "400" ELSE status
\* Mutant: a full buffer is not noticed.
BufferStatusUnlimited == BodyStatus

BufferStatus ==
    IF BodyStatus = "kNeedMoreInput" /\ buffer_is_full /\ start_size = Len(view)
      THEN "431" ELSE BodyStatus

ReturnFromDecodeBuffer ==
    /\ pc = "return"
    /\ status' = BufferStatus
    /\ \/ /\ BufferStatus = "kNeedMoreInput"
          /\ pc' = "idle"
          /\ UNCHANGED <<decode_function, decoder_status>>
       \/ /\ BufferStatus # "kNeedMoreInput"
          /\ pc' = "done"
          /\ decode_function' = "nullptr"
          /\ decoder_status' = "kDecoded"
    /\ start_size' = 0 /\ buffer_is_full' = FALSE
    /\ UNCHANGED <<input, view, flags, remaining_content_length, current, request>>

\* AlpacaRequest::Reset, which leaves have_average_period alone.
ResetRequest ==
    request' = [http_method |-> "kUnknown", api_group |-> "kUnknown", api |-> "kUnknown",
                do_close |-> FALSE,
                params |-> [p \in BuiltInParameter |->
                               IF p = "AveragePeriod" THEN request.params[p] ELSE << >>]]

\* Mutant: found_content_length stays.
ResetKeepsFound ==
    /\ decode_function' = "DecodeHttpMethod"
    /\ ResetRequest
    /\ is_decoding_header' = TRUE
    /\ is_final_input' = FALSE
    /\ decoder_status' = "kReset"
    /\ UNCHANGED <<found_content_length, remaining_content_length, current>>

Reset ==
    /\ decode_function' = "DecodeHttpMethod"
    /\ ResetRequest
    /\ is_decoding_header' = TRUE
    /\ is_final_input' = FALSE
    /\ found_content_length' = FALSE
    /\ decoder_status' = "kReset"
    /\ UNCHANGED <<remaining_content_length, current>>

\* The client's next request.
Send(m) ==
    /\ message' = m /\ unsent' = Text(m)
    /\ status' = "kNeedMoreInput"
    /\ pc' = "idle"

\* ServerConnection::OnConnect, the last connection having ended at any point.
OnConnect(m) ==
    /\ pc = "done" \/ (pc = "idle" /\ (decode_function = "nullptr" \/ message \in Abandoned))
    /\ Reset
    /\ view' = << >>
    /\ Send(m)
    /\ UNCHANGED locals

\* The end of ServerConnection::OnCanRead after a request was decoded, and the
\* client's next request on the same connection, sent after the response.
NextRequest(m) ==
    /\ pc = "done" /\ status = "200" /\ unsent = << >> /\ view = << >>
    /\ Reset
    /\ Send(m)
    /\ UNCHANGED <<view, locals>>
-----------------------------------------------------------------------------
\* The constructors; the objects have static storage.
Init ==
    /\ message \in Message /\ unsent = << >> /\ view = << >>
    /\ decode_function = "nullptr"
    /\ is_decoding_header = FALSE /\ is_final_input = FALSE
    /\ found_content_length = FALSE
    /\ remaining_content_length = 0
    /\ current = "kUnknown"
    /\ request = [http_method |-> "kUnknown", api_group |-> "kUnknown",
                  api |-> "kUnknown", do_close |-> FALSE,
                  params |-> [p \in BuiltInParameter |-> << >>]]
    /\ decoder_status = "kReset"
    /\ start_size = 0 /\ buffer_is_full = FALSE
    /\ status = "kNeedMoreInput"
    /\ pc = "idle"

CallDecodeFunction ==
    \/ NameIncomplete \/ BadTerminator
    \/ ProcessHttpMethod \/ MatchStartOfPath \/ ProcessApiGroup
    \/ ProcessManagementType \/ ProcessManagementMethod \/ ProcessApiVersion
    \/ ProcessDeviceType \/ ProcessDeviceNumber \/ ProcessDeviceMethod
    \/ DecodeEndOfPath \/ MatchHttpVersion
    \/ ProcessParamName \/ DecodeParamValue \/ DecodeParamSeparator
    \/ DecodeHeaderLines \/ ProcessHeaderName \/ DecodeHeaderValue
    \/ SkipHeaderValue \/ DecodeHeaderLineEnd

DecodeStep == CallDecodeFunction \/ DecodeMessageBody \/ ReturnFromDecodeBuffer

Next ==
    \/ \E n \in 0 .. BufferSize : DecodeBuffer(n)
    \/ DecodeStep
    \/ \E m \in Message : OnConnect(m) \/ NextRequest(m)

Spec == Init /\ [][Next]_vars

\* Decoding proceeds, and what the client has sent arrives, at some poll.
FairSpec ==
    /\ Spec
    /\ WF_vars(DecodeStep)
    /\ SF_vars(\E n \in 1 .. BufferSize : DecodeBuffer(n))
-----------------------------------------------------------------------------
(***************************************************************************)
(* Properties                                                                *)
(***************************************************************************)

\* The TAS_CHECKs of DecodeMessageBody, which stop the device: in the body, a
\* decode function never sees more than Content-Length still allows, so the
\* unsigned remaining_content_length cannot wrap; a body is decoded only for a
\* PUT that announced it, is decoded successfully only to its very end, and
\* more input is requested only while some is missing.
BodyChecks ==
    ~is_decoding_header /\ decode_function # "nullptr" =>
        /\ found_content_length /\ request.http_method = "PUT"
        /\ pc = "call" => Len(view) <= remaining_content_length
        /\ pc = "return" /\ status = "200" => remaining_content_length = 0
        /\ pc = "idle" => Len(view) < remaining_content_length

\* DecodeEndOfPath is called only with the symbol that ended the path in view
\* (a DCHECK), and a DecodeBuffer that needs more input leaves a function that
\* can start from whatever arrives next.
EndOfPathInView ==
    decode_function = "DecodeEndOfPath" => pc # "idle" /\ view # << >>

\* SetDecodeFunction's TAS_CHECK: a function that does not finish hands over to
\* another one.  With it, the loop over decode functions has no cycle that
\* consumes nothing.
HandsOver ==
    [][pc = "call" /\ pc' = "call" => decode_function' # decode_function]_vars

\* "Shouldn't get here unless support for a new method is added": the end of
\* the headers of a request is not an internal error of the server.
NoInternalError == pc = "done" => status # "500"

\* The TAS_CHECK of DecodeMessageBody's loop in debug builds: a decode function
\* that is called without any input notices that there is not enough, and does
\* not hand over to another one.
EmptyBufferEndsLoop ==
    [][pc = "call" /\ ~is_decoding_header /\ view = << >> => pc' # "call"]_vars

\* A client that stays connected gets a result for every complete request.
EveryRequestGetsResult ==
    []<><<\E m \in Message : OnConnect(m)>>_vars \/ []<>(pc = "done" \/ decode_function = "nullptr")
=============================================================================
