----------------------------- MODULE RequestGrammar -----------------------------
(***************************************************************************)
(* What a request means, independently of how the decoder works: requests as *)
(* structured values, their text, and the result that decoding them should   *)
(* have, whatever pieces the text arrives in.                                *)
(*                                                                           *)
(* A request is a record                                                     *)
(*   method, version   words                                                 *)
(*   path              [text, api], api = "none" if there is no such path    *)
(*   query, body       sequences of parameters [name, value], with amps      *)
(*                     separators between two and trail of them at the end   *)
(*   headers           a sequence of [name, value]                           *)
(* Decoding reports the first part that is wrong.                            *)
(***************************************************************************)
EXTENDS RequestDecoder, SequencesExt

Amps(n) == [i \in 1 .. n |-> "&"]
ParamText(param) == <<param.name, "=">> \o param.value
\* Parameters as text: separators between them, and after the last.
ParamsText(params, amps, trail) ==
    FlattenSeq([i \in DOMAIN params |->
                   ParamText(params[i])
                     \o Amps(IF i = Len(params) THEN trail ELSE amps)])
BodyText(m) == ParamsText(m.body, m.amps, m.trail)

RequestText(m) ==
    <<m.method, " ">> \o m.path.text
      \o (IF m.query = << >> THEN << >> ELSE <<"?">> \o ParamsText(m.query, m.amps, m.trail))
      \o <<" ", m.version, "\r", "\n">>
      \o FlattenSeq([i \in DOMAIN m.headers |->
                        <<m.headers[i].name, ":", " ">> \o m.headers[i].value \o <<"\r", "\n">>])
      \o <<"\r", "\n">>
      \o BodyText(m)

\* The result of each part of the request, "ok" or the status that reports it.
MethodStatus(m) == IF m.method \in {"GET", "PUT"} THEN "ok" ELSE "501"
\* Only the API of the devices may be written to.
ReadOnly(path) == \E group \in {"management", "setup"} : StartsWith(path.text, <<"/", group>>)
PathStatus(m) ==
    CASE ReadOnly(m.path) /\ m.method = "PUT" -> "405"
      [] m.path.api = "none" -> "400"
      [] OTHER -> "ok"

\* A value has to fit into the buffer with what ends it, which may be the end of
\* the body; a parameter has at most one value, of its type.
ParamStatus(params, i, at_end) ==
    CASE Len(params[i].value) + (IF at_end THEN 0 ELSE 1) > BufferSize -> "431"
      [] /\ params[i].name \in BuiltInParameter
         /\ \/ ~ConvertsTo(params[i].name, params[i].value)
            \/ \E j \in 1 .. (i - 1) : params[j].name = params[i].name -> "400"
      [] OTHER -> "ok"
QueryStatuses(m) == [i \in DOMAIN m.query |-> ParamStatus(m.query, i, FALSE)]
BodyStatuses(m) ==
    LET all == m.query \o m.body
    IN  [i \in DOMAIN m.body |->
            ParamStatus(all, Len(m.query) + i, i = Len(m.body) /\ m.trail = 0)]

VersionStatus(m) == IF m.version = "HTTP/1.1" THEN "ok" ELSE "505"

\* The length of the body may be given once, for a PUT.
HeaderStatus(m, i) ==
    LET header == m.headers[i]
        repeated == \E j \in 1 .. (i - 1) : m.headers[j].name = "Content-Length"
    IN  CASE header.name \in HttpHeader /\ Len(header.value) + 1 > BufferSize -> "431"
          [] header.name = "Content-Length" ->
               (CASE ~Converted(header.value) -> "400"
                  [] ContentLength(header.value) > kMaxPayloadSize -> "413"
                  [] repeated /\ ContentLength(header.value) > 0 -> "413"
                  [] repeated -> "400"
                  [] ContentLength(header.value) > 0 /\ m.method # "PUT" -> "400"
                  [] OTHER -> "ok")
          [] header.name = "Content-Type" ->
               (IF m.method = "PUT" /\ header.value # <<"form">> THEN "415" ELSE "ok")
          [] OTHER -> "ok"
HeaderStatuses(m) == [i \in DOMAIN m.headers |-> HeaderStatus(m, i)]

LengthStatus(m) ==
    IF m.method = "PUT" /\ \A i \in DOMAIN m.headers : m.headers[i].name # "Content-Length"
      THEN "411" ELSE "ok"

Statuses(m) ==
    <<MethodStatus(m), PathStatus(m)>> \o QueryStatuses(m) \o <<VersionStatus(m)>>
      \o HeaderStatuses(m) \o <<LengthStatus(m)>> \o BodyStatuses(m)

ExpectedStatus(m) ==
    LET wrong == {i \in DOMAIN Statuses(m) : Statuses(m)[i] # "ok"}
    IN  IF wrong = {} THEN "200"
        ELSE Statuses(m)[CHOOSE i \in wrong : \A j \in wrong : i <= j]

\* The value of a parameter in the decoded request.
ExpectedValue(m, p) ==
    LET given == SelectSeq(m.query \o m.body, LAMBDA param : param.name = p)
    IN  IF given = << >> THEN << >> ELSE given[1].value
ExpectedClose(m) ==
    \E i \in DOMAIN m.headers :
        m.headers[i].name = "Connection" /\ m.headers[i].value = <<"close">>

\* What the client sends after the end of the body.
Excess(m) ==
    LET lengths == SelectSeq(m.headers, LAMBDA header : header.name = "Content-Length")
        length == IF lengths = << >> THEN 0 ELSE ContentLength(lengths[1].value)
    IN  SubSeq(BodyText(m), length + 1, Len(BodyText(m)))

\* However the text of a request is cut into pieces, and whatever the decoder
\* was used for before, it reports what the request means; if that is success,
\* the text is consumed to its end and the AlpacaRequest holds what it says.
\* A body that is followed by more input may be refused for that.
DecodesAsSent ==
    pc = "done" =>
        /\ status = ExpectedStatus(message) \/ (status = "413" /\ Excess(message) # << >>)
        /\ status = "200" =>
              /\ view \o unsent = Excess(message)
              /\ request.http_method = message.method
              /\ request.api = message.path.api
              /\ request.do_close = ExpectedClose(message)
              /\ \A p \in BuiltInParameter : request.params[p] = ExpectedValue(message, p)
=============================================================================
