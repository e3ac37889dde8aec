-------------------------------- MODULE Response --------------------------------
(***************************************************************************)
(* The text of an HTTP response: what WriteResponse (src/alpaca_response.cpp) *)
(* prints, and how the client side reads it                                  *)
(* (extras/test_tools/http_response.cpp).  Text is a sequence of units, as   *)
(* in module Json; a line ends with the two units CR and LF.                 *)
(***************************************************************************)
EXTENDS Json, Replies

Eol == <<"CR", "LF">>
MimeType == [json |-> "application/json", plain |-> "text/plain", html |-> "text/html"]

ReasonPhrase(status) ==
    CASE status = 200 -> <<"OK">>
      [] status = 400 -> <<"Bad Request">>
      [] status = 405 -> <<"Method Not Allowed">>
      [] status = 406 -> <<"Not Acceptable">>
      [] status = 411 -> <<"Length Required">>
      [] status = 413 -> <<"Payload Too Large">>
      [] status = 415 -> <<"Unsupported Media Type">>
      [] status = 431 -> <<"Request Header Fields Too Large">>
      [] status = 500 -> <<"Internal Server Error">>
      [] status = 501 -> <<"Method Not Implemented">>
      [] status = 505 -> <<"HTTP Version Not Supported">>
      [] OTHER -> << >>

WriteEolHeaderName(name) == Eol \o <<name, ":", " ">>

\* HttpResponseHeader::printTo.
PrintHeader(header) ==
    <<"HTTP/1.1", " ", ToString(header.status_code), " ">>
    \o ReasonPhrase(header.status_code)
    \o WriteEolHeaderName("Server") \o <<"TinyAlpacaServer">>
    \o (IF header.do_close THEN WriteEolHeaderName("Connection") \o <<"close">> ELSE << >>)
    \o WriteEolHeaderName("Content-Type") \o <<MimeType[header.content_type]>>
    \o WriteEolHeaderName("Content-Length") \o <<ToString(header.content_length)>>
    \o Eol \o Eol
-----------------------------------------------------------------------------
(* The JSON of a reply: the Value if there is one, then what                   *)
(* JsonMethodResponse adds.  request is as in module Devices, with the         *)
(* transaction id that the server gave it.                                     *)

MethodProperties(request, reply) ==
    (IF "ClientTransactionID" \in DOMAIN request.params
       THEN Property("ClientTransactionID", [int |-> request.params.ClientTransactionID])
       ELSE << >>)
    \o Property("ServerTransactionID", [int |-> request.server_transaction_id])
    \o (IF reply.error = << >> THEN << >>
        ELSE Property("ErrorNumber", [int |-> reply.error[1].number])
             \o Property("ErrorMessage", [string |-> reply.error[1].message]))

JsonOf(request, reply) ==
    [object |-> (IF reply.value = << >> THEN << >> ELSE Property("Value", reply.value[1]))
                \o MethodProperties(request, reply)]

Body(request, reply) ==
    IF reply.type = "json" THEN Encode(JsonOf(request, reply)) ELSE reply.value[1].string

\* Mutant: the end of the line that follows the body is not counted.
OkResponseUncounted(request, reply) ==
    PrintHeader([status_code |-> 200, content_type |-> reply.type,
                 content_length |-> Len(Body(request, reply)),
                 do_close |-> Closes(request, reply)])
    \o (IF request.http_method = "HEAD" THEN << >> ELSE Body(request, reply) \o Eol)

\* OkResponse: a first pass over the source counts, a second one prints.
OkResponse(request, reply) ==
    PrintHeader([status_code |-> 200, content_type |-> reply.type,
                 content_length |-> Len(Body(request, reply)) + 2,
                 do_close |-> Closes(request, reply)])
    \o (IF request.http_method = "HEAD" THEN << >> ELSE Body(request, reply) \o Eol)

\* HttpErrorResponse prints the body whatever the method.
HttpErrorResponse(reply) ==
    LET body == reply.value[1].string
        status == IF reply.status < 400 THEN 500 ELSE reply.status
    IN  PrintHeader([status_code |-> status, content_type |-> "plain",
                     content_length |-> Len(body), do_close |-> TRUE]) \o body

WriteResponse(request, reply) ==
    IF reply.status = 200 THEN OkResponse(request, reply) ELSE HttpErrorResponse(reply)
-----------------------------------------------------------------------------
(* The client *)

\* Where the text of the header ends: before the first blank line.
HeaderEnds(text) ==
    {i \in 1 .. (Len(text) - 4) : SubSeq(text, i + 1, i + 4) = Eol \o Eol}

\* HttpResponse::GetHeaderValues.
GetHeaderValues(header, name) ==
    {header[i + 3] : i \in {j \in 1 .. (Len(header) - 3) :
                               SubSeq(header, j, j + 2) = <<name, ":", " ">>}}
HasHeaderValue(header, name, value) == value \in GetHeaderValues(header, name)

\* HttpResponse::Make, reading from a stream of responses to requests with the
\* given method: the set of [status, close, body, beyond] that text starts with,
\* none if it has no complete response.  The client looks for as much body as
\* Content-Length says, none after a HEAD request.
Make(text, http_method) ==
    LET ends    == HeaderEnds(text)
        header  == SubSeq(text, 1, Min(ends))
        beyond  == SubSeq(text, Min(ends) + 5, Len(text))
        json    == HasHeaderValue(header, "Content-Type", "application/json")
        lengths == GetHeaderValues(header, "Content-Length")
        Fields(size) ==
            [status |-> header[3],
             close  |-> HasHeaderValue(header, "Connection", "close"),
             body   |-> IF http_method = "HEAD" THEN {}
                        ELSE IF json THEN Parse(SubSeq(beyond, 1, size))
                        ELSE {[string |-> SubSeq(beyond, 1, size)]},
             beyond |-> IF http_method = "HEAD" THEN beyond
                        ELSE SubSeq(beyond, size + 1, Len(beyond))]
    IN  IF ends = {} THEN {}
        ELSE {Fields(size) : size \in {n \in 0 .. Len(beyond) :
                                          http_method = "HEAD" \/ lengths = {ToString(n)}}}
-----------------------------------------------------------------------------
\* What a response reads as, if it is the one to this answer.
ReadsAs(response, answer) ==
    /\ response.status = ToString(answer.reply.status)
    /\ response.close = Closes(answer.request, answer.reply)
    /\ response.body = IF answer.reply.type = "json"
                         THEN {Meaning(JsonOf(answer.request, answer.reply))}
                       ELSE IF answer.reply.status = 200
                         THEN {[string |-> answer.reply.value[1].string \o Eol]}
                         ELSE {answer.reply.value[1]}
=============================================================================
