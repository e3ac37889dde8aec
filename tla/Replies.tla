-------------------------------- MODULE Replies --------------------------------
(***************************************************************************)
(* What a handler hands to WriteResponse (src/alpaca_response.cpp).  A value  *)
(* is as in module Json; it is a sequence because a method may have none.    *)
(***************************************************************************)
EXTENDS Sequences

Reply(status, type, value, error) ==
    [status |-> status, type |-> type, value |-> value, error |-> error]

ValueReply(value)      == Reply(200, "json", <<value>>, << >>)
OkReply                == Reply(200, "json", << >>, << >>)
AscomErrorReply(error) == Reply(200, "json", << >>, <<error>>)
HtmlReply(text)        == Reply(200, "html", <<[string |-> text]>>, << >>)
HttpErrorReply(status, text) == Reply(status, "plain", <<[string |-> text]>>, << >>)

Error(number, message)   == [number |-> number, message |-> message]
NotImplemented           == Error(1024, <<"Property or method not implemented">>)
InvalidValue             == Error(1025, <<"Invalid value">>)
NotConnected             == Error(1031, <<"Not connected">>)
ActionNotImplemented     == Error(1036, <<"Action not implemented">>)
ParameterInvalid(name)   == Error(1025, <<"Invalid parameter: ", name>>)
ParameterMissing(name)   == Error(1026, <<"Missing parameter: ", name>>)

IsError(r) == r.status # 200 \/ r.error # << >>

Text(word) == [string |-> <<word>>]
Property(name, value) == <<[name |-> <<name>>, value |-> value]>>

\* AscomErrorResponse answers a copy of the request with do_close set.
Closes(request, reply) == request.do_close \/ reply.error # << >> \/ reply.status # 200
=============================================================================
