---------------------------- MODULE MCRequestDecoder ----------------------------
(* RequestDecoder for TLC: families of requests that differ in one part, valid *)
(* and not, so that every decode function sees every kind of input.            *)
EXTENDS RequestGrammar

Path(text, api) == [text |-> text, api |-> api]
DevicePath == Path(<<"/", "api", "/", "v1", "/", "camera", "/", "zero", "/", "name">>, "kDeviceApi")
ServerSetupPath == Path(<<"/", "setup">>, "kServerSetup")
Paths ==
    {DevicePath, ServerSetupPath,
     Path(<<"/", "setup", "/", "v1", "/", "camera", "/", "zero", "/", "setup">>, "kDeviceSetup"),
     Path(<<"/", "management", "/", "apiversions">>, "kManagementApiVersions"),
     Path(<<"/", "management", "/", "v1", "/", "description">>, "kManagementDescription"),
     Path(<<"/", "management", "/", "v1", "/", "configureddevices">>,
          "kManagementConfiguredDevices"),
     Path(<<"api">>, "none"), Path(<<"/", "kUnknown">>, "none"), Path(<<"/", "api">>, "none"),
     Path(<<"/", "management", "/", "v1">>, "none"),
     Path(<<"/", "management", "/", "v1", "/", "kUnknown">>, "none"),
     Path(<<"/", "management", "/", "apiversions", "/">>, "none"),
     Path(<<"/", "api", "/", "kUnknown", "/">>, "none"),
     Path(<<"/", "api", "/", "v1", "/", "kUnknown", "/">>, "none"),
     Path(<<"/", "api", "/", "v1", "/", "camera", "/", "kUnknown", "/">>, "none"),
     Path(<<"/", "api", "/", "v1", "/", "camera", "/", "zero", "/", "setup">>, "none"),
     Path(<<"/", "api", "/", "v1", "/", "camera", "/", "zero", "/", "name", "/">>, "none")}

Param(name, value) == [name |-> name, value |-> value]
Header(name, value) == [name |-> name, value |-> value]
Length(word) == Header("Content-Length", <<word>>)

Get == [method |-> "GET", path |-> ServerSetupPath, version |-> "HTTP/1.1",
        query |-> << >>, headers |-> << >>, body |-> << >>, amps |-> 1, trail |-> 0]
Put == [Get EXCEPT !.method = "PUT", !.path = DevicePath, !.headers = <<Length("zero")>>]
Four == <<"one", "one", "one", "one">>

StartLines ==
    {[Get EXCEPT !.path = path] : path \in Paths}
      \cup {[Put EXCEPT !.path = path] : path \in {p \in Paths : ReadOnly(p)}}
      \cup {[Get EXCEPT !.method = "kUnknown"], [Get EXCEPT !.version = "kUnknown"]}

Queries ==
    {[Get EXCEPT !.query = query, !.amps = amps, !.trail = amps - 1] :
        query \in {<<Param("ClientID", <<"one">>)>>,
                   <<Param("ClientID", <<"true">>)>>,
                   <<Param("kUnknown", Four)>>,
                   <<Param("kUnknown", <<"one", "=">>), Param("Connected", <<"true">>)>>,
                   <<Param("ClientID", <<"one">>), Param("ClientID", <<"one">>)>>},
        amps \in 1 .. 2}

HeaderLines ==
    {[base EXCEPT !.headers = @ \o headers] :
        base \in {Get, Put},
        headers \in {<<Header("Connection", <<"close">>)>>,
                     <<Header("Connection", <<"one", " ">>), Header("kUnknown", Four \o Four)>>,
                     <<Header("Date", Four)>>, <<Header("Content-Type", <<"one">>)>>,
                     <<Length("three")>>, <<Length("true")>>, <<Length("huge")>>,
                     <<Header("Content-Type", <<"form">>), Length("zero")>>}}
      \cup {[Put EXCEPT !.headers = << >>], [Put EXCEPT !.headers = <<Length("huge")>>]}

\* A body has the length that the header says.
LengthOf(n) == CHOOSE word \in DOMAIN Numeral : Numeral[word] = n
PutBody(query, body, amps, trail) ==
    [Put EXCEPT !.headers = <<Length(LengthOf(Len(ParamsText(body, amps, trail))))>>,
                !.query = query, !.body = body, !.amps = amps, !.trail = trail]
ClientID == <<Param("ClientID", <<"one">>)>>
Two == <<Param("SensorName", <<"humidity">>), Param("Action", <<"one">>)>>
Bodies ==
    {PutBody(<< >>, ClientID, 1, trail) : trail \in 0 .. 2}
      \cup {PutBody(ClientID, Two, 1, 0), PutBody(<< >>, Two, 2, 1)}
      \cup {PutBody(ClientID, ClientID, 1, 0),
            PutBody(<< >>, <<Param("State", << >>)>>, 1, 0),
            PutBody(<< >>, <<Param("kUnknown", Four)>>, 1, 0),
            PutBody(<< >>, <<Param("kUnknown", Four)>>, 1, 2),
            [PutBody(<< >>, ClientID, 1, 1) EXCEPT !.headers = <<Length("three")>>]}

MCMessage == StartLines \cup Queries \cup HeaderLines \cup Bodies
MCAbandoned == {PutBody(<< >>, ClientID, 1, 0)}
TextOf == [m \in MCMessage |-> RequestText(m)]
MCText(m) == TextOf[m]

HeadMessage == {[Get EXCEPT !.method = "HEAD"]}
AverageMessage == {PutBody(<< >>, <<Param("AveragePeriod", <<"one">>)>>, 1, 0)}
EmptyValueMessage == {PutBody(<< >>, <<Param("Action", << >>)>>, 1, 0)}
=============================================================================
