----------------------------- MODULE MCAlpacaServer -----------------------------
(* AlpacaServer for TLC: the text of responses as module Response has it, the   *)
(* three devices of the examples, and requests that between them reach every    *)
(* case of the handlers.                                                        *)
EXTENDS AlpacaServer, Response

Info(type, name) ==
    [device_type |-> type, device_number |-> 1, name |-> name,
     description |-> type, unique_id |-> type]

\* The name of the weather box has characters that JSON must escape.
MCDeviceInfos ==
    <<Info("covercalibrator", <<"Cover">>), Info("switch", <<"LEDs">>),
      Info("observingconditions", <<"AM ", "\"", "Box", "\"", "LF", "NUL">>)>>

Request(api, http_method, device_type, method, params) ==
    [api |-> api, http_method |-> http_method, device_type |-> device_type,
     device_number |-> 1, method |-> method, do_close |-> FALSE, params |-> params]
Get(type, method, params) == Request("kDeviceApi", "GET", type, method, params)
Put(type, method, params) == Request("kDeviceApi", "PUT", type, method, params)

CoverRequests ==
    {Get("covercalibrator", method, << >>) :
        method \in {"Brightness", "CalibratorState", "CoverState", "MaxBrightness"}}
    \union {Put("covercalibrator", method, << >>) :
        method \in {"CalibratorOn", "CalibratorOff", "OpenCover", "HaltCover"}}
    \union {Put("covercalibrator", "CalibratorOn", [Brightness |-> b]) :
        b \in (-1) .. (kMaxBrightness + 1)}

SwitchRequests ==
    {Get("switch", "GetSwitchValue", [Id |-> id]) : id \in {-1} \union Switches}
    \union {Get("switch", "GetSwitch", << >>), Get("switch", "MaxSwitch", << >>),
            Get("switch", "GetSwitchName", [Id |-> 1]),
            Put("switch", "SetSwitch", [Id |-> 0]),
            Put("switch", "SetSwitchValue", [Id |-> 0]),
            Put("switch", "SetSwitchName", [Id |-> 0])}
    \union {Put("switch", "SetSwitch", [Id |-> id, State |-> state]) :
                id \in Switches, state \in BOOLEAN}
    \union {Put("switch", "SetSwitchValue", [Id |-> 0, Value |-> v]) : v \in {0, 1, 3}}

WeatherRequests ==
    {Get("observingconditions", method, << >>) :
        method \in {"Temperature", "RainRate", "Humidity", "SensorDescription", "Name"}}
    \union {Get("observingconditions", "SensorDescription", [SensorName |-> "RainRate"]),
            Put("observingconditions", "Refresh", << >>)}
    \union {Put("observingconditions", "AveragePeriod", p) :
                p \in {<< >>, [AveragePeriod |-> 0], [AveragePeriod |-> 1]}}

OtherRequests ==
    {Request(api, "GET", "", "", [ClientTransactionID |-> 7]) :
        api \in {"kManagementApiVersions", "kManagementDescription",
                 "kManagementConfiguredDevices", "kServerSetup", "kAsset"}}
    \union {Request("kDeviceSetup", "GET", "observingconditions", "Setup", << >>),
            Get("dome", "Name", << >>),
            [Get("switch", "Connected", << >>) EXCEPT !.do_close = TRUE],
            Put("switch", "Connected", [Connected |-> TRUE, ClientTransactionID |-> 7]),
            Put("switch", "Connected", << >>), Put("switch", "Action", << >>)}

MCRequests == CoverRequests \union SwitchRequests \union WeatherRequests \union OtherRequests
=============================================================================
