-------------------------------- MODULE Devices --------------------------------
(***************************************************************************)
(* The devices of the examples behind their adapters: the cover calibrator   *)
(* and its LED switches (examples/CoverCalibrator) and the weather box       *)
(* (examples/AM_WeatherBox), reached by AlpacaDevices::DispatchDeviceRequest  *)
(* through CoverCalibratorAdapter, SwitchAdapter, ObservingConditionsAdapter *)
(* and DeviceImplBase.                                                       *)
(*                                                                           *)
(* A request is what the decoder fills in: a record with the fields api,     *)
(* http_method, device_type, device_number, method, do_close and params, the *)
(* record of the parameters that have been set.  Values of switches are in   *)
(* halves: 2 is 1.0.                                                         *)
(***************************************************************************)
EXTENDS Replies, Integers, FiniteSets, TLC

CONSTANTS
    Switches,           \* 0 .. GetMaxSwitch() - 1, one for each LED channel
    Jumpers,            \* the channels whose enable pin is connected
    CoverFitted,        \* whether the enable pin of the cover is
    kMaxBrightness,
    UInt32Values        \* how many there are: 2^32

ASSUME DevicesAssumption ==
    /\ IsFiniteSet(Switches) /\ Switches = 0 .. (Cardinality(Switches) - 1)
    /\ Jumpers \subseteq Switches
    /\ CoverFitted \in BOOLEAN
    /\ kMaxBrightness \in Nat /\ UInt32Values \in Nat
    /\ 2 * kMaxBrightness < UInt32Values

VARIABLES
    calibrator_on_, brightness_, enabled_led_channels_, pulse_count,
    cover_status,       \* Cover::GetCoverStatus
    ir_therm_ready_,    \* of the weather box
    reply               \* to the last request

settings == <<calibrator_on_, brightness_, enabled_led_channels_>>
devices == <<settings, pulse_count, cover_status, ir_therm_ready_>>
-----------------------------------------------------------------------------
Has(request, name) == name \in DOMAIN request.params
\* table[request.method], or the reply that the caller falls back to.
Lookup(table, request, default) ==
    IF request.method \in DOMAIN table THEN table[request.method] ELSE default
-----------------------------------------------------------------------------
(* GET *)

\* DeviceImplBase::HandleGetRequest.
CommonGet(info) ==
    [Connected        |-> ValueReply([bool |-> TRUE]),
     Description      |-> ValueReply(Text(info.description)),
     DriverInfo       |-> ValueReply(Text("driver info")),
     DriverVersion    |-> ValueReply(Text("driver version")),
     InterfaceVersion |-> ValueReply([int |-> 1]),
     Name             |-> ValueReply([string |-> info.name]),
     SupportedActions |-> ValueReply([array |-> << >>])]

IsCalibratorHardwareEnabled == Jumpers # {}
GetLedChannelEnabled(id) == id \in Jumpers /\ id \in enabled_led_channels_

ECoverStatus == [kNotPresent |-> 0, kClosed |-> 1, kMoving |-> 2, kOpen |-> 3, kUnknown |-> 4]
CalibratorState ==
    IF ~IsCalibratorHardwareEnabled THEN 0 ELSE IF ~calibrator_on_ THEN 1 ELSE 3

\* CoverCalibratorAdapter::HandleGetRequest with the methods of CoverCalibrator.
CoverCalibratorGet ==
    [Brightness      |-> IF IsCalibratorHardwareEnabled
                           THEN ValueReply([int |-> brightness_])
                           ELSE AscomErrorReply(ActionNotImplemented),
     CalibratorState |-> ValueReply([int |-> CalibratorState]),
     CoverState      |-> ValueReply([int |-> ECoverStatus[cover_status]]),
     MaxBrightness   |-> ValueReply([int |-> kMaxBrightness])]

\* SwitchAdapter::ValidateSwitchIdParameter.
ValidSwitchId(request) == Has(request, "Id") /\ request.params.Id \in Switches
SwitchIdError(request) ==
    AscomErrorReply(IF Has(request, "Id") THEN ParameterInvalid("Id")
                                          ELSE ParameterMissing("Id"))
SwitchIdGet == {"CanWrite", "GetSwitch", "GetSwitchDescription", "GetSwitchName",
                "GetSwitchValue", "MinSwitchValue", "MaxSwitchValue", "SwitchStep"}
SwitchIdPut == {"SetSwitch", "SetSwitchName", "SetSwitchValue"}

\* SwitchAdapter::HandleGetRequest with the methods of LedChannelSwitchGroup.
SwitchGet(id) ==
    [CanWrite             |-> ValueReply([bool |-> id \in Jumpers]),
     GetSwitch            |-> ValueReply([bool |-> GetLedChannelEnabled(id)]),
     GetSwitchDescription |-> ValueReply([string |-> <<"Enables LED Channel #", ToString(id),
                                                       ", if hardware is available">>]),
     GetSwitchName        |-> ValueReply([string |-> <<"Enable LED #", ToString(id)>>]),
     GetSwitchValue       |-> ValueReply([double |-> IF GetLedChannelEnabled(id)
                                                       THEN "1.00" ELSE "0.00"]),
     MinSwitchValue       |-> ValueReply([double |-> "0.00"]),
     MaxSwitchValue       |-> ValueReply([double |-> "1.00"]),
     SwitchStep           |-> ValueReply([double |-> "1.00"])]

\* A sensor that the adapter knows and the weather box does not have.
Absent == {"CloudCover", "DewPoint", "Humidity", "Pressure", "SkyBrightness", "SkyQuality",
           "StarFullWidthHalfMax", "WindDirection", "WindGust", "WindSpeed"}
SensorDescription(sensor) ==
    CASE sensor \in {"SkyTemperature", "Temperature"} -> ValueReply(Text("MLX90614"))
      [] sensor = "RainRate" -> ValueReply(Text("RG-11"))
      [] OTHER -> AscomErrorReply(InvalidValue)
IrReading(reading) ==
    IF ir_therm_ready_ THEN ValueReply([double |-> reading])
                       ELSE AscomErrorReply(NotConnected)

\* ObservingConditionsAdapter::HandleGetRequest with the methods of
\* AMWeatherBox.  A reading of the thermometer may not be a number.
ObservingConditionsGet(request, reading, raining) ==
    [AveragePeriod  |-> ValueReply([double |-> "0.00"]),
     RainRate       |-> ValueReply([double |-> IF raining THEN "10.00" ELSE "0.00"]),
     SkyTemperature |-> IrReading(reading),
     Temperature    |-> IrReading(reading),
     SensorDescription |-> IF Has(request, "SensorName")
                             THEN SensorDescription(request.params.SensorName)
                             ELSE AscomErrorReply(ParameterMissing("SensorName")),
     TimeSinceLastUpdate |-> IF Has(request, "SensorName")
                               THEN AscomErrorReply(ActionNotImplemented)
                               ELSE AscomErrorReply(ParameterMissing("SensorName"))]
    @@ [method \in Absent |-> AscomErrorReply(ActionNotImplemented)]

\* The methods that only this type of device has.
TypeGet(request, reading, raining) ==
    CASE request.device_type = "covercalibrator" -> CoverCalibratorGet
      [] request.device_type = "switch" ->
             [MaxSwitch |-> ValueReply([int |-> Cardinality(Switches)])]
             @@ IF request.method \notin SwitchIdGet THEN << >>
                ELSE IF ValidSwitchId(request) THEN SwitchGet(request.params.Id)
                ELSE request.method :> SwitchIdError(request)
      [] request.device_type = "observingconditions" ->
             ObservingConditionsGet(request, reading, raining)

HandleGetRequest(request, info) ==
    /\ \E reading \in {"12.50", "NaN"}, raining \in BOOLEAN :
           reply' = Lookup(TypeGet(request, reading, raining) @@ CommonGet(info),
                           request, AscomErrorReply(NotImplemented))
    /\ UNCHANGED devices
-----------------------------------------------------------------------------
(* PUT.  Every handler sets reply and leaves alone the rest that it does not    *)
(* mention.                                                                   *)

Refuse(error) == reply' = AscomErrorReply(error) /\ UNCHANGED devices
Accept == reply' = OkReply

\* The channels that are enabled show brightness; the others are not written.
SetPulseCounts(on, brightness) ==
    pulse_count' = [id \in Switches |-> IF id \in on THEN brightness ELSE pulse_count[id]]

\* CoverCalibrator::SetCalibratorBrightness, whose parameter is unsigned.
SetCalibratorBrightness(brightness) ==
    IF ~IsCalibratorHardwareEnabled THEN Refuse(NotImplemented)
    ELSE IF brightness > kMaxBrightness THEN Refuse(InvalidValue)
    ELSE /\ Accept
         /\ calibrator_on_' = TRUE
         /\ brightness_' = brightness
         /\ SetPulseCounts({id \in Switches : GetLedChannelEnabled(id)}, brightness)
         /\ UNCHANGED <<enabled_led_channels_, cover_status, ir_therm_ready_>>

\* Conversion of an int32_t.
AsUnsigned(n) == IF n < 0 THEN n + UInt32Values ELSE n

\* CoverCalibratorAdapter::HandlePutCalibratorOn.
HandlePutCalibratorOn(request) ==
    IF ~Has(request, "Brightness") THEN Refuse(ParameterMissing("Brightness"))
    ELSE IF request.params.Brightness > kMaxBrightness
      THEN Refuse(ParameterInvalid("Brightness"))
    ELSE SetCalibratorBrightness(AsUnsigned(request.params.Brightness))

SetCalibratorOff ==
    IF ~IsCalibratorHardwareEnabled THEN Refuse(NotImplemented)
    ELSE /\ Accept
         /\ calibrator_on_' = FALSE
         /\ brightness_' = 0
         /\ SetPulseCounts(Switches, 0)
         /\ UNCHANGED <<enabled_led_channels_, cover_status, ir_therm_ready_>>

\* MoveCover and HaltCoverMotion reply that all is well also when the motor did
\* not start or was not running; module Cover has what they do in detail.
MoveOrHaltCover(statuses) ==
    IF ~CoverFitted THEN Refuse(NotImplemented)
    ELSE /\ Accept
         /\ cover_status' \in statuses
         /\ UNCHANGED <<settings, pulse_count, ir_therm_ready_>>
MoveCover == MoveOrHaltCover({cover_status, "kMoving"})
HaltCoverMotion ==
    MoveOrHaltCover({IF cover_status = "kMoving" THEN "kUnknown" ELSE cover_status})

\* Mutant: switching a channel turns the calibrator on, at whatever brightness.
SetLedChannelEnabledReapplies(id, state) ==
    /\ enabled_led_channels_' = IF state THEN enabled_led_channels_ \union {id}
                                         ELSE enabled_led_channels_ \ {id}
    /\ calibrator_on_' = TRUE
    /\ SetPulseCounts(enabled_led_channels_' \intersect Jumpers, brightness_)
    /\ UNCHANGED <<brightness_, cover_status, ir_therm_ready_>>

\* CoverCalibrator::SetLedChannelEnabled.  A brightness above 0 is set again, by
\* SetCalibratorBrightness, which also turns the calibrator on.
SetLedChannelEnabled(id, state) ==
    /\ enabled_led_channels_' = IF state THEN enabled_led_channels_ \union {id}
                                         ELSE enabled_led_channels_ \ {id}
    /\ calibrator_on_' = (calibrator_on_ \/ brightness_ > 0)
    /\ SetPulseCounts(IF brightness_ > 0 THEN enabled_led_channels_' \intersect Jumpers
                                         ELSE {}, brightness_)
    /\ UNCHANGED <<brightness_, cover_status, ir_therm_ready_>>

\* LedChannelSwitchGroup::SetSwitch.
SetSwitch(id, state) ==
    IF id \notin Jumpers THEN Refuse(NotImplemented)
                         ELSE Accept /\ SetLedChannelEnabled(id, state)

\* SwitchAdapter::HandlePutRequest, the methods with an id.
HandlePutSwitch(request) ==
    IF ~ValidSwitchId(request) THEN reply' = SwitchIdError(request) /\ UNCHANGED devices
    ELSE CASE request.method = "SetSwitchName" -> Refuse(NotImplemented)
           [] request.method = "SetSwitch" ->
                  IF ~Has(request, "State") THEN Refuse(ParameterMissing("State"))
                  ELSE SetSwitch(request.params.Id, request.params.State)
           [] request.method = "SetSwitchValue" ->
                  IF ~Has(request, "Value") THEN Refuse(ParameterMissing("Value"))
                  ELSE IF request.params.Value \notin 0 .. 2
                    THEN Refuse(ParameterInvalid("Value"))
                  ELSE SetSwitch(request.params.Id, request.params.Value >= 1)

\* ObservingConditionsAdapter::HandlePutAveragePeriod; MaxAveragePeriod is 0.
HandlePutAveragePeriod(request) ==
    /\ reply' = IF ~Has(request, "AveragePeriod")
                  THEN AscomErrorReply(ParameterMissing("AveragePeriod"))
                ELSE IF request.params.AveragePeriod # 0
                  THEN AscomErrorReply(ParameterInvalid("AveragePeriod"))
                ELSE OkReply
    /\ UNCHANGED devices

\* AMWeatherBox::Refresh: the thermometer may or may not answer.
Refresh ==
    /\ ir_therm_ready_' \in BOOLEAN
    /\ reply' = IF ir_therm_ready_' THEN OkReply ELSE AscomErrorReply(NotConnected)
    /\ UNCHANGED <<settings, pulse_count, cover_status>>

\* DeviceImplBase::HandlePutRequest: SetConnected accepts every value; no device
\* has supported actions.
HandlePutCommon(request) ==
    /\ reply' = IF request.method # "Connected" THEN AscomErrorReply(NotImplemented)
                ELSE IF Has(request, "Connected") THEN OkReply
                ELSE AscomErrorReply(ParameterMissing("Connected"))
    /\ UNCHANGED devices

HandlePutRequest(request) ==
    CASE request.device_type = "covercalibrator" /\ request.method = "CalibratorOff" ->
             SetCalibratorOff
      [] request.device_type = "covercalibrator" /\ request.method = "CalibratorOn" ->
             HandlePutCalibratorOn(request)
      [] request.device_type = "covercalibrator" /\ request.method \in {"OpenCover", "CloseCover"} ->
             MoveCover
      [] request.device_type = "covercalibrator" /\ request.method = "HaltCover" ->
             HaltCoverMotion
      [] request.device_type = "switch" /\ request.method \in SwitchIdPut ->
             HandlePutSwitch(request)
      [] request.device_type = "observingconditions" /\ request.method = "AveragePeriod" ->
             HandlePutAveragePeriod(request)
      [] request.device_type = "observingconditions" /\ request.method = "Refresh" ->
             Refresh
      [] OTHER -> HandlePutCommon(request)

\* DeviceImplBase::HandleDeviceApiRequest.
HandleDeviceApiRequest(request, info) ==
    IF request.http_method = "PUT" THEN HandlePutRequest(request)
                                   ELSE HandleGetRequest(request, info)

\* MaintainDevice: the thermometer is read again, a moving cover comes to rest.
MaintainDevices ==
    /\ ir_therm_ready_' \in BOOLEAN
    /\ cover_status' \in IF cover_status = "kMoving"
                            THEN {"kMoving", "kOpen", "kClosed", "kUnknown"}
                            ELSE {cover_status}
    /\ UNCHANGED <<settings, pulse_count, reply>>

\* Initialize of the three devices.
DevicesInit ==
    /\ calibrator_on_ = FALSE
    /\ brightness_ = 0
    /\ enabled_led_channels_ = Switches
    /\ pulse_count = [id \in Switches |-> 0]
    /\ cover_status = IF CoverFitted THEN "kClosed" ELSE "kNotPresent"
    /\ ir_therm_ready_ = FALSE
    /\ reply = OkReply
=============================================================================
