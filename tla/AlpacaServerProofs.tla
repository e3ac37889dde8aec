--------------------------- MODULE AlpacaServerProofs ---------------------------
(***************************************************************************)
(* Proofs about the server from a decoded request to what its client reads   *)
(* (module AlpacaServer), and about the check of its list of devices (module *)
(* DeviceList).                                                              *)
(***************************************************************************)
EXTENDS AlpacaServer, DeviceList, TLAPS, WellFoundedInduction, SequenceTheorems

\* Every non-empty set of numbers has a least one.
LEMMA LeastNumber ==
    ASSUME NEW T \in SUBSET Nat, T # {}
    PROVE  \E m \in T : \A x \in T : m <= x
<1>1. PICK m \in T : \A y \in T : ~(<<y, m>> \in OpToRel(<, Nat))
    BY NatLessThanWellFounded, WFMin, Zenon
<1>2. \A y \in T : ~(y < m)
    BY <1>1 DEF OpToRel
<1> QED
    BY <1>2
-----------------------------------------------------------------------------
(* The list of devices *)

\* A list is a sequence.
LEMMA ListDomain ==
    ASSUME devices_ \in Lists
    PROVE  \E n \in Nat : DOMAIN devices_ = 1 .. n /\ devices_ \in [1 .. n -> Pointers \cup {NULL}]
<1>1. PICK n \in 0 .. MaxDevices : devices_ \in [1 .. n -> Pointers \cup {NULL}]
    BY DEF Lists
<1> QED
    BY <1>1, DeviceListAssumption

\* In a valid list no device has the address of an earlier one from which only
\* devices of its type separate it, although the inner loop stops early: the entry
\* at which it stops is refused itself.
LEMMA NeighbourAddresses ==
    ASSUME devices_ \in Lists, Valid,
           NEW i \in DOMAIN devices_, NEW j \in DOMAIN devices_, i < j,
           \A k \in i .. j : At(k).device_type = At(i).device_type
    PROVE  ~SameAddress(i, j)
<1> SUFFICES ASSUME SameAddress(i, j) PROVE FALSE
    OBVIOUS
<1> DEFINE stops == {k \in (i + 1) .. j : devices_[i] = devices_[k] \/ k = j}
<1>1. PICK n \in Nat : DOMAIN devices_ = 1 .. n
    BY ListDomain
<1>2. i \in Nat /\ j \in Nat /\ i >= 1 /\ j <= n
    BY <1>1
<1>3. PICK k \in stops : \A l \in stops : k <= l
  <2>1. stops \in SUBSET Nat /\ j \in stops
    BY <1>2
  <2> HIDE DEF stops
  <2> QED
    BY <2>1, LeastNumber
<1>4. k \in DOMAIN devices_ /\ i < k /\ k <= j
    BY <1>1, <1>2, <1>3
<1>5. ASSUME NEW l \in (i + 1) .. (k - 1)
      PROVE  ~Breaks(i, l)
  <2>1. l \in DOMAIN devices_ /\ i < l /\ l < j /\ l \notin stops
    BY <1>1, <1>2, <1>3, <1>4
  <2>2. devices_[i] # devices_[l]
    BY <1>1, <1>2, <2>1
  <2>3. At(l).device_type = At(i).device_type
    BY <1>2, <2>1
  <2> QED
    BY <2>2, <2>3 DEF Breaks
<1>6. ~Rejected(i, k)
    BY <1>4, <1>5 DEF Valid, Compared
<1> QED
    BY <1>3, <1>6 DEF Rejected, SameAddress

\* What Initialize returned says whether the list is valid, and tells which
\* devices it initialized.
ListInv ==
    /\ devices_ \in Lists
    /\ result = "false" => ~Valid
    /\ result = "true" => Valid /\ initialized = devices_

\* AlpacaDevices::Initialize refuses a list for a reason that the comment names,
\* and accepts none in which two neighbours of a type, or two devices with others
\* of their type between them, have one address: for lists of every length.
THEOREM DeviceListChecked == DeviceListSpec => []ListChecked
<1>1. DeviceListInit => ListInv
    BY DEF DeviceListInit, ListInv
<1>2. ListInv /\ [DeviceListNext]_deviceListVars => ListInv'
  <2> SUFFICES ASSUME ListInv, [DeviceListNext]_deviceListVars
               PROVE  ListInv'
    OBVIOUS
  <2>1. device' = device /\ devices_' = devices_
    BY DEF DeviceListNext, Initialize, Restart, deviceListVars
  <2>2. Valid' <=> Valid
    BY <2>1 DEF Valid, Compared, Rejected, Breaks, At
  <2>3. CASE Initialize
    BY <2>1, <2>2, <2>3 DEF ListInv, Initialize
  <2>4. CASE Restart
    BY <2>1, <2>4 DEF ListInv, Restart
  <2>5. CASE UNCHANGED deviceListVars
    BY <2>1, <2>2, <2>5 DEF ListInv, deviceListVars
  <2> QED
    BY <2>3, <2>4, <2>5 DEF DeviceListNext
<1>3. ListInv => ListChecked
  <2> SUFFICES ASSUME ListInv PROVE ListChecked
    OBVIOUS
  <2>1. PICK n \in Nat : DOMAIN devices_ = 1 .. n
    BY ListDomain DEF ListInv
  <2>2. ASSUME result = "false"
        PROVE  \/ NULL \in Range(devices_)
               \/ \E i, j \in DOMAIN devices_ :
                      i # j /\ (SameAddress(i, j) \/ At(i).unique_id = At(j).unique_id)
    <3> SUFFICES ASSUME NULL \notin Range(devices_)
                 PROVE  \E i, j \in DOMAIN devices_ :
                            i # j /\ (SameAddress(i, j) \/ At(i).unique_id = At(j).unique_id)
      OBVIOUS
    <3>1. PICK i, j \in DOMAIN devices_ : Compared(i, j) /\ Rejected(i, j)
      BY <2>2 DEF ListInv, Valid
    <3>2. i # j
      BY <2>1, <3>1 DEF Compared
    <3> QED
      BY <3>1, <3>2 DEF Rejected, SameAddress, At
  <2>3. ASSUME result = "true", NEW i \in DOMAIN devices_, NEW j \in DOMAIN devices_, i < j,
               \A k \in i .. j : At(k).device_type = At(i).device_type
        PROVE  ~SameAddress(i, j)
    BY <2>3, NeighbourAddresses DEF ListInv
  <2>4. result = "true" => NULL \notin Range(devices_)
    BY DEF ListInv, Valid
  <2> QED
    BY <2>2, <2>3, <2>4 DEF ListChecked
<1> QED
    BY <1>1, <1>2, <1>3, PTL DEF DeviceListSpec
-----------------------------------------------------------------------------
(* What the devices report is what was set *)

\* The switches set a brightness above 0 again, which turns the calibrator on: it
\* is on already.
SettingsInv ==
    /\ written \in [on : BOOLEAN, brightness : Nat, switch : [Switches -> BOOLEAN]]
    /\ calibrator_on_ \in BOOLEAN /\ brightness_ \in Nat
    /\ brightness_ > 0 => calibrator_on_ = TRUE
    /\ ReadsBack

LEMMA SameSettings ==
    ASSUME SettingsInv, UNCHANGED settings, UNCHANGED written
    PROVE  SettingsInv'
BY DEF SettingsInv, ReadsBack, settings, GetLedChannelEnabled

LEMMA Refused ==
    ASSUME NEW error, Refuse(error)
    PROVE  IsError(reply') /\ UNCHANGED settings
BY DEF Refuse, IsError, AscomErrorReply, Reply, devices

LEMMA ErrorsAreErrors ==
    /\ \A error : IsError(AscomErrorReply(error))
    /\ \A text : IsError(HttpErrorReply(400, text))
    /\ ~IsError(OkReply)
BY DEF IsError, AscomErrorReply, HttpErrorReply, OkReply, Reply

\* HandlePutCalibratorOn accepts a brightness as it is, and only between 0 and the
\* maximum: a negative one is out of range once it is unsigned.
LEMMA CalibratorOn ==
    ASSUME NEW r \in Requests, HandlePutCalibratorOn(r)
    PROVE  \/ IsError(reply') /\ UNCHANGED settings
           \/ /\ Has(r, "Brightness") /\ r.params.Brightness \in Nat
              /\ reply' = OkReply /\ calibrator_on_' = TRUE
              /\ brightness_' = r.params.Brightness
              /\ enabled_led_channels_' = enabled_led_channels_
<1> DEFINE b == r.params.Brightness
<1>1. CASE ~Has(r, "Brightness") \/ b > kMaxBrightness
    BY <1>1, Refused DEF HandlePutCalibratorOn
<1>2. CASE Has(r, "Brightness") /\ ~(b > kMaxBrightness)
  <2>1. SetCalibratorBrightness(AsUnsigned(b))
    BY <1>2 DEF HandlePutCalibratorOn
  <2>2. b \in Int /\ -UInt32Values <= 2 * b /\ b <= kMaxBrightness
    BY <1>2, RequestsAssumption, DevicesAssumption
  <2>3. CASE b < 0
    <3>1. AsUnsigned(b) > kMaxBrightness
      BY <2>2, <2>3, DevicesAssumption DEF AsUnsigned
    <3> QED
      BY <2>1, <3>1, Refused DEF SetCalibratorBrightness
  <2>4. CASE b >= 0
    <3>1. AsUnsigned(b) = b /\ b \in Nat
      BY <2>2, <2>4 DEF AsUnsigned
    <3>2. CASE ~IsCalibratorHardwareEnabled
      BY <2>1, <3>2, Refused DEF SetCalibratorBrightness
    <3>3. CASE IsCalibratorHardwareEnabled
      <4>1. ~(AsUnsigned(b) > kMaxBrightness)
        BY <2>2, <3>1, DevicesAssumption
      <4> QED
        BY <1>2, <2>1, <3>1, <3>3, <4>1 DEF SetCalibratorBrightness, Accept
    <3> QED
      BY <3>2, <3>3
  <2>5. b < 0 \/ b >= 0
    BY <2>2
  <2> QED
    BY <2>3, <2>4, <2>5, Zenon
<1> QED
    BY <1>1, <1>2

LEMMA CalibratorOff ==
    ASSUME SetCalibratorOff
    PROVE  \/ IsError(reply') /\ UNCHANGED settings
           \/ /\ reply' = OkReply /\ calibrator_on_' = FALSE /\ brightness_' = 0
              /\ enabled_led_channels_' = enabled_led_channels_
<1>1. CASE ~IsCalibratorHardwareEnabled
    BY <1>1, Refused DEF SetCalibratorOff
<1>2. CASE IsCalibratorHardwareEnabled
    BY <1>2 DEF SetCalibratorOff, Accept
<1> QED
    BY <1>1, <1>2

\* The state that a request asks for, if HandlePutSwitch accepts it.
StateAsked(r) == IF r.method = "SetSwitch" THEN r.params.State ELSE r.params.Value >= 1

LEMMA SwitchSet ==
    ASSUME NEW r \in Requests, r.method \in SwitchIdPut, HandlePutSwitch(r)
    PROVE  \/ IsError(reply') /\ UNCHANGED settings
           \/ /\ r.method \in {"SetSwitch", "SetSwitchValue"}
              /\ r.params.Id \in Jumpers /\ StateAsked(r) \in BOOLEAN
              /\ reply' = OkReply /\ SetLedChannelEnabled(r.params.Id, StateAsked(r))
<1>1. CASE ~ValidSwitchId(r)
  <2>1. reply' = SwitchIdError(r) /\ UNCHANGED devices
    BY <1>1 DEF HandlePutSwitch
  <2>2. IsError(SwitchIdError(r))
    BY ErrorsAreErrors DEF SwitchIdError
  <2> QED
    BY <2>1, <2>2 DEF devices
<1>2. CASE ValidSwitchId(r) /\ r.method = "SetSwitchName"
    BY <1>2, Refused DEF HandlePutSwitch
<1>3. ASSUME r.method \in {"SetSwitch", "SetSwitchValue"}, StateAsked(r) \in BOOLEAN,
             SetSwitch(r.params.Id, StateAsked(r))
      PROVE  \/ IsError(reply') /\ UNCHANGED settings
             \/ /\ r.params.Id \in Jumpers /\ reply' = OkReply
                /\ SetLedChannelEnabled(r.params.Id, StateAsked(r))
    BY <1>3, Refused DEF SetSwitch, Accept
<1>4. CASE ValidSwitchId(r) /\ r.method = "SetSwitch"
  <2>1. CASE ~Has(r, "State")
    BY <1>4, <2>1, Refused DEF HandlePutSwitch
  <2>2. CASE Has(r, "State")
    <3>1. StateAsked(r) = r.params.State /\ r.params.State \in BOOLEAN
      BY <1>4, <2>2, RequestsAssumption DEF StateAsked
    <3>2. SetSwitch(r.params.Id, StateAsked(r))
      BY <1>4, <2>2, <3>1 DEF HandlePutSwitch
    <3> QED
      BY <1>3, <1>4, <3>1, <3>2
  <2> QED
    BY <2>1, <2>2
<1>5. CASE ValidSwitchId(r) /\ r.method = "SetSwitchValue"
  <2>1. CASE ~Has(r, "Value") \/ r.params.Value \notin 0 .. 2
    BY <1>5, <2>1, Refused DEF HandlePutSwitch
  <2>2. CASE Has(r, "Value") /\ r.params.Value \in 0 .. 2
    <3>1. StateAsked(r) = (r.params.Value >= 1) /\ StateAsked(r) \in BOOLEAN
      BY <1>5, <2>2 DEF StateAsked
    <3>2. SetSwitch(r.params.Id, StateAsked(r))
      BY <1>5, <2>2, <3>1 DEF HandlePutSwitch
    <3> QED
      BY <1>3, <1>5, <3>1, <3>2
  <2> QED
    BY <2>1, <2>2
<1> QED
    BY <1>1, <1>2, <1>4, <1>5 DEF SwitchIdPut

LEMMA OnlyAcceptedWanted ==
    ASSUME NEW r, r.api # "kDeviceApi" \/ r.http_method # "PUT" \/ IsError(reply')
    PROVE  Wanted(r) = written
BY DEF Wanted

LEMMA AcceptedWanted ==
    ASSUME NEW r, r.api = "kDeviceApi", r.http_method = "PUT", ~IsError(reply')
    PROVE  /\ r.method = "CalibratorOn" =>
                  Wanted(r) = [written EXCEPT !.on = TRUE, !.brightness = r.params.Brightness]
           /\ r.method = "CalibratorOff" =>
                  Wanted(r) = [written EXCEPT !.on = FALSE, !.brightness = 0]
           /\ r.method \in {"SetSwitch", "SetSwitchValue"} =>
                  Wanted(r) = [written EXCEPT !.switch[r.params.Id] = StateAsked(r)]
           /\ r.method \notin {"CalibratorOn", "CalibratorOff", "SetSwitch", "SetSwitchValue"} =>
                  Wanted(r) = written
BY DEF Wanted, StateAsked

\* A switch: the other settings stay as they are.
LEMMA SwitchStep ==
    ASSUME SettingsInv, NEW id \in Jumpers, NEW state \in BOOLEAN,
           SetLedChannelEnabled(id, state),
           written' = [written EXCEPT !.switch[id] = state]
    PROVE  SettingsInv'
<1>1. /\ enabled_led_channels_' = IF state THEN enabled_led_channels_ \union {id}
                                           ELSE enabled_led_channels_ \ {id}
      /\ calibrator_on_' = (calibrator_on_ \/ brightness_ > 0)
      /\ brightness_' = brightness_
    BY DEF SetLedChannelEnabled
<1>2. calibrator_on_' = calibrator_on_
    BY <1>1 DEF SettingsInv
<1>3. id \in Switches
    BY DevicesAssumption
<1>4. /\ written' \in [on : BOOLEAN, brightness : Nat, switch : [Switches -> BOOLEAN]]
      /\ written'.on = written.on /\ written'.brightness = written.brightness
      /\ written'.switch[id] = state
      /\ \A other \in Switches : other # id => written'.switch[other] = written.switch[other]
    BY <1>3 DEF SettingsInv
<1>5. ASSUME NEW other \in Jumpers
      PROVE  GetLedChannelEnabled(other)' = written'.switch[other]
  <2>1. other \in Switches /\ GetLedChannelEnabled(other) = written.switch[other]
    BY DevicesAssumption DEF SettingsInv, ReadsBack
  <2>2. CASE other = id
    BY <1>1, <1>4, <2>2 DEF GetLedChannelEnabled
  <2>3. CASE other # id
    BY <1>1, <1>4, <2>1, <2>3 DEF GetLedChannelEnabled
  <2> QED
    BY <2>2, <2>3
<1> QED
    BY <1>1, <1>2, <1>4, <1>5 DEF SettingsInv, ReadsBack

LEMMA PutStep ==
    ASSUME SettingsInv, NEW r \in Requests, r.api = "kDeviceApi", r.http_method = "PUT",
           HandlePutRequest(r), written' = Wanted(r)
    PROVE  SettingsInv'
<1>1. CASE IsError(reply') /\ UNCHANGED settings
    BY <1>1, OnlyAcceptedWanted, SameSettings
<1>2. CASE r.device_type = "covercalibrator" /\ r.method = "CalibratorOff"
  <2>1. SetCalibratorOff
    BY <1>2 DEF HandlePutRequest
  <2>2. CASE ~(IsError(reply') /\ UNCHANGED settings)
    <3>1. /\ reply' = OkReply /\ calibrator_on_' = FALSE /\ brightness_' = 0
          /\ enabled_led_channels_' = enabled_led_channels_
      BY <2>1, <2>2, CalibratorOff
    <3>2. written' = [written EXCEPT !.on = FALSE, !.brightness = 0]
      BY <1>2, <3>1, AcceptedWanted, ErrorsAreErrors
    <3>3. written' = [on |-> FALSE, brightness |-> 0, switch |-> written.switch]
      BY <3>2 DEF SettingsInv
    <3>4. written'.brightness = 0 /\ written'.switch = written.switch
      BY <3>3
    <3>5. brightness_' \in Nat /\ ~(brightness_' > 0) /\ brightness_' = written'.brightness
      BY <3>1, <3>4
    <3>6. written' \in [on : BOOLEAN, brightness : Nat, switch : [Switches -> BOOLEAN]]
      BY <3>3 DEF SettingsInv
    <3>7. \A id \in Jumpers : GetLedChannelEnabled(id)' = written'.switch[id]
      BY <3>1, <3>4, Zenon DEF GetLedChannelEnabled, SettingsInv, ReadsBack
    <3>8. calibrator_on_' = written'.on /\ calibrator_on_' \in BOOLEAN
      <4>1. \A w, c : w = [on |-> c, brightness |-> 0, switch |-> written.switch] => w.on = c
        OBVIOUS
      <4> QED
        BY <3>1, <3>3, <4>1, Zenon
    <3> QED
      BY <3>5, <3>6, <3>7, <3>8, Zenon DEF SettingsInv, ReadsBack
  <2> QED
    BY <1>1, <2>2
<1>3. CASE r.device_type = "covercalibrator" /\ r.method = "CalibratorOn"
  <2>1. HandlePutCalibratorOn(r)
    BY <1>3 DEF HandlePutRequest
  <2>2. CASE ~(IsError(reply') /\ UNCHANGED settings)
    <3>1. /\ r.params.Brightness \in Nat /\ brightness_' = r.params.Brightness
          /\ reply' = OkReply /\ calibrator_on_' = TRUE
          /\ enabled_led_channels_' = enabled_led_channels_
      BY <2>1, <2>2, CalibratorOn
    <3>2. written' = [written EXCEPT !.on = TRUE, !.brightness = r.params.Brightness]
      BY <1>3, <3>1, AcceptedWanted, ErrorsAreErrors
    <3>3. /\ written' \in [on : BOOLEAN, brightness : Nat, switch : [Switches -> BOOLEAN]]
          /\ written'.on = TRUE /\ written'.brightness = r.params.Brightness
          /\ written'.switch = written.switch
      BY <3>1, <3>2 DEF SettingsInv
    <3> QED
      BY <3>1, <3>3 DEF SettingsInv, ReadsBack, GetLedChannelEnabled
  <2> QED
    BY <1>1, <2>2
<1>4. CASE r.device_type = "switch" /\ r.method \in SwitchIdPut
  <2>1. HandlePutSwitch(r)
    BY <1>4 DEF HandlePutRequest, SwitchIdPut
  <2>2. CASE ~(IsError(reply') /\ UNCHANGED settings)
    <3>1. /\ r.method \in {"SetSwitch", "SetSwitchValue"}
          /\ r.params.Id \in Jumpers /\ StateAsked(r) \in BOOLEAN
          /\ reply' = OkReply /\ SetLedChannelEnabled(r.params.Id, StateAsked(r))
      BY <1>4, <2>1, <2>2, SwitchSet
    <3>2. written' = [written EXCEPT !.switch[r.params.Id] = StateAsked(r)]
      BY <3>1, AcceptedWanted, ErrorsAreErrors
    <3> QED
      BY <3>1, <3>2, SwitchStep
  <2> QED
    BY <1>1, <2>2
<1>5. ASSUME UNCHANGED settings, r.method \notin {"CalibratorOn", "CalibratorOff", "SetSwitch", "SetSwitchValue"}
      PROVE  SettingsInv'
    BY <1>5, OnlyAcceptedWanted, AcceptedWanted, SameSettings
<1>6. CASE r.device_type = "covercalibrator" /\ r.method \in {"OpenCover", "CloseCover", "HaltCover"}
  <2>1. MoveCover \/ HaltCoverMotion
    BY <1>6 DEF HandlePutRequest
  <2>2. UNCHANGED settings
    BY <2>1 DEF MoveCover, HaltCoverMotion, MoveOrHaltCover, Refuse, devices
  <2> QED
    BY <1>5, <1>6, <2>2
<1>7. CASE r.device_type = "observingconditions" /\ r.method \in {"AveragePeriod", "Refresh"}
  <2>1. HandlePutAveragePeriod(r) \/ Refresh
    BY <1>7 DEF HandlePutRequest
  <2>2. UNCHANGED settings
    BY <2>1 DEF HandlePutAveragePeriod, Refresh, devices
  <2> QED
    BY <1>5, <1>7, <2>2
<1>8. CASE HandlePutCommon(r)
  <2>1. UNCHANGED settings
    BY <1>8 DEF HandlePutCommon, devices
  <2>2. CASE r.method = "Connected"
    BY <1>5, <2>1, <2>2
  <2>3. CASE r.method # "Connected"
    <3>1. reply' = AscomErrorReply(NotImplemented)
      BY <1>8, <2>3 DEF HandlePutCommon
    <3> QED
      BY <1>1, <2>1, <3>1, ErrorsAreErrors
  <2> QED
    BY <2>2, <2>3
<1> QED
    BY <1>2, <1>3, <1>4, <1>6, <1>7, <1>8 DEF HandlePutRequest

LEMMA RequestStep ==
    ASSUME SettingsInv, NEW r \in Requests, OnRequestDecoded(r)
    PROVE  SettingsInv'
<1>0. written' = Wanted(r)
    BY DEF OnRequestDecoded
<1>1. CASE r.api # "kDeviceApi"
  <2>1. UNCHANGED settings
    BY <1>1 DEF OnRequestDecoded, DispatchDeviceRequest, devices
  <2> QED
    BY <1>0, <1>1, <2>1, OnlyAcceptedWanted, SameSettings
<1>2. CASE r.api = "kDeviceApi" /\ Addressed(r) = {}
  <2>1. reply' = HttpErrorReply(400, <<"Unknown device">>) /\ UNCHANGED settings
    BY <1>2 DEF OnRequestDecoded, DispatchDeviceRequest, devices
  <2> QED
    BY <1>0, <2>1, OnlyAcceptedWanted, SameSettings, ErrorsAreErrors
<1>3. CASE r.api = "kDeviceApi" /\ Addressed(r) # {}
  <2>1. HandleDeviceApiRequest(r, FirstAddressed(r))
    BY <1>3 DEF OnRequestDecoded, DispatchDeviceRequest
  <2>2. CASE r.http_method = "PUT"
    BY <1>0, <1>3, <2>1, <2>2, PutStep DEF HandleDeviceApiRequest
  <2>3. CASE r.http_method # "PUT"
    <3>1. UNCHANGED settings
      BY <2>1, <2>3 DEF HandleDeviceApiRequest, HandleGetRequest, devices
    <3> QED
      BY <1>0, <2>3, <3>1, OnlyAcceptedWanted, SameSettings
  <2> QED
    BY <2>2, <2>3
<1> QED
    BY <1>1, <1>2, <1>3

\* The adapters and CoverCalibrator: what the getters of both devices report is what
\* the accepted requests have set, for every sequence of requests of every kind, any
\* number of channels with and without a jumper, and every maximum brightness:
\* switching a channel, which sets the brightness again, neither changes it nor
\* turns the calibrator on, and a brightness below 0 is not taken for a large one.
THEOREM DevicesReadBack == Spec => []ReadsBack
<1>1. Init => SettingsInv
  <2> SUFFICES ASSUME Init PROVE SettingsInv
    OBVIOUS
  <2>1. /\ calibrator_on_ = FALSE /\ brightness_ = 0 /\ enabled_led_channels_ = Switches
        /\ written = [on |-> FALSE, brightness |-> 0, switch |-> [id \in Switches |-> TRUE]]
    BY DEF Init, DevicesInit
  <2>2. ASSUME NEW id \in Jumpers
        PROVE  id \in Switches /\ written.switch[id] = TRUE
    BY <2>1, DevicesAssumption
  <2>3. \A id \in Jumpers : GetLedChannelEnabled(id) = written.switch[id]
    BY <2>1, <2>2 DEF GetLedChannelEnabled
  <2>4. written \in [on : BOOLEAN, brightness : Nat, switch : [Switches -> BOOLEAN]]
    BY <2>1
  <2>5. calibrator_on_ = written.on /\ calibrator_on_ \in BOOLEAN
    BY <2>1, Zenon
  <2>6. brightness_ = written.brightness /\ brightness_ \in Nat /\ ~(brightness_ > 0)
    BY <2>1
  <2> QED
    BY <2>3, <2>4, <2>5, <2>6, Zenon DEF SettingsInv, ReadsBack
<1>2. SettingsInv /\ [Next]_vars => SettingsInv'
  <2> SUFFICES ASSUME SettingsInv, [Next]_vars PROVE SettingsInv'
    OBVIOUS
  <2>1. CASE UNCHANGED settings /\ UNCHANGED written
    BY <2>1, SameSettings
  <2>2. CASE \E r \in Requests : OnRequestDecoded(r)
    BY <2>2, RequestStep
  <2>3. CASE \E status \in ErrorStatuses : OnRequestDecodingError(status)
    BY <2>1, <2>3 DEF OnRequestDecodingError, devices
  <2>4. CASE Maintain
    BY <2>1, <2>4 DEF Maintain, MaintainDevices
  <2>5. CASE ConnectionStep
    BY <2>1, <2>5 DEF ConnectionStep, Write, ClientWrite, ClientWriteFails, CheckConnected,
       Done, OnHalfClosed, devices
  <2>6. CASE LinkFails \/ ClientConnects \/ ClientReceives \/ ClientReads
    BY <2>1, <2>6 DEF LinkFails, ClientConnects, ClientReceives, ClientReads, devices
  <2>7. CASE UNCHANGED vars
    BY <2>1, <2>7 DEF vars, devices
  <2> QED
    BY <2>2, <2>3, <2>4, <2>5, <2>6, <2>7 DEF Next
<1>3. SettingsInv => ReadsBack
    BY DEF SettingsInv
<1> QED
    BY <1>1, <1>2, <1>3, PTL DEF Spec
-----------------------------------------------------------------------------
(* What the client reads is what was replied *)

Texts == Seq(STRING)

\* The text on its way to the client: before is read with the first of two
\* unread answers, last is the text of the last one, of which sent has reached
\* the client.
Waiting(before, last) ==
    \/ unread = << >> /\ before = << >> /\ last = << >>
    \/ \E a : unread = <<a>> /\ before = << >> /\ last = Printout(a)
    \/ \E a, b : unread = <<a, b>> /\ before = Printout(a) /\ last = Printout(b)

\* What has not been sent is in the buffer or still to be printed; or it has been
\* dropped, and then the connection has failed and nothing more will be written.
Stream(before, sent, rest) ==
    /\ wire = before \o sent
    /\ \/ write_buffer_ \o printing = rest
       \/ link # "connected" /\ phase \notin {"write", "check"}

StreamInv ==
    \E before, sent, rest \in Texts : Waiting(before, sent \o rest) /\ Stream(before, sent, rest)

WriteInv ==
    /\ phase \in {"idle", "print", "write", "check", "done"}
    /\ link \in {"connected", "halfclosed", "closed"}
    /\ printing \in Texts /\ write_buffer_ \in Texts
    /\ phase \in {"idle", "done"} => printing = << >> /\ write_buffer_ = << >>
    /\ phase = "print" => Len(write_buffer_) < write_buffer_limit_
    /\ write_error = TRUE => link # "connected" /\ phase # "idle"
    /\ write_error \in BOOLEAN

ClientInv == WriteInv /\ StreamInv /\ AllFramed

LEMMA CutInTwo ==
    ASSUME NEW s \in Texts, NEW n \in 0 .. Len(s)
    PROVE  /\ SubSeq(s, 1, n) \in Texts /\ SubSeq(s, n + 1, Len(s)) \in Texts
           /\ SubSeq(s, 1, n) \o SubSeq(s, n + 1, Len(s)) = s
<1>1. Len(s) \in Nat
    BY DEF Texts
<1>2. SubSeq(s, 1, n) \o SubSeq(s, n + 1, Len(s)) = SubSeq(s, 1, Len(s))
  <2>1. 1 \in 1 .. Len(s) + 1 /\ n \in (1 - 1) .. Len(s) /\ Len(s) \in n .. Len(s)
    BY <1>1
  <2> QED
    BY <2>1, ConcatAdjacentSubSeq, Zenon DEF Texts
<1>3. SubSeq(s, 1, Len(s)) = s
    BY SubSeqFull DEF Texts
<1>4. SubSeq(s, 1, n) \in Texts /\ SubSeq(s, n + 1, Len(s)) \in Texts
    BY <1>1 DEF Texts
<1> QED
    BY <1>2, <1>3, <1>4

LEMMA Joined ==
    ASSUME NEW x \in Texts, NEW y \in Texts
    PROVE  x \o y \in Texts
BY ConcatProperties DEF Texts

LEMMA Associative ==
    ASSUME NEW x \in Texts, NEW y \in Texts, NEW z \in Texts
    PROVE  (x \o y) \o z = x \o (y \o z)
BY ConcatAssociative DEF Texts

LEMMA EmptyText ==
    /\ << >> \in Texts
    /\ \A x \in Texts : x \o << >> = x /\ << >> \o x = x
    /\ \A x, y \in Texts : x \o y = << >> => x = << >> /\ y = << >>
    /\ \A x, y \in Texts : x \o y = x => y = << >>
BY ConcatEmptySeq, ConcatEqualIffEmpty DEF Texts

\* A text that comes first is cut off by its length.
LEMMA Beginning ==
    ASSUME NEW x \in Texts, NEW y \in Texts
    PROVE  /\ Len(x) \in 0 .. Len(x \o y)
           /\ SubSeq(x \o y, 1, Len(x)) = x
           /\ y # << >> => Len(x) \in 0 .. (Len(x \o y) - 1)
<1>1. /\ x \o y \in Texts /\ Len(x \o y) = Len(x) + Len(y) /\ Len(x) \in Nat /\ Len(y) \in Nat
      /\ \A i \in 1 .. Len(x) : (x \o y)[i] = x[i]
    BY DEF Texts
<1>2. y # << >> => Len(y) > 0
    BY DEF Texts
<1>3. SubSeq(x \o y, 1, Len(x)) = x
    BY <1>1 DEF Texts
<1> QED
    BY <1>1, <1>2, <1>3
-----------------------------------------------------------------------------
(* The connection: unread is left alone *)

LEMMA FramedKept ==
    ASSUME AllFramed, UNCHANGED unread
    PROVE  AllFramed'
BY Zenon DEF AllFramed

LEMMA WaitingKept ==
    ASSUME UNCHANGED unread, NEW before, NEW last
    PROVE  Waiting(before, last)' <=> Waiting(before, last)
BY DEF Waiting, Printout

\* Whatever becomes of the buffer once the connection has failed.
LEMMA Dropped ==
    ASSUME StreamInv, UNCHANGED <<unread, wire>>, link' # "connected",
           phase' \notin {"write", "check"}
    PROVE  StreamInv'
<1>1. PICK before \in Texts, sent \in Texts, rest \in Texts :
          Waiting(before, sent \o rest) /\ Stream(before, sent, rest)
    BY DEF StreamInv
<1>2. Waiting(before, sent \o rest)'
    BY <1>1, WaitingKept
<1>3. Stream(before, sent, rest)'
    BY <1>1 DEF Stream
<1> QED
    BY <1>2, <1>3 DEF StreamInv

\* The text moves from what is to be printed to the buffer.
LEMMA Moved ==
    ASSUME StreamInv, UNCHANGED <<unread, wire, link>>,
           write_buffer_' \o printing' = write_buffer_ \o printing,
           link = "connected" \/ phase' \notin {"write", "check"}
                              \/ phase \in {"write", "check"}
    PROVE  StreamInv'
<1>1. PICK before \in Texts, sent \in Texts, rest \in Texts :
          Waiting(before, sent \o rest) /\ Stream(before, sent, rest)
    BY DEF StreamInv
<1>2. Waiting(before, sent \o rest)'
    BY <1>1, WaitingKept
<1>3. Stream(before, sent, rest)'
    BY <1>1 DEF Stream
<1> QED
    BY <1>2, <1>3 DEF StreamInv

\* The end of flush with nothing left in the buffer.
LEMMA FlushedFacts ==
    ASSUME WriteInv, Flushed, printing' \in Texts
    PROVE  /\ write_buffer_' = << >> /\ write_buffer_' \in Texts
           /\ Len(write_buffer_') < write_buffer_limit_
           /\ phase' \in {"print", "done"} /\ (phase' = "done" => printing' = << >>)
<1>1. Len(<< >>) = 0
    OBVIOUS
<1> QED
    BY <1>1, EmptyText, ServerAssumption DEF Flushed

LEMMA WriteStep ==
    ASSUME ClientInv, Write
    PROVE  ClientInv'
<1> DEFINE room == write_buffer_limit_ - Len(write_buffer_)
           n == IF room < Len(printing) THEN room ELSE Len(printing)
           filled == write_buffer_ \o SubSeq(printing, 1, n)
<1>1. /\ phase = "print" /\ printing' = SubSeq(printing, n + 1, Len(printing))
      /\ UNCHANGED <<link, write_error, wire, unread>>
      /\ \/ write_buffer_' = filled /\ phase' = phase /\ ~BufferFull(filled)
         \/ (write_error = TRUE \/ link # "connected") /\ Flushed
         \/ link = "connected" /\ write_buffer_' = filled /\ phase' = "write"
    BY DEF Write, ClientInv, WriteInv
<1>2. /\ printing \in Texts /\ write_buffer_ \in Texts /\ write_error \in BOOLEAN
      /\ write_error = TRUE => link # "connected"
    BY DEF ClientInv, WriteInv
<1>3. n \in 0 .. Len(printing)
  <2>1. Len(printing) \in Nat /\ Len(write_buffer_) \in Nat
        /\ Len(write_buffer_) < write_buffer_limit_ /\ write_buffer_limit_ \in Nat
    BY <1>1, ServerAssumption DEF ClientInv, WriteInv, Texts
  <2> QED
    BY <2>1
<1> HIDE DEF n
<1>4. /\ SubSeq(printing, 1, n) \in Texts /\ printing' \in Texts
      /\ SubSeq(printing, 1, n) \o printing' = printing
    BY <1>1, <1>2, <1>3, CutInTwo
<1>5. filled \in Texts /\ filled \o printing' = write_buffer_ \o printing
  <2>1. filled \o printing' = write_buffer_ \o (SubSeq(printing, 1, n) \o printing')
    BY <1>2, <1>4, Associative, Zenon
  <2>2. filled \in Texts
    BY <1>2, <1>4, Joined, Zenon
  <2> QED
    BY <1>4, <2>1, <2>2, Zenon
<1> HIDE DEF filled
<1>6. CASE write_buffer_' = filled /\ 
          (\/ phase' = phase /\ ~BufferFull(filled)
           \/ phase' = "write" /\ link = "connected")
  <2>1. Len(filled) \in Nat /\ write_buffer_limit_ \in Nat
    BY <1>5, ServerAssumption DEF Texts
  <2>2. phase' = "print" => Len(write_buffer_') < write_buffer_limit_
    BY <1>1, <1>6, <2>1 DEF BufferFull
  <2>3. WriteInv'
    BY <1>1, <1>2, <1>4, <1>5, <1>6, <2>2 DEF WriteInv, ClientInv
  <2>4. StreamInv'
    BY <1>1, <1>5, <1>6, Moved DEF ClientInv
  <2> QED
    BY <1>1, <2>3, <2>4, FramedKept DEF ClientInv
<1>7. CASE (write_error = TRUE \/ link # "connected") /\ Flushed
  <2>1. WriteInv'
    BY <1>1, <1>2, <1>4, <1>7, FlushedFacts DEF WriteInv, ClientInv
  <2>2. StreamInv'
    BY <1>1, <1>2, <1>4, <1>7, FlushedFacts, Dropped DEF ClientInv
  <2> QED
    BY <1>1, <2>1, <2>2, FramedKept DEF ClientInv
<1>8. \/ write_buffer_' = filled /\ 
          (\/ phase' = phase /\ ~BufferFull(filled)
           \/ phase' = "write" /\ link = "connected")
      \/ (write_error = TRUE \/ link # "connected") /\ Flushed
    BY <1>1, Zenon
<1> QED
    BY <1>6, <1>7, <1>8, Zenon

\* Some of the text goes from the buffer to the client.
LEMMA SentOn ==
    ASSUME NEW before \in Texts, NEW sent \in Texts,
           NEW gone \in Texts, NEW kept \in Texts, NEW todo \in Texts,
           Waiting(before, sent \o ((gone \o kept) \o todo)),
           wire = before \o sent, wire' = wire \o gone,
           write_buffer_' = kept, printing' = todo, UNCHANGED unread
    PROVE  StreamInv'
<1>1. (before \o sent) \o gone = before \o (sent \o gone)
    BY Associative
<1>2. (gone \o kept) \o todo = gone \o (kept \o todo)
    BY Associative
<1>3. kept \o todo \in Texts /\ sent \o gone \in Texts
    BY Joined
<1>4. PICK left \in Texts : left = kept \o todo
    BY <1>3
<1>5. (sent \o gone) \o left = sent \o (gone \o left)
    BY Associative
<1>6. Waiting(before, (sent \o gone) \o left)'
    BY <1>2, <1>4, <1>5, WaitingKept, Zenon
<1>7. PICK more \in Texts : more = sent \o gone
    BY <1>3
<1>8. Waiting(before, more \o left)'
    BY <1>6, <1>7, Zenon
<1>9. Stream(before, more, left)'
    BY <1>1, <1>4, <1>7, Zenon DEF Stream
<1> QED
    BY <1>8, <1>9 DEF StreamInv

LEMMA ClientWriteStep ==
    ASSUME ClientInv, ClientWrite
    PROVE  ClientInv'
<1>1. phase = "write" /\ phase' = "check" /\ UNCHANGED <<printing, write_error, link, unread>>
    BY DEF ClientWrite
<1>2. PICK n \in 0 .. Len(write_buffer_) :
          /\ wire' = wire \o SubSeq(write_buffer_, 1, n)
          /\ write_buffer_' = SubSeq(write_buffer_, n + 1, Len(write_buffer_))
  <2>1. PICK size \in WriteSizes :
            LET wrote == IF size < Len(write_buffer_) THEN size ELSE Len(write_buffer_)
            IN  /\ held + wrote <= TxSize
                /\ held' = held + wrote
                /\ wire' = wire \o SubSeq(write_buffer_, 1, wrote)
                /\ write_buffer_' = SubSeq(write_buffer_, wrote + 1, Len(write_buffer_))
    BY Zenon DEF ClientWrite
  <2> DEFINE wrote == IF size < Len(write_buffer_) THEN size ELSE Len(write_buffer_)
  <2>2. wrote \in 0 .. Len(write_buffer_)
    BY ServerAssumption DEF ClientInv, WriteInv, Texts
  <2> HIDE DEF wrote
  <2>3. /\ wire' = wire \o SubSeq(write_buffer_, 1, wrote)
        /\ write_buffer_' = SubSeq(write_buffer_, wrote + 1, Len(write_buffer_))
    BY <2>1, Zenon DEF wrote
  <2> QED
    BY <2>2, <2>3
<1>3. printing \in Texts /\ write_buffer_ \in Texts
    BY DEF ClientInv, WriteInv
<1> DEFINE gone == SubSeq(write_buffer_, 1, n)
<1>4. gone \in Texts /\ write_buffer_' \in Texts /\ gone \o write_buffer_' = write_buffer_
    BY <1>2, <1>3, CutInTwo
<1>5. wire' = wire \o gone
    BY <1>2
<1> HIDE DEF gone
<1>6. PICK before \in Texts, sent \in Texts, rest \in Texts :
          Waiting(before, sent \o rest) /\ Stream(before, sent, rest)
    BY DEF ClientInv, StreamInv
<1>7. before \in Texts /\ sent \in Texts
    OBVIOUS
<1>8. wire = before \o sent /\ rest = write_buffer_ \o printing
    BY <1>1, <1>6 DEF Stream
<1>9. Waiting(before, sent \o ((gone \o write_buffer_') \o printing'))
    BY <1>1, <1>4, <1>6, <1>8, Zenon
<1>10. StreamInv'
  <2>1. printing' \in Texts /\ UNCHANGED unread
    BY <1>1, <1>3
  <2> QED
    BY <1>4, <1>5, <1>7, <1>8, <1>9, <2>1, SentOn, Zenon
<1>11. WriteInv'
    BY <1>1, <1>4 DEF ClientInv, WriteInv
<1> QED
    BY <1>1, <1>10, <1>11, FramedKept DEF ClientInv

LEMMA FlushStep ==
    ASSUME ClientInv, ClientWriteFails \/ CheckConnected
    PROVE  ClientInv'
<1>1. /\ UNCHANGED <<printing, link, wire, unread>> /\ phase \in {"write", "check"}
      /\ printing \in Texts /\ write_buffer_ \in Texts
    BY DEF ClientWriteFails, CheckConnected, ClientInv, WriteInv
<1>2. write_error' \in BOOLEAN /\ (write_error' = TRUE => link # "connected")
    BY DEF ClientWriteFails, CheckConnected, ClientInv, WriteInv
<1>3. \/ link # "connected" /\ Flushed
      \/ link = "connected" /\ write_buffer_ = << >> /\ Flushed
      \/ phase' = "write" /\ UNCHANGED write_buffer_
    BY <1>2 DEF ClientWriteFails, CheckConnected, ClientInv, WriteInv
<1>4. CASE Flushed
  <2>1. WriteInv'
    BY <1>1, <1>2, <1>4, FlushedFacts DEF WriteInv, ClientInv
  <2>2. CASE link # "connected"
    <3>1. StreamInv'
      BY <1>1, <1>4, <2>2, FlushedFacts, Dropped DEF ClientInv
    <3> QED
      BY <1>1, <2>1, <3>1, FramedKept DEF ClientInv
  <2>3. CASE link = "connected" /\ write_buffer_ = << >>
    <3>1. write_buffer_' = write_buffer_
      BY <1>1, <1>4, <2>3, FlushedFacts DEF ClientInv
    <3>2. StreamInv'
      BY <1>1, <2>3, <3>1, Moved DEF ClientInv
    <3> QED
      BY <1>1, <2>1, <3>2, FramedKept DEF ClientInv
  <2>4. CASE phase' = "write" /\ UNCHANGED write_buffer_
    BY <1>1, <1>4, <2>4, FlushedFacts DEF ClientInv
  <2> QED
    BY <1>3, <2>2, <2>3, <2>4
<1>5. CASE phase' = "write" /\ UNCHANGED write_buffer_
  <2>1. WriteInv'
    BY <1>1, <1>2, <1>5 DEF WriteInv, ClientInv
  <2>2. StreamInv'
    BY <1>1, <1>5, Moved DEF ClientInv
  <2> QED
    BY <1>1, <2>1, <2>2, FramedKept DEF ClientInv
<1> QED
    BY <1>3, <1>4, <1>5

LEMMA LinkStep ==
    ASSUME ClientInv, Done \/ OnHalfClosed \/ LinkFails
    PROVE  ClientInv'
<1>1. UNCHANGED <<printing, write_buffer_, wire, unread>>
    BY DEF Done, OnHalfClosed, LinkFails, connection
<1>2. link' = link \/ link' \in {"halfclosed", "closed"}
  <2>1. CASE Done
    BY <2>1 DEF Done
  <2>2. CASE OnHalfClosed
    BY <2>2 DEF OnHalfClosed
  <2>3. CASE LinkFails
    BY <2>3 DEF LinkFails, ClientInv, WriteInv
  <2> QED
    BY <2>1, <2>2, <2>3
<1>3. \/ phase' = phase /\ write_error' = write_error
      \/ phase' = "idle" /\ phase = "done" /\ write_error' = FALSE
    BY DEF Done, OnHalfClosed, LinkFails, connection
<1>4. WriteInv'
    BY <1>1, <1>2, <1>3 DEF ClientInv, WriteInv
<1>5. StreamInv'
  <2>1. PICK before \in Texts, sent \in Texts, rest \in Texts :
            Waiting(before, sent \o rest) /\ Stream(before, sent, rest)
    BY DEF ClientInv, StreamInv
  <2>2. Waiting(before, sent \o rest)'
    BY <1>1, <2>1, WaitingKept
  <2>3. Stream(before, sent, rest)'
    BY <1>1, <1>2, <1>3, <2>1 DEF Stream
  <2> QED
    BY <2>2, <2>3 DEF StreamInv
<1> QED
    BY <1>1, <1>4, <1>5, FramedKept DEF ClientInv
-----------------------------------------------------------------------------
(* The client *)

\* A part of the text of an answer is not taken for a response,
LEMMA PartUnread ==
    ASSUME NEW a, NEW following, Framed(a, following), NEW sent \in Texts, NEW rest \in Texts,
           Printout(a) = sent \o rest, rest # << >>
    PROVE  ReadBy(sent, a) = {}
<1>1. /\ SubSeq(Printout(a), 1, Len(sent)) = sent
      /\ Len(sent) \in 0 .. (Len(Printout(a)) - 1)
    BY Beginning
<1>2. ReadBy(SubSeq(Printout(a), 1, Len(sent)), a) = {}
    BY <1>1, Zenon DEF Framed
<1> QED
    BY <1>1, <1>2, Zenon

\* and the whole of it is, also if part of another follows.
LEMMA WholeRead ==
    ASSUME NEW a, NEW following, Framed(a, following), NEW sent \in Texts, NEW rest \in Texts,
           sent \o rest \in following
    PROVE  /\ ReadBy(Printout(a) \o sent, a) # {}
           /\ \A response \in ReadBy(Printout(a) \o sent, a) :
                  IsTo(response, a) /\ response.beyond = sent
<1> DEFINE text == sent \o rest
<1>1. SubSeq(text, 1, Len(sent)) = sent /\ Len(sent) \in 0 .. Len(text)
    BY Beginning
<1>2. text \in following
    OBVIOUS
<1> HIDE DEF text
<1>3. LET responses == ReadBy(Printout(a) \o SubSeq(text, 1, Len(sent)), a)
      IN  /\ responses # {}
          /\ \A response \in responses :
                 IsTo(response, a) /\ response.beyond = SubSeq(text, 1, Len(sent))
    BY <1>1, <1>2, Zenon DEF Framed
<1> QED
    BY <1>1, <1>3, Zenon

LEMMA WholeReadAlone ==
    ASSUME NEW a, NEW following, Framed(a, following), << >> \in following
    PROVE  /\ ReadBy(Printout(a), a) # {}
           /\ \A response \in ReadBy(Printout(a), a) :
                  IsTo(response, a) /\ response.beyond = << >>
<1>1. Printout(a) \in Texts
    BY DEF Framed, Texts
<1>2. << >> \in Texts /\ << >> \o << >> = << >> /\ Printout(a) \o << >> = Printout(a)
    BY <1>1, EmptyText
<1> HIDE DEF Printout
<1>3. << >> \o << >> \in following
    BY <1>2, Zenon
<1>4. /\ ReadBy(Printout(a) \o << >>, a) # {}
      /\ \A response \in ReadBy(Printout(a) \o << >>, a) :
             IsTo(response, a) /\ response.beyond = << >>
    BY <1>2, <1>3, WholeRead, Zenon
<1> QED
    BY <1>2, <1>4, Zenon

\* AllFramed for one and for two unread answers.
LEMMA FramedOne ==
    ASSUME NEW a, unread = <<a>>
    PROVE  AllFramed <=> Framed(a, {<< >>})
<1>1. DOMAIN unread = {1} /\ unread[1] = a /\ Len(unread) = 1 /\ 2 .. 1 = {}
    OBVIOUS
<1>2. {<< >>} \union {Printout(unread[j]) : j \in (1 + 1) .. Len(unread)} = {<< >>}
    BY <1>1
<1> QED
    BY <1>1, <1>2, Zenon DEF AllFramed

LEMMA FramedTwo ==
    ASSUME NEW a, NEW b, unread = <<a, b>>
    PROVE  AllFramed <=> Framed(a, {<< >>, Printout(b)}) /\ Framed(b, {<< >>})
<1>1. DOMAIN unread = {1, 2} /\ unread[1] = a /\ unread[2] = b /\ Len(unread) = 2
    OBVIOUS
<1>2. (1 + 1) .. 2 = {2} /\ (2 + 1) .. 2 = {}
    OBVIOUS
<1>3. {<< >>} \union {Printout(unread[j]) : j \in (1 + 1) .. Len(unread)} = {<< >>, Printout(b)}
    BY <1>1, <1>2
<1>4. {<< >>} \union {Printout(unread[j]) : j \in (2 + 1) .. Len(unread)} = {<< >>}
    BY <1>1, <1>2
<1> QED
    BY <1>1, <1>3, <1>4, Zenon DEF AllFramed

\* The invariant with its parts spelled out for each number of unread answers.
LEMMA StreamCases ==
    ASSUME ClientInv
    PROVE  \/ unread = << >> /\ wire = << >>
           \/ \E a, sent, rest :
                  /\ sent \in Texts /\ rest \in Texts /\ unread = <<a>>
                  /\ Printout(a) = sent \o rest /\ wire = sent /\ Stream(<< >>, sent, rest)
                  /\ Framed(a, {<< >>})
           \/ \E a, b, sent, rest :
                  /\ sent \in Texts /\ rest \in Texts /\ unread = <<a, b>>
                  /\ Printout(b) = sent \o rest /\ wire = Printout(a) \o sent
                  /\ Stream(Printout(a), sent, rest)
                  /\ Framed(a, {<< >>, Printout(b)}) /\ Framed(b, {<< >>})
<1>1. PICK before \in Texts, sent \in Texts, rest \in Texts :
          Waiting(before, sent \o rest) /\ Stream(before, sent, rest)
    BY DEF ClientInv, StreamInv
<1>2. wire = before \o sent
    BY <1>1 DEF Stream
<1>3. CASE unread = << >> /\ before = << >> /\ sent \o rest = << >>
    BY <1>2, <1>3, EmptyText
<1>4. CASE \E a : unread = <<a>> /\ before = << >> /\ sent \o rest = Printout(a)
  <2>1. PICK a : unread = <<a>> /\ before = << >> /\ sent \o rest = Printout(a)
    BY <1>4
  <2>2. wire = sent
    BY <1>2, <2>1, EmptyText
  <2>3. Framed(a, {<< >>})
    BY <2>1, FramedOne DEF ClientInv
  <2> QED
    BY <1>1, <2>1, <2>2, <2>3
<1>5. CASE \E a, b : unread = <<a, b>> /\ before = Printout(a) /\ sent \o rest = Printout(b)
  <2>1. PICK a, b : unread = <<a, b>> /\ before = Printout(a) /\ sent \o rest = Printout(b)
    BY <1>5
  <2>2. Framed(a, {<< >>, Printout(b)}) /\ Framed(b, {<< >>})
    BY <2>1, FramedTwo DEF ClientInv
  <2> QED
    BY <1>1, <1>2, <2>1, <2>2
<1> QED
    BY <1>1, <1>3, <1>4, <1>5 DEF Waiting

LEMMA ReadStep ==
    ASSUME ClientInv, ClientReads
    PROVE  ClientInv'
<1>1. /\ unread # << >> /\ unread' = Tail(unread)
      /\ UNCHANGED <<phase, printing, write_buffer_, write_error, link>>
    BY DEF ClientReads, connection
<1>2. PICK response \in ReadBy(wire, unread[1]) : wire' = response.beyond
    BY DEF ClientReads
<1>3. WriteInv'
    BY <1>1 DEF ClientInv, WriteInv
<1>4. ASSUME NEW a, NEW sent \in Texts, NEW rest \in Texts, unread = <<a>>,
             Printout(a) = sent \o rest, wire = sent, Stream(<< >>, sent, rest),
             Framed(a, {<< >>})
      PROVE  StreamInv' /\ AllFramed'
  <2>1. unread' = << >> /\ unread[1] = a
    BY <1>1, <1>4
  <2>2. rest = << >>
    BY <1>2, <1>4, <2>1, PartUnread, Zenon
  <2>3. Printout(a) = sent
    BY <1>4, <2>2, EmptyText
  <2>4. wire' = << >>
    BY <1>2, <1>4, <2>1, <2>3, WholeReadAlone, Zenon
  <2>5. << >> \in Texts /\ << >> \o << >> = << >>
    BY EmptyText
  <2>6. Waiting(<< >>, << >> \o << >>)'
    BY <2>1, <2>5, Zenon DEF Waiting
  <2>7. Stream(<< >>, << >>, << >>)'
    BY <1>1, <1>4, <2>2, <2>4, <2>5, Zenon DEF Stream
  <2>8. AllFramed'
    BY <2>1 DEF AllFramed
  <2> QED
    BY <2>5, <2>6, <2>7, <2>8, Zenon DEF StreamInv
<1>5. ASSUME NEW a, NEW b, NEW sent \in Texts, NEW rest \in Texts, unread = <<a, b>>,
             Printout(b) = sent \o rest, wire = Printout(a) \o sent,
             Stream(Printout(a), sent, rest),
             Framed(a, {<< >>, Printout(b)}), Framed(b, {<< >>})
      PROVE  StreamInv' /\ AllFramed'
  <2>1. unread' = <<b>> /\ unread[1] = a
    BY <1>1, <1>5
  <2>2. sent \o rest \in {<< >>, Printout(b)}
    BY <1>5, Zenon
  <2>3. wire' = sent
    BY <1>2, <1>5, <2>1, <2>2, WholeRead, Zenon
  <2>4. << >> \in Texts /\ << >> \o sent = sent
    BY EmptyText
  <2>5. Waiting(<< >>, sent \o rest)'
    BY <1>5, <2>1, Zenon DEF Waiting
  <2>6. Stream(<< >>, sent, rest)'
    BY <1>1, <1>5, <2>3, <2>4, Zenon DEF Stream
  <2>7. AllFramed'
    <3>1. DOMAIN unread' = {1} /\ unread'[1] = b /\ Len(unread') = 1 /\ 2 .. 1 = {}
      BY <2>1
    <3>2. {<< >>} \union {Printout(unread'[j]) : j \in (1 + 1) .. Len(unread')} = {<< >>}
      BY <3>1
    <3> QED
      BY <1>5, <3>1, <3>2, Zenon DEF AllFramed
  <2> QED
    BY <2>4, <2>5, <2>6, <2>7, Zenon DEF StreamInv
<1> QED
    BY <1>1, <1>3, <1>4, <1>5, StreamCases, Zenon DEF ClientInv

LEMMA AnswerAfter ==
    ASSUME NEW b, NEW a
    PROVE  Append(<<b>>, a) = <<b, a>>
<1>1. <<b>> \in Seq({a, b}) /\ <<b, a>> \in Seq({a, b}) /\ a \in {a, b}
    OBVIOUS
<1>2. /\ Append(<<b>>, a) \in Seq({a, b}) /\ Len(Append(<<b>>, a)) = 2
      /\ Append(<<b>>, a)[1] = b /\ Append(<<b>>, a)[2] = a
    BY <1>1
<1>3. Len(<<b, a>>) = 2 /\ <<b, a>>[1] = b /\ <<b, a>>[2] = a
    OBVIOUS
<1>4. \A i \in 1 .. Len(Append(<<b>>, a)) : Append(<<b>>, a)[i] = <<b, a>>[i]
  <2>1. \A i \in 1 .. 2 : i = 1 \/ i = 2
    OBVIOUS
  <2> QED
    BY <1>2, <1>3, <2>1, Zenon
<1> QED
    BY <1>1, <1>2, <1>3, <1>4, SeqEqual, Zenon

\* A request is answered: the stream is empty or has the whole of one response.
LEMMA AnswerStep ==
    ASSUME ClientInv, Ready, unread = << >> \/ Len(unread) = 1, ResponsesFramed',
           NEW a, unread' = Append(unread, a), printing' = Printout(a), phase' = "print",
           UNCHANGED <<write_buffer_, write_error, link, wire>>
    PROVE  ClientInv'
<1>1. /\ phase = "idle" /\ link = "connected" /\ printing = << >> /\ write_buffer_ = << >>
      /\ write_error = FALSE
    BY DEF ClientInv, WriteInv, Ready
<1>2. \/ unread = << >> /\ unread' = <<a>> /\ wire = << >>
      \/ \E b : unread' = <<b, a>> /\ wire = Printout(b) /\ Printout(b) \in Texts
  <2>1. CASE unread = << >>
    BY <2>1, StreamCases
  <2>2. CASE unread # << >>
    <3>1. PICK b, sent, rest :
              /\ sent \in Texts /\ rest \in Texts /\ unread = <<b>>
              /\ Printout(b) = sent \o rest /\ wire = sent /\ Stream(<< >>, sent, rest)
      <4>1. ASSUME NEW c, NEW d PROVE unread # <<c, d>>
        BY <2>2
      <4> QED
        BY <2>2, <4>1, StreamCases, Zenon
    <3>2. << >> \o << >> = << >>
      BY EmptyText
    <3>3. rest = << >>
      BY <1>1, <3>1, <3>2 DEF Stream
    <3>4. Printout(b) = wire /\ Printout(b) \in Texts
      BY <3>1, <3>3, EmptyText
    <3>5. unread' = <<b, a>>
      BY <3>1, AnswerAfter, Zenon
    <3> QED
      BY <3>4, <3>5, Zenon
  <2> QED
    BY <2>1, <2>2
<1>3. unread'[Len(unread')] = a /\ Len(unread') \in DOMAIN unread'
    BY <1>2
<1>4. AllFramed'
    BY <1>1, <1>3, Zenon DEF ResponsesFramed
<1>5. Printout(a) \in Texts
    BY <1>3, <1>4, Zenon DEF AllFramed, Framed, Texts
<1>6. WriteInv'
  <2>1. Len(<< >>) = 0 /\ 0 < write_buffer_limit_ /\ << >> \in Texts
    BY ServerAssumption, EmptyText
  <2> QED
    BY <1>1, <1>5, <2>1 DEF WriteInv
<1>7. /\ << >> \in Texts /\ << >> \o << >> = << >> /\ << >> \o Printout(a) = Printout(a)
    BY <1>5, EmptyText
<1>8. CASE unread = << >> /\ unread' = <<a>> /\ wire = << >>
  <2>1. Waiting(<< >>, << >> \o Printout(a))'
    BY <1>7, <1>8, Zenon DEF Waiting
  <2>2. Stream(<< >>, << >>, Printout(a))'
    BY <1>1, <1>7, <1>8, Zenon DEF Stream
  <2>3. StreamInv'
    BY <1>5, <1>7, <2>1, <2>2, Zenon DEF StreamInv
  <2> QED
    BY <1>4, <1>6, <2>3 DEF ClientInv
<1>9. ASSUME NEW b, unread' = <<b, a>>, wire = Printout(b), Printout(b) \in Texts
      PROVE  ClientInv'
  <2>1. Waiting(Printout(b), << >> \o Printout(a))'
    BY <1>7, <1>9, Zenon DEF Waiting
  <2>2. Printout(b) \o << >> = Printout(b)
    BY <1>9, EmptyText
  <2>3. Stream(Printout(b), << >>, Printout(a))'
    BY <1>1, <1>7, <1>9, <2>2, Zenon DEF Stream
  <2>4. StreamInv'
    BY <1>5, <1>7, <1>9, <2>1, <2>3, Zenon DEF StreamInv
  <2> QED
    BY <1>4, <1>6, <2>4 DEF ClientInv
<1> QED
    BY <1>2, <1>8, <1>9, Zenon

LEMMA QuietStep ==
    ASSUME ClientInv, UNCHANGED <<phase, printing, write_buffer_, write_error, link, wire, unread>>
    PROVE  ClientInv'
<1>1. WriteInv'
    BY DEF ClientInv, WriteInv
<1>2. StreamInv'
    BY Moved DEF ClientInv
<1> QED
    BY <1>1, <1>2, FramedKept DEF ClientInv

LEMMA ConnectStep ==
    ASSUME ClientInv, ClientConnects
    PROVE  ClientInv'
<1>1. /\ phase' = "idle" /\ link' = "connected" /\ wire' = << >> /\ unread' = << >>
      /\ phase = "idle" /\ UNCHANGED <<printing, write_buffer_, write_error>>
    BY DEF ClientConnects, connection
<1>2. printing = << >> /\ write_buffer_ = << >> /\ write_error = FALSE
    BY <1>1 DEF ClientInv, WriteInv
<1>3. WriteInv'
    BY <1>1, <1>2, EmptyText DEF ClientInv, WriteInv
<1>4. << >> \in Texts /\ << >> \o << >> = << >>
    BY EmptyText
<1>5. Waiting(<< >>, << >> \o << >>)' /\ Stream(<< >>, << >>, << >>)'
    BY <1>1, <1>2, <1>4, Zenon DEF Waiting, Stream
<1>6. StreamInv'
    BY <1>4, <1>5, Zenon DEF StreamInv
<1>7. AllFramed'
    BY <1>1 DEF AllFramed
<1> QED
    BY <1>3, <1>6, <1>7 DEF ClientInv

LEMMA InvInStep == ClientInv => ClientInStep
<1> SUFFICES ASSUME ClientInv PROVE ClientInStep
    OBVIOUS
<1>1. CASE unread = << >> /\ wire = << >>
    BY <1>1, Zenon DEF ClientInStep
<1>2. ASSUME NEW a, NEW sent \in Texts, NEW rest \in Texts, unread = <<a>>,
             Printout(a) = sent \o rest, wire = sent, Stream(<< >>, sent, rest),
             Framed(a, {<< >>})
      PROVE  ClientInStep
  <2>1. unread # << >> /\ unread[1] = a /\ Len(unread) = 1
    BY <1>2
  <2>2. CASE rest = << >>
    <3>1. Printout(a) = wire
      BY <1>2, <2>2, EmptyText
    <3> QED
      BY <1>2, <2>1, <3>1, WholeReadAlone, Zenon DEF ClientInStep
  <2>3. CASE rest # << >>
    <3>1. ReadBy(wire, a) = {}
      BY <1>2, <2>3, PartUnread, Zenon
    <3>2. phase # "idle" \/ link # "connected"
      BY <1>2, <2>3, EmptyText DEF Stream, ClientInv, WriteInv
    <3> QED
      BY <2>1, <3>1, <3>2, Zenon DEF ClientInStep
  <2> QED
    BY <2>2, <2>3
<1>3. ASSUME NEW a, NEW b, NEW sent \in Texts, NEW rest \in Texts, unread = <<a, b>>,
             Printout(b) = sent \o rest, wire = Printout(a) \o sent,
             Framed(a, {<< >>, Printout(b)})
      PROVE  ClientInStep
  <2>1. unread # << >> /\ unread[1] = a
    BY <1>3
  <2>2. sent \o rest \in {<< >>, Printout(b)}
    BY <1>3, Zenon
  <2>3. /\ ReadBy(wire, a) # {}
        /\ \A response \in ReadBy(wire, a) : IsTo(response, a)
    BY <1>3, <2>2, WholeRead, Zenon
  <2> QED
    BY <2>1, <2>3, Zenon DEF ClientInStep
<1> QED
    BY <1>1, <1>2, <1>3, StreamCases, Zenon

\* Connection::write and flush, and the client: provided that the texts of responses
\* can be told apart (ResponsesFramed), the client reads each of its answers as it
\* was given and in order, whatever the limit of the write buffer, however much of
\* it the chip accepts at a time, and wherever the connection fails.  A response
\* that flush has dropped in part is the last one of its connection.
THEOREM ServerClientInStep == Spec /\ []ResponsesFramed => []ClientInStep
<1>1. Init => ClientInv
  <2> SUFFICES ASSUME Init PROVE ClientInv
    OBVIOUS
  <2>1. /\ phase = "idle" /\ link = "closed" /\ printing = << >> /\ write_buffer_ = << >>
        /\ write_error = FALSE /\ wire = << >> /\ unread = << >>
    BY DEF Init
  <2>2. << >> \in Texts /\ << >> \o << >> = << >>
    BY EmptyText
  <2>3. WriteInv
    BY <2>1, <2>2 DEF WriteInv
  <2>4. Waiting(<< >>, << >> \o << >>) /\ Stream(<< >>, << >>, << >>)
    BY <2>1, <2>2, Zenon DEF Waiting, Stream
  <2>5. StreamInv
    BY <2>2, <2>4, Zenon DEF StreamInv
  <2>6. AllFramed
    BY <2>1 DEF AllFramed
  <2> QED
    BY <2>3, <2>5, <2>6 DEF ClientInv
<1>2. ClientInv /\ [Next]_vars /\ ResponsesFramed' => ClientInv'
  <2> SUFFICES ASSUME ClientInv, [Next]_vars, ResponsesFramed' PROVE ClientInv'
    OBVIOUS
  <2>1. ASSUME NEW request, StartResponse(request), Ready, unread = << >> \/ Len(unread) = 1
        PROVE  ClientInv'
    <3>1. PICK a : a = [request |-> request, reply |-> reply']
      OBVIOUS
    <3>2. Printout(a) = TextOf(request, reply')
      BY <3>1 DEF Printout
    <3>3. /\ unread' = Append(unread, a) /\ printing' = Printout(a) /\ phase' = "print"
          /\ UNCHANGED <<write_buffer_, write_error, link, wire>>
      BY <2>1, <3>1, <3>2, Zenon DEF StartResponse
    <3> QED
      BY <2>1, <3>3, AnswerStep, Zenon
  <2>2. CASE \E r \in Requests : OnRequestDecoded(r)
    BY <2>1, <2>2, Zenon DEF OnRequestDecoded
  <2>3. CASE \E status \in ErrorStatuses : OnRequestDecodingError(status)
    BY <2>1, <2>3, Zenon DEF OnRequestDecodingError
  <2>4. CASE Maintain
    BY <2>4, QuietStep DEF Maintain, connection
  <2>5. CASE ConnectionStep
    BY <2>5, WriteStep, ClientWriteStep, FlushStep, LinkStep, Zenon DEF ConnectionStep
  <2>6. CASE LinkFails
    BY <2>6, LinkStep
  <2>7. CASE ClientConnects
    BY <2>7, ConnectStep
  <2>8. CASE ClientReceives
    BY <2>8, QuietStep DEF ClientReceives, connection
  <2>9. CASE ClientReads
    BY <2>9, ReadStep
  <2>10. CASE UNCHANGED vars
    BY <2>10, QuietStep DEF vars, connection
  <2> QED
    BY <2>2, <2>3, <2>4, <2>5, <2>6, <2>7, <2>8, <2>9, <2>10, Zenon DEF Next
<1> QED
    BY <1>1, <1>2, InvInStep, PTL DEF Spec
=============================================================================
