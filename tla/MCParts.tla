-------------------------------- MODULE MCParts --------------------------------
(* Parts of the repository that run by themselves, one in each behaviour: the   *)
(* two covers with their calibrator, the two sketches that work with            *)
(* interrupts, the addresses in EEPROM, the emulation of the chip on a host,    *)
(* the check of the list of devices, and the conversions of numbers.            *)
(* A board with both covers has no LED channel here: a handler for the LEDs is  *)
(* one action, which may come during the movement of a single cover.            *)
EXTENDS MCConversions, MCAddresses, MCCoverCalibrator, HostSockets, DeviceList,
        BouncySwitch, PulseSpacing

VARIABLE part

partVars == <<part, conversions, deviceListVars, bouncyVars, pulseVars, addressVars,
              hostVars, vars>>

DefaultDevice == [device_type |-> CHOOSE t \in EDeviceTypes : TRUE,
                  device_number |-> CHOOSE n \in DeviceNumbers : TRUE,
                  unique_id |-> CHOOSE u \in UniqueIds : TRUE]

PartsInit ==
    /\ part \in {"conversions", "devices", "bouncy", "pulse", "addresses", "host", "covers"}
    /\ ConversionsInit /\ BouncyInit /\ PulseInit /\ AddressesInit /\ HostInit /\ Init
    /\ part # "bouncy" => pin = "LOW"
    /\ part # "pulse" => cover_at = 0
    /\ part # "addresses" => eeprom[1] = 255
    /\ part # "covers" => position = [c \in Covers |-> 0] /\ present = {} /\ hardware = {}
    /\ present = Covers => hardware = {}
    /\ IF part = "devices" THEN DeviceListInit
       ELSE /\ device = [p \in Pointers |-> DefaultDevice] /\ devices_ = << >>
            /\ result = "none" /\ initialized = << >>

\* The others keep their variables.
Only(name) ==
    /\ part = name /\ UNCHANGED part
    /\ name # "conversions" => UNCHANGED conversions
    /\ name # "devices" => UNCHANGED deviceListVars
    /\ name # "bouncy" => UNCHANGED bouncyVars
    /\ name # "pulse" => UNCHANGED pulseVars
    /\ name # "addresses" => UNCHANGED addressVars
    /\ name # "host" => UNCHANGED hostVars
    /\ name # "covers" => UNCHANGED vars

PartsNext ==
    \/ Only("conversions") /\ ConversionsNext
    \/ Only("devices") /\ DeviceListNext
    \/ Only("bouncy") /\ BouncyNext
    \/ Only("pulse") /\ PulseNext
    \/ Only("addresses") /\ AddressesNext
    \/ Only("host") /\ HostNext
    \/ Only("covers") /\ Next

\* A command to a cover is executed to its end, loop runs again and again, and an
\* enabled timer overflows.
PartsSpec ==
    /\ PartsInit /\ [][PartsNext]_partVars
    /\ CoverFairness
    /\ WF_pulseVars(part = "pulse" /\ PulseLoop)
    /\ WF_pulseVars(part = "pulse" /\ TimerInterrupt)
=============================================================================
