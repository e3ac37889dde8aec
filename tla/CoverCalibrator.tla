---------------------------- MODULE CoverCalibrator ----------------------------
(***************************************************************************)
(* The CoverCalibrator example: the cover, and the LED channels of the       *)
(* calibrator, whose brightness is set by one device (CoverCalibrator) and   *)
(* which are switched on and off by another (LedChannelSwitchGroup).  The    *)
(* handlers for the LEDs share nothing with the interrupt, so each is one    *)
(* action.                                                                   *)
(***************************************************************************)
EXTENDS Cover

CONSTANTS
    Channels,           \* LED channels
    kMaxBrightness

ASSUME ChannelsAssumption == kMaxBrightness \in Nat

VARIABLES
    hardware,               \* channels whose enabled pin is LOW
    calibrator_on_,
    brightness_,
    enabled_led_channels_,
    pulse_count             \* PWM output of each channel; 0 if disabled

leds == <<calibrator_on_, brightness_, enabled_led_channels_, pulse_count>>
vars == <<coverVars, hardware, leds>>

IsCalibratorHardwareEnabled == hardware # {}

\* The channels for which GetLedChannelEnabled holds, when the switches of
\* those in e are on.
LedChannelsEnabled(e) == hardware \cap e

SetPulseCounts(channels, value) ==
    [c \in Channels |-> IF c \in channels THEN value ELSE pulse_count[c]]

\* HandlePutCalibratorOn and SetCalibratorBrightness refuse a larger value.
SetCalibratorBrightness(brightness) ==
    /\ pc = "loop"
    /\ IsCalibratorHardwareEnabled
    /\ brightness <= kMaxBrightness
    /\ calibrator_on_' = TRUE
    /\ brightness_' = brightness
    /\ pulse_count' =
           SetPulseCounts(LedChannelsEnabled(enabled_led_channels_), brightness)
    /\ UNCHANGED <<coverVars, hardware, enabled_led_channels_>>

\* Mutant: like setting the brightness to zero, only for enabled channels.
SetCalibratorOffEnabled ==
    /\ pc = "loop"
    /\ IsCalibratorHardwareEnabled
    /\ calibrator_on_' = FALSE
    /\ brightness_' = 0
    /\ pulse_count' = SetPulseCounts(LedChannelsEnabled(enabled_led_channels_), 0)
    /\ UNCHANGED <<coverVars, hardware, enabled_led_channels_>>

SetCalibratorOff ==
    /\ pc = "loop"
    /\ IsCalibratorHardwareEnabled
    /\ calibrator_on_' = FALSE
    /\ brightness_' = 0
    /\ pulse_count' = SetPulseCounts(Channels, 0)
    /\ UNCHANGED <<coverVars, hardware, enabled_led_channels_>>

\* SetSwitch refuses a channel without hardware; SetLedChannelEnabled applies
\* the brightness again if there is one.
SetSwitch(channel, state) ==
    /\ pc = "loop"
    /\ channel \in hardware
    /\ enabled_led_channels_' = IF state THEN enabled_led_channels_ \cup {channel}
                                         ELSE enabled_led_channels_ \ {channel}
    /\ \/ /\ brightness_ > 0
          /\ calibrator_on_' = TRUE
          /\ pulse_count' = SetPulseCounts(LedChannelsEnabled(enabled_led_channels_'),
                                           brightness_)
       \/ /\ brightness_ = 0
          /\ UNCHANGED <<calibrator_on_, pulse_count>>
    /\ UNCHANGED <<coverVars, hardware, brightness_>>

Init ==
    /\ CoverInit
    /\ hardware \in SUBSET Channels
    /\ calibrator_on_ = FALSE
    /\ brightness_ = 0
    /\ enabled_led_channels_ = Channels
    /\ pulse_count = [c \in Channels |-> 0]

Calibrator ==
    \/ \E brightness \in 0 .. kMaxBrightness + 1 : SetCalibratorBrightness(brightness)
    \/ SetCalibratorOff
    \/ \E channel \in Channels, state \in BOOLEAN : SetSwitch(channel, state)

Next == \/ CoverNext /\ UNCHANGED <<hardware, leds>>
        \/ Calibrator

Spec == Init /\ [][Next]_vars
FairSpec == Spec /\ CoverFairness

(***************************************************************************)
(* Properties.                                                               *)
(***************************************************************************)

\* SetCalibratorOff "Turns the calibrator lights off immediately."
\* (cover_calibrator.h:36): while the calibrator is off no channel is lit,
\* whatever was switched on or off before or since.
OffIsDark == ~calibrator_on_ => \A c \in Channels : pulse_count[c] = 0

\* led_channel_switch_group.h:5: "enabling each channel to be toggled on or off
\* independently of the brightness setting": a channel that is switched off is
\* not lit.
DisabledIsDark ==
    \A c \in Channels : c \notin enabled_led_channels_ => pulse_count[c] = 0
=============================================================================
