------------------------------ MODULE BouncySwitch ------------------------------
(***************************************************************************)
(* The sketch that records the bounces of a switch                           *)
(* (examples/BouncySwitch/BouncySwitch.ino): an interrupt records each       *)
(* change of a pin while the loop waits for the pin to settle, reports what  *)
(* was recorded and starts over.                                             *)
(*                                                                           *)
(* The loop is cut wherever it reads what the interrupt writes.  A change of *)
(* the pin sets the interrupt flag; the interrupt runs once for a flag, so   *)
(* changes that follow quickly share one call, which reads the pin as it is  *)
(* then.  Reset runs with interrupts disabled and leaves the flag alone.     *)
(***************************************************************************)
EXTENDS Naturals, Sequences

CONSTANTS
    kMaxEvents,
    Stable,             \* the 100000 microseconds without an event, in ticks
    MaxCalls            \* bound: calls of the interrupt between two Resets

ASSUME BouncySwitchAssumption ==
    kMaxEvents \in Nat \ {0} /\ Stable \in Nat \ {0} /\ MaxCalls \in Nat

VARIABLES
    pin, flag,
    count_, event_is_falling_, missed_count_,
    age,                \* micros() - event_micros_[i], up to Stable
    bouncy_pc,          \* where Loop is
    count, report,      \* its copy of count_, and the events it has printed
    calls               \* what the interrupt saw at each call since Reset

switch == <<pin, flag>>
recorded == <<count_, event_is_falling_, missed_count_, age, calls>>
bouncyVars == <<switch, recorded, bouncy_pc, count, report>>

Slots == 0 .. (kMaxEvents - 1)
Uint16 == 256 * 256     \* missed_count_ is a uint16_t

PinChanges ==
    /\ Len(calls) < MaxCalls
    /\ pin' = IF pin = "LOW" THEN "HIGH" ELSE "LOW"
    /\ flag' = TRUE
    /\ UNCHANGED <<recorded, bouncy_pc, count, report>>

TimePasses ==
    /\ \E i \in Slots : age[i] < Stable
    /\ age' = [i \in Slots |-> IF age[i] < Stable THEN age[i] + 1 ELSE Stable]
    /\ UNCHANGED <<switch, count_, event_is_falling_, missed_count_, calls, bouncy_pc, count, report>>

\* Mutant: one event more than there is room for.
RecordEventBeyond(falling) ==
    IF count_ > kMaxEvents
      THEN /\ missed_count_' = (missed_count_ + 1) % Uint16
           /\ UNCHANGED <<count_, event_is_falling_, age>>
      ELSE /\ age' = [age EXCEPT ![count_] = 0]
           /\ event_is_falling_' = [event_is_falling_ EXCEPT ![count_] = falling]
           /\ count_' = count_ + 1
           /\ UNCHANGED missed_count_

RecordEvent(falling) ==
    IF count_ >= kMaxEvents
      THEN /\ missed_count_' = (missed_count_ + 1) % Uint16
           /\ UNCHANGED <<count_, event_is_falling_, age>>
      ELSE /\ age' = [age EXCEPT ![count_] = 0]
           /\ event_is_falling_' = [event_is_falling_ EXCEPT ![count_] = falling]
           /\ count_' = count_ + 1
           /\ UNCHANGED missed_count_

OnPinChange ==
    /\ flag /\ flag' = FALSE
    /\ RecordEvent(pin = "LOW")
    /\ calls' = Append(calls, pin = "LOW")
    /\ UNCHANGED <<pin, bouncy_pc, count, report>>

Loop ==
    /\ bouncy_pc = "loop" /\ count_ > 0
    /\ count' = count_ /\ bouncy_pc' = "stable"
    /\ UNCHANGED <<switch, recorded, report>>

\* Have things stabilized?  (The report of missed events that comes next is for
\* a count above kMaxEvents, and only prints.)
HaveStabilized ==
    /\ bouncy_pc = "stable"
    /\ bouncy_pc' = IF age[count - 1] < Stable THEN "loop" ELSE "report"
    /\ report' = << >>
    /\ UNCHANGED <<switch, recorded, count>>

ReportEvent ==
    /\ bouncy_pc = "report" /\ Len(report) < count
    /\ report' = Append(report, event_is_falling_[Len(report)])
    /\ UNCHANGED <<switch, recorded, bouncy_pc, count>>

\* The end of the report, then Reset with interrupts disabled.
Reset ==
    /\ bouncy_pc = "report" /\ Len(report) = count
    /\ bouncy_pc' = "loop"
    /\ count_' = 0 /\ missed_count_' = 0
    /\ calls' = << >>
    /\ UNCHANGED <<switch, event_is_falling_, age, count, report>>

\* After setup.
BouncyInit ==
    /\ pin \in {"LOW", "HIGH"} /\ flag = FALSE
    /\ count_ = 0 /\ missed_count_ = 0
    /\ event_is_falling_ = [i \in Slots |-> FALSE] /\ age = [i \in Slots |-> Stable]
    /\ bouncy_pc = "loop" /\ count = 0 /\ report = << >> /\ calls = << >>

LoopStep == Loop \/ HaveStabilized \/ ReportEvent \/ Reset

BouncyNext == PinChanges \/ TimePasses \/ OnPinChange \/ LoopStep

BouncySpec == BouncyInit /\ [][BouncyNext]_bouncyVars
-----------------------------------------------------------------------------
\* Whatever the interrupt does while the loop works, the array is not exceeded,
\* each call of the interrupt is recorded or counted as missed, the records are
\* those of the first calls since Reset in their order, and so is what the loop
\* prints: no event overtakes another or changes under its hands.
EventsAccounted ==
    /\ count_ <= kMaxEvents /\ count_ + missed_count_ = Len(calls)
    /\ \A i \in 1 .. count_ : event_is_falling_[i - 1] = calls[i]
    /\ bouncy_pc = "report" =>
           /\ Len(report) <= Len(calls)
           /\ \A i \in DOMAIN report : report[i] = calls[i]
=============================================================================
