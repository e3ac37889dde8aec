------------------------------ MODULE PulseSpacing ------------------------------
(***************************************************************************)
(* The sketch that moves the cover with pulses from a timer interrupt        *)
(* (examples/PulseSpacingModulation/PulseSpacingModulation.ino): the loop    *)
(* opens and closes the cover in turn, the interrupt makes the steps, speeds *)
(* up, and ends the movement at the limit switch or after                    *)
(* kMaximumAllowedSteps.                                                     *)
(*                                                                           *)
(* The loop is cut at each access to what it shares with the interrupt,      *)
(* which runs between any two of them while TIMSK5 enables it.  Time         *)
(* stamps, which are only printed, are left out.                             *)
(***************************************************************************)
EXTENDS Integers, FiniteSetsExt

CONSTANTS
    kMaximumAllowedSteps,
    PulseTravel,             \* steps between the limit switches
    MaxSpeed            \* bound: of steps_per_second

ASSUME PulseSpacingAssumption ==
    kMaximumAllowedSteps \in Nat \ {0} /\ PulseTravel \in Nat \ {0} /\ MaxSpeed \in Nat

VARIABLES
    movement_mode, limit_pin, step_count, target_top,
    OCR5A, TIMSK5,
    open_next, steps_per_second, start_count,   \* static variables of loop
    pulse_pc,           \* the next access of the loop
    direction, cover_at,\* of the motor and the cover
    pulses              \* made since the loop last started a movement

timer == <<target_top, OCR5A, TIMSK5>>
statics == <<open_next, steps_per_second, start_count>>
motor == <<direction, cover_at>>
pulseVars == <<movement_mode, limit_pin, step_count, timer, statics, pulse_pc, motor, pulses>>

\* digitalRead of a limit switch is LOW at its end of the travel.
AtLimit(p, where) == where = IF p = "open" THEN PulseTravel ELSE 0

PulseGoto(from, to) == pulse_pc = from /\ pulse_pc' = to
-----------------------------------------------------------------------------
(* The interrupt *)

\* uint16_t current_target times 15 in the 16-bit arithmetic of the board.
NewTarget(current, target) == ((current * 15 + target) % 65536) \div 16

Ramp ==
    IF target_top = 0 THEN UNCHANGED <<target_top, OCR5A>>
    ELSE /\ OCR5A' = NewTarget(OCR5A, target_top)
         /\ target_top' = IF NewTarget(OCR5A, target_top) <= target_top THEN 0 ELSE target_top

\* The cover follows the pulse, unless the motor stalls or the cover is at a stop.
Pulse ==
    /\ step_count' = step_count + 1 /\ pulses' = pulses + 1
    /\ cover_at' \in {cover_at, IF direction = "LOW" THEN cover_at + 1 ELSE cover_at - 1}
    /\ cover_at' \in 0 .. PulseTravel

ShutOff ==
    /\ movement_mode' = "kNotMoving" /\ TIMSK5' = FALSE
    /\ UNCHANGED <<target_top, OCR5A>>

\* Mutant: the steps are counted, in a counter that wraps, but not limited.
PulseOrStopUnlimited ==
    /\ step_count' = (step_count + 1) % (kMaximumAllowedSteps + 1) /\ pulses' = step_count'
    /\ cover_at' \in {cover_at, IF direction = "LOW" THEN cover_at + 1 ELSE cover_at - 1}
    /\ cover_at' \in 0 .. PulseTravel
    /\ Ramp
    /\ UNCHANGED <<movement_mode, TIMSK5>>

PulseOrStop ==
    /\ Pulse
    /\ IF kMaximumAllowedSteps > step_count'
         THEN Ramp /\ UNCHANGED <<movement_mode, TIMSK5>>
         ELSE ShutOff

TimerInterrupt ==
    /\ TIMSK5
    /\ IF movement_mode \in {"kOpening", "kClosing"} /\ ~AtLimit(limit_pin, cover_at)
         THEN PulseOrStop
         ELSE ShutOff /\ UNCHANGED <<step_count, pulses, cover_at>>
    /\ UNCHANGED <<limit_pin, statics, pulse_pc, direction>>
-----------------------------------------------------------------------------
(* The loop *)

LoopChecks ==
    /\ movement_mode = "kNotMoving" /\ PulseGoto("loop", "report")
    /\ UNCHANGED <<movement_mode, limit_pin, step_count, timer, statics, motor, pulses>>

\* The report, and the counters cleared; the speed rises every fifth time.
Report ==
    /\ PulseGoto("report", "direction")
    /\ step_count' = 0
    /\ start_count' = IF start_count = 4 THEN 0 ELSE start_count + 1
    /\ steps_per_second' = IF start_count = 4 /\ steps_per_second < MaxSpeed
                             THEN (steps_per_second + 50) % 65536 ELSE steps_per_second
    /\ UNCHANGED <<movement_mode, limit_pin, timer, open_next, motor, pulses>>

DoOpenOrClose ==
    /\ PulseGoto("direction", "copy")
    /\ direction' = IF open_next THEN "LOW" ELSE "HIGH"
    /\ open_next' = ~open_next
    /\ UNCHANGED <<movement_mode, limit_pin, step_count, timer, start_count,
                   steps_per_second, cover_at, pulses>>

\* By now open_next is about the next movement.
This(opening, closing) == IF open_next THEN closing ELSE opening

\* The copy of movement_mode: a movement under way is stopped.
StopMoving ==
    /\ PulseGoto("copy", "limit")
    /\ TIMSK5' = IF movement_mode = "kNotMoving" THEN TIMSK5 ELSE FALSE
    /\ movement_mode' = "kNotMoving"
    /\ UNCHANGED <<limit_pin, step_count, target_top, OCR5A, statics, motor, pulses>>

ReadLimit ==
    /\ limit_pin' = This("open", "closed")
    /\ IF AtLimit(limit_pin', cover_at) THEN PulseGoto("limit", "loop") ELSE PulseGoto("limit", "counters")
    /\ UNCHANGED <<movement_mode, step_count, timer, statics, motor, pulses>>

ResetCounters ==
    /\ PulseGoto("counters", "mode")
    /\ step_count' = 0 /\ pulses' = 0
    /\ UNCHANGED <<movement_mode, limit_pin, timer, statics, motor>>

SetMode ==
    /\ PulseGoto("mode", "disable")
    /\ movement_mode' = This("kOpening", "kClosing")
    /\ UNCHANGED <<limit_pin, step_count, timer, statics, motor, pulses>>

DisableTimer5 ==
    /\ PulseGoto("disable", "adjust")
    /\ TIMSK5' = FALSE
    /\ UNCHANGED <<movement_mode, limit_pin, step_count, target_top, OCR5A, statics, motor, pulses>>

\* 1000000000.0 / steps_per_second + 0.5
period_ns == (2 * 1000000000 + steps_per_second) \div (2 * steps_per_second)

AdjustTimerPeriod ==
    LET half_period_cycles == ((16000000 \div 100000) * period_ns) \div 20000
        Fits == {d \in {1, 8, 64, 256} : half_period_cycles < 65536 * d}
        top  == (half_period_cycles \div (IF Fits = {} THEN 1024 ELSE Min(Fits))) % 65536
    IN  /\ PulseGoto("adjust", "enable")
        /\ target_top' = top
        /\ OCR5A' = Min({65535, top * 32})
        /\ UNCHANGED <<movement_mode, limit_pin, step_count, TIMSK5, statics, motor, pulses>>

PulseStartTimer5 ==
    /\ PulseGoto("enable", "loop")
    /\ TIMSK5' = TRUE
    /\ UNCHANGED <<movement_mode, limit_pin, step_count, target_top, OCR5A, statics, motor, pulses>>

PulseInit ==
    /\ movement_mode = "kNotMoving" /\ limit_pin = "closed" /\ step_count = 0
    /\ target_top = 0 /\ OCR5A = 0 /\ TIMSK5 = FALSE
    /\ open_next = TRUE /\ steps_per_second = 19500 /\ start_count = 0
    /\ pulse_pc = "loop" /\ direction = "LOW" /\ cover_at \in 0 .. PulseTravel /\ pulses = 0

PulseLoop ==
    \/ LoopChecks \/ Report \/ DoOpenOrClose \/ StopMoving \/ ReadLimit \/ ResetCounters
    \/ SetMode \/ DisableTimer5 \/ AdjustTimerPeriod \/ PulseStartTimer5

PulseNext == PulseLoop \/ TimerInterrupt
-----------------------------------------------------------------------------
\* Each movement ends, also when the motor stalls for ever, and the loop then
\* reports the number of pulses it took while no interrupt can change it.
MovementReported ==
    movement_mode # "kNotMoving" ~>
        (pulse_pc = "report" /\ step_count = pulses /\ ~TIMSK5)
=============================================================================
