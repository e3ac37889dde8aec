------------------------------ MODULE SketchProofs ------------------------------
(***************************************************************************)
(* Proofs about the two sketches whose loop shares variables with an         *)
(* interrupt.  The covers and the LEDs (module CoverCalibrator): any number  *)
(* of covers that share the timer, any travel and step limits, any number of *)
(* channels, and an interrupt between any two accesses of a command.  The    *)
(* switch (module BouncySwitch): events recorded while others are reported.  *)
(***************************************************************************)
EXTENDS CoverCalibrator, BouncySwitch, TLAPS

(***************************************************************************)
(* The inductive invariant.  The properties depend on who may interrupt      *)
(* whom: a command that has passed CanMove is the only one to use the timer, *)
(* and between ResetTimer5 and StartTimer5 there is no interrupt, so what    *)
(* the command has written is still there when the timer starts.             *)
(***************************************************************************)

\* The part of a restart in which the timer is off.
TimerOff == {"step_count_", "direction_pin_", "interrupt_handler", "StartTimer5"}

\* A command that has passed CanMove.
MayMove == (MoveAccess \ {"CanMove"})

HandlerInv ==
    /\ pc \in MayMove => interrupt_handler \in {NoHandler, self}
    /\ pc \in TimerOff => TOIE5 = 0
    /\ pc \notin TimerOff /\ interrupt_handler \in Covers => TOIE5 = 1
    /\ pc = "StartTimer5" => interrupt_handler = self

\* What a restart has prepared.
PreparedInv ==
    /\ pc \in {"direction_pin_", "interrupt_handler", "StartTimer5"}
           => step_count_[self] = 0
    /\ pc \in {"interrupt_handler", "StartTimer5"} => direction_pin[self] = wanted
    /\ pc \in Restarting /\ IsMoving(self) => motor_status_[self] = wanted

\* The pin agrees with the status, except while a command is changing both.
DirectionInv ==
    \A c \in Covers :
        IsMoving(c) /\ interrupt_handler = c
                /\ ~(self = c /\ pc \in {"ResetTimer5", "step_count_", "direction_pin_"})
            => direction_pin[c] = motor_status_[c]

\* A Halt that has found nothing to stop, or has changed the status, will find
\* nothing moving.
HaltInv == pc = "RemoveInterruptHandler" => ~IsMoving(self)

IInv == /\ CoverTypeOK
        /\ OneStepMore
        /\ StepsLeft
        /\ MovingIsDriven
        /\ HandlerInv
        /\ PreparedInv
        /\ DirectionInv
        /\ HaltInv

\* A step of a cover that is moving: the status changes exactly if the
\* movement ends, and the limit on steps ends it.
LEMMA StatusAfterStepFacts ==
    ASSUME NEW s \in Moving, NEW n \in 1 .. allowed_steps_ + 1,
           NEW p \in 0 .. Travel
    PROVE  /\ StatusAfterStep(s, n, p) \in MotorStatus
           /\ StatusAfterStep(s, n, p) # s => StatusAfterStep(s, n, p) \notin Moving
           /\ StatusAfterStep(s, n, p) = s => n <= allowed_steps_
           /\ LimitSwitchClosed(s, p) => StatusAfterStep(s, n, p) # s
BY CoverAssumption DEF StatusAfterStep, Moving, MotorStatus

LEMMA PushedType ==
    ASSUME CoverTypeOK, NEW c \in Covers
    PROVE  Pushed(c) \in 0 .. Travel
BY CoverAssumption DEF CoverTypeOK, Pushed, LimitSwitchClosed, Moving

LEMMA InitIInv == CoverInit => IInv
<1> SUFFICES ASSUME CoverInit PROVE IInv
    OBVIOUS
<1>1. CoverTypeOK
    BY CoverAssumption DEF CoverInit, CoverTypeOK, MotorStatus, Moving, MoveAccess,
        Restarting
<1>2. \A c \in Covers : ~IsMoving(c)
    BY DEF CoverInit, IsMoving, Moving
<1>3. /\ OneStepMore /\ StepsLeft /\ MovingIsDriven /\ HandlerInv /\ PreparedInv
      /\ DirectionInv /\ HaltInv
    BY <1>2, CoverAssumption DEF CoverInit, OneStepMore, StepsLeft, MovingIsDriven, HandlerInv,
        PreparedInv, DirectionInv, HaltInv, MayMove, MoveAccess, Restarting, TimerOff
<1> QED BY <1>1, <1>3 DEF IInv

\* A pulse, wherever in a command it comes: if the movement ends, the cover is
\* no longer the handler and no longer claims to move; if it goes on, there are
\* steps left.
LEMMA StepMotorIInv ==
    ASSUME IInv, NEW c \in Covers, StepMotor(c)
    PROVE  IInv'
<1> DEFINE s == motor_status_[c]
           n == step_count_[c] + 1
           p == position'[c]
           t == StatusAfterStep(s, n, p)
<1>1. s \in Moving /\ interrupt_handler = c /\ TOIE5 = 1
    BY DEF StepMotor, IsMoving
<1>2. step_count_[c] \in 0 .. allowed_steps_
    BY <1>1, CoverAssumption DEF IInv, CoverTypeOK, StepsLeft
<1>3. n \in 1 .. allowed_steps_ + 1
    BY <1>2, CoverAssumption
<1>4. /\ position' \in [Covers -> 0 .. Travel]
      /\ p \in 0 .. Travel
    BY PushedType DEF StepMotor, IInv, CoverTypeOK
<1>5. /\ t \in MotorStatus
      /\ t # s => t \notin Moving
      /\ t = s => n <= allowed_steps_
    <2> HIDE DEF s, n, p
    <2> QED BY <1>1, <1>3, <1>4, StatusAfterStepFacts
<1>6. /\ step_count_' = [step_count_ EXCEPT ![c] = n]
      /\ step_count_'[c] = n
    BY DEF StepMotor, IInv, CoverTypeOK
<1>7. /\ motor_status_' = [motor_status_ EXCEPT ![c] = t]
      /\ motor_status_'[c] = t
    BY <1>6 DEF StepMotor, IInv, CoverTypeOK
<1>8. interrupt_handler' = IF t = s THEN c ELSE NoHandler
    BY <1>7 DEF StepMotor
<1>9. UNCHANGED <<TOIE5, direction_pin, present, pc, self, wanted>>
    BY DEF StepMotor
<1>10. \A d \in Covers : d # c => ~IsMoving(d) \/ (self = d /\ pc \in Restarting)
    BY <1>1 DEF IInv, MovingIsDriven
<1>11. pc \notin TimerOff
    BY <1>1 DEF IInv, HandlerInv
<1> HIDE DEF s, n, p, t
<1>12. CoverTypeOK' /\ OneStepMore'
    BY <1>3, <1>4, <1>5, <1>6, <1>7, <1>8, <1>9, CoverAssumption
       DEF IInv, CoverTypeOK, OneStepMore
<1>13. StepsLeft'
    BY <1>5, <1>6, <1>8, CoverAssumption DEF StepsLeft
<1>14. MovingIsDriven'
  <2> SUFFICES ASSUME NEW d \in Covers, IsMoving(d)', ~(self = d /\ pc \in Restarting)
               PROVE  interrupt_handler' = d /\ TOIE5' = 1
    BY <1>9 DEF MovingIsDriven
  <2>1. d = c
    BY <1>7, <1>10 DEF IsMoving, IInv, CoverTypeOK
  <2> QED BY <2>1, <1>1, <1>5, <1>7, <1>8, <1>9 DEF IsMoving
<1>15. HandlerInv'
    BY <1>1, <1>8, <1>9, <1>11 DEF IInv, HandlerInv, TimerOff
<1>16. PreparedInv'
  <2>1. pc \in Restarting /\ IsMoving(self)' => motor_status_'[self] = wanted
    BY <1>1, <1>5, <1>7, <1>9 DEF IInv, PreparedInv, IsMoving, CoverTypeOK, Restarting, s
  <2> QED BY <2>1, <1>9, <1>11 DEF PreparedInv, TimerOff
<1>17. DirectionInv'
    BY <1>1, <1>5, <1>7, <1>8, <1>9, CoverAssumption
       DEF IInv, DirectionInv, IsMoving, CoverTypeOK, s
<1>18. HaltInv'
    BY <1>1, <1>5, <1>7, <1>9 DEF IInv, HaltInv, IsMoving, CoverTypeOK, s
<1> QED BY <1>12, <1>13, <1>14, <1>15, <1>16, <1>17, <1>18 DEF IInv

\* Every step of a command or of the interrupt preserves the invariant.
LEMMA NextIInv == IInv /\ [CoverNext]_coverVars => IInv'
<1> SUFFICES ASSUME IInv, [CoverNext]_coverVars PROVE IInv'
    OBVIOUS
<1> USE CoverAssumption DEF IInv, CoverTypeOK, OneStepMore, StepsLeft, MovingIsDriven, HandlerInv,
        PreparedInv, DirectionInv, HaltInv, IsMoving, MayMove, TimerOff, MoveAccess,
        HaltAccess, Restarting, Moving, MotorStatus, Goto, Return, shared
<1>1. ASSUME NEW c \in Covers, NEW status \in Moving, MoveCover(c, status)
      PROVE  IInv'
    BY <1>1 DEF MoveCover
<1>2. ASSUME NEW c \in Covers, HaltCoverMotion(c)
      PROVE  IInv'
    BY <1>2 DEF HaltCoverMotion
<1>3. CASE CheckCanMove
    BY <1>3 DEF CheckCanMove, CanMove
<1>4. CASE CheckIsAtLimit
    BY <1>4 DEF CheckIsAtLimit
<1>5. CASE GetInterruptHandler
    BY <1>5 DEF GetInterruptHandler
<1>6. CASE CheckMotorStatus
    BY <1>6 DEF CheckMotorStatus
<1>7. CASE SetMotorStatus
    BY <1>7 DEF SetMotorStatus
<1>8. CASE ResetTimer5
    BY <1>8 DEF ResetTimer5
<1>9. CASE ResetStepCount
    BY <1>9 DEF ResetStepCount
<1>10. CASE SetDirection
    BY <1>10 DEF SetDirection
<1>11. CASE SetInterruptHandler
    BY <1>11 DEF SetInterruptHandler
<1>12. CASE StartTimer5
    BY <1>12 DEF StartTimer5
<1>13. CASE HaltIsMoving
    BY <1>13 DEF HaltIsMoving
<1>14. CASE HaltSetMotorStatus
    BY <1>14 DEF HaltSetMotorStatus
<1>15. CASE RemoveInterruptHandler
    BY <1>15 DEF RemoveInterruptHandler
<1>16. CASE InterruptWithoutHandler
    BY <1>16 DEF InterruptWithoutHandler
<1>17. ASSUME NEW c \in Covers, StepMotor(c)
      PROVE  IInv'
    BY <1>17, StepMotorIInv
<1>18. ASSUME NEW c \in Covers, HandleInterruptNotMoving(c)
      PROVE  IInv'
    BY <1>18 DEF HandleInterruptNotMoving
<1>19. CASE UNCHANGED coverVars
    BY <1>19 DEF coverVars
<1> QED
    BY <1>1, <1>2, <1>3, <1>4, <1>5, <1>6, <1>7, <1>8, <1>9, <1>10, <1>11, <1>12, <1>13, <1>14, <1>15, <1>16, <1>17, <1>18, <1>19 DEF CoverNext, Command, CommandStep, Interrupt, RefuseCommand

\* The devices that control the LEDs leave the cover alone.
LEMMA CoverUnaffected == Spec => CoverSpec
<1>1. Init => CoverInit
    BY DEF Init
<1>2. [Next]_vars => [CoverNext]_coverVars
    BY DEF Next, vars, Calibrator, SetCalibratorBrightness, SetCalibratorOff, SetSwitch
<1> QED BY <1>1, <1>2, PTL DEF Spec, CoverSpec

LEMMA Invariant == Spec => []IInv
<1>1. CoverSpec => []IInv
    BY InitIInv, NextIInv, PTL DEF CoverSpec
<1> QED BY <1>1, CoverUnaffected, PTL

\* Types, and a bound on the steps of a movement: allowed_steps_ are exceeded by
\* one at most, for every interleaving of commands and interrupts (Cover).
THEOREM CoverStepsBounded == Spec => [](CoverTypeOK /\ OneStepMore)
<1>1. IInv => CoverTypeOK /\ OneStepMore
    BY DEF IInv
<1> QED BY <1>1, Invariant, PTL

\* A cover that can be stepped has steps left (StartMoving, HandleInterrupt).
THEOREM CoverStepsLeft == Spec => []StepsLeft
<1>1. IInv => StepsLeft
    BY DEF IInv
<1> QED BY <1>1, Invariant, PTL

\* A cover that reports to be moving is driven by the timer, or its motor is
\* just being restarted (IsMoving, Halt).
THEOREM CoverMovingIsDriven == Spec => []MovingIsDriven
<1>1. IInv => MovingIsDriven
    BY DEF IInv
<1> QED BY <1>1, Invariant, PTL

\* Of any number of covers on one timer at most one moves (CanMove).
THEOREM CoverOnlyOneMoves == Spec => []OnlyOneMoves
<1>1. ASSUME IInv, NEW c \in Covers, NEW d \in Covers, IsMoving(c), IsMoving(d)
      PROVE  c = d
  <2>1. ASSUME NEW e \in Covers, IsMoving(e)
        PROVE  interrupt_handler = e \/ (self = e /\ pc \in Restarting)
    BY <1>1, <2>1 DEF IInv, MovingIsDriven
  <2>2. pc \in Restarting => interrupt_handler \in {NoHandler, self}
    BY <1>1 DEF IInv, HandlerInv, MayMove, MoveAccess, Restarting
  <2> QED BY <1>1, <2>1, <2>2, CoverAssumption
<1>2. IInv => OnlyOneMoves
    BY <1>1 DEF OnlyOneMoves
<1> QED BY <1>2, Invariant, PTL

\* Except in the window of a reversal, each pulse goes the way the status says
\* and a pulse against a closed switch ends the movement (HandleInterrupt).
THEOREM CoverStepsAsCommanded == Spec => StepsAsCommanded
<1> DEFINE P(c) == StepMotor(c) /\ ~(pc = "ResetTimer5" /\ self = c) =>
                     /\ direction_pin[c] = motor_status_[c]
                     /\ LimitSwitchClosed(direction_pin[c], position[c])
                            => interrupt_handler' = NoHandler
<1>1. ASSUME IInv, NEW c \in Covers, StepMotor(c), ~(pc = "ResetTimer5" /\ self = c)
      PROVE  direction_pin[c] = motor_status_[c]
    BY <1>1 DEF IInv, DirectionInv, HandlerInv, TimerOff, StepMotor
<1>2. ASSUME IInv, NEW c \in Covers, StepMotor(c),
             direction_pin[c] = motor_status_[c],
             LimitSwitchClosed(direction_pin[c], position[c])
      PROVE  interrupt_handler' = NoHandler
  <2>1. position'[c] = position[c]
    BY <1>2 DEF StepMotor, Pushed, IInv, CoverTypeOK
  <2>2. motor_status_'[c] = "kNotMoving"
    BY <1>2, <2>1 DEF StepMotor, StatusAfterStep, IInv, CoverTypeOK
  <2> QED BY <1>2, <2>2 DEF StepMotor, IsMoving, Moving
<1>3. ASSUME IInv, NEW c \in Covers PROVE P(c)
    BY <1>1, <1>2, <1>3
<1>4. IInv => [\A c \in Covers : P(c)]_coverVars
    BY <1>3
<1> QED BY <1>4, Invariant, PTL DEF StepsAsCommanded

(***************************************************************************)
(* The LEDs.                                                                 *)
(***************************************************************************)

\* Off also means that there is no brightness that a switch could apply again.
LedInv ==
    /\ calibrator_on_ \in BOOLEAN
    /\ OffIsDark
    /\ ~calibrator_on_ => brightness_ = 0

\* While the calibrator is off every channel is dark, for any number of
\* channels and any jumpers (SetCalibratorOff, SetLedChannelEnabled).
THEOREM CalibratorOffIsDark == Spec => []OffIsDark
<1>1. Init => LedInv
    BY DEF Init, LedInv, OffIsDark
<1>2. ASSUME LedInv, [Next]_vars PROVE LedInv'
  <2> USE DEF LedInv, OffIsDark
  <2>1. CASE UNCHANGED leds
    BY <1>2, <2>1 DEF leds
  <2>2. ASSUME NEW b \in 0 .. kMaxBrightness + 1, SetCalibratorBrightness(b)
        PROVE  LedInv'
    BY <2>2 DEF SetCalibratorBrightness
  <2>3. CASE SetCalibratorOff
    BY <2>3 DEF SetCalibratorOff, SetPulseCounts
  <2>4. ASSUME NEW channel \in Channels, NEW state \in BOOLEAN,
               SetSwitch(channel, state)
        PROVE  LedInv'
    <3>1. CASE calibrator_on_' = TRUE
      BY <3>1
    <3>2. CASE UNCHANGED <<calibrator_on_, brightness_, pulse_count>>
      BY <1>2, <3>2
    <3> QED BY <2>4, <3>1, <3>2 DEF SetSwitch
  <2> QED BY <1>2, <2>1, <2>2, <2>3, <2>4 DEF Next, Calibrator, vars, leds
<1>3. LedInv => OffIsDark
    BY DEF LedInv
<1> QED BY <1>1, <1>2, <1>3, PTL DEF Spec
-----------------------------------------------------------------------------
(* The sketch that records the bounces of a switch *)

\* What the interrupt reads at the pin.
Reading == BOOLEAN

\* The interrupt that is pending can still be called.
FlagInv == flag \in BOOLEAN /\ (flag = TRUE => Len(calls) < MaxCalls)

\* The events recorded are the first that the interrupt saw, the rest are
\* counted; while the loop looks at an event or reports it, the events up to its
\* copy of count_ are there to stay.
BouncyInv ==
    /\ bouncy_pc \in {"loop", "stable", "report"}
    /\ count_ \in 0 .. kMaxEvents /\ count \in 0 .. kMaxEvents
    /\ missed_count_ \in Nat /\ missed_count_ < Uint16
    /\ event_is_falling_ \in [Slots -> Reading]
    /\ calls \in Seq(Reading) /\ report \in Seq(Reading)
    /\ count_ + missed_count_ = Len(calls)
    /\ missed_count_ > 0 => count_ = kMaxEvents
    /\ \A i \in 1 .. count_ : event_is_falling_[i - 1] = calls[i]
    /\ Len(calls) <= MaxCalls
    /\ bouncy_pc # "loop" => 0 < count /\ count <= count_
    /\ bouncy_pc = "report" =>
           /\ Len(report) <= count
           /\ \A i \in 1 .. Len(report) : report[i] = event_is_falling_[i - 1]

LEMMA Uint16Type == Uint16 \in Nat \ {0}
    BY DEF Uint16

\* A call of the interrupt, which may come between any two steps of the loop: it
\* writes at count_, above all that the loop reads.
LEMMA OnPinChangeStep ==
    ASSUME MaxCalls < kMaxEvents + Uint16, FlagInv, BouncyInv, OnPinChange
    PROVE  BouncyInv'
<1> USE BouncySwitchAssumption, Uint16Type
<1>1. PICK falling \in Reading :
          /\ RecordEvent(falling) /\ calls' = Append(calls, falling)
  <2>1. (pin = "LOW") \in Reading
    BY Zenon DEF Reading
  <2> QED
    BY <2>1, Zenon DEF OnPinChange
<1>2. bouncy_pc' = bouncy_pc /\ count' = count /\ report' = report
    BY Zenon DEF OnPinChange
<1>3. Len(calls) < MaxCalls
    BY Zenon DEF OnPinChange, FlagInv
<1>4. /\ calls' \in Seq(Reading) /\ Len(calls') = Len(calls) + 1
      /\ \A i \in 1 .. Len(calls) : calls'[i] = calls[i]
      /\ calls'[Len(calls) + 1] = falling
    BY <1>1 DEF BouncyInv
<1>5. CASE count_ >= kMaxEvents
  <2>1. /\ missed_count_' = (missed_count_ + 1) % Uint16
        /\ count_' = count_ /\ event_is_falling_' = event_is_falling_
    BY <1>1, <1>5, Zenon DEF RecordEvent
  <2>2. count_ = kMaxEvents /\ missed_count_ + 1 < Uint16
    BY <1>3, <1>4, <1>5 DEF BouncyInv
  <2>3. missed_count_' = missed_count_ + 1
    BY <2>1, <2>2 DEF BouncyInv, Uint16
  <2>4. /\ missed_count_' \in Nat /\ missed_count_' < Uint16
        /\ count_' + missed_count_' = Len(calls')
        /\ missed_count_' > 0 => count_' = kMaxEvents
        /\ Len(calls') <= MaxCalls
    <3>1. /\ missed_count_ \in Nat /\ count_ \in Nat /\ kMaxEvents \in Nat /\ MaxCalls \in Nat
          /\ count_ + missed_count_ = Len(calls) /\ Len(calls) \in Nat
      BY DEF BouncyInv
    <3>2. missed_count_' \in Nat /\ missed_count_' < Uint16
      BY <2>2, <2>3, <3>1
    <3>3. count_' + missed_count_' = Len(calls')
      <4>1. count_' = count_ /\ Len(calls') = Len(calls) + 1
        BY <1>4, <2>1, Zenon
      <4> QED
        BY <2>3, <3>1, <4>1, SMT
    <3>4. Len(calls') <= MaxCalls
      BY <1>3, <1>4, <3>1
    <3> QED
      BY <2>1, <2>2, <3>2, <3>3, <3>4
  <2>5. \A i \in 1 .. count_' : event_is_falling_'[i - 1] = calls'[i]
    BY <1>4, <2>1 DEF BouncyInv
  <2> QED
    BY <1>2, <1>4, <2>1, <2>4, <2>5 DEF BouncyInv
<1>6. CASE ~(count_ >= kMaxEvents)
  <2>1. /\ missed_count_' = missed_count_ /\ count_' = count_ + 1
        /\ event_is_falling_' = [event_is_falling_ EXCEPT ![count_] = falling]
    BY <1>1, <1>6, Zenon DEF RecordEvent
  <2>2. missed_count_ = 0 /\ Len(calls) = count_ /\ count_ \in Slots
    BY <1>6 DEF BouncyInv, Slots
  <2>3. /\ event_is_falling_' \in [Slots -> Reading]
        /\ event_is_falling_'[count_] = falling
        /\ \A i \in Slots \ {count_} : event_is_falling_'[i] = event_is_falling_[i]
    BY <1>1, <2>1, <2>2 DEF BouncyInv
  <2>4. \A i \in 1 .. count_ : i - 1 \in Slots \ {count_}
    BY <2>2 DEF Slots, BouncyInv
  <2>5. \A i \in 1 .. count_' : event_is_falling_'[i - 1] = calls'[i]
    BY <1>4, <2>1, <2>2, <2>3, <2>4 DEF BouncyInv
  <2>6. bouncy_pc = "report" =>
            \A i \in 1 .. Len(report) : report[i] = event_is_falling_'[i - 1]
    BY <2>3, <2>4 DEF BouncyInv
  <2> QED
    BY <1>2, <1>3, <1>4, <1>6, <2>1, <2>2, <2>3, <2>5, <2>6 DEF BouncyInv
<1> QED
    BY <1>5, <1>6

\* A step of the loop.
LEMMA LoopStepKeeps ==
    ASSUME BouncyInv, LoopStep
    PROVE  BouncyInv'
<1> USE BouncySwitchAssumption, Uint16Type
<1>1. event_is_falling_' = event_is_falling_
    BY Zenon DEF LoopStep, Loop, HaveStabilized, ReportEvent, Reset, switch, recorded
<1>2. CASE Loop
    BY <1>1, <1>2 DEF BouncyInv, Loop, recorded
<1>3. CASE HaveStabilized
  <2>1. << >> \in Seq(Reading) /\ Len(<< >>) = 0
    OBVIOUS
  <2> QED
    BY <1>1, <1>3, <2>1 DEF BouncyInv, HaveStabilized, recorded
<1>4. CASE ReportEvent
  <2>1. /\ bouncy_pc = "report" /\ bouncy_pc' = bouncy_pc /\ count' = count /\ Len(report) < count
        /\ count_' = count_ /\ missed_count_' = missed_count_ /\ calls' = calls
        /\ report' = Append(report, event_is_falling_[Len(report)])
    BY <1>4, Zenon DEF ReportEvent, recorded
  <2>2. event_is_falling_[Len(report)] \in Reading
    BY <2>1 DEF BouncyInv, Slots
  <2>3. /\ report' \in Seq(Reading) /\ Len(report') = Len(report) + 1
        /\ \A i \in 1 .. Len(report) : report'[i] = report[i]
        /\ report'[Len(report) + 1] = event_is_falling_[Len(report)]
    BY <2>1, <2>2 DEF BouncyInv
  <2>4. \A i \in 1 .. Len(report') : report'[i] = event_is_falling_[i - 1]
    BY <2>1, <2>3 DEF BouncyInv
  <2> QED
    BY <1>1, <2>1, <2>3, <2>4 DEF BouncyInv
<1>5. CASE Reset
  <2>1. << >> \in Seq(Reading) /\ Len(<< >>) = 0
    OBVIOUS
  <2> QED
    BY <1>1, <1>5, <2>1 DEF BouncyInv, Reset
<1> QED
    BY <1>2, <1>3, <1>4, <1>5 DEF LoopStep

\* RecordEvent and Loop of the sketch: whenever the interrupt comes, every event
\* is recorded or counted as missed, in its order, and the loop reports what was
\* recorded.  The count of missed events is 16 bits wide, so the interrupt must
\* be called fewer than kMaxEvents + 65536 times between two Resets.
THEOREM BouncyEventsAccounted ==
    ASSUME MaxCalls < kMaxEvents + Uint16
    PROVE  BouncySpec => []EventsAccounted
<1> USE BouncySwitchAssumption, Uint16Type
<1>1. BouncyInit => FlagInv /\ BouncyInv
  <2> SUFFICES ASSUME BouncyInit PROVE FlagInv /\ BouncyInv
    OBVIOUS
  <2>1. FlagInv
    BY Zenon DEF BouncyInit, FlagInv
  <2>2. event_is_falling_ \in [Slots -> Reading]
    BY Zenon DEF BouncyInit, Reading
  <2>3. << >> \in Seq(Reading) /\ Len(<< >>) = 0
    OBVIOUS
  <2>4. /\ bouncy_pc = "loop" /\ count_ = 0 /\ count = 0 /\ missed_count_ = 0
        /\ calls = << >> /\ report = << >>
    BY Zenon DEF BouncyInit
  <2> QED
    BY <2>1, <2>2, <2>3, <2>4 DEF BouncyInv
<1>2. FlagInv /\ BouncyInv /\ [BouncyNext]_bouncyVars => FlagInv'
  <2> SUFFICES ASSUME FlagInv, BouncyInv, [BouncyNext]_bouncyVars
               PROVE  FlagInv'
    OBVIOUS
  <2>1. CASE PinChanges
    BY <2>1, Zenon DEF FlagInv, PinChanges, recorded
  <2>2. CASE OnPinChange
    BY <2>2, Zenon DEF FlagInv, OnPinChange
  <2>3. CASE Reset
    <3>1. flag' = flag /\ calls' = << >>
      BY <2>3, Zenon DEF Reset, switch
    <3>2. Len(calls) < MaxCalls => Len(<< >>) < MaxCalls
      BY DEF BouncyInv
    <3> QED
      BY <3>1, <3>2, Zenon DEF FlagInv
  <2>4. CASE flag' = flag /\ calls' = calls
    BY <2>4, Zenon DEF FlagInv
  <2> QED
    BY <2>1, <2>2, <2>3, <2>4, Zenon DEF BouncyNext, TimePasses, LoopStep, Loop,
       HaveStabilized, ReportEvent, bouncyVars, switch, recorded
<1>3. FlagInv /\ BouncyInv /\ [BouncyNext]_bouncyVars => BouncyInv'
  <2> SUFFICES ASSUME FlagInv, BouncyInv, [BouncyNext]_bouncyVars
               PROVE  BouncyInv'
    OBVIOUS
  <2>1. CASE PinChanges
    BY <2>1 DEF BouncyInv, PinChanges, recorded
  <2>2. CASE TimePasses
    BY <2>2 DEF BouncyInv, TimePasses, switch
  <2>3. CASE OnPinChange
    BY <2>3, OnPinChangeStep
  <2>4. CASE LoopStep
    BY <2>4, LoopStepKeeps
  <2>5. CASE UNCHANGED bouncyVars
    BY <2>5 DEF BouncyInv, bouncyVars, switch, recorded
  <2> QED
    BY <2>1, <2>2, <2>3, <2>4, <2>5 DEF BouncyNext
<1>4. BouncyInv => EventsAccounted
  <2> SUFFICES ASSUME BouncyInv PROVE EventsAccounted
    OBVIOUS
  <2>1. bouncy_pc = "report" =>
            /\ Len(report) <= Len(calls)
            /\ \A i \in DOMAIN report : report[i] = calls[i]
    <3> SUFFICES ASSUME bouncy_pc = "report"
                 PROVE  /\ Len(report) <= Len(calls)
                        /\ \A i \in DOMAIN report : report[i] = calls[i]
      OBVIOUS
    <3>1. /\ Len(report) \in Nat /\ Len(calls) \in Nat /\ DOMAIN report = 1 .. Len(report)
          /\ count_ \in Nat /\ missed_count_ \in Nat
      BY BouncySwitchAssumption DEF BouncyInv
    <3>2. Len(report) <= count_ /\ count_ <= Len(calls)
      BY <3>1, BouncySwitchAssumption DEF BouncyInv
    <3>3. ASSUME NEW i \in DOMAIN report
          PROVE  report[i] = calls[i]
      <4>1. i \in 1 .. Len(report) /\ i \in 1 .. count_
        BY <3>1, <3>2
      <4>2. report[i] = event_is_falling_[i - 1]
        BY <4>1, Zenon DEF BouncyInv
      <4>3. event_is_falling_[i - 1] = calls[i]
        BY <4>1, Zenon DEF BouncyInv
      <4> QED
        BY <4>2, <4>3, Zenon
    <3> QED
      BY <3>1, <3>2, <3>3
  <2> QED
    BY <2>1 DEF BouncyInv, EventsAccounted
<1> QED
    BY <1>1, <1>2, <1>3, <1>4, PTL DEF BouncySpec
=============================================================================
