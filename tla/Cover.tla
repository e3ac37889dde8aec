--------------------------------- MODULE Cover ---------------------------------
(***************************************************************************)
(* The motorized covers of examples/CoverCalibrator/src/cover.cpp.  The main *)
(* loop executes Open, Close and Halt; the overflow interrupt of             *)
(* Timer/Counter 5 steps the motor and may come between any two accesses of  *)
(* the main loop to what they share.  So a command is one action per access, *)
(* and "pc" says which one is next; a section between noInterrupts() and     *)
(* interrupts() is one action, and so is the interrupt, which is not itself  *)
(* interrupted.  Each cover has a position, a stop at either end and a limit *)
(* switch at each stop; a pulse moves the cover one position, or not at all  *)
(* when the motor is too weak or the cover is at the stop.  Jumpers are set  *)
(* before the device is switched on.                                         *)
(***************************************************************************)
EXTENDS Naturals

CONSTANTS
    Covers,                 \* the Cover instances, which share the timer
    NoHandler,              \* interrupt_handler is nullptr
    Travel,                 \* steps from closed to open
    allowed_steps_,
    allowed_start_steps_

ASSUME CoverAssumption ==
    /\ NoHandler \notin Covers
    /\ Travel \in Nat \ {0}
    /\ allowed_steps_ \in Nat
    /\ allowed_start_steps_ \in Nat

VARIABLES
    interrupt_handler,  \* the cover whose HandleInterrupt is called
    TOIE5,              \* 1 if the overflow interrupt of the timer is enabled
    motor_status_,      \* of each cover
    step_count_,        \* of each cover
    direction_pin,      \* of each cover, named by the status that sets it
    position,           \* of each cover: 0 closed, Travel open
    present,            \* covers whose enabled pin is LOW
    pc,                 \* "loop", or the next access of the command
    self,               \* the cover whose command is executed
    wanted              \* kOpening in Open, kClosing in Close

shared == <<interrupt_handler, TOIE5, motor_status_, step_count_, direction_pin>>
coverVars == <<shared, position, present, pc, self, wanted>>

Moving == {"kOpening", "kClosing"}
MotorStatus == Moving \cup {"kNotMoving", "kStartOpeningFailed",
                   "kStartClosingFailed", "kOpeningFailed", "kClosingFailed"}

\* From here on the command no longer looks at what it found, and restarts
\* the motor.
Restarting == {"ResetTimer5", "step_count_", "direction_pin_",
               "interrupt_handler", "StartTimer5"}
MoveAccess == {"CanMove", "IsAtLimit", "GetInterruptHandler", "motor_status_",
               "SetMotorStatus"} \cup Restarting
HaltAccess == {"HaltIsMoving", "HaltSetMotorStatus", "RemoveInterruptHandler"}

IsMoving(c) == motor_status_[c] \in Moving

\* The limit switch at the end towards which a cover in status s moves, read
\* when the cover is at p.
LimitSwitchClosed(s, p) == p = IF s = "kOpening" THEN Travel ELSE 0
Opposite(s) == IF s = "kOpening" THEN "kClosing" ELSE "kOpening"

(***************************************************************************)
(* MoveCover, Open, Close and StartMoving.  Open and Close are the same but  *)
(* for the direction.                                                        *)
(***************************************************************************)
Return == pc' = "loop" /\ self' = NoHandler /\ wanted' = "kNotMoving"

Goto(from, to) == pc = from /\ pc' = to /\ UNCHANGED <<self, wanted>>

MoveCover(c, status) ==
    /\ pc = "loop"
    /\ c \in present
    /\ pc' = "CanMove" /\ self' = c /\ wanted' = status
    /\ UNCHANGED <<shared, position, present>>

\* MoveCover and HaltCoverMotion of a cover that is not there: NotImplemented.
RefuseCommand(c) == pc = "loop" /\ c \notin present /\ UNCHANGED coverVars

\* Mutant: a cover may move while the timer serves another one.
CanMoveAnyHandler(c) == c \in present

CanMove(c) == c \in present /\ interrupt_handler \in {NoHandler, c}

CheckCanMove ==
    /\ pc = "CanMove"
    /\ IF CanMove(self) THEN pc' = "IsAtLimit" /\ UNCHANGED <<self, wanted>>
                        ELSE Return
    /\ UNCHANGED <<shared, position, present>>

\* IsOpen in Open, IsClosed in Close.
IsAtLimit == self \in present /\ LimitSwitchClosed(wanted, position[self])

CheckIsAtLimit ==
    /\ pc = "IsAtLimit"
    /\ IF IsAtLimit THEN Return
                    ELSE pc' = "GetInterruptHandler" /\ UNCHANGED <<self, wanted>>
    /\ UNCHANGED <<shared, position, present>>

GetInterruptHandler ==
    /\ Goto("GetInterruptHandler", IF interrupt_handler = self
                                   THEN "motor_status_" ELSE "SetMotorStatus")
    /\ UNCHANGED <<shared, position, present>>

CheckMotorStatus ==
    /\ pc = "motor_status_"
    /\ IF motor_status_[self] = wanted
       THEN Return
       ELSE pc' = "SetMotorStatus" /\ UNCHANGED <<self, wanted>>
    /\ UNCHANGED <<shared, position, present>>

SetMotorStatus ==
    /\ Goto("SetMotorStatus", "ResetTimer5")
    /\ motor_status_' = [motor_status_ EXCEPT ![self] = wanted]
    /\ UNCHANGED <<interrupt_handler, TOIE5, step_count_, direction_pin,
                   position, present>>

\* The first register ResetTimer5 writes disables the interrupt.
ResetTimer5 ==
    /\ Goto("ResetTimer5", "step_count_")
    /\ TOIE5' = 0
    /\ UNCHANGED <<interrupt_handler, motor_status_, step_count_, direction_pin,
                   position, present>>

\* Mutant: the steps of the previous movement are counted again.
ResetStepCountNever ==
    /\ Goto("step_count_", "direction_pin_")
    /\ UNCHANGED <<shared, position, present>>

ResetStepCount ==
    /\ Goto("step_count_", "direction_pin_")
    /\ step_count_' = [step_count_ EXCEPT ![self] = 0]
    /\ UNCHANGED <<interrupt_handler, TOIE5, motor_status_, direction_pin,
                   position, present>>

\* Mutant: the pin keeps the direction of the previous movement.
SetDirectionNever ==
    /\ Goto("direction_pin_", "interrupt_handler")
    /\ UNCHANGED <<shared, position, present>>

SetDirection ==
    /\ Goto("direction_pin_", "interrupt_handler")
    /\ direction_pin' = [direction_pin EXCEPT ![self] = wanted]
    /\ UNCHANGED <<interrupt_handler, TOIE5, motor_status_, step_count_,
                   position, present>>

SetInterruptHandler ==
    /\ Goto("interrupt_handler", "StartTimer5")
    /\ interrupt_handler' = self
    /\ UNCHANGED <<TOIE5, motor_status_, step_count_, direction_pin,
                   position, present>>

\* The registers are written with interrupts disabled, and an overflow that
\* was pending is cleared with them.
StartTimer5 ==
    /\ pc = "StartTimer5"
    /\ TOIE5' = 1
    /\ Return
    /\ UNCHANGED <<interrupt_handler, motor_status_, step_count_, direction_pin,
                   position, present>>

(***************************************************************************)
(* Halt.  IsMoving reads motor_status_ up to twice; as an interrupt never    *)
(* begins a movement, the answer is that of one read.                        *)
(***************************************************************************)
HaltCoverMotion(c) ==
    /\ pc = "loop"
    /\ c \in present
    /\ pc' = "HaltIsMoving" /\ self' = c /\ UNCHANGED wanted
    /\ UNCHANGED <<shared, position, present>>

HaltIsMoving ==
    /\ Goto("HaltIsMoving", IF IsMoving(self) THEN "HaltSetMotorStatus"
                                              ELSE "RemoveInterruptHandler")
    /\ UNCHANGED <<shared, position, present>>

\* Mutant: Halt only takes the handler away.
HaltSetMotorStatusNever ==
    /\ Goto("HaltSetMotorStatus", "RemoveInterruptHandler")
    /\ UNCHANGED <<shared, position, present>>

HaltSetMotorStatus ==
    /\ Goto("HaltSetMotorStatus", "RemoveInterruptHandler")
    /\ motor_status_' = [motor_status_ EXCEPT ![self] = "kNotMoving"]
    /\ UNCHANGED <<interrupt_handler, TOIE5, step_count_, direction_pin,
                   position, present>>

RemoveInterruptHandler ==
    /\ pc = "RemoveInterruptHandler"
    /\ interrupt_handler' = IF interrupt_handler = self THEN NoHandler
                                                        ELSE interrupt_handler
    /\ Return
    /\ UNCHANGED <<TOIE5, motor_status_, step_count_, direction_pin,
                   position, present>>

(***************************************************************************)
(* The interrupt.                                                            *)
(***************************************************************************)

\* Mutant: the timer runs on when there is no handler.
InterruptWithoutHandlerIgnored ==
    /\ TOIE5 = 1
    /\ interrupt_handler = NoHandler
    /\ UNCHANGED coverVars

InterruptWithoutHandler ==
    /\ TOIE5 = 1
    /\ interrupt_handler = NoHandler
    /\ TOIE5' = 0
    /\ UNCHANGED <<interrupt_handler, motor_status_, step_count_, direction_pin,
                   position, present, pc, self, wanted>>

\* Where a pulse takes the cover, unless it stays where it is.
Pushed(c) ==
    IF LimitSwitchClosed(direction_pin[c], position[c]) THEN position[c]
    ELSE IF direction_pin[c] = "kOpening" THEN position[c] + 1
                                          ELSE position[c] - 1

\* The status of a cover in status s when its n-th step has brought it to p.
StatusAfterStep(s, n, p) ==
    IF LimitSwitchClosed(s, p)
    THEN "kNotMoving"
    ELSE IF n = allowed_start_steps_ /\ LimitSwitchClosed(Opposite(s), p)
    THEN IF s = "kClosing" THEN "kStartClosingFailed" ELSE "kStartOpeningFailed"
    ELSE IF n > allowed_steps_
    THEN IF s = "kClosing" THEN "kClosingFailed" ELSE "kOpeningFailed"
    ELSE s

\* HandleInterrupt of a cover that is moving: a pulse, then the checks.
StepMotor(c) ==
    /\ TOIE5 = 1
    /\ interrupt_handler = c
    /\ IsMoving(c)
    /\ position' \in {[position EXCEPT ![c] = p] : p \in {position[c], Pushed(c)}}
    /\ step_count_' = [step_count_ EXCEPT ![c] = @ + 1]
    /\ motor_status_' = [motor_status_ EXCEPT ![c] =
                            StatusAfterStep(@, step_count_'[c], position'[c])]
    /\ interrupt_handler' = IF motor_status_'[c] = motor_status_[c] THEN c
                                                                    ELSE NoHandler
    /\ UNCHANGED <<TOIE5, direction_pin, present, pc, self, wanted>>

HandleInterruptNotMoving(c) ==
    /\ TOIE5 = 1
    /\ interrupt_handler = c
    /\ ~IsMoving(c)
    /\ interrupt_handler' = NoHandler
    /\ UNCHANGED <<TOIE5, motor_status_, step_count_, direction_pin,
                   position, present, pc, self, wanted>>

(***************************************************************************)
(* The specification.                                                        *)
(***************************************************************************)
CoverInit ==
    /\ interrupt_handler = NoHandler
    /\ TOIE5 = 0
    /\ motor_status_ = [c \in Covers |-> "kNotMoving"]
    /\ step_count_ = [c \in Covers |-> 0]
    /\ direction_pin = [c \in Covers |-> "kOpening"]
    /\ position \in [Covers -> 0 .. Travel]
    /\ present \in SUBSET Covers
    /\ pc = "loop"
    /\ self = NoHandler
    /\ wanted = "kNotMoving"

Command == \E c \in Covers : \/ \E status \in Moving : MoveCover(c, status)
                             \/ HaltCoverMotion(c)
                             \/ RefuseCommand(c)

CommandStep ==
    \/ CheckCanMove \/ CheckIsAtLimit \/ GetInterruptHandler \/ CheckMotorStatus
    \/ SetMotorStatus
    \/ ResetTimer5 \/ ResetStepCount \/ SetDirection \/ SetInterruptHandler
    \/ StartTimer5
    \/ HaltIsMoving \/ HaltSetMotorStatus \/ RemoveInterruptHandler

Interrupt ==
    \/ InterruptWithoutHandler
    \/ \E c \in Covers : StepMotor(c) \/ HandleInterruptNotMoving(c)

CoverNext == \/ Command
             \/ CommandStep
             \/ Interrupt

CoverSpec == CoverInit /\ [][CoverNext]_coverVars

\* The main loop executes a command to its end, and a running timer overflows
\* again and again.  Nobody has to give a command.
CoverFairness == WF_coverVars(CommandStep) /\ WF_coverVars(Interrupt)

(***************************************************************************)
(* Properties.                                                               *)
(***************************************************************************)

\* Every variable has its type.
CoverTypeOK ==
    /\ interrupt_handler \in Covers \cup {NoHandler}
    /\ TOIE5 \in {0, 1}
    /\ motor_status_ \in [Covers -> MotorStatus]
    /\ step_count_ \in [Covers -> Nat]
    /\ direction_pin \in [Covers -> Moving]
    /\ position \in [Covers -> 0 .. Travel]
    /\ present \in SUBSET Covers
    /\ pc \in {"loop"} \cup MoveAccess \cup HaltAccess
    /\ self \in IF pc = "loop" THEN {NoHandler} ELSE Covers
    /\ wanted \in IF pc \in MoveAccess THEN Moving ELSE {"kNotMoving"}

\* cover.h:93, on allowed_steps_: "Maximum number of steps we can take during a
\* single movement."
StepsAllowed == \A c \in Covers : step_count_[c] <= allowed_steps_

\* What HandleInterrupt does: it makes and counts a step before it compares, and
\* so takes one step more.
OneStepMore == \A c \in Covers : step_count_[c] <= allowed_steps_ + 1

\* Whenever a cover is the interrupt handler it has steps left: a command
\* that restarts a motor which failed has forgotten the old count before the
\* interrupt can see the cover again (StartMoving).
StepsLeft ==
    interrupt_handler \in Covers => step_count_[interrupt_handler] <= allowed_steps_

\* What IsMoving, and so GetCoverStatus, reports is true: unless its motor is
\* just being restarted, a cover that says it moves is driven by the timer.
\* Otherwise it would report kMoving for ever.
MovingIsDriven ==
    \A c \in Covers :
        IsMoving(c) /\ ~(self = c /\ pc \in Restarting) => interrupt_handler = c /\ TOIE5 = 1

\* Two covers never move at a time, although each keeps its own status and
\* they are checked long before the shared handler is set (comment on
\* interrupt_handler, cover.cpp:9).
OnlyOneMoves ==
    \A c, d \in Covers : IsMoving(c) /\ IsMoving(d) => c = d

\* A pulse turns the motor the way motor_status_ says, so that the right limit
\* switch stops it, and a pulse against a switch that is closed already is the
\* last one.  The exception is an interrupt between the change of
\* motor_status_ and ResetTimer5 of a command that reverses the cover.
StepsAsCommanded ==
    [][\A c \in Covers :
           StepMotor(c) /\ ~(pc = "ResetTimer5" /\ self = c) =>
               /\ direction_pin[c] = motor_status_[c]
               /\ LimitSwitchClosed(direction_pin[c], position[c])
                      => interrupt_handler' = NoHandler]_coverVars

\* If at some time the last movement has been started, then in the end every
\* motor stands, no cover claims to move and the timer is off, even if the
\* motor is stalled or a movement is halted halfway.
MotorComesToRest ==
    <>[][~StartTimer5]_coverVars
        => <>[](TOIE5 = 0 /\ \A c \in Covers : ~IsMoving(c))

\* cover.h:59: "Move the motor until it the cover is open."  A command that has
\* been accepted and starts the timer starts a movement.
AcceptedCommandMoves ==
    pc = "StartTimer5" => motor_status_[self] = wanted
=============================================================================
