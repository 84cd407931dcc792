--------------------------------- MODULE Servo ---------------------------------
(***************************************************************************)
(* The servo of the pen: sapi_servo.c on the timer of sapi_timer.c, for the *)
(* one servo that the robot attaches (SERVO3, first of the list, TIMER1).   *)
(*                                                                          *)
(* An interrupt starts a pulse at each cycle and another ends it; the angle *)
(* that servoWrite leaves in the list is only looked at when a pulse starts.*)
(* Time is counted in halves of a tick.                                     *)
(***************************************************************************)
EXTENDS Integers

CONSTANTS
    Cycle           \* SERVO_COMPLETECYCLE_PERIOD, in ticks

ASSUME ServoAssumption == Cycle \in Nat /\ Cycle >= 2

VARIABLES
    attached,       \* the servo is in AttachedServoList and its match is enabled
    angle,          \* AttachedServoList[0].value
    timer,          \* half ticks since the timer was started or reset itself
    match,          \* compare register 1, in microseconds
    matched,        \* compare match 1 has been reached since then
    pin,            \* the signal
    heard           \* the last whole pulse the servo has received, in microseconds

servoVars == <<attached, angle, timer, match, matched, pin, heard>>

ValueToMicroseconds(value) == 500 + (value * 2000) \div 180

\* The half ticks a pulse may see begin: a timer and the tick are not in phase.
Shortest(us) == us \div 500
Longest(us)  == (us + 499) \div 500

ServoInit ==
    /\ attached = FALSE /\ angle = 0
    /\ timer = 0 /\ match = 0 /\ matched = FALSE
    /\ pin = FALSE /\ heard = 0
-----------------------------------------------------------------------------
\* servoInitTimers and servoAttach, which initServo calls one after the other:
\* a cycle of the timer is far longer than both.
InitServo ==
    /\ attached' = TRUE
    /\ timer' = 0 /\ match' = ValueToMicroseconds(angle) /\ matched' = FALSE
    /\ UNCHANGED <<angle, pin, heard>>

\* Mutant of ServoWrite: the new width is put into the compare register at once.
ServoWriteAtOnce(value) ==
    /\ attached /\ angle' = value /\ match' = ValueToMicroseconds(value)
    /\ UNCHANGED <<attached, timer, matched, pin, heard>>

ServoWrite(value) ==
    /\ attached /\ angle' = value
    /\ UNCHANGED <<attached, timer, match, matched, pin, heard>>

\* timer1CompareMatch0func, when the timer reaches the cycle and resets itself.
CompareMatch0 ==
    /\ attached /\ timer = 2 * Cycle
    /\ pin' = TRUE /\ match' = ValueToMicroseconds(angle)
    /\ timer' = 0 /\ matched' = FALSE
    /\ UNCHANGED <<attached, angle, heard>>

\* timer1CompareMatch1func.
CompareMatch1 ==
    /\ attached /\ ~matched /\ timer \in Shortest(match)..Longest(match)
    /\ pin' = FALSE /\ matched' = TRUE
    /\ heard' = IF pin THEN match ELSE heard
    /\ UNCHANGED <<attached, angle, timer, match>>

TimerInterrupt == CompareMatch0 \/ CompareMatch1

\* Half a tick passes for the timer, unless an interrupt is due before it does.
TimerRuns ==
    /\ timer < 2 * Cycle
    /\ attached /\ ~matched => timer # Longest(match)
    /\ timer' = IF attached THEN timer + 1 ELSE timer
    /\ UNCHANGED <<attached, angle, match, matched, pin, heard>>
-----------------------------------------------------------------------------
ServoTypeOK ==
    /\ attached \in BOOLEAN /\ angle \in 0..180
    /\ timer \in 0..(2 * Cycle) /\ match \in 0..2500 /\ matched \in BOOLEAN
    /\ pin \in BOOLEAN /\ heard \in 0..2500

\* Whenever the angle is written, the signal is never high for longer than the
\* widest pulse the pen uses: no end of a pulse is missed.
PulseEnds == pin => timer <= 3
=============================================================================
