-------------------------------- MODULE PenHead --------------------------------
(***************************************************************************)
(* The head of the plotter: the pulses of the two motors and the servo of   *)
(* the pen, one write to a kind of pin or one load of the tick counter per  *)
(* step, among the interrupts of the tick and of the servo's timer.         *)
(*                                                                          *)
(* Module Plotter lifts the pen and turns the motors in one step each; this *)
(* is what those steps take.  A command may begin at any point of a tick.   *)
(***************************************************************************)
EXTENDS Delay, Servo, Sequences

CONSTANTS
    Hold,           \* the delay of servoUp and servoDown, in ticks
    Speed,          \* SPEED, in ticks
    Turns,          \* bound: the motors of a run and the sense of each
    MaxRun,         \* bound: steps of one run of the motors
    MaxCommands     \* bound: runs and moves of the pen

ASSUME PenHeadAssumption ==
    /\ Hold \in Nat /\ Hold >= Cycle + 3 /\ Low > Hold
    /\ Speed \in 1..Hold /\ MaxRun \in Nat /\ MaxCommands \in Nat

Motors == {1, 2}

ASSUME TurnsAssumption == Turns \subseteq UNION {[ms -> BOOLEAN] : ms \in SUBSET Motors}

VARIABLES
    en, dir, step,  \* the pins of the two motors; a driver is enabled by a low EN
    todo,           \* what main has left to do
    due,            \* history: steps ordered and not made yet, for each motor
    edge,           \* history: half ticks since the last edge of each STEP
    commands        \* history: how many have been given

motorVars == <<en, dir, step, due, edge>>
vars      == <<delayVars, servoVars, motorVars, todo, commands>>
-----------------------------------------------------------------------------
(* Programs.  A pin of both motors is written in one step.                   *)

On(ms)  == [m \in ms |-> TRUE]
Off(ms) == [m \in ms |-> FALSE]
Written(levels, pins) == [m \in Motors |-> IF m \in DOMAIN levels THEN levels[m] ELSE pins[m]]
Pins(op, levels) == [op |-> op, levels |-> levels]
Wait(n) == [op |-> "delay", ticks |-> n]
Times(n, s) == [i \in 1..(n * Len(s)) |-> s[1 + ((i - 1) % Len(s))]]

Pens == {60, 45}

\* Mutant of MovePen: the servo is not given the time to move.
MovePenAtOnce(value) == << [op |-> "servo", value |-> value] >>

\* servoUp and servoDown, with SERVO_UP and SERVO_DOWN.
MovePen(value) == << [op |-> "servo", value |-> value], Wait(Hold) >>

\* motorStep and twoMotorStep, on the motors in the domain of "to", and the delay
\* that motorRun and twoMotorRun put after each.
StepMotors(to) ==
    << Pins("dir", to), Pins("step", On(DOMAIN to)), Wait(1),
       Pins("step", Off(DOMAIN to)), Wait(1), Wait(Speed) >>

\* Mutants of Run: the motors are not given the time to be enabled; they are
\* disabled first.
RunAtOnce(to, n) ==
    << Pins("en", Off(DOMAIN to)) >> \o Times(n, StepMotors(to))
    \o << Pins("en", On(DOMAIN to)) >>

RunDisabled(to, n) ==
    << Pins("en", On(DOMAIN to)), Wait(1) >> \o Times(n, StepMotors(to))
    \o << Pins("en", Off(DOMAIN to)) >>

\* motorRun and twoMotorRun.
Run(to, n) ==
    << Pins("en", Off(DOMAIN to)), Wait(1) >> \o Times(n, StepMotors(to))
    \o << Pins("en", On(DOMAIN to)) >>

\* From the end of motorInit on.
Init ==
    /\ DelayInit /\ ServoInit
    /\ en = On(Motors) /\ dir = Off(Motors) /\ step = Off(Motors)
    /\ todo = << [op |-> "init"] >> \o MovePen(60)
    /\ due = [m \in Motors |-> 0] /\ edge = [m \in Motors |-> 2 * (Speed + 1)]
    /\ commands = 0
-----------------------------------------------------------------------------
(* main.                                                                     *)

Awake == wait.at = "out"
Idle  == Awake /\ todo = <<>>
Doing(op) == Awake /\ todo # <<>> /\ Head(todo).op = op
Done  == todo' = Tail(todo) /\ UNCHANGED commands

\* Any move of the pen; or a run of either motor or of both, as moveX, moveY and
\* moveDiagonal ask for.
Command ==
    /\ Idle /\ commands < MaxCommands
    /\ \/ \E value \in Pens : todo' = MovePen(value) /\ UNCHANGED due
       \/ \E to \in Turns, n \in 0..MaxRun :
            /\ todo' = Run(to, n)
            /\ due' = [m \in Motors |-> IF m \notin DOMAIN to THEN due[m]
                                        ELSE IF to[m] THEN due[m] + n ELSE due[m] - n]
    /\ commands' = commands + 1
    /\ UNCHANGED <<delayVars, servoVars, en, dir, step, edge>>

StartServo ==
    /\ Doing("init") /\ InitServo /\ Done
    /\ UNCHANGED <<delayVars, motorVars>>

WriteServo ==
    /\ Doing("servo") /\ ServoWrite(Head(todo).value) /\ Done
    /\ UNCHANGED <<delayVars, motorVars>>

WriteEnable ==
    /\ Doing("en") /\ en' = Written(Head(todo).levels, en) /\ Done
    /\ UNCHANGED <<delayVars, servoVars, dir, step, due, edge>>

WriteDirection ==
    /\ Doing("dir") /\ dir' = Written(Head(todo).levels, dir) /\ Done
    /\ UNCHANGED <<delayVars, servoVars, en, step, due, edge>>

\* The driver of a motor turns it by a step at a rising edge, if enabled.
Rises(m) == ~step[m] /\ step'[m]

WriteStep ==
    /\ Doing("step") /\ step' = Written(Head(todo).levels, step) /\ Done
    /\ due' = [m \in Motors |-> IF ~Rises(m) \/ en[m] THEN due[m]
                                ELSE IF dir[m] THEN due[m] - 1 ELSE due[m] + 1]
    /\ edge' = [m \in Motors |-> IF step'[m] = step[m] THEN edge[m] ELSE 0]
    /\ UNCHANGED <<delayVars, servoVars, en, dir>>

BeginDelay ==
    /\ Doing("delay") /\ CallDelay(Head(todo).ticks) /\ Done
    /\ UNCHANGED <<servoVars, motorVars>>

StayInDelay == DelayStep /\ UNCHANGED <<servoVars, motorVars, todo, commands>>

Main == \/ StartServo \/ WriteServo \/ WriteEnable \/ WriteDirection \/ WriteStep
        \/ BeginDelay \/ StayInDelay
-----------------------------------------------------------------------------
(* Time.                                                                     *)

Interrupt == TimerInterrupt /\ UNCHANGED <<delayVars, motorVars, todo, commands>>

HalfTick ==
    /\ TimerRuns
    /\ edge' = [m \in Motors |-> IF edge[m] < 2 * (Speed + 1) THEN edge[m] + 1 ELSE edge[m]]
    /\ UNCHANGED <<en, dir, step, due, todo, commands>>

\* The middle of a tick comes while main waits, its end at any moment.
Middle ==
    /\ ~late /\ (Idle \/ Waiting) /\ late' = TRUE /\ HalfTick
    /\ UNCHANGED <<tickCounter, wait, waited, torn>>

Tick == late /\ late' = FALSE /\ CountTick /\ HalfTick

Next == Command \/ Main \/ Interrupt \/ Middle \/ Tick

Spec == Init /\ [][Next]_vars

\* The core executes its program and serves its interrupts, and time goes on;
\* nobody has to give a command.
FairSpec ==
    Spec /\ WF_vars(Main) /\ WF_vars(Interrupt) /\ WF_vars(Middle) /\ WF_vars(Tick)
-----------------------------------------------------------------------------
TypeOK ==
    /\ DelayTypeOK /\ ServoTypeOK
    /\ \A p \in {en, dir, step} : p \in [Motors -> BOOLEAN]
    /\ \A i \in 1..Len(todo) :
         todo[i].op \in {"init", "servo", "en", "dir", "step", "delay"}
    /\ due \in [Motors -> Int] /\ edge \in [Motors -> 0..(2 * (Speed + 1))]
    /\ commands \in 0..MaxCommands

\* A move of a figure or of the board turns the motors by exactly the steps it
\* asks for: none is made in the wrong sense or while the driver is disabled.
NoStepLost == Idle => \A m \in Motors : due[m] = 0

\* Until a torn read cuts a wait short, every pulse of a motor lasts at least one
\* whole tick and comes Speed + 1 ticks after the one before, although a call of
\* delay alone only lasts until its last tick.
PulsesWide ==
    [][\A m \in Motors : step'[m] # step[m] /\ ~torn =>
          edge[m] >= IF step[m] THEN 2 ELSE 2 * (Speed + 1)]_vars

\* Until then, too, a motor only turns once the servo has been sent a whole pulse
\* of the last angle written: the pen is where module Plotter takes it to be.
PenSettled ==
    [][\A m \in Motors : Rises(m) /\ ~torn => heard = ValueToMicroseconds(angle)]_vars

\* Every command ends: no wait lasts for ever, wherever the counter wraps.
CommandEnds == todo # <<>> ~> Idle
=============================================================================
