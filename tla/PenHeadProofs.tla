----------------------------- MODULE PenHeadProofs -----------------------------
(***************************************************************************)
(* What holds of the head of the plotter for every width of the tick         *)
(* counter, every period of the servo, every length of the waits and any     *)
(* number of commands and steps: no wait is too long, no pulse of the servo  *)
(* either, and no step of a motor is lost.                                   *)
(***************************************************************************)
EXTENDS PenHead, DelayProofs, SequenceTheorems

USE PenHeadAssumption, ServoAssumption, TurnsAssumption

-----------------------------------------------------------------------------
(* Programs.                                                                 *)

Levels == UNION {[ms -> BOOLEAN] : ms \in SUBSET Motors}

Instructions ==
    [op : {"init"}] \cup [op : {"servo"}, value : Pens]
    \cup [op : {"en", "dir", "step"}, levels : Levels]
    \cup [op : {"delay"}, ticks : 1..Hold]

\* Instruction j of Run(to, n).
RunAt(to, n, j) ==
    IF j = 1 THEN Pins("en", Off(DOMAIN to))
    ELSE IF j = 2 THEN Wait(1)
    ELSE IF j = 6 * n + 3 THEN Pins("en", On(DOMAIN to))
    ELSE StepMotors(to)[1 + ((j - 3) % 6)]

(* The program of a step is six instructions, each of its kind.              *)
LEMMA StepShape ==
    ASSUME NEW to \in Levels
    PROVE  /\ StepMotors(to) \in Seq(Instructions) /\ Len(StepMotors(to)) = 6
           /\ On(DOMAIN to) \in Levels /\ Off(DOMAIN to) \in Levels
<1>1. DOMAIN to \in SUBSET Motors /\ to \in [DOMAIN to -> BOOLEAN]
  BY DEF Levels
<1>2. On(DOMAIN to) \in [DOMAIN to -> BOOLEAN] /\ Off(DOMAIN to) \in [DOMAIN to -> BOOLEAN]
  BY DEF On, Off
<1>3. On(DOMAIN to) \in Levels /\ Off(DOMAIN to) \in Levels
  BY <1>1, <1>2 DEF Levels
<1>4. /\ Pins("dir", to) \in Instructions
      /\ Pins("step", On(DOMAIN to)) \in Instructions
      /\ Pins("step", Off(DOMAIN to)) \in Instructions
      /\ Wait(1) \in Instructions /\ Wait(Speed) \in Instructions
  BY <1>3 DEF Instructions, Pins, Wait
<1> QED
  BY <1>3, <1>4 DEF StepMotors

(* A run of n steps is one enabling, one wait, n times the program of a step    *)
(* and one disabling.                                                         *)
LEMMA RunShape ==
    ASSUME NEW to \in Levels, NEW n \in Nat
    PROVE  /\ Run(to, n) \in Seq(Instructions) /\ Len(Run(to, n)) = 6 * n + 3
           /\ \A j \in 1..(6 * n + 3) : Run(to, n)[j] = RunAt(to, n, j)
<1> DEFINE s == StepMotors(to)
           t == Times(n, s)
           a == << Pins("en", Off(DOMAIN to)), Wait(1) >>
           z == << Pins("en", On(DOMAIN to)) >>
<1>1. s \in Seq(Instructions) /\ Len(s) = 6
  BY StepShape
<1>2. /\ t \in Seq(Instructions) /\ Len(t) = 6 * n
      /\ \A i \in 1..(6 * n) : t[i] = s[1 + ((i - 1) % 6)]
  <2> HIDE DEF s
  <2>1. t = [i \in 1..(n * 6) |-> s[1 + ((i - 1) % 6)]]
    BY <1>1 DEF Times
  <2>2. \A i \in 1..(6 * n) : s[1 + ((i - 1) % 6)] \in Instructions
    <3> TAKE i \in 1..(6 * n)
    <3>1. 1 + ((i - 1) % 6) \in 1..6
      OBVIOUS
    <3> QED
      BY <1>1, <3>1, ElementOfSeq
  <2>3. n * 6 = 6 * n /\ 6 * n \in Nat
    OBVIOUS
  <2> HIDE DEF t
  <2>4. t = [i \in 1..(6 * n) |-> s[1 + ((i - 1) % 6)]]
    BY <2>1, <2>3
  <2> QED
    BY <2>2, <2>3, <2>4
<1>3. /\ a \in Seq(Instructions) /\ Len(a) = 2
      /\ a[1] = Pins("en", Off(DOMAIN to)) /\ a[2] = Wait(1)
      /\ z \in Seq(Instructions) /\ Len(z) = 1 /\ z[1] = Pins("en", On(DOMAIN to))
  <2>1. /\ Pins("en", Off(DOMAIN to)) \in Instructions /\ Wait(1) \in Instructions
        /\ Pins("en", On(DOMAIN to)) \in Instructions
    BY StepShape DEF Instructions, Pins, Wait
  <2> QED
    BY <2>1
<1> HIDE DEF s, t, a, z
<1> DEFINE m == 6 * n
<1>4. m \in Nat /\ t \in Seq(Instructions) /\ Len(t) = m
  BY <1>2
<1> HIDE DEF m
<1> DEFINE b == a \o t
           r == b \o z
<1>5. /\ b \in Seq(Instructions) /\ Len(b) = m + 2
      /\ \A j \in 1..(m + 2) : b[j] = IF j <= 2 THEN a[j] ELSE t[j - 2]
  <2>1. /\ b \in Seq(Instructions) /\ Len(b) = Len(a) + Len(t)
        /\ \A j \in 1..(Len(a) + Len(t)) :
              b[j] = IF j <= Len(a) THEN a[j] ELSE t[j - Len(a)]
    BY <1>3, <1>4, ConcatProperties
  <2> HIDE DEF b
  <2>2. Len(a) = 2 /\ Len(a) + Len(t) = m + 2
    BY <1>3, <1>4
  <2> QED
    BY <2>1, <2>2
<1> HIDE DEF b
<1>6. /\ r \in Seq(Instructions) /\ Len(r) = m + 3
      /\ \A j \in 1..(m + 3) : r[j] = IF j <= m + 2 THEN b[j] ELSE z[j - (m + 2)]
  <2>1. /\ r \in Seq(Instructions) /\ Len(r) = Len(b) + Len(z)
        /\ \A j \in 1..(Len(b) + Len(z)) :
              r[j] = IF j <= Len(b) THEN b[j] ELSE z[j - Len(b)]
    BY <1>3, <1>5, ConcatProperties
  <2> HIDE DEF r
  <2>2. Len(b) = m + 2 /\ Len(b) + Len(z) = m + 3
    BY <1>3, <1>4, <1>5
  <2> QED
    BY <2>1, <2>2
<1> HIDE DEF r
<1>7. ASSUME NEW j \in 1..(m + 3) PROVE r[j] = RunAt(to, n, j)
  <2>1. CASE j \in {1, 2}
    <3>1. r[j] = a[j]
      BY <1>4, <1>5, <1>6, <2>1
    <3> QED
      BY <1>3, <2>1, <3>1 DEF RunAt
  <2>2. CASE j = m + 3
    <3>1. r[j] = z[1]
      BY <1>4, <1>6, <2>2
    <3> QED
      BY <1>3, <1>4, <2>2, <3>1 DEF RunAt, m
  <2>3. CASE j \in 3..(m + 2)
    <3>1. r[j] = t[j - 2] /\ j - 2 \in 1..m /\ (j - 2) - 1 = j - 3
      <4>1. j \in 1..(m + 3) /\ j \in 1..(m + 2) /\ ~(j <= 2) /\ j <= m + 2
        BY <1>4, <2>3
      <4>2. r[j] = b[j] /\ b[j] = t[j - 2]
        BY <1>5, <1>6, <4>1
      <4> QED
        BY <1>4, <2>3, <4>2
    <3>2. t[j - 2] = s[1 + ((j - 3) % 6)]
      BY <1>2, <3>1 DEF m
    <3>3. j # 1 /\ j # 2 /\ j # 6 * n + 3
      BY <1>4, <2>3 DEF m
    <3> QED
      BY <3>1, <3>2, <3>3 DEF RunAt, s
  <2> QED
    BY <1>4, <1>7, <2>1, <2>2, <2>3
<1>8. Run(to, n) = r
  BY DEF Run, r, b, a, t, z, s
<1> QED
  BY <1>6, <1>7, <1>8 DEF m

-----------------------------------------------------------------------------
(* Type correctness, NeverLate and PulseEnds, from one inductive invariant: the *)
(* program holds instructions only, the waits are those of DelayInv, the servo  *)
(* is given the angles of the pen only, and while its signal is high the end of *)
(* the pulse is still to come.                                                *)

ServoInv ==
    /\ angle \in {0, 45, 60} /\ match \in {0, 500, 1000, 1166}
    /\ pin => attached /\ ~matched /\ timer <= Longest(match)

(* The instruction that main is at.                                          *)
LEMMA NextInstruction ==
    ASSUME todo \in Seq(Instructions), todo # <<>>
    PROVE  /\ Tail(todo) \in Seq(Instructions)
           /\ Head(todo).op = "servo" => Head(todo).value \in Pens
           /\ Head(todo).op \in {"en", "dir", "step"} => Head(todo).levels \in Levels
           /\ Head(todo).op = "delay" => Head(todo).ticks \in 1..Hold
<1>1. Head(todo) \in Instructions /\ Tail(todo) \in Seq(Instructions)
  BY HeadTailProperties
<1> QED
  BY <1>1 DEF Instructions

(* Pins keep their type when some of them are written.                       *)
LEMMA WrittenPins ==
    ASSUME NEW levels \in Levels, NEW pins \in [Motors -> BOOLEAN]
    PROVE  /\ Written(levels, pins) \in [Motors -> BOOLEAN]
           /\ \A m \in Motors : Written(levels, pins)[m] =
                                    IF m \in DOMAIN levels THEN levels[m] ELSE pins[m]
<1>1. PICK ms \in SUBSET Motors : levels \in [ms -> BOOLEAN]
  BY DEF Levels
<1> QED
  BY <1>1 DEF Written

(* The two widths of the pen and the one the servo starts with.              *)
LEMMA Widths ==
    /\ ValueToMicroseconds(0) = 500 /\ ValueToMicroseconds(45) = 1000
    /\ ValueToMicroseconds(60) = 1166
    /\ Longest(0) = 0 /\ Longest(500) = 1 /\ Longest(1000) = 2 /\ Longest(1166) = 3
    /\ Shortest(0) = 0 /\ Shortest(500) = 1 /\ Shortest(1000) = 2 /\ Shortest(1166) = 2
BY DEF ValueToMicroseconds, Longest, Shortest

(* The widths of the pulses of the pen, as types.                             *)
LEMMA ServoTypes ==
    ServoInv => /\ angle \in 0..180 /\ match \in 0..2500
                /\ ValueToMicroseconds(angle) \in {500, 1000, 1166}
                /\ Longest(match) \in 0..3
BY Widths DEF ServoInv

Switches == attached \in BOOLEAN /\ matched \in BOOLEAN /\ pin \in BOOLEAN

Numbers == /\ angle \in 0..180 /\ timer \in 0..(2 * Cycle)
           /\ match \in 0..2500 /\ heard \in 0..2500

(* TypeOK of the servo in two parts, as no prover here does both at once: its *)
(* switches and its numbers.                                                  *)
LEMMA ServoKinds == ServoTypeOK <=> Switches /\ Numbers
BY DEF ServoTypeOK, Switches, Numbers

(* What is left to type once the waits and the servo are known.              *)
Rest ==
    /\ \A p \in {en, dir, step} : p \in [Motors -> BOOLEAN]
    /\ todo \in Seq(Instructions)
    /\ due \in [Motors -> Int] /\ edge \in [Motors -> 0..(2 * (Speed + 1))]
    /\ commands \in 0..MaxCommands

ServoPart == ServoTypeOK /\ ServoInv

HeadInv == DelayInv /\ ServoPart /\ Rest

(* The invariant says what TypeOK says.                                       *)
LEMMA HeadTypes == HeadInv => TypeOK
<1>1. ASSUME todo \in Seq(Instructions), NEW i \in 1..Len(todo)
      PROVE  todo[i].op \in {"init", "servo", "en", "dir", "step", "delay"}
  <2>1. todo[i] \in Instructions
    BY <1>1, ElementOfSeq
  <2> QED
    BY <2>1 DEF Instructions
<1> QED
  BY <1>1 DEF HeadInv, ServoPart, Rest, TypeOK, DelayInv

(* The types when main begins.                                                *)
LEMMA HeadInit == Init => HeadInv
<1> SUFFICES ASSUME Init PROVE HeadInv
  OBVIOUS
<1>1. DelayInv
  BY DelayStarts DEF Init
<1>2. ServoPart
  <2>1. /\ attached = FALSE /\ angle = 0 /\ timer = 0 /\ match = 0
        /\ matched = FALSE /\ pin = FALSE /\ heard = 0
    BY DEF Init, ServoInit
  <2>2. Switches /\ Numbers
    <3>1. Switches
      BY <2>1 DEF Switches
    <3>2. Numbers
      BY <2>1 DEF Numbers
    <3> QED
      BY <3>1, <3>2
  <2> QED
    BY <2>1, <2>2, ServoKinds DEF ServoPart, ServoInv
<1>3. todo \in Seq(Instructions)
  <2>1. /\ [op |-> "init"] \in Instructions /\ [op |-> "servo", value |-> 60] \in Instructions
        /\ Wait(Hold) \in Instructions
    BY DEF Instructions, Pens, Wait
  <2>2. << [op |-> "init"] >> \in Seq(Instructions) /\ MovePen(60) \in Seq(Instructions)
    BY <2>1 DEF MovePen
  <2> QED
    BY <2>2, ConcatProperties DEF Init
<1> QED
  BY <1>1, <1>2, <1>3 DEF HeadInv, Init, Rest, On, Off

(* The servo by itself: its two interrupts and the passing of time.          *)
LEMMA ServoSteps ==
    ASSUME ServoPart,
           \/ TimerInterrupt \/ TimerRuns \/ InitServo
           \/ \E value \in Pens : ServoWrite(value)
    PROVE  ServoPart'
<1>1. /\ match \in 0..2500 /\ ValueToMicroseconds(angle) \in {500, 1000, 1166}
      /\ Longest(match) \in 0..3 /\ timer \in 0..(2 * Cycle) /\ angle \in {0, 45, 60}
  BY ServoTypes DEF ServoPart, ServoTypeOK, ServoInv
<1>2. CASE CompareMatch0
  <2>1. match' \in {500, 1000, 1166} /\ timer' = 0 /\ attached' /\ ~matched' /\ pin'
    BY <1>1, <1>2 DEF CompareMatch0, ServoPart, ServoTypeOK
  <2>2. Switches'
    BY <1>2, ServoKinds DEF CompareMatch0, ServoPart, Switches
  <2>4. Numbers'
    BY <1>1, <1>2, <2>1, ServoKinds DEF CompareMatch0, ServoPart, Numbers
  <2>3. ServoInv'
    BY <1>2, <2>1 DEF CompareMatch0, ServoPart, ServoInv, Longest
  <2> QED
    BY <2>2, <2>3, <2>4, ServoKinds DEF ServoTypeOK, Switches, Numbers, ServoPart
<1>3. CASE CompareMatch1
  <2>1. Switches'
    BY <1>3, ServoKinds DEF CompareMatch1, ServoPart, Switches
  <2>4. Numbers'
    BY <1>1, <1>3, ServoKinds DEF CompareMatch1, ServoPart, Numbers
  <2>2. pin' = FALSE /\ angle' = angle /\ match' = match
    BY <1>3 DEF CompareMatch1
  <2>3. ServoInv'
    BY <2>2 DEF ServoInv, ServoPart
  <2> QED
    BY <2>1, <2>3, <2>4 DEF ServoTypeOK, Switches, Numbers, ServoPart
<1>4. CASE TimerRuns
  <2>1. /\ UNCHANGED <<attached, angle, match, matched, pin, heard>>
        /\ timer < 2 * Cycle /\ timer' = IF attached THEN timer + 1 ELSE timer
        /\ attached /\ ~matched => timer # Longest(match)
    BY <1>4 DEF TimerRuns
  <2>2. timer' \in 0..(2 * Cycle)
    BY <1>1, <2>1
  <2>3. ServoInv'
    <3>1. pin => timer' <= Longest(match)
      BY <1>1, <2>1 DEF ServoPart, ServoInv
    <3> QED
      BY <2>1, <3>1 DEF ServoPart, ServoInv, Longest
  <2> QED
    BY <2>1, <2>2, <2>3 DEF ServoPart, ServoTypeOK
<1>5. CASE InitServo
  <2>1. match' \in {500, 1000, 1166} /\ timer' = 0 /\ attached' /\ ~matched'
    BY <1>1, <1>5 DEF InitServo
  <2>2. Switches'
    BY <1>5, ServoKinds DEF InitServo, ServoPart, Switches
  <2>4. Numbers'
    BY <1>1, <1>5, <2>1, ServoKinds DEF InitServo, ServoPart, Numbers
  <2>3. ServoInv'
    BY <1>5, <2>1 DEF InitServo, ServoPart, ServoInv, Longest
  <2> QED
    BY <2>2, <2>3, <2>4, ServoKinds DEF ServoTypeOK, Switches, Numbers, ServoPart
<1>6. ASSUME NEW value \in Pens, ServoWrite(value) PROVE ServoPart'
  BY <1>6 DEF ServoWrite, ServoPart, ServoTypeOK, ServoInv, Pens, Longest
<1> QED
  BY <1>2, <1>3, <1>4, <1>5, <1>6 DEF TimerInterrupt

(* The waits by themselves.                                                  *)
LEMMA DelaySteps ==
    ASSUME HeadInv,
           \/ UNCHANGED delayVars
           \/ DelayStep
           \/ \E n \in 1..Hold : CallDelay(n)
           \/ /\ ~late /\ (Idle \/ Waiting) /\ late' = TRUE
              /\ UNCHANGED <<tickCounter, wait, waited, torn>>
           \/ late /\ late' = FALSE /\ CountTick
    PROVE  DelayInv'
<1>1. DelayInv
  BY DEF HeadInv
<1>2. CASE UNCHANGED delayVars
  BY <1>1, <1>2 DEF delayVars, DelayInv, DelayTypeOK, Elapsed, Fresh, Value, Range64, Halves
<1>3. CASE DelayStep
  BY <1>1, <1>3, LoadsKeep
<1>4. ASSUME NEW n \in 1..Hold, CallDelay(n) PROVE DelayInv'
  <2>1. n \in 1..(Low - 1)
    BY DelayAssumption
  <2> QED
    BY <1>1, <1>4, <2>1, CallKeeps
<1>5. CASE /\ (Idle \/ Waiting) /\ late' = TRUE
           /\ UNCHANGED <<tickCounter, wait, waited, torn>>
  BY <1>1, <1>5, MiddleKeeps DEF Idle, Awake
<1>6. CASE late /\ late' = FALSE /\ CountTick
  BY <1>1, <1>6, TickKeeps
<1> QED
  BY <1>2, <1>3, <1>4, <1>5, <1>6

(* A step that leaves the servo alone leaves its part of the invariant alone. *)
LEMMA ServoStays == ServoPart /\ UNCHANGED servoVars => ServoPart'
BY DEF servoVars, ServoPart, ServoTypeOK, ServoInv, Longest

(* Every step keeps the types: those of main, the interrupts and the passing  *)
(* of time.                                                                   *)
LEMMA HeadStep == HeadInv /\ [Next]_vars => HeadInv'
<1> SUFFICES ASSUME HeadInv, [Next]_vars PROVE HeadInv'
  OBVIOUS
<1>1. DelayInv /\ ServoPart /\ Rest
  BY DEF HeadInv
<1>2. todo # <<>> =>
        /\ Tail(todo) \in Seq(Instructions)
        /\ Head(todo).op = "servo" => Head(todo).value \in Pens
        /\ Head(todo).op \in {"en", "dir", "step"} => Head(todo).levels \in Levels
        /\ Head(todo).op = "delay" => Head(todo).ticks \in 1..Hold
  BY <1>1, NextInstruction DEF Rest
<1>3. CASE Command
  <2>1. UNCHANGED <<delayVars, servoVars, en, dir, step, edge>>
    BY <1>3 DEF Command
  <2>2. commands' \in 0..MaxCommands
    BY <1>1, <1>3 DEF Command, Rest
  <2>3. CASE \E value \in Pens : todo' = MovePen(value) /\ UNCHANGED due
    <3>1. todo' \in Seq(Instructions)
      <4>1. PICK value \in Pens : todo' = MovePen(value)
        BY <2>3
      <4>2. [op |-> "servo", value |-> value] \in Instructions /\ Wait(Hold) \in Instructions
        BY DEF Instructions, Wait
      <4> QED
        BY <4>1, <4>2 DEF MovePen
    <3> QED
      BY <1>1, <2>1, <2>2, <2>3, <3>1, DelaySteps, ServoStays DEF HeadInv, Rest
  <2>4. CASE \E to \in Turns, n \in 0..MaxRun :
               /\ todo' = Run(to, n)
               /\ due' = [m \in Motors |-> IF m \notin DOMAIN to THEN due[m]
                                           ELSE IF to[m] THEN due[m] + n ELSE due[m] - n]
    <3>1. PICK to \in Turns, n \in 0..MaxRun :
               /\ todo' = Run(to, n)
               /\ due' = [m \in Motors |-> IF m \notin DOMAIN to THEN due[m]
                                           ELSE IF to[m] THEN due[m] + n ELSE due[m] - n]
      BY <2>4
    <3>2. to \in Levels /\ n \in Nat
      BY DEF Levels
    <3>3. todo' \in Seq(Instructions)
      BY <3>1, <3>2, RunShape
    <3>4. due' \in [Motors -> Int]
      BY <1>1, <3>1, <3>2 DEF Rest
    <3> QED
      BY <1>1, <2>1, <2>2, <3>3, <3>4, DelaySteps, ServoStays DEF HeadInv, Rest
  <2> QED
    BY <1>3, <2>3, <2>4 DEF Command
<1>4. CASE StartServo
  BY <1>1, <1>2, <1>4, DelaySteps, ServoSteps
     DEF HeadInv, StartServo, Doing, Done, motorVars, Rest
<1>5. CASE WriteServo
  BY <1>1, <1>2, <1>5, DelaySteps, ServoSteps
     DEF HeadInv, WriteServo, Doing, Done, motorVars, Rest
<1>6. CASE WriteEnable
  <2>1. en' \in [Motors -> BOOLEAN]
    BY <1>1, <1>2, <1>6, WrittenPins DEF WriteEnable, Doing, Rest
  <2> QED
    BY <1>1, <1>2, <1>6, <2>1, DelaySteps, ServoStays
       DEF HeadInv, WriteEnable, Doing, Done, Rest
<1>7. CASE WriteDirection
  <2>1. dir' \in [Motors -> BOOLEAN]
    BY <1>1, <1>2, <1>7, WrittenPins DEF WriteDirection, Doing, Rest
  <2> QED
    BY <1>1, <1>2, <1>7, <2>1, DelaySteps, ServoStays
       DEF HeadInv, WriteDirection, Doing, Done, Rest
<1>8. CASE WriteStep
  <2>1. step' \in [Motors -> BOOLEAN]
    BY <1>1, <1>2, <1>8, WrittenPins DEF WriteStep, Doing, Rest
  <2>2. due' \in [Motors -> Int]
    BY <1>1, <1>8 DEF WriteStep, Rest
  <2>3. edge' \in [Motors -> 0..(2 * (Speed + 1))]
    BY <1>1, <1>8 DEF WriteStep, Rest
  <2> QED
    BY <1>1, <1>2, <1>8, <2>1, <2>2, <2>3, DelaySteps, ServoStays
       DEF HeadInv, WriteStep, Doing, Done, Rest
<1>9. CASE BeginDelay
  BY <1>1, <1>2, <1>9, DelaySteps, ServoStays
     DEF HeadInv, BeginDelay, Doing, Done, motorVars, Rest
<1>10. CASE StayInDelay
  BY <1>1, <1>10, DelaySteps, ServoStays DEF HeadInv, StayInDelay, motorVars, Rest
<1>11. CASE Interrupt
  BY <1>1, <1>11, DelaySteps, ServoSteps DEF HeadInv, Interrupt, motorVars, Rest
<1>12. CASE Middle \/ Tick
  <2>1. TimerRuns /\ UNCHANGED <<en, dir, step, due, todo, commands>>
    BY <1>12 DEF Middle, Tick, HalfTick
  <2>2. edge' \in [Motors -> 0..(2 * (Speed + 1))]
    BY <1>1, <1>12 DEF Middle, Tick, HalfTick, Rest
  <2>3. DelayInv'
    BY <1>12, DelaySteps DEF Middle, Tick
  <2> QED
    BY <1>1, <2>1, <2>2, <2>3, ServoSteps DEF HeadInv, Rest
<1>13. CASE UNCHANGED vars
  BY <1>1, <1>13, DelaySteps, ServoStays DEF HeadInv, vars, motorVars, Rest
<1> QED
  BY <1>3, <1>4, <1>5, <1>6, <1>7, <1>8, <1>9, <1>10, <1>11, <1>12, <1>13 DEF Next, Main

(* The variables keep their types, for every width of the counter.            *)
THEOREM HeadTypeCorrect == Spec => []TypeOK
BY HeadTypes, HeadInit, HeadStep, PTL DEF Spec

(* No call of delay lasts longer than it is asked to, wherever the counter      *)
(* wraps and however its two halves are torn by the tick.                     *)
THEOREM WaitsEndInTime == Spec => []NeverLate
<1>1. HeadInv => NeverLate
  BY DEF HeadInv, DelayInv, NeverLate
<1> QED
  BY <1>1, HeadInit, HeadStep, PTL DEF Spec

(* Whenever the angle is written and whatever the period, the end of a pulse    *)
(* of the servo is never missed.                                              *)
THEOREM PulsesEnd == Spec => []PulseEnds
<1>1. ASSUME HeadInv PROVE PulseEnds
  <2>1. ServoInv /\ Longest(match) \in 0..3 /\ timer \in 0..(2 * Cycle)
    BY <1>1, ServoTypes DEF HeadInv, ServoPart, ServoTypeOK
  <2> QED
    BY <2>1 DEF ServoInv, PulseEnds
<1> QED
  BY <1>1, HeadInit, HeadStep, PTL DEF Spec

-----------------------------------------------------------------------------
(* NoStepLost, strengthened: main is either in no run, with the motors at rest *)
(* and nothing due, or k instructions into the run of n steps of the motors    *)
(* "to", of which the levels of their pins and the steps still due follow.     *)

AtRest(m) == due[m] = 0 /\ en[m] /\ ~step[m]

Made(k)   == (k + 2) \div 6
Raised(k) == k >= 3 /\ k % 6 \in {4, 5}

Turned(to, n, k, m) ==
    /\ en[m] <=> k = 0
    /\ step[m] <=> Raised(k)
    /\ k >= 3 => (dir[m] <=> to[m])
    /\ due[m] = IF to[m] THEN n - Made(k) ELSE Made(k) - n

Left(to, n, k) ==
    /\ todo \in Seq(Instructions) /\ Len(todo) = 6 * n + 3 - k
    /\ \A j \in 1..(6 * n + 3 - k) : todo[j] = RunAt(to, n, k + j)

Running(to, n, k) ==
    /\ Left(to, n, k)
    /\ \A m \in Motors : IF m \in DOMAIN to THEN Turned(to, n, k, m) ELSE AtRest(m)

NotRunning ==
    /\ \A m \in Motors : AtRest(m)
    /\ todo \in Seq(Instructions)
    /\ \A j \in 1..Len(todo) : todo[j].op \in {"init", "servo", "delay"}

ProgramInv ==
    \/ NotRunning
    \/ \E to \in Turns, n \in 0..MaxRun : \E k \in 0..(6 * n + 2) : Running(to, n, k)

(* Which instruction is next, k instructions into a run.                       *)
LEMMA RunNext ==
    ASSUME NEW to \in Levels, NEW n \in Nat, NEW k \in 0..(6 * n + 2)
    PROVE  RunAt(to, n, k + 1) =
             IF k = 0 THEN Pins("en", Off(DOMAIN to))
             ELSE IF k = 6 * n + 2 THEN Pins("en", On(DOMAIN to))
             ELSE IF k = 1 THEN Wait(1)
             ELSE IF k % 6 = 2 THEN Pins("dir", to)
             ELSE IF k % 6 = 3 THEN Pins("step", On(DOMAIN to))
             ELSE IF k % 6 = 5 THEN Pins("step", Off(DOMAIN to))
             ELSE IF k % 6 = 1 THEN Wait(Speed) ELSE Wait(1)
<1>1. CASE k \in {0, 1} \/ k = 6 * n + 2
  <2>1. k = 1 => k + 1 # 6 * n + 3
    OBVIOUS
  <2> QED
    BY <1>1, <2>1 DEF RunAt
<1>2. CASE k \notin {0, 1} /\ k # 6 * n + 2
  <2>1. RunAt(to, n, k + 1) = StepMotors(to)[1 + ((k - 2) % 6)]
    <3>1. k + 1 # 1 /\ k + 1 # 2 /\ k + 1 # 6 * n + 3 /\ (k + 1) - 3 = k - 2
      BY <1>2
    <3> QED
      BY <3>1 DEF RunAt
  <2>2. /\ k % 6 = 2 => 1 + ((k - 2) % 6) = 1
        /\ k % 6 = 3 => 1 + ((k - 2) % 6) = 2
        /\ k % 6 = 4 => 1 + ((k - 2) % 6) = 3
        /\ k % 6 = 5 => 1 + ((k - 2) % 6) = 4
        /\ k % 6 = 0 => 1 + ((k - 2) % 6) = 5
        /\ k % 6 = 1 => 1 + ((k - 2) % 6) = 6
        /\ k % 6 \in 0..5
    OBVIOUS
  <2> QED
    BY <1>2, <2>1, <2>2 DEF StepMotors
<1> QED
  BY <1>1, <1>2

(* The next instruction is the first of what is left, and after it one less is. *)
LEMMA RunAdvances ==
    ASSUME NEW to \in Levels, NEW n \in Nat, NEW k \in 0..(6 * n + 2), Left(to, n, k)
    PROVE  /\ todo # <<>> /\ Head(todo) = RunAt(to, n, k + 1)
           /\ todo' = Tail(todo) => Left(to, n, k + 1)'
<1>1. /\ todo \in Seq(Instructions) /\ Len(todo) = 6 * n + 3 - k /\ Len(todo) >= 1
      /\ \A j \in 1..(6 * n + 3 - k) : todo[j] = RunAt(to, n, k + j)
  BY DEF Left
<1>2. todo # <<>> /\ Head(todo) = todo[1]
  BY <1>1
<1>3. Head(todo) = RunAt(to, n, k + 1)
  BY <1>1, <1>2
<1>4. ASSUME todo' = Tail(todo) PROVE Left(to, n, k + 1)'
  <2>1. /\ Tail(todo) \in Seq(Instructions) /\ Len(Tail(todo)) = Len(todo) - 1
        /\ \A j \in 1..(Len(todo) - 1) : Tail(todo)[j] = todo[j + 1]
    BY <1>1, <1>2, HeadTailProperties
  <2>2. ASSUME NEW j \in 1..(6 * n + 3 - (k + 1)) PROVE todo'[j] = RunAt(to, n, (k + 1) + j)
    <3>1. j + 1 \in 1..(6 * n + 3 - k) /\ k + (j + 1) = (k + 1) + j
      OBVIOUS
    <3>2. todo'[j] = todo[j + 1]
      BY <1>1, <1>4, <2>1
    <3> QED
      BY <1>1, <3>1, <3>2
  <2>3. Len(todo') = 6 * n + 3 - (k + 1) /\ todo' \in Seq(Instructions)
    BY <1>1, <1>4, <2>1
  <2>4. \A j \in 1..(6 * n + 3 - (k + 1)) : todo'[j] = RunAt(to, n, (k + 1) + j)
    BY <2>2
  <2> QED
    BY <2>3, <2>4 DEF Left, RunAt, StepMotors, On, Off, Pins, Wait
<1> QED
  BY <1>2, <1>3, <1>4

(* How far the next instruction takes the steps.                               *)
LEMMA Counted ==
    /\ \A k \in Nat : Made(k) \in Nat
    /\ \A k \in Nat : Made(k + 1) = IF k % 6 = 3 THEN Made(k) + 1 ELSE Made(k)
    /\ \A k \in Nat : k % 6 \notin {3, 5} => (Raised(k + 1) <=> Raised(k))
    /\ \A k \in Nat : k % 6 = 3 => ~Raised(k) /\ Raised(k + 1)
    /\ \A k \in Nat : k % 6 = 5 => ~Raised(k + 1)
    /\ Made(0) = 0 /\ ~Raised(0)
    /\ \A n \in Nat : Made(6 * n + 2) = n /\ ~Raised(6 * n + 2)
BY DEF Made, Raised

(* What the motors are brought to by the next instruction of a run.            *)
LEMMA RunWrites ==
    ASSUME NEW to \in Levels, NEW n \in Nat, NEW k \in 0..(6 * n + 2), Running(to, n, k),
           HeadInv, Main, todo' = Tail(todo)
    PROVE  IF k = 6 * n + 2 THEN NotRunning' ELSE Running(to, n, k + 1)'
<1>1. /\ Left(to, n, k) /\ todo # <<>> /\ Head(todo) = RunAt(to, n, k + 1)
      /\ Left(to, n, k + 1)' /\ Rest
      /\ \A m \in Motors : IF m \in DOMAIN to THEN Turned(to, n, k, m) ELSE AtRest(m)
      /\ \A m \in Motors : en[m] \in BOOLEAN /\ dir[m] \in BOOLEAN /\ step[m] \in BOOLEAN
      /\ \A m \in Motors : due[m] \in Int
  BY RunAdvances DEF Running, HeadInv, Rest
<1>2. ~StayInDelay
  <2>1. Len(Tail(todo)) # Len(todo) /\ todo' # todo
    BY <1>1, HeadTailProperties DEF Rest
  <2> QED
    BY <2>1 DEF StayInDelay
<1>3. /\ DOMAIN to \in SUBSET Motors /\ to \in [DOMAIN to -> BOOLEAN]
      /\ On(DOMAIN to) \in Levels /\ Off(DOMAIN to) \in Levels
      /\ DOMAIN On(DOMAIN to) = DOMAIN to /\ DOMAIN Off(DOMAIN to) = DOMAIN to
      /\ \A m \in DOMAIN to : On(DOMAIN to)[m] = TRUE /\ Off(DOMAIN to)[m] = FALSE
  BY StepShape DEF Levels, On, Off
<1>4. en \in [Motors -> BOOLEAN] /\ dir \in [Motors -> BOOLEAN] /\ step \in [Motors -> BOOLEAN]
  BY <1>1 DEF Rest
<1> DEFINE written(f, pins) == \A m \in Motors : Written(f, pins)[m] =
                                   IF m \in DOMAIN to THEN f[m] ELSE pins[m]
<1>13. ASSUME NEW pins \in [Motors -> BOOLEAN]
       PROVE  written(to, pins) /\ written(On(DOMAIN to), pins) /\ written(Off(DOMAIN to), pins)
  BY <1>3, WrittenPins
<1>5. CASE k = 0
  <2>1. Head(todo) = Pins("en", Off(DOMAIN to))
    BY <1>1, <1>5, RunNext
  <2>2. WriteEnable
    BY <1>2, <2>1 DEF Main, StartServo, WriteServo, WriteDirection, WriteStep, BeginDelay,
                      Doing, Pins
  <2>3. UNCHANGED <<dir, step, due>> /\ en' = Written(Off(DOMAIN to), en)
    BY <2>1, <2>2 DEF WriteEnable, Pins
  <2>8. \A m \in Motors : en'[m] = IF m \in DOMAIN to THEN FALSE ELSE en[m]
    BY <1>3, <1>4, <1>13, <2>3
  <2>4. k + 1 # 0 /\ ~(k + 1 >= 3) /\ k # 6 * n + 2 /\ Made(k + 1) = Made(k) /\ ~Raised(k + 1)
    BY <1>5, Counted DEF Made, Raised
  <2>5. ASSUME NEW m \in DOMAIN to PROVE Turned(to, n, k + 1, m)'
    <3>1. ~step[m] /\ due[m] = IF to[m] THEN n - Made(k) ELSE Made(k) - n
      BY <1>1, <1>3, <1>5, <2>5, Counted DEF Turned
    <3>2. ~en'[m] /\ step'[m] = step[m] /\ due'[m] = due[m]
      BY <1>3, <2>3, <2>5, <2>8
    <3> QED
      BY <2>4, <3>1, <3>2 DEF Turned
  <2> QED
    BY <1>1, <2>3, <2>4, <2>5, <2>8 DEF Running, AtRest
<1>6. CASE k = 6 * n + 2
  <2>1. Head(todo) = Pins("en", On(DOMAIN to))
    BY <1>1, <1>6, RunNext
  <2>2. WriteEnable
    BY <1>2, <2>1 DEF Main, StartServo, WriteServo, WriteDirection, WriteStep, BeginDelay,
                      Doing, Pins
  <2>3. UNCHANGED <<dir, step, due>> /\ en' = Written(On(DOMAIN to), en)
    BY <2>1, <2>2 DEF WriteEnable, Pins
  <2>8. \A m \in Motors : en'[m] = IF m \in DOMAIN to THEN TRUE ELSE en[m]
    BY <1>3, <1>4, <1>13, <2>3
  <2>4. Made(k) = n /\ ~Raised(k) /\ n - n = 0
    BY <1>6, Counted
  <2>5. ASSUME NEW m \in DOMAIN to PROVE AtRest(m)'
    <3>1. due[m] = 0 /\ ~step[m]
      BY <1>1, <1>3, <2>4, <2>5 DEF Turned
    <3> QED
      BY <1>3, <2>3, <2>5, <2>8, <3>1 DEF AtRest
  <2>6. \A m \in Motors : AtRest(m)'
    BY <1>1, <2>3, <2>5, <2>8 DEF AtRest
  <2>7. todo' \in Seq(Instructions) /\ Len(todo') = 0
    <3>1. 6 * n + 3 - (k + 1) = 0
      BY <1>6
    <3> QED
      BY <1>1, <3>1 DEF Left
  <2>9. \A j \in 1..Len(todo') : todo'[j].op \in {"init", "servo", "delay"}
    BY <2>7
  <2>10. NotRunning'
    BY <2>6, <2>7, <2>9 DEF NotRunning
  <2> QED
    BY <1>6, <2>10
<1> DEFINE advanced == \A m \in DOMAIN to : Turned(to, n, k + 1, m)'
<1>7. ASSUME k # 6 * n + 2, advanced,
             \A m \in Motors \ DOMAIN to : en'[m] = en[m] /\ step'[m] = step[m] /\ due'[m] = due[m]
      PROVE  Running(to, n, k + 1)'
  BY <1>1, <1>7 DEF Running, AtRest
<1>9. ASSUME k \notin {0, 6 * n + 2}, k % 6 \notin {2, 3, 5} PROVE Running(to, n, k + 1)'
  <2>1. Head(todo) \in {Wait(1), Wait(Speed)}
    BY <1>1, <1>9, RunNext
  <2>2. BeginDelay
    BY <1>2, <2>1 DEF Main, StartServo, WriteServo, WriteEnable, WriteDirection, WriteStep,
                      Doing, Wait
  <2>3. UNCHANGED <<en, dir, step, due>>
    BY <2>2 DEF BeginDelay, motorVars
  <2>4. /\ Made(k + 1) = Made(k) /\ (Raised(k + 1) <=> Raised(k))
        /\ (k >= 3 <=> k + 1 >= 3) /\ k # 0 /\ k + 1 # 0
    <3>1. k \in Nat /\ k # 0 /\ k # 2 /\ k % 6 # 3 /\ k % 6 \notin {3, 5}
      BY <1>9
    <3>2. Made(k + 1) = Made(k) /\ (Raised(k + 1) <=> Raised(k))
      BY <3>1, Counted
    <3> QED
      BY <3>1, <3>2
  <2>5. advanced
    BY <1>1, <1>3, <2>3, <2>4 DEF Turned
  <2> QED
    BY <1>7, <1>9, <2>3, <2>5
<1>10. ASSUME k \notin {0, 1, 6 * n + 2}, k % 6 = 2 PROVE Running(to, n, k + 1)'
  <2>1. Head(todo) = Pins("dir", to)
    BY <1>1, <1>10, RunNext
  <2>2. WriteDirection
    BY <1>2, <2>1 DEF Main, StartServo, WriteServo, WriteEnable, BeginDelay, WriteStep,
                      Doing, Pins
  <2>3. UNCHANGED <<en, step, due>> /\ dir' = Written(to, dir)
    BY <2>1, <2>2 DEF WriteDirection, Pins
  <2>8. \A m \in Motors : dir'[m] = IF m \in DOMAIN to THEN to[m] ELSE dir[m]
    BY <1>3, <1>4, <1>13, <2>3
  <2>4. /\ Made(k + 1) = Made(k) /\ (Raised(k + 1) <=> Raised(k))
        /\ k # 0 /\ k + 1 # 0
    <3>1. k \in Nat /\ k # 0 /\ k + 1 # 0 /\ k % 6 # 3 /\ k % 6 \notin {3, 5}
      BY <1>10
    <3>2. Made(k + 1) = Made(k) /\ (Raised(k + 1) <=> Raised(k))
      BY <3>1, Counted
    <3> QED
      BY <3>1, <3>2
  <2>5. advanced
    BY <1>1, <1>3, <1>10, <2>3, <2>4, <2>8 DEF Turned
  <2> QED
    BY <1>7, <1>10, <2>3, <2>5
<1>11. ASSUME k \notin {0, 1, 6 * n + 2}, k % 6 = 3 PROVE Running(to, n, k + 1)'
  <2>1. Head(todo) = Pins("step", On(DOMAIN to))
    BY <1>1, <1>11, RunNext
  <2>2. WriteStep
    BY <1>2, <2>1 DEF Main, StartServo, WriteServo, WriteEnable, BeginDelay, WriteDirection,
                      Doing, Pins
  <2>3. /\ UNCHANGED <<en, dir>> /\ step' = Written(On(DOMAIN to), step)
        /\ \A m \in Motors : due'[m] = IF ~Rises(m) \/ en[m] THEN due[m]
                                      ELSE IF dir[m] THEN due[m] - 1 ELSE due[m] + 1
    BY <2>1, <2>2 DEF WriteStep, Pins
  <2>8. \A m \in Motors : step'[m] = IF m \in DOMAIN to THEN TRUE ELSE step[m]
    BY <1>3, <1>4, <1>13, <2>3
  <2>4. /\ Made(k + 1) = Made(k) + 1 /\ ~Raised(k) /\ Raised(k + 1)
        /\ k >= 3 /\ k + 1 >= 3 /\ k # 0 /\ k + 1 # 0 /\ Made(k) \in Nat
    <3>1. k \in Nat /\ k >= 3
      BY <1>11
    <3> QED
      BY <1>11, <3>1, Counted
  <2>5. ASSUME NEW m \in DOMAIN to PROVE Turned(to, n, k + 1, m)'
    <3>1. /\ ~en[m] /\ (dir[m] <=> to[m]) /\ ~step[m] /\ to[m] \in BOOLEAN
          /\ due[m] = IF to[m] THEN n - Made(k) ELSE Made(k) - n
      BY <1>1, <1>3, <1>11, <2>4, <2>5 DEF Turned
    <3>2. step'[m] /\ Rises(m) /\ ~en'[m] /\ (dir'[m] <=> to[m])
      BY <1>3, <2>3, <2>5, <2>8, <3>1 DEF Rises
    <3>3. due'[m] = IF to[m] THEN n - Made(k + 1) ELSE Made(k + 1) - n
      <4>1. due'[m] = IF to[m] THEN due[m] - 1 ELSE due[m] + 1
        BY <1>3, <2>3, <2>5, <3>1, <3>2
      <4>2. CASE to[m]
        BY <2>4, <3>1, <4>1, <4>2
      <4>3. CASE ~to[m]
        BY <2>4, <3>1, <4>1, <4>3
      <4> QED
        BY <4>2, <4>3
    <3> QED
      BY <2>4, <3>2, <3>3 DEF Turned
  <2>6. ASSUME NEW m \in Motors \ DOMAIN to
        PROVE  en'[m] = en[m] /\ step'[m] = step[m] /\ due'[m] = due[m]
    <3>1. step'[m] = step[m] /\ en' = en
      BY <2>3, <2>8
    <3>2. ~Rises(m)
      BY <3>1 DEF Rises
    <3> QED
      BY <2>3, <3>1, <3>2
  <2>7. advanced
    BY <2>5
  <2> QED
    BY <1>7, <1>11, <2>6, <2>7
<1>12. ASSUME k \notin {0, 1, 6 * n + 2}, k % 6 = 5 PROVE Running(to, n, k + 1)'
  <2>1. Head(todo) = Pins("step", Off(DOMAIN to))
    BY <1>1, <1>12, RunNext
  <2>2. WriteStep
    BY <1>2, <2>1 DEF Main, StartServo, WriteServo, WriteEnable, BeginDelay, WriteDirection,
                      Doing, Pins
  <2>3. /\ UNCHANGED <<en, dir>> /\ step' = Written(Off(DOMAIN to), step)
        /\ \A m \in Motors : due'[m] = IF ~Rises(m) \/ en[m] THEN due[m]
                                      ELSE IF dir[m] THEN due[m] - 1 ELSE due[m] + 1
    BY <2>1, <2>2 DEF WriteStep, Pins
  <2>8. \A m \in Motors : step'[m] = IF m \in DOMAIN to THEN FALSE ELSE step[m]
    BY <1>3, <1>4, <1>13, <2>3
  <2>4. /\ Made(k + 1) = Made(k) /\ ~Raised(k + 1)
        /\ k >= 3 /\ k # 0 /\ k + 1 # 0
    <3>1. k \in Nat /\ k >= 3
      BY <1>12
    <3>2. Made(k + 1) = Made(k) /\ ~Raised(k + 1)
      <4>1. k % 6 # 3
        BY <1>12
      <4> QED
        BY <1>12, <3>1, <4>1, Counted
    <3> QED
      BY <3>1, <3>2
  <2>6. \A m \in Motors : ~Rises(m) /\ due'[m] = due[m]
    BY <1>4, <2>3, <2>8 DEF Rises
  <2>5. advanced
    BY <1>1, <1>3, <1>12, <2>3, <2>4, <2>6, <2>8 DEF Turned
  <2>7. ASSUME NEW m \in Motors \ DOMAIN to
        PROVE  en'[m] = en[m] /\ step'[m] = step[m] /\ due'[m] = due[m]
    BY <2>3, <2>6, <2>8
  <2> QED
    BY <1>7, <1>12, <2>5, <2>7
<1> QED
  BY <1>5, <1>6, <1>9, <1>10, <1>11, <1>12

(* Outside a run main only waits and moves the servo.                          *)
LEMMA RestKeeps ==
    ASSUME NotRunning, HeadInv, Main, todo # <<>>, todo' = Tail(todo)
    PROVE  NotRunning' /\ UNCHANGED <<en, dir, step, due>>
<1>1. todo \in Seq(Instructions) /\ \A j \in 1..Len(todo) : todo[j].op \in {"init", "servo", "delay"}
  BY DEF NotRunning
<1>2. PICK l \in Nat : l = Len(todo)
  BY <1>1
<1>3. /\ todo' \in Seq(Instructions) /\ Len(todo') = l - 1 /\ l >= 1
      /\ \A j \in 1..(l - 1) : todo'[j] = todo[j + 1]
      /\ Head(todo) = todo[1] /\ todo' # todo
  BY <1>1, <1>2, HeadTailProperties
<1>4. Head(todo).op \in {"init", "servo", "delay"}
  <2>1. 1 \in 1..Len(todo)
    BY <1>2, <1>3
  <2> QED
    BY <1>1, <1>3, <2>1
<1>5. StartServo \/ WriteServo \/ BeginDelay
  BY <1>3, <1>4 DEF Main, WriteEnable, WriteDirection, WriteStep, StayInDelay, Doing
<1>6. UNCHANGED <<en, dir, step, due>>
  BY <1>5 DEF StartServo, WriteServo, BeginDelay, motorVars
<1>7. ASSUME NEW j \in 1..Len(todo') PROVE todo'[j].op \in {"init", "servo", "delay"}
  <2>1. j \in 1..(l - 1) /\ j + 1 \in 1..Len(todo)
    BY <1>2, <1>3
  <2> QED
    BY <1>1, <1>3, <2>1
<1>8. \A m \in Motors : AtRest(m)'
  BY <1>6 DEF NotRunning, AtRest
<1> QED
  BY <1>3, <1>6, <1>7, <1>8 DEF NotRunning

(* A command begins a run at its first instruction, and only from rest.         *)
LEMMA CommandKeeps ==
    ASSUME HeadInv, ProgramInv, Command
    PROVE  /\ NotRunning
           /\ \/ NotRunning' /\ \E value \in Pens : todo' = MovePen(value)
              \/ \E to \in Turns, n \in 0..MaxRun : Running(to, n, 0)'
<1>1. todo = <<>> /\ UNCHANGED <<en, dir, step>> /\ Rest
  BY DEF Command, Idle, HeadInv
<1>2. NotRunning
  <2> SUFFICES ASSUME NEW to \in Turns, NEW n \in 0..MaxRun, NEW k \in 0..(6 * n + 2),
                      Running(to, n, k)
               PROVE  FALSE
    BY DEF ProgramInv
  <2>1. Len(todo) = 6 * n + 3 - k
    BY DEF Running, Left
  <2> QED
    BY <1>1, <2>1
<1>3. CASE \E value \in Pens : todo' = MovePen(value) /\ UNCHANGED due
  <2>1. PICK value \in Pens : todo' = MovePen(value) /\ due' = due
    BY <1>3
  <2>2. [op |-> "servo", value |-> value] \in Instructions /\ Wait(Hold) \in Instructions
    BY DEF Instructions, Wait
  <2>3. /\ todo' \in Seq(Instructions)
        /\ \A j \in 1..Len(todo') : todo'[j].op \in {"init", "servo", "delay"}
    BY <2>1, <2>2 DEF MovePen, Wait
  <2> QED
    BY <1>1, <1>2, <2>1, <2>3 DEF NotRunning, AtRest
<1>4. CASE \E to \in Turns, n \in 0..MaxRun :
             /\ todo' = Run(to, n)
             /\ due' = [m \in Motors |-> IF m \notin DOMAIN to THEN due[m]
                                         ELSE IF to[m] THEN due[m] + n ELSE due[m] - n]
  <2>1. PICK to \in Turns, n \in 0..MaxRun :
             /\ todo' = Run(to, n)
             /\ due' = [m \in Motors |-> IF m \notin DOMAIN to THEN due[m]
                                         ELSE IF to[m] THEN due[m] + n ELSE due[m] - n]
    BY <1>4
  <2>2. to \in Levels /\ n \in Nat /\ 6 * n + 3 - 0 = 6 * n + 3 /\ 0 \in 0..(6 * n + 2)
    BY DEF Levels
  <2>3. \A j \in 1..(6 * n + 3) : 0 + j = j
    OBVIOUS
  <2>4. Left(to, n, 0)'
    <3>1. /\ todo' \in Seq(Instructions) /\ Len(todo') = 6 * n + 3 - 0
          /\ \A j \in 1..(6 * n + 3) : todo'[j] = RunAt(to, n, j)
      BY <2>1, <2>2, RunShape
    <3>2. \A j \in 1..(6 * n + 3 - 0) : todo'[j] = RunAt(to, n, 0 + j)
      BY <2>2, <2>3, <3>1
    <3> QED
      BY <3>1, <3>2 DEF Left, RunAt, StepMotors, On, Off, Pins, Wait
  <2>5. ASSUME NEW m \in Motors PROVE IF m \in DOMAIN to THEN Turned(to, n, 0, m)' ELSE AtRest(m)'
    <3>1. due[m] = 0 /\ en[m] /\ ~step[m] /\ en'[m] /\ ~step'[m]
      BY <1>1, <1>2 DEF NotRunning, AtRest
    <3>2. CASE m \in DOMAIN to
      <4>1. due'[m] = IF to[m] THEN 0 + n ELSE 0 - n
        BY <2>1, <3>1, <3>2
      <4>2. due'[m] = IF to[m] THEN n - Made(0) ELSE Made(0) - n
        BY <2>2, <4>1, Counted
      <4>3. ~Raised(0) /\ ~(0 >= 3)
        BY Counted
      <4> QED
        BY <3>1, <3>2, <4>2, <4>3 DEF Turned
    <3>3. CASE m \notin DOMAIN to
      BY <2>1, <3>1, <3>3 DEF AtRest
    <3> QED
      BY <3>2, <3>3
  <2>6. Running(to, n, 0)'
    BY <2>4, <2>5 DEF Running
  <2> QED
    BY <1>2, <2>6
<1> QED
  BY <1>2, <1>3, <1>4 DEF Command

(* What main has left to do at first is the set-up of the servo: no run is    *)
(* under way.                                                                 *)
LEMMA ProgramInit == Init => ProgramInv
<1> SUFFICES ASSUME Init PROVE ProgramInv
  OBVIOUS
<1>1. \A m \in Motors : AtRest(m)
  BY DEF Init, AtRest, On, Off
<1>2. todo \in Seq(Instructions)
  BY HeadInit DEF HeadInv, Rest
<1>3. \A j \in 1..Len(todo) : todo[j].op \in {"init", "servo", "delay"}
  <2> DEFINE a == << [op |-> "init"] >>
             b == MovePen(60)
  <2>1. /\ a \in Seq([op : {"init"}]) /\ Len(a) = 1 /\ a[1].op = "init"
        /\ Len(b) = 2 /\ b[1].op = "servo" /\ b[2].op = "delay"
    BY DEF MovePen, Wait
  <2>2. a \in Seq(Instructions) /\ b \in Seq(Instructions)
    <3>1. /\ [op |-> "init"] \in Instructions /\ [op |-> "servo", value |-> 60] \in Instructions
          /\ Wait(Hold) \in Instructions
      BY DEF Instructions, Pens, Wait
    <3> QED
      BY <3>1 DEF MovePen
  <2> HIDE DEF a, b
  <2>3. /\ Len(a \o b) = Len(a) + Len(b)
        /\ \A j \in 1..(Len(a) + Len(b)) :
              (a \o b)[j] = IF j <= Len(a) THEN a[j] ELSE b[j - Len(a)]
    BY <2>2, ConcatProperties
  <2>4. todo = a \o b
    BY DEF Init, a, b
  <2> QED
    BY <2>1, <2>3, <2>4
<1> QED
  BY <1>1, <1>2, <1>3 DEF ProgramInv, NotRunning

(* A run goes on one instruction at a time, from the call to its end.         *)
LEMMA ProgramStep == HeadInv /\ ProgramInv /\ [Next]_vars => ProgramInv'
<1> SUFFICES ASSUME HeadInv, ProgramInv, [Next]_vars PROVE ProgramInv'
  OBVIOUS
<1>1. CASE Command
  <2>1. \A n \in Nat : 0 \in 0..(6 * n + 2)
    OBVIOUS
  <2> QED
    <3>1. NotRunning' => ProgramInv'
      BY DEF ProgramInv
    <3>2. (\E to \in Turns, n \in 0..MaxRun : Running(to, n, 0)') => ProgramInv'
      BY <2>1 DEF ProgramInv
    <3> QED
      BY <1>1, <3>1, <3>2, CommandKeeps
<1>2. CASE UNCHANGED <<todo, en, dir, step, due>>
  <2>1. NotRunning => NotRunning'
    BY <1>2 DEF NotRunning, AtRest
  <2>2. ASSUME NEW to \in Turns, NEW n \in 0..MaxRun, NEW k \in 0..(6 * n + 2), Running(to, n, k)
        PROVE  Running(to, n, k)'
    BY <1>2, <2>2 DEF Running, Left, AtRest, Turned, RunAt, StepMotors, On, Off, Pins, Wait,
                      Made, Raised
  <2> QED
    BY <2>1, <2>2 DEF ProgramInv
<1>3. CASE Main /\ todo # <<>> /\ todo' = Tail(todo)
  <2>1. NotRunning => NotRunning'
    BY <1>3, RestKeeps
  <2>2. ASSUME NEW to \in Turns, NEW n \in 0..MaxRun, NEW k \in 0..(6 * n + 2), Running(to, n, k)
        PROVE  ProgramInv'
    <3>1. to \in Levels /\ n \in Nat
      BY DEF Levels
    <3>2. IF k = 6 * n + 2 THEN NotRunning' ELSE Running(to, n, k + 1)'
      BY <1>3, <2>2, <3>1, RunWrites
    <3>3. k # 6 * n + 2 => k + 1 \in 0..(6 * n + 2)
      OBVIOUS
    <3> QED
      BY <3>2, <3>3 DEF ProgramInv
  <2> QED
    BY <2>1, <2>2 DEF ProgramInv
<1>4. Main => StayInDelay \/ (todo # <<>> /\ todo' = Tail(todo))
  BY DEF Main, StartServo, WriteServo, WriteEnable, WriteDirection, WriteStep, BeginDelay,
         Doing, Done
<1>5. StayInDelay \/ Interrupt \/ Middle \/ Tick \/ UNCHANGED vars
         => UNCHANGED <<todo, en, dir, step, due>>
  BY DEF StayInDelay, Interrupt, Middle, Tick, HalfTick, vars, motorVars
<1> QED
  BY <1>1, <1>2, <1>3, <1>4, <1>5 DEF Next

(* Whatever the run, the motors it turns and the sense of each, exactly the    *)
(* steps asked for are made: none with its driver disabled or the other way.   *)
THEOREM AllStepsMade == Spec => []NoStepLost
<1>1. HeadInv /\ ProgramInv => NoStepLost
  <2> SUFFICES ASSUME HeadInv, ProgramInv, Idle PROVE \A m \in Motors : due[m] = 0
    BY DEF NoStepLost
  <2>1. NotRunning
    <3> SUFFICES ASSUME NEW to \in Turns, NEW n \in 0..MaxRun, NEW k \in 0..(6 * n + 2),
                        Running(to, n, k)
                 PROVE  FALSE
      BY DEF ProgramInv
    <3>1. Len(todo) = 6 * n + 3 - k /\ todo = <<>>
      BY DEF Running, Left, Idle
    <3> QED
      BY <3>1
  <2> QED
    BY <2>1 DEF NotRunning, AtRest
<1> QED
  BY <1>1, HeadInit, HeadStep, ProgramInit, ProgramStep, PTL DEF Spec
=============================================================================
