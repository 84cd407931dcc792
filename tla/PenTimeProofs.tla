----------------------------- MODULE PenTimeProofs -----------------------------
(***************************************************************************)
(* How long the pulses of the motors last and when the pen has moved, for    *)
(* every width of the tick counter, every period of the servo, every Hold and *)
(* Speed and any number of commands and steps, until a read of the counter is *)
(* torn.  Time is never counted: the half ticks that a wait has still to last *)
(* bound both what an edge of STEP lacks and what the servo needs.            *)
(***************************************************************************)
EXTENDS PenHeadProofs

USE PenHeadAssumption, ServoAssumption, TurnsAssumption

-----------------------------------------------------------------------------
(* The servo: the half ticks it needs at most to have been sent a whole pulse   *)
(* of the last angle written.                                                  *)
Width   == ValueToMicroseconds(angle)
Settled == heard = Width /\ match = Width

Settling == IF Settled THEN 0
            ELSE IF match = Width /\ pin THEN Longest(match) - timer + 1
            ELSE 2 * Cycle - timer + Longest(Width) + 1

(* It never needs longer than a cycle and the widest pulse.                    *)
LEMMA SettlingRange ==
    ASSUME ServoPart
    PROVE  /\ Settling \in 0..(2 * Cycle + 4)
           /\ Settled => Settling = 0
           /\ ~Settled => Settling >= 1
<1>1. /\ timer \in 0..(2 * Cycle) /\ Width \in {500, 1000, 1166}
      /\ Longest(match) \in 0..3 /\ Longest(Width) \in 0..3
      /\ pin => timer <= Longest(match)
  <2>1. Width \in {500, 1000, 1166} /\ Longest(match) \in 0..3
    BY ServoTypes DEF Width, ServoPart
  <2>2. Longest(Width) \in 0..3
    BY <2>1, Widths
  <2> QED
    BY <2>1, <2>2 DEF ServoPart, ServoInv, ServoTypeOK
<1>2. CASE Settled
  <2>1. Settling = 0
    BY <1>2 DEF Settling
  <2>2. 0 \in 0..(2 * Cycle + 4)
    OBVIOUS
  <2> QED
    BY <1>2, <2>1, <2>2
<1>3. CASE ~Settled /\ match = Width /\ pin
  <2>1. Settling = Longest(match) - timer + 1 /\ timer <= Longest(match)
    BY <1>1, <1>3 DEF Settling
  <2>2. Settling \in 1..(2 * Cycle + 4)
    BY <1>1, <2>1
  <2> QED
    BY <1>3, <2>2
<1>4. CASE ~Settled /\ ~(match = Width /\ pin)
  <2>1. Settling = 2 * Cycle - timer + Longest(Width) + 1
    BY <1>4 DEF Settling
  <2>2. Settling \in 1..(2 * Cycle + 4)
    BY <1>1, <2>1
  <2> QED
    BY <1>4, <2>2
<1> QED
  BY <1>2, <1>3, <1>4

(* With each half tick it needs one less, and its interrupts do not set it back. *)
LEMMA SettlingFalls ==
    ASSUME ServoPart, attached, TimerInterrupt \/ TimerRuns
    PROVE  /\ attached' /\ (Settled => Settled') /\ Settling' \in Int
           /\ Settled' \/ Settling' <= IF TimerRuns THEN Settling - 1 ELSE Settling
<1>1. /\ timer \in 0..(2 * Cycle) /\ Width \in {500, 1000, 1166}
      /\ Longest(match) \in 0..3 /\ Longest(Width) \in 0..3
      /\ pin => timer <= Longest(match)
      /\ Settling \in 0..(2 * Cycle + 4)
  <2>1. Width \in {500, 1000, 1166} /\ Longest(match) \in 0..3
    BY ServoTypes DEF Width, ServoPart
  <2>2. Longest(Width) \in 0..3
    BY <2>1, Widths
  <2> QED
    BY <2>1, <2>2, SettlingRange DEF ServoPart, ServoInv, ServoTypeOK
<1>2. Width' = Width /\ Longest(Width)' = Longest(Width) /\ attached'
  <2>1. angle' = angle /\ attached' = attached
    BY DEF TimerInterrupt, CompareMatch0, CompareMatch1, TimerRuns
  <2>2. Width' = Width
    BY <2>1 DEF Width, ValueToMicroseconds
  <2> QED
    BY <2>1, <2>2 DEF Longest
<1>6. Settled' => Settling' = 0
  BY DEF Settling
<1>3. CASE CompareMatch0
  <2>1. /\ timer = 2 * Cycle /\ timer' = 0 /\ match' = Width /\ heard' = heard
        /\ pin' = TRUE /\ Longest(match)' = Longest(Width)
    BY <1>3 DEF CompareMatch0, Width, Longest
  <2>2. Settled => Settled'
    BY <1>2, <2>1 DEF Settled
  <2>3. ASSUME ~Settled' PROVE Settling' <= Settling /\ Settling' \in Int
    <3>1. ~Settled
      BY <2>2, <2>3
    <3>2. Settling' = Longest(match)' - timer' + 1
      BY <1>2, <2>1, <2>3 DEF Settling
    <3>5. ~(timer <= Longest(match))
      BY <1>1, <2>1
    <3>3. ~pin
      BY <1>1, <3>5
    <3>4. Settling = 2 * Cycle - timer + Longest(Width) + 1
      BY <3>1, <3>3 DEF Settling
    <3> QED
      BY <1>1, <2>1, <3>2, <3>4
  <2>5. ~(timer < 2 * Cycle)
    BY <1>1, <2>1
  <2>4. ~TimerRuns
    BY <2>5 DEF TimerRuns
  <2> QED
    BY <1>2, <1>6, <2>2, <2>3, <2>4
<1>4. CASE CompareMatch1
  <2>1. /\ timer' = timer /\ match' = match /\ heard' = IF pin THEN match ELSE heard
        /\ pin' = FALSE /\ matched' # matched
    BY <1>4 DEF CompareMatch1
  <2>2. Settled => Settled'
    BY <1>2, <2>1 DEF Settled
  <2>3. ASSUME ~Settled' PROVE Settling' <= Settling /\ Settling' \in Int
    <3>1. ~Settled
      BY <2>2, <2>3
    <3>2. ~(match = Width /\ pin)
      BY <1>2, <2>1, <2>3 DEF Settled
    <3>3. /\ Settling' = 2 * Cycle - timer' + Longest(Width)' + 1
          /\ Settling = 2 * Cycle - timer + Longest(Width) + 1
      BY <2>1, <2>3, <3>1, <3>2 DEF Settling
    <3> QED
      BY <1>1, <1>2, <2>1, <3>3
  <2>4. ~TimerRuns
    BY <2>1 DEF TimerRuns
  <2> QED
    BY <1>2, <1>6, <2>2, <2>3, <2>4
<1>5. CASE TimerRuns
  <2>1. /\ timer' = timer + 1 /\ match' = match /\ heard' = heard /\ pin' = pin
        /\ Longest(match)' = Longest(match)
    BY <1>5 DEF TimerRuns, Longest
  <2>2. Settled <=> Settled'
    BY <1>2, <2>1 DEF Settled
  <2>3. ASSUME ~Settled PROVE Settling' = Settling - 1
    <3>1. CASE match = Width /\ pin
      <4>1. /\ Settling' = Longest(match)' - timer' + 1
            /\ Settling = Longest(match) - timer + 1
        BY <1>2, <2>1, <2>2, <2>3, <3>1 DEF Settling
      <4> QED
        BY <1>1, <2>1, <4>1
    <3>2. CASE ~(match = Width /\ pin)
      <4>1. /\ Settling' = 2 * Cycle - timer' + Longest(Width)' + 1
            /\ Settling = 2 * Cycle - timer + Longest(Width) + 1
        BY <1>2, <2>1, <2>2, <2>3, <3>2 DEF Settling
      <4> QED
        BY <1>1, <1>2, <2>1, <4>1
    <3> QED
      BY <3>1, <3>2
  <2>4. Settled' \/ (Settling' <= Settling - 1 /\ Settling' \in Int)
    BY <1>1, <2>2, <2>3
  <2> QED
    BY <1>2, <1>5, <1>6, <2>2, <2>4
<1> QED
  BY <1>3, <1>4, <1>5 DEF TimerInterrupt

-----------------------------------------------------------------------------
(* The motors: what an edge of STEP must have lasted k instructions into a run. *)

Cap == 2 * (Speed + 1)

Base(k) == IF k <= 3 \/ k % 6 \in {2, 3} THEN Cap ELSE IF k % 6 \in {0, 4} THEN 0 ELSE 2

(* The next instruction of a run, and what it leaves to last.                  *)
LEMMA RunOps ==
    ASSUME NEW to \in Levels, NEW n \in Nat, NEW k \in 0..(6 * n + 2), Running(to, n, k)
    PROVE  /\ todo # <<>> /\ Head(todo).op \in {"en", "dir", "step", "delay"}
           /\ Head(todo).op = "delay" =>
                 /\ k = 1 \/ (k > 3 /\ k # 6 * n + 2)
                 /\ Head(todo).ticks \in Nat /\ Base(k + 1) <= Base(k) + 2 * Head(todo).ticks
           /\ Head(todo).op \in {"en", "dir"} => k # 1 /\ Base(k) = Cap
           /\ Head(todo).op = "step" =>
                 /\ k >= 3 /\ k # 6 * n + 2 /\ Base(k + 1) = 0
                 /\ \A m \in DOMAIN to : Base(k) = IF step[m] THEN 2 ELSE Cap
                 /\ DOMAIN Head(todo).levels = DOMAIN to /\ Head(todo).levels \in Levels
<1>1. /\ todo # <<>> /\ Head(todo) = RunAt(to, n, k + 1)
      /\ \A m \in DOMAIN to : step[m] <=> Raised(k)
  <2>1. DOMAIN to \subseteq Motors
    BY DEF Levels
  <2> QED
    BY <2>1, RunAdvances DEF Running, Turned
<1>2. DOMAIN On(DOMAIN to) = DOMAIN to /\ DOMAIN Off(DOMAIN to) = DOMAIN to
  BY DEF On, Off
<1>3. Cap = 2 * Speed + 2 /\ Speed \in Nat /\ k \in Nat
  BY DEF Cap
<1>4. CASE k \in {0, 6 * n + 2}
  <2>3. Head(todo) = Pins("en", Off(DOMAIN to)) \/ Head(todo) = Pins("en", On(DOMAIN to))
    BY <1>1, <1>4, RunNext
  <2>1. Head(todo).op = "en"
    BY <2>3 DEF Pins
  <2>2. k # 1 /\ Base(k) = Cap
    BY <1>4 DEF Base
  <2> QED
    BY <1>1, <2>1, <2>2
<1>5. CASE k = 1
  <2>1. Head(todo) = Wait(1)
    <3>1. k # 0 /\ k # 6 * n + 2
      BY <1>5
    <3> QED
      BY <1>1, <1>5, <3>1, RunNext
  <2>2. Base(k) = Cap /\ Base(k + 1) = Cap
    BY <1>5 DEF Base
  <2>3. Head(todo).op = "delay" /\ Head(todo).ticks = 1
    BY <2>1 DEF Wait
  <2> QED
    BY <1>1, <1>3, <1>5, <2>2, <2>3
<1>6. CASE k \notin {0, 1, 6 * n + 2} /\ k % 6 = 2
  <2>3. Head(todo) = Pins("dir", to)
    BY <1>1, <1>6, RunNext
  <2>1. Head(todo).op = "dir"
    BY <2>3 DEF Pins
  <2>2. k # 1 /\ Base(k) = Cap
    BY <1>6 DEF Base
  <2> QED
    BY <1>1, <2>1, <2>2
<1>7. CASE k \notin {0, 1, 6 * n + 2} /\ k % 6 = 3
  <2>1. Head(todo) = Pins("step", On(DOMAIN to))
    BY <1>1, <1>7, RunNext
  <2>2. k >= 3 /\ Base(k) = Cap /\ Base(k + 1) = 0
    BY <1>7 DEF Base
  <2>3. ~Raised(k)
    BY <1>3, <1>7, Counted
  <2>4. \A m \in DOMAIN to : Base(k) = IF step[m] THEN 2 ELSE Cap
    BY <1>1, <2>2, <2>3
  <2>5. /\ Head(todo).op = "step" /\ Head(todo).levels = On(DOMAIN to)
        /\ On(DOMAIN to) \in Levels
    BY <2>1, StepShape DEF Pins
  <2> QED
    BY <1>1, <1>2, <1>7, <2>2, <2>4, <2>5
<1>8. CASE k \notin {0, 1, 6 * n + 2} /\ k % 6 = 5
  <2>1. Head(todo) = Pins("step", Off(DOMAIN to))
    BY <1>1, <1>8, RunNext
  <2>2. k >= 3 /\ Base(k) = 2 /\ Base(k + 1) = 0
    BY <1>8 DEF Base
  <2>3. Raised(k)
    BY <1>3, <1>8 DEF Raised
  <2>4. \A m \in DOMAIN to : Base(k) = IF step[m] THEN 2 ELSE Cap
    BY <1>1, <2>2, <2>3
  <2>5. /\ Head(todo).op = "step" /\ Head(todo).levels = Off(DOMAIN to)
        /\ Off(DOMAIN to) \in Levels
    BY <2>1, StepShape DEF Pins
  <2> QED
    BY <1>1, <1>2, <1>8, <2>2, <2>4, <2>5
<1>9. CASE k \notin {0, 1, 6 * n + 2} /\ k % 6 \in {0, 4}
  <2>1. Head(todo) = Wait(1)
    <3>1. k % 6 # 2 /\ k % 6 # 3 /\ k % 6 # 5 /\ k % 6 # 1
      BY <1>9
    <3> QED
      BY <1>1, <1>9, <3>1, RunNext
  <2>2. k > 3 /\ Base(k) = 0 /\ Base(k + 1) = 2
    BY <1>9 DEF Base
  <2>3. Head(todo).op = "delay" /\ Head(todo).ticks = 1
    BY <2>1 DEF Wait
  <2> QED
    BY <1>1, <1>9, <2>2, <2>3
<1>10. CASE k \notin {0, 1, 6 * n + 2} /\ k % 6 = 1
  <2>1. Head(todo) = Wait(Speed)
    <3>1. k % 6 # 2 /\ k % 6 # 3 /\ k % 6 # 5
      BY <1>10
    <3> QED
      BY <1>1, <1>10, <3>1, RunNext
  <2>2. k > 3 /\ Base(k) = 2 /\ Base(k + 1) = Cap
    BY <1>10 DEF Base
  <2>3. Head(todo).op = "delay" /\ Head(todo).ticks = Speed
    BY <2>1 DEF Wait
  <2> QED
    BY <1>1, <1>3, <1>10, <2>2, <2>3
<1>11. k % 6 \in 0..5
  OBVIOUS
<1> QED
  BY <1>4, <1>5, <1>6, <1>7, <1>8, <1>9, <1>10, <1>11

(* The edges while a run is at its instruction k; from the second on main is    *)
(* between the end of one tick and the middle of the next.                     *)
RunTime(to, n, k) ==
    /\ \A m \in Motors \ DOMAIN to : edge[m] = Cap
    /\ k <= 3 => \A m \in Motors : edge[m] = Cap
    /\ \A m \in Motors : edge[m] >= Base(k) - Lag
    /\ k >= 2 /\ wait.at = "out" => ~late
    /\ k > 3 /\ wait.at \in {"start", "starting"} => ~late
    /\ k > 3 /\ wait.at = "starting" => Fresh

(* An instruction of a run keeps to the time.                                  *)
LEMMA RunKeepsTime ==
    ASSUME NEW to \in Levels, NEW n \in Nat, NEW k \in 0..(6 * n + 2), Running(to, n, k),
           RunTime(to, n, k), HeadInv, Main, ~StayInDelay
    PROVE  /\ UNCHANGED servoVars /\ Untorn'
           /\ IF k = 6 * n + 2 THEN /\ NotRunning' /\ todo' = <<>> /\ wait'.at = "out"
                                    /\ \A m \in Motors : edge'[m] = Cap
                               ELSE Running(to, n, k + 1)' /\ RunTime(to, n, k + 1)'
<1>1. /\ todo # <<>> /\ todo' = Tail(todo) /\ wait.at = "out" /\ Rest /\ Lag = 0
  BY RunOps DEF Main, StartServo, WriteServo, WriteEnable, WriteDirection, WriteStep,
                BeginDelay, Doing, Done, Awake, HeadInv, Lag
<1>2. /\ \A m \in Motors : edge[m] \in 0..Cap /\ edge[m] >= Base(k)
      /\ k <= 3 => \A m \in Motors : edge[m] = Cap
      /\ \A m \in Motors \ DOMAIN to : edge[m] = Cap
      /\ k >= 2 => ~late
      /\ Base(k) \in 0..Cap /\ Base(k + 1) \in 0..Cap /\ Cap \in Nat /\ Cap >= 2
  <2>1. Cap \in Nat /\ Cap >= 2
    BY DEF Cap
  <2>2. \A m \in Motors : edge[m] \in 0..Cap
    BY <1>1 DEF Rest, Cap
  <2>3. Base(k) \in 0..Cap /\ Base(k + 1) \in 0..Cap
    BY <2>1 DEF Base
  <2>4. \A m \in Motors : edge[m] >= Base(k)
    BY <1>1, <2>2, <2>3 DEF RunTime
  <2> QED
    BY <1>1, <2>1, <2>2, <2>3, <2>4 DEF RunTime
<1>3. IF k = 6 * n + 2 THEN NotRunning' ELSE Running(to, n, k + 1)'
  BY <1>1, RunWrites
<1>4. /\ Head(todo).op \in {"en", "dir", "step", "delay"}
      /\ Head(todo).op = "delay" =>
            /\ k = 1 \/ (k > 3 /\ k # 6 * n + 2)
            /\ Head(todo).ticks \in Nat /\ Base(k + 1) <= Base(k) + 2 * Head(todo).ticks
      /\ Head(todo).op \in {"en", "dir"} => k # 1 /\ Base(k) = Cap
      /\ Head(todo).op = "step" =>
            /\ k >= 3 /\ k # 6 * n + 2 /\ Base(k + 1) = 0
            /\ DOMAIN Head(todo).levels = DOMAIN to /\ Head(todo).levels \in Levels
  BY RunOps
<1>5. CASE Head(todo).op = "delay"
  <2>1. BeginDelay
    BY <1>5 DEF Main, StartServo, WriteServo, WriteEnable, WriteDirection, WriteStep, Doing
  <2>2. /\ CallDelay(Head(todo).ticks) /\ UNCHANGED <<servoVars, edge>>
        /\ wait'.at = "start" /\ late' = late
    BY <2>1 DEF BeginDelay, CallDelay, motorVars
  <2>3. Untorn' /\ Lag' = 2 * Head(todo).ticks
    BY <1>4, <1>5, <2>2, CallLag
  <2>4. ASSUME NEW m \in Motors PROVE edge'[m] >= Base(k + 1) - Lag'
    BY <1>2, <1>4, <1>5, <2>2, <2>3
  <2>5. k # 6 * n + 2 /\ (k + 1 <= 3 => k <= 3) /\ (k + 1 > 3 => k >= 2)
    BY <1>4, <1>5
  <2>6. RunTime(to, n, k + 1)'
    BY <1>2, <2>2, <2>4, <2>5 DEF RunTime, Base, Cap
  <2> QED
    BY <1>3, <2>2, <2>3, <2>5, <2>6
<1>6. CASE Head(todo).op \in {"en", "dir"}
  <2>1. WriteEnable \/ WriteDirection
    BY <1>6 DEF Main, StartServo, WriteServo, BeginDelay, WriteStep, Doing
  <2>2. UNCHANGED <<servoVars, delayVars, edge>>
    BY <2>1 DEF WriteEnable, WriteDirection
  <2>3. /\ wait' = wait /\ late' = late /\ Lag' = 0 /\ Untorn'
    BY <1>1, <2>2 DEF delayVars, Lag, Untorn
  <2>4. \A m \in Motors : edge'[m] = Cap
    BY <1>2, <1>4, <1>6, <2>2
  <2>5. CASE k = 6 * n + 2
    <3>1. Left(to, n, k + 1)'
      BY <1>1, RunAdvances DEF Running
    <3>2. todo' = <<>>
      <4>1. 6 * n + 3 - (k + 1) = 0
        BY <2>5
      <4>2. todo' \in Seq(Instructions) /\ Len(todo') = 0
        BY <3>1, <4>1 DEF Left
      <4> QED
        BY <4>2
    <3> QED
      BY <1>1, <1>3, <2>2, <2>3, <2>4, <2>5, <3>2
  <2>6. CASE k # 6 * n + 2
    <3>1. \A m \in Motors : edge'[m] >= Base(k + 1) - Lag'
      BY <1>2, <2>3, <2>4
    <3>2. k + 1 >= 2 => ~late'
      <4>1. k + 1 >= 2 => k >= 2
        BY <1>4, <1>6
      <4> QED
        BY <1>2, <2>3, <4>1
    <3>3. RunTime(to, n, k + 1)'
      BY <1>1, <2>3, <2>4, <3>1, <3>2 DEF RunTime, Base, Cap
    <3> QED
      BY <1>3, <2>2, <2>3, <2>6, <3>3
  <2> QED
    BY <2>5, <2>6
<1>7. CASE Head(todo).op = "step"
  <2>1. WriteStep
    BY <1>7 DEF Main, StartServo, WriteServo, BeginDelay, WriteEnable, WriteDirection, Doing
  <2>2. /\ UNCHANGED <<servoVars, delayVars>>
        /\ step' = Written(Head(todo).levels, step)
        /\ edge' = [m \in Motors |-> IF step'[m] = step[m] THEN edge[m] ELSE 0]
    BY <2>1 DEF WriteStep
  <2>3. /\ wait' = wait /\ late' = late /\ Lag' = 0 /\ Untorn'
    BY <1>1, <2>2 DEF delayVars, Lag, Untorn
  <2>4. \A m \in Motors \ DOMAIN to : step'[m] = step[m]
    <3>1. step \in [Motors -> BOOLEAN]
      BY <1>1 DEF Rest
    <3> QED
      BY <1>4, <1>7, <2>2, <3>1, WrittenPins
  <2>5. \A m \in Motors \ DOMAIN to : edge'[m] = Cap
    BY <1>2, <2>2, <2>4
  <2>6. \A m \in Motors : edge'[m] >= Base(k + 1) - Lag'
    <3>1. \A m \in Motors : edge'[m] >= 0
      BY <1>2, <2>2
    <3> QED
      BY <1>4, <1>7, <2>3, <3>1
  <2>7. k # 6 * n + 2 /\ ~(k + 1 <= 3) /\ ~late'
    BY <1>2, <1>4, <1>7, <2>3
  <2>8. RunTime(to, n, k + 1)'
    BY <1>1, <2>3, <2>5, <2>6, <2>7 DEF RunTime, Base, Cap
  <2> QED
    BY <1>3, <2>2, <2>3, <2>7, <2>8
<1> QED
  BY <1>4, <1>5, <1>6, <1>7

(* So do the loads and the passing of time.                                    *)
LEMMA RunWaits ==
    ASSUME NEW to \in Levels, NEW n \in Nat, NEW k \in 0..(6 * n + 2), Running(to, n, k),
           RunTime(to, n, k), HeadInv, Untorn, ~torn', StayInDelay \/ Middle \/ Tick
    PROVE  RunTime(to, n, k)' /\ Untorn'
<1>1. /\ DelayInv /\ Lag \in Nat /\ todo # <<>>
      /\ \A m \in Motors : edge[m] \in 0..Cap
      /\ Cap \in Nat /\ Base(k) \in 0..Cap
  <2>1. Cap \in Nat /\ Cap >= 2
    BY DEF Cap
  <2>2. \A m \in Motors : edge[m] \in 0..Cap
    BY DEF HeadInv, Rest, Cap
  <2>3. Base(k) \in 0..Cap
    BY <2>1 DEF Base
  <2> QED
    BY <2>1, <2>2, <2>3, LagRange, RunOps DEF HeadInv
<1>2. CASE StayInDelay
  <2>1. DelayStep /\ edge' = edge /\ late' = late
    BY <1>2 DEF StayInDelay, motorVars, DelayStep, FirstLoad, SecondLoad
  <2>2. /\ Untorn' /\ Lag' \in Nat
        /\ wait.at # "starting" \/ (Fresh /\ ~late) => Lag' = Lag
        /\ wait'.at = "starting" => Fresh'
        /\ wait'.at = "out" => ~late
        /\ wait.at = "starting" => wait'.at = "poll"
        /\ wait.at = "start" => wait'.at = "starting"
        /\ wait.at # "start" => wait'.at # "starting"
        /\ wait'.at # "start"
    BY <1>1, <2>1, LoadsLag
  <2>4. ASSUME NEW m \in Motors PROVE edge'[m] >= Base(k) - Lag'
    <3>1. CASE k <= 3
      <4>1. edge'[m] = Cap
        BY <2>1, <3>1 DEF RunTime
      <4> QED
        BY <1>1, <2>2, <4>1
    <3>2. CASE k > 3
      <4>1. Lag' = Lag
        BY <2>2, <3>2 DEF RunTime
      <4> QED
        BY <2>1, <4>1 DEF RunTime
    <3> QED
      BY <3>1, <3>2
  <2>5. k > 3 /\ wait'.at \in {"start", "starting"} => ~late
    BY <2>2 DEF RunTime
  <2> QED
    BY <2>1, <2>2, <2>4, <2>5 DEF RunTime, Base, Cap
<1>3. CASE Middle \/ Tick
  <2>1. /\ wait' = wait
        /\ edge' = [m \in Motors |-> IF edge[m] < Cap THEN edge[m] + 1 ELSE edge[m]]
        /\ Middle => ~late /\ wait.at \in {"poll", "polling"}
        /\ Tick => late /\ ~late'
    BY <1>1, <1>3 DEF Middle, Tick, HalfTick, CountTick, Idle, Waiting, Cap
  <2>2. Untorn' /\ Lag' \in Nat /\ Lag' = IF wait.at \in {"poll", "polling"} THEN Lag - 1 ELSE Lag
    <3>1. CASE Middle
      BY <1>1, <3>1, MiddleLag DEF Middle, Idle, Awake
    <3>2. CASE Tick
      <4>1. late /\ late' = FALSE /\ CountTick
        BY <3>2 DEF Tick
      <4> QED
        BY <1>1, <4>1, TickLag
    <3> QED
      BY <1>3, <3>1, <3>2
  <2>3. Lag' \in Nat /\ Lag' >= Lag - 1
    BY <1>1, <2>2
  <2>4. ASSUME NEW m \in Motors PROVE edge'[m] >= Base(k) - Lag'
    <3>1. edge'[m] = Cap \/ edge'[m] = edge[m] + 1
      BY <1>1, <2>1
    <3>2. edge[m] >= Base(k) - Lag
      BY DEF RunTime
    <3> QED
      BY <1>1, <2>3, <3>1, <3>2
  <2>5. \A m \in Motors : edge[m] = Cap => edge'[m] = Cap
    BY <1>1, <2>1
  <2>6. /\ k >= 2 /\ wait'.at = "out" => ~late'
        /\ k > 3 /\ wait'.at \in {"start", "starting"} => ~late'
    BY <1>3, <2>1
  <2>7. k > 3 /\ wait'.at = "starting" => Fresh'
    BY <1>3, <2>1 DEF RunTime
  <2> QED
    BY <2>2, <2>4, <2>5, <2>6, <2>7 DEF RunTime, Base, Cap
<1> QED
  BY <1>2, <1>3

-----------------------------------------------------------------------------
(* The pen: outside a run main is about to write the angle, about to wait, or   *)
(* in that wait, which is as long as the servo needs; and it waits for nothing   *)
(* else.                                                                      *)
PenTime ==
    /\ \A m \in Motors : edge[m] = Cap
    /\ wait.at # "out" => wait.duration = Hold
    /\ \/ /\ todo = <<>> /\ attached /\ Settling <= Lag
       \/ /\ todo = <<Wait(Hold)>> /\ attached /\ wait.at = "out"
       \/ /\ \E value \in Pens : todo = MovePen(value)
          /\ wait.at = "out"
       \/ /\ todo = << [op |-> "init"] >> \o MovePen(60)
          /\ wait.at = "out"

TimeInv ==
    ~torn =>
      /\ Untorn
      /\ \/ NotRunning /\ PenTime
         \/ \E to \in Turns, n \in 0..MaxRun : \E k \in 0..(6 * n + 2) :
               Running(to, n, k) /\ RunTime(to, n, k) /\ Settled /\ attached

(* The moves of the pen, taken apart.                                          *)
LEMMA PenPrograms ==
    /\ \A value \in Pens : LET p == MovePen(value) IN
          /\ p # <<>> /\ Head(p).op = "servo" /\ Tail(p) = <<Wait(Hold)>>
    /\ LET p == << [op |-> "init"] >> \o MovePen(60) IN
          /\ p # <<>> /\ Head(p).op = "init" /\ Tail(p) = MovePen(60)
    /\ <<Wait(Hold)>> # <<>> /\ Head(<<Wait(Hold)>>) = Wait(Hold) /\ Tail(<<Wait(Hold)>>) = <<>>
<1>1. \A value \in Pens : LET p == MovePen(value) IN
          /\ p # <<>> /\ Head(p).op = "servo" /\ Tail(p) = <<Wait(Hold)>>
  BY DEF MovePen
<1>2. LET p == << [op |-> "init"] >> \o MovePen(60) IN
          /\ p # <<>> /\ Head(p).op = "init" /\ Tail(p) = MovePen(60)
  <2> DEFINE a == << [op |-> "init"] >>
             b == MovePen(60)
             p == a \o b
  <2>1. /\ a \in Seq({[op |-> "init"]} \cup {b[1], b[2]}) /\ Len(a) = 1 /\ a[1].op = "init"
        /\ b \in Seq({[op |-> "init"]} \cup {b[1], b[2]}) /\ Len(b) = 2
    BY DEF MovePen, Wait
  <2> DEFINE S == {[op |-> "init"]} \cup {b[1], b[2]}
  <2>2. a \in Seq(S) /\ b \in Seq(S) /\ Len(a) = 1 /\ a[1].op = "init" /\ Len(b) = 2
    BY <2>1
  <2> HIDE DEF a, b, S
  <2>3. /\ p \in Seq(S) /\ Len(p) = Len(a) + Len(b)
        /\ \A j \in 1..(Len(a) + Len(b)) : p[j] = IF j <= Len(a) THEN a[j] ELSE b[j - Len(a)]
    BY <2>2, ConcatProperties
  <2> HIDE DEF p
  <2>4. p # <<>> /\ Head(p) = a[1]
    BY <2>2, <2>3
  <2>5. /\ Tail(p) \in Seq(S) /\ Len(Tail(p)) = 2
        /\ Tail(p)[1] = b[1] /\ Tail(p)[2] = b[2]
    <3>1. Len(p) = 3 /\ p[2] = b[1] /\ p[3] = b[2]
      BY <2>2, <2>3
    <3>2. /\ Tail(p) \in Seq(S) /\ Len(Tail(p)) = Len(p) - 1
          /\ \A i \in 1..Len(Tail(p)) : Tail(p)[i] = p[i + 1]
      BY <2>3, <2>4, HeadTailProperties
    <3>3. Len(Tail(p)) = 2
      BY <3>1, <3>2
    <3> QED
      BY <3>1, <3>2, <3>3
  <2>6. Tail(p) = b
    <3>1. Len(Tail(p)) = Len(b) /\ \A i \in {1, 2} : Tail(p)[i] = b[i]
      BY <2>2, <2>5
    <3>2. \A i \in 1..Len(Tail(p)) : i \in {1, 2}
      <4>1. \A i \in 1..2 : i \in {1, 2}
        OBVIOUS
      <4>2. 1..Len(Tail(p)) = 1..2
        BY <2>5
      <4> QED
        BY <4>1, <4>2
    <3> QED
      BY <2>2, <2>5, <3>1, <3>2, SeqEqual
  <2> QED
    BY <2>2, <2>4, <2>6 DEF p, a, b
<1> QED
  BY <1>1, <1>2

(* main outside a run.                                                         *)
LEMMA PenKeepsTime ==
    ASSUME HeadInv, NotRunning, PenTime, Main, ~StayInDelay, ~torn, Untorn
    PROVE  NotRunning' /\ PenTime' /\ Untorn'
<1>1. /\ todo # <<>> /\ todo' = Tail(todo) /\ wait.at = "out"
      /\ UNCHANGED <<en, dir, step, due>> /\ NotRunning'
  <2>1. todo # <<>> /\ todo' = Tail(todo) /\ wait.at = "out"
    BY DEF Main, StartServo, WriteServo, WriteEnable, WriteDirection, WriteStep,
                BeginDelay, Doing, Done, Awake
  <2> QED
    BY <2>1, RestKeeps
<1>2. CASE todo = <<Wait(Hold)>> /\ attached
  <2>1. BeginDelay /\ todo' = <<>> /\ Head(todo).ticks = Hold
    BY <1>1, <1>2, PenPrograms DEF Main, StartServo, WriteServo, WriteEnable, WriteDirection,
                      WriteStep, StayInDelay, Doing, Wait
  <2>2. /\ CallDelay(Hold) /\ UNCHANGED <<servoVars, edge>>
        /\ wait'.duration = Hold
    BY <2>1 DEF BeginDelay, motorVars, CallDelay
  <2>3. Untorn' /\ Lag' = 2 * Hold
    BY <2>2, CallLag
  <2>4. Settling \in 0..(2 * Cycle + 4)
    BY SettlingRange DEF HeadInv
  <2>5. Settling' = Settling /\ attached'
    BY <1>2, <2>2 DEF servoVars, Settling, Settled, Width, ValueToMicroseconds, Longest
  <2>6. Settling' <= Lag'
    BY <2>3, <2>4, <2>5
  <2> QED
    BY <1>1, <2>1, <2>2, <2>3, <2>5, <2>6 DEF PenTime, Cap
<1>3. ASSUME NEW value \in Pens, todo = MovePen(value)
      PROVE  PenTime' /\ Untorn'
  <2>1. WriteServo /\ todo' = <<Wait(Hold)>>
    BY <1>1, <1>3, PenPrograms DEF Main, StartServo, BeginDelay, WriteEnable, WriteDirection,
                      WriteStep, StayInDelay, Doing
  <2>2. UNCHANGED <<delayVars, edge>> /\ attached'
    BY <2>1 DEF WriteServo, motorVars, ServoWrite
  <2> QED
    BY <1>1, <2>1, <2>2 DEF PenTime, Cap, delayVars, Untorn, Wait
<1>4. CASE todo = << [op |-> "init"] >> \o MovePen(60)
  <2>1. StartServo /\ todo' = MovePen(60) /\ 60 \in Pens
    BY <1>1, <1>4, PenPrograms DEF Main, WriteServo, BeginDelay, WriteEnable, WriteDirection,
                      WriteStep, StayInDelay, Doing, Pens
  <2>2. UNCHANGED <<delayVars, edge>>
    BY <2>1 DEF StartServo, motorVars
  <2> QED
    BY <1>1, <2>1, <2>2 DEF PenTime, Cap, delayVars, Untorn, MovePen, Wait
<1> QED
  BY <1>1, <1>2, <1>3, <1>4 DEF PenTime

(* What a step that is not of main must keep.                                 *)
LEMMA PenTimeKept ==
    ASSUME PenTime, UNCHANGED <<todo, wait>>, \A m \in Motors : edge'[m] = Cap,
           attached => attached', attached /\ Settling <= Lag => Settling' <= Lag'
    PROVE  PenTime'
<1>1. \A m \in Motors : (edge[m] = Cap)'
  BY DEF Cap
<1>2. CASE todo = <<>> /\ attached /\ Settling <= Lag
  BY <1>1, <1>2 DEF PenTime
<1>3. CASE todo = <<Wait(Hold)>> /\ attached /\ wait.at = "out"
  BY <1>1, <1>3 DEF PenTime, Wait
<1>4. CASE (\E value \in Pens : todo = MovePen(value)) /\ wait.at = "out"
  <2>1. (\E value \in Pens : todo = MovePen(value))'
    BY <1>4 DEF MovePen, Wait, Pens
  <2> QED
    BY <1>1, <1>4, <2>1 DEF PenTime
<1>5. CASE todo = << [op |-> "init"] >> \o MovePen(60) /\ wait.at = "out"
  BY <1>1, <1>5 DEF PenTime, MovePen, Wait
<1> QED
  BY <1>2, <1>3, <1>4, <1>5 DEF PenTime

(* The loads, the interrupts and the passing of time outside a run.            *)
LEMMA PenWaits ==
    ASSUME HeadInv, NotRunning, PenTime, Untorn, ~torn',
           StayInDelay \/ Interrupt \/ Middle \/ Tick
    PROVE  PenTime' /\ Untorn'
<1>1. /\ DelayInv /\ ServoPart /\ Lag \in Nat /\ todo' = todo
      /\ \A m \in Motors : edge[m] = Cap
      /\ Settling \in 0..(2 * Cycle + 4) /\ Cap \in Nat
  BY LagRange, SettlingRange
     DEF HeadInv, PenTime, StayInDelay, Interrupt, Middle, Tick, HalfTick, Cap
<1>2. CASE StayInDelay
  <2>1. DelayStep /\ UNCHANGED <<edge, servoVars>>
    BY <1>2 DEF StayInDelay, motorVars
  <2>2. /\ Untorn' /\ Lag' \in Nat
        /\ wait.at # "starting" => Lag' = Lag
        /\ wait.at = "starting" => Lag' >= Lag - 2
        /\ wait'.at # "out" => wait'.duration = wait.duration
        /\ wait.at # "out"
    BY <1>1, <2>1, LoadsLag
  <2>3. Settling' = Settling /\ attached' = attached
    BY <2>1 DEF servoVars, Settling, Settled, Width, ValueToMicroseconds, Longest
  <2>4. todo = <<>> /\ attached /\ Settling <= Lag /\ wait.duration = Hold
    BY <2>2 DEF PenTime
  <2>5. Settling' <= Lag'
    <3>1. CASE wait.at = "starting"
      <4>1. Lag = 2 * Hold
        BY <2>4, <3>1 DEF Lag
      <4> QED
        BY <1>1, <2>2, <2>3, <3>1, <4>1
    <3>2. CASE wait.at # "starting"
      BY <2>2, <2>3, <2>4, <3>2
    <3> QED
      BY <3>1, <3>2
  <2> QED
    BY <1>1, <2>1, <2>2, <2>3, <2>4, <2>5 DEF PenTime, Cap
<1>3. CASE Interrupt
  <2>1. TimerInterrupt /\ UNCHANGED <<delayVars, edge>>
    BY <1>3 DEF Interrupt, motorVars
  <2>2. attached => /\ attached' /\ Settling' \in Int
                    /\ Settled' \/ Settling' <= Settling
    <3>1. ~TimerRuns => (IF TimerRuns THEN Settling - 1 ELSE Settling) = Settling
      OBVIOUS
    <3>2. TimerRuns => FALSE
      BY <2>1 DEF TimerInterrupt, CompareMatch0, CompareMatch1, TimerRuns
    <3> QED
      BY <1>1, <2>1, <3>1, <3>2, SettlingFalls
  <2>3. Lag' = Lag /\ Untorn' /\ wait' = wait
    BY <2>1 DEF delayVars, Lag, Untorn, Half, Elapsed, Value, Range64, Fresh, Over, Loaded
  <2>4. Settled' => Settling' = 0
    BY DEF Settling
  <2>5. ASSUME attached, Settling <= Lag PROVE Settling' <= Lag'
    <3>1. Settling' <= Settling \/ Settling' = 0
      BY <2>2, <2>4, <2>5
    <3> QED
      BY <1>1, <2>2, <2>3, <2>5, <3>1
  <2> QED
    BY <1>1, <2>1, <2>2, <2>3, <2>5, PenTimeKept
<1>4. CASE Middle \/ Tick
  <2>1. /\ TimerRuns /\ wait' = wait
        /\ edge' = [m \in Motors |-> IF edge[m] < Cap THEN edge[m] + 1 ELSE edge[m]]
    BY <1>4 DEF Middle, Tick, HalfTick, CountTick, Cap
  <2>2. /\ Untorn' /\ Lag' \in Nat
        /\ Lag' = IF wait.at \in {"poll", "polling"} THEN Lag - 1 ELSE Lag
    <3>1. CASE Middle
      BY <1>1, <3>1, MiddleLag DEF Middle, Idle, Awake
    <3>2. CASE Tick
      <4>1. late /\ late' = FALSE /\ CountTick
        BY <3>2 DEF Tick
      <4> QED
        BY <1>1, <4>1, TickLag
    <3> QED
      BY <1>4, <3>1, <3>2
  <2>3. Lag' >= Lag - 1
    BY <1>1, <2>2
  <2>4. attached => /\ attached' /\ Settling' \in Int
                    /\ Settled' \/ Settling' <= Settling - 1
    BY <1>1, <2>1, SettlingFalls
  <2>5. Settled' => Settling' = 0
    BY DEF Settling
  <2>6. ASSUME attached, Settling <= Lag PROVE Settling' <= Lag'
    <3>1. Settling' <= Settling - 1 \/ Settling' = 0
      BY <2>4, <2>5, <2>6
    <3> QED
      BY <1>1, <2>2, <2>3, <2>4, <2>6, <3>1
  <2>7. \A m \in Motors : edge'[m] = Cap
    BY <1>1, <2>1
  <2> QED
    BY <1>1, <2>1, <2>2, <2>4, <2>6, <2>7, PenTimeKept
<1> QED
  BY <1>2, <1>3, <1>4

-----------------------------------------------------------------------------
(* Before anything is written no time has to be kept.                         *)
LEMMA TimeInit == Init => TimeInv
<1> SUFFICES ASSUME Init PROVE TimeInv
  OBVIOUS
<1>1. Untorn /\ wait.at = "out"
  BY DEF Init, DelayInit, Through, Untorn
<1>2. NotRunning
  <2>1. ProgramInv /\ HeadInv
    BY ProgramInit, HeadInit
  <2> SUFFICES ASSUME NEW to \in Turns, NEW n \in 0..MaxRun, NEW k \in 0..(6 * n + 2),
                      Running(to, n, k)
               PROVE  FALSE
    BY <2>1 DEF ProgramInv
  <2>2. to \in Levels /\ n \in Nat
    BY DEF Levels
  <2>3. Head(todo).op \in {"en", "dir", "step", "delay"}
    BY <2>2, RunOps
  <2>4. Head(todo).op = "init"
    BY PenPrograms DEF Init
  <2> QED
    BY <2>3, <2>4
<1>3. PenTime
  BY <1>1 DEF Init, PenTime, Cap
<1> QED
  BY <1>1, <1>2, <1>3 DEF TimeInv

(* A command is only given when the pen has settled.                           *)
LEMMA CommandTime ==
    ASSUME HeadInv, ProgramInv, TimeInv, Command, ~torn
    PROVE  TimeInv'
<1>1. /\ todo = <<>> /\ wait.at = "out" /\ Lag = 0 /\ Rest /\ NotRunning
      /\ UNCHANGED <<delayVars, servoVars, edge>>
  BY CommandKeeps DEF Command, Idle, Awake, HeadInv, Lag
<1>2. Untorn /\ PenTime
  <2> SUFFICES ASSUME NEW to \in Turns, NEW n \in 0..MaxRun, NEW k \in 0..(6 * n + 2),
                      Running(to, n, k)
               PROVE  FALSE
    BY DEF TimeInv
  <2>1. to \in Levels /\ n \in Nat
    BY DEF Levels
  <2> QED
    BY <1>1, <2>1, RunOps
<1>3. attached /\ Settled /\ \A m \in Motors : edge[m] = Cap
  <2>1. attached /\ Settling <= 0
    <3>1. <<>> # <<Wait(Hold)>> /\ \A value \in Pens : <<>> # MovePen(value)
      BY PenPrograms
    <3>2. <<>> # << [op |-> "init"] >> \o MovePen(60)
      BY PenPrograms
    <3> QED
      BY <1>1, <1>2, <3>1, <3>2 DEF PenTime
  <2>2. Settled
    BY <2>1, SettlingRange DEF HeadInv
  <2> QED
    BY <1>2, <2>1, <2>2 DEF PenTime
<1>4. Untorn' /\ wait'.at = "out" /\ Lag' = 0
  BY <1>1, <1>2 DEF delayVars, Lag, Untorn
<1>5. attached' /\ Settled' /\ \A m \in Motors : (edge[m] = Cap)'
  BY <1>1, <1>3 DEF servoVars, Settled, Width, ValueToMicroseconds, Cap
<1>6. CASE NotRunning' /\ \E value \in Pens : todo' = MovePen(value)
  <2>1. PenTime'
    BY <1>4, <1>5, <1>6 DEF PenTime, MovePen, Wait, Pens
  <2> QED
    BY <1>4, <1>6, <2>1 DEF TimeInv
<1>7. ASSUME NEW to \in Turns, NEW n \in 0..MaxRun, Running(to, n, 0)'
      PROVE  TimeInv'
  <2>1. RunTime(to, n, 0)'
    <3>1. Base(0) = Cap /\ Cap \in Nat /\ Cap - 0 = Cap
      BY DEF Base, Cap
    <3>2. \A m \in Motors : (edge[m] >= Base(0) - Lag)'
      BY <1>4, <1>5, <3>1 DEF Base, Cap
    <3> QED
      BY <1>4, <1>5, <3>2 DEF RunTime
  <2>2. 0 \in 0..(6 * n + 2)
    OBVIOUS
  <2> QED
    BY <1>4, <1>5, <1>7, <2>1, <2>2 DEF TimeInv
<1> QED
  BY <1>6, <1>7, CommandKeeps

(* Any other step outside a run ...                                            *)
LEMMA PenStepTime ==
    ASSUME HeadInv, NotRunning, PenTime, Untorn, ~torn, ~torn', [Next]_vars, ~Command
    PROVE  NotRunning' /\ PenTime' /\ Untorn'
<1>1. CASE Main /\ ~StayInDelay
  BY <1>1, PenKeepsTime
<1>2. CASE StayInDelay \/ Interrupt \/ Middle \/ Tick
  <2>1. UNCHANGED <<en, dir, step, due, todo>>
    BY <1>2 DEF StayInDelay, Interrupt, Middle, Tick, HalfTick, motorVars
  <2>2. NotRunning'
    BY <2>1 DEF NotRunning, AtRest
  <2> QED
    BY <1>2, <2>2, PenWaits
<1>3. CASE UNCHANGED vars
  <2>1. UNCHANGED <<en, dir, step, due, todo, edge, delayVars, servoVars>>
    BY <1>3 DEF vars, motorVars
  <2>2. NotRunning'
    BY <2>1 DEF NotRunning, AtRest
  <2>3. /\ Lag' = Lag /\ Untorn' /\ wait' = wait
    BY <2>1 DEF delayVars, Lag, Untorn, Half, Elapsed, Value, Range64, Fresh, Over, Loaded
  <2>4. Settling' = Settling /\ attached' = attached
    BY <2>1 DEF servoVars, Settling, Settled, Width, ValueToMicroseconds, Longest
  <2>5. \A m \in Motors : edge'[m] = Cap
    BY <2>1 DEF PenTime
  <2> QED
    BY <2>1, <2>2, <2>3, <2>4, <2>5, PenTimeKept
<1> QED
  BY <1>1, <1>2, <1>3 DEF Next, Main

(* ... and within one.                                                         *)
LEMMA RunStepTime ==
    ASSUME NEW to \in Turns, NEW n \in 0..MaxRun, NEW k \in 0..(6 * n + 2),
           HeadInv, Running(to, n, k), RunTime(to, n, k), Settled, attached, Untorn,
           ~torn, ~torn', [Next]_vars
    PROVE  TimeInv'
<1>1. to \in Levels /\ n \in Nat /\ todo # <<>>
  <2>1. to \in Levels /\ n \in Nat
    BY DEF Levels
  <2> QED
    BY <2>1, RunOps
<1>2. CASE Main /\ ~StayInDelay
  <2>1. /\ UNCHANGED servoVars /\ Untorn'
        /\ IF k = 6 * n + 2 THEN /\ NotRunning' /\ todo' = <<>> /\ wait'.at = "out"
                                 /\ \A m \in Motors : edge'[m] = Cap
                            ELSE Running(to, n, k + 1)' /\ RunTime(to, n, k + 1)'
    BY <1>1, <1>2, RunKeepsTime
  <2>2. Settled' /\ attached'
    BY <2>1 DEF servoVars, Settled, Width, ValueToMicroseconds
  <2>3. CASE k = 6 * n + 2
    <3>1. Settling' = 0 /\ Lag' = 0
      BY <2>1, <2>2, <2>3 DEF Settling, Lag
    <3>2. Settling' <= Lag'
      BY <3>1
    <3>3. PenTime'
      BY <2>1, <2>2, <2>3, <3>2 DEF PenTime, Cap
    <3> QED
      BY <2>1, <2>3, <3>3 DEF TimeInv
  <2>4. CASE k # 6 * n + 2
    <3>1. k + 1 \in 0..(6 * n + 2)
      BY <2>4
    <3> QED
      BY <2>1, <2>2, <2>4, <3>1 DEF TimeInv
  <2> QED
    BY <2>3, <2>4
<1>3. CASE StayInDelay \/ Interrupt \/ Middle \/ Tick \/ UNCHANGED vars
  <2>1. UNCHANGED <<en, dir, step, due, todo>>
    BY <1>3 DEF StayInDelay, Interrupt, Middle, Tick, HalfTick, vars, motorVars
  <2>2. Running(to, n, k)'
    BY <2>1 DEF Running, Left, AtRest, Turned, RunAt, StepMotors, On, Off, Pins, Wait,
                      Made, Raised
  <2>3. Settled' /\ attached'
    <3>1. CASE UNCHANGED servoVars
      BY <3>1 DEF servoVars, Settled, Width, ValueToMicroseconds
    <3>2. CASE TimerInterrupt \/ TimerRuns
      BY <3>2, SettlingFalls DEF HeadInv
    <3> QED
      BY <1>3, <3>1, <3>2 DEF StayInDelay, Interrupt, Middle, Tick, HalfTick, vars
  <2>4. RunTime(to, n, k)' /\ Untorn'
    <3>1. CASE StayInDelay \/ Middle \/ Tick
      BY <1>1, <3>1, RunWaits
    <3>2. CASE Interrupt \/ UNCHANGED vars
      <4>1. UNCHANGED <<edge, delayVars>>
        BY <3>2 DEF Interrupt, vars, motorVars
      <4>2. Lag' = Lag /\ Untorn' /\ wait' = wait /\ (Fresh' <=> Fresh) /\ late' = late
        BY <4>1 DEF delayVars, Lag, Untorn, Half, Elapsed, Value, Range64, Fresh, Over, Loaded
      <4> QED
        BY <4>1, <4>2 DEF RunTime, Base, Cap
    <3> QED
      BY <1>3, <3>1, <3>2
  <2> QED
    BY <2>2, <2>3, <2>4 DEF TimeInv
<1>4. ~Command
  BY <1>1 DEF Command, Idle
<1> QED
  BY <1>2, <1>3, <1>4 DEF Next, Main

(* Every step keeps the times of the waits, the edges and the servo, until a  *)
(* read is torn.                                                              *)
LEMMA TimeStep == HeadInv /\ ProgramInv /\ TimeInv /\ [Next]_vars => TimeInv'
<1> SUFFICES ASSUME HeadInv, ProgramInv, TimeInv, [Next]_vars, ~torn' PROVE TimeInv'
  BY DEF TimeInv
<1>1. ~torn
  BY DEF Next, Command, Main, StartServo, WriteServo, WriteEnable, WriteDirection, WriteStep,
         BeginDelay, StayInDelay, Interrupt, Middle, Tick, CallDelay, CountTick, DelayStep,
         FirstLoad, SecondLoad, delayVars, vars
<1>2. CASE Command
  BY <1>1, <1>2, CommandTime
<1>3. CASE ~Command /\ NotRunning /\ PenTime
  BY <1>1, <1>3, PenStepTime DEF TimeInv
<1>4. ASSUME NEW to \in Turns, NEW n \in 0..MaxRun, NEW k \in 0..(6 * n + 2),
             Running(to, n, k), RunTime(to, n, k), Settled, attached
      PROVE  TimeInv'
  BY <1>1, <1>4, RunStepTime DEF TimeInv
<1> QED
  BY <1>1, <1>2, <1>3, <1>4 DEF TimeInv

HeadTime == HeadInv /\ ProgramInv /\ TimeInv

(* The three invariants hold together.                                        *)
LEMMA HeadTimeHolds == Spec => []HeadTime
<1>1. Init => HeadTime
  BY HeadInit, ProgramInit, TimeInit DEF HeadTime
<1>2. HeadTime /\ [Next]_vars => HeadTime'
  BY HeadStep, ProgramStep, TimeStep DEF HeadTime
<1> QED
  BY <1>1, <1>2, PTL DEF Spec

(* A step of the motors is an instruction of a run, at its time.               *)
LEMMA EdgesInTime ==
    ASSUME HeadTime, [Next]_vars, NEW m \in Motors, step'[m] # step[m], ~torn
    PROVE  Settled /\ edge[m] >= IF step[m] THEN 2 ELSE Cap
<1>1. WriteStep
  BY DEF Next, Command, Main, StartServo, WriteServo, WriteEnable, WriteDirection,
         BeginDelay, StayInDelay, Interrupt, Middle, Tick, HalfTick, motorVars, vars
<1>2. /\ todo # <<>> /\ Head(todo).op = "step" /\ wait.at = "out" /\ Lag = 0
      /\ step' = Written(Head(todo).levels, step) /\ step \in [Motors -> BOOLEAN]
      /\ edge[m] \in Nat
  BY <1>1 DEF WriteStep, Doing, Awake, HeadTime, HeadInv, Rest, Lag
<1>3. ~NotRunning
  <2>1. todo \in Seq(Instructions) => Head(todo) = todo[1] /\ 1 \in 1..Len(todo)
    BY <1>2
  <2> QED
    BY <1>2, <2>1 DEF NotRunning
<1>4. PICK to \in Turns, n \in 0..MaxRun : \E k \in 0..(6 * n + 2) :
        Running(to, n, k) /\ RunTime(to, n, k) /\ Settled
  BY <1>3 DEF HeadTime, TimeInv
<1>5. PICK k \in 0..(6 * n + 2) : Running(to, n, k) /\ RunTime(to, n, k) /\ Settled
  BY <1>4
<1>6. /\ \A i \in DOMAIN to : Base(k) = IF step[i] THEN 2 ELSE Cap
      /\ DOMAIN Head(todo).levels = DOMAIN to /\ Head(todo).levels \in Levels
  <2>1. to \in Levels /\ n \in Nat
    BY DEF Levels
  <2> QED
    BY <1>2, <1>5, <2>1, RunOps
<1>7. m \in DOMAIN to
  BY <1>2, <1>6, WrittenPins
<1>8. edge[m] >= Base(k) - 0 /\ Base(k) = IF step[m] THEN 2 ELSE Cap
  BY <1>2, <1>5, <1>6, <1>7 DEF RunTime
<1>9. Base(k) \in Nat
  BY DEF Base, Cap
<1> QED
  BY <1>2, <1>5, <1>8, <1>9

(* Until a read of the counter is torn, every pulse of a motor is at least a    *)
(* whole tick wide and starts Speed + 1 whole ticks after the last one ended,   *)
(* although delay alone only waits until its last tick: each call begins where  *)
(* the one before it has left a tick that has just begun.                      *)
THEOREM MotorsInTime == Spec => PulsesWide
<1>1. ASSUME HeadTime, [Next]_vars, NEW m \in Motors, step'[m] # step[m], ~torn
      PROVE  edge[m] >= IF step[m] THEN 2 ELSE 2 * (Speed + 1)
  BY <1>1, EdgesInTime DEF Cap
<1>2. HeadTime /\ [Next]_vars =>
        [\A m \in Motors : step'[m] # step[m] /\ ~torn =>
            edge[m] >= IF step[m] THEN 2 ELSE 2 * (Speed + 1)]_vars
  BY <1>1
<1> QED
  BY <1>2, HeadTimeHolds, PTL DEF Spec, PulsesWide

(* Until then no motor takes a step before the servo has been sent a whole      *)
(* pulse of the last angle written: the pen is never dragged while it moves.   *)
THEOREM PenFirst == Spec => PenSettled
<1>1. ASSUME HeadTime, [Next]_vars, NEW m \in Motors, Rises(m), ~torn
      PROVE  heard = ValueToMicroseconds(angle)
  <2>1. step'[m] # step[m]
    BY <1>1 DEF Rises
  <2> QED
    BY <1>1, <2>1, EdgesInTime DEF Settled, Width
<1>2. HeadTime /\ [Next]_vars =>
        [\A m \in Motors : Rises(m) /\ ~torn => heard = ValueToMicroseconds(angle)]_vars
  BY <1>1
<1> QED
  BY <1>2, HeadTimeHolds, PTL DEF Spec, PenSettled
=============================================================================
