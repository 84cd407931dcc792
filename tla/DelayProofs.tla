------------------------------ MODULE DelayProofs ------------------------------
(***************************************************************************)
(* The arithmetic of delay, for every width of the tick counter: what each  *)
(* step of Delay does to the invariant from which NeverLate follows.        *)
(***************************************************************************)
EXTENDS Delay, TLAPS

USE DelayAssumption

(* A difference modulo R of two numbers below R is off by R or not at all.    *)
LEMMA ModDifference ==
    \A R \in Nat \ {0} : \A a, b \in 0..(R - 1) :
        (a - b) % R = IF a >= b THEN a - b ELSE a - b + R
OBVIOUS

(* A tick lengthens the time since startTime by one, also when the counter    *)
(* wraps.                                                                     *)
LEMMA DifferenceGrows ==
    \A R \in Nat \ {0} : \A a, b \in 0..(R - 1) :
        ((a - b) % R) + 1 < R =>
            ((IF a = R - 1 THEN 0 ELSE a + 1) - b) % R = ((a - b) % R) + 1
<1> SUFFICES ASSUME NEW R \in Nat \ {0}, NEW a \in 0..(R - 1), NEW b \in 0..(R - 1),
                    ((a - b) % R) + 1 < R
             PROVE  ((IF a = R - 1 THEN 0 ELSE a + 1) - b) % R = ((a - b) % R) + 1
  OBVIOUS
<1>1. (a - b) % R = IF a >= b THEN a - b ELSE a - b + R
  BY ModDifference
<1>2. CASE a = R - 1
  BY <1>1, <1>2, ModDifference
<1>3. CASE a # R - 1
  <2>1. a + 1 \in 0..(R - 1)
    BY <1>3
  <2>2. ((a + 1) - b) % R = IF a + 1 >= b THEN (a + 1) - b ELSE (a + 1) - b + R
    BY <2>1, ModDifference
  <2> QED
    BY <1>1, <1>3, <2>1, <2>2
<1> QED
  BY <1>2, <1>3

(* A product grows with its factor.                                            *)
LEMMA Multiples == \A c, a, b \in Nat : a <= b => c * a <= c * b
OBVIOUS

(* The value of two halves is a number of the width of both.                  *)
LEMMA ValueRange ==
    ASSUME NEW c \in (0..(Low - 1)) \X (0..(High - 1))
    PROVE  Value(c) \in 0..(Range64 - 1) /\ Range64 \in Nat \ {0} /\ Range64 >= Low
<1>1. c[1] \in 0..(Low - 1) /\ c[2] \in 0..(High - 1)
  OBVIOUS
<1>2. Low * c[2] <= Low * (High - 1)
  BY <1>1, Multiples
<1>3. Low * (High - 1) = Low * High - Low /\ Low * 1 <= Low * High
  BY Multiples
<1>4. Low * c[2] \in Nat /\ Low * High \in Nat
  BY <1>1
<1> QED
  BY <1>1, <1>2, <1>3, <1>4 DEF Value, Range64

(* A tick adds one to the counter, and only the highest value wraps.          *)
LEMMA TickAdds ==
    ASSUME NEW c \in (0..(Low - 1)) \X (0..(High - 1))
    PROVE  /\ Next64(c) \in (0..(Low - 1)) \X (0..(High - 1))
           /\ Value(Next64(c)) = IF Value(c) = Range64 - 1 THEN 0 ELSE Value(c) + 1
<1>1. c[1] \in 0..(Low - 1) /\ c[2] \in 0..(High - 1)
  OBVIOUS
<1>2. /\ Value(c) \in 0..(Range64 - 1) /\ Value(c) = Low * c[2] + c[1]
      /\ Range64 = Low * High /\ Low * c[2] \in Nat /\ Low * High \in Nat
  BY <1>1, ValueRange DEF Value, Range64
<1>3. Low * (High - 1) = Low * High - Low
  OBVIOUS
<1>4. CASE c[1] + 1 < Low
  <2>1. Next64(c) = <<c[1] + 1, c[2]>>
    BY <1>4 DEF Next64
  <2>2. Value(Next64(c)) = Low * c[2] + (c[1] + 1)
    BY <2>1 DEF Value
  <2>3. Low * c[2] <= Low * (High - 1)
    BY <1>1, Multiples
  <2> QED
    BY <1>1, <1>2, <1>3, <1>4, <2>1, <2>2, <2>3
<1>5. CASE c[1] = Low - 1 /\ c[2] + 1 < High
  <2>1. (c[2] + 1) % High = c[2] + 1
    BY <1>1, <1>5
  <2>2. Next64(c) = <<0, c[2] + 1>>
    BY <1>5, <2>1 DEF Next64
  <2>3. Value(Next64(c)) = Low * (c[2] + 1)
    BY <1>1, <2>2 DEF Value
  <2>4. Low * (c[2] + 1) = Low * c[2] + Low
    BY <1>1
  <2>5. Low * (c[2] + 1) <= Low * (High - 1)
    BY <1>1, <1>5, Multiples
  <2> QED
    BY <1>1, <1>2, <1>3, <1>5, <2>2, <2>3, <2>4, <2>5
<1>6. CASE c[1] = Low - 1 /\ c[2] = High - 1
  <2>1. (c[2] + 1) % High = 0
    BY <1>1, <1>6
  <2>2. Next64(c) = <<0, 0>>
    BY <1>6, <2>1 DEF Next64
  <2>3. Value(Next64(c)) = 0
    BY <1>1, <2>2 DEF Value
  <2> QED
    BY <1>1, <1>2, <1>3, <1>6, <2>2, <2>3
<1> QED
  BY <1>1, <1>4, <1>5, <1>6

-----------------------------------------------------------------------------
(* NeverLate, strengthened.  The ticks that a loop has seen are no more than    *)
(* the difference it computes, and in the second half of a tick that difference *)
(* is short of the duration: only a loop that goes on sees the middle of a      *)
(* tick, and a first load made after it has not been torn yet.                  *)
Elapsed == (Value(tickCounter) - wait.startTime) % Range64

Fresh ==
    \/ wait.half[1] = "low" /\ wait.half[2] = tickCounter[1]
    \/ wait.half[1] = "high" /\ wait.half[2] = tickCounter[2]

DelayInv ==
    /\ DelayTypeOK
    /\ wait.at # "out" => wait.duration \in 1..(Low - 1)
    /\ wait.at \in {"start", "starting"} => waited = 0
    /\ wait.at \in {"starting", "polling"} => wait.half # NoHalf
    /\ wait.at = "starting" /\ late => Fresh
    /\ wait.at \in {"poll", "polling"} =>
          /\ waited <= wait.duration /\ waited <= Elapsed
          /\ late => Elapsed < wait.duration

(* What two loads make is a value of the counter, its present one when no tick  *)
(* has come between them.                                                       *)
LEMMA LoadedValue ==
    ASSUME DelayTypeOK, wait.half # NoHalf
    PROVE  Loaded \in 0..(Range64 - 1) /\ (Fresh => Loaded = Value(tickCounter))
<1>1. tickCounter[1] \in 0..(Low - 1) /\ tickCounter[2] \in 0..(High - 1)
  BY DEF DelayTypeOK
<1>2. CASE wait.half[1] = "low" /\ wait.half[2] \in 0..(Low - 1)
  <2>1. /\ Loaded = Value(<<wait.half[2], tickCounter[2]>>)
        /\ <<wait.half[2], tickCounter[2]>> \in (0..(Low - 1)) \X (0..(High - 1))
    BY <1>1, <1>2 DEF Loaded
  <2>2. Fresh => wait.half[2] = tickCounter[1]
    BY <1>2 DEF Fresh
  <2> QED
    BY <2>1, <2>2, ValueRange DEF Value
<1>3. CASE wait.half[1] = "high" /\ wait.half[2] \in 0..(High - 1)
  <2>1. /\ Loaded = Value(<<tickCounter[1], wait.half[2]>>)
        /\ <<tickCounter[1], wait.half[2]>> \in (0..(Low - 1)) \X (0..(High - 1))
    BY <1>1, <1>3 DEF Loaded
  <2>2. Fresh => wait.half[2] = tickCounter[2]
    BY <1>3 DEF Fresh
  <2> QED
    BY <2>1, <2>2, ValueRange DEF Value
<1>4. wait.half \in ({"low"} \X (0..(Low - 1))) \cup ({"high"} \X (0..(High - 1)))
  BY DEF DelayTypeOK, Halves
<1> QED
  BY <1>2, <1>3, <1>4

(* What delay compares with its duration lies within the range of the         *)
(* counter.                                                                   *)
LEMMA ElapsedRange ==
    ASSUME DelayTypeOK
    PROVE  /\ Value(tickCounter) \in 0..(Range64 - 1) /\ wait.startTime \in 0..(Range64 - 1)
           /\ Range64 \in Nat /\ Range64 >= Low
           /\ Elapsed \in 0..(Range64 - 1)
           /\ wait.startTime = Value(tickCounter) => Elapsed = 0
<1>1. /\ Value(tickCounter) \in 0..(Range64 - 1) /\ wait.startTime \in 0..(Range64 - 1)
      /\ Range64 \in Nat \ {0} /\ Range64 >= Low
  BY ValueRange DEF DelayTypeOK
<1> QED
  BY <1>1, ModDifference DEF Elapsed

(* Nobody waits when the program begins.                                      *)
LEMMA DelayStarts == DelayInit => DelayInv
<1> SUFFICES ASSUME DelayInit PROVE DelayInv
  OBVIOUS
<1>1. DelayTypeOK
  <2>1. tickCounter \in (0..(Low - 1)) \X (0..(High - 1))
    BY DEF DelayInit
  <2>2. 0 \in 0..(Range64 - 1)
    BY <2>1, ValueRange
  <2> QED
    BY <2>1, <2>2 DEF DelayInit, DelayTypeOK, Through, Halves
<1> QED
  BY <1>1 DEF DelayInit, DelayInv, Through

(* A tick comes in the second half of one: a loop that sees it has not waited   *)
(* its duration before, so that the difference grows by one and does not wrap.  *)
LEMMA TickKeeps ==
    ASSUME DelayInv, late, late' = FALSE, CountTick
    PROVE  DelayInv'
<1>1. DelayTypeOK
  BY DEF DelayInv
<1>2. /\ tickCounter' = Next64(tickCounter) /\ wait' = wait
      /\ tickCounter \in (0..(Low - 1)) \X (0..(High - 1))
  BY <1>1 DEF CountTick, DelayTypeOK
<1>3. /\ tickCounter' \in (0..(Low - 1)) \X (0..(High - 1))
      /\ Value(tickCounter)' = IF Value(tickCounter) = Range64 - 1 THEN 0
                                                      ELSE Value(tickCounter) + 1
  BY <1>2, TickAdds DEF Value, Range64
<1>4. DelayTypeOK'
  <2>1. waited' \in Nat /\ torn' \in BOOLEAN
    BY <1>1 DEF CountTick, DelayTypeOK
  <2> QED
    BY <1>1, <1>2, <1>3, <2>1 DEF DelayTypeOK, Range64, Halves
<1>5. CASE wait.at \in {"poll", "polling"}
  <2>1. /\ waited <= wait.duration /\ waited <= Elapsed /\ Elapsed < wait.duration
        /\ wait.duration \in 1..(Low - 1) /\ waited \in Nat
    BY <1>5 DEF DelayInv, DelayTypeOK
  <2>2. waited' = waited + 1
    BY <1>5, <2>1 DEF CountTick
  <2>3. Elapsed' = (Value(tickCounter)' - wait.startTime) % Range64
    BY <1>2 DEF Elapsed, Range64
  <2>4. Elapsed' = Elapsed + 1
    <3>1. /\ Value(tickCounter) \in 0..(Range64 - 1) /\ wait.startTime \in 0..(Range64 - 1)
          /\ Range64 \in Nat \ {0} /\ Elapsed + 1 < Range64
      BY <1>1, <2>1, ElapsedRange
    <3> QED
      BY <1>3, <2>3, <3>1, DifferenceGrows DEF Elapsed
  <2> QED
    BY <1>1, <1>2, <1>4, <1>5, <2>1, <2>2, <2>4, ElapsedRange DEF DelayInv, Fresh
<1>6. CASE wait.at \notin {"poll", "polling"}
  <2>1. waited' = waited
    BY <1>6 DEF CountTick
  <2> QED
    BY <1>2, <1>4, <1>6, <2>1 DEF DelayInv
<1> QED
  BY <1>5, <1>6

(* The middle of a tick finds main in no wait, or in a loop that goes on.       *)
LEMMA MiddleKeeps ==
    ASSUME DelayInv, wait.at = "out" \/ Waiting, late' = TRUE,
           UNCHANGED <<tickCounter, wait, waited, torn>>
    PROVE  DelayInv'
<1>1. DelayTypeOK /\ DelayTypeOK'
  BY DEF DelayInv, DelayTypeOK, Range64, Halves
<1>2. Elapsed' = Elapsed
  BY DEF Elapsed, Value, Range64
<1>3. Waiting => wait.at \in {"poll", "polling"} /\ Elapsed < wait.duration
  <2>1. wait.duration \in Nat /\ Elapsed \in Nat
    BY <1>1, ElapsedRange DEF DelayTypeOK
  <2> QED
    BY <2>1 DEF Waiting, Over, Elapsed
<1> QED
  BY <1>1, <1>2, <1>3 DEF DelayInv, Fresh

(* A call of delay begins with nothing waited.                                *)
LEMMA CallKeeps ==
    ASSUME DelayInv, NEW n \in 1..(Low - 1), CallDelay(n)
    PROVE  DelayInv'
<1>1. /\ wait' = [at |-> "start", duration |-> n, startTime |-> 0, half |-> NoHalf]
      /\ waited' = 0 /\ UNCHANGED <<tickCounter, late, torn>> /\ DelayTypeOK
  BY DEF CallDelay, DelayInv
<1>2. 0 \in 0..(Range64 - 1) /\ n \in Nat
  BY <1>1, ElapsedRange
<1> QED
  BY <1>1, <1>2 DEF DelayInv, DelayTypeOK, Halves, Range64

(* The loads of tickRead, torn or not: the start of a wait read in the second   *)
(* half of a tick is that of the counter.                                      *)
LEMMA LoadsKeep == DelayInv /\ DelayStep => DelayInv'
<1> SUFFICES ASSUME DelayInv, DelayStep PROVE DelayInv'
  OBVIOUS
<1>1. DelayTypeOK /\ UNCHANGED <<tickCounter, late, waited, torn>>
  BY DEF DelayInv, DelayStep, FirstLoad, SecondLoad
<1>2. /\ tickCounter[1] \in 0..(Low - 1) /\ tickCounter[2] \in 0..(High - 1)
      /\ waited \in Nat
  BY <1>1 DEF DelayTypeOK
<1>3. CASE FirstLoad
  <2>1. PICK j \in 1..2 : wait' =
         [wait EXCEPT !.at = IF @ = "start" THEN "starting" ELSE "polling",
                      !.half = <<IF j = 1 THEN "low" ELSE "high", tickCounter[j]>>]
    BY <1>3 DEF FirstLoad
  <2>2. /\ \/ wait.at = "start" /\ wait'.at = "starting"
           \/ wait.at = "poll" /\ wait'.at = "polling"
        /\ wait'.duration = wait.duration /\ wait'.startTime = wait.startTime
        /\ wait'.half = <<IF j = 1 THEN "low" ELSE "high", tickCounter[j]>>
    BY <1>1, <1>3, <2>1 DEF FirstLoad, DelayTypeOK
  <2>3. DelayTypeOK' /\ wait'.half # NoHalf /\ Fresh'
    <3>1. wait'.half \in Halves /\ wait'.half # NoHalf /\ Fresh'
      BY <1>1, <1>2, <2>2 DEF Halves, NoHalf, Fresh
    <3>2. wait' \in [at : {"out", "start", "starting", "poll", "polling"}, duration : Nat,
                     startTime : 0..(Range64 - 1), half : Halves]
      BY <1>1, <2>1, <2>2, <3>1 DEF DelayTypeOK
    <3> QED
      BY <1>1, <3>1, <3>2 DEF DelayTypeOK, Range64, Halves
  <2>4. Elapsed' = Elapsed
    BY <1>1, <2>2 DEF Elapsed, Value, Range64
  <2> QED
    BY <1>1, <2>2, <2>3, <2>4 DEF DelayInv
<1>4. CASE SecondLoad /\ wait.at = "starting"
  <2>1. wait' = [wait EXCEPT !.at = "poll", !.startTime = Loaded, !.half = NoHalf]
    BY <1>4 DEF SecondLoad
  <2>2. /\ wait'.at = "poll" /\ wait'.startTime = Loaded /\ wait'.duration = wait.duration
        /\ wait.half # NoHalf /\ waited = 0 /\ wait.duration \in 1..(Low - 1)
    BY <1>1, <1>4, <2>1 DEF DelayInv, DelayTypeOK
  <2>3. Loaded \in 0..(Range64 - 1)
    BY <1>1, <2>2, LoadedValue
  <2>4. DelayTypeOK'
    BY <1>1, <2>1, <2>3 DEF DelayTypeOK, Range64, Halves
  <2>5. Elapsed' = (Value(tickCounter) - Loaded) % Range64
    BY <1>1, <2>2 DEF Elapsed, Value, Range64
  <2>6. Elapsed' \in 0..(Range64 - 1) /\ (late => Elapsed' = 0)
    <3>1. late => Loaded = Value(tickCounter)
      BY <1>1, <1>4, <2>2, LoadedValue DEF DelayInv
    <3>2. Range64 \in Nat \ {0} /\ Value(tickCounter) \in 0..(Range64 - 1)
      BY <1>1, ElapsedRange
    <3> QED
      BY <2>3, <2>5, <3>1, <3>2, ModDifference
  <2> QED
    BY <1>1, <2>2, <2>4, <2>6 DEF DelayInv
<1>5. CASE SecondLoad /\ wait.at = "polling" /\ wait' = Through
  <2>1. 0 \in 0..(Range64 - 1)
    BY <1>1, ElapsedRange
  <2> QED
    BY <1>1, <1>5, <2>1 DEF DelayInv, DelayTypeOK, Through, Halves, Range64
<1>6. CASE SecondLoad /\ wait.at = "polling"
             /\ wait' = [wait EXCEPT !.at = "poll", !.half = NoHalf]
  <2>1. /\ wait'.at = "poll" /\ wait'.startTime = wait.startTime
        /\ wait'.duration = wait.duration
    BY <1>1, <1>6 DEF DelayTypeOK
  <2>2. DelayTypeOK'
    BY <1>1, <1>6 DEF DelayTypeOK, Range64, Halves
  <2>3. Elapsed' = Elapsed
    BY <1>1, <2>1 DEF Elapsed, Value, Range64
  <2> QED
    BY <1>1, <1>6, <2>1, <2>2, <2>3 DEF DelayInv
<1> QED
  BY <1>3, <1>4, <1>5, <1>6 DEF DelayStep, SecondLoad

-----------------------------------------------------------------------------
(* How long a wait lasts.  As long as no tick has changed both halves between two *)
(* loads, a late first load was of the lower half and is one tick old at most when *)
(* the wait starts, and a wait only ends with its whole duration counted.  Lag is *)
(* the half ticks it has still to last.                                        *)

Untorn ==
    /\ wait.at = "starting" =>
          Fresh \/ (~late /\ wait.half[1] = "low" /\ wait.half[2] + 1 = tickCounter[1])
    /\ wait.at = "polling" => Fresh \/ (wait.half[1] = "low" /\ ~Over(Loaded))
    /\ wait.at \in {"poll", "polling"} => Elapsed <= wait.duration

Half == IF late THEN 1 ELSE 0
Lag  == IF wait.at = "out" THEN 0
        ELSE IF wait.at \in {"start", "starting"} THEN 2 * wait.duration
        ELSE 2 * (wait.duration - Elapsed) - Half

(* What the loop compares is the difference.                                   *)
LEMMA OverElapsed ==
    ASSUME DelayTypeOK
    PROVE  /\ Over(Value(tickCounter)) <=> Elapsed >= wait.duration
           /\ wait.duration \in Nat /\ Elapsed \in Nat
BY ElapsedRange DEF Over, Elapsed, DelayTypeOK

(* A wait is never over before its last tick has ended.                        *)
LEMMA LagRange == DelayInv /\ Untorn => Lag \in Nat
<1> SUFFICES ASSUME DelayInv, Untorn PROVE Lag \in Nat
  OBVIOUS
<1>1. wait.duration \in Nat /\ Elapsed \in Nat /\ Half \in {0, 1}
  BY OverElapsed DEF DelayInv, Half
<1>2. ASSUME wait.at \in {"poll", "polling"} PROVE Lag \in Nat
  <2>1. Elapsed <= wait.duration /\ (late => Elapsed < wait.duration)
    BY <1>2 DEF DelayInv, Untorn
  <2>2. Lag = 2 * (wait.duration - Elapsed) - Half
    BY <1>2 DEF Lag
  <2>3. CASE late
    <3>1. Half = 1 /\ Elapsed < wait.duration
      BY <2>1, <2>3 DEF Half
    <3> QED
      BY <1>1, <2>2, <3>1
  <2>4. CASE ~late
    <3>1. Half = 0 /\ Elapsed <= wait.duration
      BY <2>1, <2>4 DEF Half
    <3> QED
      BY <1>1, <2>2, <3>1
  <2> QED
    BY <2>3, <2>4
<1>3. ASSUME wait.at \notin {"poll", "polling"} PROVE Lag \in Nat
  <2>1. Lag = 0 \/ Lag = 2 * wait.duration
    BY <1>3 DEF Lag, DelayInv, DelayTypeOK
  <2> QED
    BY <1>1, <2>1
<1> QED
  BY <1>2, <1>3

(* The end of a tick.                                                          *)
LEMMA TickLag ==
    ASSUME DelayInv, Untorn, late, late' = FALSE, CountTick, ~torn'
    PROVE  /\ Untorn' /\ Lag' \in Nat
           /\ Lag' = IF wait.at \in {"poll", "polling"} THEN Lag - 1 ELSE Lag
<1>1. /\ DelayTypeOK /\ wait' = wait /\ tickCounter' = Next64(tickCounter)
      /\ tickCounter \in (0..(Low - 1)) \X (0..(High - 1))
      /\ wait.at \in {"starting", "polling"} => tickCounter'[1] # 0
  BY DEF DelayInv, CountTick, DelayTypeOK
<1>2. /\ tickCounter' \in (0..(Low - 1)) \X (0..(High - 1))
      /\ Value(tickCounter') = IF Value(tickCounter) = Range64 - 1 THEN 0
                                                      ELSE Value(tickCounter) + 1
  BY <1>1, TickAdds
<1>3. wait.at \in {"starting", "polling"} =>
        tickCounter'[1] = tickCounter[1] + 1 /\ tickCounter'[2] = tickCounter[2]
  BY <1>1 DEF Next64
<1>4. wait.at \in {"poll", "polling"} =>
        /\ Elapsed < wait.duration /\ Elapsed' = Elapsed + 1
        /\ wait.duration \in Nat /\ Elapsed \in Nat
  <2> SUFFICES ASSUME wait.at \in {"poll", "polling"}
               PROVE  /\ Elapsed < wait.duration /\ Elapsed' = Elapsed + 1
                      /\ wait.duration \in Nat /\ Elapsed \in Nat
    OBVIOUS
  <2>1. Elapsed < wait.duration /\ wait.duration \in 1..(Low - 1)
    BY DEF DelayInv
  <2>2. /\ Value(tickCounter) \in 0..(Range64 - 1) /\ wait.startTime \in 0..(Range64 - 1)
        /\ Range64 \in Nat /\ Range64 >= Low /\ Elapsed \in 0..(Range64 - 1)
    BY <1>1, ElapsedRange
  <2>3. Elapsed' = (Value(tickCounter') - wait.startTime) % Range64
    BY <1>1 DEF Elapsed, Range64, Value
  <2>4. Elapsed + 1 < Range64 /\ Range64 \in Nat \ {0}
    BY <2>1, <2>2
  <2>5. Elapsed' = Elapsed + 1
    <3>1. Elapsed = (Value(tickCounter) - wait.startTime) % Range64
      BY DEF Elapsed
    <3>2. ((IF Value(tickCounter) = Range64 - 1 THEN 0 ELSE Value(tickCounter) + 1)
              - wait.startTime) % Range64 = ((Value(tickCounter) - wait.startTime) % Range64) + 1
      BY <2>2, <2>4, <3>1, DifferenceGrows
    <3> QED
      BY <1>2, <2>3, <3>1, <3>2
  <2> QED
    BY <2>1, <2>2, <2>5
<1>5. ASSUME wait.at = "starting"
      PROVE  (Fresh \/ (~late /\ wait.half[1] = "low" /\ wait.half[2] + 1 = tickCounter[1]))'
  <2>1. Fresh
    BY <1>5 DEF Untorn
  <2> QED
    BY <1>1, <1>3, <1>5, <2>1 DEF Fresh
<1>6. ASSUME wait.at = "polling"
      PROVE  (Fresh \/ (wait.half[1] = "low" /\ ~Over(Loaded)))'
  <2>1. CASE wait.half[1] = "high" /\ wait.half[2] = tickCounter[2]
    BY <1>1, <1>3, <1>6, <2>1 DEF Fresh
  <2>2. CASE wait.half[1] = "low"
    <3>1. ~Over(Loaded)
      <4>1. CASE wait.half[2] = tickCounter[1]
        <5>1. Loaded = Value(tickCounter)
          BY <2>2, <4>1 DEF Loaded, Value
        <5> QED
          BY <1>1, <1>4, <1>6, <5>1, OverElapsed
      <4> QED
        BY <1>6, <2>2, <4>1 DEF Untorn, Fresh
    <3>2. Loaded' = Loaded
      BY <1>1, <1>3, <1>6, <2>2 DEF Loaded, Value
    <3>3. Over(Loaded)' <=> Over(Loaded)
      BY <1>1, <3>2 DEF Over, Range64
    <3> QED
      BY <1>1, <2>2, <3>1, <3>3
  <2>3. wait.half[1] = "low" \/ (wait.half[1] = "high" /\ wait.half[2] = tickCounter[2])
    BY <1>6 DEF Untorn, Fresh
  <2> QED
    BY <2>1, <2>2, <2>3
<1>7. Untorn'
  <2>1. wait.at \in {"poll", "polling"} => Elapsed' <= wait.duration
    BY <1>4
  <2> QED
    BY <1>1, <1>5, <1>6, <2>1 DEF Untorn
<1>8. /\ Lag' = IF wait.at \in {"poll", "polling"} THEN Lag - 1 ELSE Lag
      /\ Lag' \in Nat
  <2>1. CASE wait.at \in {"poll", "polling"}
    <3>1. Half = 1 /\ Half' = 0
      BY DEF Half
    <3>2. /\ Lag = 2 * (wait.duration - Elapsed) - Half
          /\ Lag' = 2 * (wait.duration - Elapsed') - Half'
      BY <1>1, <2>1 DEF Lag
    <3> QED
      BY <1>4, <2>1, <3>1, <3>2
  <2>2. CASE wait.at \notin {"poll", "polling"}
    <3>1. Lag' = Lag
      BY <1>1, <2>2 DEF Lag, DelayTypeOK
    <3> QED
      BY <2>2, <3>1, LagRange
  <2> QED
    BY <2>1, <2>2
<1> QED
  BY <1>7, <1>8

(* The middle of a tick.                                                       *)
LEMMA MiddleLag ==
    ASSUME DelayInv, Untorn, ~late, wait.at = "out" \/ Waiting, late' = TRUE,
           UNCHANGED <<tickCounter, wait, waited, torn>>
    PROVE  /\ Untorn' /\ Lag' \in Nat
           /\ Lag' = IF wait.at \in {"poll", "polling"} THEN Lag - 1 ELSE Lag
<1>1. /\ DelayTypeOK /\ Elapsed' = Elapsed /\ (Over(Loaded)' <=> Over(Loaded))
      /\ (Fresh' <=> Fresh) /\ wait.at \in {"out", "poll", "polling"}
  BY DEF DelayInv, Elapsed, Over, Loaded, Value, Range64, Fresh, Waiting
<1>2. Untorn'
  BY <1>1 DEF Untorn
<1>3. Half = 0 /\ Half' = 1 /\ wait.duration \in Nat /\ Elapsed \in Nat
  BY <1>1, OverElapsed DEF Half
<1>4. CASE wait.at = "out"
  <2>1. Lag = 0 /\ Lag' = 0
    BY <1>4 DEF Lag
  <2> QED
    BY <1>2, <1>4, <2>1, LagRange
<1>5. CASE wait.at \in {"poll", "polling"}
  <2>1. /\ Lag = 2 * (wait.duration - Elapsed) - Half
        /\ Lag' = 2 * (wait.duration - Elapsed) - Half'
    BY <1>1, <1>5 DEF Lag
  <2>3. Elapsed < wait.duration
    <3>1. ~(Elapsed >= wait.duration)
      BY <1>1, <1>5, OverElapsed DEF Waiting
    <3> QED
      BY <1>3, <3>1
  <2>2. Lag' = Lag - 1 /\ Lag' \in Nat
    BY <1>3, <2>1, <2>3
  <2> QED
    BY <1>2, <1>5, <2>2
<1> QED
  BY <1>1, <1>4, <1>5

(* A wait begins.                                                              *)
LEMMA CallLag ==
    ASSUME NEW n \in Nat, CallDelay(n)
    PROVE  Untorn' /\ Lag' = 2 * n
BY DEF CallDelay, Untorn, Lag

(* The loads: only the one that starts the loop may find a tick to be over       *)
(* already, and only the wait's last tick ends it.                              *)
LEMMA LoadsLag ==
    ASSUME DelayInv, Untorn, DelayStep
    PROVE  /\ Untorn' /\ Lag' \in Nat
           /\ wait.at # "starting" \/ (Fresh /\ ~late) => Lag' = Lag
           /\ wait.at = "starting" => Lag' >= Lag - 2
           /\ wait'.at = "starting" => Fresh'
           /\ wait'.at # "out" => wait'.duration = wait.duration
           /\ wait'.at = "out" => ~late
           /\ wait.at = "starting" => wait'.at = "poll"
           /\ wait.at = "start" => wait'.at = "starting"
           /\ wait.at # "start" => wait'.at # "starting"
           /\ wait'.at # "start" /\ wait.at # "out"
<1>1. /\ DelayTypeOK /\ UNCHANGED <<tickCounter, late, waited, torn>>
      /\ wait.duration \in Nat /\ Elapsed \in Nat /\ Lag \in Nat
  BY OverElapsed, LagRange DEF DelayInv, DelayStep, FirstLoad, SecondLoad
<1>2. CASE FirstLoad
  <2>1. PICK j \in 1..2 : wait' =
         [wait EXCEPT !.at = IF @ = "start" THEN "starting" ELSE "polling",
                      !.half = <<IF j = 1 THEN "low" ELSE "high", tickCounter[j]>>]
    BY <1>2 DEF FirstLoad
  <2>2. /\ \/ wait.at = "start" /\ wait'.at = "starting"
           \/ wait.at = "poll" /\ wait'.at = "polling"
        /\ wait'.duration = wait.duration /\ wait'.startTime = wait.startTime
        /\ wait'.half = <<IF j = 1 THEN "low" ELSE "high", tickCounter[j]>>
    BY <1>1, <1>2, <2>1 DEF FirstLoad, DelayTypeOK
  <2>3. Fresh'
    BY <1>1, <2>2 DEF Fresh
  <2>4. Elapsed' = Elapsed
    BY <1>1, <2>2 DEF Elapsed, Value, Range64
  <2>5. Lag' = Lag
    BY <1>1, <2>2, <2>4 DEF Lag, Half
  <2>6. Untorn'
    BY <2>2, <2>3, <2>4 DEF Untorn
  <2> QED
    BY <1>1, <2>2, <2>3, <2>5, <2>6
<1>3. CASE SecondLoad /\ wait.at = "starting"
  <2>1. wait' = [wait EXCEPT !.at = "poll", !.startTime = Loaded, !.half = NoHalf]
    BY <1>3 DEF SecondLoad
  <2>2. /\ wait'.at = "poll" /\ wait'.startTime = Loaded /\ wait'.duration = wait.duration
        /\ wait.half # NoHalf /\ wait.duration \in 1..(Low - 1)
    BY <1>1, <1>3, <2>1 DEF DelayInv, DelayTypeOK
  <2>3. /\ Loaded \in 0..(Range64 - 1) /\ Value(tickCounter) \in 0..(Range64 - 1)
        /\ Range64 \in Nat \ {0}
    BY <1>1, <2>2, LoadedValue, ElapsedRange
  <2>4. Elapsed' = (Value(tickCounter) - Loaded) % Range64
    BY <1>1, <2>2 DEF Elapsed, Value, Range64
  <2>5. ASSUME Fresh PROVE Elapsed' = 0
    <3>1. Loaded = Value(tickCounter)
      BY <1>1, <2>2, <2>5, LoadedValue
    <3> QED
      BY <2>3, <2>4, <3>1, ModDifference
  <2>6. ASSUME ~Fresh PROVE Elapsed' = 1 /\ ~late
    <3>1. ~late /\ wait.half[1] = "low" /\ wait.half[2] + 1 = tickCounter[1]
      BY <1>3, <2>6 DEF Untorn
    <3>2. Loaded = Low * tickCounter[2] + wait.half[2]
      BY <3>1 DEF Loaded, Value
    <3>3. Value(tickCounter) = Low * tickCounter[2] + tickCounter[1]
      BY DEF Value
    <3>4. tickCounter[1] \in Nat /\ tickCounter[2] \in Nat /\ Low * tickCounter[2] \in Nat
          /\ wait.half[2] \in Nat
      <4>1. tickCounter[1] \in 0..(Low - 1) /\ tickCounter[2] \in 0..(High - 1)
        BY <1>1 DEF DelayTypeOK
      <4>2. wait.half \in {"low"} \X (0..(Low - 1))
        BY <1>1, <2>2, <3>1 DEF DelayTypeOK, Halves
      <4> QED
        BY <4>1, <4>2
    <3>5. Value(tickCounter) = Loaded + 1
      BY <3>1, <3>2, <3>3, <3>4
    <3> QED
      BY <2>3, <2>4, <3>1, <3>5, ModDifference
  <2>7. /\ Lag = 2 * wait.duration
        /\ Lag' = 2 * (wait.duration - Elapsed') - Half
    BY <1>1, <1>3, <2>2 DEF Lag, Half
  <2>8. Untorn'
    BY <2>2, <2>5, <2>6 DEF Untorn
  <2>9. /\ Fresh /\ ~late => Lag' = Lag
        /\ Lag' >= Lag - 2 /\ Lag' \in Nat
    <3>1. CASE Fresh
      <4>1. Elapsed' = 0 /\ Half \in {0, 1} /\ (~late => Half = 0)
        BY <2>5, <3>1 DEF Half
      <4> QED
        BY <1>1, <2>2, <2>7, <4>1
    <3>2. CASE ~Fresh
      <4>1. Elapsed' = 1 /\ Half = 0
        BY <2>6, <3>2 DEF Half
      <4> QED
        BY <1>1, <2>2, <2>7, <3>2, <4>1
    <3> QED
      BY <3>1, <3>2
  <2> QED
    BY <1>3, <2>2, <2>8, <2>9
<1>4. CASE SecondLoad /\ wait.at = "polling" /\ Over(Loaded) /\ wait' = Through
  <2>1. Fresh
    BY <1>4 DEF Untorn
  <2>2. Loaded = Value(tickCounter)
    BY <1>1, <1>4, <2>1, LoadedValue DEF DelayInv
  <2>3. Elapsed >= wait.duration /\ Elapsed <= wait.duration
    BY <1>1, <1>4, <2>2, OverElapsed DEF Untorn
  <2>4. ~late
    <3>1. late => Elapsed < wait.duration
      BY <1>4 DEF DelayInv
    <3> QED
      BY <1>1, <2>3, <3>1
  <2>5. Half = 0 /\ Lag = 2 * (wait.duration - Elapsed) - Half /\ Lag' = 0
    BY <1>4, <2>4 DEF Half, Lag, Through
  <2>6. Lag' = Lag
    BY <1>1, <2>3, <2>5
  <2>7. wait'.at = "out"
    BY <1>4 DEF Through
  <2> QED
    BY <1>1, <1>4, <2>4, <2>6, <2>7 DEF Untorn
<1>5. CASE SecondLoad /\ wait.at = "polling"
             /\ wait' = [wait EXCEPT !.at = "poll", !.half = NoHalf]
  <2>1. /\ wait'.at = "poll" /\ wait'.startTime = wait.startTime
        /\ wait'.duration = wait.duration
    BY <1>1, <1>5 DEF DelayTypeOK
  <2>2. Elapsed' = Elapsed
    BY <1>1, <2>1 DEF Elapsed, Value, Range64
  <2>3. Lag' = Lag
    BY <1>1, <1>5, <2>1, <2>2 DEF Lag, Half
  <2>4. Untorn'
    BY <1>5, <2>1, <2>2 DEF Untorn
  <2> QED
    BY <1>1, <1>5, <2>1, <2>3, <2>4
<1> QED
  BY <1>2, <1>3, <1>4, <1>5 DEF DelayStep, SecondLoad
=============================================================================
