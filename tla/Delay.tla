--------------------------------- MODULE Delay ---------------------------------
(***************************************************************************)
(* Time on the EDU-CIAA: the tick counter of sapi_tick.c and delay of       *)
(* sapi_delay.c.                                                            *)
(*                                                                          *)
(* The counter has twice the width of a register and is not volatile: the   *)
(* SysTick interrupt may come between the two loads of a read, in whichever *)
(* order the build makes them.  The program's own code takes microseconds   *)
(* of a tick of one millisecond: half a tick passes only while it waits.    *)
(***************************************************************************)
EXTENDS Integers

CONSTANTS
    Low, High       \* values of the lower and of the upper half of tickCounter

ASSUME DelayAssumption == Low \in Nat \ {0} /\ High \in Nat \ {0}

VARIABLES
    tickCounter,    \* <<lower half, upper half>>
    late,           \* more than half of the current tick has passed
    wait,           \* the call of delay being executed
    waited,         \* history: ticks since its loop began, up to one too many
    torn            \* history: a tick has changed both halves between two loads

delayVars == <<tickCounter, late, wait, waited, torn>>

Range64 == Low * High
Value(counter) == Low * counter[2] + counter[1]

\* at: what delay does next.  half: which half the first load has read, and what
\* it found.
NoHalf  == <<"none", 0>>
Halves  == {NoHalf} \cup ({"low"} \X (0..(Low - 1))) \cup ({"high"} \X (0..(High - 1)))
Through == [at |-> "out", duration |-> 0, startTime |-> 0, half |-> NoHalf]

DelayInit ==
    /\ tickCounter = <<0, 0>> /\ late \in BOOLEAN
    /\ wait = Through /\ waited = 0 /\ torn = FALSE
-----------------------------------------------------------------------------
\* Mutant of Over: the end of the wait is computed instead of its length.
OverBySum(now) == now >= wait.startTime + wait.duration

\* The condition of the loop of delay, negated; the difference is that of tick_t.
Over(now) == (now - wait.startTime) % Range64 >= wait.duration

Waiting == wait.at \in {"poll", "polling"} /\ ~Over(Value(tickCounter))

\* Mutant of Next64: the upper half does not wrap.
Next64Wider(counter) ==
    IF counter[1] + 1 < Low THEN <<counter[1] + 1, counter[2]>> ELSE <<0, counter[2] + 1>>

Next64(counter) ==
    IF counter[1] + 1 < Low THEN <<counter[1] + 1, counter[2]>>
                            ELSE <<0, (counter[2] + 1) % High>>

\* SysTick_Handler.
CountTick ==
    /\ tickCounter' = Next64(tickCounter)
    /\ waited' = IF wait.at \in {"poll", "polling"} /\ waited <= wait.duration
                 THEN waited + 1 ELSE waited
    /\ torn' = (torn \/ (/\ wait.at \in {"starting", "polling"}
                         /\ tickCounter'[1] = 0))
    /\ UNCHANGED wait

\* delay(n) is called ...
CallDelay(n) ==
    /\ wait.at = "out"
    /\ wait' = [at |-> "start", duration |-> n, startTime |-> 0, half |-> NoHalf]
    /\ waited' = 0
    /\ UNCHANGED <<tickCounter, late, torn>>

\* ... tickRead makes its first load ...
FirstLoad ==
    /\ wait.at \in {"start", "poll"}
    /\ \E i \in 1..2 : wait' =
         [wait EXCEPT !.at = IF @ = "start" THEN "starting" ELSE "polling",
                      !.half = <<IF i = 1 THEN "low" ELSE "high", tickCounter[i]>>]
    /\ UNCHANGED <<tickCounter, late, waited, torn>>

\* What the second load makes of the first.
Loaded == Value(IF wait.half[1] = "low" THEN <<wait.half[2], tickCounter[2]>>
                                        ELSE <<tickCounter[1], wait.half[2]>>)

\* Mutant of SecondLoad: the start of the wait is taken anew in its loop.
SecondLoadAnew ==
    /\ \/ wait.at \in {"starting", "polling"} /\ (wait.at = "polling" => ~Over(Loaded))
          /\ wait' = [wait EXCEPT !.at = "poll", !.startTime = Loaded, !.half = NoHalf]
       \/ wait.at = "polling" /\ Over(Loaded) /\ wait' = Through
    /\ UNCHANGED <<tickCounter, late, waited, torn>>

\* ... and its second, which is the end of the wait or of one turn of its loop.
SecondLoad ==
    /\ \/ wait.at = "starting"
          /\ wait' = [wait EXCEPT !.at = "poll", !.startTime = Loaded, !.half = NoHalf]
       \/ wait.at = "polling" /\ Over(Loaded) /\ wait' = Through
       \/ wait.at = "polling" /\ ~Over(Loaded)
          /\ wait' = [wait EXCEPT !.at = "poll", !.half = NoHalf]
    /\ UNCHANGED <<tickCounter, late, waited, torn>>

DelayStep == FirstLoad \/ SecondLoad
-----------------------------------------------------------------------------
DelayTypeOK ==
    /\ tickCounter \in (0..(Low - 1)) \X (0..(High - 1)) /\ late \in BOOLEAN
    /\ wait \in [at : {"out", "start", "starting", "poll", "polling"}, duration : Nat,
                 startTime : 0..(Range64 - 1), half : Halves]
    /\ waited \in Nat /\ torn \in BOOLEAN

\* Wherever the counter wraps and however its halves are torn, a wait is never
\* longer than its duration: the tick that completes it is the last one it sees.
NeverLate == wait.at \in {"poll", "polling"} => waited <= wait.duration
=============================================================================
