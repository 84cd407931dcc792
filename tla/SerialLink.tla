------------------------------- MODULE SerialLink -------------------------------
(***************************************************************************)
(* The serial line from the ESP32 to the EDU-CIAA and the receiver of       *)
(* PruebaMotores.c, byte by byte.  The ESP32 writes a command as the frame  *)
(*     '.' '*' payload '*' '.'                                              *)
(* without ever waiting for the robot; the UART moves the bytes into a      *)
(* hardware FIFO; conectAPP polls that FIFO from the main loop with a       *)
(* uartReadByte that does not wait, and reads nothing while it draws.       *)
(*                                                                          *)
(* A byte is named by its place in the stream, 1..Len(written), so that a   *)
(* copy of it is recognised wherever it is.                                 *)
(***************************************************************************)
EXTENDS Integers, Sequences

CONSTANTS
    FifoSize,       \* bytes the UART holds: 16 on the LPC4337
    BufferSize,     \* BUFFER_SIZE: 50
    PayloadSizes,   \* bytes of a payload: 2 for "JT", "JL", "DC"; 5 for "JDO02"
    MaxFrames       \* bound: commands written in a behaviour

ASSUME LinkAssumption ==
    /\ FifoSize \in Nat \ {0}
    /\ BufferSize \in Nat \ {0, 1}
    /\ PayloadSizes \subseteq Nat \ {0}
    /\ MaxFrames \in Nat

VARIABLES
    written,    \* the characters the ESP32 has written, since reset
    frames,     \* what it meant by them: where each frame starts, its size
    arrived,    \* how many of them have reached the EDU-CIAA
    fifo,       \* the UART's FIFO: places in the stream, oldest first
    overrun,    \* whether the UART has ever dropped a byte
    pc,         \* where conectAPP is
    buffer,     \* the places of the bytes copied into buffer[]
    zeros,      \* the places of buffer[] where receiveString has put a zero
    executed    \* the payloads acted upon, in order

lineVars == <<written, frames>>
ciaaVars == <<pc, buffer, zeros, executed>>
vars     == <<written, frames, arrived, fifo, overrun, pc, buffer, zeros, executed>>

Chars == {".", "*", "p"}            \* "p" is any character of a payload

Frame(size) == [i \in 1..(size + 4) |-> CASE i \in {1, size + 4} -> "."
                                          [] i \in {2, size + 3} -> "*"
                                          [] OTHER -> "p"]

\* The places of the payload of a frame that starts at place f.first.
Payload(f) == [i \in 1..f.size |-> f.first + 1 + i]

Init ==
    /\ written = <<>> /\ frames = <<>>
    /\ arrived = 0 /\ fifo = <<>> /\ overrun = FALSE
    /\ pc = "idle" /\ buffer = <<>> /\ zeros = {} /\ executed = <<>>
-----------------------------------------------------------------------------
(* The ESP32 and the UART.                                                   *)

\* enviarDibujo, enviarJuego, enviarDibujoTablero: one Serial.print per command.
Send ==
    /\ Len(frames) < MaxFrames
    /\ \E size \in PayloadSizes :
         /\ written' = written \o Frame(size)
         /\ frames' = Append(frames, [first |-> Len(written) + 1, size |-> size])
    /\ UNCHANGED <<arrived, fifo, overrun, ciaaVars>>

\* Mutant of Arrive: the FIFO takes a byte more than it holds.
ArriveOneMore ==
    /\ arrived < Len(written)
    /\ arrived' = arrived + 1
    /\ IF Len(fifo) <= FifoSize
       THEN fifo' = Append(fifo, arrived + 1) /\ UNCHANGED overrun
       ELSE overrun' = TRUE /\ UNCHANGED fifo
    /\ UNCHANGED <<lineVars, ciaaVars>>

\* A byte reaches the FIFO, or is dropped when the FIFO is full.
Arrive ==
    /\ arrived < Len(written)
    /\ arrived' = arrived + 1
    /\ IF Len(fifo) < FifoSize
       THEN fifo' = Append(fifo, arrived + 1) /\ UNCHANGED overrun
       ELSE overrun' = TRUE /\ UNCHANGED fifo
    /\ UNCHANGED <<lineVars, ciaaVars>>
-----------------------------------------------------------------------------
(* conectAPP and receiveString, one uartReadByte per action.                 *)

Got(c) == fifo # <<>> /\ written[Head(fifo)] = c    \* uartReadByte yields c
Consume == fifo' = Tail(fifo)
FromMain == UNCHANGED <<lineVars, arrived, overrun>>

\* Mutant of Poll: the buffer keeps what the last command left in it.
PollNoReset ==
    /\ pc = "idle" /\ fifo # <<>>
    /\ Consume
    /\ pc' = IF Got(".") THEN "star" ELSE "skip"
    /\ UNCHANGED <<buffer, zeros, executed>> /\ FromMain

\* The first byte of conectAPP: a period opens a frame, anything else is noise.
Poll ==
    /\ pc = "idle" /\ fifo # <<>>
    /\ Consume
    /\ pc' = IF Got(".") THEN "star" ELSE "skip"
    /\ buffer' = <<>> /\ zeros' = {}
    /\ UNCHANGED executed /\ FromMain

\* Mutant of Skip: with no byte there, the loop goes on waiting for a period.
SkipWaiting ==
    /\ pc = "skip" /\ fifo # <<>>
    /\ Consume /\ pc' = IF Got(".") THEN "star" ELSE "skip"
    /\ UNCHANGED <<buffer, zeros, executed>> /\ FromMain

\* The loop that discards bytes up to a period, left as soon as none is there.
Skip ==
    /\ pc = "skip"
    /\ IF fifo = <<>>
       THEN pc' = "idle" /\ UNCHANGED fifo
       ELSE Consume /\ pc' = IF Got(".") THEN "star" ELSE "skip"
    /\ UNCHANGED <<buffer, zeros, executed>> /\ FromMain

\* The first read of receiveString.  Without a '*' the function ends without a
\* return value: the caller may go back to the main loop, or take the cleared
\* buffer for a command, which only blinks the leds.
Star ==
    /\ pc = "star"
    /\ IF Got("*") THEN pc' = "collect" ELSE pc' \in {"idle", "busy"}
    /\ IF fifo = <<>> THEN UNCHANGED fifo ELSE Consume
    /\ UNCHANGED <<buffer, zeros, executed>> /\ FromMain

\* The zeros of the end of receiveString: one after the n bytes, and a second one
\* two places before it when the bytes are taken for a frame.
Terminate(n) == zeros' = {n} \cup IF pc' = "busy" THEN {n - 2} ELSE {}

\* Mutants of Evaluate: the "*." at the end of the bytes is not checked; commands
\* of two characters are taken for empty ones.
EvaluateUnchecked(buf) ==
    LET n == Len(buf) IN
    /\ IF n > 2
       THEN executed' = Append(executed, SubSeq(buf, 1, n - 2)) /\ pc' = "busy"
       ELSE pc' \in {"idle", "busy"} /\ UNCHANGED executed
    /\ Terminate(n)

EvaluateTooShort(buf) ==
    LET n == Len(buf) IN
    /\ IF n > 4 /\ written[buf[n]] = "." /\ written[buf[n - 1]] = "*"
       THEN executed' = Append(executed, SubSeq(buf, 1, n - 2)) /\ pc' = "busy"
       ELSE pc' \in {"idle", "busy"} /\ UNCHANGED executed
    /\ Terminate(n)

\* The end of receiveString on the bytes buf: a payload when they end in "*.".
\* With none, or with a lone period, the test reads the stack before buffer[]:
\* whatever it finds there, what is left in buffer[] is no command, but when it
\* finds "*." the second zero goes before buffer[] too.  A frame that holds no
\* command (an empty one too) only blinks the leds.
Evaluate(buf) ==
    LET n     == Len(buf)
        ends  == n >= 2 /\ written[buf[n]] = "." /\ written[buf[n - 1]] = "*"
        stack == n = 0 \/ (n = 1 /\ written[buf[n]] = ".")
    IN  /\ IF ends /\ n > 2
           THEN executed' = Append(executed, SubSeq(buf, 1, n - 2)) /\ pc' = "busy"
           ELSE /\ pc' \in {"idle", "busy"}
                /\ ends => pc' = "busy"
                /\ ~ends /\ ~stack => pc' = "idle"
                /\ UNCHANGED executed
        /\ Terminate(n)

\* Mutant of Collect: the buffer is filled to its last byte, which leaves the
\* zero no room.
CollectOneMore ==
    /\ pc = "collect"
    /\ \/ /\ fifo = <<>>
          /\ Evaluate(buffer) /\ UNCHANGED <<fifo, buffer>>
       \/ /\ fifo # <<>> /\ Len(buffer) >= BufferSize
          /\ Consume
          /\ Evaluate(buffer) /\ UNCHANGED buffer
       \/ /\ fifo # <<>> /\ Len(buffer) < BufferSize
          /\ Consume
          /\ buffer' = Append(buffer, Head(fifo))
          /\ IF Got(".") THEN Evaluate(buffer') ELSE UNCHANGED <<pc, zeros, executed>>
    /\ FromMain

\* The copying loop: it ends when no byte is there, when the buffer is full (the
\* byte just read is lost) or with the period.
Collect ==
    /\ pc = "collect"
    /\ \/ /\ fifo = <<>>
          /\ Evaluate(buffer) /\ UNCHANGED <<fifo, buffer>>
       \/ /\ fifo # <<>> /\ Len(buffer) >= BufferSize - 1
          /\ Consume
          /\ Evaluate(buffer) /\ UNCHANGED buffer
       \/ /\ fifo # <<>> /\ Len(buffer) < BufferSize - 1
          /\ Consume
          /\ buffer' = Append(buffer, Head(fifo))
          /\ IF Got(".") THEN Evaluate(buffer') ELSE UNCHANGED <<pc, zeros, executed>>
    /\ FromMain

\* The command has been carried out (a drawing takes minutes) and answered.
Finish ==
    /\ pc = "busy"
    /\ pc' = "idle"
    /\ UNCHANGED <<fifo, buffer, zeros, executed>> /\ FromMain

Receive == Poll \/ Skip \/ Star \/ Collect \/ Finish

Next == Send \/ Arrive \/ Receive

Spec == Init /\ [][Next]_vars

\* The UART delivers what is on the line and the main loop never stops.
FairSpec == Spec /\ WF_vars(Arrive) /\ WF_vars(Receive)
-----------------------------------------------------------------------------
TypeOK ==
    /\ written \in Seq(Chars)
    /\ frames \in Seq([first : Nat, size : PayloadSizes])
    /\ arrived \in 0..Len(written)
    /\ fifo \in Seq(Nat) /\ Len(fifo) <= FifoSize
    /\ overrun \in BOOLEAN
    /\ pc \in {"idle", "skip", "star", "collect", "busy"}
    /\ buffer \in Seq(Nat)
    /\ zeros \in SUBSET Int
    /\ executed \in Seq(Seq(Nat))

\* receiveString writes its bytes at buffer[0 .. indice-1], a zero at buffer[indice]
\* and, for a frame, another at buffer[indice-2].  None of them is ever at or past
\* buffer[BUFFER_SIZE], frames run together by lost periods included; and the only
\* ones before buffer[0] are those of a read that found nothing, or a lone period,
\* after ".*" while the stack below buffer[] happened to end in "*.".
Starved == buffer = <<>> \/ (Len(buffer) = 1 /\ written[buffer[1]] = ".")

BufferInBounds ==
    /\ Len(buffer) <= BufferSize - 1
    /\ \A z \in zeros : z < BufferSize /\ (z < 0 => Starved /\ z >= -2)

Increasing(s) == \A i, j \in 1..Len(s) : i < j => s[i] < s[j]
Before(s, t)  == \A i \in 1..Len(s), j \in 1..Len(t) : s[i] < t[j]

\* No byte is used twice and none overtakes another: the commands executed, the
\* one being copied and what waits in the FIFO are in the order of the line.
NoReplay ==
    /\ Increasing(fifo)
    /\ \A i \in 1..Len(executed) : Increasing(executed[i])
    /\ \A j \in 1..Len(executed) : Before(executed[j], fifo)
    /\ \A i, j \in 1..Len(executed) : i < j => Before(executed[i], executed[j])

\* While the UART has dropped nothing, whatever the receiver executes is exactly
\* the payload of one command of the ESP32: frames may be lost, when the poll
\* falls in the middle of one, but never cut, merged or made up.
Intact ==
    ~overrun => \A i \in 1..Len(executed) :
                   \E k \in 1..Len(frames) : executed[i] = Payload(frames[k])

\* The line is the one module CommandLine describes: read as places in the list
\* of commands sent, what is executed grows by one later command at a time, so
\* that no command is made up, cut, repeated or overtaken, until a byte is dropped.
Place(payload) ==
    LET places == {k \in 1..Len(frames) : payload = Payload(frames[k])}
    IN  IF places = {} THEN 0 ELSE CHOOSE k \in places : TRUE

Line == INSTANCE CommandLine WITH
    Commands <- PayloadSizes,
    sent     <- [k \in 1..Len(frames) |-> frames[k].size],
    done     <- IF overrun THEN <<>> ELSE [i \in 1..Len(executed) |-> Place(executed[i])],
    whole    <- ~overrun

CommandsInOrder == Line!Spec

\* Frame k is at the head of the FIFO, complete, and the receiver will poll next;
\* frame k has been executed.
Ready(k) ==
    /\ pc = "idle"
    /\ k <= Len(frames)
    /\ LET f == frames[k] IN
         /\ Len(fifo) >= f.size + 4
         /\ \A i \in 1..(f.size + 4) : fifo[i] = f.first + i - 1

Executed(k) ==
    k <= Len(frames) /\ \E i \in 1..Len(executed) : executed[i] = Payload(frames[k])

\* A frame that is complete at the head of the FIFO when the main loop polls is
\* executed, whatever arrives, is dropped or is sent in the meantime.
WholeFrameExecuted ==
    \A k \in 1..MaxFrames : Ready(k) ~> Executed(k)

\* No burst wedges the receiver: once the ESP32 falls silent, everything is read
\* and the receiver stays in the main loop, ready for a clean frame.
Settles ==
    Len(frames) = MaxFrames ~>
        [](arrived = Len(written) /\ fifo = <<>> /\ pc = "idle")
=============================================================================
