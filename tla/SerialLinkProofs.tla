--------------------------- MODULE SerialLinkProofs ---------------------------
(***************************************************************************)
(* What holds of the serial receiver for every size of the FIFO, of the     *)
(* buffer and of the payloads, and for any number of commands: its safety   *)
(* invariants, and that it implements CommandLine.                          *)
(***************************************************************************)
EXTENDS SerialLink, SequenceTheorems, TLAPS

USE LinkAssumption

(* A frame is a sequence of characters: four of framing and its payload.     *)
LEMMA FrameShape ==
    ASSUME NEW size \in PayloadSizes
    PROVE  Frame(size) \in Seq(Chars) /\ Len(Frame(size)) = size + 4
BY DEF Frame, Chars

(* Where the characters of the line are after a command has been written.    *)
LEMMA Appended ==
    ASSUME TypeOK, NEW size \in PayloadSizes
    PROVE  LET w == written \o Frame(size) IN
           /\ w \in Seq(Chars)
           /\ Len(w) = Len(written) + size + 4
           /\ \A i \in 1..Len(written) : w[i] = written[i]
           /\ \A i \in 1..(size + 4) : w[Len(written) + i] = Frame(size)[i]
<1>1. /\ written \in Seq(Chars) /\ Len(written) \in Nat
      /\ Frame(size) \in Seq(Chars) /\ Len(Frame(size)) = size + 4
      /\ size \in Nat
  BY FrameShape, LenProperties DEF TypeOK
<1> HIDE DEF Frame
<1> DEFINE w == written \o Frame(size)
<1>2. /\ w \in Seq(Chars)
      /\ Len(w) = Len(written) + Len(Frame(size))
      /\ \A i \in 1..(Len(written) + Len(Frame(size))) :
            w[i] = IF i <= Len(written) THEN written[i]
                                        ELSE Frame(size)[i - Len(written)]
  BY <1>1, ConcatProperties
<1> HIDE DEF w
<1>3. \A i \in 1..(size + 4) : w[Len(written) + i] = Frame(size)[i]
  <2> TAKE i \in 1..(size + 4)
  <2> DEFINE p == Len(written) + i
  <2>1. /\ p \in 1..(Len(written) + Len(Frame(size)))
        /\ ~(p <= Len(written))
        /\ p - Len(written) = i
    BY <1>1
  <2> HIDE DEF p
  <2>2. w[p] = Frame(size)[p - Len(written)]
    BY <1>2, <2>1
  <2> QED
    BY <2>1, <2>2 DEF p
<1>4. \A i \in 1..Len(written) : w[i] = written[i]
  BY <1>1, <1>2
<1> QED
  BY <1>1, <1>2, <1>3, <1>4 DEF w

(* What uartReadByte takes from a FIFO that is not empty, and what it leaves. *)
LEMMA Consumed ==
    ASSUME NEW f \in Seq(Nat), f # <<>>
    PROVE  /\ Head(f) \in Nat /\ Head(f) = f[1] /\ Len(f) >= 1
           /\ Tail(f) \in Seq(Nat) /\ Len(Tail(f)) = Len(f) - 1
           /\ \A i \in 1..(Len(f) - 1) : Tail(f)[i] = f[i + 1]
BY HeadTailProperties, EmptySeq, LenProperties

(* The FIFO keeps its type when a byte is taken from it or nothing happens.   *)
LEMMA ConsumeType ==
    ASSUME TypeOK, fifo' = fifo \/ (fifo # <<>> /\ fifo' = Tail(fifo))
    PROVE  fifo' \in Seq(Nat) /\ Len(fifo') <= FifoSize
<1>1. CASE fifo' = fifo
  BY <1>1 DEF TypeOK
<1>2. CASE fifo # <<>> /\ fifo' = Tail(fifo)
  <2>1. fifo \in Seq(Nat) /\ Len(fifo) \in Nat /\ Len(fifo) <= FifoSize
    BY LenProperties DEF TypeOK
  <2> QED
    BY <1>2, <2>1, Consumed
<1> QED
  BY <1>1, <1>2

-----------------------------------------------------------------------------
(* Type correctness: initially, then one step per action.                    *)
LEMMA TypeInit == Init => TypeOK
<1> SUFFICES ASSUME Init PROVE TypeOK
  OBVIOUS
<1>1. \A S : <<>> \in Seq(S) /\ Len(<<>>) = 0
  BY EmptySeq
<1>2. written \in Seq(Chars) /\ frames \in Seq([first : Nat, size : PayloadSizes])
  BY <1>1 DEF Init
<1>3. fifo \in Seq(Nat) /\ buffer \in Seq(Nat) /\ executed \in Seq(Seq(Nat))
  BY <1>1 DEF Init
<1>4. arrived \in 0..Len(written) /\ Len(fifo) <= FifoSize
  BY <1>1 DEF Init
<1> QED
  BY <1>2, <1>3, <1>4 DEF Init, TypeOK

(* The types are kept by the line, the UART and each read of the receiver.    *)
LEMMA TypeStep == TypeOK /\ [Next]_vars => TypeOK'
<1> SUFFICES ASSUME TypeOK, [Next]_vars PROVE TypeOK'
  OBVIOUS
<1>1. CASE Send
  <2>1. PICK size \in PayloadSizes :
           /\ written' = written \o Frame(size)
           /\ frames' = Append(frames, [first |-> Len(written) + 1, size |-> size])
    BY <1>1 DEF Send
  <2>2. written' \in Seq(Chars) /\ Len(written') = Len(written) + size + 4
    BY <2>1, Appended
  <2>3. frames' \in Seq([first : Nat, size : PayloadSizes])
    BY <2>1 DEF TypeOK
  <2> QED
    BY <1>1, <2>2, <2>3 DEF Send, TypeOK, ciaaVars
<1>2. CASE Arrive
  <2>1. arrived' \in 0..Len(written)
    BY <1>2, LenProperties DEF Arrive, TypeOK
  <2>2. fifo' \in Seq(Nat) /\ Len(fifo') <= FifoSize
    <3>1. fifo \in Seq(Nat) /\ Len(fifo) \in Nat /\ arrived + 1 \in Nat
      BY <2>1, LenProperties DEF TypeOK
    <3>2. CASE Len(fifo) < FifoSize
      <4>1. fifo' = Append(fifo, arrived + 1)
        BY <1>2, <3>2 DEF Arrive
      <4>2. fifo' \in Seq(Nat) /\ Len(fifo') = Len(fifo) + 1
        BY <3>1, <4>1, AppendProperties
      <4> QED
        BY <3>1, <3>2, <4>2
    <3>3. CASE ~(Len(fifo) < FifoSize)
      BY <1>2, <3>3 DEF Arrive, TypeOK
    <3> QED
      BY <3>2, <3>3
  <2> QED
    BY <1>2, <2>1, <2>2 DEF Arrive, TypeOK, lineVars, ciaaVars
<1>3. CASE Poll
  <2>1. fifo' \in Seq(Nat) /\ Len(fifo') <= FifoSize
    BY <1>3, ConsumeType DEF Poll, Consume
  <2> QED
    BY <1>3, <2>1 DEF Poll, FromMain, TypeOK, lineVars
<1>4. CASE Skip
  <2>1. fifo' \in Seq(Nat) /\ Len(fifo') <= FifoSize
    BY <1>4, ConsumeType DEF Skip, Consume
  <2> QED
    BY <1>4, <2>1 DEF Skip, FromMain, TypeOK, lineVars
<1>5. CASE Star
  <2>1. fifo' \in Seq(Nat) /\ Len(fifo') <= FifoSize
    BY <1>5, ConsumeType DEF Star, Consume
  <2> QED
    BY <1>5, <2>1 DEF Star, FromMain, TypeOK, lineVars
<1>6. CASE Collect
  <2>1. fifo' \in Seq(Nat) /\ Len(fifo') <= FifoSize
    BY <1>6, ConsumeType DEF Collect, Consume
  <2>2. buffer' \in Seq(Nat)
    <3>1. buffer' = buffer \/ (fifo # <<>> /\ buffer' = Append(buffer, Head(fifo)))
      BY <1>6 DEF Collect
    <3>2. fifo \in Seq(Nat) /\ buffer \in Seq(Nat)
      BY DEF TypeOK
    <3>3. fifo # <<>> => Head(fifo) \in Nat
      BY <3>2, Consumed
    <3>4. ASSUME fifo # <<>> PROVE Append(buffer, Head(fifo)) \in Seq(Nat)
      BY <3>2, <3>3, <3>4, AppendProperties
    <3> QED
      BY <3>1, <3>2, <3>4
  <2>3. pc' \in {"idle", "collect", "busy"}
    <3>1. Evaluate(buffer) => pc' \in {"idle", "busy"}
      BY DEF Evaluate
    <3>2. Evaluate(buffer') => pc' \in {"idle", "busy"}
      BY DEF Evaluate
    <3> QED
      BY <1>6, <3>1, <3>2 DEF Collect
  <2>4. executed' \in Seq(Seq(Nat))
    <3>1. CASE UNCHANGED executed
      BY <3>1 DEF TypeOK
    <3>2. CASE \E buf \in {buffer, buffer'} :
                  executed' = Append(executed, SubSeq(buf, 1, Len(buf) - 2))
      <4>1. PICK buf \in {buffer, buffer'} :
                  executed' = Append(executed, SubSeq(buf, 1, Len(buf) - 2))
        BY <3>2
      <4>2. buf \in Seq(Nat) /\ Len(buf) \in Nat
        BY <2>2, LenProperties DEF TypeOK
      <4>3. SubSeq(buf, 1, Len(buf) - 2) \in Seq(Nat)
        BY <4>2, SubSeqProperties, ElementOfSeq
      <4> QED
        BY <4>1, <4>3, AppendProperties DEF TypeOK
    <3> QED
      BY <1>6, <3>1, <3>2 DEF Collect, Evaluate
  <2>5. zeros' \in SUBSET Int
    <3>1. Len(buffer) \in Nat /\ Len(buffer') \in Nat
      BY <2>2, LenProperties DEF TypeOK
    <3>2. \A n \in Nat : Terminate(n) => zeros' \in SUBSET Int
      BY DEF Terminate
    <3> QED
      BY <1>6, <3>1, <3>2 DEF Collect, Evaluate, TypeOK
  <2> QED
    BY <1>6, <2>1, <2>2, <2>3, <2>4, <2>5 DEF Collect, FromMain, TypeOK, lineVars
<1>7. CASE Finish
  BY <1>7 DEF Finish, FromMain, TypeOK, lineVars
<1>8. CASE UNCHANGED vars
  BY <1>8 DEF vars, TypeOK
<1> QED
  BY <1>1, <1>2, <1>3, <1>4, <1>5, <1>6, <1>7, <1>8 DEF Next, Receive

(* The variables keep their types; in particular the FIFO never holds more    *)
(* than FifoSize bytes.                                                      *)
THEOREM TypeCorrect == Spec => []TypeOK
BY TypeInit, TypeStep, PTL DEF Spec
-----------------------------------------------------------------------------
(* The zeros that end a read of the bytes buf: none at or past BufferSize, and *)
(* one before buffer[0] only for no byte or a lone period.                    *)
LEMMA ZerosOf ==
    ASSUME TypeOK, NEW buf \in Seq(Nat), Len(buf) <= BufferSize - 1, Evaluate(buf)
    PROVE  \A z \in zeros' :
              /\ z < BufferSize
              /\ z < 0 => /\ z >= -2
                          /\ buf = <<>> \/ (Len(buf) = 1 /\ written[buf[1]] = ".")
<1>1. Len(buf) \in Nat /\ (Len(buf) = 0 => buf = <<>>) /\ BufferSize \in Nat
  BY LenProperties, EmptySeq, LinkAssumption
<1>2. zeros' \subseteq {Len(buf), Len(buf) - 2}
  BY DEF Evaluate, Terminate
<1>3. ASSUME NEW z \in zeros', z < 0
      PROVE  z = Len(buf) - 2 /\ pc' = "busy" /\ Len(buf) < 2
  BY <1>1, <1>3 DEF Evaluate, Terminate
<1>4. ASSUME pc' = "busy", Len(buf) < 2
      PROVE  Len(buf) = 0 \/ (Len(buf) = 1 /\ written[buf[1]] = ".")
  BY <1>1, <1>4 DEF Evaluate
<1> QED
  BY <1>1, <1>2, <1>3, <1>4

(* BufferInBounds, strengthened with where the bytes in the FIFO and in the    *)
(* buffer come from, and with a read that writes its zeros at its end only.   *)
Landed(s) == \A i \in 1..Len(s) : s[i] \in 1..arrived

BoundInv ==
    /\ BufferInBounds
    /\ Landed(fifo) /\ Landed(buffer)
    /\ pc \in {"skip", "star", "collect"} => zeros = {}

(* Nothing has been received at first.                                        *)
LEMMA BoundInit == Init => BoundInv
BY EmptySeq, LinkAssumption DEF Init, BoundInv, BufferInBounds, Landed

(* The bytes in the FIFO have arrived, whatever a step does to it.            *)
LEMMA LandedStep == TypeOK /\ Landed(fifo) /\ [Next]_vars => Landed(fifo)'
<1> SUFFICES ASSUME TypeOK, Landed(fifo), [Next]_vars PROVE Landed(fifo)'
  OBVIOUS
<1>1. fifo \in Seq(Nat) /\ Len(fifo) \in Nat /\ arrived \in Nat
  BY LenProperties DEF TypeOK
<1>2. CASE fifo' = fifo /\ arrived' = arrived
  BY <1>2 DEF Landed
<1>3. CASE fifo # <<>> /\ fifo' = Tail(fifo) /\ arrived' = arrived
  BY <1>1, <1>3, Consumed DEF Landed
<1>4. CASE Arrive
  <2>1. CASE fifo' = Append(fifo, arrived + 1)
    BY <1>1, <1>4, <2>1, AppendProperties DEF Arrive, Landed
  <2>2. CASE fifo' = fifo
    BY <1>1, <1>4, <2>2 DEF Arrive, Landed
  <2> QED
    BY <1>4, <2>1, <2>2 DEF Arrive
<1> QED
  BY <1>2, <1>3, <1>4 DEF Next, Receive, Send, Poll, Skip, Star, Collect, Finish,
                          Consume, FromMain, vars

(* A read fills the buffer while it is shorter than BufferSize - 1, and then   *)
(* ends it.                                                                   *)
LEMMA CollectBounds == TypeOK /\ BoundInv /\ Collect => BoundInv'
<1> SUFFICES ASSUME TypeOK, BoundInv, Collect PROVE BoundInv'
  OBVIOUS
<1>1. /\ buffer \in Seq(Nat) /\ Len(buffer) \in Nat /\ BufferSize \in Nat
      /\ written' = written /\ arrived' = arrived /\ arrived \in Nat
      /\ fifo \in Seq(Nat) /\ Len(fifo) \in Nat
  BY LenProperties, LinkAssumption DEF TypeOK, Collect, FromMain, lineVars
<1>2. Landed(fifo)'
  BY LandedStep DEF BoundInv, Next, Receive
<1>3. buffer' \in Seq(Nat) /\ Landed(buffer)' /\ Len(buffer') <= BufferSize - 1
  <2>1. CASE buffer' = buffer
    BY <1>1, <2>1 DEF BoundInv, BufferInBounds, Landed
  <2>2. CASE /\ fifo # <<>> /\ Len(buffer) < BufferSize - 1
             /\ buffer' = Append(buffer, Head(fifo))
    <3>1. Head(fifo) \in Nat /\ Head(fifo) \in 1..arrived
      BY <1>1, <2>2, Consumed DEF BoundInv, Landed
    <3> QED
      BY <1>1, <2>2, <3>1, AppendProperties DEF BoundInv, Landed
  <2> QED
    BY <2>1, <2>2 DEF Collect
<1>4. CASE UNCHANGED <<pc, zeros, executed>>
  BY <1>2, <1>3, <1>4 DEF BoundInv, BufferInBounds, Collect
<1>5. ASSUME NEW buf \in {buffer, buffer'}, buf = buffer', Evaluate(buf)
      PROVE  BoundInv'
  <2>1. \A z \in zeros' :
           /\ z < BufferSize
           /\ z < 0 => /\ z >= -2
                       /\ buf = <<>> \/ (Len(buf) = 1 /\ written[buf[1]] = ".")
    BY <1>3, <1>5, ZerosOf
  <2>2. BufferInBounds'
    BY <1>1, <1>3, <1>5, <2>1 DEF BufferInBounds, Starved
  <2>3. pc' \in {"idle", "busy"}
    BY <1>5 DEF Evaluate
  <2> QED
    BY <1>2, <1>3, <2>2, <2>3 DEF BoundInv
<1>6. (Evaluate(buffer) /\ buffer' = buffer) \/ Evaluate(buffer')
        \/ UNCHANGED <<pc, zeros, executed>>
  BY DEF Collect
<1> QED
  BY <1>4, <1>5, <1>6

(* The other steps leave the buffer, or clear it.                             *)
LEMMA BoundStep == TypeOK /\ BoundInv /\ [Next]_vars => BoundInv'
<1> SUFFICES ASSUME TypeOK, BoundInv, [Next]_vars PROVE BoundInv'
  OBVIOUS
<1>1. Landed(fifo)'
  BY LandedStep DEF BoundInv
<1>2. CASE Collect
  BY <1>2, CollectBounds
<1>3. CASE Poll
  BY <1>1, <1>3, EmptySeq, LinkAssumption DEF Poll, BoundInv, BufferInBounds, Landed
<1>4. CASE Skip \/ Star \/ Finish \/ UNCHANGED vars
  <2>1. UNCHANGED <<buffer, zeros, written, arrived>>
    BY <1>4 DEF Skip, Star, Finish, FromMain, lineVars, vars
  <2>2. BufferInBounds' /\ Landed(buffer)'
    BY <2>1 DEF BoundInv, BufferInBounds, Starved, Landed
  <2>3. pc' \in {"skip", "star", "collect"} => pc \in {"skip", "star", "collect"}
    BY <1>4 DEF Skip, Star, Finish, vars
  <2> QED
    BY <1>1, <2>1, <2>2, <2>3 DEF BoundInv
<1>5. CASE Arrive
  <2>1. UNCHANGED <<pc, buffer, zeros, written>> /\ arrived' = arrived + 1
    BY <1>5 DEF Arrive, ciaaVars, lineVars
  <2>2. arrived \in Nat
    BY LenProperties DEF TypeOK
  <2>3. BufferInBounds' /\ Landed(buffer)'
    BY <2>1, <2>2 DEF BoundInv, BufferInBounds, Starved, Landed
  <2> QED
    BY <1>1, <2>1, <2>3 DEF BoundInv
<1>6. CASE Send
  <2>1. UNCHANGED <<pc, buffer, zeros, arrived>>
    BY <1>6 DEF Send, ciaaVars
  <2>2. PICK size \in PayloadSizes : written' = written \o Frame(size)
    BY <1>6 DEF Send
  <2>3. \A i \in 1..Len(written) : written'[i] = written[i]
    BY <2>2, Appended
  <2>4. Starved' = Starved
    <3>1. Len(buffer) = 1 => buffer[1] \in 1..Len(written)
      BY LenProperties DEF BoundInv, Landed, TypeOK
    <3> QED
      BY <2>1, <2>3, <3>1 DEF Starved
  <2>5. BufferInBounds' /\ Landed(buffer)'
    BY <2>1, <2>4 DEF BoundInv, BufferInBounds, Landed
  <2> QED
    BY <1>1, <2>1, <2>5 DEF BoundInv
<1> QED
  BY <1>2, <1>3, <1>4, <1>5, <1>6 DEF Next, Receive

(* Whatever the line carries and however many bytes the UART drops,           *)
(* receiveString writes nothing at or past buffer[BUFFER_SIZE], and before     *)
(* buffer[0] only the zero of a read that found nothing, or a lone period.    *)
THEOREM Bounded == Spec => []BufferInBounds
<1>1. BoundInv => BufferInBounds
  BY DEF BoundInv
<1> QED
  BY <1>1, TypeInit, TypeStep, BoundInit, BoundStep, PTL DEF Spec

-----------------------------------------------------------------------------
(* What the line carries: every frame is framed as the ESP32 writes it, and a *)
(* period followed by a star is the start of a frame.                        *)
FrameOnLine(f) ==
    /\ f.first >= 1 /\ f.first + f.size + 3 <= Len(written)
    /\ written[f.first] = "." /\ written[f.first + 1] = "*"
    /\ \A i \in 1..(f.size + 1) : written[f.first + 1 + i] # "."
    /\ written[f.first + f.size + 3] = "."

LineInv ==
    /\ \A k \in 1..Len(frames) : FrameOnLine(frames[k])
    /\ \A p \in 1..(Len(written) - 1) :
          written[p] = "." /\ written[p + 1] = "*" =>
             \E k \in 1..Len(frames) : frames[k].first = p

(* The line is empty at first.                                                *)
LEMMA LineInit == Init => LineInv
BY EmptySeq DEF Init, LineInv

(* A frame is printed whole, after the frames before it.                      *)
LEMMA LineStep == TypeOK /\ LineInv /\ [Next]_vars => LineInv'
<1> SUFFICES ASSUME TypeOK, LineInv, [Next]_vars PROVE LineInv'
  OBVIOUS
<1>1. CASE UNCHANGED lineVars
  BY <1>1 DEF lineVars, LineInv, FrameOnLine
<1>2. CASE Send
  <2>1. PICK size \in PayloadSizes :
           /\ written' = written \o Frame(size)
           /\ frames' = Append(frames, [first |-> Len(written) + 1, size |-> size])
    BY <1>2 DEF Send
  <2> DEFINE n == Len(written)
             f == [first |-> n + 1, size |-> size]
  <2>2. n \in Nat /\ size \in Nat \ {0} /\ Len(frames) \in Nat
    BY LenProperties DEF TypeOK
  <2>3. /\ Len(written') = n + size + 4
        /\ \A i \in 1..n : written'[i] = written[i]
        /\ \A i \in 1..(size + 4) : written'[n + i] = Frame(size)[i]
    BY <2>1, Appended
  <2>4. /\ Len(frames') = Len(frames) + 1
        /\ \A k \in 1..Len(frames) : frames'[k] = frames[k]
        /\ frames'[Len(frames) + 1] = f
    BY <2>1, <2>2, AppendProperties DEF TypeOK
  <2>5. \A p \in (n + 1)..(n + size + 4) :
            /\ written'[p] = "." <=> p = n + 1 \/ p = n + size + 4
            /\ written'[p] = "*" <=> p = n + 2 \/ p = n + size + 3
    <3> TAKE p \in (n + 1)..(n + size + 4)
    <3>1. p - n \in 1..(size + 4) /\ n + (p - n) = p
      BY <2>2
    <3>2. written'[p] = Frame(size)[p - n]
      BY <2>3, <3>1
    <3>3. /\ Frame(size)[p - n] = "." <=> p - n = 1 \/ p - n = size + 4
          /\ Frame(size)[p - n] = "*" <=> p - n = 2 \/ p - n = size + 3
      BY <2>2, <3>1 DEF Frame
    <3> QED
      BY <2>2, <3>2, <3>3
  <2>6. ASSUME NEW k \in 1..Len(frames') PROVE FrameOnLine(frames[k])'
    <3>1. CASE k = Len(frames) + 1
      <4>1. frames'[k].first = n + 1 /\ frames'[k].size = size
        BY <2>4, <3>1
      <4>2. /\ written'[n + 1] = "." /\ written'[n + 2] = "*"
            /\ written'[n + size + 4] = "."
        BY <2>2, <2>5
      <4>3. \A i \in 1..(size + 1) : written'[n + 2 + i] # "."
        <5> TAKE i \in 1..(size + 1)
        <5>1. /\ n + 2 + i \in (n + 1)..(n + size + 4)
              /\ n + 2 + i # n + 1 /\ n + 2 + i # n + size + 4
          BY <2>2
        <5> QED
          BY <2>5, <5>1
      <4>4. /\ n + 1 >= 1 /\ n + 1 + size + 3 = n + size + 4
            /\ n + 1 + 1 = n + 2 /\ \A i \in Nat : n + 1 + 1 + i = n + 2 + i
        BY <2>2
      <4>5. n + 1 + size + 3 <= Len(written')
        BY <2>2, <2>3
      <4> QED
        BY <4>1, <4>2, <4>3, <4>4, <4>5 DEF FrameOnLine
    <3>2. CASE k \in 1..Len(frames)
      <4>1. FrameOnLine(frames[k]) /\ frames'[k] = frames[k]
        BY <2>4, <3>2 DEF LineInv
      <4>2. frames \in Seq([first : Nat, size : PayloadSizes])
        BY DEF TypeOK
      <4>3. frames[k] \in [first : Nat, size : PayloadSizes]
        BY <3>2, <4>2, ElementOfSeq
      <4> DEFINE a == frames[k].first
                 z == frames[k].size
      <4>4. a \in Nat /\ z \in Nat
        BY <4>3
      <4>5. /\ a >= 1 /\ a + z + 3 <= n
            /\ written[a] = "." /\ written[a + 1] = "*"
            /\ \A i \in 1..(z + 1) : written[a + 1 + i] # "."
            /\ written[a + z + 3] = "."
        BY <4>1 DEF FrameOnLine
      <4> HIDE DEF a, z, n
      <4>6. /\ a \in 1..n /\ a + 1 \in 1..n /\ a + z + 3 \in 1..n
            /\ \A i \in 1..(z + 1) : a + 1 + i \in 1..n
        BY <2>2, <4>4, <4>5
      <4>7. /\ a >= 1 /\ a + z + 3 <= Len(written')
            /\ written'[a] = "." /\ written'[a + 1] = "*"
            /\ \A i \in 1..(z + 1) : written'[a + 1 + i] # "."
            /\ written'[a + z + 3] = "."
        <5>1. a + z + 3 <= Len(written')
          BY <2>2, <2>3, <4>4, <4>5
        <5>2. \A i \in 1..(z + 1) : written'[a + 1 + i] # "."
          BY <2>3, <4>5, <4>6
        <5> QED
          BY <2>3, <4>5, <4>6, <5>1, <5>2
      <4>8. a = frames'[k].first /\ z = frames'[k].size
        BY <4>1 DEF a, z
      <4> QED
        BY <4>7, <4>8 DEF FrameOnLine
    <3> QED
      BY <2>2, <2>4, <3>1, <3>2
  <2>7. ASSUME NEW p \in 1..(Len(written') - 1),
               written'[p] = ".", written'[p + 1] = "*"
        PROVE  \E k \in 1..Len(frames') : frames'[k].first = p
    <3>1. CASE p < n
      <4>1. /\ p \in 1..(n - 1) /\ p \in 1..n /\ p + 1 \in 1..n
        BY <2>2, <2>3, <3>1
      <4>2. written[p] = "." /\ written[p + 1] = "*"
        BY <2>3, <2>7, <4>1
      <4>3. PICK k \in 1..Len(frames) : frames[k].first = p
        BY <4>1, <4>2 DEF LineInv
      <4> QED
        BY <2>2, <2>4, <4>3
    <3>2. CASE p >= n
      <4>1. p + 1 \in (n + 1)..(n + size + 4)
        BY <2>2, <2>3, <3>2
      <4>2. p + 1 = n + 2 \/ p + 1 = n + size + 3
        BY <2>5, <2>7, <4>1
      <4>3. p \in (n + 1)..(n + size + 4)
        BY <2>2, <4>2
      <4>4. p = n + 1 \/ p = n + size + 4
        BY <2>5, <2>7, <4>3
      <4>5. p = n + 1
        BY <2>2, <4>2, <4>4
      <4> QED
        BY <2>2, <2>4, <4>5
    <3> QED
      BY <2>2, <3>1, <3>2
  <2> QED
    BY <2>6, <2>7 DEF LineInv
<1> QED
  BY <1>1, <1>2 DEF Next, Receive, Arrive, Poll, Skip, Star, Collect, Finish,
                    FromMain, vars, lineVars

(* Between the star that opens a frame and the first period after it lie the  *)
(* payload of that frame and one star.                                       *)
LEMMA FrameBetween ==
    ASSUME TypeOK, LineInv, NEW s \in Nat, NEW m \in Nat \ {0},
           s >= 2, s + m <= Len(written),
           written[s - 1] = ".", written[s] = "*", written[s + m] = ".",
           \A i \in 1..(m - 1) : written[s + i] # "."
    PROVE  \E k \in 1..Len(frames) : frames[k].first = s - 1 /\ frames[k].size = m - 2
<1>1. Len(written) \in Nat
  BY LenProperties DEF TypeOK
<1>2. s - 1 \in 1..(Len(written) - 1) /\ (s - 1) + 1 = s
  BY <1>1
<1>3. PICK k \in 1..Len(frames) : frames[k].first = s - 1
  BY <1>2 DEF LineInv
<1> DEFINE z == frames[k].size
<1>4. z \in Nat
  <2>1. frames \in Seq([first : Nat, size : PayloadSizes])
    BY DEF TypeOK
  <2>2. frames[k] \in [first : Nat, size : PayloadSizes]
    BY <2>1, ElementOfSeq
  <2> QED
    BY <2>2
<1>5. FrameOnLine(frames[k])
  BY <1>3 DEF LineInv
<1>6. /\ written[s + z + 2] = "."
      /\ \A i \in 1..(z + 1) : written[s + i] # "."
  <2>1. /\ written[(s - 1) + z + 3] = "."
        /\ \A i \in 1..(z + 1) : written[(s - 1) + 1 + i] # "."
    BY <1>3, <1>5 DEF FrameOnLine
  <2> HIDE DEF z
  <2>2. (s - 1) + z + 3 = s + z + 2 /\ \A i \in Nat : (s - 1) + 1 + i = s + i
    BY <1>4
  <2> QED
    BY <1>4, <2>1, <2>2
<1> HIDE DEF z
<1>7. ~(m < z + 2)
  <2> SUFFICES ASSUME m < z + 2 PROVE FALSE
    OBVIOUS
  <2>1. m \in 1..(z + 1)
    BY <1>4
  <2> QED
    BY <1>6, <2>1
<1>8. ~(m > z + 2)
  <2> SUFFICES ASSUME m > z + 2 PROVE FALSE
    OBVIOUS
  <2>1. z + 2 \in 1..(m - 1) /\ s + (z + 2) = s + z + 2
    BY <1>4
  <2> QED
    BY <1>6, <2>1
<1>9. z = m - 2
  BY <1>4, <1>7, <1>8
<1> QED
  BY <1>3, <1>9 DEF z

-----------------------------------------------------------------------------
(* The bytes of the line, in the order of the line: those already read, those *)
(* in the FIFO, those still to arrive.  While nothing has been dropped, the   *)
(* FIFO holds the next bytes without a gap, the receiver waits for a star     *)
(* only after a period, and the buffer holds, without a gap, what followed a  *)
(* period and a star.                                                        *)
Taken == arrived - Len(fifo)
Open  == Taken - Len(buffer)        \* the place of the star, while collecting

Contiguous == Len(fifo) <= arrived /\ \A i \in 1..Len(fifo) : fifo[i] = Taken + i

AfterPeriod ==
    /\ pc = "star" => Taken >= 1 /\ written[Taken] = "."
    /\ pc \in {"skip", "star"} => buffer = <<>>

InFrame ==
    pc = "collect" =>
        /\ Open >= 2 /\ written[Open - 1] = "." /\ written[Open] = "*"
        /\ \A i \in 1..Len(buffer) : buffer[i] = Open + i /\ written[Open + i] # "."

FlowInv == ~overrun => Contiguous /\ AfterPeriod /\ InFrame

(* Taking a byte from a FIFO without gaps yields the next byte of the line.   *)
LEMMA TakeNext ==
    ASSUME TypeOK, Contiguous, fifo # <<>>, fifo' = Tail(fifo), arrived' = arrived
    PROVE  /\ Head(fifo) = Taken + 1 /\ Taken + 1 <= arrived
           /\ Taken \in Nat /\ Taken' = Taken + 1 /\ Contiguous'
<1>1. fifo \in Seq(Nat) /\ Len(fifo) \in Nat /\ arrived \in Nat
  <2>1. fifo \in Seq(Nat) /\ arrived \in 0..Len(written) /\ Len(written) \in Nat
    BY LenProperties DEF TypeOK
  <2> QED
    BY <2>1, LenProperties
<1>2. /\ Head(fifo) = fifo[1] /\ Len(fifo) >= 1 /\ Len(fifo') = Len(fifo) - 1
      /\ \A i \in 1..(Len(fifo) - 1) : fifo'[i] = fifo[i + 1]
  BY <1>1, Consumed
<1>3. Taken \in Nat /\ Taken' = Taken + 1 /\ Taken + 1 <= arrived
  BY <1>1, <1>2 DEF Taken, Contiguous
<1>4. Head(fifo) = Taken + 1
  BY <1>1, <1>2 DEF Contiguous
<1>5. ASSUME NEW i \in 1..Len(fifo') PROVE fifo'[i] = Taken' + i
  <2>1. i \in 1..(Len(fifo) - 1) /\ i + 1 \in 1..Len(fifo)
    BY <1>1, <1>2
  <2>2. fifo'[i] = fifo[i + 1] /\ fifo[i + 1] = Taken + (i + 1)
    BY <1>2, <2>1 DEF Contiguous
  <2> QED
    BY <1>3, <2>1, <2>2
<1>6. Len(fifo') <= arrived'
  BY <1>1, <1>2 DEF Contiguous
<1> QED
  BY <1>3, <1>4, <1>5, <1>6 DEF Contiguous

(* Nothing has been received at first.                                        *)
LEMMA FlowInit == Init => FlowInv
BY EmptySeq DEF Init, FlowInv, Contiguous, AfterPeriod, InFrame

(* Bytes that are not dropped go from the line to the buffer one after the    *)
(* other.                                                                     *)
LEMMA FlowStep == TypeOK /\ FlowInv /\ [Next]_vars => FlowInv'
<1> SUFFICES ASSUME TypeOK, FlowInv, [Next]_vars, ~overrun'
             PROVE  Contiguous' /\ AfterPeriod' /\ InFrame'
  BY DEF FlowInv
<1>1. ~overrun
  BY DEF TypeOK, Next, Receive, Send, Arrive, Poll, Skip, Star, Collect, Finish,
         FromMain, vars
<1>2. Contiguous /\ AfterPeriod /\ InFrame
  BY <1>1 DEF FlowInv
<1>3. /\ Len(written) \in Nat /\ arrived \in 0..Len(written)
      /\ Len(fifo) \in Nat /\ Len(buffer) \in Nat
      /\ fifo \in Seq(Nat) /\ buffer \in Seq(Nat)
  BY LenProperties DEF TypeOK
<1>4. Taken \in 0..arrived /\ Open \in Int /\ Open + Len(buffer) = Taken
  BY <1>2, <1>3 DEF Contiguous, Taken, Open
<1>5. CASE UNCHANGED <<arrived, fifo, pc, buffer>> /\
           \A i \in 1..Len(written) : written'[i] = written[i]
  <2>1. Taken' = Taken /\ Open' = Open
    BY <1>5 DEF Taken, Open
  <2>2. Contiguous'
    BY <1>2, <1>5, <2>1 DEF Contiguous
  <2>3. AfterPeriod'
    BY <1>2, <1>3, <1>4, <1>5, <2>1 DEF AfterPeriod
  <2>4. ASSUME pc = "collect"
        PROVE  /\ Open \in 1..Len(written) /\ Open - 1 \in 1..Len(written)
               /\ \A i \in 1..Len(buffer) : Open + i \in 1..Len(written)
    BY <1>2, <1>3, <1>4, <2>4 DEF InFrame
  <2>5. InFrame'
    BY <1>2, <1>5, <2>1, <2>4 DEF InFrame
  <2> QED
    BY <2>2, <2>3, <2>5
<1>6. CASE Send
  <2>1. PICK size \in PayloadSizes : written' = written \o Frame(size)
    BY <1>6 DEF Send
  <2>2. \A i \in 1..Len(written) : written'[i] = written[i]
    BY <2>1, Appended
  <2> QED
    BY <1>5, <1>6, <2>2 DEF Send, ciaaVars
<1>7. CASE Arrive
  <2>1. /\ arrived' = arrived + 1 /\ fifo' = Append(fifo, arrived + 1)
        /\ UNCHANGED <<written, pc, buffer>>
    BY <1>7 DEF Arrive, lineVars, ciaaVars
  <2>2. /\ Len(fifo') = Len(fifo) + 1 /\ fifo'[Len(fifo) + 1] = arrived + 1
        /\ \A i \in 1..Len(fifo) : fifo'[i] = fifo[i]
    BY <1>3, <2>1, AppendProperties
  <2>3. Taken' = Taken /\ Open' = Open
    BY <1>3, <2>1, <2>2 DEF Taken, Open
  <2>4. ASSUME NEW i \in 1..Len(fifo') PROVE fifo'[i] = Taken' + i
    <3>1. CASE i \in 1..Len(fifo)
      BY <1>2, <2>2, <2>3, <3>1 DEF Contiguous
    <3>2. CASE i = Len(fifo) + 1
      BY <1>3, <2>2, <2>3, <3>2 DEF Taken
    <3> QED
      BY <1>3, <2>2, <3>1, <3>2
  <2>5. Contiguous'
    <3>1. Len(fifo') <= arrived'
      BY <1>2, <1>3, <2>1, <2>2 DEF Contiguous
    <3> QED
      BY <2>4, <3>1 DEF Contiguous
  <2>6. AfterPeriod' /\ InFrame'
    BY <1>2, <2>1, <2>3 DEF AfterPeriod, InFrame
  <2> QED
    BY <2>5, <2>6
<1>8. ASSUME fifo # <<>>, Consume, FromMain
      PROVE  /\ Head(fifo) = Taken + 1 /\ Taken' = Taken + 1 /\ Contiguous'
             /\ UNCHANGED written
  BY <1>2, <1>8, TakeNext DEF Consume, FromMain, lineVars
<1>9. ASSUME fifo' = fifo, FromMain PROVE Contiguous'
  BY <1>2, <1>9 DEF FromMain, Contiguous, Taken
<1>10. CASE Poll
  <2>1. Contiguous' /\ Head(fifo) = Taken + 1 /\ Taken' = Taken + 1 /\ UNCHANGED written
    BY <1>8, <1>10 DEF Poll
  <2>2. /\ buffer' = <<>> /\ pc' # "collect"
        /\ pc' = "star" => written[Head(fifo)] = "."
    BY <1>10 DEF Poll, Got
  <2> QED
    BY <1>4, <2>1, <2>2 DEF AfterPeriod, InFrame
<1>11. CASE Skip
  <2>1. CASE fifo = <<>>
    BY <1>9, <1>11, <2>1 DEF Skip, AfterPeriod, InFrame
  <2>2. CASE fifo # <<>>
    <3>1. Contiguous' /\ Head(fifo) = Taken + 1 /\ Taken' = Taken + 1 /\ UNCHANGED written
      BY <1>8, <1>11, <2>2 DEF Skip
    <3>2. /\ buffer' = buffer /\ pc' # "collect" /\ pc = "skip"
          /\ pc' = "star" => written[Head(fifo)] = "."
      BY <1>11, <2>2 DEF Skip, Got
    <3> QED
      BY <1>2, <1>4, <3>1, <3>2 DEF AfterPeriod, InFrame
  <2> QED
    BY <2>1, <2>2
<1>12. CASE Star
  <2>1. CASE Got("*")
    <3>1. Contiguous' /\ Head(fifo) = Taken + 1 /\ Taken' = Taken + 1 /\ UNCHANGED written
      BY <1>8, <1>12, <2>1 DEF Star, Got
    <3>2. /\ pc = "star" /\ pc' = "collect" /\ buffer' = buffer
          /\ written[Head(fifo)] = "*"
      BY <1>12, <2>1 DEF Star, Got
    <3>3. Taken >= 1 /\ written[Taken] = "." /\ buffer = <<>>
      BY <1>2, <3>2 DEF AfterPeriod
    <3>4. Len(buffer') = 0 /\ Open' = Taken + 1
      BY <1>4, <3>1, <3>2, <3>3, EmptySeq DEF Open
    <3>5. InFrame'
      BY <1>4, <3>1, <3>2, <3>3, <3>4 DEF InFrame
    <3> QED
      BY <3>1, <3>2, <3>5 DEF AfterPeriod
  <2>2. CASE ~Got("*")
    <3>1. Contiguous'
      BY <1>8, <1>9, <1>12 DEF Star
    <3> QED
      BY <1>12, <2>2, <3>1 DEF Star, AfterPeriod, InFrame
  <2> QED
    BY <2>1, <2>2
<1>13. CASE Collect
  <2>1. Contiguous'
    BY <1>8, <1>9, <1>13 DEF Collect
  <2>2. CASE pc' \in {"idle", "busy"}
    BY <2>1, <2>2 DEF AfterPeriod, InFrame
  <2>3. CASE /\ fifo # <<>> /\ Consume /\ FromMain /\ UNCHANGED pc
             /\ buffer' = Append(buffer, Head(fifo)) /\ ~Got(".")
    <3>1. /\ Head(fifo) = Taken + 1 /\ Taken' = Taken + 1 /\ UNCHANGED written
          /\ pc = "collect" /\ written[Taken + 1] # "."
      BY <1>8, <1>13, <2>3 DEF Collect, Got
    <3>2. /\ Len(buffer') = Len(buffer) + 1 /\ buffer'[Len(buffer) + 1] = Taken + 1
          /\ \A i \in 1..Len(buffer) : buffer'[i] = buffer[i]
      BY <1>3, <1>4, <2>3, <3>1, AppendProperties
    <3>3. Open' = Open
      BY <1>3, <1>4, <3>1, <3>2 DEF Open
    <3>4. ASSUME NEW i \in 1..Len(buffer')
          PROVE  buffer'[i] = Open + i /\ written[Open + i] # "."
      <4>1. CASE i \in 1..Len(buffer)
        BY <1>2, <3>1, <3>2, <4>1 DEF InFrame
      <4>2. CASE i = Len(buffer) + 1
        <5>1. Open + i = Taken + 1
          BY <1>3, <1>4, <4>2
        <5> QED
          BY <3>1, <3>2, <4>2, <5>1
      <4> QED
        BY <1>3, <3>2, <4>1, <4>2
    <3> QED
      BY <1>2, <2>1, <2>3, <3>1, <3>3, <3>4 DEF AfterPeriod, InFrame
  <2>4. /\ Evaluate(buffer) => pc' \in {"idle", "busy"}
        /\ Evaluate(buffer') => pc' \in {"idle", "busy"}
    BY DEF Evaluate
  <2> QED
    BY <1>13, <2>2, <2>3, <2>4 DEF Collect
<1>14. CASE Finish
  BY <1>9, <1>14 DEF Finish, AfterPeriod, InFrame
<1>15. CASE UNCHANGED vars
  BY <1>5, <1>15 DEF vars
<1> QED
  BY <1>6, <1>7, <1>10, <1>11, <1>12, <1>13, <1>14, <1>15 DEF Next, Receive

-----------------------------------------------------------------------------
(* The only step that executes a command: the period that ends the copying.   *)
LEMMA ExecuteStep ==
    ASSUME TypeOK, FlowInv, ~overrun, Collect, ~UNCHANGED executed
    PROVE  LET n == Len(buffer) + 1 IN
           /\ n > 2 /\ fifo # <<>> /\ Head(fifo) = Taken + 1 /\ Taken + 1 <= arrived
           /\ written[Taken + 1] = "."
           /\ Len(buffer') = n /\ \A i \in 1..n : buffer'[i] = Open + i
           /\ executed' = Append(executed, SubSeq(buffer', 1, n - 2))
           /\ InFrame /\ Open + n = Taken + 1
<1>1. Contiguous /\ InFrame
  BY DEF FlowInv
<1>2. /\ fifo \in Seq(Nat) /\ buffer \in Seq(Nat) /\ Len(buffer) \in Nat
      /\ Len(fifo) \in Nat /\ arrived \in Nat /\ pc = "collect"
  <2>1. arrived \in 0..Len(written) /\ Len(written) \in Nat
    BY LenProperties DEF TypeOK
  <2> QED
    BY <2>1, LenProperties DEF TypeOK, Collect
<1>3. Open + Len(buffer) = Taken /\ Taken \in Int /\ Open \in Int
  BY <1>2 DEF Open, Taken
<1>4. \A i \in 1..Len(buffer) : written[buffer[i]] # "."
  BY <1>1, <1>2 DEF InFrame
<1>5. ~(Evaluate(buffer) /\ ~UNCHANGED executed)
  <2>1. Len(buffer) >= 2 => written[buffer[Len(buffer)]] # "."
    BY <1>2, <1>4
  <2> QED
    BY <1>2, <2>1 DEF Evaluate
<1>6. /\ fifo # <<>> /\ Consume /\ FromMain
      /\ buffer' = Append(buffer, Head(fifo)) /\ Got(".") /\ Evaluate(buffer')
  BY <1>5 DEF Collect
<1>7. Head(fifo) = Taken + 1 /\ Taken + 1 <= arrived
  BY <1>1, <1>6, TakeNext DEF Consume, FromMain
<1>8. /\ Len(buffer') = Len(buffer) + 1
      /\ buffer'[Len(buffer) + 1] = Taken + 1
      /\ \A i \in 1..Len(buffer) : buffer'[i] = buffer[i]
  BY <1>2, <1>6, <1>7, <1>3, AppendProperties, Consumed
<1>9. \A i \in 1..(Len(buffer) + 1) : buffer'[i] = Open + i
  <2> TAKE i \in 1..(Len(buffer) + 1)
  <2>1. CASE i \in 1..Len(buffer)
    BY <1>1, <1>2, <1>8, <2>1 DEF InFrame
  <2>2. CASE i = Len(buffer) + 1
    BY <1>2, <1>3, <1>8, <2>2
  <2> QED
    BY <1>2, <2>1, <2>2
<1>10. /\ Len(buffer') > 2
       /\ executed' = Append(executed, SubSeq(buffer', 1, Len(buffer') - 2))
  BY <1>6 DEF Evaluate
<1>11. written[Taken + 1] = "."
  BY <1>6, <1>7 DEF Got
<1>12. Open + (Len(buffer) + 1) = Taken + 1
  BY <1>2, <1>3
<1> QED
  BY <1>1, <1>6, <1>7, <1>8, <1>9, <1>10, <1>11, <1>12

(* An index of a sequence with one more element is an old one or the last.    *)
LEMMA LastOrEarlier ==
    ASSUME NEW n \in Nat, NEW j \in 1..(n + 1)
    PROVE  j \in 1..n \/ j = n + 1
  OBVIOUS

(* Executed payloads stay payloads of frames, and Finish adds another one.    *)
LEMMA IntactStep ==
    TypeOK /\ LineInv /\ FlowInv /\ Intact /\ [Next]_vars => Intact'
<1> SUFFICES ASSUME TypeOK, LineInv, FlowInv, Intact, [Next]_vars, ~overrun',
                    NEW i \in 1..Len(executed')
             PROVE  \E k \in 1..Len(frames') : executed'[i] = Payload(frames'[k])
  BY DEF Intact, Payload
<1>1. ~overrun
  BY DEF TypeOK, Next, Receive, Send, Arrive, Poll, Skip, Star, Collect, Finish,
         FromMain, vars
<1>2. /\ frames \in Seq([first : Nat, size : PayloadSizes]) /\ Len(frames) \in Nat
      /\ executed \in Seq(Seq(Nat)) /\ Len(executed) \in Nat
      /\ Len(written) \in Nat /\ arrived \in 0..Len(written)
  BY LenProperties DEF TypeOK
<1>3. Len(frames') >= Len(frames) /\ \A k \in 1..Len(frames) : frames'[k] = frames[k]
  <2>1. CASE Send
    BY <1>2, <2>1, AppendProperties DEF Send
  <2>2. CASE UNCHANGED frames
    BY <1>2, <2>2
  <2> QED
    BY <2>1, <2>2 DEF Next, Receive, Arrive, Poll, Skip, Star, Collect, Finish,
                      FromMain, lineVars, vars
<1>4. ASSUME NEW j \in 1..Len(executed)
      PROVE  \E k \in 1..Len(frames') : executed[j] = Payload(frames'[k])
  <2>1. PICK k \in 1..Len(frames) : executed[j] = Payload(frames[k])
    BY <1>1 DEF Intact
  <2>2. k \in 1..Len(frames')
    BY <1>2, <1>3
  <2> QED
    BY <1>3, <2>1, <2>2
<1>5. CASE UNCHANGED executed
  BY <1>4, <1>5
<1>6. CASE Collect /\ ~UNCHANGED executed
  <2> DEFINE n == Len(buffer) + 1
             m == SubSeq(buffer', 1, n - 2)
  <2>1. /\ n > 2 /\ Taken + 1 <= arrived /\ written[Taken + 1] = "."
        /\ Len(buffer') = n /\ \A j \in 1..n : buffer'[j] = Open + j
        /\ executed' = Append(executed, m)
        /\ InFrame /\ Open + n = Taken + 1 /\ UNCHANGED frames
    BY <1>1, <1>6, ExecuteStep DEF Collect, FromMain, lineVars
  <2>2. n \in Nat /\ Open \in Nat /\ Open >= 2 /\ Open + n <= Len(written)
    <3>1. Len(buffer) \in Nat /\ Len(fifo) \in Nat
      BY LenProperties DEF TypeOK
    <3>2. Open \in Int
      BY <1>2, <3>1 DEF Open, Taken
    <3>3. Open >= 2
      BY <1>6, <2>1 DEF InFrame, Collect
    <3> QED
      BY <1>2, <2>1, <3>1, <3>2, <3>3
  <2>3. /\ written[Open - 1] = "." /\ written[Open] = "*"
        /\ \A j \in 1..(n - 1) : written[Open + j] # "."
    <3>1. Len(buffer) = n - 1
      BY <2>2
    <3> QED
      BY <1>6, <2>1, <3>1 DEF InFrame, Collect
  <2> HIDE DEF n, m
  <2>4. PICK k \in 1..Len(frames) : frames[k].first = Open - 1 /\ frames[k].size = n - 2
    <3>1. written[Open + n] = "." /\ n \in Nat \ {0}
      BY <2>1, <2>2
    <3> QED
      BY <2>2, <2>3, <3>1, FrameBetween
  <2>5. /\ m \in Seq(Nat) /\ Len(m) = n - 2
        /\ \A j \in 1..(n - 2) : m[j] = Open + j
    <3>1. \A j \in 1..(n - 2) : buffer'[j] = Open + j /\ Open + j \in Nat
      BY <2>1, <2>2
    <3>2. 1 \in Int /\ n - 2 \in Int /\ 1 <= n - 2 /\ (n - 2) - 1 + 1 = n - 2
      BY <2>1, <2>2
    <3>3. /\ m \in Seq(Nat) /\ Len(m) = n - 2
          /\ \A j \in 1..(n - 2) : m[j] = buffer'[1 + j - 1]
      BY <3>1, <3>2, SubSeqProperties DEF m
    <3> QED
      BY <3>1, <3>3
  <2>6. m = Payload(frames[k])
    <3>1. Payload(frames[k]) = [j \in 1..(n - 2) |-> (Open - 1) + 1 + j]
      BY <2>4 DEF Payload
    <3>2. m = [j \in 1..(n - 2) |-> m[j]]
      BY <2>5, LenProperties
    <3>3. \A j \in 1..(n - 2) : m[j] = (Open - 1) + 1 + j
      BY <2>2, <2>5
    <3> QED
      BY <3>1, <3>2, <3>3
  <2>7. /\ Len(executed') = Len(executed) + 1
        /\ \A j \in 1..Len(executed) : executed'[j] = executed[j]
        /\ executed'[Len(executed) + 1] = m
    BY <1>2, <2>1, <2>5, AppendProperties
  <2>8. CASE i \in 1..Len(executed)
    BY <1>4, <2>7, <2>8
  <2>9. CASE i = Len(executed) + 1
    <3>1. executed'[i] = Payload(frames[k]) /\ frames'[k] = frames[k]
      BY <1>3, <2>6, <2>7, <2>9
    <3>2. k \in 1..Len(frames')
      BY <1>2, <1>3
    <3> QED
      BY <3>1, <3>2
  <2>10. i \in 1..Len(executed) \/ i = Len(executed) + 1
    <3>1. i \in 1..(Len(executed) + 1)
      BY <2>7
    <3>2. Len(executed) \in Nat
      BY <1>2
    <3> QED
      BY <3>1, <3>2, LastOrEarlier
  <2> QED
    BY <2>8, <2>9, <2>10
<1> QED
  BY <1>5, <1>6 DEF Next, Receive, Send, Arrive, Poll, Skip, Star, Finish,
                    ciaaVars, vars

(* Whatever the sizes and however the bytes, the polls and the drawings        *)
(* interleave, until the UART drops a byte the robot carries out nothing but   *)
(* whole commands of the ESP32.                                               *)
THEOREM OnlyWholeCommands == Spec => []Intact
<1>1. Init => Intact
  BY EmptySeq DEF Init, Intact
<1> QED
  BY <1>1, TypeInit, TypeStep, LineInit, LineStep, FlowInit, FlowStep, IntactStep,
     PTL DEF Spec

-----------------------------------------------------------------------------
(* The order of the bytes, for NoReplay.  Taking the first element of an       *)
(* increasing sequence, adding a larger one at the end and keeping a prefix   *)
(* leave it increasing, and on the same side of any other sequence.          *)
Under(s, x) == \A i \in 1..Len(s) : s[i] < x
Over(x, s)  == \A i \in 1..Len(s) : x < s[i]

(* The first element is below the others.                                     *)
LEMMA TailOrder ==
    ASSUME NEW s \in Seq(Nat), s # <<>>, Increasing(s)
    PROVE  Increasing(Tail(s)) /\ Over(Head(s), Tail(s))
<1>1. /\ Len(s) \in Nat /\ Len(s) >= 1 /\ Head(s) = s[1] /\ Len(Tail(s)) = Len(s) - 1
      /\ \A i \in 1..(Len(s) - 1) : Tail(s)[i] = s[i + 1]
  BY Consumed, LenProperties
<1>2. \A i \in 1..(Len(s) - 1) : i + 1 \in 1..Len(s) /\ 1 < i + 1
  BY <1>1
<1>3. \A i, j \in 1..(Len(s) - 1) : i < j => s[i + 1] < s[j + 1]
  BY <1>1, <1>2 DEF Increasing
<1>4. \A i \in 1..(Len(s) - 1) : s[1] < s[i + 1]
  BY <1>1, <1>2 DEF Increasing
<1> QED
  BY <1>1, <1>3, <1>4 DEF Increasing, Over

(* It is above whatever comes before the sequence.                            *)
LEMMA TailBefore ==
    ASSUME NEW t, NEW s \in Seq(Nat), s # <<>>, Before(t, s)
    PROVE  Before(t, Tail(s)) /\ Under(t, Head(s))
<1>1. /\ Len(s) \in Nat /\ Len(s) >= 1 /\ Head(s) = s[1] /\ Len(Tail(s)) = Len(s) - 1
      /\ \A i \in 1..(Len(s) - 1) : Tail(s)[i] = s[i + 1]
  BY Consumed, LenProperties
<1>2. 1 \in 1..Len(s) /\ \A i \in 1..(Len(s) - 1) : i + 1 \in 1..Len(s)
  BY <1>1
<1> QED
  BY <1>1, <1>2 DEF Before, Under

(* A larger element may be added at the end.                                  *)
LEMMA AppendOrder ==
    ASSUME NEW s \in Seq(Nat), NEW x \in Nat, Increasing(s), Under(s, x)
    PROVE  Increasing(Append(s, x))
<1>1. /\ Len(s) \in Nat /\ Len(Append(s, x)) = Len(s) + 1
      /\ \A i \in 1..Len(s) : Append(s, x)[i] = s[i]
      /\ Append(s, x)[Len(s) + 1] = x
  BY LenProperties, AppendProperties
<1> SUFFICES ASSUME NEW i \in 1..(Len(s) + 1), NEW j \in 1..(Len(s) + 1), i < j
             PROVE  Append(s, x)[i] < Append(s, x)[j]
  BY <1>1 DEF Increasing
<1>2. i \in 1..Len(s) /\ (j \in 1..Len(s) \/ j = Len(s) + 1)
  BY <1>1
<1> QED
  BY <1>1, <1>2 DEF Increasing, Under

(* So it may on either side of another sequence.                              *)
LEMMA AppendBefore ==
    ASSUME NEW s \in Seq(Nat), NEW x \in Nat, NEW t
    PROVE  /\ Before(t, s) /\ Under(t, x) => Before(t, Append(s, x))
           /\ Before(s, t) /\ Over(x, t) => Before(Append(s, x), t)
<1>1. /\ Len(s) \in Nat /\ Len(Append(s, x)) = Len(s) + 1
      /\ \A i \in 1..Len(s) : Append(s, x)[i] = s[i]
      /\ Append(s, x)[Len(s) + 1] = x
  BY LenProperties, AppendProperties
<1>2. \A i \in 1..(Len(s) + 1) : i \in 1..Len(s) \/ i = Len(s) + 1
  BY <1>1
<1> QED
  BY <1>1, <1>2 DEF Before, Under, Over

(* A prefix is ordered as the whole is.                                       *)
LEMMA PrefixOrder ==
    ASSUME NEW s \in Seq(Nat), NEW m \in Nat, m <= Len(s), NEW t
    PROVE  LET p == SubSeq(s, 1, m) IN
           /\ p \in Seq(Nat) /\ Len(p) = m /\ \A i \in 1..m : p[i] = s[i]
           /\ Increasing(s) => Increasing(p)
           /\ Before(s, t) => Before(p, t)
           /\ Before(t, s) => Before(t, p)
<1> DEFINE p == SubSeq(s, 1, m)
<1>1. Len(s) \in Nat /\ \A i \in 1..m : i \in 1..Len(s) /\ s[i] \in Nat
  BY LenProperties, ElementOfSeq
<1>2. /\ p \in Seq(Nat) /\ Len(p) = IF 1 <= m THEN m - 1 + 1 ELSE 0
      /\ \A i \in 1..(m - 1 + 1) : p[i] = s[1 + i - 1]
  BY <1>1, SubSeqProperties
<1> HIDE DEF p
<1>3. Len(p) = m /\ \A i \in 1..m : p[i] = s[i]
  <2>1. m - 1 + 1 = m /\ (IF 1 <= m THEN m - 1 + 1 ELSE 0) = m
    OBVIOUS
  <2>2. \A i \in 1..m : 1 + i - 1 = i
    OBVIOUS
  <2> QED
    BY <1>2, <2>1, <2>2
<1>4. Increasing(s) => Increasing(p)
  BY <1>1, <1>3 DEF Increasing
<1>5. (Before(s, t) => Before(p, t)) /\ (Before(t, s) => Before(t, p))
  BY <1>1, <1>3 DEF Before
<1> QED
  BY <1>2, <1>3, <1>4, <1>5 DEF p

(* NoReplay, strengthened with the buffer, which while it is filled lies       *)
(* between what has been executed and what is in the FIFO, and with the bytes *)
(* that have not arrived yet, which come after everything else.              *)
Received(s) == \A i \in 1..Len(s) : s[i] <= arrived

OrderInv ==
    /\ NoReplay
    /\ Received(fifo)
    /\ \A j \in 1..Len(executed) : Received(executed[j])
    /\ pc \in {"skip", "star"} => buffer = <<>>
    /\ pc = "collect" =>
          /\ Increasing(buffer) /\ Before(buffer, fifo) /\ Received(buffer)
          /\ \A j \in 1..Len(executed) : Before(executed[j], buffer)

(* Nothing has been received at first.                                        *)
LEMMA OrderInit == Init => OrderInv
BY EmptySeq DEF Init, OrderInv, NoReplay, Increasing, Before, Received

(* Every byte moves on along the line, FIFO, buffer and payload, or is        *)
(* dropped.                                                                   *)
LEMMA OrderStep == TypeOK /\ OrderInv /\ [Next]_vars => OrderInv'
<1> SUFFICES ASSUME TypeOK, OrderInv, [Next]_vars PROVE OrderInv'
  OBVIOUS
<1>1. /\ fifo \in Seq(Nat) /\ buffer \in Seq(Nat) /\ executed \in Seq(Seq(Nat))
      /\ Len(executed) \in Nat /\ Len(buffer) \in Nat /\ Len(fifo) \in Nat
      /\ arrived \in Nat
      /\ \A j \in 1..Len(executed) : executed[j] \in Seq(Nat)
  <2>1. Len(written) \in Nat /\ arrived \in 0..Len(written)
    BY LenProperties DEF TypeOK
  <2>2. \A j \in 1..Len(executed) : executed[j] \in Seq(Nat)
    BY ElementOfSeq DEF TypeOK
  <2> QED
    BY <2>1, <2>2, LenProperties DEF TypeOK
<1>2. CASE UNCHANGED <<arrived, fifo, executed, pc, buffer>>
  BY <1>2 DEF OrderInv, NoReplay, Increasing, Before, Received
<1>3. CASE Arrive
  <2>1. arrived' = arrived + 1 /\ UNCHANGED <<executed, pc, buffer>>
    BY <1>3 DEF Arrive, ciaaVars
  <2>2. ASSUME NEW s \in Seq(Nat), Received(s)
        PROVE  /\ Under(s, arrived + 1)
               /\ \A i \in 1..Len(s) : s[i] <= arrived'
    <3>1. \A i \in 1..Len(s) : s[i] \in Nat
      BY ElementOfSeq
    <3> QED
      BY <1>1, <2>1, <2>2, <3>1 DEF Received, Under
  <2>3. CASE UNCHANGED fifo
    <3>1. NoReplay'
      BY <2>1, <2>3 DEF OrderInv, NoReplay, Increasing, Before
    <3>2. \A i \in 1..Len(fifo) : fifo[i] <= arrived'
      BY <1>1, <2>2 DEF OrderInv
    <3>3. \A j \in 1..Len(executed) : \A i \in 1..Len(executed[j]) :
             executed[j][i] <= arrived'
      BY <1>1, <2>2 DEF OrderInv
    <3>4. pc = "collect" => \A i \in 1..Len(buffer) : buffer[i] <= arrived'
      BY <1>1, <2>2 DEF OrderInv
    <3> QED
      BY <2>1, <2>3, <3>1, <3>2, <3>3, <3>4
         DEF OrderInv, Increasing, Before, Received
  <2>4. CASE fifo' = Append(fifo, arrived + 1)
    <3>1. Increasing(fifo')
      BY <1>1, <2>2, <2>4, AppendOrder DEF OrderInv, NoReplay
    <3>2. \A j \in 1..Len(executed) : Before(executed[j], fifo')
      BY <1>1, <2>2, <2>4, AppendBefore DEF OrderInv, NoReplay
    <3>3. ASSUME pc = "collect" PROVE Before(buffer, fifo')
      <4>1. Before(buffer, fifo) /\ Received(buffer)
        BY <3>3 DEF OrderInv
      <4>2. Under(buffer, arrived + 1)
        BY <1>1, <2>2, <4>1
      <4> QED
        BY <1>1, <2>4, <4>1, <4>2, AppendBefore
    <3>4. \A i \in 1..Len(fifo') : fifo'[i] <= arrived'
      <4>1. /\ Len(fifo') = Len(fifo) + 1 /\ fifo'[Len(fifo) + 1] = arrived'
            /\ \A i \in 1..Len(fifo) : fifo'[i] = fifo[i]
        BY <1>1, <2>1, <2>4, AppendProperties
      <4>2. \A i \in 1..Len(fifo) : fifo[i] <= arrived'
        BY <1>1, <2>2 DEF OrderInv
      <4>3. Len(fifo) \in Nat /\ arrived' \in Nat
        BY <1>1, <2>1, LenProperties
      <4> SUFFICES ASSUME NEW i \in 1..(Len(fifo) + 1)
                   PROVE  fifo'[i] <= arrived'
        BY <4>1
      <4>4. i \in 1..Len(fifo) \/ i = Len(fifo) + 1
        BY <4>3, LastOrEarlier
      <4> QED
        BY <4>1, <4>2, <4>3, <4>4
    <3>5. NoReplay'
      BY <2>1, <3>1, <3>2 DEF OrderInv, NoReplay, Increasing, Before
    <3>6. \A j \in 1..Len(executed) : \A i \in 1..Len(executed[j]) :
             executed[j][i] <= arrived'
      BY <1>1, <2>2 DEF OrderInv
    <3>7. pc = "collect" => \A i \in 1..Len(buffer) : buffer[i] <= arrived'
      BY <1>1, <2>2 DEF OrderInv
    <3> QED
      BY <2>1, <3>3, <3>4, <3>5, <3>6, <3>7
         DEF OrderInv, Increasing, Before, Received
  <2> QED
    BY <1>3, <2>3, <2>4 DEF Arrive
<1>4. ASSUME fifo # <<>>, Consume
      PROVE  /\ Increasing(fifo') /\ Over(Head(fifo), fifo')
             /\ \A i \in 1..Len(fifo') : fifo'[i] <= arrived
             /\ Head(fifo) \in Nat /\ Head(fifo) <= arrived
             /\ \A j \in 1..Len(executed) :
                   Before(executed[j], fifo') /\ Under(executed[j], Head(fifo))
             /\ pc = "collect" => Before(buffer, fifo') /\ Under(buffer, Head(fifo))
  <2>1. Increasing(fifo') /\ Over(Head(fifo), fifo')
    BY <1>1, <1>4, TailOrder DEF Consume, OrderInv, NoReplay
  <2>2. \A j \in 1..Len(executed) :
           Before(executed[j], fifo') /\ Under(executed[j], Head(fifo))
    BY <1>1, <1>4, TailBefore DEF Consume, OrderInv, NoReplay
  <2>3. pc = "collect" => Before(buffer, fifo') /\ Under(buffer, Head(fifo))
    BY <1>1, <1>4, TailBefore DEF Consume, OrderInv
  <2>4. /\ \A i \in 1..Len(fifo') : fifo'[i] <= arrived
        /\ Head(fifo) \in Nat /\ Head(fifo) <= arrived
    <3>1. /\ Head(fifo) \in Nat /\ Head(fifo) = fifo[1] /\ Len(fifo) >= 1
          /\ Len(fifo') = Len(fifo) - 1
          /\ \A i \in 1..(Len(fifo) - 1) : fifo'[i] = fifo[i + 1]
      BY <1>1, <1>4, Consumed DEF Consume
    <3>2. 1 \in 1..Len(fifo) /\ \A i \in 1..(Len(fifo) - 1) : i + 1 \in 1..Len(fifo)
      BY <1>1, <3>1
    <3> QED
      BY <3>1, <3>2 DEF OrderInv, Received
  <2> QED
    BY <2>1, <2>2, <2>3, <2>4
<1>5. CASE \/ Poll \/ Skip \/ Star
  <2>1. UNCHANGED <<arrived, executed>>
    BY <1>5 DEF Poll, Skip, Star, FromMain
  <2>2. buffer' = <<>> /\ (pc' = "collect" => buffer' = <<>>)
    BY <1>5 DEF Poll, Skip, Star, OrderInv
  <2>3. /\ Increasing(<<>>) /\ \A i \in 1..Len(<<>>) : <<>>[i] <= arrived
        /\ \A s : Before(<<>>, s) /\ Before(s, <<>>)
    BY EmptySeq DEF Increasing, Before
  <2>4. /\ Increasing(fifo') /\ \A i \in 1..Len(fifo') : fifo'[i] <= arrived
        /\ \A j \in 1..Len(executed) : Before(executed[j], fifo')
    <3>1. CASE fifo # <<>> /\ Consume
      BY <1>4, <3>1
    <3>2. CASE UNCHANGED fifo
      BY <3>2 DEF OrderInv, NoReplay, Received
    <3> QED
      BY <1>5, <3>1, <3>2 DEF Poll, Skip, Star
  <2> QED
    BY <2>1, <2>2, <2>3, <2>4 DEF OrderInv, NoReplay, Increasing, Before, Received
<1>6. CASE Finish
  BY <1>6 DEF Finish, FromMain, OrderInv, NoReplay, Increasing, Before, Received
<1>7. CASE Collect
  <2>1. pc = "collect" /\ UNCHANGED arrived
    BY <1>7 DEF Collect, FromMain
  <2>2. /\ Increasing(fifo') /\ \A i \in 1..Len(fifo') : fifo'[i] <= arrived
        /\ \A j \in 1..Len(executed) : Before(executed[j], fifo')
        /\ Before(buffer, fifo')
    <3>1. CASE fifo # <<>> /\ Consume
      BY <1>4, <2>1, <3>1
    <3>2. CASE UNCHANGED fifo
      BY <2>1, <3>2 DEF OrderInv, NoReplay, Received
    <3> QED
      BY <1>7, <3>1, <3>2 DEF Collect
  <2> DEFINE Good(b) ==
               /\ b \in Seq(Nat) /\ Increasing(b) /\ Before(b, fifo')
               /\ \A i \in 1..Len(b) : b[i] <= arrived
               /\ \A j \in 1..Len(executed) : Before(executed[j], b)
  <2>3. Good(buffer)
    BY <1>1, <2>1, <2>2 DEF OrderInv, Received
  <2>4. ASSUME fifo # <<>>, Consume, buffer' = Append(buffer, Head(fifo))
        PROVE  Good(buffer')
    <3>1. /\ Head(fifo) \in Nat /\ Head(fifo) <= arrived /\ Over(Head(fifo), fifo')
          /\ Under(buffer, Head(fifo))
          /\ \A j \in 1..Len(executed) : Under(executed[j], Head(fifo))
      BY <1>4, <2>1, <2>4
    <3>2. buffer' \in Seq(Nat) /\ Increasing(buffer')
      BY <1>1, <2>3, <2>4, <3>1, AppendOrder, AppendProperties
    <3>3. Before(buffer', fifo')
      BY <1>1, <2>3, <2>4, <3>1, AppendBefore
    <3>4. \A j \in 1..Len(executed) : Before(executed[j], buffer')
      BY <1>1, <2>3, <2>4, <3>1, AppendBefore
    <3>5. \A i \in 1..Len(buffer') : buffer'[i] <= arrived
      <4>1. /\ Len(buffer') = Len(buffer) + 1 /\ buffer'[Len(buffer) + 1] = Head(fifo)
            /\ \A i \in 1..Len(buffer) : buffer'[i] = buffer[i]
        BY <1>1, <2>4, <3>1, AppendProperties
      <4>2. \A i \in 1..Len(buffer') : i \in 1..Len(buffer) \/ i = Len(buffer) + 1
        BY <1>1, <4>1
      <4> QED
        BY <2>3, <3>1, <4>1, <4>2
    <3> QED
      BY <3>2, <3>3, <3>4, <3>5
  <2>5. ASSUME UNCHANGED executed, pc' = "collect" => Good(buffer'), pc' # "skip",
               pc' # "star"
        PROVE  OrderInv'
    BY <2>1, <2>2, <2>5 DEF OrderInv, NoReplay, Increasing, Before, Received
  <2>6. ASSUME NEW m, Good(m), executed' = Append(executed, m), pc' = "busy"
        PROVE  OrderInv'
    <3>1. /\ Len(executed') = Len(executed) + 1 /\ executed'[Len(executed) + 1] = m
          /\ \A j \in 1..Len(executed) : executed'[j] = executed[j]
      BY <1>1, <2>6, AppendProperties
    <3>2. \A j \in 1..Len(executed') : j \in 1..Len(executed) \/ j = Len(executed) + 1
      BY <1>1, <3>1
    <3>3. \A j \in 1..Len(executed') :
             /\ Increasing(executed'[j]) /\ Before(executed'[j], fifo')
             /\ \A i \in 1..Len(executed'[j]) : executed'[j][i] <= arrived
      BY <2>2, <2>6, <3>1, <3>2 DEF OrderInv, NoReplay, Received
    <3>4. \A i, j \in 1..Len(executed') : i < j => Before(executed'[i], executed'[j])
      <4> TAKE i, j \in 1..Len(executed')
      <4> HAVE i < j
      <4>1. i \in 1..Len(executed)
        BY <1>1, <3>1
      <4>2. CASE j \in 1..Len(executed)
        BY <3>1, <4>1, <4>2 DEF OrderInv, NoReplay
      <4>3. CASE j = Len(executed) + 1
        BY <2>6, <3>1, <4>1, <4>3
      <4> QED
        BY <3>2, <4>2, <4>3
    <3> QED
      BY <2>1, <2>2, <2>6, <3>3, <3>4 DEF OrderInv, NoReplay, Increasing, Before, Received
  <2>7. ASSUME NEW b, Good(b), Len(b) > 2 PROVE Good(SubSeq(b, 1, Len(b) - 2))
    <3>1. Len(b) \in Nat /\ Len(b) - 2 \in Nat /\ Len(b) - 2 <= Len(b)
      BY <2>7, LenProperties
    <3> DEFINE p == SubSeq(b, 1, Len(b) - 2)
    <3>2. /\ p \in Seq(Nat) /\ Len(p) = Len(b) - 2 /\ Increasing(p)
          /\ \A i \in 1..(Len(b) - 2) : p[i] = b[i]
      BY <2>7, <3>1, PrefixOrder
    <3>3. Before(p, fifo') /\ \A j \in 1..Len(executed) : Before(executed[j], p)
      BY <2>7, <3>1, PrefixOrder
    <3>4. \A i \in 1..Len(p) : p[i] <= arrived
      BY <2>7, <3>1, <3>2
    <3> QED
      BY <3>2, <3>3, <3>4
  <2> HIDE DEF Good
  <2>8. CASE Evaluate(buffer)
    BY <2>3, <2>5, <2>6, <2>7, <2>8 DEF Evaluate
  <2>9. CASE fifo # <<>> /\ Consume /\ buffer' = Append(buffer, Head(fifo))
    <3>1. Good(buffer')
      BY <2>4, <2>9
    <3>2. CASE Evaluate(buffer')
      BY <2>5, <2>6, <2>7, <3>1, <3>2 DEF Evaluate
    <3>3. CASE UNCHANGED <<pc, executed>>
      BY <2>1, <2>5, <3>1, <3>3
    <3> QED
      BY <1>7, <2>8, <2>9, <3>2, <3>3 DEF Collect
  <2> QED
    BY <1>7, <2>8, <2>9 DEF Collect
<1> QED
  BY <1>2, <1>3, <1>5, <1>6, <1>7 DEF Next, Receive, Send, ciaaVars, vars

(* Whatever the UART drops, no byte is acted upon twice, and the commands are  *)
(* carried out in the order in which the ESP32 wrote them.                    *)
THEOREM NeverReplayed == Spec => []NoReplay
<1>1. OrderInv => NoReplay
  BY DEF OrderInv
<1> QED
  BY <1>1, TypeInit, TypeStep, OrderInit, OrderStep, PTL DEF Spec
-----------------------------------------------------------------------------
(* The link implements CommandLine: the initial states and every step of it are, *)
(* through the mapping of Line, those of a line that carries commands out whole,   *)
(* in order and at most once.                                                     *)

\* The variables of CommandLine, as Line maps them.
SentBar  == [k \in 1..Len(frames) |-> frames[k].size]
DoneBar  == IF overrun THEN <<>> ELSE [i \in 1..Len(executed) |-> Place(executed[i])]
WholeBar == ~overrun

(* Frames follow one another on the line.                                    *)
FramesApart ==
    \A j, k \in 1..Len(frames) :
        j < k => frames[j].first + frames[j].size + 3 < frames[k].first

(* What is known of a frame that has been sent.                              *)
LEMMA FrameType ==
    ASSUME TypeOK
    PROVE  /\ Len(frames) \in Nat /\ Len(written) \in Nat
           /\ \A k \in 1..Len(frames) :
                 frames[k].first \in Nat /\ frames[k].size \in PayloadSizes
                                         /\ frames[k].size \in Nat \ {0}
<1>1. frames \in Seq([first : Nat, size : PayloadSizes])
  BY DEF TypeOK
<1>2. \A k \in 1..Len(frames) : frames[k] \in [first : Nat, size : PayloadSizes]
  BY <1>1, ElementOfSeq
<1> QED
  BY <1>1, <1>2, LinkAssumption, LenProperties DEF TypeOK

(* No frame has been written at first.                                        *)
LEMMA ApartInit == Init => FramesApart
BY EmptySeq DEF Init, FramesApart

(* A frame is written after the end of the one before.                        *)
LEMMA ApartStep == TypeOK /\ LineInv /\ FramesApart /\ [Next]_vars => FramesApart'
<1> SUFFICES ASSUME TypeOK, LineInv, FramesApart, [Next]_vars PROVE FramesApart'
  OBVIOUS
<1>1. CASE UNCHANGED frames
  BY <1>1 DEF FramesApart
<1>2. CASE Send
  <2>1. PICK size \in PayloadSizes :
           frames' = Append(frames, [first |-> Len(written) + 1, size |-> size])
    BY <1>2 DEF Send
  <2>2. /\ Len(frames') = Len(frames) + 1
        /\ \A k \in 1..Len(frames) : frames'[k] = frames[k]
        /\ frames'[Len(frames) + 1].first = Len(written) + 1
    BY <2>1, AppendProperties DEF TypeOK
  <2>3. ASSUME NEW j \in 1..Len(frames'), NEW k \in 1..Len(frames'), j < k
        PROVE  frames'[j].first + frames'[j].size + 3 < frames'[k].first
    <3>1. j \in 1..Len(frames) /\ Len(frames) \in Nat
      BY <2>2, <2>3, FrameType
    <3>2. CASE k \in 1..Len(frames)
      BY <2>2, <2>3, <3>1, <3>2 DEF FramesApart
    <3>3. CASE k = Len(frames) + 1
      <4>1. frames[j].first + frames[j].size + 3 <= Len(written)
        BY <3>1 DEF LineInv, FrameOnLine
      <4> QED
        BY <2>2, <3>1, <3>3, <4>1, FrameType
    <3> QED
      BY <2>2, <3>1, <3>2, <3>3, LastOrEarlier
  <2> QED
    BY <2>3 DEF FramesApart
<1> QED
  BY <1>1, <1>2 DEF Next, Receive, Arrive, Poll, Skip, Star, Collect, Finish,
                    FromMain, lineVars, vars

(* A payload tells its frame, and payloads are in the order of their frames.  *)
LEMMA PayloadTells ==
    ASSUME TypeOK, FramesApart, NEW j \in 1..Len(frames), NEW k \in 1..Len(frames)
    PROVE  /\ Payload(frames[j]) = Payload(frames[k]) => j = k
           /\ Before(Payload(frames[j]), Payload(frames[k])) => j < k
<1>1. /\ frames[j].first \in Nat /\ frames[j].size \in Nat \ {0}
      /\ frames[k].first \in Nat /\ frames[k].size \in Nat \ {0}
      /\ j \in Nat /\ k \in Nat
  BY FrameType
<1>2. /\ Payload(frames[j])[1] = frames[j].first + 2
      /\ Payload(frames[k])[1] = frames[k].first + 2
  <2>1. 1 \in 1..frames[j].size /\ 1 \in 1..frames[k].size
    BY <1>1
  <2> QED
    BY <1>1, <2>1 DEF Payload
<1>3. /\ j < k => frames[j].first < frames[k].first
      /\ k < j => frames[k].first < frames[j].first
  <2>1. /\ j < k => frames[j].first + frames[j].size + 3 < frames[k].first
        /\ k < j => frames[k].first + frames[k].size + 3 < frames[j].first
    BY DEF FramesApart
  <2> QED
    BY <1>1, <2>1
<1>4. ASSUME Payload(frames[j]) = Payload(frames[k]) PROVE j = k
  BY <1>1, <1>2, <1>3, <1>4
<1>5. ASSUME Before(Payload(frames[j]), Payload(frames[k])) PROVE j < k
  <2>1. /\ Len(Payload(frames[j])) = frames[j].size
        /\ Len(Payload(frames[k])) = frames[k].size
    BY <1>1 DEF Payload
  <2>2. Payload(frames[j])[1] < Payload(frames[k])[1]
    BY <1>1, <1>5, <2>1 DEF Before
  <2> QED
    BY <1>1, <1>2, <1>3, <2>2
<1> QED
  BY <1>4, <1>5

(* Place reads a payload as the place of its command among those sent.        *)
PlacesTell == \A k \in 1..Len(frames) : Place(Payload(frames[k])) = k

(* A payload on the line is that of one frame only.                           *)
LEMMA PlaceOf == TypeOK /\ FramesApart => PlacesTell
<1> SUFFICES ASSUME TypeOK, FramesApart, NEW k \in 1..Len(frames)
             PROVE  Place(Payload(frames[k])) = k
  BY DEF PlacesTell
<1> DEFINE places == {j \in 1..Len(frames) : Payload(frames[k]) = Payload(frames[j])}
<1>1. k \in places
  OBVIOUS
<1>2. \A j \in places : j = k
  BY PayloadTells
<1>3. (CHOOSE j \in places : TRUE) \in places
  BY <1>1
<1>4. (CHOOSE j \in places : TRUE) = k
  BY <1>2, <1>3
<1>5. places # {}
  BY <1>1
<1> QED
  BY <1>4, <1>5 DEF Place

(* A sequence that continues another by one element is an Append.             *)
LEMMA IsAppend ==
    ASSUME NEW S, NEW s \in Seq(S), NEW x \in S, NEW t \in Seq(S),
           Len(t) = Len(s) + 1, t[Len(s) + 1] = x, \A i \in 1..Len(s) : t[i] = s[i]
    PROVE  t = Append(s, x)
<1>1. Len(s) \in Nat
  BY LenProperties
<1>2. /\ Append(s, x) \in Seq(S) /\ Len(Append(s, x)) = Len(s) + 1
      /\ Append(s, x)[Len(s) + 1] = x /\ \A i \in 1..Len(s) : Append(s, x)[i] = s[i]
  BY AppendProperties
<1>3. \A i \in 1..Len(t) : t[i] = Append(s, x)[i]
  BY <1>1, <1>2
<1> QED
  BY <1>2, <1>3, SeqEqual

-----------------------------------------------------------------------------
(* The mapped variables are sequences, so that Append may be read off them.   *)
BarsOK ==
    /\ SentBar \in Seq(PayloadSizes) /\ Len(SentBar) = Len(frames)
    /\ \A k \in 1..Len(frames) : SentBar[k] = frames[k].size
    /\ overrun => DoneBar = <<>>
    /\ ~overrun => /\ DoneBar \in Seq(Nat) /\ Len(DoneBar) = Len(executed)
                   /\ \A i \in 1..Len(executed) : DoneBar[i] = Place(executed[i])

(* They are sequences of the lengths they should have.                        *)
LEMMA BarsHold == TypeOK => BarsOK
<1> SUFFICES ASSUME TypeOK PROVE BarsOK
  OBVIOUS
<1>1. Len(executed) \in Nat /\ Len(frames) \in Nat
  BY LenProperties DEF TypeOK
<1>2. \A k \in 1..Len(frames) : frames[k].size \in PayloadSizes
  BY FrameType
<1>3. ASSUME NEW p PROVE Place(p) \in Nat
  <2> DEFINE places == {k \in 1..Len(frames) : p = Payload(frames[k])}
  <2>1. places # {} => (CHOOSE k \in places : TRUE) \in places
    OBVIOUS
  <2>2. places \subseteq Nat
    BY <1>1
  <2> HIDE DEF places
  <2>3. (IF places = {} THEN 0 ELSE CHOOSE k \in places : TRUE) \in Nat
    BY <2>1, <2>2
  <2> QED
    BY <2>3 DEF Place, places
<1> QED
  BY <1>1, <1>2, <1>3 DEF BarsOK, SentBar, DoneBar

(* What the steps below start from and lead to.                               *)
LinkInv ==
    /\ TypeOK /\ LineInv /\ FlowInv /\ Intact /\ NoReplay
    /\ FramesApart /\ PlacesTell /\ BarsOK

(* Sending a command leaves those already carried out in their places.        *)
LEMMA SendMaps ==
    ASSUME LinkInv, LinkInv', Send
    PROVE  \E cmd \in PayloadSizes :
              SentBar' = Append(SentBar, cmd) /\ UNCHANGED <<DoneBar, WholeBar>>
<1>1. PICK size \in PayloadSizes :
         frames' = Append(frames, [first |-> Len(written) + 1, size |-> size])
  BY DEF Send
<1>2. UNCHANGED <<overrun, executed>>
  BY DEF Send, ciaaVars
<1>3. /\ Len(frames) \in Nat /\ Len(frames') = Len(frames) + 1
      /\ \A k \in 1..Len(frames) : frames'[k] = frames[k]
      /\ frames'[Len(frames) + 1].size = size
  BY <1>1, AppendProperties, FrameType DEF LinkInv, TypeOK
<1>4. SentBar' = Append(SentBar, size)
  BY <1>3, IsAppend DEF LinkInv, BarsOK
<1>5. DoneBar' = DoneBar
  <2>1. CASE overrun
    BY <1>2, <2>1 DEF DoneBar
  <2>2. CASE ~overrun
    <3>1. ASSUME NEW i \in 1..Len(executed)
          PROVE  Place(executed[i])' = Place(executed[i])
      <4>1. PICK k \in 1..Len(frames) : executed[i] = Payload(frames[k])
        BY <2>2 DEF LinkInv, Intact
      <4>2. k \in 1..Len(frames') /\ executed'[i] = Payload(frames'[k])
        BY <1>2, <1>3, <4>1
      <4>3. Place(executed[i]) = k
        BY <4>1 DEF LinkInv, PlacesTell
      <4>4. Place(Payload(frames[k]))' = k
        BY <4>2 DEF LinkInv, PlacesTell
      <4>5. Payload(frames[k])' = executed[i]' /\ executed[i]' = executed[i]
        BY <1>2, <4>2 DEF Payload
      <4> QED
        BY <4>3, <4>4, <4>5 DEF Place
    <3> QED
      BY <1>2, <2>2, <3>1 DEF DoneBar
  <2> QED
    BY <2>1, <2>2
<1> QED
  BY <1>2, <1>4, <1>5 DEF WholeBar

(* A byte that the full FIFO drops spoils the line, or leaves it spoilt; one   *)
(* that it takes changes nothing the line speaks of.                          *)
LEMMA ArriveMaps ==
    ASSUME LinkInv, LinkInv', Arrive
    PROVE  \/ WholeBar /\ WholeBar' = FALSE /\ DoneBar' = <<>> /\ UNCHANGED SentBar
           \/ UNCHANGED <<SentBar, DoneBar, WholeBar>>
<1>1. UNCHANGED <<frames, executed>> /\ (UNCHANGED overrun \/ overrun' = TRUE)
  BY DEF Arrive, lineVars, ciaaVars
<1>2. SentBar' = SentBar
  BY <1>1 DEF SentBar
<1>3. CASE UNCHANGED overrun
  BY <1>1, <1>2, <1>3 DEF DoneBar, WholeBar, Place, Payload
<1>4. CASE ~overrun /\ overrun' = TRUE
  BY <1>2, <1>4 DEF DoneBar, WholeBar
<1> QED
  BY <1>1, <1>2, <1>3, <1>4 DEF LinkInv, TypeOK

(* Copying the last byte of a frame carries out the command of that frame,     *)
(* which was sent later than all those carried out before.                    *)
LEMMA CollectMaps ==
    ASSUME LinkInv, LinkInv', Collect
    PROVE  \/ \E k \in 1..Len(SentBar) :
                 /\ WholeBar
                 /\ \A i \in 1..Len(DoneBar) : DoneBar[i] < k
                 /\ DoneBar' = Append(DoneBar, k)
                 /\ UNCHANGED <<SentBar, WholeBar>>
           \/ UNCHANGED <<SentBar, DoneBar, WholeBar>>
<1>1. UNCHANGED <<frames, overrun>>
  BY DEF Collect, FromMain, lineVars
<1>2. SentBar' = SentBar /\ WholeBar' = WholeBar
  BY <1>1 DEF SentBar, WholeBar
<1>3. CASE overrun \/ UNCHANGED executed
  <2>1. CASE overrun
    BY <1>1, <1>2, <2>1 DEF DoneBar
  <2>2. CASE UNCHANGED executed
    <3>1. \A i \in 1..Len(executed) : Place(executed[i])' = Place(executed[i])
      BY <1>1, <2>2 DEF Place, Payload
    <3> QED
      BY <1>1, <1>2, <2>2, <3>1 DEF DoneBar
  <2> QED
    BY <1>3, <2>1, <2>2
<1>4. CASE ~overrun /\ ~UNCHANGED executed
  <2>1. PICK n \in Nat : n = Len(executed)
    BY LenProperties DEF LinkInv, TypeOK
  <2>2. Len(executed') = n + 1 /\ \A i \in 1..n : executed'[i] = executed[i]
    <3>1. PICK m : executed' = Append(executed, m)
      BY <1>4 DEF Collect, Evaluate
    <3> QED
      BY <2>1, <3>1 DEF LinkInv, TypeOK
  <2>3. PICK k \in 1..Len(frames) : executed'[n + 1] = Payload(frames[k])
    <3>1. Intact' /\ ~overrun' /\ n + 1 \in 1..Len(executed')
      BY <1>1, <1>4, <2>1, <2>2 DEF LinkInv
    <3> QED
      BY <1>1, <3>1 DEF Intact, Payload
  <2>4. ASSUME NEW i \in 1..(n + 1), NEW j \in 1..Len(frames),
               executed'[i] = Payload(frames[j])
        PROVE  DoneBar'[i] = j
    <3>1. Payload(frames[j])' = executed[i]' /\ j \in 1..Len(frames')
      BY <1>1, <2>4 DEF Payload
    <3>2. Place(Payload(frames[j]))' = j
      BY <3>1 DEF LinkInv, PlacesTell
    <3>3. DoneBar'[i] = Place(executed[i])'
      BY <1>1, <1>4, <2>2 DEF LinkInv, BarsOK
    <3> QED
      BY <3>1, <3>2, <3>3 DEF Place
  <2>5. ASSUME NEW i \in 1..n
        PROVE  DoneBar'[i] = DoneBar[i] /\ DoneBar[i] < k
    <3>1. PICK j \in 1..Len(frames) : executed[i] = Payload(frames[j])
      BY <1>4, <2>1, <2>5 DEF LinkInv, Intact
    <3>2. DoneBar[i] = j
      BY <1>4, <2>1, <2>5, <3>1 DEF LinkInv, BarsOK, PlacesTell
    <3>3. i \in 1..(n + 1) /\ n + 1 \in 1..(n + 1) /\ i < n + 1
      BY <2>1, <2>5
    <3>4. Before(executed'[i], executed'[n + 1])
      BY <2>2, <3>3 DEF LinkInv, NoReplay, Before
    <3>5. j < k
      BY <2>2, <2>3, <2>5, <3>1, <3>4, PayloadTells DEF LinkInv
    <3>6. DoneBar'[i] = j
      BY <2>1, <2>2, <2>4, <3>1, <3>3
    <3> QED
      BY <3>2, <3>5, <3>6
  <2>6. DoneBar'[n + 1] = k
    BY <2>1, <2>3, <2>4
  <2>7. DoneBar' = Append(DoneBar, k)
    <3>1. /\ DoneBar \in Seq(Nat) /\ Len(DoneBar) = n
          /\ DoneBar' \in Seq(Nat) /\ Len(DoneBar') = n + 1
      BY <1>1, <1>4, <2>1, <2>2 DEF LinkInv, BarsOK
    <3>2. k \in Nat
      BY FrameType DEF LinkInv
    <3> QED
      BY <2>5, <2>6, <3>1, <3>2, IsAppend
  <2>8. Len(DoneBar) = n /\ Len(SentBar) = Len(frames)
    BY <1>4, <2>1 DEF LinkInv, BarsOK
  <2> QED
    BY <1>2, <1>4, <2>5, <2>7, <2>8 DEF WholeBar
<1> QED
  BY <1>3, <1>4

(* Whatever the sizes, the serial link is a line that carries commands out      *)
(* whole, in the order in which they were sent and at most once, any of them    *)
(* lost, until the UART drops a byte: frames, FIFO and receiver implement       *)
(* CommandLine, on which the ESP32 and the ta-te-ti commands rely.              *)
THEOREM InOrder == Spec => CommandsInOrder
<1> USE DEF SentBar, DoneBar, WholeBar
<1>1. Init => Line!Init
  BY EmptySeq DEF Init, Line!Init
<1>2. LinkInv /\ LinkInv' /\ [Next]_vars => [Line!Next]_<<SentBar, DoneBar, WholeBar>>
  <2> SUFFICES ASSUME LinkInv, LinkInv', [Next]_vars
               PROVE  [Line!Next]_<<SentBar, DoneBar, WholeBar>>
    OBVIOUS
  <2>1. CASE Send
    BY <2>1, SendMaps DEF Line!Next, Line!Send
  <2>2. CASE Arrive
    BY <2>2, ArriveMaps DEF Line!Next, Line!Spoil
  <2>3. CASE Collect
    BY <2>3, CollectMaps DEF Line!Next, Line!Execute
  <2>4. CASE UNCHANGED <<frames, executed, overrun>>
    BY <2>4 DEF Place, Payload
  <2> QED
    BY <2>1, <2>2, <2>3, <2>4 DEF Next, Receive, Poll, Skip, Star, Finish, FromMain,
                                  lineVars, vars
<1>3. Init => TypeOK /\ LineInv /\ FlowInv /\ OrderInv /\ FramesApart /\ Intact
  BY TypeInit, LineInit, FlowInit, OrderInit, ApartInit, EmptySeq DEF Init, Intact
<1>4. OrderInv => NoReplay
  BY DEF OrderInv
<1>5. TypeOK /\ LineInv /\ FlowInv /\ OrderInv /\ FramesApart /\ Intact => LinkInv
  BY <1>4, PlaceOf, BarsHold DEF LinkInv
<1> QED
  BY <1>1, <1>2, <1>3, <1>5, TypeStep, LineStep, FlowStep, OrderStep, ApartStep, IntactStep,
     PTL DEF Spec, CommandsInOrder, Line!Spec
=============================================================================
