----------------------------- MODULE PlotterProofs -----------------------------
(***************************************************************************)
(* Why the sheet can be read: moveTo never changes how far the pen is from   *)
(* where the program believes it to be, so that only the strokes of the      *)
(* marks do, by the same drift for each X and each O; and the drift of the    *)
(* nine marks of a game is less than the space between two of them.          *)
(***************************************************************************)
EXTENDS Plotter, SequenceTheorems, TLAPS

\* What is proved of the player of TATETI.c; here the robot has no line to speak on.
Engine == INSTANCE TatetiProofs WITH paper <- ink, reply <- NoCell, verdict <- "N"

-----------------------------------------------------------------------------
(* Instructions and their types.                                               *)

Steering == [op : {"toX", "toY"}, mm : Int]
Turning  == [op : {"turn"}, one : Int, two : Int]
Relative == [op : {"rel"}, x : Int, y : Int]
Lifting  == [op : {"pen"}, to : {"up", "down"}]
Aiming   == [op : {"on"}, cell : Cells \cup {NoCell}]

Instructions == Steering \cup Turning \cup Relative \cup Lifting \cup Aiming

Types ==
    /\ motor \in Int \X Int /\ pos \in Int \X Int /\ pen \in {"up", "down"}
    /\ todo \in Seq(Instructions)
    /\ ink \in [Cells -> Boxes] /\ cell \in Cells \cup {NoCell}
    /\ origin \in Int \X Int /\ disturbed \in BOOLEAN
    /\ boards \in 0..MaxBoards /\ events \in 0..MaxEvents

(* The log of the robot holds moves, whatever it has been sent; it is the log of  *)
(* a game and the robot has answered by its tables while only moves of the game   *)
(* are drawn.                                                                     *)
Playing == Engine!LogTyped(game)
Lawful  == Engine!Logged(game) /\ Engine!Strategy(game)

(* A program of the kind op ends with the given instruction of that kind: the   *)
(* pen is lifted and no square is meant once it has been carried out.           *)
Ends(s, op, last) ==
    \E u \in 1..Len(s) : s[u] = last /\ \A k \in (u + 1)..Len(s) : s[k].op # op
None(s, op) == \A k \in 1..Len(s) : s[k].op # op

PenUp  == [op |-> "pen", to |-> "up"]
AimOff == [op |-> "on", cell |-> NoCell]

Tidy(s, p, c) ==
    /\ Ends(s, "pen", PenUp) \/ (None(s, "pen") /\ p = "up")
    /\ Ends(s, "on", AimOff) \/ (None(s, "on") /\ c = NoCell)

Tidied == Tidy(todo, pen, cell)
-----------------------------------------------------------------------------
(* The plan of a mark: its instructions, and before each of them where the pen   *)
(* is, from the beginning of the mark, and what it has drawn, all in half steps.  *)

PenDown == [op |-> "pen", to |-> "down"]
Aim(c)  == [op |-> "on", cell |-> c]
ToX(mm) == [op |-> "toX", mm |-> mm]
ToY(mm) == [op |-> "toY", mm |-> mm]
Stroke(one, two) == [op |-> "turn", one |-> one, two |-> two]
Rel(x) == [op |-> "rel", x |-> x, y |-> 0]

\* Where moveInBoard leaves the pen, and where the two moveToRel(_, 0) do, in mm.
StartX(c) == 40 * (c % 3) - 55
StartY(c) == -40 * (c \div 3) - 35
Start(c)  == <<MmToStep(StartX(c)), MmToStep(StartY(c))>>
Aside(p, x) == <<StepToMm(p[1] + MmToStep(x)), StepToMm(p[2] + MmToStep(0))>>
ASide(c) == Aside(Start(c), 15)
Right(c) == <<MmToStep(ASide(c)[1]), MmToStep(ASide(c)[2])>>
BSide(c) == Aside(Right(c), -15)

PlanX(c) ==
    << Aim(c), ToY(StartY(c)), ToX(StartX(c)),
       PenDown, Stroke(200, 0), PenUp, Stroke(-100, 100),
       PenDown, Stroke(0, -220), PenUp, Stroke(-97, 97),
       ToY(20), ToX(0), AimOff >>

PlanO(c) ==
    << Aim(c), ToY(StartY(c)), ToX(StartX(c)), Rel(15),
       PenDown, Stroke(133, -9), Stroke(-22, -116), Stroke(-120, 22), Stroke(10, 104), PenUp,
       Rel(-15), ToY(20), ToX(0), AimOff >>

Box(l, r, lo, hi) == [left |-> l, right |-> r, low |-> lo, high |-> hi]
X1 == Box(0, 200, 0, 200)
X2 == Box(-20, 200, 0, 220)
O1 == Box(0, 124, 0, 142)
O2 == Box(-14, 124, 0, 236)
O3 == Box(-112, 124, 0, 236)

Size(f) == IF f = "X" THEN 14 ELSE 18

At(f, k) ==
    IF f = "X"
    THEN IF k < 6 THEN <<0, 0>> ELSE IF k < 8 THEN <<200, 200>>
         ELSE IF k < 10 THEN <<200, 0>> ELSE IF k < 12 THEN <<-20, 220>> ELSE <<-20, 26>>
    ELSE IF k < 9 THEN <<0, 0>> ELSE IF k = 9 THEN <<124, 142>>
         ELSE IF k = 10 THEN <<-14, 236>> ELSE IF k = 11 THEN <<-112, 94>> ELSE <<2, 0>>

\* Nothing is drawn before instruction Bare(f), the first stroke with the pen down,
\* has been carried out.
Bare(f) == IF f = "X" THEN 5 ELSE 8

Trace(f, k) ==
    IF f = "X" THEN IF k < 10 THEN X1 ELSE X2
    ELSE IF k = 9 THEN O1 ELSE IF k = 10 THEN O2 ELSE O3

Lowered(f) == IF f = "X" THEN {5, 6, 9, 10} ELSE 8..12

\* The position while the mark is drawn, and the place from which At counts.
Placed(f) == IF f = "X" THEN 4..12 ELSE 7..13
Home(f, c) == IF f = "X" THEN Start(c) ELSE Right(c)

\* How far the pen is from where it is believed to be when mark n is begun.
Drift(n) == <<2 * (n \div 2) - 20 * ((n + 1) \div 2), 26 * ((n + 1) \div 2)>>
Owner(n) == IF n % 2 = 0 THEN "X" ELSE "O"

Far(o, n) == <<o[1] + Drift(n)[1], o[2] + Drift(n)[2]>>

\* Where At(f, k) is counted from.
Root(off, h)  == <<off[1] + 2 * h[1], off[2] + 2 * h[2]>>
Base(o, n, c) == Root(Far(o, n), Home(Owner(n), c))

Shift(b, d) == [left |-> b.left + d[1], right |-> b.right + d[1],
                low |-> b.low + d[2], high |-> b.high + d[2]]

Traces(f) == IF f = "X" THEN {X1, X2} ELSE {O1, O2, O3}
-----------------------------------------------------------------------------
(* What is known of a game whose board nothing has disturbed.                    *)

\* Ink b on square d is the whole or the beginning of one of the first n marks.
MarkOf(o, n, d, b) ==
    \E i \in 0..(n - 1) : \E s \in Traces(Owner(i)) : b = Shift(s, Base(o, i, d))

\* The state of the pen before instruction k of a mark on square c that was begun
\* with the pen off by the given distance.
Stood(f, c, k, off, m, p, up, at, b) ==
    /\ X(m) = 2 * p[1] + off[1] + At(f, k)[1]
    /\ Y(m) = 2 * p[2] + off[2] + At(f, k)[2]
    /\ up = IF k \in Lowered(f) THEN "down" ELSE "up"
    /\ at = IF k \in 2..Size(f) THEN c ELSE NoCell
    /\ k \in Placed(f) => p = Home(f, c)
    /\ k = 3 => p[2] = Start(c)[2]
    /\ f = "O" => /\ k \in 4..5 => p = Start(c)
                  /\ k = 6 => p[2] = Right(c)[2]
    /\ IF k <= Bare(f) THEN ~Inked(b) ELSE b = Shift(Trace(f, k), Root(off, Home(f, c)))

\* What is left of the plan of a mark; a moveToRel has become a moveTo at 5 and 14.
LeftX(c, k) == SubSeq(PlanX(c), k, 14)
TailO(c, k) == SubSeq(PlanO(c), k, 14)
LeftO(c, k) ==
    IF k <= 4 THEN TailO(c, k)
    ELSE IF k = 5 THEN MoveTo(ASide(c)[1], ASide(c)[2]) \o TailO(c, 5)
    ELSE IF k = 6 THEN << ToX(ASide(c)[1]) >> \o TailO(c, 5)
    ELSE IF k <= 13 THEN TailO(c, k - 2)
    ELSE IF k = 14 THEN MoveTo(BSide(c)[1], BSide(c)[2]) \o TailO(c, 12)
    ELSE IF k = 15 THEN << ToX(BSide(c)[1]) >> \o TailO(c, 12)
    ELSE TailO(c, k - 4)
Left(f, c, k) == IF f = "X" THEN LeftX(c, k) ELSE LeftO(c, k)
After(e) == IF e \in Cells THEN PlanX(e) ELSE <<>>

\* Mark n is being drawn on square c; the X on e is still to come, if there is one.
Marking(n, c, k, e) ==
    /\ Stood(Owner(n), c, k, Far(origin, n), motor, pos, pen, cell, ink[c])
    /\ todo = Left(Owner(n), c, k) \o After(e)
    /\ \/ e = NoCell /\ game.turn = n + 1
       \/ e \in Cells \ {c} /\ Owner(n) = "O" /\ game.turn = n + 2 /\ ~Inked(ink[e])
    /\ \A d \in Cells \ {c} : Inked(ink[d]) => MarkOf(origin, n, d, ink[d])
    /\ \A d \in Free(game.board) : d \notin {c, e} /\ ~Inked(ink[d])

\* The lines of the board are being drawn, before the first X.
Lining ==
    /\ \E k \in 1..Len(DrawBoard) :
          LET s == SubSeq(DrawBoard, k, Len(DrawBoard)) IN
          todo = s \o PlanX(4) /\ Tidy(s, pen, cell)
    /\ game.turn = 1 /\ Free(game.board) = Cells \ {4}
    /\ Offset = origin
    /\ \A d \in Cells : ~Inked(ink[d])

\* The robot waits for the player.
Waiting ==
    /\ todo = <<>> /\ game.turn > 0
    /\ Offset = Far(origin, game.turn)
    /\ \A d \in Cells : Inked(ink[d]) => MarkOf(origin, game.turn, d, ink[d])
    /\ \A d \in Free(game.board) : ~Inked(ink[d])

\* No game is on.
Off ==
    /\ game.turn = 0 /\ cell = NoCell
    /\ \A k \in 1..Len(todo) : todo[k] \in Steering
    /\ \A d \in Cells : Inked(ink[d]) => MarkOf(origin, 9, d, ink[d])

Tracked ==
    \/ Off \/ Waiting \/ Lining
    \/ \E n \in 0..8, c \in Cells, k \in 1..18, e \in Cells \cup {NoCell} :
          k <= Size(Owner(n)) /\ Marking(n, c, k, e)

PlotterInv == Types /\ Playing /\ Tidied /\ (~disturbed => Lawful /\ Tracked)
-----------------------------------------------------------------------------
(* Sequences of instructions.                                                    *)

(* The first of a sequence and the others.                                       *)
LEMMA Peel ==
    ASSUME NEW a \in Instructions, NEW s \in Seq(Instructions)
    PROVE  /\ << a >> \o s \in Seq(Instructions) /\ << a >> \o s # <<>>
           /\ Head(<< a >> \o s) = a /\ Tail(<< a >> \o s) = s
<1> DEFINE t == << a >> \o s
<1>1. << a >> \in Seq(Instructions) /\ Len(<< a >>) = 1 /\ << a >>[1] = a
  OBVIOUS
<1>2. /\ t \in Seq(Instructions) /\ Len(t) = 1 + Len(s) /\ Len(s) \in Nat
      /\ \A i \in 1..(1 + Len(s)) : t[i] = IF i <= 1 THEN << a >>[i] ELSE s[i - 1]
  BY <1>1, ConcatProperties, LenProperties
<1> HIDE DEF t
<1>3. t # <<>> /\ t[1] = a
  BY <1>1, <1>2
<1>4. Head(t) = a
  BY <1>2, <1>3
<1>5. /\ Tail(t) \in Seq(Instructions) /\ Len(Tail(t)) = Len(s)
      /\ \A i \in 1..Len(s) : Tail(t)[i] = s[i]
  <2>1. /\ Tail(t) \in Seq(Instructions) /\ Len(Tail(t)) = Len(t) - 1
        /\ \A i \in 1..Len(Tail(t)) : Tail(t)[i] = t[i + 1]
    BY <1>2, <1>3, HeadTailProperties
  <2> QED  BY <1>2, <2>1
<1>6. Tail(t) = s
  BY <1>5, SeqEqual
<1> QED  BY <1>2, <1>3, <1>4, <1>6 DEF t

(* Two sequences one after the other.                                            *)
LEMMA Joined ==
    ASSUME NEW s \in Seq(Instructions), NEW t \in Seq(Instructions)
    PROVE  /\ s \o t \in Seq(Instructions)
           /\ Len(s) \in Nat /\ Len(t) \in Nat /\ Len(s \o t) = Len(s) + Len(t)
           /\ \A i \in 1..Len(s) : (s \o t)[i] = s[i]
           /\ \A i \in 1..Len(t) : (s \o t)[Len(s) + i] = t[i]
           /\ \A i \in 1..Len(s \o t) : \/ i \in 1..Len(s)
                                        \/ i - Len(s) \in 1..Len(t) /\ (s \o t)[i] = t[i - Len(s)]
<1>1. /\ s \o t \in Seq(Instructions) /\ Len(s \o t) = Len(s) + Len(t)
      /\ \A i \in 1..(Len(s) + Len(t)) : (s \o t)[i] = IF i <= Len(s) THEN s[i] ELSE t[i - Len(s)]
      /\ Len(s) \in Nat /\ Len(t) \in Nat
  BY ConcatProperties, LenProperties
<1> QED  BY <1>1

(* What a sequence contains, or ends with, in terms of its parts.                  *)
LEMMA Joining ==
    ASSUME NEW s \in Seq(Instructions), NEW t \in Seq(Instructions), NEW op, NEW last
    PROVE  /\ None(s, op) /\ None(t, op) => None(s \o t, op)
           /\ Ends(t, op, last) => Ends(s \o t, op, last)
           /\ Ends(s, op, last) /\ None(t, op) => Ends(s \o t, op, last)
           /\ t = << last >> => Ends(s \o t, op, last)
<1> DEFINE w == s \o t
<1>1. /\ w \in Seq(Instructions)
      /\ Len(s) \in Nat /\ Len(t) \in Nat /\ Len(w) = Len(s) + Len(t)
      /\ \A i \in 1..Len(s) : w[i] = s[i]
      /\ \A i \in 1..Len(t) : w[Len(s) + i] = t[i]
      /\ \A i \in 1..Len(w) : i \in 1..Len(s) \/ (i - Len(s) \in 1..Len(t) /\ w[i] = t[i - Len(s)])
  BY Joined
<1> HIDE DEF w
<1>2. None(s, op) /\ None(t, op) => None(w, op)
  BY <1>1 DEF None
<1>3. ASSUME Ends(t, op, last) PROVE Ends(w, op, last)
  <2>1. PICK u \in 1..Len(t) : t[u] = last /\ \A k \in (u + 1)..Len(t) : t[k].op # op
    BY <1>3 DEF Ends
  <2>2. Len(s) + u \in 1..Len(w) /\ w[Len(s) + u] = last
    BY <1>1, <2>1
  <2>3. \A k \in (Len(s) + u + 1)..Len(w) : w[k].op # op
    <3> TAKE k \in (Len(s) + u + 1)..Len(w)
    <3>1. k - Len(s) \in (u + 1)..Len(t) /\ k \in 1..Len(w) /\ k \notin 1..Len(s)
      BY <1>1, <2>1
    <3>2. w[k] = t[k - Len(s)]
      BY <1>1, <3>1
    <3> QED  BY <2>1, <3>1, <3>2
  <2> QED  BY <2>2, <2>3 DEF Ends
<1>4. ASSUME Ends(s, op, last), None(t, op) PROVE Ends(w, op, last)
  <2>1. PICK u \in 1..Len(s) : s[u] = last /\ \A k \in (u + 1)..Len(s) : s[k].op # op
    BY <1>4 DEF Ends
  <2>2. u \in 1..Len(w) /\ w[u] = last
    <3>1. w[u] = s[u]
      BY <1>1
    <3> QED  BY <1>1, <2>1, <3>1
  <2>3. \A k \in (u + 1)..Len(w) : w[k].op # op
    <3> TAKE k \in (u + 1)..Len(w)
    <3>1. k \in 1..Len(w)
      BY <1>1, <2>1
    <3>2. CASE k \in 1..Len(s)
      <4>1. k \in (u + 1)..Len(s) /\ w[k] = s[k]
        BY <1>1, <3>2
      <4> QED  BY <2>1, <4>1
    <3>3. CASE k \notin 1..Len(s)
      BY <1>1, <1>4, <3>1, <3>3 DEF None
    <3> QED  BY <3>2, <3>3
  <2> QED  BY <2>2, <2>3 DEF Ends
<1>5. ASSUME t = << last >> PROVE Ends(w, op, last)
  <2>1. Len(t) = 1 /\ t[1] = last
    BY <1>5
  <2>2. Ends(t, op, last)
    BY <2>1 DEF Ends
  <2> QED  BY <1>3, <2>2
<1> QED  BY <1>2, <1>3, <1>4, <1>5 DEF w

(* What is left of a sequence once its first instruction has been carried out.      *)
LEMMA Shortened ==
    ASSUME NEW s \in Seq(Instructions), s # <<>>, NEW op, NEW last
    PROVE  /\ None(s, op) => None(Tail(s), op)
           /\ Ends(s, op, last) => \/ Ends(Tail(s), op, last)
                                   \/ Head(s) = last /\ None(Tail(s), op)
<1>1. /\ Tail(s) \in Seq(Instructions) /\ Len(Tail(s)) = Len(s) - 1
      /\ \A i \in 1..Len(Tail(s)) : Tail(s)[i] = s[i + 1]
      /\ Len(s) \in Nat /\ Len(s) # 0 /\ Head(s) = s[1]
  BY HeadTailProperties, LenProperties, EmptySeq
<1> DEFINE t == Tail(s)
<1> HIDE DEF t
<1>2. /\ Len(t) = Len(s) - 1 /\ \A i \in 1..Len(t) : t[i] = s[i + 1] /\ i + 1 \in 1..Len(s)
  BY <1>1 DEF t
<1>3. None(s, op) => None(t, op)
  BY <1>1, <1>2 DEF None
<1>4. ASSUME Ends(s, op, last) PROVE Ends(t, op, last) \/ (Head(s) = last /\ None(t, op))
  <2>1. PICK u \in 1..Len(s) : s[u] = last /\ \A k \in (u + 1)..Len(s) : s[k].op # op
    BY <1>4 DEF Ends
  <2>2. \A k \in u..Len(t) : t[k].op # op
    BY <1>1, <1>2, <2>1
  <2>3. CASE u = 1
    BY <1>1, <2>1, <2>2, <2>3 DEF None
  <2>4. CASE u # 1
    <3>1. u - 1 \in 1..Len(t) /\ t[u - 1] = last /\ (u - 1) + 1 = u
      BY <1>1, <1>2, <2>1, <2>4
    <3> QED  BY <2>2, <3>1 DEF Ends
  <2> QED  BY <2>3, <2>4
<1> QED  BY <1>3, <1>4 DEF t
-----------------------------------------------------------------------------
(* The programs of the commands.                                                 *)

(* Conversions between millimetres and steps stay among the integers.              *)
LEMMA Conversions == \A n \in Int : MmToStep(n) \in Int /\ StepToMm(n) \in Int
BY DEF MmToStep, StepToMm, Trunc, Abs

(* A piece of a drawing: it does not say which square is meant.                    *)
Piece(s) == s \in Seq(Instructions) /\ None(s, "on")

(* The calls that drawings are made of.                                            *)
LEMMA Pieces ==
    /\ \A x, y \in Int : Piece(MoveTo(x, y)) /\ None(MoveTo(x, y), "pen")
    /\ \A x, y \in Int : Piece(MoveToRel(x, y)) /\ None(MoveToRel(x, y), "pen")
    /\ \A x, y \in Int : Piece(Move(x, y)) /\ None(Move(x, y), "pen")
    /\ \A n \in Int : Piece(MoveX(n)) /\ Piece(MoveY(n)) /\ None(MoveY(n), "pen")
    /\ Piece(ServoUp) /\ Piece(ServoDown) /\ ServoUp = << PenUp >>
<1>1. ASSUME NEW x \in Int, NEW y \in Int
      PROVE  /\ Piece(MoveTo(x, y)) /\ None(MoveTo(x, y), "pen")
             /\ Piece(MoveToRel(x, y)) /\ None(MoveToRel(x, y), "pen")
             /\ Piece(Move(x, y)) /\ None(Move(x, y), "pen")
  <2>1. /\ [op |-> "toY", mm |-> y] \in Instructions /\ [op |-> "toX", mm |-> x] \in Instructions
        /\ [op |-> "rel", x |-> x, y |-> y] \in Instructions
        /\ [op |-> "turn", one |-> x + y, two |-> x - y] \in Instructions
    BY DEF Instructions, Steering, Relative, Turning
  <2>2. Piece(MoveTo(x, y)) /\ None(MoveTo(x, y), "pen")
    BY <2>1 DEF Piece, None, MoveTo
  <2>3. Piece(MoveToRel(x, y)) /\ None(MoveToRel(x, y), "pen")
    BY <2>1 DEF Piece, None, MoveToRel
  <2>4. Piece(Move(x, y)) /\ None(Move(x, y), "pen")
    BY <2>1 DEF Piece, None, Move
  <2> QED  BY <2>2, <2>3, <2>4
<1>2. \A n \in Int : Piece(MoveX(n)) /\ Piece(MoveY(n)) /\ None(MoveY(n), "pen")
  BY <1>1 DEF MoveX, MoveY
<1>3. Piece(ServoUp) /\ Piece(ServoDown) /\ ServoUp = << PenUp >>
  <2>1. [op |-> "pen", to |-> "up"] \in Instructions /\ [op |-> "pen", to |-> "down"] \in Instructions
    BY DEF Instructions, Lifting
  <2> QED  BY <2>1 DEF Piece, None, ServoUp, ServoDown, PenUp
<1> QED  BY <1>1, <1>2, <1>3

(* Pieces one after the other are a piece.                                         *)
LEMMA PiecesJoin ==
    /\ \A s, t : Piece(s) /\ Piece(t) => Piece(s \o t)
    /\ \A s : Piece(s) => Ends(s \o ServoUp, "pen", PenUp)
    /\ \A s, t : Piece(s) /\ Piece(t) /\ Ends(s, "pen", PenUp) /\ None(t, "pen")
          => Ends(s \o t, "pen", PenUp)
    /\ \A s, t : Piece(s) /\ Piece(t) /\ Ends(t, "pen", PenUp) => Ends(s \o t, "pen", PenUp)
BY Joined, Joining, Pieces DEF Piece

(* The strokes at an angle and the diagonals.                                       *)
LEMMA Strokes ==
    /\ \A a \in {0, 45, 68, 122, 135, 144, 214, 238, 292} : \A n \in Int : Piece(MoveAngle(a, n))
    /\ \A right, up \in BOOLEAN : \A n \in Int : Piece(MoveDiagonal(right, up, n))
<1>1. ASSUME NEW a \in {0, 45, 68, 122, 135, 144, 214, 238, 292}, NEW n \in Int
      PROVE  Piece(MoveAngle(a, n))
  <2> DEFINE times == (n + Smooth(a) - 1) \div Smooth(a)
  <2>1. times \in Int
    BY DEF Smooth
  <2>2. AngleStep(a)[1] \in Int /\ AngleStep(a)[2] \in Int
    <3>1. /\ AngleStep(0) = <<6, 0>> /\ AngleStep(45) = <<1, 1>> /\ AngleStep(68) = <<2, 5>>
          /\ AngleStep(122) = <<-3, 5>> /\ AngleStep(135) = <<-1, 1>>
          /\ AngleStep(144) = <<-4, 3>> /\ AngleStep(214) = <<-4, -3>>
          /\ AngleStep(238) = <<-3, -5>> /\ AngleStep(292) = <<2, -5>>
      BY DEF AngleStep
    <3> QED  BY <3>1
  <2>3. MoveAngle(a, n) = Move(times * AngleStep(a)[1], times * AngleStep(a)[2])
    BY DEF MoveAngle
  <2> HIDE DEF times
  <2>4. times * AngleStep(a)[1] \in Int /\ times * AngleStep(a)[2] \in Int
    BY <2>1, <2>2
  <2> QED  BY <2>3, <2>4, Pieces
<1>2. ASSUME NEW right \in BOOLEAN, NEW up \in BOOLEAN, NEW n \in Int
      PROVE  Piece(MoveDiagonal(right, up, n))
  <2>1. \A one, two \in Int : Piece(<< [op |-> "turn", one |-> one, two |-> two] >>)
    <3> TAKE one \in Int, two \in Int
    <3>1. [op |-> "turn", one |-> one, two |-> two] \in Instructions
      BY DEF Instructions, Turning
    <3> QED  BY <3>1 DEF Piece, None
  <2> QED  BY <2>1 DEF MoveDiagonal
<1> QED  BY <1>1, <1>2

(* The circles are pieces that end with the pen lifted.                                *)
LEMMA CircleEnds ==
    \A r \in {80, 90} : Piece(DrawCircle(r)) /\ Ends(DrawCircle(r), "pen", PenUp)
<1> DEFINE s == Move(55, 62) \o Move(-62, 42) \o Move(-42, -62) \o Move(50, -42)
           t == Move(62, 71) \o Move(-69, 47) \o Move(-49, -71) \o Move(57, -47)
<1>1. Piece(s) /\ Piece(t)
  BY Pieces, PiecesJoin
<1>2. ASSUME NEW w, Piece(w)
      PROVE  Piece(ServoDown \o w \o ServoUp) /\ Ends(ServoDown \o w \o ServoUp, "pen", PenUp)
  BY <1>2, Pieces, PiecesJoin
<1>3. DrawCircle(80) = ServoDown \o s \o ServoUp /\ DrawCircle(90) = ServoDown \o t \o ServoUp
  <2>1. \A r : DrawCircle(r) = ServoDown \o (CASE r = 80 -> s [] r = 90 -> t) \o ServoUp
    BY DEF DrawCircle
  <2> HIDE DEF s, t
  <2>2. (CASE 80 = 80 -> s [] 80 = 90 -> t) = s /\ (CASE 90 = 80 -> s [] 90 = 90 -> t) = t
    OBVIOUS
  <2> QED  BY <2>1, <2>2
<1> HIDE DEF s, t
<1>4. Piece(DrawCircle(80)) /\ Ends(DrawCircle(80), "pen", PenUp)
  BY <1>1, <1>2, <1>3
<1>5. Piece(DrawCircle(90)) /\ Ends(DrawCircle(90), "pen", PenUp)
  BY <1>1, <1>2, <1>3
<1> QED  BY <1>4, <1>5

(* So is the X.                                                                        *)
LEMMA XEnds == Piece(DrawX(100)) /\ Ends(DrawX(100), "pen", PenUp)
<1> DEFINE a == MoveAngle(45, 2 * 100)
           b == MoveAngle(135, Trunc(100, 22, 10))
           l == MoveY(-Trunc(100, 975, 1000))
<1>1. Trunc(100, 22, 10) \in Int /\ -Trunc(100, 975, 1000) \in Int /\ 2 * 100 \in Int
  BY DEF Trunc, Abs
<1>2. Piece(a) /\ Piece(b) /\ Piece(MoveY(-100)) /\ Piece(l) /\ None(l, "pen")
  BY <1>1, Pieces, Strokes
<1>3. DrawX(100) = ServoDown \o a \o ServoUp \o MoveY(-100) \o ServoDown \o b \o ServoUp \o l
  BY DEF DrawX
<1> HIDE DEF a, b, l
<1>4. Piece(ServoDown \o a \o ServoUp \o MoveY(-100) \o ServoDown \o b)
  BY <1>2, Pieces, PiecesJoin
<1> QED  BY <1>2, <1>3, <1>4, Pieces, PiecesJoin

(* Every figure is a piece that ends with the pen lifted.                            *)
LEMMA FigureEnds ==
    ASSUME NEW f \in Figures
    PROVE  Piece(ShowFigure(f)) /\ Ends(ShowFigure(f), "pen", PenUp)
<1>1. ASSUME NEW s, Piece(s), Ends(s, "pen", PenUp)
      PROVE  LET p == MoveTo(0, -60) \o s \o MoveTo(0, 0)
             IN  Piece(p) /\ Ends(p, "pen", PenUp)
  <2>1. /\ Piece(MoveTo(0, -60)) /\ Piece(MoveTo(0, 0)) /\ None(MoveTo(0, 0), "pen")
    BY Pieces
  <2>2. Piece(MoveTo(0, -60) \o s) /\ Ends(MoveTo(0, -60) \o s, "pen", PenUp)
    BY <1>1, <2>1, PiecesJoin
  <2> QED  BY <2>1, <2>2, PiecesJoin
<1>2. Piece(DrawSquare(100)) /\ Ends(DrawSquare(100), "pen", PenUp)
  <2>1. Piece(ServoDown \o MoveX(100) \o MoveY(100) \o MoveX(-100) \o MoveY(-100))
    BY Pieces, PiecesJoin
  <2> QED  BY <2>1, Pieces, PiecesJoin DEF DrawSquare
<1>5. Piece(DrawTriangle(120)) /\ Ends(DrawTriangle(120), "pen", PenUp)
  <2>1. Piece(ServoDown \o MoveX(120) \o MoveAngle(122, 120) \o MoveAngle(238, 120))
    BY Pieces, Strokes, PiecesJoin
  <2> QED  BY <2>1, Pieces, PiecesJoin DEF DrawTriangle
<1>6. Piece(DrawStar(120)) /\ Ends(DrawStar(120), "pen", PenUp)
  <2>1. /\ Trunc(120, 11, 10) \in Int /\ Trunc(120, 125, 100) \in Int
        /\ Trunc(120, 95, 100) \in Int /\ Trunc(120, 12, 10) \in Int
    BY DEF Trunc, Abs
  <2> DEFINE a == MoveAngle(68, 120)
             b == MoveAngle(292, Trunc(120, 11, 10))
             c == MoveAngle(144, Trunc(120, 125, 100))
             d == MoveAngle(0, Trunc(120, 95, 100))
             e == MoveAngle(214, Trunc(120, 12, 10))
  <2>2. Piece(a) /\ Piece(b) /\ Piece(c) /\ Piece(d) /\ Piece(e)
    BY <2>1, Strokes
  <2>3. DrawStar(120) = ServoDown \o a \o b \o c \o d \o e \o ServoUp
    BY DEF DrawStar
  <2> HIDE DEF a, b, c, d, e
  <2>4. Piece(ServoDown \o a \o b \o c \o d \o e)
    BY <2>2, Pieces, PiecesJoin
  <2> QED  BY <2>3, <2>4, Pieces, PiecesJoin
<1>7. Piece(DrawHeart) /\ Ends(DrawHeart, "pen", PenUp)
  <2> DEFINE s == ServoDown \o MoveDiagonal(TRUE, TRUE, 100)
                  \o Move(3, 21) \o Move(-35, 23) \o Move(-23, -30)
             t == s \o Move(-35, 32) \o Move(-23, -34) \o Move(1, -4)
                  \o MoveDiagonal(TRUE, FALSE, 130)
  <2>1. DrawHeart = t \o ServoUp
    BY DEF DrawHeart
  <2>2. Piece(MoveDiagonal(TRUE, TRUE, 100)) /\ Piece(MoveDiagonal(TRUE, FALSE, 130))
    <3>1. TRUE \in BOOLEAN /\ FALSE \in BOOLEAN /\ 100 \in Int /\ 130 \in Int
      OBVIOUS
    <3> QED  BY <3>1, Strokes, Zenon
  <2>3. \A x, y \in Int : Piece(Move(x, y))
    BY Pieces
  <2>4. /\ Piece(Move(3, 21)) /\ Piece(Move(-35, 23)) /\ Piece(Move(-23, -30))
        /\ Piece(Move(-35, 32)) /\ Piece(Move(-23, -34)) /\ Piece(Move(1, -4))
    BY <2>3
  <2>5. Piece(s)
    BY <2>2, <2>4, Pieces, PiecesJoin
  <2> HIDE DEF s
  <2>6. Piece(t)
    BY <2>2, <2>4, <2>5, PiecesJoin
  <2> HIDE DEF t
  <2> QED  BY <2>1, <2>6, Pieces, PiecesJoin
<1>8. Piece(DrawFigure(f)) /\ Ends(DrawFigure(f), "pen", PenUp)
  <2>1. /\ DrawFigure("C") = DrawSquare(100) /\ DrawFigure("O") = DrawCircle(80)
        /\ DrawFigure("X") = DrawX(100) /\ DrawFigure("T") = DrawTriangle(120)
        /\ DrawFigure("S") = DrawStar(120) /\ DrawFigure("H") = DrawHeart
    BY DEF DrawFigure
  <2> QED  BY <1>2, <1>5, <1>6, <1>7, <2>1, CircleEnds, XEnds DEF Figures
<1> QED  BY <1>1, <1>8 DEF ShowFigure

(* The lines of the board are moves of the pen and of moveTo, and leave it lifted.     *)
LEMMA BoardEnds == Piece(DrawBoard) /\ Ends(DrawBoard, "pen", PenUp)
<1> DEFINE a == MoveTo(-60, -40) \o ServoDown \o MoveTo(60, -40) \o ServoUp
           b == a \o MoveTo(60, -80) \o ServoDown \o MoveTo(-60, -80) \o ServoUp
           c == b \o MoveTo(-20, 0) \o ServoDown \o MoveTo(-20, -120) \o ServoUp
           d == c \o MoveTo(20, -120) \o ServoDown \o MoveTo(20, 0)
<1>1. DrawBoard = d \o ServoUp \o MoveTo(0, 20)
  BY DEF DrawBoard
<1>2. ASSUME NEW s, Piece(s), NEW x \in Int, NEW y \in Int, NEW v \in Int, NEW w \in Int
      PROVE  /\ Piece(s \o MoveTo(x, y) \o ServoDown \o MoveTo(v, w))
             /\ Piece(s \o MoveTo(x, y) \o ServoDown \o MoveTo(v, w) \o ServoUp)
  BY <1>2, Pieces, PiecesJoin
<1>3. Piece(a)
  BY Pieces, PiecesJoin
<1> HIDE DEF a
<1>4. Piece(b)
  BY <1>2, <1>3
<1> HIDE DEF b
<1>5. Piece(c)
  BY <1>2, <1>4
<1> HIDE DEF c
<1>6. Piece(d)
  BY <1>2, <1>5
<1> HIDE DEF d
<1>7. Piece(d \o ServoUp) /\ Ends(d \o ServoUp, "pen", PenUp)
  BY <1>6, Pieces, PiecesJoin
<1>8. Piece(MoveTo(0, 20)) /\ None(MoveTo(0, 20), "pen")
  BY Pieces
<1> QED  BY <1>1, <1>7, <1>8, PiecesJoin

(* A program of marks: nothing but instructions, and tidy at its end.                 *)
Marked(s) == /\ s \in Seq(Instructions)
             /\ Ends(s, "pen", PenUp) /\ Ends(s, "on", AimOff)

(* So is the drawing of one, and one after another program.                            *)
LEMMA MarkEnds ==
    /\ \A f \in {"O", "X"}, c \in Cells : Marked(DrawInBoard(f, c))
    /\ \A s, t : s \in Seq(Instructions) /\ Marked(t) => Marked(s \o t)
<1>1. \A s, t : s \in Seq(Instructions) /\ Marked(t) => Marked(s \o t)
  BY Joined, Joining DEF Marked
<1>2. ASSUME NEW f \in {"O", "X"}, NEW c \in Cells PROVE Marked(DrawInBoard(f, c))
  <2>1. StartX(c) \in Int /\ StartY(c) \in Int
    BY DEF StartX, StartY, Cells
  <2>2. /\ On(c) \in Seq(Instructions) /\ On(NoCell) \in Seq(Instructions)
        /\ On(NoCell) = << AimOff >> /\ None(On(NoCell), "pen")
    <3>1. /\ [op |-> "on", cell |-> c] \in Instructions
          /\ [op |-> "on", cell |-> NoCell] \in Instructions
      BY DEF Instructions, Aiming
    <3> QED  BY <3>1 DEF On, AimOff, None
  <2> DEFINE s == IF f = "O" THEN MoveToRel(15, 0) \o DrawCircle(90) \o MoveToRel(-15, 0)
                             ELSE DrawX(100)
             m == MoveTo(StartX(c), StartY(c))
  <2>3. Piece(s) /\ Ends(s, "pen", PenUp)
    <3>1. CASE f = "O"
      <4>1. Piece(DrawCircle(90)) /\ Ends(DrawCircle(90), "pen", PenUp)
        BY CircleEnds
      <4>2. /\ Piece(MoveToRel(15, 0)) /\ Piece(MoveToRel(-15, 0))
            /\ None(MoveToRel(-15, 0), "pen")
        BY Pieces
      <4>3. /\ Piece(MoveToRel(15, 0) \o DrawCircle(90))
            /\ Ends(MoveToRel(15, 0) \o DrawCircle(90), "pen", PenUp)
        BY <4>1, <4>2, PiecesJoin
      <4> QED  BY <3>1, <4>2, <4>3, PiecesJoin
    <3>2. CASE f # "O"
      BY <3>2, XEnds
    <3> QED  BY <3>1, <3>2
  <2>4. DrawInBoard(f, c) = On(c) \o m \o s \o MoveTo(0, 20) \o On(NoCell)
    BY DEF DrawInBoard, StartX, StartY
  <2>5. /\ m \in Seq(Instructions) /\ MoveTo(0, 20) \in Seq(Instructions)
        /\ None(MoveTo(0, 20), "pen")
    <3> HIDE DEF m
    <3>1. \A x, y \in Int : MoveTo(x, y) \in Seq(Instructions) /\ None(MoveTo(x, y), "pen")
      BY Pieces DEF Piece
    <3>2. MoveTo(0, 20) \in Seq(Instructions) /\ None(MoveTo(0, 20), "pen")
      BY <3>1
    <3>3. m \in Seq(Instructions)
      BY <2>1, <3>1 DEF m
    <3> QED  BY <3>2, <3>3
  <2> HIDE DEF m, s
  <2>6. /\ On(c) \o m \o s \in Seq(Instructions) /\ Ends(On(c) \o m \o s, "pen", PenUp)
    <3>1. On(c) \o m \in Seq(Instructions)
      BY <2>2, <2>5, Joined
    <3> QED  BY <2>3, <3>1, Joined, Joining DEF Piece
  <2>7. /\ On(c) \o m \o s \o MoveTo(0, 20) \in Seq(Instructions)
        /\ Ends(On(c) \o m \o s \o MoveTo(0, 20), "pen", PenUp)
    BY <2>5, <2>6, Joined, Joining
  <2>8. /\ Ends(DrawInBoard(f, c), "pen", PenUp) /\ Ends(DrawInBoard(f, c), "on", AimOff)
        /\ DrawInBoard(f, c) \in Seq(Instructions)
    <3> DEFINE w == On(c) \o m \o s \o MoveTo(0, 20)
    <3>1. w \in Seq(Instructions) /\ Ends(w, "pen", PenUp) /\ DrawInBoard(f, c) = w \o On(NoCell)
      BY <2>4, <2>7
    <3> HIDE DEF w
    <3>2. w \o On(NoCell) \in Seq(Instructions)
      BY <2>2, <3>1, Joined
    <3>3. Ends(w \o On(NoCell), "pen", PenUp)
      BY <2>2, <3>1, Joining
    <3>4. Ends(w \o On(NoCell), "on", AimOff)
      BY <2>2, <3>1, Joining
    <3> QED  BY <3>1, <3>2, <3>3, <3>4
  <2> QED  BY <2>8 DEF Marked
<1> QED  BY <1>1, <1>2
-----------------------------------------------------------------------------
(* Types, the game, and the tidiness of programs, whatever has happened.              *)

(* The player of this module is the one of TatetiProofs.                              *)
LEMMA SamePlayer ==
    /\ Engine!Cells = Cells /\ Engine!Games = Games
    /\ Engine!CleanBoard = CleanBoard /\ Engine!StartGame = StartGame
    /\ \A b : Engine!Free(b) = Free(b) /\ (Engine!Decided(b) <=> Decided(b))
    /\ \A g, c, p : Engine!SetMove(g, c, p) = SetMove(g, c, p)
    /\ \A g : Engine!NextMove(g) = NextMove(g)
<1>1. /\ Engine!Cells = Cells /\ Engine!Games = Games
      /\ Engine!CleanBoard = CleanBoard /\ Engine!StartGame = StartGame
      /\ \A g, c, p : Engine!SetMove(g, c, p) = SetMove(g, c, p)
  BY DEF Cells, Games, Marks, NoCell, CleanBoard, StartGame, SetMove, Blank,
         Engine!Cells, Engine!Games, Engine!Marks, Engine!NoCell, Engine!CleanBoard,
         Engine!StartGame, Engine!SetMove, Engine!Blank
<1>2. \A b : Engine!Free(b) = Free(b) /\ (Engine!Decided(b) <=> Decided(b))
  BY DEF Cells, Free, Decided, HasLine, Complete, Lines,
         Engine!Cells, Engine!Free, Engine!Decided, Engine!HasLine, Engine!Complete, Engine!Lines
<1>3. \A g : Engine!NextMove(g) = NextMove(g)
  BY DEF NextMove, Prefer, SecondMove, ThirdMove, FourthMove, Opposite, Block, Cells, NoCell,
         Engine!NextMove, Engine!Prefer, Engine!SecondMove, Engine!ThirdMove,
         Engine!FourthMove, Engine!Opposite, Engine!Block, Engine!Cells, Engine!NoCell
<1> QED  BY <1>1, <1>2, <1>3

(* The games in which a board is drawn and forgotten.                                  *)
LEMMA Openings ==
    /\ Engine!Logged(CleanBoard) /\ Engine!Strategy(CleanBoard) /\ CleanBoard.turn = 0
    /\ Engine!Logged(StartGame) /\ Engine!Strategy(StartGame) /\ StartGame.turn = 1
    /\ Free(StartGame.board) = Cells \ {4}
<1>1. /\ Engine!Logged(CleanBoard) /\ Engine!Strategy(CleanBoard) /\ CleanBoard.turn = 0
      /\ Engine!Logged(StartGame) /\ Engine!Strategy(StartGame) /\ StartGame.turn = 1
  BY SamePlayer, Engine!Starts
<1>2. Free(StartGame.board) = Cells \ {4}
  BY DEF Free, StartGame, SetMove, CleanBoard, Blank, Cells
<1> QED  BY <1>1, <1>2

(* What the log says of the game.                                                      *)
LEMMA GameTyped ==
    ASSUME NEW g, Engine!Logged(g), Engine!Strategy(g)
    PROVE  g \in Games /\ g.turn \in {0, 1, 3, 5, 7, 9} /\ Engine!LogTyped(g)
<1>1. g \in Games /\ g.turn \in {0, 1, 3, 5, 7, 9}
  BY SamePlayer DEF Engine!Logged, Engine!Strategy
<1>2. \A k \in 0..9 : k < g.turn => g.moves[k] \in Engine!Cells
  BY DEF Engine!Logged
<1> QED  BY <1>1, <1>2, SamePlayer DEF Engine!LogTyped

(* A log holds moves after any other move too, of the game or not.                     *)
LEMMA AnyAnswered ==
    ASSUME NEW g, Engine!LogTyped(g), NEW c \in Cells
    PROVE  /\ Engine!LogTyped(JugarTATETI(g, c).game)
           /\ JugarTATETI(g, c).next \in Cells \cup {NoCell}
<1>1. c \in Engine!Cells /\ Engine!Moves = Cells \cup {NoCell}
  BY SamePlayer DEF Engine!Moves, Engine!NoCell, NoCell
<1>2. Engine!JugarTATETI(g, c) = JugarTATETI(g, c)
  BY SamePlayer DEF JugarTATETI, Engine!JugarTATETI
<1>3. /\ Engine!LogTyped(Engine!JugarTATETI(g, c).game)
      /\ Engine!JugarTATETI(g, c).next \in Engine!Moves
  BY <1>1, Engine!JugarTyped
<1> QED  BY <1>1, <1>2, <1>3

(* The robot's answer to a legal move.                                                  *)
LEMMA Answered ==
    ASSUME NEW g, Engine!Logged(g), Engine!Strategy(g), g.turn > 0, ~Decided(g.board),
           NEW c \in Free(g.board)
    PROVE  LET r == JugarTATETI(g, c) IN
           /\ Engine!Logged(r.game) /\ Engine!Strategy(r.game)
           /\ r.game.turn = g.turn + 2 /\ r.game.turn \in 3..9
           /\ c \in Cells /\ r.next \in Cells \ {c} /\ r.next \in Free(g.board)
           /\ Free(r.game.board) = Free(g.board) \ {c, r.next}
<1> DEFINE h == SetMove(g, c, "O")
           a == NextMove(h)
           n == SetMove(h, a, "X")
<1>1. /\ Engine!Logged(h) /\ h.moves[0] = 4
      /\ h.turn = g.turn + 1 /\ h.board = [g.board EXCEPT ![c] = "O"]
      /\ a \in Free(h.board)
      /\ Engine!Logged(n) /\ Engine!Strategy(n) /\ n.turn = g.turn + 2
      /\ n.board = [h.board EXCEPT ![a] = "X"]
  BY SamePlayer, Engine!Answers
<1>2. JugarTATETI(g, c) = [game |-> n, next |-> a]
  BY <1>1 DEF JugarTATETI
<1> HIDE DEF n, a, h
<1>3. /\ g \in Games /\ g.turn \in {0, 1, 3, 5, 7, 9} /\ n \in Games
      /\ n.turn \in {0, 1, 3, 5, 7, 9}
  BY <1>1, GameTyped
<1>4. n.turn \in 3..9
  BY <1>1, <1>3
<1>5. c \in Cells /\ g.board \in [Cells -> Marks \cup {"E"}]
  BY <1>3 DEF Games, Free
<1>6. a \in Cells /\ h.board[a] = "E"
  BY <1>1 DEF Free
<1>7. a # c /\ g.board[a] = "E"
  BY <1>1, <1>5, <1>6
<1>8. Free(n.board) = Free(g.board) \ {c, a}
  BY <1>1, <1>5, <1>6, <1>7 DEF Free
<1> QED  BY <1>1, <1>2, <1>4, <1>5, <1>6, <1>7, <1>8 DEF Free

(* What an instruction leaves tidy.                                                      *)
LEMMA TidyTail ==
    ASSUME NEW s \in Seq(Instructions), s # <<>>, NEW p, NEW c, Tidy(s, p, c), NEW q, NEW d,
           q = IF Head(s).op = "pen" THEN Head(s).to ELSE p,
           d = IF Head(s).op = "on" THEN Head(s).cell ELSE c
    PROVE  Tidy(Tail(s), q, d)
<1>1. /\ \A op : None(s, op) => Head(s).op # op /\ None(Tail(s), op)
      /\ \A op, last : Ends(s, op, last) => \/ Ends(Tail(s), op, last)
                                            \/ Head(s) = last /\ None(Tail(s), op)
  <2>1. Head(s) = s[1] /\ 1 \in 1..Len(s)
    BY LenProperties, EmptySeq
  <2>2. \A op : None(s, op) => Head(s).op # op
    BY <2>1 DEF None
  <2> QED  BY <2>2, Shortened
<1>2. Ends(Tail(s), "pen", PenUp) \/ (None(Tail(s), "pen") /\ q = "up")
  <2>1. PenUp.op = "pen" /\ PenUp.to = "up"
    BY DEF PenUp
  <2>2. Ends(s, "pen", PenUp) \/ (None(s, "pen") /\ p = "up")
    BY DEF Tidy
  <2> QED  BY <1>1, <2>1, <2>2
<1>3. Ends(Tail(s), "on", AimOff) \/ (None(Tail(s), "on") /\ d = NoCell)
  <2>1. AimOff.op = "on" /\ AimOff.cell = NoCell
    BY DEF AimOff
  <2>2. Ends(s, "on", AimOff) \/ (None(s, "on") /\ c = NoCell)
    BY DEF Tidy
  <2> QED  BY <1>1, <2>1, <2>2
<1> QED  BY <1>2, <1>3 DEF Tidy

(* Boxes of ink.                                                                          *)
LEMMA InkTyped ==
    /\ \A a, b \in Boxes : Hull(a, b) \in Boxes
    /\ \A m \in Int \X Int : X(m) \in Int /\ Y(m) \in Int /\ Spot(m) \in Boxes
    /\ NoInk \in Boxes
BY DEF Boxes, Hull, Least, Most, Spot, X, Y, NoInk

(* Both motors turn.                                                                      *)
LEMMA TurnTyped ==
    ASSUME Types, NEW one \in Int, NEW two \in Int, Turn(one, two)
    PROVE  motor' \in Int \X Int /\ ink' \in [Cells -> Boxes]
<1>1. motor' = <<motor[1] + one, motor[2] + two>> /\ motor' \in Int \X Int
  BY DEF Turn, Types
<1>2. Spot(motor) \in Boxes /\ Spot(motor') \in Boxes
  BY <1>1, InkTyped DEF Types
<1>3. CASE pen = "down" /\ cell \in Cells
  <2>1. Hull(Hull(ink[cell], Spot(motor)), Spot(motor')) \in Boxes
    BY <1>2, <1>3, InkTyped DEF Types
  <2>2. ink' = [ink EXCEPT ![cell] = Hull(Hull(ink[cell], Spot(motor)), Spot(motor'))]
    BY <1>1, <1>3 DEF Turn
  <2> QED  BY <1>1, <2>1, <2>2 DEF Types
<1>4. CASE ~(pen = "down" /\ cell \in Cells)
  BY <1>1, <1>4 DEF Turn, Types
<1> QED  BY <1>3, <1>4

(* The kinds of instructions.                                                             *)
LEMMA Kinds ==
    ASSUME NEW i \in Instructions
    PROVE  /\ i.op \in {"toX", "toY"} => i.mm \in Int
           /\ i.op = "turn" => i.one \in Int /\ i.two \in Int
           /\ i.op = "rel" => i.x \in Int /\ i.y \in Int
           /\ i.op = "pen" => i.to \in {"up", "down"}
           /\ i.op = "on" => i.cell \in Cells \cup {NoCell}
           /\ i.op \in {"toX", "toY", "turn", "rel", "pen", "on"}
BY DEF Instructions, Steering, Turning, Relative, Lifting, Aiming

(* The instruction carried out by a step, which is the first one, and its effect.           *)
LEMMA Effects ==
    ASSUME Types, Step
    PROVE  /\ todo # <<>> /\ Head(todo) \in Instructions
           /\ UNCHANGED <<game, origin, disturbed, boards, events>>
           /\ LET i == Head(todo) IN
              /\ pen' = IF i.op = "pen" THEN i.to ELSE pen
              /\ cell' = IF i.op = "on" THEN i.cell ELSE cell
              /\ i.op # "rel" => todo' = Tail(todo)
              /\ i.op \in {"rel", "pen", "on"} => UNCHANGED <<motor, pos, ink>>
              /\ i.op = "rel" =>
                   todo' = MoveTo(StepToMm(pos[1] + MmToStep(i.x)),
                                  StepToMm(pos[2] + MmToStep(i.y))) \o Tail(todo)
              /\ i.op = "toX" => TurnToX(MmToStep(i.mm))
              /\ i.op = "toY" => TurnToY(MmToStep(i.mm))
              /\ i.op = "turn" => Turn(i.one, i.two) /\ pos' = pos
<1>1. todo # <<>> /\ todo \in Seq(Instructions)
  BY DEF Types, Step, StepToX, StepToY, StepTurn, StepRel, StepPen, StepOn, Doing
<1>2. Head(todo) \in Instructions
  BY <1>1, HeadTailProperties
<1>3. CASE StepToX
  BY <1>1, <1>2, <1>3 DEF StepToX, Doing, Done, Kept, counts
<1>4. CASE StepToY
  BY <1>1, <1>2, <1>4 DEF StepToY, Doing, Done, Kept, counts
<1>5. CASE StepTurn
  BY <1>1, <1>2, <1>5 DEF StepTurn, Doing, Done, Kept, counts
<1>6. CASE StepRel
  BY <1>1, <1>2, <1>6 DEF StepRel, Doing, Kept, counts, penVars
<1>7. CASE StepPen
  BY <1>1, <1>2, <1>7 DEF StepPen, Doing, Done, Kept, counts
<1>8. CASE StepOn
  BY <1>1, <1>2, <1>8 DEF StepOn, Doing, Done, Kept, counts, penVars
<1> QED  BY <1>3, <1>4, <1>5, <1>6, <1>7, <1>8 DEF Step

(* A step keeps types and programs tidy.                                                     *)
LEMMA StepKeeps ==
    ASSUME Types, Playing, Tidied, Step
    PROVE  Types' /\ Playing' /\ Tidied'
<1> DEFINE i == Head(todo)
           t == Tail(todo)
<1>1. /\ todo \in Seq(Instructions) /\ todo # <<>> /\ i \in Instructions
      /\ t \in Seq(Instructions)
  BY Effects, HeadTailProperties DEF Types
<1>2. UNCHANGED <<game, origin, disturbed, boards, events>>
  BY Effects
<1>3. Tidy(t, pen', cell')
  <2>1. /\ pen' = IF i.op = "pen" THEN i.to ELSE pen
        /\ cell' = IF i.op = "on" THEN i.cell ELSE cell
    BY Effects
  <2> HIDE DEF i, t
  <2>2. Tidy(todo, pen, cell)
    BY DEF Tidied
  <2> QED  BY <1>1, <2>1, <2>2, TidyTail DEF i, t
<1>4. pen' \in {"up", "down"} /\ cell' \in Cells \cup {NoCell}
  BY <1>1, Effects, Kinds DEF Types
<1>5. /\ motor' \in Int \X Int /\ pos' \in Int \X Int /\ ink' \in [Cells -> Boxes]
  <2>1. motor \in Int \X Int /\ pos \in Int \X Int /\ ink \in [Cells -> Boxes]
    BY DEF Types
  <2>2. CASE i.op \in {"rel", "pen", "on"}
    BY <2>1, <2>2, Effects
  <2>3. CASE i.op = "turn"
    <3>1. Turn(i.one, i.two) /\ pos' = pos
      BY <2>3, Effects
    <3> QED  BY <1>1, <2>1, <2>3, <3>1, Kinds, TurnTyped
  <2>4. CASE i.op = "toX"
    <3>1. TurnToX(MmToStep(i.mm)) /\ MmToStep(i.mm) \in Int
      BY <1>1, <2>4, Effects, Kinds, Conversions
    <3> DEFINE n == MmToStep(i.mm)
    <3> HIDE DEF n
    <3>2. Turn(n - pos[1], n - pos[1]) /\ pos' = <<n, pos[2]>> /\ n \in Int
      BY <3>1 DEF TurnToX, n
    <3> QED  BY <2>1, <3>2, TurnTyped
  <2>5. CASE i.op = "toY"
    <3>1. TurnToY(MmToStep(i.mm)) /\ MmToStep(i.mm) \in Int
      BY <1>1, <2>5, Effects, Kinds, Conversions
    <3> DEFINE n == MmToStep(i.mm)
    <3> HIDE DEF n
    <3>2. Turn(n - pos[2], -(n - pos[2])) /\ pos' = <<pos[1], n>> /\ n \in Int
      BY <3>1 DEF TurnToY, n
    <3> QED  BY <2>1, <3>2, TurnTyped
  <2> QED  BY <1>1, <2>2, <2>3, <2>4, <2>5, Kinds
<1>6. todo' \in Seq(Instructions) /\ Tidied'
  <2>1. CASE i.op # "rel"
    <3>1. todo' = t
      BY <2>1, Effects
    <3> QED  BY <1>1, <1>3, <3>1 DEF Tidied
  <2>2. CASE i.op = "rel"
    <3> DEFINE x == StepToMm(pos[1] + MmToStep(i.x))
               y == StepToMm(pos[2] + MmToStep(i.y))
    <3>1. x \in Int /\ y \in Int
      <4>1. MmToStep(i.x) \in Int /\ MmToStep(i.y) \in Int
        BY <1>1, <2>2, Kinds, Conversions
      <4>2. pos[1] + MmToStep(i.x) \in Int /\ pos[2] + MmToStep(i.y) \in Int
        BY <4>1 DEF Types
      <4> QED  BY <4>2, Conversions
    <3>2. todo' = MoveTo(x, y) \o t
      BY <2>2, Effects
    <3> HIDE DEF x, y
    <3> DEFINE m == MoveTo(x, y)
    <3>3. m \in Seq(Instructions) /\ None(m, "pen") /\ None(m, "on")
      BY <3>1, Pieces DEF Piece
    <3> HIDE DEF m
    <3>4. m \o t \in Seq(Instructions)
      BY <1>1, <3>3, Joined
    <3>5. Tidy(m \o t, pen', cell')
      BY <1>1, <1>3, <3>3, Joining DEF Tidy
    <3> QED  BY <3>2, <3>4, <3>5 DEF Tidied, m
  <2> QED  BY <2>1, <2>2
<1>7. Types'
  BY <1>2, <1>4, <1>5, <1>6 DEF Types
<1> QED  BY <1>2, <1>6, <1>7 DEF Playing

(* Between two commands the pen is lifted and no square is meant.                            *)
LEMMA IdleTidy == Tidied /\ Idle => pen = "up" /\ cell = NoCell
BY DEF Tidied, Tidy, Idle, Ends

(* A program that ends with the pen lifted and no square meant may be begun at any time.       *)
LEMMA TidyProgram ==
    /\ \A s, p, c : Marked(s) => Tidy(s, p, c)
    /\ \A s, p : Piece(s) /\ Ends(s, "pen", PenUp) => Tidy(s, p, NoCell)
    /\ Tidy(<<>>, "up", NoCell) /\ Tidy(MoveTo(0, 0), "up", NoCell)
<1>1. Tidy(<<>>, "up", NoCell)
  BY DEF Tidy, None
<1>2. Tidy(MoveTo(0, 0), "up", NoCell)
  <2>1. Piece(MoveTo(0, 0)) /\ None(MoveTo(0, 0), "pen")
    BY Pieces
  <2> QED  BY <2>1 DEF Tidy, Piece
<1>3. \A s, p, c : Marked(s) => Tidy(s, p, c)
  BY DEF Marked, Tidy
<1>4. \A s, p : Piece(s) /\ Ends(s, "pen", PenUp) => Tidy(s, p, NoCell)
  BY DEF Piece, Tidy
<1> QED  BY <1>1, <1>2, <1>3, <1>4

(* The programs of the commands that draw on the board.                                         *)
LEMMA Programs ==
    /\ Marked(DrawBoard \o DrawInBoard("X", 4))
    /\ \A c, e \in Cells : Marked(DrawInBoard("O", c) \o DrawInBoard("X", e))
    /\ \A c \in Cells : Marked(DrawInBoard("O", c) \o <<>>)
<1>1. 4 \in Cells /\ DrawBoard \in Seq(Instructions)
  BY BoardEnds DEF Cells, Piece
<1>2. \A c \in Cells : Marked(DrawInBoard("X", c)) /\ DrawInBoard("O", c) \in Seq(Instructions)
  BY MarkEnds DEF Marked
<1>3. ASSUME NEW c \in Cells PROVE Marked(DrawInBoard("O", c) \o <<>>)
  <2>1. Marked(DrawInBoard("O", c)) /\ DrawInBoard("O", c) \in Seq(Instructions)
    BY MarkEnds DEF Marked
  <2>2. DrawInBoard("O", c) \o <<>> = DrawInBoard("O", c)
    BY <2>1, ConcatEmptySeq
  <2> QED  BY <2>1, <2>2
<1> QED  BY <1>1, <1>2, <1>3, MarkEnds

(* The program begins with nothing to do and the pen lifted.                                       *)
LEMMA BasicInit == Init => Types /\ Playing /\ Tidied
<1> SUFFICES ASSUME Init PROVE Types /\ Playing /\ Tidied
  OBVIOUS
<1>1. Types
  <2>1. CleanSheet \in [Cells -> Boxes]
    BY InkTyped DEF CleanSheet
  <2>2. /\ motor \in Int \X Int /\ pos \in Int \X Int /\ origin \in Int \X Int
        /\ pen \in {"up", "down"} /\ cell \in Cells \cup {NoCell}
    BY DEF Init
  <2>3. boards \in 0..MaxBoards /\ events \in 0..MaxEvents
    BY PlotterAssumption DEF Init
  <2>4. todo \in Seq(Instructions) /\ ink \in [Cells -> Boxes]
    BY <2>1 DEF Init
  <2>5. disturbed \in BOOLEAN
    BY DEF Init
  <2> QED  BY <2>2, <2>3, <2>4, <2>5 DEF Types
<1>2. Playing
  BY Openings, GameTyped DEF Init, Playing
<1>3. Tidied
  BY TidyProgram DEF Init, Tidied
<1> QED  BY <1>1, <1>2, <1>3

(* Every command keeps types, game and tidiness.                                                 *)
LEMMA BasicStep ==
    ASSUME Types, Playing, Tidied, [Next]_vars
    PROVE  Types' /\ Playing' /\ Tidied'
<1>1. CASE Step
  BY <1>1, StepKeeps
<1>2. CASE Figure
  <2>1. PICK f \in Figures : todo' = ShowFigure(f)
    BY <1>2 DEF Figure
  <2>2. Piece(todo') /\ Ends(todo', "pen", PenUp)
    BY <2>1, FigureEnds
  <2>3. UNCHANGED <<motor, pos, pen, cell, game, ink, origin, boards>>
    BY <1>2 DEF Figure, AtRest, penVars
  <2>4. Tidied'
    BY <1>2, <2>2, <2>3, IdleTidy, TidyProgram DEF Figure, Tidied
  <2>5. Types'
    BY <1>2, <2>2, <2>3, PlotterAssumption DEF Figure, Types, Piece
  <2> QED  BY <2>3, <2>4, <2>5 DEF Playing
<1>3. CASE Board_T
  <2>1. /\ game' = StartGame /\ todo' = DrawBoard \o DrawInBoard("X", 4)
        /\ ink' = CleanSheet /\ origin' = Offset /\ disturbed' = FALSE
        /\ boards' = boards + 1 /\ boards < MaxBoards
        /\ UNCHANGED <<motor, pos, pen, cell, events>>
    BY <1>3 DEF Board_T, AtRest, penVars
  <2>2. Marked(todo')
    BY <2>1, Programs
  <2>3. Tidied' /\ todo' \in Seq(Instructions)
    BY <2>2, TidyProgram DEF Tidied, Marked
  <2>4. origin' \in Int \X Int /\ ink' \in [Cells -> Boxes]
    <3>1. X(motor) \in Int /\ Y(motor) \in Int /\ pos[1] \in Int /\ pos[2] \in Int
      BY InkTyped DEF Types
    <3>2. Offset \in Int \X Int
      BY <3>1 DEF Offset
    <3>3. CleanSheet \in [Cells -> Boxes]
      BY InkTyped DEF CleanSheet
    <3> QED  BY <2>1, <3>2, <3>3
  <2>5. Types'
    <3>1. boards' \in 0..MaxBoards /\ events' \in 0..MaxEvents
      BY <2>1, PlotterAssumption DEF Types
    <3>2. /\ motor' \in Int \X Int /\ pos' \in Int \X Int /\ pen' \in {"up", "down"}
          /\ cell' \in Cells \cup {NoCell} /\ disturbed' \in BOOLEAN
      BY <2>1 DEF Types
    <3> QED  BY <2>3, <2>4, <3>1, <3>2 DEF Types
  <2> QED  BY <2>1, <2>3, <2>5, Openings, GameTyped DEF Playing
<1>4. CASE Board_D
  <2>1. PICK c \in Cells :
             LET r == JugarTATETI(game, c) IN
             /\ game' = r.game
             /\ todo' = DrawInBoard("O", c)
                        \o (IF r.next \in Cells THEN DrawInBoard("X", r.next) ELSE <<>>)
             /\ IF c \in Playable
                THEN UNCHANGED <<disturbed, events>>
                ELSE events < MaxEvents /\ events' = events + 1 /\ disturbed' = TRUE
    BY <1>4 DEF Board_D
  <2> DEFINE e == JugarTATETI(game, c).next
  <2>2. Playing' /\ e \in Cells \cup {NoCell}
    BY <2>1, AnyAnswered DEF Playing
  <2>3. todo' = DrawInBoard("O", c) \o (IF e \in Cells THEN DrawInBoard("X", e) ELSE <<>>)
    BY <2>1
  <2> HIDE DEF e
  <2>4. Marked(todo')
    <3>1. CASE e \in Cells
      BY <2>3, <3>1, Programs
    <3>2. CASE e \notin Cells
      BY <2>3, <3>2, Programs
    <3> QED  BY <3>1, <3>2
  <2>5. Tidied' /\ todo' \in Seq(Instructions)
    BY <2>4, TidyProgram DEF Tidied, Marked
  <2>6. disturbed' \in BOOLEAN /\ events' \in 0..MaxEvents
    <3>1. CASE c \in Playable
      BY <2>1, <3>1 DEF Types
    <3>2. CASE c \notin Playable
      <4>1. events < MaxEvents /\ events' = events + 1 /\ disturbed' = TRUE
        BY <2>1, <3>2
      <4> QED  BY <4>1, PlotterAssumption DEF Types
    <3> QED  BY <3>1, <3>2
  <2>7. UNCHANGED <<motor, pos, pen, cell, ink, origin, boards>>
    BY <1>4 DEF Board_D, AtRest, penVars
  <2>8. Types'
    BY <2>5, <2>6, <2>7 DEF Types
  <2> QED  BY <2>2, <2>5, <2>8
<1>5. CASE Board_L
  <2>1. /\ game' = CleanBoard /\ todo' = MoveTo(0, 0)
        /\ UNCHANGED <<motor, pos, pen, cell, ink, origin, disturbed, boards, events>>
    BY <1>5 DEF Board_L, AtRest, penVars, sheetVars, counts
  <2>2. Tidied' /\ todo' \in Seq(Instructions)
    BY <1>5, <2>1, IdleTidy, TidyProgram, Pieces DEF Board_L, Tidied, Piece
  <2> QED  BY <2>1, <2>2, Openings, GameTyped DEF Types, Playing
<1>6. CASE Jog
  <2>1. PICK go \in {<<-10, -10>>, <<10, -10>>, <<-10, 10>>, <<10, 10>>} : Turn(go[1], go[2])
    BY <1>6 DEF Jog
  <2>2. motor' \in Int \X Int /\ ink' \in [Cells -> Boxes]
    BY <2>1, TurnTyped
  <2>3. /\ UNCHANGED <<pos, pen, todo, game, cell, origin, boards>>
        /\ events' = events + 1 /\ events < MaxEvents /\ disturbed' = TRUE
    BY <1>6 DEF Jog
  <2>4. Types'
    BY <2>2, <2>3, PlotterAssumption DEF Types
  <2> QED  BY <2>3, <2>4 DEF Playing, Tidied
<1>7. CASE Reset
  <2>1. /\ pos' = <<0, 0>> /\ pen' = "up" /\ todo' = <<>> /\ game' = CleanBoard
        /\ cell' = NoCell /\ events' = events + 1 /\ events < MaxEvents
        /\ UNCHANGED <<motor, ink, origin, disturbed, boards>>
    BY <1>7 DEF Reset, sheetVars
  <2>2. Types'
    BY <2>1, PlotterAssumption DEF Types
  <2> QED  BY <2>1, <2>2, Openings, GameTyped, TidyProgram DEF Playing, Tidied
<1>8. CASE UNCHANGED vars
  BY <1>8 DEF vars, penVars, sheetVars, counts, Types, Playing, Tidied
<1> QED  BY <1>1, <1>2, <1>3, <1>4, <1>5, <1>6, <1>7, <1>8 DEF Next

(* Types, the game and the tidiness of programs hold in every state, disturbed or not.              *)
LEMMA BasicHolds == Spec => [](Types /\ Playing /\ Tidied)
<1>1. (Types /\ Playing /\ Tidied) /\ [Next]_vars => (Types /\ Playing /\ Tidied)'
  BY BasicStep
<1> QED  BY <1>1, BasicInit, PTL DEF Spec

(* Type correctness: every instruction has a kind, and the game of the robot is a game.              *)
THEOREM PlotterTypeCorrect == Spec => []TypeOK
<1>1. Types /\ Playing => TypeOK
  <2> SUFFICES ASSUME Types, Playing PROVE TypeOK
    OBVIOUS
  <2>1. \A k \in 1..Len(todo) : todo[k] \in Instructions
    BY ElementOfSeq DEF Types
  <2>2. \A k \in 1..Len(todo) : todo[k].op \in {"toX", "toY", "turn", "rel", "pen", "on"}
    BY <2>1, Kinds
  <2>3. game \in Games
    BY SamePlayer DEF Playing, Engine!LogTyped
  <2> QED  BY <2>2, <2>3 DEF Types, TypeOK
<1> QED  BY <1>1, BasicHolds, PTL
-----------------------------------------------------------------------------
(* Marks: the plans are the programs, and each instruction leads to the next place.        *)

(* The instructions of a plan.                                                             *)
LEMMA PlanTyped ==
    /\ \A c \in Cells : \A f \in {"X", "O"} :
          /\ Aim(c) \in Instructions /\ ToX(StartX(c)) \in Instructions
          /\ ToY(StartY(c)) \in Instructions
    /\ \A n \in Int : ToX(n) \in Instructions /\ ToY(n) \in Instructions /\ Rel(n) \in Instructions
    /\ \A one, two \in Int : Stroke(one, two) \in Instructions
    /\ PenUp \in Instructions /\ PenDown \in Instructions /\ AimOff \in Instructions
<1>1. \A n \in Int : ToX(n) \in Instructions /\ ToY(n) \in Instructions /\ Rel(n) \in Instructions
  BY DEF ToX, ToY, Rel, Instructions, Steering, Relative
<1>2. \A one, two \in Int : Stroke(one, two) \in Instructions
  BY DEF Stroke, Instructions, Turning
<1>3. PenUp \in Instructions /\ PenDown \in Instructions /\ AimOff \in Instructions
  BY DEF PenUp, PenDown, AimOff, Instructions, Lifting, Aiming
<1>4. \A c \in Cells : Aim(c) \in Instructions
  BY DEF Aim, Instructions, Aiming
<1>5. \A c \in Cells : StartX(c) \in Int /\ StartY(c) \in Int
  BY DEF StartX, StartY, Cells
<1> QED  BY <1>1, <1>2, <1>3, <1>4, <1>5

\* Short programs, which are joined without looking into them.
One(i) == << i >>
Two(i, j) == << i, j >>

(* The plan of an X is what drawInBoard does.                                               *)
LEMMA PlanOfX ==
    ASSUME NEW c \in Cells
    PROVE  /\ DrawInBoard("X", c) = PlanX(c)
           /\ PlanX(c) \in Seq(Instructions) /\ Len(PlanX(c)) = 14
<1>1. /\ Aim(c) \in Instructions /\ ToX(StartX(c)) \in Instructions
      /\ ToY(StartY(c)) \in Instructions
      /\ ToX(0) \in Instructions /\ ToY(20) \in Instructions
      /\ Stroke(200, 0) \in Instructions /\ Stroke(-100, 100) \in Instructions
      /\ Stroke(0, -220) \in Instructions /\ Stroke(-97, 97) \in Instructions
      /\ PenUp \in Instructions /\ PenDown \in Instructions /\ AimOff \in Instructions
  BY PlanTyped
<1>2. PlanX(c) \in Seq(Instructions) /\ Len(PlanX(c)) = 14
  BY <1>1 DEF PlanX
<1>3. DrawX(100) = One(PenDown) \o One(Stroke(200, 0)) \o One(PenUp) \o One(Stroke(-100, 100))
                   \o One(PenDown) \o One(Stroke(0, -220)) \o One(PenUp) \o One(Stroke(-97, 97))
  <2> DEFINE a == MoveAngle(45, 2 * 100)
             b == MoveAngle(135, Trunc(100, 22, 10))
             x == MoveY(-100)
             y == MoveY(-Trunc(100, 975, 1000))
  <2>1. /\ a = One(Stroke(200, 0)) /\ x = One(Stroke(-100, 100))
        /\ b = One(Stroke(0, -220)) /\ y = One(Stroke(-97, 97))
    BY DEF MoveAngle, Smooth, AngleStep, Move, MoveY, Trunc, Stroke, One
  <2>2. ServoUp = One(PenUp) /\ ServoDown = One(PenDown)
    BY DEF ServoUp, ServoDown, PenUp, PenDown, One
  <2>3. DrawX(100) = ServoDown \o a \o ServoUp \o x \o ServoDown \o b \o ServoUp \o y
    BY DEF DrawX
  <2> HIDE DEF a, b, x, y
  <2> QED  BY <2>1, <2>2, <2>3
<1>4. DrawInBoard("X", c) = One(Aim(c)) \o Two(ToY(StartY(c)), ToX(StartX(c)))
          \o (One(PenDown) \o One(Stroke(200, 0)) \o One(PenUp) \o One(Stroke(-100, 100))
              \o One(PenDown) \o One(Stroke(0, -220)) \o One(PenUp) \o One(Stroke(-97, 97)))
          \o Two(ToY(20), ToX(0)) \o One(AimOff)
  <2> DEFINE start == MoveTo(40 * (c % 3) - 55, -40 * (c \div 3) - 35)
             x == DrawX(100)
  <2>1. /\ On(c) = One(Aim(c)) /\ On(NoCell) = One(AimOff)
        /\ start = Two(ToY(StartY(c)), ToX(StartX(c)))
        /\ MoveTo(0, 20) = Two(ToY(20), ToX(0))
    BY DEF On, Aim, AimOff, MoveTo, ToX, ToY, StartX, StartY, One, Two
  <2>2. DrawInBoard("X", c) = On(c) \o start \o x \o MoveTo(0, 20) \o On(NoCell)
    BY DEF DrawInBoard
  <2> HIDE DEF start, x
  <2> QED  BY <1>3, <2>1, <2>2 DEF x
<1> DEFINE s == One(Aim(c)) \o Two(ToY(StartY(c)), ToX(StartX(c)))
          \o (One(PenDown) \o One(Stroke(200, 0)) \o One(PenUp) \o One(Stroke(-100, 100))
              \o One(PenDown) \o One(Stroke(0, -220)) \o One(PenUp) \o One(Stroke(-97, 97)))
          \o Two(ToY(20), ToX(0)) \o One(AimOff)
<1>5. s \in Seq(Instructions) /\ Len(s) = 14
  BY <1>1 DEF One, Two
<1>6. \A i \in 1..14 : s[i] = PlanX(c)[i]
  BY <1>1 DEF One, Two, PlanX
<1>7. DrawInBoard("X", c) = s
  BY <1>4
<1> HIDE DEF s
<1> QED  BY <1>2, <1>5, <1>6, <1>7, SeqEqual

(* The plan of an O, its two moveToRel included.                                             *)
LEMMA PlanOfO ==
    ASSUME NEW c \in Cells
    PROVE  /\ DrawInBoard("O", c) = PlanO(c)
           /\ PlanO(c) \in Seq(Instructions) /\ Len(PlanO(c)) = 14
<1>1. /\ Aim(c) \in Instructions /\ ToX(StartX(c)) \in Instructions
      /\ ToY(StartY(c)) \in Instructions
      /\ ToX(0) \in Instructions /\ ToY(20) \in Instructions
      /\ Rel(15) \in Instructions /\ Rel(-15) \in Instructions
      /\ Stroke(133, -9) \in Instructions /\ Stroke(-22, -116) \in Instructions
      /\ Stroke(-120, 22) \in Instructions /\ Stroke(10, 104) \in Instructions
      /\ PenUp \in Instructions /\ PenDown \in Instructions /\ AimOff \in Instructions
  BY PlanTyped
<1>2. PlanO(c) \in Seq(Instructions) /\ Len(PlanO(c)) = 14
  BY <1>1 DEF PlanO
<1>3. DrawCircle(90) = One(PenDown)
          \o (One(Stroke(133, -9)) \o One(Stroke(-22, -116)) \o One(Stroke(-120, 22))
              \o One(Stroke(10, 104))) \o One(PenUp)
  <2> DEFINE t == Move(62, 71) \o Move(-69, 47) \o Move(-49, -71) \o Move(57, -47)
             u == Move(55, 62) \o Move(-62, 42) \o Move(-42, -62) \o Move(50, -42)
  <2>1. DrawCircle(90) = ServoDown \o (CASE 90 = 80 -> u [] 90 = 90 -> t) \o ServoUp
    BY DEF DrawCircle
  <2>2. /\ Move(62, 71) = One(Stroke(133, -9)) /\ Move(-69, 47) = One(Stroke(-22, -116))
        /\ Move(-49, -71) = One(Stroke(-120, 22)) /\ Move(57, -47) = One(Stroke(10, 104))
    BY DEF Move, Stroke, One
  <2>3. t = One(Stroke(133, -9)) \o One(Stroke(-22, -116)) \o One(Stroke(-120, 22))
            \o One(Stroke(10, 104))
    BY <2>2
  <2>4. ServoUp = One(PenUp) /\ ServoDown = One(PenDown)
    BY DEF ServoUp, ServoDown, PenUp, PenDown, One
  <2> HIDE DEF t, u
  <2>5. (CASE 90 = 80 -> u [] 90 = 90 -> t) = t
    OBVIOUS
  <2> QED  BY <2>1, <2>3, <2>4, <2>5
<1>4. DrawInBoard("O", c) = One(Aim(c)) \o Two(ToY(StartY(c)), ToX(StartX(c)))
          \o (One(Rel(15)) \o DrawCircle(90) \o One(Rel(-15)))
          \o Two(ToY(20), ToX(0)) \o One(AimOff)
  <2> DEFINE start == MoveTo(40 * (c % 3) - 55, -40 * (c \div 3) - 35)
             o == DrawCircle(90)
  <2>1. /\ On(c) = One(Aim(c)) /\ On(NoCell) = One(AimOff)
        /\ start = Two(ToY(StartY(c)), ToX(StartX(c)))
        /\ MoveTo(0, 20) = Two(ToY(20), ToX(0))
        /\ MoveToRel(15, 0) = One(Rel(15)) /\ MoveToRel(-15, 0) = One(Rel(-15))
    BY DEF On, Aim, AimOff, MoveTo, MoveToRel, Rel, ToX, ToY, StartX, StartY, One, Two
  <2>2. DrawInBoard("O", c) = On(c) \o start \o (MoveToRel(15, 0) \o o \o MoveToRel(-15, 0))
                              \o MoveTo(0, 20) \o On(NoCell)
    BY DEF DrawInBoard
  <2> HIDE DEF start, o
  <2> QED  BY <2>1, <2>2 DEF o
<1> DEFINE s == One(Aim(c)) \o Two(ToY(StartY(c)), ToX(StartX(c)))
          \o (One(Rel(15))
              \o (One(PenDown)
                  \o (One(Stroke(133, -9)) \o One(Stroke(-22, -116)) \o One(Stroke(-120, 22))
                      \o One(Stroke(10, 104))) \o One(PenUp))
              \o One(Rel(-15)))
          \o Two(ToY(20), ToX(0)) \o One(AimOff)
<1>5. s \in Seq(Instructions) /\ Len(s) = 14
  BY <1>1 DEF One, Two
<1>6. \A i \in 1..14 : s[i] = PlanO(c)[i]
  BY <1>1 DEF One, Two, PlanO
<1>7. DrawInBoard("O", c) = s
  BY <1>3, <1>4
<1> HIDE DEF s
<1> QED  BY <1>2, <1>5, <1>6, <1>7, SeqEqual

(* The instruction before which Stood describes the pen.                                     *)
Order(f, c, k) ==
    IF f = "X" THEN PlanX(c)[k]
    ELSE IF k <= 4 THEN PlanO(c)[k]
    ELSE IF k = 5 THEN ToY(ASide(c)[2]) ELSE IF k = 6 THEN ToX(ASide(c)[1])
    ELSE IF k <= 13 THEN PlanO(c)[k - 2]
    ELSE IF k = 14 THEN ToY(BSide(c)[2]) ELSE IF k = 15 THEN ToX(BSide(c)[1])
    ELSE PlanO(c)[k - 4]

(* The millimetres to which moveToRel leads are integers.                                      *)
LEMMA Places ==
    ASSUME NEW c \in Cells
    PROVE  /\ Start(c) \in Int \X Int /\ Right(c) \in Int \X Int
           /\ ASide(c) \in Int \X Int /\ BSide(c) \in Int \X Int
<1>1. ASSUME NEW p \in Int \X Int, NEW x \in Int PROVE Aside(p, x) \in Int \X Int
  <2>1. MmToStep(x) \in Int /\ MmToStep(0) \in Int
    BY Conversions
  <2>2. p[1] + MmToStep(x) \in Int /\ p[2] + MmToStep(0) \in Int
    BY <2>1
  <2> QED  BY <2>2, Conversions DEF Aside
<1>2. Start(c) \in Int \X Int
  <2>1. StartX(c) \in Int /\ StartY(c) \in Int
    BY DEF StartX, StartY, Cells
  <2> QED  BY <2>1, Conversions DEF Start
<1>3. 15 \in Int /\ -15 \in Int
  OBVIOUS
<1>4. ASide(c) \in Int \X Int
  <2>1. Aside(Start(c), 15) \in Int \X Int
    BY <1>1, <1>2, <1>3
  <2> QED  BY <2>1 DEF ASide
<1>5. Right(c) \in Int \X Int
  BY <1>4, Conversions DEF Right
<1>6. BSide(c) \in Int \X Int
  <2>1. Aside(Right(c), -15) \in Int \X Int
    BY <1>1, <1>5, <1>3
  <2> QED  BY <2>1 DEF BSide
<1> QED  BY <1>2, <1>4, <1>5, <1>6

(* What is left of the plan of an X.                                                            *)
LEMMA LeftOfX ==
    ASSUME NEW c \in Cells
    PROVE  /\ LeftX(c, 15) = <<>> /\ LeftX(c, 1) = PlanX(c)
           /\ \A k \in 1..15 : LeftX(c, k) \in Seq(Instructions)
           /\ \A k \in 1..14 : /\ Order("X", c, k) \in Instructions
                               /\ LeftX(c, k) = << Order("X", c, k) >> \o LeftX(c, k + 1)
<1>1. PlanX(c) \in Seq(Instructions) /\ Len(PlanX(c)) = 14
  BY PlanOfX
<1>2. \A k \in 1..14 : PlanX(c)[k] \in Instructions
  BY <1>1, ElementOfSeq
<1>3. ASSUME NEW k \in 1..15 PROVE LeftX(c, k) \in Seq(Instructions)
  BY <1>2, SubSeqProperties DEF LeftX
<1>4. LeftX(c, 15) = <<>>
  BY SubSeqEmpty DEF LeftX
<1>5. LeftX(c, 1) = PlanX(c)
  BY <1>1, SubSeqFull DEF LeftX
<1>6. ASSUME NEW k \in 1..14 PROVE LeftX(c, k) = << Order("X", c, k) >> \o LeftX(c, k + 1)
  BY <1>1, SubSeqRecursiveFirst DEF LeftX, Order
<1> QED  BY <1>2, <1>3, <1>4, <1>5, <1>6 DEF Order

(* The tails of the plan of an O.                                                               *)
LEMMA TailsOfO ==
    ASSUME NEW c \in Cells
    PROVE  /\ \A k \in 1..15 : TailO(c, k) \in Seq(Instructions)
           /\ \A k \in 1..14 : /\ PlanO(c)[k] \in Instructions
                               /\ TailO(c, k) = << PlanO(c)[k] >> \o TailO(c, k + 1)
           /\ TailO(c, 15) = <<>> /\ TailO(c, 1) = PlanO(c)
<1>1. PlanO(c) \in Seq(Instructions) /\ Len(PlanO(c)) = 14
  BY PlanOfO
<1>2. \A k \in 1..14 : PlanO(c)[k] \in Instructions
  BY <1>1, ElementOfSeq
<1>3. ASSUME NEW k \in 1..15 PROVE TailO(c, k) \in Seq(Instructions)
  BY <1>2, SubSeqProperties DEF TailO
<1>4. TailO(c, 15) = <<>>
  BY SubSeqEmpty DEF TailO
<1>5. TailO(c, 1) = PlanO(c)
  BY <1>1, SubSeqFull DEF TailO
<1>6. ASSUME NEW k \in 1..14 PROVE TailO(c, k) = << PlanO(c)[k] >> \o TailO(c, k + 1)
  BY <1>1, SubSeqRecursiveFirst DEF TailO
<1> QED  BY <1>2, <1>3, <1>4, <1>5, <1>6

(* What is left of the plan of an O, whose two moveToRel become a moveTo each.                   *)
LEMMA LeftOfO ==
    ASSUME NEW c \in Cells
    PROVE  /\ LeftO(c, 19) = <<>> /\ LeftO(c, 1) = PlanO(c)
           /\ \A k \in 1..19 : LeftO(c, k) \in Seq(Instructions)
           /\ \A k \in 1..18 : Order("O", c, k) \in Instructions
           /\ \A k \in (1..18) \ {4, 13} : LeftO(c, k) = << Order("O", c, k) >> \o LeftO(c, k + 1)
           /\ LeftO(c, 4) = << Rel(15) >> \o LeftO(c, 7)
           /\ LeftO(c, 5) = MoveTo(ASide(c)[1], ASide(c)[2]) \o LeftO(c, 7)
           /\ LeftO(c, 13) = << Rel(-15) >> \o LeftO(c, 16)
           /\ LeftO(c, 14) = MoveTo(BSide(c)[1], BSide(c)[2]) \o LeftO(c, 16)
<1>1. /\ \A k \in 1..15 : TailO(c, k) \in Seq(Instructions)
      /\ \A k \in 1..14 : /\ PlanO(c)[k] \in Instructions
                          /\ TailO(c, k) = << PlanO(c)[k] >> \o TailO(c, k + 1)
      /\ TailO(c, 15) = <<>> /\ TailO(c, 1) = PlanO(c)
  BY TailsOfO
<1>2. PlanO(c)[4] = Rel(15) /\ PlanO(c)[11] = Rel(-15)
  BY DEF PlanO
<1> DEFINE ya == ToY(ASide(c)[2])
           xa == ToX(ASide(c)[1])
           yb == ToY(BSide(c)[2])
           xb == ToX(BSide(c)[1])
<1>3. ya \in Instructions /\ xa \in Instructions /\ yb \in Instructions /\ xb \in Instructions
  <2>1. ASide(c)[1] \in Int /\ ASide(c)[2] \in Int /\ BSide(c)[1] \in Int /\ BSide(c)[2] \in Int
    BY Places
  <2> QED  BY <2>1, PlanTyped
<1>4. ASSUME NEW a \in Instructions, NEW b \in Instructions, NEW s \in Seq(Instructions)
      PROVE  /\ << a, b >> \o s = << a >> \o (<< b >> \o s)
             /\ << b >> \o s \in Seq(Instructions)
             /\ << a, b >> \o s \in Seq(Instructions)
  <2>1. << a >> \in Seq(Instructions) /\ << b >> \in Seq(Instructions)
    OBVIOUS
  <2>2. << a, b >> = << a >> \o << b >>
    <3>1. /\ << a, b >> \in Seq(Instructions) /\ << a >> \o << b >> \in Seq(Instructions)
          /\ Len(<< a, b >>) = 2 /\ Len(<< a >> \o << b >>) = 2
      OBVIOUS
    <3>2. \A i \in 1..2 : << a, b >>[i] = (<< a >> \o << b >>)[i]
      OBVIOUS
    <3> QED  BY <3>1, <3>2, SeqEqual
  <2> QED  BY <2>1, <2>2, ConcatAssociative, ConcatProperties
<1>5. /\ \A k \in 1..4 : LeftO(c, k) = TailO(c, k) /\ Order("O", c, k) = PlanO(c)[k]
      /\ \A k \in 7..13 : LeftO(c, k) = TailO(c, k - 2) /\ Order("O", c, k) = PlanO(c)[k - 2]
      /\ \A k \in 16..19 : LeftO(c, k) = TailO(c, k - 4) /\ Order("O", c, k) = PlanO(c)[k - 4]
  BY DEF LeftO, Order
<1>6. /\ LeftO(c, 5) = << ya, xa >> \o TailO(c, 5) /\ LeftO(c, 6) = << xa >> \o TailO(c, 5)
      /\ LeftO(c, 14) = << yb, xb >> \o TailO(c, 12) /\ LeftO(c, 15) = << xb >> \o TailO(c, 12)
      /\ Order("O", c, 5) = ya /\ Order("O", c, 6) = xa
      /\ Order("O", c, 14) = yb /\ Order("O", c, 15) = xb
      /\ MoveTo(ASide(c)[1], ASide(c)[2]) = << ya, xa >>
      /\ MoveTo(BSide(c)[1], BSide(c)[2]) = << yb, xb >>
  <2> DEFINE ma == MoveTo(ASide(c)[1], ASide(c)[2])
             mb == MoveTo(BSide(c)[1], BSide(c)[2])
             sa == << ToX(ASide(c)[1]) >>
             sb == << ToX(BSide(c)[1]) >>
  <2>1. ma = << ya, xa >> /\ mb = << yb, xb >> /\ sa = << xa >> /\ sb = << xb >>
    BY DEF MoveTo, ToX, ToY
  <2>2. Order("O", c, 5) = ya /\ Order("O", c, 6) = xa
    BY DEF Order
  <2>3. Order("O", c, 14) = yb /\ Order("O", c, 15) = xb
    BY DEF Order
  <2> HIDE DEF ma, mb, sa, sb
  <2>4. /\ \A k \in 5..5 : LeftO(c, k) = ma \o TailO(c, 5)
        /\ \A k \in 6..6 : LeftO(c, k) = sa \o TailO(c, 5)
    BY DEF LeftO, ma, sa
  <2>5. /\ \A k \in 14..14 : LeftO(c, k) = mb \o TailO(c, 12)
        /\ \A k \in 15..15 : LeftO(c, k) = sb \o TailO(c, 12)
    BY DEF LeftO, mb, sb
  <2>6. /\ LeftO(c, 5) = ma \o TailO(c, 5) /\ LeftO(c, 6) = sa \o TailO(c, 5)
        /\ LeftO(c, 14) = mb \o TailO(c, 12) /\ LeftO(c, 15) = sb \o TailO(c, 12)
    <3>1. 5 \in 5..5 /\ 6 \in 6..6 /\ 14 \in 14..14 /\ 15 \in 15..15
      OBVIOUS
    <3> QED  BY <2>4, <2>5, <3>1
  <2> HIDE DEF xa, ya, xb, yb
  <2>7. /\ LeftO(c, 5) = << ya, xa >> \o TailO(c, 5) /\ LeftO(c, 6) = << xa >> \o TailO(c, 5)
        /\ LeftO(c, 14) = << yb, xb >> \o TailO(c, 12) /\ LeftO(c, 15) = << xb >> \o TailO(c, 12)
    BY <2>1, <2>6
  <2> QED  BY <2>1, <2>2, <2>3, <2>7 DEF ma, mb
<1> HIDE DEF xa, ya, xb, yb
<1>7. LeftO(c, 7) = TailO(c, 5) /\ LeftO(c, 16) = TailO(c, 12)
      /\ LeftO(c, 4) = TailO(c, 4) /\ LeftO(c, 13) = TailO(c, 11)
  <2>1. 7 \in 7..13 /\ 7 - 2 = 5 /\ 16 \in 16..19 /\ 16 - 4 = 12
        /\ 4 \in 1..4 /\ 13 \in 7..13 /\ 13 - 2 = 11
    OBVIOUS
  <2> QED  BY <1>5, <2>1
<1>8. TailO(c, 5) \in Seq(Instructions) /\ TailO(c, 12) \in Seq(Instructions)
  BY <1>1
<1>9. ASSUME NEW k \in {5, 6, 14, 15}
      PROVE  /\ LeftO(c, k) = << Order("O", c, k) >> \o LeftO(c, k + 1)
             /\ Order("O", c, k) \in Instructions /\ LeftO(c, k) \in Seq(Instructions)
  <2>1. ASSUME NEW y \in Instructions, NEW x \in Instructions, NEW s \in Seq(Instructions),
               NEW j \in {5, 14}, Order("O", c, j) = y, Order("O", c, j + 1) = x,
               LeftO(c, j) = << y, x >> \o s, LeftO(c, j + 1) = << x >> \o s,
               LeftO(c, j + 2) = s
        PROVE  /\ LeftO(c, j) = << Order("O", c, j) >> \o LeftO(c, j + 1)
               /\ Order("O", c, j) \in Instructions /\ LeftO(c, j) \in Seq(Instructions)
               /\ LeftO(c, j + 1) = << Order("O", c, j + 1) >> \o LeftO(c, (j + 1) + 1)
               /\ Order("O", c, j + 1) \in Instructions /\ LeftO(c, j + 1) \in Seq(Instructions)
    <3>1. /\ << y, x >> \o s = << y >> \o (<< x >> \o s) /\ << x >> \o s \in Seq(Instructions)
          /\ << y, x >> \o s \in Seq(Instructions)
      BY <1>4
    <3>2. (j + 1) + 1 = j + 2
      OBVIOUS
    <3> DEFINE u == << y, x >> \o s
               v == << x >> \o s
    <3>3. u = << y >> \o v /\ v \in Seq(Instructions) /\ u \in Seq(Instructions)
      BY <3>1
    <3>4. LeftO(c, j) = u /\ LeftO(c, j + 1) = v /\ v = << x >> \o LeftO(c, (j + 1) + 1)
      BY <2>1, <3>2
    <3> HIDE DEF u, v
    <3> QED  BY <2>1, <3>3, <3>4
  <2>2. k = 5 \/ k = 5 + 1 \/ k = 14 \/ k = 14 + 1
    OBVIOUS
  <2>3. /\ 5 \in {5, 14} /\ 5 + 1 = 6 /\ 5 + 2 = 7
        /\ 14 \in {5, 14} /\ 14 + 1 = 15 /\ 14 + 2 = 16
    OBVIOUS
  <2>4. CASE k \in {5, 5 + 1}
    <3>1. /\ Order("O", c, 5) = ya /\ Order("O", c, 5 + 1) = xa
          /\ LeftO(c, 5) = << ya, xa >> \o TailO(c, 5) /\ LeftO(c, 5 + 1) = << xa >> \o TailO(c, 5)
          /\ LeftO(c, 5 + 2) = TailO(c, 5)
      BY <1>6, <1>7, <2>3
    <3>2. /\ LeftO(c, 5) = << Order("O", c, 5) >> \o LeftO(c, 5 + 1)
          /\ Order("O", c, 5) \in Instructions /\ LeftO(c, 5) \in Seq(Instructions)
          /\ LeftO(c, 5 + 1) = << Order("O", c, 5 + 1) >> \o LeftO(c, (5 + 1) + 1)
          /\ Order("O", c, 5 + 1) \in Instructions /\ LeftO(c, 5 + 1) \in Seq(Instructions)
      BY <1>3, <1>8, <2>1, <2>3, <3>1
    <3> QED  BY <2>4, <3>2
  <2>5. CASE k \in {14, 14 + 1}
    <3>1. /\ Order("O", c, 14) = yb /\ Order("O", c, 14 + 1) = xb
          /\ LeftO(c, 14) = << yb, xb >> \o TailO(c, 12)
          /\ LeftO(c, 14 + 1) = << xb >> \o TailO(c, 12)
          /\ LeftO(c, 14 + 2) = TailO(c, 12)
      BY <1>6, <1>7, <2>3
    <3>2. /\ LeftO(c, 14) = << Order("O", c, 14) >> \o LeftO(c, 14 + 1)
          /\ Order("O", c, 14) \in Instructions /\ LeftO(c, 14) \in Seq(Instructions)
          /\ LeftO(c, 14 + 1) = << Order("O", c, 14 + 1) >> \o LeftO(c, (14 + 1) + 1)
          /\ Order("O", c, 14 + 1) \in Instructions /\ LeftO(c, 14 + 1) \in Seq(Instructions)
      BY <1>3, <1>8, <2>1, <2>3, <3>1
    <3> QED  BY <2>5, <3>2
  <2> QED  BY <2>2, <2>4, <2>5
<1>10. ASSUME NEW k \in 1..3
       PROVE  /\ LeftO(c, k) = << Order("O", c, k) >> \o LeftO(c, k + 1)
              /\ Order("O", c, k) \in Instructions /\ LeftO(c, k) \in Seq(Instructions)
  <2>1. k \in 1..14 /\ k \in 1..15 /\ k \in 1..4 /\ k + 1 \in 1..4
    OBVIOUS
  <2> QED  BY <1>1, <1>5, <2>1
<1>11. ASSUME NEW k \in 7..12
       PROVE  /\ LeftO(c, k) = << Order("O", c, k) >> \o LeftO(c, k + 1)
              /\ Order("O", c, k) \in Instructions /\ LeftO(c, k) \in Seq(Instructions)
  <2>1. k \in 7..13 /\ k + 1 \in 7..13 /\ k - 2 \in 1..14 /\ k - 2 \in 1..15
        /\ (k - 2) + 1 = (k + 1) - 2
    OBVIOUS
  <2> QED  BY <1>1, <1>5, <2>1
<1>12. ASSUME NEW k \in 16..18
       PROVE  /\ LeftO(c, k) = << Order("O", c, k) >> \o LeftO(c, k + 1)
              /\ Order("O", c, k) \in Instructions /\ LeftO(c, k) \in Seq(Instructions)
  <2>1. k \in 16..19 /\ k + 1 \in 16..19 /\ k - 4 \in 1..14 /\ k - 4 \in 1..15
        /\ (k - 4) + 1 = (k + 1) - 4
    OBVIOUS
  <2> QED  BY <1>1, <1>5, <2>1
<1>13. /\ LeftO(c, 4) = << Rel(15) >> \o LeftO(c, 7) /\ LeftO(c, 4) \in Seq(Instructions)
       /\ Order("O", c, 4) \in Instructions
  <2>1. 4 \in 1..14 /\ 4 \in 1..15 /\ 4 \in 1..4 /\ 4 + 1 = 5
    OBVIOUS
  <2> QED  BY <1>1, <1>2, <1>5, <1>7, <2>1
<1>14. /\ LeftO(c, 13) = << Rel(-15) >> \o LeftO(c, 16) /\ LeftO(c, 13) \in Seq(Instructions)
       /\ Order("O", c, 13) \in Instructions
  <2>1. 13 \in 7..13 /\ 13 - 2 = 11 /\ 11 \in 1..14 /\ 11 \in 1..15 /\ 11 + 1 = 12
    OBVIOUS
  <2> QED  BY <1>1, <1>2, <1>5, <1>7, <2>1
<1>15. LeftO(c, 19) = <<>> /\ LeftO(c, 19) \in Seq(Instructions) /\ LeftO(c, 1) = PlanO(c)
  <2>1. 19 \in 16..19 /\ 19 - 4 = 15 /\ 15 \in 1..15 /\ 1 \in 1..4
    OBVIOUS
  <2> QED  BY <1>1, <1>5, <2>1
<1>16. ASSUME NEW k \in (1..18) \ {4, 13}
       PROVE  /\ LeftO(c, k) = << Order("O", c, k) >> \o LeftO(c, k + 1)
              /\ Order("O", c, k) \in Instructions /\ LeftO(c, k) \in Seq(Instructions)
  <2>1. k \in 1..3 \/ k \in {5, 6, 14, 15} \/ k \in 7..12 \/ k \in 16..18
    OBVIOUS
  <2> QED  BY <1>9, <1>10, <1>11, <1>12, <2>1
<1>17. ASSUME NEW k \in 1..19 PROVE LeftO(c, k) \in Seq(Instructions)
  <2>1. k \in (1..18) \ {4, 13} \/ k = 4 \/ k = 13 \/ k = 19
    OBVIOUS
  <2> QED  BY <1>13, <1>14, <1>15, <1>16, <2>1
<1>18. ASSUME NEW k \in 1..18 PROVE Order("O", c, k) \in Instructions
  <2>1. k \in (1..18) \ {4, 13} \/ k = 4 \/ k = 13
    OBVIOUS
  <2> QED  BY <1>13, <1>14, <1>16, <2>1
<1> QED  BY <1>6, <1>7, <1>13, <1>14, <1>15, <1>16, <1>17, <1>18
-----------------------------------------------------------------------------
(* What one instruction does to the pen and to the ink on the square being drawn.              *)

Drawn(b, up, at, c, m, m2) ==
    IF up = "down" /\ at = c THEN Hull(Hull(b, Spot(m)), Spot(m2)) ELSE b

Carried(i, c, m, p, up, at, b, m2, p2, up2, at2, b2) ==
    /\ i.op \in {"toX", "toY", "turn"} => b2 = Drawn(b, up, at, c, m, m2)
    /\ i.op \in {"rel", "pen", "on"} => m2 = m /\ p2 = p /\ b2 = b
    /\ i.op = "toX" => LET v == MmToStep(i.mm) IN
                       p2 = <<v, p[2]>> /\ m2 = <<m[1] + (v - p[1]), m[2] + (v - p[1])>>
    /\ i.op = "toY" => LET v == MmToStep(i.mm) IN
                       p2 = <<p[1], v>> /\ m2 = <<m[1] + (v - p[2]), m[2] + -(v - p[2])>>
    /\ i.op = "turn" => p2 = p /\ m2 = <<m[1] + i.one, m[2] + i.two>>
    /\ up2 = IF i.op = "pen" THEN i.to ELSE up
    /\ at2 = IF i.op = "on" THEN i.cell ELSE at

\* The same, for each kind of instruction.
Effect(i, c, m, p, up, at, b, m2, p2, up2, at2, b2) ==
    /\ \A mm \in Int : i = ToX(mm) /\ up = "up" =>
          /\ X(m2) - 2 * p2[1] = X(m) - 2 * p[1] /\ Y(m2) - 2 * p2[2] = Y(m) - 2 * p[2]
          /\ p2 = <<MmToStep(mm), p[2]>> /\ up2 = up /\ at2 = at /\ b2 = b
    /\ \A mm \in Int : i = ToY(mm) /\ up = "up" =>
          /\ X(m2) - 2 * p2[1] = X(m) - 2 * p[1] /\ Y(m2) - 2 * p2[2] = Y(m) - 2 * p[2]
          /\ p2 = <<p[1], MmToStep(mm)>> /\ up2 = up /\ at2 = at /\ b2 = b
    /\ \A one, two \in Int : i = Stroke(one, two) =>
          /\ X(m2) = X(m) + (one + two) /\ Y(m2) = Y(m) + (one - two)
          /\ p2 = p /\ up2 = up /\ at2 = at /\ b2 = Drawn(b, up, at, c, m, m2)
    /\ \A x : i = Rel(x) => m2 = m /\ p2 = p /\ up2 = up /\ at2 = at /\ b2 = b
    /\ i = PenUp => m2 = m /\ p2 = p /\ up2 = "up" /\ at2 = at /\ b2 = b
    /\ i = PenDown => m2 = m /\ p2 = p /\ up2 = "down" /\ at2 = at /\ b2 = b
    /\ i = Aim(c) => m2 = m /\ p2 = p /\ up2 = up /\ at2 = c /\ b2 = b
    /\ i = AimOff => m2 = m /\ p2 = p /\ up2 = up /\ at2 = NoCell /\ b2 = b

(* Each kind of instruction.                                                                    *)
LEMMA Carrying ==
    ASSUME NEW m \in Int \X Int, NEW p \in Int \X Int, NEW up \in {"up", "down"}, NEW at,
           NEW b \in Boxes, NEW c \in Cells, NEW i, NEW m2, NEW p2, NEW up2, NEW at2, NEW b2,
           Carried(i, c, m, p, up, at, b, m2, p2, up2, at2, b2)
    PROVE  Effect(i, c, m, p, up, at, b, m2, p2, up2, at2, b2)
<1>1. ASSUME NEW mm \in Int, i = ToX(mm), up = "up"
      PROVE  /\ X(m2) - 2 * p2[1] = X(m) - 2 * p[1] /\ Y(m2) - 2 * p2[2] = Y(m) - 2 * p[2]
             /\ p2 = <<MmToStep(mm), p[2]>> /\ up2 = up /\ at2 = at /\ b2 = b
  <2>1. i.op = "toX" /\ i.mm = mm /\ MmToStep(mm) \in Int
    BY <1>1, Conversions DEF ToX
  <2> DEFINE v == MmToStep(mm)
  <2>2. /\ p2 = <<v, p[2]>> /\ m2 = <<m[1] + (v - p[1]), m[2] + (v - p[1])>>
        /\ up2 = up /\ at2 = at /\ b2 = Drawn(b, up, at, c, m, m2) /\ v \in Int
    BY <2>1 DEF Carried
  <2> HIDE DEF v
  <2>3. b2 = b
    BY <1>1, <2>2 DEF Drawn
  <2>4. X(m2) - 2 * p2[1] = X(m) - 2 * p[1] /\ Y(m2) - 2 * p2[2] = Y(m) - 2 * p[2]
    BY <2>2 DEF X, Y
  <2> QED  BY <2>2, <2>3, <2>4 DEF v
<1>2. ASSUME NEW mm \in Int, i = ToY(mm), up = "up"
      PROVE  /\ X(m2) - 2 * p2[1] = X(m) - 2 * p[1] /\ Y(m2) - 2 * p2[2] = Y(m) - 2 * p[2]
             /\ p2 = <<p[1], MmToStep(mm)>> /\ up2 = up /\ at2 = at /\ b2 = b
  <2>1. i.op = "toY" /\ i.mm = mm /\ MmToStep(mm) \in Int
    BY <1>2, Conversions DEF ToY
  <2> DEFINE v == MmToStep(mm)
  <2>2. /\ p2 = <<p[1], v>> /\ m2 = <<m[1] + (v - p[2]), m[2] + -(v - p[2])>>
        /\ up2 = up /\ at2 = at /\ b2 = Drawn(b, up, at, c, m, m2) /\ v \in Int
    BY <2>1 DEF Carried
  <2> HIDE DEF v
  <2>3. b2 = b
    BY <1>2, <2>2 DEF Drawn
  <2>4. X(m2) - 2 * p2[1] = X(m) - 2 * p[1] /\ Y(m2) - 2 * p2[2] = Y(m) - 2 * p[2]
    BY <2>2 DEF X, Y
  <2> QED  BY <2>2, <2>3, <2>4 DEF v
<1>3. ASSUME NEW one \in Int, NEW two \in Int, i = Stroke(one, two)
      PROVE  /\ X(m2) = X(m) + (one + two) /\ Y(m2) = Y(m) + (one - two)
             /\ p2 = p /\ up2 = up /\ at2 = at /\ b2 = Drawn(b, up, at, c, m, m2)
  <2>1. i.op = "turn" /\ i.one = one /\ i.two = two
    BY <1>3 DEF Stroke
  <2>2. /\ p2 = p /\ m2 = <<m[1] + one, m[2] + two>>
        /\ up2 = up /\ at2 = at /\ b2 = Drawn(b, up, at, c, m, m2)
    BY <2>1 DEF Carried
  <2> QED  BY <2>2 DEF X, Y
<1>4. \A x : i = Rel(x) => m2 = m /\ p2 = p /\ up2 = up /\ at2 = at /\ b2 = b
  BY DEF Carried, Rel
<1>5. /\ i = PenUp => m2 = m /\ p2 = p /\ up2 = "up" /\ at2 = at /\ b2 = b
      /\ i = PenDown => m2 = m /\ p2 = p /\ up2 = "down" /\ at2 = at /\ b2 = b
  BY DEF Carried, PenUp, PenDown
<1>6. /\ i = Aim(c) => m2 = m /\ p2 = p /\ up2 = up /\ at2 = c /\ b2 = b
      /\ i = AimOff => m2 = m /\ p2 = p /\ up2 = up /\ at2 = NoCell /\ b2 = b
  BY DEF Carried, Aim, AimOff
<1> QED  BY <1>1, <1>2, <1>3, <1>4, <1>5, <1>6 DEF Effect

(* The orders of an X, and its places.                                                         *)
LEMMA OrdersOfX ==
    ASSUME NEW c
    PROVE  /\ Order("X", c, 1) = Aim(c) /\ Order("X", c, 2) = ToY(StartY(c))
           /\ Order("X", c, 3) = ToX(StartX(c)) /\ Order("X", c, 4) = PenDown
           /\ Order("X", c, 5) = Stroke(200, 0) /\ Order("X", c, 6) = PenUp
           /\ Order("X", c, 7) = Stroke(-100, 100) /\ Order("X", c, 8) = PenDown
           /\ Order("X", c, 9) = Stroke(0, -220) /\ Order("X", c, 10) = PenUp
           /\ Order("X", c, 11) = Stroke(-97, 97) /\ Order("X", c, 12) = ToY(20)
           /\ Order("X", c, 13) = ToX(0) /\ Order("X", c, 14) = AimOff
BY DEF Order, PlanX

(* The orders of an O.                                                                         *)
LEMMA OrdersOfO ==
    ASSUME NEW c
    PROVE  /\ Order("O", c, 1) = Aim(c) /\ Order("O", c, 2) = ToY(StartY(c))
           /\ Order("O", c, 3) = ToX(StartX(c)) /\ Order("O", c, 4) = Rel(15)
           /\ Order("O", c, 5) = ToY(ASide(c)[2]) /\ Order("O", c, 6) = ToX(ASide(c)[1])
           /\ Order("O", c, 7) = PenDown
           /\ Order("O", c, 8) = Stroke(133, -9) /\ Order("O", c, 9) = Stroke(-22, -116)
           /\ Order("O", c, 10) = Stroke(-120, 22) /\ Order("O", c, 11) = Stroke(10, 104)
           /\ Order("O", c, 12) = PenUp /\ Order("O", c, 13) = Rel(-15)
           /\ Order("O", c, 14) = ToY(BSide(c)[2]) /\ Order("O", c, 15) = ToX(BSide(c)[1])
           /\ Order("O", c, 16) = ToY(20) /\ Order("O", c, 17) = ToX(0)
           /\ Order("O", c, 18) = AimOff
<1> DEFINE ya == ToY(ASide(c)[2])
           xa == ToX(ASide(c)[1])
           yb == ToY(BSide(c)[2])
           xb == ToX(BSide(c)[1])
<1>1. \A k \in 1..18 : Order("O", c, k) =
          IF k <= 4 THEN PlanO(c)[k]
          ELSE IF k = 5 THEN ya ELSE IF k = 6 THEN xa
          ELSE IF k <= 13 THEN PlanO(c)[k - 2]
          ELSE IF k = 14 THEN yb ELSE IF k = 15 THEN xb
          ELSE PlanO(c)[k - 4]
  BY DEF Order
<1> HIDE DEF xa, ya, xb, yb
<1>2. /\ Order("O", c, 1) = PlanO(c)[1] /\ Order("O", c, 2) = PlanO(c)[2]
      /\ Order("O", c, 3) = PlanO(c)[3] /\ Order("O", c, 4) = PlanO(c)[4]
  BY <1>1
<1>3. Order("O", c, 5) = ya /\ Order("O", c, 6) = xa
  BY <1>1
<1>4. /\ Order("O", c, 7) = PlanO(c)[5] /\ Order("O", c, 8) = PlanO(c)[6]
      /\ Order("O", c, 9) = PlanO(c)[7] /\ Order("O", c, 10) = PlanO(c)[8]
      /\ Order("O", c, 11) = PlanO(c)[9] /\ Order("O", c, 12) = PlanO(c)[10]
      /\ Order("O", c, 13) = PlanO(c)[11]
  BY <1>1
<1>5. Order("O", c, 14) = yb /\ Order("O", c, 15) = xb
  BY <1>1
<1>6. /\ Order("O", c, 16) = PlanO(c)[12] /\ Order("O", c, 17) = PlanO(c)[13]
      /\ Order("O", c, 18) = PlanO(c)[14]
  BY <1>1
<1> QED  BY <1>2, <1>3, <1>4, <1>5, <1>6 DEF PlanO, xa, ya, xb, yb

\* Instruction k of a mark, and the number of the next one.
Follows(f, k, j) == f \in {"X", "O"} /\ k \in 1..Size(f) /\ j = k + 1

(* Each instruction of an X leads the pen and the ink to where the next one finds them.          *)
LEMMA StoodX ==
    ASSUME NEW m \in Int \X Int, NEW p \in Int \X Int, NEW up \in {"up", "down"}, NEW at,
           NEW b \in Boxes, NEW c \in Cells, NEW m2 \in Int \X Int, NEW p2 \in Int \X Int,
           NEW up2, NEW at2, NEW b2,
           NEW off \in Int \X Int, NEW k, NEW j, Follows("X", k, j),
           Carried(Order("X", c, k), c, m, p, up, at, b, m2, p2, up2, at2, b2),
           Stood("X", c, k, off, m, p, up, at, b)
    PROVE  Stood("X", c, j, off, m2, p2, up2, at2, b2)
<1> DEFINE h == Start(c)
           i == Order("X", c, k)
<1>1. /\ h \in Int \X Int /\ h = <<MmToStep(StartX(c)), MmToStep(StartY(c))>>
      /\ StartX(c) \in Int /\ StartY(c) \in Int
  BY Places DEF Start, StartX, StartY, Cells
<1>0. k \in 1..14 /\ j = k + 1
  BY DEF Follows, Size
<1>2. X(m) \in Int /\ Y(m) \in Int /\ X(m2) \in Int /\ Y(m2) \in Int
  BY InkTyped
<1>3. Effect(i, c, m, p, up, at, b, m2, p2, up2, at2, b2)
  <2>1. Carried(i, c, m, p, up, at, b, m2, p2, up2, at2, b2)
    OBVIOUS
  <2> HIDE DEF i
  <2> QED  BY <2>1, Carrying
<1> HIDE DEF i
<1>4. CASE k = 1
  <2>1. /\ X(m) = 2 * p[1] + off[1] /\ Y(m) = 2 * p[2] + off[2]
        /\ up = "up" /\ at = NoCell
        /\ ~Inked(b)
    <3>1. Stood("X", c, 1, off, m, p, up, at, b)
      BY <1>4
    <3> QED  BY <3>1 DEF Stood, At, Lowered, Size, Placed, Home, Bare, Trace
  <2>2. i = Aim(c)
    BY <1>4, OrdersOfX DEF i
  <2>4. /\ X(m2) = 2 * p2[1] + off[1] /\ Y(m2) = 2 * p2[2] + off[2]
        /\ up2 = "up" /\ at2 = c
        /\ ~Inked(b2)
    BY <1>1, <1>2, <1>3, <2>1, <2>2 DEF Effect
  <2>5. Stood("X", c, 2, off, m2, p2, up2, at2, b2)
    BY <2>4 DEF Stood, At, Lowered, Size, Placed, Home, Bare, Trace
  <2> QED  BY <1>0, <1>4, <2>5
<1>5. CASE k = 2
  <2>1. /\ X(m) = 2 * p[1] + off[1] /\ Y(m) = 2 * p[2] + off[2]
        /\ up = "up" /\ at = c
        /\ ~Inked(b)
    <3>1. Stood("X", c, 2, off, m, p, up, at, b)
      BY <1>5
    <3> QED  BY <3>1 DEF Stood, At, Lowered, Size, Placed, Home, Bare, Trace
  <2>2. i = ToY(StartY(c))
    BY <1>5, OrdersOfX DEF i
  <2>3. /\ X(m2) - 2 * p2[1] = X(m) - 2 * p[1] /\ Y(m2) - 2 * p2[2] = Y(m) - 2 * p[2]
        /\ p2 = <<p[1], MmToStep(StartY(c))>> /\ up2 = up /\ at2 = at /\ b2 = b
    BY <1>1, <1>3, <2>1, <2>2 DEF Effect
  <2>4. /\ X(m2) = 2 * p2[1] + off[1] /\ Y(m2) = 2 * p2[2] + off[2]
        /\ up2 = "up" /\ at2 = c
        /\ p2[2] = Start(c)[2] /\ ~Inked(b2)
    BY <1>1, <1>2, <2>1, <2>3
  <2>5. Stood("X", c, 3, off, m2, p2, up2, at2, b2)
    BY <2>4 DEF Stood, At, Lowered, Size, Placed, Home, Bare, Trace
  <2> QED  BY <1>0, <1>5, <2>5
<1>6. CASE k = 3
  <2>1. /\ X(m) = 2 * p[1] + off[1] /\ Y(m) = 2 * p[2] + off[2]
        /\ up = "up" /\ at = c
        /\ p[2] = Start(c)[2] /\ ~Inked(b)
    <3>1. Stood("X", c, 3, off, m, p, up, at, b)
      BY <1>6
    <3> QED  BY <3>1 DEF Stood, At, Lowered, Size, Placed, Home, Bare, Trace
  <2>2. i = ToX(StartX(c))
    BY <1>6, OrdersOfX DEF i
  <2>3. /\ X(m2) - 2 * p2[1] = X(m) - 2 * p[1] /\ Y(m2) - 2 * p2[2] = Y(m) - 2 * p[2]
        /\ p2 = <<MmToStep(StartX(c)), p[2]>> /\ up2 = up /\ at2 = at /\ b2 = b
    BY <1>1, <1>3, <2>1, <2>2 DEF Effect
  <2>4. /\ X(m2) = 2 * p2[1] + off[1] /\ Y(m2) = 2 * p2[2] + off[2]
        /\ up2 = "up" /\ at2 = c
        /\ p2 = h /\ ~Inked(b2)
    BY <1>1, <1>2, <2>1, <2>3
  <2>5. Stood("X", c, 4, off, m2, p2, up2, at2, b2)
    BY <2>4 DEF Stood, At, Lowered, Size, Placed, Home, Bare, Trace
  <2> QED  BY <1>0, <1>6, <2>5
<1>7. CASE k = 4
  <2>1. /\ X(m) = 2 * p[1] + off[1] /\ Y(m) = 2 * p[2] + off[2]
        /\ up = "up" /\ at = c
        /\ p = h /\ ~Inked(b)
    <3>1. Stood("X", c, 4, off, m, p, up, at, b)
      BY <1>7
    <3> QED  BY <3>1 DEF Stood, At, Lowered, Size, Placed, Home, Bare, Trace
  <2>2. i = PenDown
    BY <1>7, OrdersOfX DEF i
  <2>4. /\ X(m2) = 2 * p2[1] + off[1] /\ Y(m2) = 2 * p2[2] + off[2]
        /\ up2 = "down" /\ at2 = c
        /\ p2 = h /\ ~Inked(b2)
    BY <1>1, <1>2, <1>3, <2>1, <2>2 DEF Effect
  <2>5. Stood("X", c, 5, off, m2, p2, up2, at2, b2)
    BY <2>4 DEF Stood, At, Lowered, Size, Placed, Home, Bare, Trace
  <2> QED  BY <1>0, <1>7, <2>5
<1>8. CASE k = 5
  <2>1. /\ X(m) = 2 * p[1] + off[1] /\ Y(m) = 2 * p[2] + off[2]
        /\ up = "down" /\ at = c
        /\ p = h /\ ~Inked(b)
    <3>1. Stood("X", c, 5, off, m, p, up, at, b)
      BY <1>8
    <3> QED  BY <3>1 DEF Stood, At, Lowered, Size, Placed, Home, Bare, Trace
  <2>2. i = Stroke(200, 0)
    BY <1>8, OrdersOfX DEF i
  <2>3. /\ X(m2) = X(m) + (200 + 0) /\ Y(m2) = Y(m) + (200 - 0)
        /\ p2 = p /\ up2 = up /\ at2 = at /\ b2 = Drawn(b, up, at, c, m, m2)
    BY <1>3, <2>2 DEF Effect
  <2>4. /\ X(m2) = 2 * p2[1] + off[1] + 200 /\ Y(m2) = 2 * p2[2] + off[2] + 200
        /\ up2 = "down" /\ at2 = c
        /\ p2 = h /\ b2 = Shift(X1, Root(off, h))
    <3>1. b2 = Hull(Hull(b, Spot(m)), Spot(m2))
      BY <2>1, <2>3 DEF Drawn
    <3>2. b2 = Shift(X1, Root(off, h))
      BY <1>1, <1>2, <2>1, <2>3, <3>1
         DEF Hull, Inked, Least, Most, Spot, Shift, Root, Box, X1, Boxes
    <3> QED  BY <1>1, <1>2, <2>1, <2>3, <3>2
  <2>5. Stood("X", c, 6, off, m2, p2, up2, at2, b2)
    BY <2>4 DEF Stood, At, Lowered, Size, Placed, Home, Bare, Trace
  <2> QED  BY <1>0, <1>8, <2>5
<1>9. CASE k = 6
  <2>1. /\ X(m) = 2 * p[1] + off[1] + 200 /\ Y(m) = 2 * p[2] + off[2] + 200
        /\ up = "down" /\ at = c
        /\ p = h /\ b = Shift(X1, Root(off, h))
    <3>1. Stood("X", c, 6, off, m, p, up, at, b)
      BY <1>9
    <3> QED  BY <3>1 DEF Stood, At, Lowered, Size, Placed, Home, Bare, Trace
  <2>2. i = PenUp
    BY <1>9, OrdersOfX DEF i
  <2>4. /\ X(m2) = 2 * p2[1] + off[1] + 200 /\ Y(m2) = 2 * p2[2] + off[2] + 200
        /\ up2 = "up" /\ at2 = c
        /\ p2 = h /\ b2 = Shift(X1, Root(off, h))
    BY <1>1, <1>2, <1>3, <2>1, <2>2 DEF Effect
  <2>5. Stood("X", c, 7, off, m2, p2, up2, at2, b2)
    BY <2>4 DEF Stood, At, Lowered, Size, Placed, Home, Bare, Trace
  <2> QED  BY <1>0, <1>9, <2>5
<1>10. CASE k = 7
  <2>1. /\ X(m) = 2 * p[1] + off[1] + 200 /\ Y(m) = 2 * p[2] + off[2] + 200
        /\ up = "up" /\ at = c
        /\ p = h /\ b = Shift(X1, Root(off, h))
    <3>1. Stood("X", c, 7, off, m, p, up, at, b)
      BY <1>10
    <3> QED  BY <3>1 DEF Stood, At, Lowered, Size, Placed, Home, Bare, Trace
  <2>2. i = Stroke(-100, 100)
    BY <1>10, OrdersOfX DEF i
  <2>3. /\ X(m2) = X(m) + (-100 + 100) /\ Y(m2) = Y(m) + (-100 - 100)
        /\ p2 = p /\ up2 = up /\ at2 = at /\ b2 = Drawn(b, up, at, c, m, m2)
    BY <1>3, <2>2 DEF Effect
  <2>4. /\ X(m2) = 2 * p2[1] + off[1] + 200 /\ Y(m2) = 2 * p2[2] + off[2]
        /\ up2 = "up" /\ at2 = c
        /\ p2 = h /\ b2 = Shift(X1, Root(off, h))
    BY <1>1, <1>2, <2>1, <2>3 DEF Drawn
  <2>5. Stood("X", c, 8, off, m2, p2, up2, at2, b2)
    BY <2>4 DEF Stood, At, Lowered, Size, Placed, Home, Bare, Trace
  <2> QED  BY <1>0, <1>10, <2>5
<1>11. CASE k = 8
  <2>1. /\ X(m) = 2 * p[1] + off[1] + 200 /\ Y(m) = 2 * p[2] + off[2]
        /\ up = "up" /\ at = c
        /\ p = h /\ b = Shift(X1, Root(off, h))
    <3>1. Stood("X", c, 8, off, m, p, up, at, b)
      BY <1>11
    <3> QED  BY <3>1 DEF Stood, At, Lowered, Size, Placed, Home, Bare, Trace
  <2>2. i = PenDown
    BY <1>11, OrdersOfX DEF i
  <2>4. /\ X(m2) = 2 * p2[1] + off[1] + 200 /\ Y(m2) = 2 * p2[2] + off[2]
        /\ up2 = "down" /\ at2 = c
        /\ p2 = h /\ b2 = Shift(X1, Root(off, h))
    BY <1>1, <1>2, <1>3, <2>1, <2>2 DEF Effect
  <2>5. Stood("X", c, 9, off, m2, p2, up2, at2, b2)
    BY <2>4 DEF Stood, At, Lowered, Size, Placed, Home, Bare, Trace
  <2> QED  BY <1>0, <1>11, <2>5
<1>12. CASE k = 9
  <2>1. /\ X(m) = 2 * p[1] + off[1] + 200 /\ Y(m) = 2 * p[2] + off[2]
        /\ up = "down" /\ at = c
        /\ p = h /\ b = Shift(X1, Root(off, h))
    <3>1. Stood("X", c, 9, off, m, p, up, at, b)
      BY <1>12
    <3> QED  BY <3>1 DEF Stood, At, Lowered, Size, Placed, Home, Bare, Trace
  <2>2. i = Stroke(0, -220)
    BY <1>12, OrdersOfX DEF i
  <2>3. /\ X(m2) = X(m) + (0 + -220) /\ Y(m2) = Y(m) + (0 - -220)
        /\ p2 = p /\ up2 = up /\ at2 = at /\ b2 = Drawn(b, up, at, c, m, m2)
    BY <1>3, <2>2 DEF Effect
  <2>4. /\ X(m2) = 2 * p2[1] + off[1] - 20 /\ Y(m2) = 2 * p2[2] + off[2] + 220
        /\ up2 = "down" /\ at2 = c
        /\ p2 = h /\ b2 = Shift(X2, Root(off, h))
    <3>1. b2 = Hull(Hull(b, Spot(m)), Spot(m2))
      BY <2>1, <2>3 DEF Drawn
    <3>2. b2 = Shift(X2, Root(off, h))
      <4> DEFINE u == off[1] + 2 * h[1]
                 v == off[2] + 2 * h[2]
      <4>1. /\ u \in Int /\ v \in Int
            /\ X(m) = u + 200 /\ Y(m) = v
            /\ X(m2) = u - 20 /\ Y(m2) = v + 220
        BY <1>1, <1>2, <2>1, <2>3
      <4>2. /\ Shift(X1, Root(off, h)) = Box(u, u + 200, v, v + 200)
            /\ Shift(X2, Root(off, h)) = Box(u - 20, u + 200, v, v + 220)
        BY <4>1 DEF Shift, Root, Box, X1, X2
      <4> HIDE DEF u, v
      <4>3. Hull(Box(u, u + 200, v, v + 200), Spot(m)) = Box(u, u + 200, v, v + 200)
        BY <4>1 DEF Hull, Inked, Spot, Box, Least, Most
      <4>4. Hull(Box(u, u + 200, v, v + 200), Spot(m2)) = Box(u - 20, u + 200, v, v + 220)
        BY <4>1 DEF Hull, Inked, Spot, Box, Least, Most
      <4> QED  BY <2>1, <3>1, <4>2, <4>3, <4>4
    <3> QED  BY <1>1, <1>2, <2>1, <2>3, <3>2
  <2>5. Stood("X", c, 10, off, m2, p2, up2, at2, b2)
    BY <2>4 DEF Stood, At, Lowered, Size, Placed, Home, Bare, Trace
  <2> QED  BY <1>0, <1>12, <2>5
<1>13. CASE k = 10
  <2>1. /\ X(m) = 2 * p[1] + off[1] - 20 /\ Y(m) = 2 * p[2] + off[2] + 220
        /\ up = "down" /\ at = c
        /\ p = h /\ b = Shift(X2, Root(off, h))
    <3>1. Stood("X", c, 10, off, m, p, up, at, b)
      BY <1>13
    <3> QED  BY <3>1 DEF Stood, At, Lowered, Size, Placed, Home, Bare, Trace
  <2>2. i = PenUp
    BY <1>13, OrdersOfX DEF i
  <2>4. /\ X(m2) = 2 * p2[1] + off[1] - 20 /\ Y(m2) = 2 * p2[2] + off[2] + 220
        /\ up2 = "up" /\ at2 = c
        /\ p2 = h /\ b2 = Shift(X2, Root(off, h))
    BY <1>1, <1>2, <1>3, <2>1, <2>2 DEF Effect
  <2>5. Stood("X", c, 11, off, m2, p2, up2, at2, b2)
    BY <2>4 DEF Stood, At, Lowered, Size, Placed, Home, Bare, Trace
  <2> QED  BY <1>0, <1>13, <2>5
<1>14. CASE k = 11
  <2>1. /\ X(m) = 2 * p[1] + off[1] - 20 /\ Y(m) = 2 * p[2] + off[2] + 220
        /\ up = "up" /\ at = c
        /\ p = h /\ b = Shift(X2, Root(off, h))
    <3>1. Stood("X", c, 11, off, m, p, up, at, b)
      BY <1>14
    <3> QED  BY <3>1 DEF Stood, At, Lowered, Size, Placed, Home, Bare, Trace
  <2>2. i = Stroke(-97, 97)
    BY <1>14, OrdersOfX DEF i
  <2>3. /\ X(m2) = X(m) + (-97 + 97) /\ Y(m2) = Y(m) + (-97 - 97)
        /\ p2 = p /\ up2 = up /\ at2 = at /\ b2 = Drawn(b, up, at, c, m, m2)
    BY <1>3, <2>2 DEF Effect
  <2>4. /\ X(m2) = 2 * p2[1] + off[1] - 20 /\ Y(m2) = 2 * p2[2] + off[2] + 26
        /\ up2 = "up" /\ at2 = c
        /\ p2 = h /\ b2 = Shift(X2, Root(off, h))
    BY <1>1, <1>2, <2>1, <2>3 DEF Drawn
  <2>5. Stood("X", c, 12, off, m2, p2, up2, at2, b2)
    BY <2>4 DEF Stood, At, Lowered, Size, Placed, Home, Bare, Trace
  <2> QED  BY <1>0, <1>14, <2>5
<1>15. CASE k = 12
  <2>1. /\ X(m) = 2 * p[1] + off[1] - 20 /\ Y(m) = 2 * p[2] + off[2] + 26
        /\ up = "up" /\ at = c
        /\ p = h /\ b = Shift(X2, Root(off, h))
    <3>1. Stood("X", c, 12, off, m, p, up, at, b)
      BY <1>15
    <3> QED  BY <3>1 DEF Stood, At, Lowered, Size, Placed, Home, Bare, Trace
  <2>2. i = ToY(20)
    BY <1>15, OrdersOfX DEF i
  <2>3. /\ X(m2) - 2 * p2[1] = X(m) - 2 * p[1] /\ Y(m2) - 2 * p2[2] = Y(m) - 2 * p[2]
        /\ p2 = <<p[1], MmToStep(20)>> /\ up2 = up /\ at2 = at /\ b2 = b
    BY <1>3, <2>1, <2>2 DEF Effect
  <2>4. /\ X(m2) = 2 * p2[1] + off[1] - 20 /\ Y(m2) = 2 * p2[2] + off[2] + 26
        /\ up2 = "up" /\ at2 = c
        /\ b2 = Shift(X2, Root(off, h))
    <3>1. /\ p[1] \in Int /\ p[2] \in Int /\ p2[1] \in Int /\ p2[2] \in Int
          /\ off[1] \in Int /\ off[2] \in Int
      OBVIOUS
    <3>2. X(m2) - 2 * p2[1] = X(m) - 2 * p[1] /\ X(m) = 2 * p[1] + off[1] - 20
      BY <2>1, <2>3
    <3>3. Y(m2) - 2 * p2[2] = Y(m) - 2 * p[2] /\ Y(m) = 2 * p[2] + off[2] + 26
      BY <2>1, <2>3
    <3>4. X(m2) = 2 * p2[1] + off[1] - 20
      BY <1>2, <3>1, <3>2
    <3>5. Y(m2) = 2 * p2[2] + off[2] + 26
      BY <1>2, <3>1, <3>3
    <3> QED  BY <2>1, <2>3, <3>4, <3>5
  <2>5. Stood("X", c, 13, off, m2, p2, up2, at2, b2)
    BY <2>4 DEF Stood, At, Lowered, Size, Placed, Home, Bare, Trace
  <2> QED  BY <1>0, <1>15, <2>5
<1>16. CASE k = 13
  <2>1. /\ X(m) = 2 * p[1] + off[1] - 20 /\ Y(m) = 2 * p[2] + off[2] + 26
        /\ up = "up" /\ at = c
        /\ b = Shift(X2, Root(off, h))
    <3>1. Stood("X", c, 13, off, m, p, up, at, b)
      BY <1>16
    <3> QED  BY <3>1 DEF Stood, At, Lowered, Size, Placed, Home, Bare, Trace
  <2>2. i = ToX(0)
    BY <1>16, OrdersOfX DEF i
  <2>3. /\ X(m2) - 2 * p2[1] = X(m) - 2 * p[1] /\ Y(m2) - 2 * p2[2] = Y(m) - 2 * p[2]
        /\ p2 = <<MmToStep(0), p[2]>> /\ up2 = up /\ at2 = at /\ b2 = b
    BY <1>3, <2>1, <2>2 DEF Effect
  <2>4. /\ X(m2) = 2 * p2[1] + off[1] - 20 /\ Y(m2) = 2 * p2[2] + off[2] + 26
        /\ up2 = "up" /\ at2 = c
        /\ b2 = Shift(X2, Root(off, h))
    <3>1. /\ p[1] \in Int /\ p[2] \in Int /\ p2[1] \in Int /\ p2[2] \in Int
          /\ off[1] \in Int /\ off[2] \in Int
      OBVIOUS
    <3>2. X(m2) - 2 * p2[1] = X(m) - 2 * p[1] /\ X(m) = 2 * p[1] + off[1] - 20
      BY <2>1, <2>3
    <3>3. Y(m2) - 2 * p2[2] = Y(m) - 2 * p[2] /\ Y(m) = 2 * p[2] + off[2] + 26
      BY <2>1, <2>3
    <3>4. X(m2) = 2 * p2[1] + off[1] - 20
      BY <1>2, <3>1, <3>2
    <3>5. Y(m2) = 2 * p2[2] + off[2] + 26
      BY <1>2, <3>1, <3>3
    <3> QED  BY <2>1, <2>3, <3>4, <3>5
  <2>5. Stood("X", c, 14, off, m2, p2, up2, at2, b2)
    BY <2>4 DEF Stood, At, Lowered, Size, Placed, Home, Bare, Trace
  <2> QED  BY <1>0, <1>16, <2>5
<1>17. CASE k = 14
  <2>1. /\ X(m) = 2 * p[1] + off[1] - 20 /\ Y(m) = 2 * p[2] + off[2] + 26
        /\ up = "up" /\ at = c
        /\ b = Shift(X2, Root(off, h))
    <3>1. Stood("X", c, 14, off, m, p, up, at, b)
      BY <1>17
    <3> QED  BY <3>1 DEF Stood, At, Lowered, Size, Placed, Home, Bare, Trace
  <2>2. i = AimOff
    BY <1>17, OrdersOfX DEF i
  <2>4. /\ X(m2) = 2 * p2[1] + off[1] - 20 /\ Y(m2) = 2 * p2[2] + off[2] + 26
        /\ up2 = "up" /\ at2 = NoCell
        /\ b2 = Shift(X2, Root(off, h))
    BY <1>1, <1>2, <1>3, <2>1, <2>2 DEF Effect
  <2>5. Stood("X", c, 15, off, m2, p2, up2, at2, b2)
    BY <2>4 DEF Stood, At, Lowered, Size, Placed, Home, Bare, Trace
  <2> QED  BY <1>0, <1>17, <2>5
<1> QED  BY <1>0, <1>4, <1>5, <1>6, <1>7, <1>8, <1>9, <1>10, <1>11, <1>12,
            <1>13, <1>14, <1>15, <1>16, <1>17

(* Each instruction of an O leads the pen and the ink to where the next one finds them.          *)
LEMMA StoodO ==
    ASSUME NEW m \in Int \X Int, NEW p \in Int \X Int, NEW up \in {"up", "down"}, NEW at,
           NEW b \in Boxes, NEW c \in Cells, NEW m2 \in Int \X Int, NEW p2 \in Int \X Int,
           NEW up2, NEW at2, NEW b2,
           NEW off \in Int \X Int, NEW k, NEW j, Follows("O", k, j),
           Carried(Order("O", c, k), c, m, p, up, at, b, m2, p2, up2, at2, b2),
           Stood("O", c, k, off, m, p, up, at, b)
    PROVE  Stood("O", c, j, off, m2, p2, up2, at2, b2)
<1> DEFINE h == Right(c)
           i == Order("O", c, k)
<1>1. /\ h \in Int \X Int /\ h = <<MmToStep(ASide(c)[1]), MmToStep(ASide(c)[2])>>
      /\ StartX(c) \in Int /\ StartY(c) \in Int
      /\ ASide(c)[1] \in Int /\ ASide(c)[2] \in Int /\ BSide(c)[1] \in Int /\ BSide(c)[2] \in Int
      /\ Start(c) = <<MmToStep(StartX(c)), MmToStep(StartY(c))>> /\ Start(c) \in Int \X Int
  <2>1. StartX(c) \in Int /\ StartY(c) \in Int
    BY DEF StartX, StartY, Cells
  <2>2. ASide(c)[1] \in Int /\ ASide(c)[2] \in Int /\ BSide(c)[1] \in Int /\ BSide(c)[2] \in Int
    BY Places
  <2> QED  BY <2>1, <2>2, Places DEF Start, Right
<1>0. k \in 1..18 /\ j = k + 1
  BY DEF Follows, Size
<1>2. X(m) \in Int /\ Y(m) \in Int /\ X(m2) \in Int /\ Y(m2) \in Int
  BY InkTyped
<1>3. Effect(i, c, m, p, up, at, b, m2, p2, up2, at2, b2)
  <2>1. Carried(i, c, m, p, up, at, b, m2, p2, up2, at2, b2)
    OBVIOUS
  <2> HIDE DEF i
  <2> QED  BY <2>1, Carrying
<1> HIDE DEF i
<1>4. CASE k = 1
  <2>1. /\ X(m) = 2 * p[1] + off[1] /\ Y(m) = 2 * p[2] + off[2]
        /\ up = "up" /\ at = NoCell
        /\ ~Inked(b)
    <3>1. Stood("O", c, 1, off, m, p, up, at, b)
      BY <1>4
    <3> QED  BY <3>1 DEF Stood, At, Lowered, Size, Placed, Home, Bare, Trace
  <2>2. i = Aim(c)
    BY <1>4, OrdersOfO DEF i
  <2>4. /\ X(m2) = 2 * p2[1] + off[1] /\ Y(m2) = 2 * p2[2] + off[2]
        /\ up2 = "up" /\ at2 = c
        /\ ~Inked(b2)
    BY <1>1, <1>2, <1>3, <2>1, <2>2 DEF Effect
  <2>5. Stood("O", c, 2, off, m2, p2, up2, at2, b2)
    BY <2>4 DEF Stood, At, Lowered, Size, Placed, Home, Bare, Trace
  <2> QED  BY <1>0, <1>4, <2>5
<1>5. CASE k = 2
  <2>1. /\ X(m) = 2 * p[1] + off[1] /\ Y(m) = 2 * p[2] + off[2]
        /\ up = "up" /\ at = c
        /\ ~Inked(b)
    <3>1. Stood("O", c, 2, off, m, p, up, at, b)
      BY <1>5
    <3> QED  BY <3>1 DEF Stood, At, Lowered, Size, Placed, Home, Bare, Trace
  <2>2. i = ToY(StartY(c))
    BY <1>5, OrdersOfO DEF i
  <2>3. /\ X(m2) - 2 * p2[1] = X(m) - 2 * p[1] /\ Y(m2) - 2 * p2[2] = Y(m) - 2 * p[2]
        /\ p2 = <<p[1], MmToStep(StartY(c))>> /\ up2 = up /\ at2 = at /\ b2 = b
    BY <1>1, <1>3, <2>1, <2>2 DEF Effect
  <2>4. /\ X(m2) = 2 * p2[1] + off[1] /\ Y(m2) = 2 * p2[2] + off[2]
        /\ up2 = "up" /\ at2 = c
        /\ p2[2] = Start(c)[2] /\ ~Inked(b2)
    BY <1>1, <1>2, <2>1, <2>3
  <2>5. Stood("O", c, 3, off, m2, p2, up2, at2, b2)
    BY <2>4 DEF Stood, At, Lowered, Size, Placed, Home, Bare, Trace
  <2> QED  BY <1>0, <1>5, <2>5
<1>6. CASE k = 3
  <2>1. /\ X(m) = 2 * p[1] + off[1] /\ Y(m) = 2 * p[2] + off[2]
        /\ up = "up" /\ at = c
        /\ p[2] = Start(c)[2] /\ ~Inked(b)
    <3>1. Stood("O", c, 3, off, m, p, up, at, b)
      BY <1>6
    <3> QED  BY <3>1 DEF Stood, At, Lowered, Size, Placed, Home, Bare, Trace
  <2>2. i = ToX(StartX(c))
    BY <1>6, OrdersOfO DEF i
  <2>3. /\ X(m2) - 2 * p2[1] = X(m) - 2 * p[1] /\ Y(m2) - 2 * p2[2] = Y(m) - 2 * p[2]
        /\ p2 = <<MmToStep(StartX(c)), p[2]>> /\ up2 = up /\ at2 = at /\ b2 = b
    BY <1>1, <1>3, <2>1, <2>2 DEF Effect
  <2>4. /\ X(m2) = 2 * p2[1] + off[1] /\ Y(m2) = 2 * p2[2] + off[2]
        /\ up2 = "up" /\ at2 = c
        /\ p2 = Start(c) /\ ~Inked(b2)
    BY <1>1, <1>2, <2>1, <2>3
  <2>5. Stood("O", c, 4, off, m2, p2, up2, at2, b2)
    BY <2>4 DEF Stood, At, Lowered, Size, Placed, Home, Bare, Trace
  <2> QED  BY <1>0, <1>6, <2>5
<1>7. CASE k = 4
  <2>1. /\ X(m) = 2 * p[1] + off[1] /\ Y(m) = 2 * p[2] + off[2]
        /\ up = "up" /\ at = c
        /\ p = Start(c) /\ ~Inked(b)
    <3>1. Stood("O", c, 4, off, m, p, up, at, b)
      BY <1>7
    <3> QED  BY <3>1 DEF Stood, At, Lowered, Size, Placed, Home, Bare, Trace
  <2>2. i = Rel(15)
    BY <1>7, OrdersOfO DEF i
  <2>4. /\ X(m2) = 2 * p2[1] + off[1] /\ Y(m2) = 2 * p2[2] + off[2]
        /\ up2 = "up" /\ at2 = c
        /\ p2 = Start(c) /\ ~Inked(b2)
    BY <1>1, <1>2, <1>3, <2>1, <2>2 DEF Effect
  <2>5. Stood("O", c, 5, off, m2, p2, up2, at2, b2)
    BY <2>4 DEF Stood, At, Lowered, Size, Placed, Home, Bare, Trace
  <2> QED  BY <1>0, <1>7, <2>5
<1>8. CASE k = 5
  <2>1. /\ X(m) = 2 * p[1] + off[1] /\ Y(m) = 2 * p[2] + off[2]
        /\ up = "up" /\ at = c
        /\ p = Start(c) /\ ~Inked(b)
    <3>1. Stood("O", c, 5, off, m, p, up, at, b)
      BY <1>8
    <3> QED  BY <3>1 DEF Stood, At, Lowered, Size, Placed, Home, Bare, Trace
  <2>2. i = ToY(ASide(c)[2])
    BY <1>8, OrdersOfO DEF i
  <2>3. /\ X(m2) - 2 * p2[1] = X(m) - 2 * p[1] /\ Y(m2) - 2 * p2[2] = Y(m) - 2 * p[2]
        /\ p2 = <<p[1], MmToStep(ASide(c)[2])>> /\ up2 = up /\ at2 = at /\ b2 = b
    BY <1>1, <1>3, <2>1, <2>2 DEF Effect
  <2>4. /\ X(m2) = 2 * p2[1] + off[1] /\ Y(m2) = 2 * p2[2] + off[2]
        /\ up2 = "up" /\ at2 = c
        /\ p2[2] = h[2] /\ ~Inked(b2)
    BY <1>1, <1>2, <2>1, <2>3
  <2>5. Stood("O", c, 6, off, m2, p2, up2, at2, b2)
    BY <2>4 DEF Stood, At, Lowered, Size, Placed, Home, Bare, Trace
  <2> QED  BY <1>0, <1>8, <2>5
<1>9. CASE k = 6
  <2>1. /\ X(m) = 2 * p[1] + off[1] /\ Y(m) = 2 * p[2] + off[2]
        /\ up = "up" /\ at = c
        /\ p[2] = h[2] /\ ~Inked(b)
    <3>1. Stood("O", c, 6, off, m, p, up, at, b)
      BY <1>9
    <3> QED  BY <3>1 DEF Stood, At, Lowered, Size, Placed, Home, Bare, Trace
  <2>2. i = ToX(ASide(c)[1])
    BY <1>9, OrdersOfO DEF i
  <2>3. /\ X(m2) - 2 * p2[1] = X(m) - 2 * p[1] /\ Y(m2) - 2 * p2[2] = Y(m) - 2 * p[2]
        /\ p2 = <<MmToStep(ASide(c)[1]), p[2]>> /\ up2 = up /\ at2 = at /\ b2 = b
    BY <1>1, <1>3, <2>1, <2>2 DEF Effect
  <2>4. /\ X(m2) = 2 * p2[1] + off[1] /\ Y(m2) = 2 * p2[2] + off[2]
        /\ up2 = "up" /\ at2 = c
        /\ p2 = h /\ ~Inked(b2)
    BY <1>1, <1>2, <2>1, <2>3
  <2>5. Stood("O", c, 7, off, m2, p2, up2, at2, b2)
    BY <2>4 DEF Stood, At, Lowered, Size, Placed, Home, Bare, Trace
  <2> QED  BY <1>0, <1>9, <2>5
<1>10. CASE k = 7
  <2>1. /\ X(m) = 2 * p[1] + off[1] /\ Y(m) = 2 * p[2] + off[2]
        /\ up = "up" /\ at = c
        /\ p = h /\ ~Inked(b)
    <3>1. Stood("O", c, 7, off, m, p, up, at, b)
      BY <1>10
    <3> QED  BY <3>1 DEF Stood, At, Lowered, Size, Placed, Home, Bare, Trace
  <2>2. i = PenDown
    BY <1>10, OrdersOfO DEF i
  <2>4. /\ X(m2) = 2 * p2[1] + off[1] /\ Y(m2) = 2 * p2[2] + off[2]
        /\ up2 = "down" /\ at2 = c
        /\ p2 = h /\ ~Inked(b2)
    BY <1>1, <1>2, <1>3, <2>1, <2>2 DEF Effect
  <2>5. Stood("O", c, 8, off, m2, p2, up2, at2, b2)
    BY <2>4 DEF Stood, At, Lowered, Size, Placed, Home, Bare, Trace
  <2> QED  BY <1>0, <1>10, <2>5
<1>11. CASE k = 8
  <2>1. /\ X(m) = 2 * p[1] + off[1] /\ Y(m) = 2 * p[2] + off[2]
        /\ up = "down" /\ at = c
        /\ p = h /\ ~Inked(b)
    <3>1. Stood("O", c, 8, off, m, p, up, at, b)
      BY <1>11
    <3> QED  BY <3>1 DEF Stood, At, Lowered, Size, Placed, Home, Bare, Trace
  <2>2. i = Stroke(133, -9)
    BY <1>11, OrdersOfO DEF i
  <2>3. /\ X(m2) = X(m) + (133 + -9) /\ Y(m2) = Y(m) + (133 - -9)
        /\ p2 = p /\ up2 = up /\ at2 = at /\ b2 = Drawn(b, up, at, c, m, m2)
    BY <1>3, <2>2 DEF Effect
  <2>4. /\ X(m2) = 2 * p2[1] + off[1] + 124 /\ Y(m2) = 2 * p2[2] + off[2] + 142
        /\ up2 = "down" /\ at2 = c
        /\ p2 = h /\ b2 = Shift(O1, Root(off, h))
    <3>1. b2 = Hull(Hull(b, Spot(m)), Spot(m2))
      BY <2>1, <2>3 DEF Drawn
    <3>2. b2 = Shift(O1, Root(off, h))
      BY <1>1, <1>2, <2>1, <2>3, <3>1
         DEF Hull, Inked, Least, Most, Spot, Shift, Root, Box, O1, Boxes
    <3> QED  BY <1>1, <1>2, <2>1, <2>3, <3>2
  <2>5. Stood("O", c, 9, off, m2, p2, up2, at2, b2)
    BY <2>4 DEF Stood, At, Lowered, Size, Placed, Home, Bare, Trace
  <2> QED  BY <1>0, <1>11, <2>5
<1>12. CASE k = 9
  <2>1. /\ X(m) = 2 * p[1] + off[1] + 124 /\ Y(m) = 2 * p[2] + off[2] + 142
        /\ up = "down" /\ at = c
        /\ p = h /\ b = Shift(O1, Root(off, h))
    <3>1. Stood("O", c, 9, off, m, p, up, at, b)
      BY <1>12
    <3> QED  BY <3>1 DEF Stood, At, Lowered, Size, Placed, Home, Bare, Trace
  <2>2. i = Stroke(-22, -116)
    BY <1>12, OrdersOfO DEF i
  <2>3. /\ X(m2) = X(m) + (-22 + -116) /\ Y(m2) = Y(m) + (-22 - -116)
        /\ p2 = p /\ up2 = up /\ at2 = at /\ b2 = Drawn(b, up, at, c, m, m2)
    BY <1>3, <2>2 DEF Effect
  <2>4. /\ X(m2) = 2 * p2[1] + off[1] - 14 /\ Y(m2) = 2 * p2[2] + off[2] + 236
        /\ up2 = "down" /\ at2 = c
        /\ p2 = h /\ b2 = Shift(O2, Root(off, h))
    <3>1. b2 = Hull(Hull(b, Spot(m)), Spot(m2))
      BY <2>1, <2>3 DEF Drawn
    <3>2. b2 = Shift(O2, Root(off, h))
      <4> DEFINE u == off[1] + 2 * h[1]
                 v == off[2] + 2 * h[2]
      <4>1. /\ u \in Int /\ v \in Int
            /\ X(m) = u + 124 /\ Y(m) = v + 142
            /\ X(m2) = u - 14 /\ Y(m2) = v + 236
        BY <1>1, <1>2, <2>1, <2>3
      <4>2. /\ Shift(O1, Root(off, h)) = Box(u, u + 124, v, v + 142)
            /\ Shift(O2, Root(off, h)) = Box(u - 14, u + 124, v, v + 236)
        BY <4>1 DEF Shift, Root, Box, O1, O2
      <4> HIDE DEF u, v
      <4>3. Hull(Box(u, u + 124, v, v + 142), Spot(m)) = Box(u, u + 124, v, v + 142)
        BY <4>1 DEF Hull, Inked, Spot, Box, Least, Most
      <4>4. Hull(Box(u, u + 124, v, v + 142), Spot(m2)) = Box(u - 14, u + 124, v, v + 236)
        BY <4>1 DEF Hull, Inked, Spot, Box, Least, Most
      <4> QED  BY <2>1, <3>1, <4>2, <4>3, <4>4
    <3> QED  BY <1>1, <1>2, <2>1, <2>3, <3>2
  <2>5. Stood("O", c, 10, off, m2, p2, up2, at2, b2)
    BY <2>4 DEF Stood, At, Lowered, Size, Placed, Home, Bare, Trace
  <2> QED  BY <1>0, <1>12, <2>5
<1>13. CASE k = 10
  <2>1. /\ X(m) = 2 * p[1] + off[1] - 14 /\ Y(m) = 2 * p[2] + off[2] + 236
        /\ up = "down" /\ at = c
        /\ p = h /\ b = Shift(O2, Root(off, h))
    <3>1. Stood("O", c, 10, off, m, p, up, at, b)
      BY <1>13
    <3> QED  BY <3>1 DEF Stood, At, Lowered, Size, Placed, Home, Bare, Trace
  <2>2. i = Stroke(-120, 22)
    BY <1>13, OrdersOfO DEF i
  <2>3. /\ X(m2) = X(m) + (-120 + 22) /\ Y(m2) = Y(m) + (-120 - 22)
        /\ p2 = p /\ up2 = up /\ at2 = at /\ b2 = Drawn(b, up, at, c, m, m2)
    BY <1>3, <2>2 DEF Effect
  <2>4. /\ X(m2) = 2 * p2[1] + off[1] - 112 /\ Y(m2) = 2 * p2[2] + off[2] + 94
        /\ up2 = "down" /\ at2 = c
        /\ p2 = h /\ b2 = Shift(O3, Root(off, h))
    <3>1. b2 = Hull(Hull(b, Spot(m)), Spot(m2))
      BY <2>1, <2>3 DEF Drawn
    <3>2. b2 = Shift(O3, Root(off, h))
      <4> DEFINE u == off[1] + 2 * h[1]
                 v == off[2] + 2 * h[2]
      <4>1. /\ u \in Int /\ v \in Int
            /\ X(m) = u - 14 /\ Y(m) = v + 236
            /\ X(m2) = u - 112 /\ Y(m2) = v + 94
        BY <1>1, <1>2, <2>1, <2>3
      <4>2. /\ Shift(O2, Root(off, h)) = Box(u - 14, u + 124, v, v + 236)
            /\ Shift(O3, Root(off, h)) = Box(u - 112, u + 124, v, v + 236)
        BY <4>1 DEF Shift, Root, Box, O2, O3
      <4> HIDE DEF u, v
      <4>3. Hull(Box(u - 14, u + 124, v, v + 236), Spot(m)) = Box(u - 14, u + 124, v, v + 236)
        BY <4>1 DEF Hull, Inked, Spot, Box, Least, Most
      <4>4. Hull(Box(u - 14, u + 124, v, v + 236), Spot(m2)) = Box(u - 112, u + 124, v, v + 236)
        BY <4>1 DEF Hull, Inked, Spot, Box, Least, Most
      <4> QED  BY <2>1, <3>1, <4>2, <4>3, <4>4
    <3> QED  BY <1>1, <1>2, <2>1, <2>3, <3>2
  <2>5. Stood("O", c, 11, off, m2, p2, up2, at2, b2)
    BY <2>4 DEF Stood, At, Lowered, Size, Placed, Home, Bare, Trace
  <2> QED  BY <1>0, <1>13, <2>5
<1>14. CASE k = 11
  <2>1. /\ X(m) = 2 * p[1] + off[1] - 112 /\ Y(m) = 2 * p[2] + off[2] + 94
        /\ up = "down" /\ at = c
        /\ p = h /\ b = Shift(O3, Root(off, h))
    <3>1. Stood("O", c, 11, off, m, p, up, at, b)
      BY <1>14
    <3> QED  BY <3>1 DEF Stood, At, Lowered, Size, Placed, Home, Bare, Trace
  <2>2. i = Stroke(10, 104)
    BY <1>14, OrdersOfO DEF i
  <2>3. /\ X(m2) = X(m) + (10 + 104) /\ Y(m2) = Y(m) + (10 - 104)
        /\ p2 = p /\ up2 = up /\ at2 = at /\ b2 = Drawn(b, up, at, c, m, m2)
    BY <1>3, <2>2 DEF Effect
  <2>4. /\ X(m2) = 2 * p2[1] + off[1] + 2 /\ Y(m2) = 2 * p2[2] + off[2]
        /\ up2 = "down" /\ at2 = c
        /\ p2 = h /\ b2 = Shift(O3, Root(off, h))
    <3>1. b2 = Hull(Hull(b, Spot(m)), Spot(m2))
      BY <2>1, <2>3 DEF Drawn
    <3>2. b2 = Shift(O3, Root(off, h))
      <4> DEFINE u == off[1] + 2 * h[1]
                 v == off[2] + 2 * h[2]
      <4>1. /\ u \in Int /\ v \in Int
            /\ X(m) = u - 112 /\ Y(m) = v + 94
            /\ X(m2) = u + 2 /\ Y(m2) = v
        BY <1>1, <1>2, <2>1, <2>3
      <4>2. /\ Shift(O3, Root(off, h)) = Box(u - 112, u + 124, v, v + 236)
        BY <4>1 DEF Shift, Root, Box, O3
      <4> HIDE DEF u, v
      <4>3. Hull(Box(u - 112, u + 124, v, v + 236), Spot(m)) = Box(u - 112, u + 124, v, v + 236)
        BY <4>1 DEF Hull, Inked, Spot, Box, Least, Most
      <4>4. Hull(Box(u - 112, u + 124, v, v + 236), Spot(m2)) = Box(u - 112, u + 124, v, v + 236)
        BY <4>1 DEF Hull, Inked, Spot, Box, Least, Most
      <4> QED  BY <2>1, <3>1, <4>2, <4>3, <4>4
    <3> QED  BY <1>1, <1>2, <2>1, <2>3, <3>2
  <2>5. Stood("O", c, 12, off, m2, p2, up2, at2, b2)
    BY <2>4 DEF Stood, At, Lowered, Size, Placed, Home, Bare, Trace
  <2> QED  BY <1>0, <1>14, <2>5
<1>15. CASE k = 12
  <2>1. /\ X(m) = 2 * p[1] + off[1] + 2 /\ Y(m) = 2 * p[2] + off[2]
        /\ up = "down" /\ at = c
        /\ p = h /\ b = Shift(O3, Root(off, h))
    <3>1. Stood("O", c, 12, off, m, p, up, at, b)
      BY <1>15
    <3> QED  BY <3>1 DEF Stood, At, Lowered, Size, Placed, Home, Bare, Trace
  <2>2. i = PenUp
    BY <1>15, OrdersOfO DEF i
  <2>4. /\ X(m2) = 2 * p2[1] + off[1] + 2 /\ Y(m2) = 2 * p2[2] + off[2]
        /\ up2 = "up" /\ at2 = c
        /\ p2 = h /\ b2 = Shift(O3, Root(off, h))
    BY <1>1, <1>2, <1>3, <2>1, <2>2 DEF Effect
  <2>5. Stood("O", c, 13, off, m2, p2, up2, at2, b2)
    BY <2>4 DEF Stood, At, Lowered, Size, Placed, Home, Bare, Trace
  <2> QED  BY <1>0, <1>15, <2>5
<1>16. CASE k = 13
  <2>1. /\ X(m) = 2 * p[1] + off[1] + 2 /\ Y(m) = 2 * p[2] + off[2]
        /\ up = "up" /\ at = c
        /\ p = h /\ b = Shift(O3, Root(off, h))
    <3>1. Stood("O", c, 13, off, m, p, up, at, b)
      BY <1>16
    <3> QED  BY <3>1 DEF Stood, At, Lowered, Size, Placed, Home, Bare, Trace
  <2>2. i = Rel(-15)
    BY <1>16, OrdersOfO DEF i
  <2>4. /\ X(m2) = 2 * p2[1] + off[1] + 2 /\ Y(m2) = 2 * p2[2] + off[2]
        /\ up2 = "up" /\ at2 = c
        /\ b2 = Shift(O3, Root(off, h))
    BY <1>1, <1>2, <1>3, <2>1, <2>2 DEF Effect
  <2>5. Stood("O", c, 14, off, m2, p2, up2, at2, b2)
    BY <2>4 DEF Stood, At, Lowered, Size, Placed, Home, Bare, Trace
  <2> QED  BY <1>0, <1>16, <2>5
<1>17. CASE k = 14
  <2>1. /\ X(m) = 2 * p[1] + off[1] + 2 /\ Y(m) = 2 * p[2] + off[2]
        /\ up = "up" /\ at = c
        /\ b = Shift(O3, Root(off, h))
    <3>1. Stood("O", c, 14, off, m, p, up, at, b)
      BY <1>17
    <3> QED  BY <3>1 DEF Stood, At, Lowered, Size, Placed, Home, Bare, Trace
  <2>2. i = ToY(BSide(c)[2])
    BY <1>17, OrdersOfO DEF i
  <2>3. /\ X(m2) - 2 * p2[1] = X(m) - 2 * p[1] /\ Y(m2) - 2 * p2[2] = Y(m) - 2 * p[2]
        /\ p2 = <<p[1], MmToStep(BSide(c)[2])>> /\ up2 = up /\ at2 = at /\ b2 = b
    BY <1>1, <1>3, <2>1, <2>2 DEF Effect
  <2>4. /\ X(m2) = 2 * p2[1] + off[1] + 2 /\ Y(m2) = 2 * p2[2] + off[2]
        /\ up2 = "up" /\ at2 = c
        /\ b2 = Shift(O3, Root(off, h))
    <3>1. /\ p[1] \in Int /\ p[2] \in Int /\ p2[1] \in Int /\ p2[2] \in Int
          /\ off[1] \in Int /\ off[2] \in Int
      OBVIOUS
    <3>2. X(m2) - 2 * p2[1] = X(m) - 2 * p[1] /\ X(m) = 2 * p[1] + off[1] + 2
      BY <2>1, <2>3
    <3>3. Y(m2) - 2 * p2[2] = Y(m) - 2 * p[2] /\ Y(m) = 2 * p[2] + off[2]
      BY <2>1, <2>3
    <3>4. X(m2) = 2 * p2[1] + off[1] + 2
      BY <1>2, <3>1, <3>2
    <3>5. Y(m2) = 2 * p2[2] + off[2]
      BY <1>2, <3>1, <3>3
    <3> QED  BY <2>1, <2>3, <3>4, <3>5
  <2>5. Stood("O", c, 15, off, m2, p2, up2, at2, b2)
    BY <2>4 DEF Stood, At, Lowered, Size, Placed, Home, Bare, Trace
  <2> QED  BY <1>0, <1>17, <2>5
<1>18. CASE k = 15
  <2>1. /\ X(m) = 2 * p[1] + off[1] + 2 /\ Y(m) = 2 * p[2] + off[2]
        /\ up = "up" /\ at = c
        /\ b = Shift(O3, Root(off, h))
    <3>1. Stood("O", c, 15, off, m, p, up, at, b)
      BY <1>18
    <3> QED  BY <3>1 DEF Stood, At, Lowered, Size, Placed, Home, Bare, Trace
  <2>2. i = ToX(BSide(c)[1])
    BY <1>18, OrdersOfO DEF i
  <2>3. /\ X(m2) - 2 * p2[1] = X(m) - 2 * p[1] /\ Y(m2) - 2 * p2[2] = Y(m) - 2 * p[2]
        /\ p2 = <<MmToStep(BSide(c)[1]), p[2]>> /\ up2 = up /\ at2 = at /\ b2 = b
    BY <1>1, <1>3, <2>1, <2>2 DEF Effect
  <2>4. /\ X(m2) = 2 * p2[1] + off[1] + 2 /\ Y(m2) = 2 * p2[2] + off[2]
        /\ up2 = "up" /\ at2 = c
        /\ b2 = Shift(O3, Root(off, h))
    <3>1. /\ p[1] \in Int /\ p[2] \in Int /\ p2[1] \in Int /\ p2[2] \in Int
          /\ off[1] \in Int /\ off[2] \in Int
      OBVIOUS
    <3>2. X(m2) - 2 * p2[1] = X(m) - 2 * p[1] /\ X(m) = 2 * p[1] + off[1] + 2
      BY <2>1, <2>3
    <3>3. Y(m2) - 2 * p2[2] = Y(m) - 2 * p[2] /\ Y(m) = 2 * p[2] + off[2]
      BY <2>1, <2>3
    <3>4. X(m2) = 2 * p2[1] + off[1] + 2
      BY <1>2, <3>1, <3>2
    <3>5. Y(m2) = 2 * p2[2] + off[2]
      BY <1>2, <3>1, <3>3
    <3> QED  BY <2>1, <2>3, <3>4, <3>5
  <2>5. Stood("O", c, 16, off, m2, p2, up2, at2, b2)
    BY <2>4 DEF Stood, At, Lowered, Size, Placed, Home, Bare, Trace
  <2> QED  BY <1>0, <1>18, <2>5
<1>19. CASE k = 16
  <2>1. /\ X(m) = 2 * p[1] + off[1] + 2 /\ Y(m) = 2 * p[2] + off[2]
        /\ up = "up" /\ at = c
        /\ b = Shift(O3, Root(off, h))
    <3>1. Stood("O", c, 16, off, m, p, up, at, b)
      BY <1>19
    <3> QED  BY <3>1 DEF Stood, At, Lowered, Size, Placed, Home, Bare, Trace
  <2>2. i = ToY(20)
    BY <1>19, OrdersOfO DEF i
  <2>3. /\ X(m2) - 2 * p2[1] = X(m) - 2 * p[1] /\ Y(m2) - 2 * p2[2] = Y(m) - 2 * p[2]
        /\ p2 = <<p[1], MmToStep(20)>> /\ up2 = up /\ at2 = at /\ b2 = b
    BY <1>3, <2>1, <2>2 DEF Effect
  <2>4. /\ X(m2) = 2 * p2[1] + off[1] + 2 /\ Y(m2) = 2 * p2[2] + off[2]
        /\ up2 = "up" /\ at2 = c
        /\ b2 = Shift(O3, Root(off, h))
    <3>1. /\ p[1] \in Int /\ p[2] \in Int /\ p2[1] \in Int /\ p2[2] \in Int
          /\ off[1] \in Int /\ off[2] \in Int
      OBVIOUS
    <3>2. X(m2) - 2 * p2[1] = X(m) - 2 * p[1] /\ X(m) = 2 * p[1] + off[1] + 2
      BY <2>1, <2>3
    <3>3. Y(m2) - 2 * p2[2] = Y(m) - 2 * p[2] /\ Y(m) = 2 * p[2] + off[2]
      BY <2>1, <2>3
    <3>4. X(m2) = 2 * p2[1] + off[1] + 2
      BY <1>2, <3>1, <3>2
    <3>5. Y(m2) = 2 * p2[2] + off[2]
      BY <1>2, <3>1, <3>3
    <3> QED  BY <2>1, <2>3, <3>4, <3>5
  <2>5. Stood("O", c, 17, off, m2, p2, up2, at2, b2)
    BY <2>4 DEF Stood, At, Lowered, Size, Placed, Home, Bare, Trace
  <2> QED  BY <1>0, <1>19, <2>5
<1>20. CASE k = 17
  <2>1. /\ X(m) = 2 * p[1] + off[1] + 2 /\ Y(m) = 2 * p[2] + off[2]
        /\ up = "up" /\ at = c
        /\ b = Shift(O3, Root(off, h))
    <3>1. Stood("O", c, 17, off, m, p, up, at, b)
      BY <1>20
    <3> QED  BY <3>1 DEF Stood, At, Lowered, Size, Placed, Home, Bare, Trace
  <2>2. i = ToX(0)
    BY <1>20, OrdersOfO DEF i
  <2>3. /\ X(m2) - 2 * p2[1] = X(m) - 2 * p[1] /\ Y(m2) - 2 * p2[2] = Y(m) - 2 * p[2]
        /\ p2 = <<MmToStep(0), p[2]>> /\ up2 = up /\ at2 = at /\ b2 = b
    BY <1>3, <2>1, <2>2 DEF Effect
  <2>4. /\ X(m2) = 2 * p2[1] + off[1] + 2 /\ Y(m2) = 2 * p2[2] + off[2]
        /\ up2 = "up" /\ at2 = c
        /\ b2 = Shift(O3, Root(off, h))
    <3>1. /\ p[1] \in Int /\ p[2] \in Int /\ p2[1] \in Int /\ p2[2] \in Int
          /\ off[1] \in Int /\ off[2] \in Int
      OBVIOUS
    <3>2. X(m2) - 2 * p2[1] = X(m) - 2 * p[1] /\ X(m) = 2 * p[1] + off[1] + 2
      BY <2>1, <2>3
    <3>3. Y(m2) - 2 * p2[2] = Y(m) - 2 * p[2] /\ Y(m) = 2 * p[2] + off[2]
      BY <2>1, <2>3
    <3>4. X(m2) = 2 * p2[1] + off[1] + 2
      BY <1>2, <3>1, <3>2
    <3>5. Y(m2) = 2 * p2[2] + off[2]
      BY <1>2, <3>1, <3>3
    <3> QED  BY <2>1, <2>3, <3>4, <3>5
  <2>5. Stood("O", c, 18, off, m2, p2, up2, at2, b2)
    BY <2>4 DEF Stood, At, Lowered, Size, Placed, Home, Bare, Trace
  <2> QED  BY <1>0, <1>20, <2>5
<1>21. CASE k = 18
  <2>1. /\ X(m) = 2 * p[1] + off[1] + 2 /\ Y(m) = 2 * p[2] + off[2]
        /\ up = "up" /\ at = c
        /\ b = Shift(O3, Root(off, h))
    <3>1. Stood("O", c, 18, off, m, p, up, at, b)
      BY <1>21
    <3> QED  BY <3>1 DEF Stood, At, Lowered, Size, Placed, Home, Bare, Trace
  <2>2. i = AimOff
    BY <1>21, OrdersOfO DEF i
  <2>4. /\ X(m2) = 2 * p2[1] + off[1] + 2 /\ Y(m2) = 2 * p2[2] + off[2]
        /\ up2 = "up" /\ at2 = NoCell
        /\ b2 = Shift(O3, Root(off, h))
    BY <1>1, <1>2, <1>3, <2>1, <2>2 DEF Effect
  <2>5. Stood("O", c, 19, off, m2, p2, up2, at2, b2)
    BY <2>4 DEF Stood, At, Lowered, Size, Placed, Home, Bare, Trace
  <2> QED  BY <1>0, <1>21, <2>5
<1> QED  BY <1>0, <1>4, <1>5, <1>6, <1>7, <1>8, <1>9, <1>10, <1>11, <1>12,
            <1>13, <1>14, <1>15, <1>16, <1>17, <1>18, <1>19, <1>20, <1>21

(* Only two instructions of the plan of an O are calls of moveToRel.                            *)
LEMMA Direct ==
    ASSUME NEW c
    PROVE  /\ \A k \in 1..14 : Order("X", c, k).op # "rel"
           /\ \A k \in (1..18) \ {4, 13} : Order("O", c, k).op # "rel"
<1>1. /\ \A mm : ToX(mm).op # "rel" /\ ToY(mm).op # "rel"
      /\ \A one, two : Stroke(one, two).op # "rel"
      /\ PenUp.op # "rel" /\ PenDown.op # "rel" /\ AimOff.op # "rel" /\ Aim(c).op # "rel"
  BY DEF ToX, ToY, Stroke, PenUp, PenDown, AimOff, Aim
<1>2. ASSUME NEW k \in 1..14 PROVE Order("X", c, k).op # "rel"
  <2>1. CASE k \in 1..7
    BY <1>1, <2>1, OrdersOfX
  <2>2. CASE k \in 8..14
    BY <1>1, <2>2, OrdersOfX
  <2> QED  BY <2>1, <2>2
<1>3. ASSUME NEW k \in (1..18) \ {4, 13} PROVE Order("O", c, k).op # "rel"
  <2>1. CASE k \in 1..6
    BY <1>1, <1>3, <2>1, OrdersOfO
  <2>2. CASE k \in 7..12
    BY <1>1, <2>2, OrdersOfO
  <2>3. CASE k \in 14..18
    BY <1>1, <2>3, OrdersOfO
  <2> QED  BY <2>1, <2>2, <2>3
<1> QED  BY <1>2, <1>3

\* The first instruction of s, and the others: instruction k of a mark and what follows.
Onward(f, c, k, e, s) ==
    LET next == Left(f, c, k + 1) \o After(e) IN
    /\ After(e) \in Seq(Instructions) /\ next \in Seq(Instructions)
    /\ s # <<>> /\ Head(s) = Order(f, c, k)
    /\ ~(f = "O" /\ k \in {4, 13}) => Head(s).op # "rel" /\ Tail(s) = next
    /\ f = "O" /\ k = 4 => /\ Head(s) = Rel(15)
                           /\ MoveTo(ASide(c)[1], ASide(c)[2]) \o Tail(s) = next
    /\ f = "O" /\ k = 13 => /\ Head(s) = Rel(-15)
                            /\ MoveTo(BSide(c)[1], BSide(c)[2]) \o Tail(s) = next

(* What is left of a mark and of the one after it, and the instruction that comes first.        *)
LEMMA Ahead ==
    ASSUME NEW f \in {"X", "O"}, NEW c \in Cells, NEW k \in 1..Size(f),
           NEW e \in Cells \cup {NoCell}
    PROVE  Onward(f, c, k, e, Left(f, c, k) \o After(e))
<1> DEFINE s == Left(f, c, k) \o After(e)
<1> DEFINE a == After(e)
           next == Left(f, c, k + 1) \o a
<1>1. a \in Seq(Instructions)
  <2>1. CASE e \in Cells
    BY <2>1, PlanOfX DEF After
  <2>2. CASE e \notin Cells
    BY <2>2 DEF After
  <2> QED  BY <2>1, <2>2
<1> HIDE DEF a
<1>2. ASSUME NEW i \in Instructions, NEW t \in Seq(Instructions), Left(f, c, k) = << i >> \o t
      PROVE  s # <<>> /\ Head(s) = i /\ Tail(s) = t \o a /\ t \o a \in Seq(Instructions)
  <2>1. << i >> \in Seq(Instructions)
    OBVIOUS
  <2>2. s = (<< i >> \o t) \o a
    BY <1>2 DEF a
  <2>3. s = << i >> \o (t \o a) /\ t \o a \in Seq(Instructions)
    BY <1>1, <2>1, <2>2, ConcatAssociative, ConcatProperties
  <2> QED  BY <2>3, Peel
<1>3. ASSUME ~(f = "O" /\ k \in {4, 13})
      PROVE  /\ s # <<>> /\ Head(s) = Order(f, c, k) /\ Head(s).op # "rel" /\ Tail(s) = next
             /\ next \in Seq(Instructions)
  <2>1. /\ Order(f, c, k) \in Instructions /\ Left(f, c, k + 1) \in Seq(Instructions)
        /\ Left(f, c, k) = << Order(f, c, k) >> \o Left(f, c, k + 1) /\ Order(f, c, k).op # "rel"
    <3>1. CASE f = "X"
      <4>1. k \in 1..14 /\ k \in 1..15 /\ k + 1 \in 1..15
        BY <3>1 DEF Size
      <4> QED  BY <3>1, <4>1, LeftOfX, Direct DEF Left
    <3>2. CASE f = "O"
      <4>1. k \in (1..18) \ {4, 13} /\ k \in 1..18 /\ k + 1 \in 1..19
        BY <1>3, <3>2 DEF Size
      <4>2. /\ Order("O", c, k) \in Instructions /\ LeftO(c, k + 1) \in Seq(Instructions)
            /\ LeftO(c, k) = << Order("O", c, k) >> \o LeftO(c, k + 1)
        BY <4>1, LeftOfO
      <4> QED  BY <3>2, <4>1, <4>2, Direct DEF Left
    <3> QED  BY <3>1, <3>2
  <2> QED  BY <1>2, <2>1
<1>4. ASSUME f = "O", NEW j \in {4, 13}, k = j, NEW r, NEW x \in Int, NEW y \in Int,
             r = Rel(IF j = 4 THEN 15 ELSE -15),
             LeftO(c, j) = << r >> \o LeftO(c, j + 3),
             LeftO(c, j + 1) = MoveTo(x, y) \o LeftO(c, j + 3), Order("O", c, j) = r
      PROVE  /\ s # <<>> /\ Head(s) = Order(f, c, k) /\ Head(s) = r
             /\ next \in Seq(Instructions) /\ MoveTo(x, y) \o Tail(s) = next
  <2> DEFINE m == MoveTo(x, y)
             t == LeftO(c, j + 3)
  <2>1. r \in Instructions
    <3>1. 15 \in Int /\ -15 \in Int
      OBVIOUS
    <3> QED  BY <1>4, <3>1, PlanTyped
  <2>2. t \in Seq(Instructions)
    <3>1. j + 3 \in 1..19
      OBVIOUS
    <3> QED  BY <3>1, LeftOfO
  <2>3. m \in Seq(Instructions)
    BY Pieces DEF Piece
  <2>4. Left(f, c, k) = << r >> \o t /\ Left(f, c, k + 1) = m \o t /\ Order(f, c, k) = r
    BY <1>4 DEF Left
  <2> HIDE DEF m, t
  <2>5. s # <<>> /\ Head(s) = r /\ Tail(s) = t \o a /\ t \o a \in Seq(Instructions)
    BY <1>2, <2>1, <2>2, <2>4
  <2>6. next = (m \o t) \o a
    BY <2>4
  <2>7. next = m \o (t \o a) /\ next \in Seq(Instructions)
    <3>1. (m \o t) \o a = m \o (t \o a)
      BY <1>1, <2>2, <2>3, ConcatAssociative
    <3>2. m \o (t \o a) \in Seq(Instructions)
      BY <2>3, <2>5, ConcatProperties
    <3> HIDE DEF next
    <3> QED  BY <2>6, <3>1, <3>2
  <2> QED  BY <2>4, <2>5, <2>7 DEF m
<1>5. ASSUME f = "O", k = 4
      PROVE  /\ s # <<>> /\ Head(s) = Order(f, c, k) /\ Head(s) = Rel(15)
             /\ next \in Seq(Instructions)
             /\ MoveTo(ASide(c)[1], ASide(c)[2]) \o Tail(s) = next
  <2>1. /\ LeftO(c, 4) = << Rel(15) >> \o LeftO(c, 4 + 3)
        /\ LeftO(c, 4 + 1) = MoveTo(ASide(c)[1], ASide(c)[2]) \o LeftO(c, 4 + 3)
        /\ Order("O", c, 4) = Rel(15)
    <3>1. 4 + 3 = 7 /\ 4 + 1 = 5
      OBVIOUS
    <3> QED  BY <3>1, LeftOfO, OrdersOfO
  <2>2. ASide(c)[1] \in Int /\ ASide(c)[2] \in Int
    BY Places
  <2>3. Rel(15) = Rel(IF 4 = 4 THEN 15 ELSE -15) /\ 4 \in {4, 13}
    OBVIOUS
  <2> QED  BY <1>4, <1>5, <2>1, <2>2, <2>3
<1>6. ASSUME f = "O", k = 13
      PROVE  /\ s # <<>> /\ Head(s) = Order(f, c, k) /\ Head(s) = Rel(-15)
             /\ next \in Seq(Instructions)
             /\ MoveTo(BSide(c)[1], BSide(c)[2]) \o Tail(s) = next
  <2>1. /\ LeftO(c, 13) = << Rel(-15) >> \o LeftO(c, 13 + 3)
        /\ LeftO(c, 13 + 1) = MoveTo(BSide(c)[1], BSide(c)[2]) \o LeftO(c, 13 + 3)
        /\ Order("O", c, 13) = Rel(-15)
    <3>1. 13 + 3 = 16 /\ 13 + 1 = 14
      OBVIOUS
    <3> QED  BY <3>1, LeftOfO, OrdersOfO
  <2>2. BSide(c)[1] \in Int /\ BSide(c)[2] \in Int
    BY Places
  <2>3. Rel(-15) = Rel(IF 13 = 4 THEN 15 ELSE -15) /\ 13 \in {4, 13}
    OBVIOUS
  <2> QED  BY <1>4, <1>6, <2>1, <2>2, <2>3
<1> QED  BY <1>1, <1>3, <1>5, <1>6 DEF a, Onward

\* Instruction k has been carried out from the state in which it finds the pen.
Led(f, c, k, off, m, p, up, at, b, m2, p2, up2, at2, b2) ==
    /\ Carried(Order(f, c, k), c, m, p, up, at, b, m2, p2, up2, at2, b2)
    /\ Stood(f, c, k, off, m, p, up, at, b)

(* Each instruction of a mark leads the pen and the ink to where the next one finds them.            *)
LEMMA StoodStep ==
    ASSUME NEW m \in Int \X Int, NEW p \in Int \X Int, NEW up \in {"up", "down"}, NEW at,
           NEW b \in Boxes, NEW c \in Cells, NEW m2 \in Int \X Int, NEW p2 \in Int \X Int,
           NEW up2, NEW at2, NEW b2, NEW f,
           NEW off \in Int \X Int, NEW k, NEW j, Follows(f, k, j),
           Led(f, c, k, off, m, p, up, at, b, m2, p2, up2, at2, b2)
    PROVE  Stood(f, c, j, off, m2, p2, up2, at2, b2)
<1>1. CASE f = "X"
  <2>1. Follows("X", k, j)
    BY <1>1
  <2>2. /\ Carried(Order("X", c, k), c, m, p, up, at, b, m2, p2, up2, at2, b2)
        /\ Stood("X", c, k, off, m, p, up, at, b)
    BY <1>1 DEF Led
  <2>3. Stood("X", c, j, off, m2, p2, up2, at2, b2)
    BY <2>1, <2>2, StoodX
  <2> QED  BY <1>1, <2>3
<1>2. CASE f = "O"
  <2>1. Follows("O", k, j)
    BY <1>2
  <2>2. /\ Carried(Order("O", c, k), c, m, p, up, at, b, m2, p2, up2, at2, b2)
        /\ Stood("O", c, k, off, m, p, up, at, b)
    BY <1>2 DEF Led
  <2>3. Stood("O", c, j, off, m2, p2, up2, at2, b2)
    BY <2>1, <2>2, StoodO
  <2> QED  BY <1>2, <2>3
<1>3. f \in {"X", "O"}
  BY DEF Follows
<1> QED  BY <1>1, <1>2, <1>3

-----------------------------------------------------------------------------
(* The steps of a mark.                                                                          *)

(* What a step does to the pen and to the ink.                                                   *)
LEMMA Carries ==
    ASSUME Types, Step, NEW c \in Cells, cell \in {c, NoCell}
    PROVE  /\ Carried(Head(todo), c, motor, pos, pen, cell, ink[c], motor', pos', pen', cell', ink'[c])
           /\ \A d \in Cells \ {c} : ink'[d] = ink[d]
<1> DEFINE i == Head(todo)
<1>1. /\ i \in Instructions
      /\ pen' = IF i.op = "pen" THEN i.to ELSE pen
      /\ cell' = IF i.op = "on" THEN i.cell ELSE cell
      /\ i.op \in {"rel", "pen", "on"} => UNCHANGED <<motor, pos, ink>>
      /\ i.op = "toX" => TurnToX(MmToStep(i.mm))
      /\ i.op = "toY" => TurnToY(MmToStep(i.mm))
      /\ i.op = "turn" => Turn(i.one, i.two) /\ pos' = pos
  BY Effects
<1> HIDE DEF i
<1>2. NoCell \notin Cells
  BY DEF NoCell, Cells
<1>3. ASSUME NEW one, NEW two, Turn(one, two)
      PROVE  /\ motor' = <<motor[1] + one, motor[2] + two>>
             /\ ink'[c] = Drawn(ink[c], pen, cell, c, motor, motor')
             /\ \A d \in Cells \ {c} : ink'[d] = ink[d]
  <2>1. motor' = <<motor[1] + one, motor[2] + two>>
    BY <1>3 DEF Turn
  <2>2. CASE pen = "down" /\ cell = c
    <3>1. ink' = [ink EXCEPT ![c] = Hull(Hull(ink[c], Spot(motor)), Spot(motor'))]
      BY <1>3, <2>1, <2>2 DEF Turn
    <3> QED  BY <2>1, <2>2, <3>1 DEF Types, Drawn
  <2>3. CASE ~(pen = "down" /\ cell = c)
    <3>1. ink' = ink
      BY <1>2, <1>3, <2>3 DEF Turn
    <3> QED  BY <2>1, <2>3, <3>1 DEF Drawn
  <2> QED  BY <2>2, <2>3
<1>4. i.op \in {"toX", "toY", "turn", "rel", "pen", "on"}
  BY <1>1, Kinds
<1>5. CASE i.op = "toX"
  <2> DEFINE v == MmToStep(i.mm)
  <2>1. Turn(v - pos[1], v - pos[1]) /\ pos' = <<v, pos[2]>>
    BY <1>1, <1>5 DEF TurnToX
  <2>2. /\ motor' = <<motor[1] + (v - pos[1]), motor[2] + (v - pos[1])>>
        /\ ink'[c] = Drawn(ink[c], pen, cell, c, motor, motor')
        /\ \A d \in Cells \ {c} : ink'[d] = ink[d]
    BY <1>3, <2>1
  <2> QED  BY <1>1, <1>5, <2>1, <2>2 DEF Carried, i
<1>6. CASE i.op = "toY"
  <2> DEFINE v == MmToStep(i.mm)
  <2>1. Turn(v - pos[2], -(v - pos[2])) /\ pos' = <<pos[1], v>>
    BY <1>1, <1>6 DEF TurnToY
  <2>2. /\ motor' = <<motor[1] + (v - pos[2]), motor[2] + -(v - pos[2])>>
        /\ ink'[c] = Drawn(ink[c], pen, cell, c, motor, motor')
        /\ \A d \in Cells \ {c} : ink'[d] = ink[d]
    BY <1>3, <2>1
  <2> QED  BY <1>1, <1>6, <2>1, <2>2 DEF Carried, i
<1>7. CASE i.op = "turn"
  <2>1. /\ motor' = <<motor[1] + i.one, motor[2] + i.two>> /\ pos' = pos
        /\ ink'[c] = Drawn(ink[c], pen, cell, c, motor, motor')
        /\ \A d \in Cells \ {c} : ink'[d] = ink[d]
    BY <1>1, <1>3, <1>7
  <2> QED  BY <1>1, <1>7, <2>1 DEF Carried, i
<1>8. CASE i.op \in {"rel", "pen", "on"}
  BY <1>1, <1>8 DEF Carried, i
<1> QED  BY <1>4, <1>5, <1>6, <1>7, <1>8

(* The instruction carried out, and what is left to do.                                           *)
LEMMA NextOrder ==
    ASSUME Types, Step, NEW f \in {"X", "O"}, NEW c \in Cells, NEW k \in 1..Size(f),
           NEW e \in Cells \cup {NoCell}, todo = Left(f, c, k) \o After(e),
           f = "O" /\ k = 4 => pos = Start(c), f = "O" /\ k = 13 => pos = Right(c)
    PROVE  Head(todo) = Order(f, c, k) /\ todo' = Left(f, c, k + 1) \o After(e)
<1> DEFINE next == Left(f, c, k + 1) \o After(e)
<1>1. /\ Head(todo) = Order(f, c, k)
      /\ ~(f = "O" /\ k \in {4, 13}) => Head(todo).op # "rel" /\ Tail(todo) = next
      /\ f = "O" /\ k = 4 => /\ Head(todo) = Rel(15)
                             /\ MoveTo(ASide(c)[1], ASide(c)[2]) \o Tail(todo) = next
      /\ f = "O" /\ k = 13 => /\ Head(todo) = Rel(-15)
                              /\ MoveTo(BSide(c)[1], BSide(c)[2]) \o Tail(todo) = next
  <2>1. Onward(f, c, k, e, todo)
    BY Ahead
  <2> QED  BY <2>1 DEF Onward
<1> HIDE DEF next
<1>2. CASE ~(f = "O" /\ k \in {4, 13})
  <2>1. todo' = Tail(todo)
    BY <1>1, <1>2, Effects
  <2> QED  BY <1>1, <1>2, <2>1 DEF next
<1>3. ASSUME NEW x, Head(todo) = Rel(x)
      PROVE  todo' = MoveTo(Aside(pos, x)[1], Aside(pos, x)[2]) \o Tail(todo)
  <2>1. Rel(x).op = "rel" /\ Rel(x).x = x /\ Rel(x).y = 0
    BY DEF Rel
  <2>2. todo' = MoveTo(StepToMm(pos[1] + MmToStep(x)), StepToMm(pos[2] + MmToStep(0))) \o Tail(todo)
    BY <1>3, <2>1, Effects
  <2> QED  BY <2>2 DEF Aside
<1>4. CASE f = "O" /\ k = 4
  <2>1. todo' = MoveTo(Aside(pos, 15)[1], Aside(pos, 15)[2]) \o Tail(todo)
    BY <1>1, <1>3, <1>4
  <2>2. Aside(pos, 15) = ASide(c)
    BY <1>4 DEF ASide
  <2> QED  BY <1>1, <1>4, <2>1, <2>2 DEF next
<1>5. CASE f = "O" /\ k = 13
  <2>1. todo' = MoveTo(Aside(pos, -15)[1], Aside(pos, -15)[2]) \o Tail(todo)
    BY <1>1, <1>3, <1>5
  <2>2. Aside(pos, -15) = BSide(c)
    BY <1>5 DEF BSide
  <2> QED  BY <1>1, <1>5, <2>1, <2>2 DEF next
<1> QED  BY <1>2, <1>4, <1>5

(* The drift of one mark, and of those before it.                                                  *)
LEMMA Drifting ==
    /\ \A n \in 0..9 : Drift(n) \in Int \X Int
    /\ \A n \in 0..8 : /\ Owner(n) \in {"X", "O"}
                       /\ Drift(n + 1) = <<Drift(n)[1] + At(Owner(n), Size(Owner(n)) + 1)[1],
                                           Drift(n)[2] + At(Owner(n), Size(Owner(n)) + 1)[2]>>
                       /\ Owner(n) = "O" => n + 1 \in 0..8 /\ Owner(n + 1) = "X"
<1>1. Drift(0) = <<0, 0>> /\ Drift(1) = <<-20, 26>> /\ Drift(2) = <<-18, 26>>
  BY DEF Drift
<1>2. Drift(3) = <<-38, 52>> /\ Drift(4) = <<-36, 52>> /\ Drift(5) = <<-56, 78>>
  BY DEF Drift
<1>3. /\ Drift(6) = <<-54, 78>> /\ Drift(7) = <<-74, 104>> /\ Drift(8) = <<-72, 104>>
      /\ Drift(9) = <<-92, 130>>
  BY DEF Drift
<1>4. /\ Owner(0) = "X" /\ Owner(1) = "O" /\ Owner(2) = "X" /\ Owner(3) = "O" /\ Owner(4) = "X"
      /\ Owner(5) = "O" /\ Owner(6) = "X" /\ Owner(7) = "O" /\ Owner(8) = "X"
  BY DEF Owner
<1>5. At("X", Size("X") + 1) = <<-20, 26>> /\ At("O", Size("O") + 1) = <<2, 0>>
  BY DEF At, Size
<1>6. ASSUME NEW n \in 0..8
      PROVE  /\ Owner(n) \in {"X", "O"}
             /\ Drift(n + 1) = <<Drift(n)[1] + At(Owner(n), Size(Owner(n)) + 1)[1],
                                 Drift(n)[2] + At(Owner(n), Size(Owner(n)) + 1)[2]>>
             /\ Owner(n) = "O" => n + 1 \in 0..8 /\ Owner(n + 1) = "X"
  <2>1. CASE n \in 0..2
    BY <1>1, <1>2, <1>4, <1>5, <2>1
  <2>2. CASE n \in 3..5
    BY <1>2, <1>3, <1>4, <1>5, <2>2
  <2>3. CASE n \in 6..8
    BY <1>3, <1>4, <1>5, <2>3
  <2> QED  BY <2>1, <2>2, <2>3
<1>7. ASSUME NEW n \in 0..9 PROVE Drift(n) \in Int \X Int
  BY <1>1, <1>2, <1>3, <1>7
<1> QED  BY <1>6, <1>7

(* Types of distances.                                                                             *)
LEMMA FarTyped ==
    ASSUME NEW o \in Int \X Int, NEW n \in 0..9
    PROVE  Far(o, n) \in Int \X Int
<1>1. Drift(n) \in Int \X Int
  BY Drifting
<1> QED  BY <1>1 DEF Far

(* After a mark has been drawn the pen is off by the drift of one mark more, and its ink is whole.   *)
LEMMA Completed ==
    ASSUME NEW o \in Int \X Int, NEW n \in 0..8, NEW c \in Cells, NEW m \in Int \X Int,
           NEW p \in Int \X Int, NEW up, NEW at, NEW b, NEW f, f = Owner(n),
           Stood(f, c, Size(f) + 1, Far(o, n), m, p, up, at, b)
    PROVE  /\ X(m) = 2 * p[1] + Far(o, n + 1)[1] /\ Y(m) = 2 * p[2] + Far(o, n + 1)[2]
           /\ up = "up" /\ at = NoCell
           /\ MarkOf(o, n + 1, c, b)
<1> DEFINE t == At(f, Size(f) + 1)
           d == Drift(n)
           g == Drift(n + 1)
<1>1. /\ f \in {"X", "O"} /\ d \in Int \X Int /\ g = <<d[1] + t[1], d[2] + t[2]>>
  BY Drifting
<1>2. t \in Int \X Int
  BY <1>1 DEF At
<1>3. /\ X(m) = 2 * p[1] + Far(o, n)[1] + t[1] /\ Y(m) = 2 * p[2] + Far(o, n)[2] + t[2]
      /\ up = IF Size(f) + 1 \in Lowered(f) THEN "down" ELSE "up"
      /\ at = IF Size(f) + 1 \in 2..Size(f) THEN c ELSE NoCell
      /\ IF Size(f) + 1 <= Bare(f) THEN ~Inked(b)
                    ELSE b = Shift(Trace(f, Size(f) + 1), Root(Far(o, n), Home(f, c)))
  BY DEF Stood
<1> HIDE DEF t, d, g
<1>4. X(m) = 2 * p[1] + Far(o, n + 1)[1] /\ Y(m) = 2 * p[2] + Far(o, n + 1)[2]
  <2>1. /\ Far(o, n)[1] = o[1] + d[1] /\ Far(o, n)[2] = o[2] + d[2]
        /\ Far(o, n + 1)[1] = o[1] + g[1] /\ Far(o, n + 1)[2] = o[2] + g[2]
    BY DEF Far, d, g
  <2> QED  BY <1>1, <1>2, <1>3, <2>1
<1>5. /\ up = "up" /\ at = NoCell
      /\ b = Shift(Trace(f, Size(f) + 1), Root(Far(o, n), Home(f, c)))
      /\ Trace(f, Size(f) + 1) \in Traces(f)
  <2>1. CASE f = "X"
    BY <1>3, <2>1 DEF Size, Lowered, Bare, Trace, Traces
  <2>2. CASE f = "O"
    BY <1>3, <2>2 DEF Size, Lowered, Bare, Trace, Traces
  <2> QED  BY <1>1, <2>1, <2>2
<1>6. MarkOf(o, n + 1, c, b)
  <2>1. n \in 0..((n + 1) - 1)
    OBVIOUS
  <2>2. b = Shift(Trace(f, Size(f) + 1), Base(o, n, c)) /\ Trace(f, Size(f) + 1) \in Traces(Owner(n))
    BY <1>5 DEF Base
  <2> HIDE DEF t
  <2> QED  BY <2>1, <2>2 DEF MarkOf
<1> QED  BY <1>4, <1>5, <1>6

(* The ink of the marks drawn is the ink of marks when one more has been drawn.                       *)
LEMMA MoreMarks ==
    \A o, d, b : \A n \in 0..9, l \in 0..9 : n <= l /\ MarkOf(o, n, d, b) => MarkOf(o, l, d, b)
<1> SUFFICES ASSUME NEW o, NEW d, NEW b, NEW n \in 0..9, NEW l \in 0..9, n <= l, MarkOf(o, n, d, b)
             PROVE  MarkOf(o, l, d, b)
  OBVIOUS
<1>1. 0..(n - 1) \subseteq 0..(l - 1)
  OBVIOUS
<1> QED  BY <1>1 DEF MarkOf

(* Where a mark begins.                                                                              *)
LEMMA Beginning ==
    ASSUME NEW f \in {"X", "O"}, NEW c \in Cells, NEW off \in Int \X Int, NEW m, NEW p, NEW b,
           X(m) = 2 * p[1] + off[1], Y(m) = 2 * p[2] + off[2], ~Inked(b),
           p \in Int \X Int
    PROVE  Stood(f, c, 1, off, m, p, "up", NoCell, b)
<1>1. CASE f = "X"
  BY <1>1 DEF Stood, At, Lowered, Size, Placed, Bare
<1>2. CASE f = "O"
  BY <1>2 DEF Stood, At, Lowered, Size, Placed, Bare
<1> QED  BY <1>1, <1>2

(* Every step of a mark leads to the next one, to the mark after it or to the wait for the player.    *)
LEMMA MarkStep ==
    ASSUME Types, Types', Step, NEW n \in 0..8, NEW c \in Cells, NEW k \in 1..18,
           NEW e \in Cells \cup {NoCell}, k <= Size(Owner(n)), Marking(n, c, k, e)
    PROVE  Tracked'
<1> DEFINE f == Owner(n)
           off == Far(origin, n)
<1>1. /\ f \in {"X", "O"} /\ off \in Int \X Int /\ k \in 1..Size(f)
      /\ Size(f) \in {14, 18} /\ (f = "X" <=> Size(f) = 14)
  <2>1. f \in {"X", "O"}
    BY Drifting
  <2>2. off \in Int \X Int
    <3>1. n \in 0..9 /\ origin \in Int \X Int
      BY DEF Types
    <3> QED  BY <3>1, FarTyped
  <2> HIDE DEF f, off
  <2>3. k \in 1..Size(f)
    <3>1. k <= Size(f)
      BY DEF f
    <3>2. Size(f) \in Int
      BY DEF Size
    <3> QED  BY <3>1, <3>2
  <2>4. Size(f) \in {14, 18} /\ (f = "X" <=> Size(f) = 14)
    BY DEF Size
  <2> QED  BY <2>1, <2>2, <2>3, <2>4
<1>2. UNCHANGED <<game, origin>>
  BY Effects
<1>3. /\ Stood(f, c, k, off, motor, pos, pen, cell, ink[c])
      /\ todo = Left(f, c, k) \o After(e)
      /\ \/ e = NoCell /\ game.turn = n + 1
         \/ e \in Cells \ {c} /\ f = "O" /\ game.turn = n + 2 /\ ~Inked(ink[e])
      /\ \A d \in Cells \ {c} : Inked(ink[d]) => MarkOf(origin, n, d, ink[d])
      /\ \A d \in Free(game.board) : d \notin {c, e} /\ ~Inked(ink[d])
  BY DEF Marking
<1> HIDE DEF f, off
<1>4. Head(todo) = Order(f, c, k) /\ todo' = Left(f, c, k + 1) \o After(e)
  <2>1. f = "O" /\ k = 4 => pos = Start(c)
    BY <1>3 DEF Stood
  <2>2. f = "O" /\ k = 13 => pos = Right(c)
    BY <1>3 DEF Stood, Placed, Home
  <2> QED  BY <1>1, <1>3, <2>1, <2>2, NextOrder
<1>5. /\ Carried(Order(f, c, k), c, motor, pos, pen, cell, ink[c], motor', pos', pen', cell', ink'[c])
      /\ \A d \in Cells \ {c} : ink'[d] = ink[d]
  <2>1. cell \in {c, NoCell}
    BY <1>3 DEF Stood
  <2> QED  BY <1>4, <2>1, Carries
<1>6. Stood(f, c, k + 1, off, motor', pos', pen', cell', ink'[c])
  <2>1. /\ motor \in Int \X Int /\ pos \in Int \X Int /\ pen \in {"up", "down"} /\ ink[c] \in Boxes
        /\ motor' \in Int \X Int /\ pos' \in Int \X Int
    BY DEF Types
  <2>2. off \in Int \X Int /\ k \in 1..Size(f) /\ f \in {"X", "O"}
    BY <1>1
  <2>3. Led(f, c, k, off, motor, pos, pen, cell, ink[c], motor', pos', pen', cell', ink'[c])
    BY <1>3, <1>5 DEF Led
  <2>4. PICK j : j = k + 1
    OBVIOUS
  <2>5. Follows(f, k, j)
    BY <2>2, <2>4 DEF Follows
  <2>6. Stood(f, c, j, off, motor', pos', pen', cell', ink'[c])
    BY <2>1, <2>2, <2>3, <2>5, StoodStep
  <2> QED  BY <2>4, <2>6
<1>7. /\ \A d \in Cells \ {c} : Inked(ink'[d]) => MarkOf(origin', n, d, ink'[d])
      /\ \A d \in Free(game'.board) : d \in Cells /\ d \notin {c, e} /\ ~Inked(ink'[d])
  <2>1. \A d \in Free(game.board) : d \in Cells
    BY DEF Free
  <2> QED  BY <1>2, <1>3, <1>5, <2>1
<1>8. CASE k < Size(f)
  <2>1. k + 1 \in 1..18 /\ k + 1 <= Size(f)
    BY <1>1, <1>8
  <2>2. Stood(f, c, k + 1, Far(origin', n), motor', pos', pen', cell', ink'[c])
    BY <1>2, <1>6 DEF off
  <2>3. \/ e = NoCell /\ game'.turn = n + 1
        \/ e \in Cells \ {c} /\ f = "O" /\ game'.turn = n + 2 /\ ~Inked(ink'[e])
    BY <1>2, <1>3, <1>5
  <2>4. \A d \in Free(game'.board) : d \notin {c, e} /\ ~Inked(ink'[d])
    BY <1>7
  <2>5. Marking(n, c, k + 1, e)'
    BY <1>4, <1>7, <2>2, <2>3, <2>4 DEF Marking, f
  <2> QED  BY <2>1, <2>5 DEF Tracked, f
<1>9. CASE k = Size(f)
  <2>1. /\ X(motor') = 2 * pos'[1] + Far(origin', n + 1)[1]
        /\ Y(motor') = 2 * pos'[2] + Far(origin', n + 1)[2]
        /\ pen' = "up" /\ cell' = NoCell /\ MarkOf(origin', n + 1, c, ink'[c])
    <3>1. Stood(f, c, Size(f) + 1, Far(origin, n), motor', pos', pen', cell', ink'[c])
      BY <1>6, <1>9 DEF off
    <3>2. /\ X(motor') = 2 * pos'[1] + Far(origin, n + 1)[1]
          /\ Y(motor') = 2 * pos'[2] + Far(origin, n + 1)[2]
          /\ pen' = "up" /\ cell' = NoCell /\ MarkOf(origin, n + 1, c, ink'[c])
      <4>1. motor' \in Int \X Int /\ pos' \in Int \X Int /\ origin \in Int \X Int
        BY DEF Types
      <4> QED  BY <3>1, <4>1, Completed DEF f
    <3> QED  BY <1>2, <3>2
  <2>2. \A d \in Cells : Inked(ink'[d]) => MarkOf(origin', n + 1, d, ink'[d])
    <3>1. n \in 0..9 /\ n + 1 \in 0..9 /\ n <= n + 1
      OBVIOUS
    <3> QED  BY <1>7, <2>1, <3>1, MoreMarks
  <2>3. todo' = After(e)
    <3>1. Left(f, c, k + 1) = <<>>
      <4>1. CASE f = "X"
        <5>1. k + 1 = 15
          BY <1>1, <1>9, <4>1
        <5> QED  BY <4>1, <5>1, LeftOfX DEF Left
      <4>2. CASE f = "O"
        <5>1. k + 1 = 19
          BY <1>1, <1>9, <4>2
        <5> QED  BY <4>2, <5>1, LeftOfO DEF Left
      <4> QED  BY <1>1, <4>1, <4>2
    <3>2. After(e) \in Seq(Instructions)
      <4>1. Onward(f, c, k, e, Left(f, c, k) \o After(e))
        BY <1>1, Ahead
      <4> QED  BY <4>1 DEF Onward
    <3> QED  BY <1>4, <3>1, <3>2, ConcatEmptySeq
  <2>4. X(motor') \in Int /\ Y(motor') \in Int /\ pos' \in Int \X Int
        /\ Far(origin', n + 1) \in Int \X Int
    <3>1. n + 1 \in 0..9 /\ origin' \in Int \X Int /\ motor' \in Int \X Int /\ pos' \in Int \X Int
      BY DEF Types
    <3> QED  BY <3>1, FarTyped, InkTyped
  <2>5. CASE e = NoCell
    <3>1. NoCell \notin Cells
      BY DEF NoCell, Cells
    <3>2. todo' = <<>> /\ game'.turn = n + 1 /\ game'.turn > 0
      <4>1. game'.turn = n + 1
        BY <1>2, <1>3, <2>5, <3>1
      <4> QED  BY <2>3, <2>5, <3>1, <4>1 DEF After
    <3>3. Offset' = Far(origin', game'.turn)
      <4> DEFINE w == Far(origin', n + 1)
      <4>1. Offset' = <<X(motor') - 2 * pos'[1], Y(motor') - 2 * pos'[2]>>
        BY DEF Offset
      <4>2. /\ X(motor') = 2 * pos'[1] + w[1] /\ Y(motor') = 2 * pos'[2] + w[2]
            /\ w \in Int \X Int
        BY <2>1, <2>4
      <4> HIDE DEF w
      <4>3. X(motor') - 2 * pos'[1] = w[1] /\ Y(motor') - 2 * pos'[2] = w[2]
        BY <2>4, <4>2
      <4>4. Offset' = w
        BY <4>1, <4>2, <4>3
      <4> QED  BY <3>2, <4>4 DEF w
    <3>4. Waiting'
      BY <1>7, <2>2, <3>2, <3>3 DEF Waiting
    <3> QED  BY <3>4 DEF Tracked
  <2>6. CASE e \in Cells
    <3>1. e \in Cells \ {c} /\ f = "O" /\ game'.turn = n + 2 /\ ~Inked(ink'[e])
      <4>1. NoCell \notin Cells
        BY DEF NoCell, Cells
      <4> QED  BY <1>2, <1>3, <1>5, <2>6, <4>1
    <3>2. n + 1 \in 0..8 /\ Owner(n + 1) = "X"
      BY <3>1, Drifting DEF f
    <3>3. Stood("X", e, 1, Far(origin', n + 1), motor', pos', pen', cell', ink'[e])
      BY <2>1, <2>4, <3>1, Beginning
    <3>4. todo' = Left("X", e, 1) \o After(NoCell)
      <4>1. NoCell \notin Cells
        BY DEF NoCell, Cells
      <4>2. PlanX(e) \in Seq(Instructions) /\ LeftX(e, 1) = PlanX(e)
        BY <2>6, PlanOfX, LeftOfX
      <4>3. todo' = PlanX(e) /\ After(NoCell) = <<>>
        BY <2>3, <2>6, <4>1 DEF After
      <4>4. PlanX(e) \o <<>> = PlanX(e)
        BY <4>2, ConcatEmptySeq
      <4> QED  BY <4>2, <4>3, <4>4 DEF Left
    <3>5. game'.turn = (n + 1) + 1
      BY <3>1
    <3>6. \A d \in Free(game'.board) : d \notin {e, NoCell} /\ ~Inked(ink'[d])
      <4>1. NoCell \notin Cells
        BY DEF NoCell, Cells
      <4> QED  BY <1>7, <4>1
    <3>7. Marking(n + 1, e, 1, NoCell)'
      BY <2>2, <3>2, <3>3, <3>4, <3>5, <3>6 DEF Marking
    <3>8. 1 \in 1..18 /\ 1 <= Size("X") /\ NoCell \in Cells \cup {NoCell}
      BY DEF Size
    <3> QED  BY <2>6, <3>2, <3>7, <3>8 DEF Tracked
  <2> QED  BY <2>5, <2>6
<1> QED  BY <1>1, <1>8, <1>9
-----------------------------------------------------------------------------
(* The steps of the lines of the board, and those of the pen that goes home.                        *)

(* Steering and lifting the pen while no square is meant: moveTo does not change how far the pen
   is from where it is believed to be.                                                              *)
LEMMA Steered ==
    ASSUME Types, Types', Step, cell = NoCell, Head(todo).op \in {"toX", "toY", "pen"}
    PROVE  /\ Offset' = Offset /\ ink' = ink /\ cell' = NoCell /\ todo' = Tail(todo)
           /\ UNCHANGED <<game, origin>>
<1> DEFINE i == Head(todo)
<1>1. /\ i \in Instructions /\ UNCHANGED <<game, origin>>
      /\ cell' = IF i.op = "on" THEN i.cell ELSE cell
      /\ i.op # "rel" => todo' = Tail(todo)
      /\ i.op \in {"rel", "pen", "on"} => UNCHANGED <<motor, pos, ink>>
      /\ i.op = "toX" => TurnToX(MmToStep(i.mm))
      /\ i.op = "toY" => TurnToY(MmToStep(i.mm))
  BY Effects
<1>2. cell \notin Cells
  BY DEF NoCell, Cells
<1>3. i.op \in {"toX", "toY", "pen"}
  OBVIOUS
<1> HIDE DEF i
<1>4. /\ motor[1] \in Int /\ motor[2] \in Int /\ pos[1] \in Int /\ pos[2] \in Int
  BY DEF Types
<1>5. i.op \in {"toX", "toY"} => MmToStep(i.mm) \in Int
  BY <1>1, Kinds, Conversions
<1>6. ASSUME NEW v \in Int, TurnToX(v) \/ TurnToY(v)
      PROVE  Offset' = Offset /\ ink' = ink
  <2>1. CASE TurnToX(v)
    <3>1. /\ motor' = <<motor[1] + (v - pos[1]), motor[2] + (v - pos[1])>>
          /\ pos' = <<v, pos[2]>> /\ ink' = ink
      BY <1>2, <2>1 DEF TurnToX, Turn
    <3>2. /\ motor'[1] = motor[1] + (v - pos[1]) /\ motor'[2] = motor[2] + (v - pos[1])
          /\ pos'[1] = v /\ pos'[2] = pos[2]
      BY <3>1
    <3>3. /\ (motor'[1] + motor'[2]) - 2 * pos'[1] = (motor[1] + motor[2]) - 2 * pos[1]
          /\ motor'[1] - motor'[2] - 2 * pos'[2] = motor[1] - motor[2] - 2 * pos[2]
      BY <1>4, <1>6, <3>2
    <3>4. X(motor') - 2 * pos'[1] = X(motor) - 2 * pos[1] /\ Y(motor') - 2 * pos'[2] = Y(motor) - 2 * pos[2]
      BY <3>3 DEF X, Y
    <3>5. Offset' = <<X(motor') - 2 * pos'[1], Y(motor') - 2 * pos'[2]>>
      BY DEF Offset
    <3> QED  BY <3>1, <3>4, <3>5 DEF Offset
  <2>2. CASE TurnToY(v)
    <3>1. /\ motor' = <<motor[1] + (v - pos[2]), motor[2] + -(v - pos[2])>>
          /\ pos' = <<pos[1], v>> /\ ink' = ink
      BY <1>2, <2>2 DEF TurnToY, Turn
    <3>2. /\ motor'[1] = motor[1] + (v - pos[2]) /\ motor'[2] = motor[2] + -(v - pos[2])
          /\ pos'[1] = pos[1] /\ pos'[2] = v
      BY <3>1
    <3>3. /\ (motor'[1] + motor'[2]) - 2 * pos'[1] = (motor[1] + motor[2]) - 2 * pos[1]
          /\ motor'[1] - motor'[2] - 2 * pos'[2] = motor[1] - motor[2] - 2 * pos[2]
      BY <1>4, <1>6, <3>2
    <3>4. X(motor') - 2 * pos'[1] = X(motor) - 2 * pos[1] /\ Y(motor') - 2 * pos'[2] = Y(motor) - 2 * pos[2]
      BY <3>3 DEF X, Y
    <3>5. Offset' = <<X(motor') - 2 * pos'[1], Y(motor') - 2 * pos'[2]>>
      BY DEF Offset
    <3> QED  BY <3>1, <3>4, <3>5 DEF Offset
  <2> QED  BY <1>6, <2>1, <2>2
<1>7. CASE i.op = "pen"
  BY <1>1, <1>7 DEF Offset
<1>8. CASE i.op \in {"toX", "toY"}
  BY <1>1, <1>5, <1>6, <1>8
<1> QED  BY <1>1, <1>3, <1>7, <1>8

(* The lines of the board are drawn with moveTo and the servo only.                                  *)
LEMMA Straight ==
    /\ None(DrawBoard, "turn") /\ None(DrawBoard, "rel") /\ None(DrawBoard, "on")
    /\ DrawBoard \in Seq(Instructions) /\ Len(DrawBoard) > 0
<1> DEFINE Flat(s) == s \in Seq(Instructions) /\ None(s, "turn") /\ None(s, "rel")
           a == MoveTo(-60, -40) \o ServoDown \o MoveTo(60, -40) \o ServoUp
           b == a \o MoveTo(60, -80) \o ServoDown \o MoveTo(-60, -80) \o ServoUp
           c == b \o MoveTo(-20, 0) \o ServoDown \o MoveTo(-20, -120) \o ServoUp
           d == c \o MoveTo(20, -120) \o ServoDown \o MoveTo(20, 0) \o ServoUp
<1>1. DrawBoard = d \o MoveTo(0, 20)
  BY DEF DrawBoard
<1>2. ASSUME NEW x \in Int, NEW y \in Int PROVE Flat(MoveTo(x, y))
  <2>1. MoveTo(x, y) \in Seq(Instructions)
    BY Pieces DEF Piece
  <2>2. MoveTo(x, y) = << ToY(y), ToX(x) >> /\ ToY(y).op = "toY" /\ ToX(x).op = "toX"
    BY DEF MoveTo, ToX, ToY
  <2>3. None(MoveTo(x, y), "turn") /\ None(MoveTo(x, y), "rel")
    BY <2>2 DEF None
  <2> QED  BY <2>1, <2>3
<1>3. Flat(ServoUp) /\ Flat(ServoDown)
  <2>1. ServoUp \in Seq(Instructions) /\ ServoDown \in Seq(Instructions)
    BY Pieces DEF Piece
  <2> QED  BY <2>1 DEF None, ServoUp, ServoDown
<1>4. ASSUME NEW s, NEW t, Flat(s), Flat(t) PROVE Flat(s \o t)
  <2>1. s \o t \in Seq(Instructions)
    BY <1>4, Joined
  <2>2. /\ None(s, "turn") /\ None(t, "turn") => None(s \o t, "turn")
        /\ None(s, "rel") /\ None(t, "rel") => None(s \o t, "rel")
    BY <1>4, Joining
  <2> QED  BY <1>4, <2>1, <2>2
<1> HIDE DEF Flat
<1>5. ASSUME NEW s, Flat(s), NEW x \in Int, NEW y \in Int, NEW v \in Int, NEW w \in Int
      PROVE  Flat(s \o MoveTo(x, y) \o ServoDown \o MoveTo(v, w) \o ServoUp)
  BY <1>2, <1>3, <1>4, <1>5
<1>6. Flat(a)
  BY <1>2, <1>3, <1>4
<1> HIDE DEF a
<1>7. Flat(b)
  BY <1>5, <1>6
<1> HIDE DEF b
<1>8. Flat(c)
  BY <1>5, <1>7
<1> HIDE DEF c
<1>9. Flat(d)
  BY <1>5, <1>8
<1> HIDE DEF d
<1>10. Flat(DrawBoard)
  BY <1>1, <1>2, <1>4, <1>9
<1>11. Len(DrawBoard) > 0
  <2>1. d \in Seq(Instructions) /\ MoveTo(0, 20) \in Seq(Instructions)
    BY <1>2, <1>9 DEF Flat
  <2>2. Len(MoveTo(0, 20)) = 2
    BY DEF MoveTo
  <2> QED  BY <1>1, <2>1, <2>2, Joined
<1> QED  BY <1>10, <1>11, BoardEnds DEF Flat, Piece

(* Every step of the board leads to the next one, or to the first X.                                  *)
LEMMA LiningStep ==
    ASSUME Types, Types', Step, Lining
    PROVE  Tracked'
<1> DEFINE l == Len(DrawBoard)
           S(j) == SubSeq(DrawBoard, j, l)
<1>1. DrawBoard \in Seq(Instructions) /\ l \in Nat
  BY Straight, LenProperties
<1>2. PICK k \in 1..l : todo = S(k) \o PlanX(4) /\ Tidy(S(k), pen, cell)
  BY DEF Lining
<1>3. PlanX(4) \in Seq(Instructions) /\ LeftX(4, 1) = PlanX(4) /\ 4 \in Cells
  <2>1. 4 \in Cells
    BY DEF Cells
  <2> QED  BY <2>1, PlanOfX, LeftOfX
<1> DEFINE i == DrawBoard[k]
           t == S(k + 1)
<1>4. /\ i \in Instructions /\ t \in Seq(Instructions) /\ S(k) = << i >> \o t
      /\ S(k) \in Seq(Instructions)
  <2>1. i \in Instructions
    BY <1>1, ElementOfSeq
  <2>2. S(k) = << i >> \o t
    BY <1>1, SubSeqRecursiveFirst
  <2>3. \A j \in 1..l : DrawBoard[j] \in Instructions
    BY <1>1, ElementOfSeq
  <2>4. k + 1 \in 1..(l + 1)
    BY <1>1
  <2>5. ASSUME NEW j \in 1..(l + 1) PROVE S(j) \in Seq(Instructions)
    <3>1. j \in Int /\ l \in Int /\ \A u \in j..l : DrawBoard[u] \in Instructions
      BY <1>1, <2>3
    <3> QED  BY <3>1, SubSeqProperties
  <2>6. k \in 1..(l + 1)
    BY <1>1
  <2> QED  BY <2>1, <2>2, <2>4, <2>5, <2>6
<1>5. i.op \in {"toX", "toY", "pen"}
  <2>1. i.op # "turn" /\ i.op # "rel" /\ i.op # "on"
    BY Straight DEF None
  <2> QED  BY <1>4, <2>1, Kinds
<1> HIDE DEF i, t
<1>6. Head(todo) = i /\ Tail(todo) = t \o PlanX(4) /\ Tail(S(k)) = t /\ Head(S(k)) = i /\ S(k) # <<>>
  <2>1. << i >> \in Seq(Instructions)
    BY <1>4
  <2>2. todo = << i >> \o (t \o PlanX(4)) /\ t \o PlanX(4) \in Seq(Instructions)
    BY <1>2, <1>3, <1>4, <2>1, ConcatAssociative, ConcatProperties
  <2> HIDE DEF S
  <2> QED  BY <1>4, <2>2, Peel
<1>7. cell = NoCell
  <2>1. None(S(k), "on")
    <3>1. \A j \in 1..Len(S(k)) : S(k)[j] = DrawBoard[k + j - 1] /\ k + j - 1 \in 1..l
      BY <1>1, SubSeqProperties
    <3> QED  BY <3>1, Straight DEF None
  <2>2. ~Ends(S(k), "on", AimOff)
    <3>1. AimOff.op = "on"
      BY DEF AimOff
    <3> HIDE DEF S
    <3> QED  BY <2>1, <3>1 DEF Ends, None
  <2> HIDE DEF S
  <2> QED  BY <1>2, <2>2 DEF Tidy
<1>8. /\ Offset' = Offset /\ ink' = ink /\ cell' = NoCell /\ todo' = t \o PlanX(4)
      /\ UNCHANGED <<game, origin>>
  BY <1>5, <1>6, <1>7, Steered
<1>9. Tidy(t, pen', cell')
  <2>1. pen' = IF i.op = "pen" THEN i.to ELSE pen
    BY <1>6, Effects
  <2>2. cell' = IF i.op = "on" THEN i.cell ELSE cell
    BY <1>6, Effects
  <2>3. S(k) \in Seq(Instructions) /\ S(k) # <<>> /\ Tidy(S(k), pen, cell) /\ Head(S(k)) = i /\ Tail(S(k)) = t
    BY <1>2, <1>4, <1>6
  <2> HIDE DEF S
  <2> QED  BY <2>1, <2>2, <2>3, TidyTail
<1>10. game'.turn = 1 /\ Free(game'.board) = Cells \ {4} /\ Offset' = origin'
       /\ \A d \in Cells : ~Inked(ink'[d])
  BY <1>8 DEF Lining
<1>11. CASE k < l
  <2>1. k + 1 \in 1..l
    BY <1>1, <1>11
  <2>2. todo' = S(k + 1) \o PlanX(4) /\ Tidy(S(k + 1), pen', cell')
    BY <1>8, <1>9 DEF t
  <2>3. Lining'
    BY <1>10, <2>1, <2>2 DEF Lining
  <2> QED  BY <2>3 DEF Tracked
<1>12. CASE k = l
  <2>1. t = <<>>
    BY <1>1, <1>12, SubSeqEmpty DEF t
  <2>2. pen' = "up" /\ cell' = NoCell
    BY <1>8, <1>9, <2>1 DEF Tidy, Ends
  <2>3. todo' = Left("X", 4, 1) \o After(NoCell)
    <3>1. todo' = PlanX(4)
      BY <1>3, <1>8, <2>1, ConcatEmptySeq
    <3>2. After(NoCell) = <<>>
      BY DEF After, NoCell, Cells
    <3>3. PlanX(4) \o <<>> = PlanX(4)
      BY <1>3, ConcatEmptySeq
    <3> QED  BY <1>3, <3>1, <3>2, <3>3 DEF Left
  <2>4. Stood("X", 4, 1, Far(origin', 0), motor', pos', pen', cell', ink'[4])
    <3>1. motor' \in Int \X Int /\ pos' \in Int \X Int /\ origin' \in Int \X Int
      BY DEF Types
    <3>2. X(motor') \in Int /\ Y(motor') \in Int
      BY <3>1, InkTyped
    <3>3. Far(origin', 0) = origin'
      <4>1. Drift(0) = <<0, 0>>
        BY DEF Drift
      <4> QED  BY <3>1, <4>1 DEF Far
    <3>4. X(motor') - 2 * pos'[1] = origin'[1] /\ Y(motor') - 2 * pos'[2] = origin'[2]
      <4>1. Offset' = <<X(motor') - 2 * pos'[1], Y(motor') - 2 * pos'[2]>>
        BY DEF Offset
      <4> QED  BY <1>10, <4>1
    <3>5. X(motor') = 2 * pos'[1] + origin'[1] /\ Y(motor') = 2 * pos'[2] + origin'[2]
      <4>1. pos'[1] \in Int /\ pos'[2] \in Int /\ origin'[1] \in Int /\ origin'[2] \in Int
        BY <3>1
      <4>2. \A u, v, w \in Int : u - 2 * v = w => u = 2 * v + w
        OBVIOUS
      <4> QED  BY <3>2, <3>4, <4>1, <4>2
    <3>6. Stood("X", 4, 1, origin', motor', pos', "up", NoCell, ink'[4])
      BY <1>3, <1>10, <3>1, <3>5, Beginning
    <3> QED  BY <2>2, <3>3, <3>6
  <2>5. Owner(0) = "X" /\ NoCell \notin Cells
    BY DEF Owner, NoCell, Cells
  <2>6. Marking(0, 4, 1, NoCell)'
    <3>1. \A d \in Free(game'.board) : d \notin {4, NoCell} /\ ~Inked(ink'[d])
      BY <1>10, <2>5
    <3>2. game'.turn = 0 + 1
      BY <1>10
    <3> QED  BY <1>10, <2>3, <2>4, <2>5, <3>1, <3>2 DEF Marking
  <2>7. 0 \in 0..8 /\ 1 \in 1..18 /\ 1 <= Size(Owner(0)) /\ NoCell \in Cells \cup {NoCell}
    BY <2>5 DEF Size
  <2> QED  BY <1>3, <2>6, <2>7 DEF Tracked
<1> QED  BY <1>1, <1>11, <1>12

(* The pen on its way home.                                                                         *)
LEMMA OffStep ==
    ASSUME Types, Types', Step, Off
    PROVE  Tracked'
<1>1. todo \in Seq(Instructions) /\ todo # <<>>
  BY Effects DEF Types
<1>2. /\ Head(todo) = todo[1] /\ 1 \in 1..Len(todo)
      /\ Len(Tail(todo)) = Len(todo) - 1 /\ \A k \in 1..Len(Tail(todo)) : Tail(todo)[k] = todo[k + 1]
      /\ Len(todo) \in Nat
  BY <1>1, HeadTailProperties, LenProperties, EmptySeq
<1>3. \A k \in 1..Len(todo) : todo[k] \in Steering
  BY DEF Off
<1>4. Head(todo).op \in {"toX", "toY", "pen"}
  <2>1. Head(todo) \in Steering
    BY <1>2, <1>3
  <2> QED  BY <2>1 DEF Steering
<1>5. /\ ink' = ink /\ cell' = NoCell /\ todo' = Tail(todo) /\ UNCHANGED <<game, origin>>
  BY <1>4, Steered DEF Off
<1>6. \A k \in 1..Len(todo') : todo'[k] \in Steering
  <2>1. \A k \in 1..Len(Tail(todo)) : k + 1 \in 1..Len(todo)
    BY <1>2
  <2> QED  BY <1>2, <1>3, <1>5, <2>1
<1>7. Off'
  BY <1>5, <1>6 DEF Off
<1> QED  BY <1>7 DEF Tracked
-----------------------------------------------------------------------------
(* Geometry: the squares of the board, the places where marks begin and the extent of marks.          *)

(* The conversions that are used by the squares and by the marks.                                    *)
LEMMA Conversion ==
    /\ MmToStep(-120) = -533 /\ MmToStep(-115) = -511 /\ MmToStep(-114) = -506 /\ MmToStep(-80) = -355
    /\ MmToStep(-75) = -333 /\ MmToStep(-74) = -328 /\ MmToStep(-60) = -266 /\ MmToStep(-55) = -244
    /\ MmToStep(-40) = -177 /\ MmToStep(-35) = -155 /\ MmToStep(-34) = -151 /\ MmToStep(-20) = -88
    /\ MmToStep(-15) = -66 /\ MmToStep(0) = 0 /\ MmToStep(15) = 66 /\ MmToStep(20) = 88
    /\ MmToStep(25) = 111 /\ MmToStep(39) = 173 /\ MmToStep(60) = 266
    /\ StepToMm(-511) = -114 /\ StepToMm(-333) = -74 /\ StepToMm(-178) = -40 /\ StepToMm(-155) = -34
    /\ StepToMm(0) = 0 /\ StepToMm(177) = 39
BY DEF MmToStep, StepToMm, Trunc, Abs

(* The squares of the first row begin at the top of the board.                                        *)
LEMMA TopRow == \A c \in 0..2 : -40 * (c \div 3) = 0
<1> TAKE c \in 0..2
<1>1. c \div 3 = 0
  OBVIOUS
<1>2. 40 * (c \div 3) \in Int /\ 40 * (c \div 3) = 0
  BY <1>1
<1>3. \A b \in Int : 0 = b => -b = 0
  OBVIOUS
<1> QED  BY <1>2, <1>3, Zenon

(* The squares, and where X and O begin on them, in half steps.                                     *)
Site(c, left, right, low, high, x, y, v, w) ==
    /\ Squares[c] = Box(left, right, low, high)
    /\ Start(c) = <<x, y>> /\ Right(c) = <<v, w>>

(* The nine sites.                                                                                  *)
LEMMA Sites ==
    /\ Site(0, -532, -176, -354, 0, -244, -155, -177, -151)
    /\ Site(1, -176, 176, -354, 0, -66, -155, 0, -151)
    /\ Site(2, 176, 532, -354, 0, 111, -155, 173, -151)
    /\ Site(3, -532, -176, -710, -354, -244, -333, -177, -328)
    /\ Site(4, -176, 176, -710, -354, -66, -333, 0, -328)
    /\ Site(5, 176, 532, -710, -354, 111, -333, 173, -328)
    /\ Site(6, -532, -176, -1066, -710, -244, -511, -177, -506)
    /\ Site(7, -176, 176, -1066, -710, -66, -511, 0, -506)
    /\ Site(8, 176, 532, -1066, -710, 111, -511, 173, -506)
<1>1. Site(0, -532, -176, -354, 0, -244, -155, -177, -151)
  <2>1. /\ 40 * (0 % 3) - 60 = -60 /\ -40 * (0 \div 3) = 0 /\ 0 \in Cells
        /\ -60 + 40 = -20 /\ 0 - 40 = -40
    <3>1. 0 % 3 = 0 /\ 0 \in 0..2
      OBVIOUS
    <3>2. -40 * (0 \div 3) = 0
      BY <3>1, TopRow, Zenon
    <3>3. 40 * 0 - 60 = -60 /\ -60 + 40 = -20 /\ 0 - 40 = -40
      OBVIOUS
    <3>4. 0 \in Cells
      BY DEF Cells
    <3> QED  BY <3>1, <3>2, <3>3, <3>4
  <2>2. Squares[0] = [left |-> 2 * (-266), right |-> 2 * (-88), low |-> 2 * (-177), high |-> 2 * 0]
    BY <2>1, Conversion DEF Squares
  <2>3. Start(0) = <<-244, -155>>
    <3>1. StartX(0) = -55 /\ StartY(0) = -35
      BY DEF StartX, StartY
    <3> QED  BY <3>1, Conversion DEF Start
  <2>4. ASide(0) = <<-40, -34>>
    <3>1. -244 + 66 = -178 /\ -155 + 0 = -155
      OBVIOUS
    <3> QED  BY <2>3, <3>1, Conversion DEF ASide, Aside
  <2>5. Right(0) = <<-177, -151>>
    BY <2>4, Conversion DEF Right
  <2> QED  BY <2>2, <2>3, <2>5 DEF Site, Box
<1>2. Site(1, -176, 176, -354, 0, -66, -155, 0, -151)
  <2>1. /\ 40 * (1 % 3) - 60 = -20 /\ -40 * (1 \div 3) = 0 /\ 1 \in Cells
        /\ -20 + 40 = 20 /\ 0 - 40 = -40
    <3>1. 1 % 3 = 1 /\ 1 \in 0..2
      OBVIOUS
    <3>2. -40 * (1 \div 3) = 0
      BY <3>1, TopRow, Zenon
    <3>3. 40 * 1 - 60 = -20 /\ -20 + 40 = 20 /\ 0 - 40 = -40
      OBVIOUS
    <3>4. 1 \in Cells
      BY DEF Cells
    <3> QED  BY <3>1, <3>2, <3>3, <3>4
  <2>2. Squares[1] = [left |-> 2 * (-88), right |-> 2 * 88, low |-> 2 * (-177), high |-> 2 * 0]
    BY <2>1, Conversion DEF Squares
  <2>3. Start(1) = <<-66, -155>>
    <3>1. StartX(1) = -15 /\ StartY(1) = -35
      BY DEF StartX, StartY
    <3> QED  BY <3>1, Conversion DEF Start
  <2>4. ASide(1) = <<0, -34>>
    <3>1. -66 + 66 = 0 /\ -155 + 0 = -155
      OBVIOUS
    <3> QED  BY <2>3, <3>1, Conversion DEF ASide, Aside
  <2>5. Right(1) = <<0, -151>>
    BY <2>4, Conversion DEF Right
  <2> QED  BY <2>2, <2>3, <2>5 DEF Site, Box
<1>3. Site(2, 176, 532, -354, 0, 111, -155, 173, -151)
  <2>1. /\ 40 * (2 % 3) - 60 = 20 /\ -40 * (2 \div 3) = 0 /\ 2 \in Cells
        /\ 20 + 40 = 60 /\ 0 - 40 = -40
    <3>1. 2 % 3 = 2 /\ 2 \in 0..2
      OBVIOUS
    <3>2. -40 * (2 \div 3) = 0
      BY <3>1, TopRow, Zenon
    <3>3. 40 * 2 - 60 = 20 /\ 20 + 40 = 60 /\ 0 - 40 = -40
      OBVIOUS
    <3>4. 2 \in Cells
      BY DEF Cells
    <3> QED  BY <3>1, <3>2, <3>3, <3>4
  <2>2. Squares[2] = [left |-> 2 * 88, right |-> 2 * 266, low |-> 2 * (-177), high |-> 2 * 0]
    BY <2>1, Conversion DEF Squares
  <2>3. Start(2) = <<111, -155>>
    <3>1. StartX(2) = 25 /\ StartY(2) = -35
      BY DEF StartX, StartY
    <3> QED  BY <3>1, Conversion DEF Start
  <2>4. ASide(2) = <<39, -34>>
    <3>1. 111 + 66 = 177 /\ -155 + 0 = -155
      OBVIOUS
    <3> QED  BY <2>3, <3>1, Conversion DEF ASide, Aside
  <2>5. Right(2) = <<173, -151>>
    BY <2>4, Conversion DEF Right
  <2> QED  BY <2>2, <2>3, <2>5 DEF Site, Box
<1>4. Site(3, -532, -176, -710, -354, -244, -333, -177, -328)
  <2>1. /\ 40 * (3 % 3) - 60 = -60 /\ -40 * (3 \div 3) = -40 /\ 3 \in Cells
        /\ -60 + 40 = -20 /\ -40 - 40 = -80
    BY DEF Cells
  <2>2. Squares[3] = [left |-> 2 * (-266), right |-> 2 * (-88), low |-> 2 * (-355), high |-> 2 * (-177)]
    BY <2>1, Conversion DEF Squares
  <2>3. Start(3) = <<-244, -333>>
    <3>1. StartX(3) = -55 /\ StartY(3) = -75
      BY DEF StartX, StartY
    <3> QED  BY <3>1, Conversion DEF Start
  <2>4. ASide(3) = <<-40, -74>>
    <3>1. -244 + 66 = -178 /\ -333 + 0 = -333
      OBVIOUS
    <3> QED  BY <2>3, <3>1, Conversion DEF ASide, Aside
  <2>5. Right(3) = <<-177, -328>>
    BY <2>4, Conversion DEF Right
  <2> QED  BY <2>2, <2>3, <2>5 DEF Site, Box
<1>5. Site(4, -176, 176, -710, -354, -66, -333, 0, -328)
  <2>1. /\ 40 * (4 % 3) - 60 = -20 /\ -40 * (4 \div 3) = -40 /\ 4 \in Cells
        /\ -20 + 40 = 20 /\ -40 - 40 = -80
    BY DEF Cells
  <2>2. Squares[4] = [left |-> 2 * (-88), right |-> 2 * 88, low |-> 2 * (-355), high |-> 2 * (-177)]
    BY <2>1, Conversion DEF Squares
  <2>3. Start(4) = <<-66, -333>>
    <3>1. StartX(4) = -15 /\ StartY(4) = -75
      BY DEF StartX, StartY
    <3> QED  BY <3>1, Conversion DEF Start
  <2>4. ASide(4) = <<0, -74>>
    <3>1. -66 + 66 = 0 /\ -333 + 0 = -333
      OBVIOUS
    <3> QED  BY <2>3, <3>1, Conversion DEF ASide, Aside
  <2>5. Right(4) = <<0, -328>>
    BY <2>4, Conversion DEF Right
  <2> QED  BY <2>2, <2>3, <2>5 DEF Site, Box
<1>6. Site(5, 176, 532, -710, -354, 111, -333, 173, -328)
  <2>1. /\ 40 * (5 % 3) - 60 = 20 /\ -40 * (5 \div 3) = -40 /\ 5 \in Cells
        /\ 20 + 40 = 60 /\ -40 - 40 = -80
    BY DEF Cells
  <2>2. Squares[5] = [left |-> 2 * 88, right |-> 2 * 266, low |-> 2 * (-355), high |-> 2 * (-177)]
    BY <2>1, Conversion DEF Squares
  <2>3. Start(5) = <<111, -333>>
    <3>1. StartX(5) = 25 /\ StartY(5) = -75
      BY DEF StartX, StartY
    <3> QED  BY <3>1, Conversion DEF Start
  <2>4. ASide(5) = <<39, -74>>
    <3>1. 111 + 66 = 177 /\ -333 + 0 = -333
      OBVIOUS
    <3> QED  BY <2>3, <3>1, Conversion DEF ASide, Aside
  <2>5. Right(5) = <<173, -328>>
    BY <2>4, Conversion DEF Right
  <2> QED  BY <2>2, <2>3, <2>5 DEF Site, Box
<1>7. Site(6, -532, -176, -1066, -710, -244, -511, -177, -506)
  <2>1. /\ 40 * (6 % 3) - 60 = -60 /\ -40 * (6 \div 3) = -80 /\ 6 \in Cells
        /\ -60 + 40 = -20 /\ -80 - 40 = -120
    BY DEF Cells
  <2>2. Squares[6] = [left |-> 2 * (-266), right |-> 2 * (-88), low |-> 2 * (-533), high |-> 2 * (-355)]
    BY <2>1, Conversion DEF Squares
  <2>3. Start(6) = <<-244, -511>>
    <3>1. StartX(6) = -55 /\ StartY(6) = -115
      BY DEF StartX, StartY
    <3> QED  BY <3>1, Conversion DEF Start
  <2>4. ASide(6) = <<-40, -114>>
    <3>1. -244 + 66 = -178 /\ -511 + 0 = -511
      OBVIOUS
    <3> QED  BY <2>3, <3>1, Conversion DEF ASide, Aside
  <2>5. Right(6) = <<-177, -506>>
    BY <2>4, Conversion DEF Right
  <2> QED  BY <2>2, <2>3, <2>5 DEF Site, Box
<1>8. Site(7, -176, 176, -1066, -710, -66, -511, 0, -506)
  <2>1. /\ 40 * (7 % 3) - 60 = -20 /\ -40 * (7 \div 3) = -80 /\ 7 \in Cells
        /\ -20 + 40 = 20 /\ -80 - 40 = -120
    BY DEF Cells
  <2>2. Squares[7] = [left |-> 2 * (-88), right |-> 2 * 88, low |-> 2 * (-533), high |-> 2 * (-355)]
    BY <2>1, Conversion DEF Squares
  <2>3. Start(7) = <<-66, -511>>
    <3>1. StartX(7) = -15 /\ StartY(7) = -115
      BY DEF StartX, StartY
    <3> QED  BY <3>1, Conversion DEF Start
  <2>4. ASide(7) = <<0, -114>>
    <3>1. -66 + 66 = 0 /\ -511 + 0 = -511
      OBVIOUS
    <3> QED  BY <2>3, <3>1, Conversion DEF ASide, Aside
  <2>5. Right(7) = <<0, -506>>
    BY <2>4, Conversion DEF Right
  <2> QED  BY <2>2, <2>3, <2>5 DEF Site, Box
<1>9. Site(8, 176, 532, -1066, -710, 111, -511, 173, -506)
  <2>1. /\ 40 * (8 % 3) - 60 = 20 /\ -40 * (8 \div 3) = -80 /\ 8 \in Cells
        /\ 20 + 40 = 60 /\ -80 - 40 = -120
    BY DEF Cells
  <2>2. Squares[8] = [left |-> 2 * 88, right |-> 2 * 266, low |-> 2 * (-533), high |-> 2 * (-355)]
    BY <2>1, Conversion DEF Squares
  <2>3. Start(8) = <<111, -511>>
    <3>1. StartX(8) = 25 /\ StartY(8) = -115
      BY DEF StartX, StartY
    <3> QED  BY <3>1, Conversion DEF Start
  <2>4. ASide(8) = <<39, -114>>
    <3>1. 111 + 66 = 177 /\ -511 + 0 = -511
      OBVIOUS
    <3> QED  BY <2>3, <3>1, Conversion DEF ASide, Aside
  <2>5. Right(8) = <<173, -506>>
    BY <2>4, Conversion DEF Right
  <2> QED  BY <2>2, <2>3, <2>5 DEF Site, Box
<1> QED  BY <1>1, <1>2, <1>3, <1>4, <1>5, <1>6, <1>7, <1>8, <1>9

(* Square q: where X and O begin on it.                                                              *)
Corner(q, s, r) ==
    /\ q \in Boxes /\ s \in Int \X Int /\ r \in Int \X Int
    /\ q.right >= q.left + 352 /\ q.high >= q.low + 354
    /\ 2 * s[1] >= q.left + 44 /\ 2 * s[1] <= q.left + 46 /\ 2 * s[2] = q.low + 44
    /\ 2 * r[1] >= q.left + 170 /\ 2 * r[1] <= q.left + 178
    /\ 2 * r[2] >= q.low + 52 /\ 2 * r[2] <= q.low + 54

(* Marks begin near the left lower corners of the squares.                                            *)
LEMMA Corners == \A d \in Cells : Corner(Squares[d], Start(d), Right(d))
<1>1. ASSUME NEW d, NEW left \in Int, NEW right \in Int, NEW low \in Int, NEW high \in Int,
             NEW x \in Int, NEW y \in Int, NEW v \in Int, NEW w \in Int,
             Site(d, left, right, low, high, x, y, v, w),
             right >= left + 352, high >= low + 354,
             2 * x >= left + 44, 2 * x <= left + 46, 2 * y = low + 44,
             2 * v >= left + 170, 2 * v <= left + 178, 2 * w >= low + 52, 2 * w <= low + 54
      PROVE  Corner(Squares[d], Start(d), Right(d))
  <2>1. /\ Squares[d] = [left |-> left, right |-> right, low |-> low, high |-> high]
        /\ Start(d) = <<x, y>> /\ Right(d) = <<v, w>>
    BY <1>1 DEF Site, Box
  <2>2. /\ Squares[d] \in Boxes /\ Squares[d].left = left /\ Squares[d].right = right
        /\ Squares[d].low = low /\ Squares[d].high = high
    BY <2>1 DEF Boxes
  <2>3. /\ Start(d) \in Int \X Int /\ Start(d)[1] = x /\ Start(d)[2] = y
        /\ Right(d) \in Int \X Int /\ Right(d)[1] = v /\ Right(d)[2] = w
    BY <2>1
  <2> QED  BY <1>1, <2>2, <2>3 DEF Corner
<1>2. \A d \in Cells : d \in {0, 1, 2, 3, 4, 5, 6, 7, 8}
  BY DEF Cells
<1>3. Corner(Squares[0], Start(0), Right(0))
  <2>1. Site(0, -532, -176, -354, 0, -244, -155, -177, -151)
    BY Sites
  <2> QED  BY <1>1, <2>1
<1>4. Corner(Squares[1], Start(1), Right(1))
  <2>1. Site(1, -176, 176, -354, 0, -66, -155, 0, -151)
    BY Sites
  <2> QED  BY <1>1, <2>1
<1>5. Corner(Squares[2], Start(2), Right(2))
  <2>1. Site(2, 176, 532, -354, 0, 111, -155, 173, -151)
    BY Sites
  <2> QED  BY <1>1, <2>1
<1>6. Corner(Squares[3], Start(3), Right(3))
  <2>1. Site(3, -532, -176, -710, -354, -244, -333, -177, -328)
    BY Sites
  <2> QED  BY <1>1, <2>1
<1>7. Corner(Squares[4], Start(4), Right(4))
  <2>1. Site(4, -176, 176, -710, -354, -66, -333, 0, -328)
    BY Sites
  <2> QED  BY <1>1, <2>1
<1>8. Corner(Squares[5], Start(5), Right(5))
  <2>1. Site(5, 176, 532, -710, -354, 111, -333, 173, -328)
    BY Sites
  <2> QED  BY <1>1, <2>1
<1>9. Corner(Squares[6], Start(6), Right(6))
  <2>1. Site(6, -532, -176, -1066, -710, -244, -511, -177, -506)
    BY Sites
  <2> QED  BY <1>1, <2>1
<1>10. Corner(Squares[7], Start(7), Right(7))
  <2>1. Site(7, -176, 176, -1066, -710, -66, -511, 0, -506)
    BY Sites
  <2> QED  BY <1>1, <2>1
<1>11. Corner(Squares[8], Start(8), Right(8))
  <2>1. Site(8, 176, 532, -1066, -710, 111, -511, 173, -506)
    BY Sites
  <2> QED  BY <1>1, <2>1
<1>12. ASSUME NEW d \in Cells PROVE Corner(Squares[d], Start(d), Right(d))
  <2>1. CASE d \in {0, 1, 2}
    BY <1>3, <1>4, <1>5, <2>1
  <2>2. CASE d \in {3, 4, 5}
    BY <1>6, <1>7, <1>8, <2>2
  <2>3. CASE d \in {6, 7, 8}
    BY <1>9, <1>10, <1>11, <2>3
  <2> QED  BY <1>2, <2>1, <2>2, <2>3
<1> QED  BY <1>12, Zenon

(* The drift before a mark of a whole game, and before one of its first three.                          *)
LEMMA Drifts ==
    ASSUME NEW i \in 0..8
    PROVE  /\ Drift(i) \in Int \X Int /\ Drift(i)[1] <= 0 /\ Drift(i)[2] >= 0 /\ Drift(i)[2] <= 104
           /\ Owner(i) = "X" => Drift(i)[1] >= -72
           /\ Owner(i) = "O" => Drift(i)[1] >= -74 /\ Drift(i)[1] <= -20 /\ Drift(i)[2] >= 26
           /\ i <= 2 => Drift(i)[1] >= -20 /\ Drift(i)[2] <= 26
<1>1. Drift(0) = <<0, 0>> /\ Drift(1) = <<-20, 26>> /\ Drift(2) = <<-18, 26>>
  BY DEF Drift
<1>2. Drift(3) = <<-38, 52>> /\ Drift(4) = <<-36, 52>> /\ Drift(5) = <<-56, 78>>
  BY DEF Drift
<1>3. Drift(6) = <<-54, 78>> /\ Drift(7) = <<-74, 104>> /\ Drift(8) = <<-72, 104>>
  BY DEF Drift
<1>4. /\ Owner(0) = "X" /\ Owner(1) = "O" /\ Owner(2) = "X" /\ Owner(3) = "O" /\ Owner(4) = "X"
      /\ Owner(5) = "O" /\ Owner(6) = "X" /\ Owner(7) = "O" /\ Owner(8) = "X"
  BY DEF Owner
<1>5. CASE i \in 0..2
  BY <1>1, <1>4, <1>5
<1>6. CASE i \in 3..5
  BY <1>2, <1>4, <1>6
<1>7. CASE i \in 6..8
  BY <1>3, <1>4, <1>7
<1> QED  BY <1>5, <1>6, <1>7

(* The extent of what an X and an O have drawn, once a stroke has been drawn.                            *)
LEMMA Extents ==
    /\ \A s \in Traces("X") : /\ s \in Boxes /\ s.left >= -20 /\ s.left <= 0 /\ s.right = 200
                              /\ s.low = 0 /\ s.high >= 200 /\ s.high <= 220
    /\ \A s \in Traces("O") : /\ s \in Boxes /\ s.left >= -112 /\ s.left <= 0 /\ s.right = 124
                              /\ s.low = 0 /\ s.high >= 142 /\ s.high <= 236
BY DEF Traces, X1, X2, O1, O2, O3, Box, Boxes

(* Ink b on a square at q of the board whose (0, 0) is at o: how far it reaches.                         *)
Within(b, o, q) ==
    /\ b \in Boxes
    /\ b.left >= o[1] + q.left - 48 /\ b.right <= o[1] + q.left + 282
    /\ b.low >= o[2] + q.low + 44   /\ b.high <= o[2] + q.low + 394
    /\ b.left + b.right >= 2 * (o[1] + q.left) /\ b.left + b.right <= 2 * (o[1] + q.left + 352)
    /\ b.low + b.high >= 2 * (o[2] + q.low)    /\ b.low + b.high <= 2 * (o[2] + q.low + 354)

(* The ink of a mark is centred in its square and does not reach far beyond it.                          *)
LEMMA MarkWithin ==
    ASSUME NEW o \in Int \X Int, NEW d \in Cells, NEW b, NEW i \in 0..8,
           NEW s \in Traces(Owner(i)), b = Shift(s, Base(o, i, d))
    PROVE  /\ Within(b, o, Squares[d])
           /\ i <= 2 => /\ b.left >= o[1] + Squares[d].left /\ b.right <= o[1] + Squares[d].right
                        /\ b.low >= o[2] + Squares[d].low   /\ b.high <= o[2] + Squares[d].high
<1> DEFINE q == Squares[d]
           g == Drift(i)
           h == Home(Owner(i), d)
           f == Owner(i)
<1>1. f \in {"X", "O"}
  BY Drifting
<1>2. Corner(q, Start(d), Right(d))
  BY Corners
<1>3. /\ g \in Int \X Int /\ g[1] <= 0 /\ g[2] >= 0 /\ g[2] <= 104
      /\ f = "X" => g[1] >= -72
      /\ f = "O" => g[1] >= -74 /\ g[1] <= -20 /\ g[2] >= 26
      /\ i <= 2 => g[1] >= -20 /\ g[2] <= 26
  BY Drifts
<1>4. /\ Base(o, i, d) = <<o[1] + g[1] + 2 * h[1], o[2] + g[2] + 2 * h[2]>>
      /\ b = [left |-> s.left + Base(o, i, d)[1], right |-> s.right + Base(o, i, d)[1],
              low |-> s.low + Base(o, i, d)[2], high |-> s.high + Base(o, i, d)[2]]
  BY DEF Base, Root, Far, Shift
<1>5. /\ b.left = s.left + (o[1] + g[1] + 2 * h[1]) /\ b.right = s.right + (o[1] + g[1] + 2 * h[1])
      /\ b.low = s.low + (o[2] + g[2] + 2 * h[2])   /\ b.high = s.high + (o[2] + g[2] + 2 * h[2])
  BY <1>4
<1>6. h = IF f = "X" THEN Start(d) ELSE Right(d)
  BY DEF Home
<1> HIDE DEF q, g, h
<1>7. o[1] \in Int /\ o[2] \in Int /\ g[1] \in Int /\ g[2] \in Int
  BY <1>3
<1>8. CASE f = "X"
  <2>1. /\ s \in Boxes /\ s.left >= -20 /\ s.left <= 0 /\ s.right = 200
        /\ s.low = 0 /\ s.high >= 200 /\ s.high <= 220
    BY <1>8, Extents
  <2>2. s.left \in Int /\ s.right \in Int /\ s.low \in Int /\ s.high \in Int
    BY <2>1 DEF Boxes
  <2>3. /\ q.left \in Int /\ q.right \in Int /\ q.low \in Int /\ q.high \in Int
        /\ h[1] \in Int /\ h[2] \in Int
        /\ q.right >= q.left + 352 /\ q.high >= q.low + 354
        /\ 2 * h[1] >= q.left + 44 /\ 2 * h[1] <= q.left + 46 /\ 2 * h[2] = q.low + 44
    BY <1>2, <1>6, <1>8 DEF Corner, Boxes
  <2>4. b \in Boxes
    BY <1>4, <1>7, <2>2, <2>3 DEF Boxes
  <2>5. /\ b.left >= o[1] + q.left - 48 /\ b.right <= o[1] + q.left + 282
        /\ b.left + b.right >= 2 * (o[1] + q.left) /\ b.left + b.right <= 2 * (o[1] + q.left + 352)
        /\ i <= 2 => b.left >= o[1] + q.left /\ b.right <= o[1] + q.right
    BY <1>3, <1>5, <1>7, <1>8, <2>1, <2>2, <2>3
  <2>6. /\ b.low >= o[2] + q.low + 44   /\ b.high <= o[2] + q.low + 394
        /\ b.low + b.high >= 2 * (o[2] + q.low)    /\ b.low + b.high <= 2 * (o[2] + q.low + 354)
        /\ i <= 2 => b.low >= o[2] + q.low /\ b.high <= o[2] + q.high
    BY <1>3, <1>5, <1>7, <1>8, <2>1, <2>2, <2>3
  <2> QED  BY <2>4, <2>5, <2>6 DEF Within, q
<1>9. CASE f = "O"
  <2>1. /\ s \in Boxes /\ s.left >= -112 /\ s.left <= 0 /\ s.right = 124
        /\ s.low = 0 /\ s.high >= 142 /\ s.high <= 236
    BY <1>9, Extents
  <2>2. s.left \in Int /\ s.right \in Int /\ s.low \in Int /\ s.high \in Int
    BY <2>1 DEF Boxes
  <2>3. /\ q.left \in Int /\ q.right \in Int /\ q.low \in Int /\ q.high \in Int
        /\ h[1] \in Int /\ h[2] \in Int
        /\ q.right >= q.left + 352 /\ q.high >= q.low + 354
        /\ 2 * h[1] >= q.left + 170 /\ 2 * h[1] <= q.left + 178
        /\ 2 * h[2] >= q.low + 52 /\ 2 * h[2] <= q.low + 54
    BY <1>2, <1>6, <1>9 DEF Corner, Boxes
  <2>4. b \in Boxes
    BY <1>4, <1>7, <2>2, <2>3 DEF Boxes
  <2>5. /\ b.left >= o[1] + q.left - 48 /\ b.right <= o[1] + q.left + 282
        /\ b.left + b.right >= 2 * (o[1] + q.left) /\ b.left + b.right <= 2 * (o[1] + q.left + 352)
        /\ i <= 2 => b.left >= o[1] + q.left /\ b.right <= o[1] + q.right
    BY <1>3, <1>5, <1>7, <1>9, <2>1, <2>2, <2>3
  <2>6. /\ b.low >= o[2] + q.low + 44   /\ b.high <= o[2] + q.low + 394
        /\ b.low + b.high >= 2 * (o[2] + q.low)    /\ b.low + b.high <= 2 * (o[2] + q.low + 354)
        /\ i <= 2 => b.low >= o[2] + q.low /\ b.high <= o[2] + q.high
    BY <1>3, <1>5, <1>7, <1>9, <2>1, <2>2, <2>3
  <2> QED  BY <2>4, <2>5, <2>6 DEF Within, q
<1> QED  BY <1>1, <1>8, <1>9

(* Different squares are one line or more apart.                                                        *)
LEMMA Pitch ==
    ASSUME NEW c \in Cells, NEW d \in Cells, c # d
    PROVE  LET p == Squares[c]   q == Squares[d] IN
           \/ p.left + 352 <= q.left \/ q.left + 352 <= p.left
           \/ p.low + 354 <= q.low   \/ q.low + 354 <= p.low
<1>1. /\ Squares[0].left = -532 /\ Squares[0].low = -354
      /\ Squares[1].left = -176 /\ Squares[1].low = -354
      /\ Squares[2].left = 176 /\ Squares[2].low = -354
      /\ Squares[3].left = -532 /\ Squares[3].low = -710
      /\ Squares[4].left = -176 /\ Squares[4].low = -710
      /\ Squares[5].left = 176 /\ Squares[5].low = -710
      /\ Squares[6].left = -532 /\ Squares[6].low = -1066
      /\ Squares[7].left = -176 /\ Squares[7].low = -1066
      /\ Squares[8].left = 176 /\ Squares[8].low = -1066
  BY Sites DEF Site, Box
<1>2. c \in {0, 1, 2, 3, 4, 5, 6, 7, 8} /\ d \in {0, 1, 2, 3, 4, 5, 6, 7, 8}
  BY DEF Cells
<1> QED  BY <1>1, <1>2

(* Ink within the reach of different squares is apart.                                                   *)
LEMMA Separate ==
    ASSUME NEW o \in Int \X Int, NEW c \in Cells, NEW d \in Cells, c # d, NEW a, NEW b,
           Within(a, o, Squares[c]), Within(b, o, Squares[d])
    PROVE  Apart(a, b)
<1> DEFINE p == Squares[c]
           q == Squares[d]
<1>1. p \in Boxes /\ q \in Boxes
  BY Corners DEF Corner
<1>2. \/ p.left + 352 <= q.left \/ q.left + 352 <= p.left
      \/ p.low + 354 <= q.low   \/ q.low + 354 <= p.low
  BY Pitch
<1>3. /\ a.left >= o[1] + p.left - 48 /\ a.right <= o[1] + p.left + 282
      /\ a.low >= o[2] + p.low + 44   /\ a.high <= o[2] + p.low + 394
      /\ b.left >= o[1] + q.left - 48 /\ b.right <= o[1] + q.left + 282
      /\ b.low >= o[2] + q.low + 44   /\ b.high <= o[2] + q.low + 394
      /\ a \in Boxes /\ b \in Boxes
  BY DEF Within
<1> HIDE DEF p, q
<1>4. /\ p.left \in Int /\ p.low \in Int /\ q.left \in Int /\ q.low \in Int
      /\ o[1] \in Int /\ o[2] \in Int
      /\ a.left \in Int /\ a.right \in Int /\ a.low \in Int /\ a.high \in Int
      /\ b.left \in Int /\ b.right \in Int /\ b.low \in Int /\ b.high \in Int
  BY <1>1, <1>3 DEF Boxes
<1>5. a.right < b.left \/ b.right < a.left \/ a.high < b.low \/ b.high < a.low
  BY <1>2, <1>3, <1>4
<1> QED  BY <1>5 DEF Apart

(* Ink within the reach of a square is centred in it.                                                    *)
LEMMA Centred ==
    ASSUME NEW o \in Int \X Int, NEW c \in Cells, NEW b, Within(b, o, Squares[c])
    PROVE  LET q == Squares[c] IN
           Inside(Centre(b), [left |-> o[1] + q.left, right |-> o[1] + q.right,
                              low |-> o[2] + q.low, high |-> o[2] + q.high])
<1> DEFINE q == Squares[c]
           x == (b.left + b.right) \div 2
           y == (b.low + b.high) \div 2
<1>1. q \in Boxes /\ q.right >= q.left + 352 /\ q.high >= q.low + 354
  BY Corners DEF Corner
<1>2. /\ b.left + b.right >= 2 * (o[1] + q.left) /\ b.left + b.right <= 2 * (o[1] + q.left + 352)
      /\ b.low + b.high >= 2 * (o[2] + q.low)    /\ b.low + b.high <= 2 * (o[2] + q.low + 354)
      /\ b \in Boxes
  BY DEF Within
<1> HIDE DEF q
<1>3. /\ q.left \in Int /\ q.low \in Int /\ q.right \in Int /\ q.high \in Int
      /\ o[1] \in Int /\ o[2] \in Int /\ b.left + b.right \in Int /\ b.low + b.high \in Int
  BY <1>1, <1>2 DEF Boxes
<1>4. \A s, l, r \in Int : s >= 2 * l /\ s <= 2 * r => s \div 2 >= l /\ s \div 2 <= r
  OBVIOUS
<1>5. x >= o[1] + q.left /\ x <= o[1] + q.left + 352
  <2>1. o[1] + q.left \in Int /\ o[1] + q.left + 352 \in Int
    BY <1>3
  <2> QED  BY <1>2, <1>3, <1>4, <2>1
<1>6. y >= o[2] + q.low /\ y <= o[2] + q.low + 354
  <2>1. o[2] + q.low \in Int /\ o[2] + q.low + 354 \in Int
    BY <1>3
  <2> QED  BY <1>2, <1>3, <1>4, <2>1
<1>7. x \in Int /\ y \in Int
  BY <1>3
<1> HIDE DEF x, y
<1>8. /\ x >= o[1] + q.left /\ x <= o[1] + q.right
      /\ y >= o[2] + q.low /\ y <= o[2] + q.high
  BY <1>1, <1>3, <1>5, <1>6, <1>7
<1>9. Centre(b) = [left |-> x, right |-> x, low |-> y, high |-> y]
  BY DEF Centre, x, y
<1> QED  BY <1>8, <1>9 DEF Inside, q
-----------------------------------------------------------------------------
(* The commands, and the theorems.                                                                        *)

(* While the board is tracked, ink is the ink of marks of the game, or of nine marks when none is on.      *)
LEMMA InkTracked ==
    ASSUME Types, Lawful, Tracked
    PROVE  \A d \in Cells : Inked(ink[d]) =>
               /\ MarkOf(origin, 9, d, ink[d])
               /\ game.turn > 0 => MarkOf(origin, game.turn, d, ink[d])
<1>1. game.turn \in 0..9
  BY GameTyped DEF Lawful
<1>2. CASE Off
  BY <1>2 DEF Off
<1>3. CASE Waiting
  <2>1. 9 \in 0..9 /\ game.turn <= 9
    BY <1>1
  <2> QED  BY <1>1, <1>3, <2>1, MoreMarks DEF Waiting
<1>4. CASE Lining
  BY <1>4 DEF Lining
<1>5. ASSUME NEW n \in 0..8, NEW c \in Cells, NEW k \in 1..18, NEW e \in Cells \cup {NoCell},
             k <= Size(Owner(n)), Marking(n, c, k, e), NEW d \in Cells, Inked(ink[d])
      PROVE  MarkOf(origin, 9, d, ink[d]) /\ MarkOf(origin, game.turn, d, ink[d])
  <2>1. /\ Stood(Owner(n), c, k, Far(origin, n), motor, pos, pen, cell, ink[c])
        /\ game.turn = n + 1 \/ game.turn = n + 2
        /\ d # c => MarkOf(origin, n, d, ink[d])
    BY <1>5 DEF Marking
  <2>2. n + 1 \in 0..9 /\ n \in 0..9 /\ 9 \in 0..9 /\ n + 1 <= game.turn /\ n <= n + 1
        /\ n + 1 <= 9 /\ n <= 9 /\ n <= game.turn
    BY <1>1, <2>1
  <2>3. MarkOf(origin, n + 1, d, ink[d])
    <3>1. CASE d = c
      <4> DEFINE f == Owner(n)
      <4>1. f \in {"X", "O"}
        BY Drifting
      <4>2. ink[c] = Shift(Trace(f, k), Root(Far(origin, n), Home(f, c)))
        BY <1>5, <2>1, <3>1 DEF Stood
      <4>3. Trace(f, k) \in Traces(f)
        <5> HIDE DEF f
        <5> QED  BY <4>1 DEF Trace, Traces
      <4>4. n \in 0..((n + 1) - 1)
        OBVIOUS
      <4>5. ink[d] = Shift(Trace(f, k), Base(origin, n, d))
        BY <3>1, <4>2 DEF Base
      <4> QED  BY <4>3, <4>4, <4>5 DEF MarkOf
    <3>2. CASE d # c
      BY <2>1, <2>2, <3>2, MoreMarks
    <3> QED  BY <3>1, <3>2
  <2> QED  BY <1>1, <2>2, <2>3, MoreMarks
<1> QED  BY <1>2, <1>3, <1>4, <1>5 DEF Tracked

(* A new board: the place where the pen is becomes its (0, 0), wherever that is.                            *)
LEMMA NewBoard ==
    ASSUME Types, Tidied, Board_T
    PROVE  Lining'
<1>1. /\ game' = StartGame /\ todo' = DrawBoard \o DrawInBoard("X", 4)
      /\ ink' = CleanSheet /\ origin' = Offset
      /\ UNCHANGED <<motor, pos, pen, cell>> /\ cell = NoCell
  BY IdleTidy DEF Board_T, AtRest, penVars
<1>2. DrawInBoard("X", 4) = PlanX(4)
  <2>1. 4 \in Cells
    BY DEF Cells
  <2> QED  BY <2>1, PlanOfX
<1>3. /\ SubSeq(DrawBoard, 1, Len(DrawBoard)) = DrawBoard /\ 1 \in 1..Len(DrawBoard)
  <2>1. DrawBoard \in Seq(Instructions) /\ Len(DrawBoard) > 0 /\ Len(DrawBoard) \in Nat
    BY Straight, LenProperties
  <2> QED  BY <2>1, SubSeqFull
<1>4. Tidy(DrawBoard, pen', cell')
  BY <1>1, BoardEnds, TidyProgram
<1>5. Offset' = origin'
  <2>1. Offset' = <<X(motor') - 2 * pos'[1], Y(motor') - 2 * pos'[2]>>
    BY DEF Offset
  <2> QED  BY <1>1, <2>1 DEF Offset
<1>6. \A d \in Cells : ~Inked(ink'[d])
  BY <1>1 DEF CleanSheet, NoInk, Inked
<1>7. game'.turn = 1 /\ Free(game'.board) = Cells \ {4}
  BY <1>1, Openings
<1> QED  BY <1>1, <1>2, <1>3, <1>4, <1>5, <1>6, <1>7 DEF Lining

(* While no command is carried out and a game is on, the robot waits.                                      *)
LEMMA IdleWaits ==
    ASSUME Tracked, Idle, game.turn > 0
    PROVE  Waiting
<1>1. CASE Off
  BY <1>1 DEF Off
<1>2. CASE Lining
  <2>1. PICK k \in 1..Len(DrawBoard) : todo = SubSeq(DrawBoard, k, Len(DrawBoard)) \o PlanX(4)
    BY <1>2 DEF Lining
  <2>2. PlanX(4) \in Seq(Instructions) /\ Len(PlanX(4)) = 14
    <3>1. 4 \in Cells
      BY DEF Cells
    <3> QED  BY <3>1, PlanOfX
  <2>3. SubSeq(DrawBoard, k, Len(DrawBoard)) \in Seq(Instructions)
    <3>1. DrawBoard \in Seq(Instructions) /\ Len(DrawBoard) \in Nat
      BY Straight, LenProperties
    <3>2. \A u \in k..Len(DrawBoard) : DrawBoard[u] \in Instructions
      BY <3>1, ElementOfSeq
    <3>3. k \in Int /\ Len(DrawBoard) \in Int
      BY <3>1
    <3> QED  BY <3>2, <3>3, SubSeqProperties
  <2>4. \A s \in Seq(Instructions) : Len(s \o PlanX(4)) >= 14
    <3> TAKE s \in Seq(Instructions)
    <3>1. Len(s \o PlanX(4)) = Len(s) + Len(PlanX(4)) /\ Len(s) \in Nat
      BY <2>2, ConcatProperties, LenProperties
    <3>2. \A a \in Nat : a + 14 >= 14
      OBVIOUS
    <3> QED  BY <2>2, <3>1, <3>2, Zenon
  <2>5. Len(todo) >= 14
    BY <2>1, <2>3, <2>4
  <2> QED  BY <2>5 DEF Idle
<1>3. ASSUME NEW n \in 0..8, NEW c \in Cells, NEW k \in 1..18, NEW e \in Cells \cup {NoCell},
             k <= Size(Owner(n)), Marking(n, c, k, e)
      PROVE  FALSE
  <2>1. Owner(n) \in {"X", "O"} /\ todo = Left(Owner(n), c, k) \o After(e)
    BY <1>3, Drifting DEF Marking
  <2>2. k \in 1..Size(Owner(n))
    BY <1>3, <2>1 DEF Size
  <2>3. Onward(Owner(n), c, k, e, todo)
    BY <2>1, <2>2, Ahead
  <2> QED  BY <2>3 DEF Onward, Idle
<1> QED  BY <1>1, <1>2, <1>3 DEF Tracked

(* The player has moved: an O, then the X that answers it.                                                  *)
LEMMA NewMarks ==
    ASSUME Types, Lawful, Tidied, Tracked, Board_D, ~disturbed'
    PROVE  Lawful' /\ Tracked'
<1>0. PICK c \in Cells :
           LET r == JugarTATETI(game, c) IN
           /\ game' = r.game
           /\ todo' = DrawInBoard("O", c)
                      \o (IF r.next \in Cells THEN DrawInBoard("X", r.next) ELSE <<>>)
           /\ IF c \in Playable
              THEN UNCHANGED <<disturbed, events>>
              ELSE events < MaxEvents /\ events' = events + 1 /\ disturbed' = TRUE
  BY DEF Board_D
<1>1. /\ Idle /\ game.turn > 0 /\ ~Decided(game.board)
      /\ UNCHANGED <<motor, pos, pen, cell, ink, origin>>
      /\ c \in Free(game.board)
  <2>1. c \in Playable
    BY <1>0
  <2>2. Idle /\ UNCHANGED <<motor, pos, pen, cell, ink, origin>>
    BY DEF Board_D, AtRest, penVars
  <2> QED  BY <2>1, <2>2 DEF Playable
<1>2. LET r == JugarTATETI(game, c) IN
           /\ game' = r.game
           /\ todo' = DrawInBoard("O", c)
                      \o (IF r.next \in Cells THEN DrawInBoard("X", r.next) ELSE <<>>)
  BY <1>0
<1> PICK e : e = JugarTATETI(game, c).next
  OBVIOUS
<1> PICK n : n = game.turn
  OBVIOUS
<1>3. /\ game'.turn = n + 2 /\ game'.turn \in 3..9 /\ n \in {0, 1, 3, 5, 7, 9}
      /\ c \in Cells /\ e \in Cells \ {c} /\ e \in Free(game.board)
      /\ Free(game'.board) = Free(game.board) \ {c, e}
      /\ todo' = DrawInBoard("O", c) \o DrawInBoard("X", e) /\ Lawful'
  <2>1. Engine!Logged(game) /\ Engine!Strategy(game)
    BY DEF Lawful
  <2> QED  BY <1>1, <1>2, <2>1, Answered, GameTyped DEF Lawful
<1>4. n \in 0..8 /\ Owner(n) = "O"
  <2>1. n \in {1, 3, 5, 7}
    BY <1>1, <1>3
  <2>2. Owner(1) = "O" /\ Owner(3) = "O" /\ Owner(5) = "O" /\ Owner(7) = "O"
    BY DEF Owner
  <2> QED  BY <2>1, <2>2
<1>5. /\ Offset = Far(origin, n)
      /\ \A d \in Cells : Inked(ink[d]) => MarkOf(origin, n, d, ink[d])
      /\ \A d \in Free(game.board) : ~Inked(ink[d])
  BY <1>1, IdleWaits DEF Waiting
<1>6. Stood("O", c, 1, Far(origin, n), motor, pos, pen, cell, ink[c])
  <2>1. motor \in Int \X Int /\ pos \in Int \X Int /\ Far(origin, n) \in Int \X Int
        /\ pen = "up" /\ cell = NoCell
    <3>1. n \in 0..9 /\ origin \in Int \X Int
      BY <1>4 DEF Types
    <3> QED  BY <1>1, <3>1, FarTyped, IdleTidy DEF Types
  <2> DEFINE w == Far(origin, n)
  <2> HIDE DEF w
  <2>2. Offset = w
    BY <1>5 DEF w
  <2>3. X(motor) - 2 * pos[1] = w[1] /\ Y(motor) - 2 * pos[2] = w[2]
    BY <2>2 DEF Offset
  <2>4. X(motor) \in Int /\ Y(motor) \in Int /\ pos[1] \in Int /\ pos[2] \in Int
        /\ w[1] \in Int /\ w[2] \in Int
    BY <2>1, InkTyped DEF w
  <2>5. X(motor) = 2 * pos[1] + w[1] /\ Y(motor) = 2 * pos[2] + w[2]
    <3>1. \A u, v, l \in Int : u - 2 * v = l => u = 2 * v + l
      OBVIOUS
    <3> QED  BY <2>3, <2>4, <3>1
  <2>6. ~Inked(ink[c])
    BY <1>1, <1>5
  <2> QED  BY <1>3, <2>1, <2>5, <2>6, Beginning DEF w
<1>7. todo' = Left("O", c, 1) \o After(e)
  <2>1. DrawInBoard("O", c) = Left("O", c, 1)
    BY <1>3, PlanOfO, LeftOfO DEF Left
  <2>2. DrawInBoard("X", e) = After(e)
    BY <1>3, PlanOfX DEF After
  <2> QED  BY <1>3, <2>1, <2>2
<1>8. \A d \in Free(game'.board) : d \notin {c, e} /\ ~Inked(ink[d])
  BY <1>3, <1>5
<1>9. Marking(n, c, 1, e)'
  <2>1. /\ Stood(Owner(n), c, 1, Far(origin', n), motor', pos', pen', cell', ink'[c])
        /\ todo' = Left(Owner(n), c, 1) \o After(e)
    BY <1>1, <1>4, <1>6, <1>7
  <2>2. e \in Cells \ {c} /\ Owner(n) = "O" /\ game'.turn = n + 2 /\ ~Inked(ink'[e])
    BY <1>1, <1>3, <1>4, <1>5
  <2>3. /\ \A d \in Cells \ {c} : Inked(ink'[d]) => MarkOf(origin', n, d, ink'[d])
        /\ \A d \in Free(game'.board) : d \notin {c, e} /\ ~Inked(ink'[d])
    BY <1>1, <1>5, <1>8
  <2> QED  BY <2>1, <2>2, <2>3 DEF Marking
<1>10. 1 \in 1..18 /\ 1 <= Size(Owner(n)) /\ e \in Cells \cup {NoCell}
  BY <1>3, <1>4 DEF Size
<1> QED  BY <1>3, <1>4, <1>9, <1>10 DEF Tracked

(* The board is left, or the EDU-CIAA restarts.                                                              *)
LEMMA NoGame ==
    ASSUME Types, Lawful, Tidied, Tracked, Board_L \/ Reset
    PROVE  Lawful' /\ Off'
<1>1. /\ game' = CleanBoard /\ UNCHANGED <<ink, origin>> /\ cell' = NoCell
      /\ todo' = MoveTo(0, 0) \/ todo' = <<>>
  BY IdleTidy DEF Board_L, Reset, AtRest, penVars, sheetVars
<1>2. \A k \in 1..Len(todo') : todo'[k] \in Steering
  <2>1. CASE todo' = <<>>
    BY <2>1
  <2>2. CASE todo' = MoveTo(0, 0)
    BY <2>2 DEF MoveTo, Steering
  <2> QED  BY <1>1, <2>1, <2>2
<1>3. \A d \in Cells : Inked(ink'[d]) => MarkOf(origin', 9, d, ink'[d])
  BY <1>1, InkTracked
<1>4. game'.turn = 0 /\ Lawful'
  BY <1>1, Openings DEF Lawful
<1> QED  BY <1>1, <1>2, <1>3, <1>4 DEF Off

(* The inductive invariant holds at first.                                                                   *)
LEMMA PlotterStarts == Init => PlotterInv
<1> SUFFICES ASSUME Init PROVE PlotterInv
  OBVIOUS
<1>1. Types /\ Playing /\ Tidied
  BY BasicInit
<1>2. Off
  <2>1. game.turn = 0 /\ cell = NoCell /\ todo = <<>>
    BY Openings DEF Init
  <2>2. \A d \in Cells : ~Inked(ink[d])
    BY DEF Init, CleanSheet, NoInk, Inked
  <2> QED  BY <2>1, <2>2 DEF Off
<1>3. Lawful
  BY Openings DEF Init, Lawful
<1> QED  BY <1>1, <1>2, <1>3 DEF PlotterInv, Tracked

(* Every step keeps it.                                                                                      *)
LEMMA PlotterSteps == PlotterInv /\ [Next]_vars => PlotterInv'
<1> SUFFICES ASSUME PlotterInv, [Next]_vars PROVE PlotterInv'
  OBVIOUS
<1>1. Types /\ Playing /\ Tidied /\ Types' /\ Playing' /\ Tidied'
  BY BasicStep DEF PlotterInv
<1>2. CASE Board_T
  <2>1. Lawful'
    BY <1>2, Openings DEF Board_T, Lawful
  <2> QED  BY <1>1, <1>2, <2>1, NewBoard DEF PlotterInv, Tracked
<1>3. CASE Figure \/ Jog
  BY <1>1, <1>3 DEF PlotterInv, Figure, Jog
<1>4. ASSUME ~disturbed', Step \/ Board_D \/ Board_L \/ Reset
      PROVE  Lawful' /\ Tracked'
  <2>1. disturbed' = disturbed
    <3>1. CASE Step
      BY <1>1, <3>1, Effects
    <3>2. CASE Board_D
      BY <1>4, <3>2 DEF Board_D
    <3>3. CASE Board_L \/ Reset
      BY <3>3 DEF Board_L, Reset, sheetVars
    <3> QED  BY <1>4, <3>1, <3>2, <3>3
  <2>2. Tracked /\ Lawful
    BY <1>4, <2>1 DEF PlotterInv
  <2>3. CASE Step
    <3>0. Lawful'
      <4>1. game' = game
        BY <1>1, <2>3, Effects
      <4> QED  BY <2>2, <4>1 DEF Lawful
    <3>1. CASE Off
      BY <1>1, <2>3, <3>0, <3>1, OffStep DEF Tracked
    <3>2. CASE Lining
      BY <1>1, <2>3, <3>0, <3>2, LiningStep
    <3>3. CASE Waiting
      <4>1. todo # <<>>
        BY <1>1, <2>3, Effects
      <4> QED  BY <3>3, <4>1 DEF Waiting
    <3>4. ASSUME NEW n \in 0..8, NEW c \in Cells, NEW k \in 1..18, NEW e \in Cells \cup {NoCell},
                 k <= Size(Owner(n)), Marking(n, c, k, e)
          PROVE  Tracked'
      BY <1>1, <2>3, <3>4, MarkStep
    <3> QED  BY <2>2, <3>0, <3>1, <3>2, <3>3, <3>4 DEF Tracked
  <2>4. CASE Board_D
    BY <1>1, <1>4, <2>2, <2>4, NewMarks
  <2>5. CASE Board_L \/ Reset
    BY <1>1, <2>2, <2>5, NoGame DEF Tracked
  <2> QED  BY <1>4, <2>3, <2>4, <2>5
<1>5. CASE UNCHANGED vars
  <2>1. UNCHANGED <<motor, pos, pen, todo, game, ink, cell, origin, disturbed, boards, events>>
    BY <1>5 DEF vars, penVars, sheetVars, counts
  <2>2. Tracked => Tracked'
    <3>1. Off => Off'
      BY <2>1 DEF Off
    <3>2. Waiting => Waiting'
      BY <2>1 DEF Waiting, Offset
    <3>3. Lining => Lining'
      BY <2>1 DEF Lining, Offset
    <3>4. ASSUME NEW n, NEW c, NEW k, NEW e, Marking(n, c, k, e)
          PROVE  Marking(n, c, k, e)'
      BY <2>1, <3>4 DEF Marking
    <3> QED  BY <3>1, <3>2, <3>3, <3>4 DEF Tracked
  <2>3. Lawful => Lawful'
    BY <2>1 DEF Lawful
  <2> QED  BY <1>1, <2>1, <2>2, <2>3 DEF PlotterInv
<1> QED  BY <1>1, <1>2, <1>3, <1>4, <1>5 DEF Next, PlotterInv

(* The invariant that both theorems rest on.                                                                 *)
LEMMA PlotterHolds == Spec => []PlotterInv
BY PlotterStarts, PlotterSteps, PTL DEF Spec

(* Whatever boards, figures, keys and restarts came before the game, the ink of each of its moves
   is centred in the square it was meant for and apart from the ink of every other, until something
   other than a move of that game moves the pen.                                                             *)
THEOREM SheetCanBeRead == Spec => []MarksReadable
<1>1. PlotterInv => MarksReadable
  <2> SUFFICES ASSUME PlotterInv, ~disturbed
               PROVE  \A c \in Cells : Inked(ink[c]) =>
                          /\ Inside(Centre(ink[c]), Square(c))
                          /\ \A d \in 0..(c - 1) : Inked(ink[d]) => Apart(ink[c], ink[d])
    BY DEF MarksReadable
  <2>1. origin \in Int \X Int
    BY DEF PlotterInv, Types
  <2>2. \A c \in Cells : Inked(ink[c]) => Within(ink[c], origin, Squares[c])
    <3> SUFFICES ASSUME NEW c \in Cells, Inked(ink[c])
                 PROVE  Within(ink[c], origin, Squares[c])
      OBVIOUS
    <3>1. MarkOf(origin, 9, c, ink[c])
      BY InkTracked DEF PlotterInv
    <3>2. PICK i \in 0..8 : \E s \in Traces(Owner(i)) : ink[c] = Shift(s, Base(origin, i, c))
      <4>1. 9 - 1 = 8
        OBVIOUS
      <4> QED  BY <3>1, <4>1 DEF MarkOf
    <3> QED  BY <2>1, <3>2, MarkWithin
  <2>3. ASSUME NEW c \in Cells, Inked(ink[c]) PROVE Inside(Centre(ink[c]), Square(c))
    BY <2>1, <2>2, <2>3, Centred DEF Square
  <2>4. ASSUME NEW c \in Cells, Inked(ink[c]), NEW d \in 0..(c - 1), Inked(ink[d])
        PROVE  Apart(ink[c], ink[d])
    <3>1. d \in Cells /\ c # d
      BY DEF Cells
    <3> QED  BY <2>1, <2>2, <2>4, <3>1, Separate
  <2> QED  BY <2>3, <2>4
<1> QED  BY <1>1, PlotterHolds, PTL

(* The first three marks of a game stay within the lines of their squares, unless something other than
   a move of the game has moved the pen since its board was drawn.                                            *)
THEOREM EarlyMarksFit == Spec => []EarlyMarksInside
<1>1. PlotterInv => EarlyMarksInside
  <2> SUFFICES ASSUME PlotterInv, ~disturbed, game.turn \in 1..3, NEW c \in Cells, Inked(ink[c])
               PROVE  Inside(ink[c], Square(c))
    BY DEF EarlyMarksInside
  <2>1. origin \in Int \X Int
    BY DEF PlotterInv, Types
  <2>2. MarkOf(origin, game.turn, c, ink[c])
    BY InkTracked DEF PlotterInv
  <2>3. PICK i \in 0..8 : i <= 2 /\ \E s \in Traces(Owner(i)) : ink[c] = Shift(s, Base(origin, i, c))
    <3>1. \A i \in 0..(game.turn - 1) : i \in 0..8 /\ i <= 2
      OBVIOUS
    <3> QED  BY <2>2, <3>1 DEF MarkOf
  <2>4. /\ ink[c].left >= origin[1] + Squares[c].left /\ ink[c].right <= origin[1] + Squares[c].right
        /\ ink[c].low >= origin[2] + Squares[c].low   /\ ink[c].high <= origin[2] + Squares[c].high
    BY <2>1, <2>3, MarkWithin
  <2> QED  BY <2>4 DEF Inside, Square
<1> QED  BY <1>1, PlotterHolds, PTL
=============================================================================
