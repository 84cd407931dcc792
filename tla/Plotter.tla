-------------------------------- MODULE Plotter --------------------------------
(***************************************************************************)
(* The pen: the two motors, the servo and the drawing routines of           *)
(* PruebaMotores.c, one call of a move or of the servo per step, while the  *)
(* robot draws figures and plays the games of the player of TATETI.c.       *)
(*                                                                          *)
(* The program knows where the pen is from posX and posY only, which moveTo *)
(* updates and the strokes of a figure do not.  The motors are counted      *)
(* apart, so that the module can tell where the pen really is.              *)
(***************************************************************************)
EXTENDS TatetiEngine, Sequences

CONSTANTS
    MaxBoards,      \* bound: boards drawn
    MaxEvents       \* bound: figures drawn outside a game, rounds of the loops of
                    \* readTECandMove, restarts of the EDU-CIAA and moves that are
                    \* no move of the game, in all

ASSUME PlotterAssumption ==
    MaxBoards \in Nat /\ MaxEvents \in Nat

VARIABLES
    motor,      \* steps made by motor1 and by motor2 since the power came on
    pos,        \* <<posX, posY>>, in steps
    pen,        \* "up" or "down"
    todo,       \* what is left of the command being carried out
    game,       \* the globals of TATETI.c
    ink,        \* the extent of what has been drawn for each square of the board
    cell,       \* the square being drawn, if any
    origin,     \* where (0, 0) was when the board was drawn
    disturbed,  \* history: since the board was drawn, something else has moved the
                \* pen, or a move has been drawn that is no move of its game
    boards, events      \* history: how many there have been

penVars   == <<motor, pos, pen>>
sheetVars == <<ink, origin, disturbed>>
counts    == <<boards, events>>
vars      == <<penVars, todo, game, cell, sheetVars, counts>>
-----------------------------------------------------------------------------
(* Instructions.                                                             *)

Abs(n) == IF n < 0 THEN -n ELSE n
Trunc(n, num, den) == IF n < 0 THEN -((Abs(n) * num) \div den) ELSE (n * num) \div den

\* MM_TO_STEP(X), (int)(X * 4.44444444): the constant is a little below 40/9, so
\* that a multiple of 9 mm comes out one step short.
MmToStep(n) ==
    IF n = 0 THEN 0 ELSE IF n > 0 THEN (40 * n - 1) \div 9 ELSE -((-40 * n - 1) \div 9)

\* (int)(N / TO_STEP).
StepToMm(n) == Trunc(n, 9, 40)

\* moveTo: first along Y, then along X.
MoveTo(x, y) == << [op |-> "toY", mm |-> y], [op |-> "toX", mm |-> x] >>
MoveToRel(x, y) == << [op |-> "rel", x |-> x, y |-> y] >>
ServoUp   == << [op |-> "pen", to |-> "up"] >>
ServoDown == << [op |-> "pen", to |-> "down"] >>

\* moveX and moveY turn both motors, in the same sense or in opposite ones.
Move(dx, dy)  == << [op |-> "turn", one |-> dx + dy, two |-> dx - dy] >>
MoveX(n) == Move(n, 0)
MoveY(n) == Move(0, n)

\* moveDiagonal turns one motor only.
MoveDiagonal(right, up, n) ==
    LET turn == IF right THEN n ELSE -n IN
    IF right # up THEN << [op |-> "turn", one |-> 0, two |-> turn] >>
                  ELSE << [op |-> "turn", one |-> turn, two |-> 0] >>

\* moveAngle: ceil(n / smooth) times the truncated step of that angle, which
\* loses its direction in part; only the multiples of 45 have a smooth of 2.
Smooth(angle) == IF angle \in {45, 135} THEN 2 ELSE 6
AngleStep(angle) ==
    CASE angle = 0   -> <<6, 0>>   [] angle = 45  -> <<1, 1>>   [] angle = 68  -> <<2, 5>>
      [] angle = 122 -> <<-3, 5>>  [] angle = 135 -> <<-1, 1>>  [] angle = 144 -> <<-4, 3>>
      [] angle = 214 -> <<-4, -3>> [] angle = 238 -> <<-3, -5>> [] angle = 292 -> <<2, -5>>

MoveAngle(angle, n) ==
    LET times == (n + Smooth(angle) - 1) \div Smooth(angle)
    IN  Move(times * AngleStep(angle)[1], times * AngleStep(angle)[2])
-----------------------------------------------------------------------------
(* The figures, at the sizes the commands ask for.                           *)

DrawSquare(side) ==
    ServoDown \o MoveX(side) \o MoveY(side) \o MoveX(-side) \o MoveY(-side) \o ServoUp

\* Mutant of DrawX: the pen is not brought back after the second diagonal.
DrawXNoReturn(side) ==
    ServoDown \o MoveAngle(45, 2 * side) \o ServoUp \o MoveY(-side)
    \o ServoDown \o MoveAngle(135, Trunc(side, 22, 10)) \o ServoUp

DrawX(side) ==
    ServoDown \o MoveAngle(45, 2 * side) \o ServoUp \o MoveY(-side)
    \o ServoDown \o MoveAngle(135, Trunc(side, 22, 10)) \o ServoUp
    \o MoveY(-Trunc(side, 975, 1000))

DrawStar(side) ==
    ServoDown \o MoveAngle(68, side) \o MoveAngle(292, Trunc(side, 11, 10))
    \o MoveAngle(144, Trunc(side, 125, 100)) \o MoveAngle(0, Trunc(side, 95, 100))
    \o MoveAngle(214, Trunc(side, 12, 10)) \o ServoUp

DrawTriangle(side) ==
    ServoDown \o MoveX(side) \o MoveAngle(122, side) \o MoveAngle(238, side) \o ServoUp

\* drawCircle: the truncated cosines and sines of its loop, added up over each
\* of the four arcs on which neither changes its sign.
DrawCircle(radius) ==
    ServoDown
    \o (CASE radius = 80 -> Move(55, 62) \o Move(-62, 42) \o Move(-42, -62) \o Move(50, -42)
          [] radius = 90 -> Move(62, 71) \o Move(-69, 47) \o Move(-49, -71) \o Move(57, -47))
    \o ServoUp

\* drawHeart(100), its two loops added up in the same way.
DrawHeart ==
    ServoDown \o MoveDiagonal(TRUE, TRUE, 100)
    \o Move(3, 21) \o Move(-35, 23) \o Move(-23, -30)
    \o Move(-35, 32) \o Move(-23, -34) \o Move(1, -4)
    \o MoveDiagonal(TRUE, FALSE, 130) \o ServoUp

Figures == {"C", "O", "X", "T", "S", "H"}

DrawFigure(f) ==
    CASE f = "C" -> DrawSquare(100) [] f = "O" -> DrawCircle(80)  [] f = "X" -> DrawX(100)
      [] f = "T" -> DrawTriangle(120) [] f = "S" -> DrawStar(120) [] f = "H" -> DrawHeart

ShowFigure(f) == MoveTo(0, -60) \o DrawFigure(f) \o MoveTo(0, 0)

DrawBoard ==
    MoveTo(-60, -40) \o ServoDown \o MoveTo(60, -40) \o ServoUp
    \o MoveTo(60, -80) \o ServoDown \o MoveTo(-60, -80) \o ServoUp
    \o MoveTo(-20, 0) \o ServoDown \o MoveTo(-20, -120) \o ServoUp
    \o MoveTo(20, -120) \o ServoDown \o MoveTo(20, 0) \o ServoUp
    \o MoveTo(0, 20)

\* moveInBoard and drawInBoard on square c, with the coordinates of getCoords;
\* "on" says for the model which square the ink is meant for.
On(c) == << [op |-> "on", cell |-> c] >>

\* Mutant of DrawInBoard: the circle starts where the X does.
DrawInBoardSameStart(figure, c) ==
    On(c) \o MoveTo(40 * (c % 3) - 55, -40 * (c \div 3) - 35)
    \o (IF figure = "O" THEN DrawCircle(90) ELSE DrawX(100))
    \o MoveTo(0, 20) \o On(NoCell)

DrawInBoard(figure, c) ==
    On(c) \o MoveTo(40 * (c % 3) - 55, -40 * (c \div 3) - 35)
    \o (IF figure = "O"
        THEN MoveToRel(15, 0) \o DrawCircle(90) \o MoveToRel(-15, 0)
        ELSE DrawX(100))
    \o MoveTo(0, 20) \o On(NoCell)
-----------------------------------------------------------------------------
(* The pen, in half steps: one step of one motor moves it by half a step     *)
(* along both axes.                                                          *)

X(m) == m[1] + m[2]
Y(m) == m[1] - m[2]

\* Where the pen really is, less where the program believes it to be.
Offset == <<X(motor) - 2 * pos[1], Y(motor) - 2 * pos[2]>>

NoInk == [left |-> 1, right |-> 0, low |-> 1, high |-> 0]
Inked(b) == b.left <= b.right
Least(a, b) == IF a < b THEN a ELSE b
Most(a, b)  == IF a > b THEN a ELSE b
Spot(m) == [left |-> X(m), right |-> X(m), low |-> Y(m), high |-> Y(m)]
Hull(a, b) == IF ~Inked(a) THEN b ELSE
    [left |-> Least(a.left, b.left), right |-> Most(a.right, b.right),
     low |-> Least(a.low, b.low),    high |-> Most(a.high, b.high)]

CleanSheet == [c \in Cells |-> NoInk]

Init ==
    /\ motor = <<0, 0>> /\ pos = <<0, 0>> /\ pen = "up"
    /\ todo = <<>> /\ game = CleanBoard
    /\ ink = CleanSheet /\ cell = NoCell /\ origin = <<0, 0>> /\ disturbed = FALSE
    /\ boards = 0 /\ events = 0

\* Both motors turn; with the pen down they leave ink on the square being drawn.
Turn(one, two) ==
    LET there == <<motor[1] + one, motor[2] + two>> IN
    /\ motor' = there
    /\ ink' = IF pen = "down" /\ cell \in Cells
              THEN [ink EXCEPT ![cell] = Hull(Hull(@, Spot(motor)), Spot(there))]
              ELSE ink

\* moveTo turns the motors by what posX and posY say is missing.
TurnToX(x) == LET n == x - pos[1] IN Turn(n, n)  /\ pos' = <<x, pos[2]>>
TurnToY(y) == LET n == y - pos[2] IN Turn(n, -n) /\ pos' = <<pos[1], y>>
-----------------------------------------------------------------------------
(* The steps of a command.                                                   *)

Doing(op) == todo # <<>> /\ Head(todo).op = op
Done == todo' = Tail(todo)
Kept == UNCHANGED <<game, origin, disturbed, counts>>

StepToY == Doing("toY") /\ TurnToY(MmToStep(Head(todo).mm)) /\ Done
           /\ UNCHANGED <<pen, cell>> /\ Kept

StepToX == Doing("toX") /\ TurnToX(MmToStep(Head(todo).mm)) /\ Done
           /\ UNCHANGED <<pen, cell>> /\ Kept

StepTurn == Doing("turn") /\ Turn(Head(todo).one, Head(todo).two) /\ Done
            /\ UNCHANGED <<pos, pen, cell>> /\ Kept

\* moveToRel goes through millimetres and back: it may not move by its argument.
StepRel ==
    /\ Doing("rel")
    /\ LET go == Head(todo) IN
         todo' = MoveTo(StepToMm(pos[1] + MmToStep(go.x)),
                        StepToMm(pos[2] + MmToStep(go.y))) \o Tail(todo)
    /\ UNCHANGED <<penVars, ink, cell>> /\ Kept

StepPen == Doing("pen") /\ pen' = Head(todo).to /\ Done
           /\ UNCHANGED <<motor, pos, ink, cell>> /\ Kept

StepOn == Doing("on") /\ cell' = Head(todo).cell /\ Done
          /\ UNCHANGED <<penVars, ink>> /\ Kept

Step == StepToY \/ StepToX \/ StepTurn \/ StepRel \/ StepPen \/ StepOn
-----------------------------------------------------------------------------
(* The commands.                                                             *)

Idle == todo = <<>>
AtRest == UNCHANGED <<penVars, cell>>

\* 'D': a figure, in the middle of the sheet.
Figure ==
    /\ Idle /\ events < MaxEvents
    /\ \E f \in Figures : todo' = ShowFigure(f)
    /\ events' = events + 1 /\ disturbed' = TRUE
    /\ AtRest /\ UNCHANGED <<game, ink, origin, boards>>

\* modeTATETI 'T': a board on a new sheet, and the robot's first X.
Board_T ==
    /\ Idle /\ boards < MaxBoards
    /\ game' = StartGame
    /\ todo' = DrawBoard \o DrawInBoard("X", 4)
    /\ ink' = CleanSheet /\ origin' = Offset /\ disturbed' = FALSE
    /\ boards' = boards + 1
    /\ AtRest /\ UNCHANGED events

\* The moves of the game the robot remembers: none before 'T' and after a
\* restart, 'L' or the end of the game.
Playable ==
    IF game.turn > 0 /\ ~Decided(game.board) THEN Free(game.board) ELSE {}

\* modeTATETI 'D': whatever the square, with no test of it or of the game, the O,
\* and the X that answers it unless jugarTATETI has no move.
Board_D == Idle /\ \E c \in Cells :
    LET r == JugarTATETI(game, c) IN
    /\ game' = r.game
    /\ todo' = DrawInBoard("O", c)
               \o (IF r.next \in Cells THEN DrawInBoard("X", r.next) ELSE <<>>)
    /\ IF c \in Playable
       THEN UNCHANGED <<disturbed, events>>
       ELSE events < MaxEvents /\ events' = events + 1 /\ disturbed' = TRUE
    /\ AtRest /\ UNCHANGED <<ink, origin, boards>>

\* modeTATETI 'L': home, and the game is forgotten.
Board_L ==
    /\ Idle
    /\ game' = CleanBoard
    /\ todo' = MoveTo(0, 0)
    /\ AtRest /\ UNCHANGED <<sheetVars, counts>>

\* readTECandMove: ten steps per round of the loop of the key held down.
Jog ==
    /\ Idle /\ events < MaxEvents
    /\ \E go \in {<<-10, -10>>, <<10, -10>>, <<-10, 10>>, <<10, 10>>} : Turn(go[1], go[2])
    /\ events' = events + 1 /\ disturbed' = TRUE
    /\ UNCHANGED <<pos, pen, todo, game, cell, origin, boards>>

\* Mutants of Reset: the globals of the game survive the restart; the servo is
\* not driven any more.
ResetGameSurvives ==
    /\ events < MaxEvents
    /\ pos' = <<0, 0>> /\ pen' = "up"
    /\ todo' = <<>> /\ cell' = NoCell
    /\ events' = events + 1
    /\ UNCHANGED <<motor, game, sheetVars, boards>>

ResetPenLoose ==
    /\ events < MaxEvents
    /\ pos' = <<0, 0>> /\ pen' = "loose"
    /\ todo' = <<>> /\ game' = CleanBoard /\ cell' = NoCell
    /\ events' = events + 1
    /\ UNCHANGED <<motor, sheetVars, boards>>

\* The EDU-CIAA restarts, in the middle of a drawing or not: printerInit takes
\* the place where the pen is for home and lifts it.
Reset ==
    /\ events < MaxEvents
    /\ pos' = <<0, 0>> /\ pen' = "up"
    /\ todo' = <<>> /\ game' = CleanBoard /\ cell' = NoCell
    /\ events' = events + 1
    /\ UNCHANGED <<motor, sheetVars, boards>>

Next == Step \/ Figure \/ Board_T \/ Board_D \/ Board_L \/ Jog \/ Reset

Spec == Init /\ [][Next]_vars
-----------------------------------------------------------------------------
Boxes == [left : Int, right : Int, low : Int, high : Int]

TypeOK ==
    /\ motor \in Int \X Int /\ pos \in Int \X Int /\ pen \in {"up", "down"}
    /\ \A i \in 1..Len(todo) : todo[i].op \in {"toX", "toY", "turn", "rel", "pen", "on"}
    /\ game \in Games
    /\ ink \in [Cells -> Boxes] /\ cell \in Cells \cup {NoCell}
    /\ origin \in Int \X Int /\ disturbed \in BOOLEAN
    /\ boards \in 0..MaxBoards /\ events \in 0..MaxEvents

\* "Variables globales para almacenar la posición actual en los ejes X e Y"
\* (PruebaMotores.c:55): between two commands, posX and posY are where the pen is.
PositionIsReal == Idle => Offset = <<0, 0>>

\* The squares of the board in half steps, from the (0, 0) of the board; and
\* the square c on the sheet.
Squares == [c \in Cells |->
    LET x == 40 * (c % 3) - 60    y == -40 * (c \div 3) IN
    [left |-> 2 * MmToStep(x),    right |-> 2 * MmToStep(x + 40),
     low |-> 2 * MmToStep(y - 40), high |-> 2 * MmToStep(y)]]

Square(c) ==
    LET s == Squares[c] IN
    [left |-> origin[1] + s.left, right |-> origin[1] + s.right,
     low |-> origin[2] + s.low,   high |-> origin[2] + s.high]

Inside(a, b) == a.left >= b.left /\ a.right <= b.right /\ a.low >= b.low /\ a.high <= b.high
Centre(b) == LET x == (b.left + b.right) \div 2    y == (b.low + b.high) \div 2
             IN  [left |-> x, right |-> x, low |-> y, high |-> y]
Apart(a, b) == a.right < b.left \/ b.right < a.left \/ a.high < b.low \/ b.high < a.low

\* The sheet can be read: the drift of a whole game, and of the boards, figures
\* and restarts before it, leaves the ink of a move centred in the square it was
\* meant for and apart from the ink of every other.  A restart during the game
\* keeps that only until the next 'D', which the robot, who has forgotten the
\* game and where the pen is, draws from a displaced origin and on any square.
MarksReadable ==
    ~disturbed => \A c \in Cells : Inked(ink[c]) =>
        /\ Inside(Centre(ink[c]), Square(c))
        /\ \A d \in 0..(c - 1) : Inked(ink[d]) => Apart(ink[c], ink[d])

\* The first two X of a game, and the O between them, stay within the lines (the
\* third X no longer does), as long as nothing but the moves of the game is drawn.
EarlyMarksInside ==
    ~disturbed /\ game.turn \in 1..3 =>
        \A c \in Cells : Inked(ink[c]) => Inside(ink[c], Square(c))
=============================================================================
