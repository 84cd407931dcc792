----------------------------- MODULE TatetiEngine -----------------------------
(***************************************************************************)
(* The robot's player, TATETI.c, as operators over the record that holds    *)
(* its three globals: board, the log moves[10] and the index turn.          *)
(***************************************************************************)
EXTENDS Board

Games == [board : [Cells -> Marks \cup {"E"}],
          moves : [0..9 -> Cells \cup {NoCell}],
          turn  : Nat]

\* cleanBoard: every element of board and moves is 'E', turn is 0.  It is also
\* the content of the globals at reset.
CleanBoard == [board |-> Blank, moves |-> [i \in 0..9 |-> NoCell], turn |-> 0]

\* Mutant of SetMove: turn is incremented before the log is written.
SetMoveTurnFirst(g, move, player) ==
    IF move \in Cells
    THEN [board |-> [g.board EXCEPT ![move] = player],
          moves |-> [g.moves EXCEPT ![g.turn + 1] = move],
          turn  |-> g.turn + 1]
    ELSE g

\* setMove: a move outside '0'..'8' is ignored.  The log is written at index
\* turn with no test of it: in a legal game turn stays below 10, and LogInBounds
\* of module Session says what it takes to pass the end of moves[10], where the
\* code overwrites whatever follows and this operator leaves the log as it is.
SetMove(g, move, player) ==
    IF move \in Cells
    THEN [board |-> [g.board EXCEPT ![move] = player],
          moves |-> [g.moves EXCEPT ![g.turn] = move],
          turn  |-> g.turn + 1]
    ELSE g

\* startGame: a clean board on which the robot has taken the centre.
StartGame == SetMove(CleanBoard, 4, "X")

\* checkWin: the owner of the first complete line; with no line, a tie once
\* turn has reached 8; "N" stands for the 0 of a game that goes on.
FirstLine(b) ==
    CHOOSE l \in 1..8 : /\ \E p \in Marks : Complete(b, l, p)
                        /\ \A k \in 1..(l - 1), p \in Marks : ~Complete(b, k, p)

\* Mutants of CheckWin: the test that the line is not empty is missing; the tie
\* is declared two turns early.
CheckWinEmptyLine(g) ==
    LET marks == Marks \cup {"E"} IN
    IF \E p \in marks : HasLine(g.board, p)
    THEN CHOOSE p \in marks : HasLine(g.board, p)
    ELSE IF g.turn >= 8 THEN "T" ELSE "N"

CheckWinEarlyTie(g) ==
    IF HasLine(g.board, "X") THEN "X" ELSE IF HasLine(g.board, "O") THEN "O"
    ELSE IF g.turn >= 6 THEN "T" ELSE "N"

CheckWin(g) ==
    IF \E p \in Marks : HasLine(g.board, p)
    THEN CHOOSE p \in Marks : Complete(g.board, FirstLine(g.board), p)
    ELSE IF g.turn >= 8 THEN "T" ELSE "N"
-----------------------------------------------------------------------------
(* The strategy tables of jugarTATETI, one per value of turn.  A move for    *)
(* which the C code has no case is NoCell (nextMove stays 'F').              *)

\* turn 2: the answer to the player's first move.
SecondMove == [o \in Cells |-> CASE o \in {0, 1} -> 6 [] o \in {2, 5} -> 0
                                 [] o \in {7, 8} -> 2 [] o \in {6, 3} -> 8
                                 [] OTHER -> NoCell]

\* turn 4: the corner opposite to the robot's second move wins ...
Opposite == [x \in Cells |-> CASE x = 6 -> 2 [] x = 0 -> 8
                               [] x = 2 -> 6 [] x = 8 -> 0 [] OTHER -> NoCell]

\* ... and when the player has taken it, the answer depends on how the game
\* began: <<the robot's second move, the player's first move>>.

\* Mutant of Block: the robot answers 5, not 1, to a player who took 0 and 2.
BlockWrongSide(x, o) == CASE <<x, o>> = <<6, 0>> -> 5 [] <<x, o>> = <<6, 1>> -> 0
                          [] <<x, o>> = <<0, 2>> -> 5 [] <<x, o>> = <<0, 5>> -> 2
                          [] <<x, o>> = <<2, 7>> -> 8 [] <<x, o>> = <<2, 8>> -> 7
                          [] <<x, o>> = <<8, 6>> -> 3 [] <<x, o>> = <<8, 3>> -> 6
                          [] OTHER -> NoCell

Block(x, o) == CASE <<x, o>> = <<6, 0>> -> 1 [] <<x, o>> = <<6, 1>> -> 0
                 [] <<x, o>> = <<0, 2>> -> 5 [] <<x, o>> = <<0, 5>> -> 2
                 [] <<x, o>> = <<2, 7>> -> 8 [] <<x, o>> = <<2, 8>> -> 7
                 [] <<x, o>> = <<8, 6>> -> 3 [] <<x, o>> = <<8, 3>> -> 6
                 [] OTHER -> NoCell

\* turns 6 and 8: the move preferred after the player's first move and the one
\* made when the player has just taken the preferred one.
ThirdMove == [o \in Cells |->
    CASE o = 0 -> <<7, 5>> [] o = 2 -> <<3, 7>> [] o = 8 -> <<1, 3>>
      [] o = 6 -> <<5, 1>> [] o = 1 -> <<3, 8>> [] o = 5 -> <<1, 6>>
      [] o = 7 -> <<5, 0>> [] o = 3 -> <<7, 2>> [] OTHER -> <<NoCell, NoCell>>]

FourthMove == [o \in Cells |->
    CASE o = 0 -> <<3, 8>> [] o = 2 -> <<1, 6>> [] o = 8 -> <<5, 0>>
      [] o = 6 -> <<7, 2>> [] OTHER -> <<NoCell, NoCell>>]

Prefer(pair, last) == IF last # pair[1] THEN pair[1] ELSE pair[2]

\* Mutant of NextMove: turn 8 has no case.
NextMoveNoLast(g) ==
    LET m == g.moves IN
    CASE g.turn = 2 -> SecondMove[m[1]]
      [] g.turn = 4 /\ Opposite[m[2]] # NoCell ->
            IF m[3] # Opposite[m[2]] THEN Opposite[m[2]] ELSE Block(m[2], m[1])
      [] g.turn = 6 -> Prefer(ThirdMove[m[1]], m[5])
      [] OTHER -> NoCell

\* jugarTATETI, the nested switch on turn once the player's move is logged.
NextMove(g) ==
    LET m == g.moves IN
    CASE g.turn = 2 -> SecondMove[m[1]]
      [] g.turn = 4 /\ Opposite[m[2]] # NoCell ->
            IF m[3] # Opposite[m[2]] THEN Opposite[m[2]] ELSE Block(m[2], m[1])
      [] g.turn = 6 -> Prefer(ThirdMove[m[1]], m[5])
      [] g.turn = 8 -> Prefer(FourthMove[m[1]], m[7])
      [] OTHER -> NoCell

\* jugarTATETI(played): the new globals and the move it returns.  With no game
\* started, or a log that does not begin at the centre, it opens a new game and
\* the player's move is not recorded.
JugarTATETI(g, played) ==
    LET logged == SetMove(g, played, "O")
        move   == NextMove(logged)
    IN  IF g.turn = 0 \/ logged.moves[0] # 4
        THEN [game |-> StartGame, next |-> 4]
        ELSE [game |-> SetMove(logged, move, "X"), next |-> move]
=============================================================================
