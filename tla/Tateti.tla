-------------------------------- MODULE Tateti --------------------------------
(***************************************************************************)
(* The robot's side of a game of ta-te-ti: modeTATETI of PruebaMotores.c    *)
(* with the player of TATETI.c, for a player who follows the rules.  Each   *)
(* action is one command of the serial line handled to its end; the sheet   *)
(* of paper is the other record of the game, marked by the pen.             *)
(***************************************************************************)
EXTENDS TatetiEngine

VARIABLES
    game,       \* the globals of TATETI.c
    paper,      \* the figures drawn on each square of the sheet
    reply,      \* the move sent to the ESP32, NoCell for 'F'
    verdict     \* what sendWinner reported: "X" as 'W', "O" as 'L', "T", or "N"

vars == <<game, paper, reply, verdict>>

CleanSheet == [c \in Cells |-> {}]

\* Mutant of DrawInBoard: column and row are swapped.
DrawTransposed(sheet, figure, c) ==
    [d \in Cells |-> IF d = 3 * (c % 3) + (c \div 3)
                     THEN sheet[d] \cup {figure} ELSE sheet[d]]

\* drawInBoard: a mark on the square, none when moveInBoard rejects it.
DrawInBoard(sheet, figure, c) ==
    [d \in Cells |-> IF d = c THEN sheet[d] \cup {figure} ELSE sheet[d]]

Init ==
    /\ game = CleanBoard
    /\ paper = CleanSheet
    /\ reply = NoCell
    /\ verdict = "N"

\* playRobot(played), on the sheet the player's move left behind: the answer is
\* drawn when it is a digit, sent in any case, and the result reported.
PlayRobot(sheet, played) ==
    LET r == JugarTATETI(game, played) IN
    /\ game' = r.game
    /\ reply' = r.next
    /\ paper' = IF r.next \in Cells THEN DrawInBoard(sheet, "X", r.next) ELSE sheet
    /\ verdict' = CheckWin(r.game)

\* The squares on which a player who follows the rules may draw: a game is on,
\* nobody has won it and the square is free.
Playable == IF game.turn > 0 /\ ~Decided(game.board) THEN Free(game.board) ELSE {}

\* Mutant of ModeT: the robot opens without cleaning the board.
ModeTNoClean ==
    /\ game' = SetMove(game, 4, "X")
    /\ paper' = DrawInBoard(CleanSheet, "X", 4)
    /\ reply' = 4
    /\ UNCHANGED verdict

\* 'T': a board is drawn on a new sheet and the robot opens at the centre.
ModeT ==
    /\ game' = StartGame
    /\ paper' = DrawInBoard(CleanSheet, "X", 4)
    /\ reply' = 4
    /\ UNCHANGED verdict

\* 'D': the robot draws the player's O and answers it.
ModeD ==
    \E c \in Playable : PlayRobot(DrawInBoard(paper, "O", c), c)

\* 'P': the player has drawn the O by hand; the robot only answers it.
ModeP ==
    \E c \in Playable :
        LET byHand == [paper EXCEPT ![c] = @ \cup {"O"}] IN PlayRobot(byHand, c)

\* 'L': the pen goes home and the board is forgotten; the sheet stays.
ModeL ==
    /\ game' = CleanBoard
    /\ UNCHANGED <<paper, reply, verdict>>

Next == ModeT \/ ModeD \/ ModeP \/ ModeL

Spec == Init /\ [][Next]_vars
-----------------------------------------------------------------------------
TypeOK ==
    /\ game \in Games
    /\ paper \in [Cells -> SUBSET Marks]
    /\ reply \in Cells \cup {NoCell}
    /\ verdict \in Marks \cup {"T", "N"}

\* The log and the board tell the same game: the move with an even index is the
\* robot's, the others the player's, no square is played twice and every mark
\* of the board is in the log (setMove writes both at once, jugarTATETI reads
\* the log only, checkWin the board only).
LogMatchesBoard ==
    /\ game.turn <= 9
    /\ \A i \in 0..9 : (game.moves[i] \in Cells) <=> (i < game.turn)
    /\ \A i \in 0..9 : i < game.turn =>
          game.board[game.moves[i]] = (IF i % 2 = 0 THEN "X" ELSE "O")
    /\ \A i, j \in 0..9 : i < game.turn /\ j < game.turn /\ i # j =>
          game.moves[i] # game.moves[j]
    /\ \A c \in Cells : game.board[c] # "E" =>
          \E i \in 0..9 : i < game.turn /\ game.moves[i] = c

\* Against the tables of jugarTATETI no player ever completes a line.
RobotNeverLoses == ~HasLine(game.board, "O")

\* While a game is on, what the pen has drawn is what the globals say: one
\* mark, the right one, on each taken square, and nothing on the free ones.
PaperMatchesBoard ==
    game.turn > 0 =>
        \A c \in Cells :
            paper[c] = IF game.board[c] = "E" THEN {} ELSE {game.board[c]}

\* No answer of a legal game is 'F', which the ESP32 would take for the end of
\* a drawing: the tables cover every position the robot can be asked about.
AlwaysAnswers == game.turn > 1 => reply \in Cells

\* sendWinner reports a win exactly when a line is complete and a tie exactly
\* when the board is full without one; checkWin decides the tie by counting
\* turns, not by looking at the board.
VerdictIsRight ==
    game.turn > 1 =>
        /\ \A p \in Marks : verdict = p <=> HasLine(game.board, p)
        /\ verdict = "T" <=> Decided(game.board) /\ ~HasLine(game.board, "X")
                             /\ ~HasLine(game.board, "O")

\* The commands play the abstract game: the robot's moves are always legal.
Abstract == INSTANCE TicTacToe WITH marks <- game.board
PlaysByTheRules == Abstract!Spec
=============================================================================
