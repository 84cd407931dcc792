-------------------------------- MODULE Board --------------------------------
(***************************************************************************)
(* The 3x3 board of ta-te-ti, shared by the robot's player (TATETI.c), by   *)
(* the abstract game and by the web page.  Cell m stands for the C element  *)
(* board[m % 3][m / 3], for the page's tableroActual[m / 3][m % 3] and for  *)
(* the digit '0' + m that travels over the serial line.                     *)
(***************************************************************************)
EXTENDS Integers

Cells  == 0..8
NoCell == 9             \* the letters 'E' of moves[] and 'F' of nextMove
Marks  == {"X", "O"}    \* the robot draws X, the player O

Blank == [c \in Cells |-> "E"]

\* The eight lines, in the order in which checkWin looks at them: for each i
\* the column board[i][0..2] and the row board[0..2][i], then the diagonals.
Lines == << {0, 3, 6}, {0, 1, 2}, {1, 4, 7}, {3, 4, 5},
            {2, 5, 8}, {6, 7, 8}, {0, 4, 8}, {2, 4, 6} >>

Complete(b, l, p) == \A c \in Lines[l] : b[c] = p
HasLine(b, p)     == \E l \in 1..8 : Complete(b, l, p)
Free(b)           == {c \in Cells : b[c] = "E"}
Decided(b)        == HasLine(b, "X") \/ HasLine(b, "O") \/ Free(b) = {}
=============================================================================
