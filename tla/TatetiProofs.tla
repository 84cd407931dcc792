----------------------------- MODULE TatetiProofs -----------------------------
(***************************************************************************)
(* Why the tables of jugarTATETI are right: the log of every legal game      *)
(* follows one of eight lines of play, one for each first move of the player; *)
(* a player who leaves the line loses at once.                               *)
(***************************************************************************)
EXTENDS Tateti, TLAPS

-----------------------------------------------------------------------------
(* The board and its log.                                                      *)

Owner(k) == IF k % 2 = 0 THEN "X" ELSE "O"

(* What setMove keeps: the marks of the board are those of the log.            *)
Logged(g) ==
    /\ g \in Games /\ g.turn \in 0..9
    /\ \A k \in 0..9 : (g.moves[k] \in Cells) <=> (k < g.turn)
    /\ \A k \in 0..9 : k < g.turn => g.board[g.moves[k]] = Owner(k)
    /\ \A j, k \in 0..9 : j < g.turn /\ k < g.turn /\ j # k => g.moves[j] # g.moves[k]
    /\ \A c \in Cells : g.board[c] # "E" =>
          \E k \in 0..9 : k < g.turn /\ g.moves[k] = c

(* setMove on a free square by the player whose turn it is.                    *)
LEMMA SetMoveLogs ==
    ASSUME NEW g, Logged(g), g.turn \in 0..8, NEW c \in Cells, g.board[c] = "E"
    PROVE  /\ Logged(SetMove(g, c, Owner(g.turn)))
           /\ SetMove(g, c, Owner(g.turn)).turn = g.turn + 1
           /\ SetMove(g, c, Owner(g.turn)).moves = [g.moves EXCEPT ![g.turn] = c]
           /\ SetMove(g, c, Owner(g.turn)).board = [g.board EXCEPT ![c] = Owner(g.turn)]
<1> DEFINE p == Owner(g.turn)
           n == SetMove(g, c, p)
           t == g.turn
<1>1. p \in Marks
  BY DEF Owner, Marks
<1> HIDE DEF p
<1>2. n = [board |-> [g.board EXCEPT ![c] = p], moves |-> [g.moves EXCEPT ![t] = c],
           turn |-> t + 1]
  BY DEF SetMove
<1>3. /\ g.board \in [Cells -> Marks \cup {"E"}]
      /\ g.moves \in [0..9 -> Cells \cup {NoCell}] /\ t \in 0..8
  BY DEF Logged, Games
<1> HIDE DEF n
<1>4. n \in Games /\ n.turn \in 0..9
  BY <1>1, <1>2, <1>3 DEF Games
<1>5. \A k \in 0..9 : (n.moves[k] \in Cells) <=> (k < n.turn)
  <2> TAKE k \in 0..9
  <2>1. CASE k = t
    BY <1>2, <1>3, <2>1
  <2>2. CASE k # t
    <3>1. n.moves[k] = g.moves[k]  BY <1>2, <1>3, <2>2
    <3>2. k < n.turn <=> k < t  BY <1>2, <1>3, <2>2
    <3> QED  BY <3>1, <3>2 DEF Logged
  <2> QED  BY <2>1, <2>2
<1>6. \A k \in 0..9 : k < t => g.moves[k] # c /\ g.moves[k] \in Cells
  <2> TAKE k \in 0..9
  <2>1. k < t => Owner(k) # "E"  BY DEF Owner
  <2> QED  BY <2>1 DEF Logged
<1>7. \A k \in 0..9 : k < n.turn => n.board[n.moves[k]] = Owner(k)
  <2> TAKE k \in 0..9
  <2>1. CASE k = t
    BY <1>2, <1>3, <2>1 DEF p
  <2>2. CASE k < t
    <3>1. n.moves[k] = g.moves[k]  BY <1>2, <1>3, <2>2
    <3>2. n.board[n.moves[k]] = g.board[g.moves[k]]  BY <1>2, <1>3, <1>6, <2>2, <3>1
    <3> QED  BY <2>2, <3>2 DEF Logged
  <2> QED  BY <1>2, <1>3, <2>1, <2>2
<1>8. \A j, k \in 0..9 : j < n.turn /\ k < n.turn /\ j # k => n.moves[j] # n.moves[k]
  <2> TAKE j, k \in 0..9
  <2> HAVE j < n.turn /\ k < n.turn /\ j # k
  <2>1. (j = t \/ j < t) /\ (k = t \/ k < t)  BY <1>2, <1>3
  <2>2. \A l \in 0..9 : l < t => n.moves[l] = g.moves[l]  BY <1>2, <1>3
  <2>3. n.moves[t] = c  BY <1>2, <1>3
  <2>4. CASE j < t /\ k < t
    BY <2>2, <2>4 DEF Logged
  <2>5. CASE j = t \/ k = t
    BY <1>6, <2>1, <2>2, <2>3, <2>5
  <2> QED  BY <2>1, <2>4, <2>5
<1>9. \A d \in Cells : n.board[d] # "E" => \E k \in 0..9 : k < n.turn /\ n.moves[k] = d
  <2> TAKE d \in Cells
  <2> HAVE n.board[d] # "E"
  <2>1. CASE d = c
    BY <1>2, <1>3, <2>1
  <2>2. CASE d # c
    <3>1. g.board[d] # "E"  BY <1>2, <1>3, <2>2
    <3>2. PICK k \in 0..9 : k < t /\ g.moves[k] = d  BY <3>1 DEF Logged
    <3> QED  BY <1>2, <1>3, <3>2
  <2> QED  BY <2>1, <2>2
<1>10. Logged(n)
  BY <1>4, <1>5, <1>7, <1>8, <1>9 DEF Logged
<1> QED  BY <1>2, <1>10 DEF n, p

(* A mark of the board is one of the moves made so far.                        *)
LEMMA MarksLogged ==
    ASSUME NEW g, Logged(g), NEW c \in Cells
    PROVE  /\ g.board[c] = "E" <=> \A k \in 0..9 : k < g.turn => g.moves[k] # c
           /\ \A p \in Marks : g.board[c] = p <=>
                 \E k \in 0..9 : k < g.turn /\ g.moves[k] = c /\ Owner(k) = p
BY DEF Logged, Owner, Marks, Games

(* The eight lines, cell by cell.                                              *)
LEMMA LineCells ==
    ASSUME NEW b, NEW p
    PROVE  HasLine(b, p) <=> \/ b[0] = p /\ b[3] = p /\ b[6] = p
                             \/ b[0] = p /\ b[1] = p /\ b[2] = p
                             \/ b[1] = p /\ b[4] = p /\ b[7] = p
                             \/ b[3] = p /\ b[4] = p /\ b[5] = p
                             \/ b[2] = p /\ b[5] = p /\ b[8] = p
                             \/ b[6] = p /\ b[7] = p /\ b[8] = p
                             \/ b[0] = p /\ b[4] = p /\ b[8] = p
                             \/ b[2] = p /\ b[4] = p /\ b[6] = p
<1>1. /\ Lines[1] = {0, 3, 6} /\ Lines[2] = {0, 1, 2} /\ Lines[3] = {1, 4, 7}
      /\ Lines[4] = {3, 4, 5} /\ Lines[5] = {2, 5, 8} /\ Lines[6] = {6, 7, 8}
      /\ Lines[7] = {0, 4, 8} /\ Lines[8] = {2, 4, 6}
  BY DEF Lines
<1>2. HasLine(b, p) <=> \/ Complete(b, 1, p) \/ Complete(b, 2, p) \/ Complete(b, 3, p)
                        \/ Complete(b, 4, p) \/ Complete(b, 5, p) \/ Complete(b, 6, p)
                        \/ Complete(b, 7, p) \/ Complete(b, 8, p)
  BY DEF HasLine
<1>3. /\ Complete(b, 1, p) <=> b[0] = p /\ b[3] = p /\ b[6] = p
      /\ Complete(b, 2, p) <=> b[0] = p /\ b[1] = p /\ b[2] = p
      /\ Complete(b, 3, p) <=> b[1] = p /\ b[4] = p /\ b[7] = p
      /\ Complete(b, 4, p) <=> b[3] = p /\ b[4] = p /\ b[5] = p
      /\ Complete(b, 5, p) <=> b[2] = p /\ b[5] = p /\ b[8] = p
      /\ Complete(b, 6, p) <=> b[6] = p /\ b[7] = p /\ b[8] = p
      /\ Complete(b, 7, p) <=> b[0] = p /\ b[4] = p /\ b[8] = p
      /\ Complete(b, 8, p) <=> b[2] = p /\ b[4] = p /\ b[6] = p
  BY <1>1 DEF Complete
<1> QED  BY <1>2, <1>3

(* checkWin reports the owner of a complete line if there is one.               *)
LEMMA CheckWinFinds ==
    ASSUME NEW g
    PROVE  /\ CheckWin(g) \in Marks \cup {"T", "N"}
           /\ (\E p \in Marks : HasLine(g.board, p)) =>
                 CheckWin(g) \in Marks /\ HasLine(g.board, CheckWin(g))
           /\ ~(\E p \in Marks : HasLine(g.board, p)) =>
                 CheckWin(g) = IF g.turn >= 8 THEN "T" ELSE "N"
<1> DEFINE b == g.board
           Owned(l) == \E p \in Marks : Complete(b, l, p)
<1>1. CASE \E p \in Marks : HasLine(b, p)
  <2>1. \E l \in {1, 2, 3, 4, 5, 6, 7, 8} : Owned(l)
    BY <1>1 DEF HasLine
  <2> HIDE DEF Owned
  <2>2. \E l \in {1, 2, 3, 4, 5, 6, 7, 8} : Owned(l) /\ \A k \in 1..(l - 1) : ~Owned(k)
    BY <2>1
  <2>3. \E l \in 1..8 : Owned(l) /\ \A k \in 1..(l - 1), p \in Marks : ~Complete(b, k, p)
    BY <2>2 DEF Owned
  <2>4. FirstLine(b) \in 1..8 /\ Owned(FirstLine(b))
    BY <2>3 DEF FirstLine, Owned
  <2> DEFINE w == CHOOSE p \in Marks : Complete(b, FirstLine(b), p)
  <2>5. w \in Marks /\ Complete(b, FirstLine(b), w)
    BY <2>4 DEF Owned
  <2>6. CheckWin(g) = w
    BY <1>1 DEF CheckWin
  <2>7. HasLine(b, w)
    BY <2>4, <2>5 DEF HasLine
  <2> QED  BY <1>1, <2>5, <2>6, <2>7
<1>2. CASE ~ \E p \in Marks : HasLine(b, p)
  BY <1>2 DEF CheckWin
<1> QED  BY <1>1, <1>2
-----------------------------------------------------------------------------
(* The lines of play.                                                          *)

Ring == Cells \ {4}         \* the squares a player can begin with
Corners == {0, 2, 6, 8}

(* The moves after the robot's X on the centre and the player's o, when the       *)
(* player always takes the square that would have completed a line.             *)
Line(o) ==
    CASE o = 0 -> <<6, 2, 1, 7, 5, 3, 8>> [] o = 2 -> <<0, 8, 5, 3, 7, 1, 6>>
      [] o = 8 -> <<2, 6, 7, 1, 3, 5, 0>> [] o = 6 -> <<8, 0, 3, 5, 1, 7, 2>>
      [] o = 1 -> <<6, 2, 0, 3, 8>>       [] o = 5 -> <<0, 8, 2, 1, 6>>
      [] o = 7 -> <<2, 6, 8, 5, 0>>       [] o = 3 -> <<8, 0, 6, 7, 2>>

(* The tables of jugarTATETI are these lines.                                   *)
LEMMA Tables ==
    ASSUME NEW o \in Ring
    PROVE  /\ SecondMove[o] = Line(o)[1]
           /\ Opposite[Line(o)[1]] = Line(o)[2]
           /\ Block(Line(o)[1], o) = Line(o)[3]
           /\ ThirdMove[o] = <<Line(o)[4], Line(o)[5]>>
           /\ o \in Corners => FourthMove[o] = <<Line(o)[6], Line(o)[7]>>
<1>1. o \in {0, 1, 2, 3, 5, 6, 7, 8}
  BY DEF Ring, Cells
<1>2. CASE o = 0
  BY <1>2 DEF SecondMove, Opposite, Block, ThirdMove, FourthMove, Line, Cells, Corners
<1>3. CASE o = 2
  BY <1>3 DEF SecondMove, Opposite, Block, ThirdMove, FourthMove, Line, Cells, Corners
<1>4. CASE o = 8
  BY <1>4 DEF SecondMove, Opposite, Block, ThirdMove, FourthMove, Line, Cells, Corners
<1>5. CASE o = 6
  BY <1>5 DEF SecondMove, Opposite, Block, ThirdMove, FourthMove, Line, Cells, Corners
<1>6. CASE o = 1
  BY <1>6 DEF SecondMove, Opposite, Block, ThirdMove, FourthMove, Line, Cells, Corners
<1>7. CASE o = 5
  BY <1>7 DEF SecondMove, Opposite, Block, ThirdMove, FourthMove, Line, Cells, Corners
<1>8. CASE o = 7
  BY <1>8 DEF SecondMove, Opposite, Block, ThirdMove, FourthMove, Line, Cells, Corners
<1>9. CASE o = 3
  BY <1>9 DEF SecondMove, Opposite, Block, ThirdMove, FourthMove, Line, Cells, Corners
<1> QED  BY <1>1, <1>2, <1>3, <1>4, <1>5, <1>6, <1>7, <1>8, <1>9

(* The log follows a line of play but for the last move of the player and its     *)
(* answer: a player who leaves the line before has lost.                        *)
Strategy(g) ==
    LET m == g.moves    o == g.moves[1] IN
    /\ g.turn \in {0, 1, 3, 5, 7, 9}
    /\ g.turn >= 1 => m[0] = 4
    /\ g.turn >= 3 => o \in Ring /\ m[2] = Line(o)[1]
    /\ g.turn >= 5 => m[4] = IF m[3] = Line(o)[2] THEN Line(o)[3] ELSE Line(o)[2]
    /\ g.turn >= 7 => m[3] = Line(o)[2] /\ m[6] = Prefer(<<Line(o)[4], Line(o)[5]>>, m[5])
    /\ g.turn >= 9 => /\ o \in Corners /\ m[5] = Line(o)[4]
                      /\ m[8] = Prefer(<<Line(o)[6], Line(o)[7]>>, m[7])

(* The marks of the board, move by move.                                        *)
LEMMA Position ==
    ASSUME NEW g, Logged(g)
    PROVE  LET b == g.board    m == g.moves    t == g.turn IN
           /\ t >= 1 => m[0] \in Cells /\ b[m[0]] = "X"
           /\ t >= 3 => /\ m[1] \in Cells /\ b[m[1]] = "O"
                        /\ m[2] \in Cells /\ b[m[2]] = "X"
           /\ t >= 5 => /\ m[3] \in Cells /\ b[m[3]] = "O"
                        /\ m[4] \in Cells /\ b[m[4]] = "X"
           /\ t >= 7 => /\ m[5] \in Cells /\ b[m[5]] = "O"
                        /\ m[6] \in Cells /\ b[m[6]] = "X"
           /\ t >= 9 => /\ m[7] \in Cells /\ b[m[7]] = "O"
                        /\ m[8] \in Cells /\ b[m[8]] = "X"
           /\ \A c \in Cells : b[c] = "O" =>
                 (c = m[1] /\ t >= 2) \/ (c = m[3] /\ t >= 4)
                 \/ (c = m[5] /\ t >= 6) \/ (c = m[7] /\ t >= 8)
<1>1. \A k \in 0..8 : k < g.turn => g.moves[k] \in Cells /\ g.board[g.moves[k]] = Owner(k)
  BY DEF Logged
<1>2. /\ Owner(0) = "X" /\ Owner(1) = "O" /\ Owner(2) = "X" /\ Owner(3) = "O"
      /\ Owner(4) = "X" /\ Owner(5) = "O" /\ Owner(6) = "X" /\ Owner(7) = "O"
      /\ Owner(8) = "X"
  BY DEF Owner
<1>3. g.turn \in 0..9
  BY DEF Logged
<1>4. ASSUME NEW c \in Cells, g.board[c] = "O"
      PROVE  (c = g.moves[1] /\ g.turn >= 2) \/ (c = g.moves[3] /\ g.turn >= 4)
             \/ (c = g.moves[5] /\ g.turn >= 6) \/ (c = g.moves[7] /\ g.turn >= 8)
  <2>1. PICK k \in 0..9 : k < g.turn /\ g.moves[k] = c
    BY <1>4 DEF Logged
  <2>2. Owner(k) = "O"
    BY <1>4, <2>1 DEF Logged
  <2>3. k \in {1, 3, 5, 7}
    BY <1>2, <1>3, <2>1, <2>2
  <2> QED  BY <1>3, <2>1, <2>3
<1> QED  BY <1>1, <1>2, <1>3, <1>4

(* The O of a player who has kept to a line of play, and one more anywhere that    *)
(* the robot has left: never three in a row.                                    *)
LEMMA NoRow ==
    ASSUME NEW o \in Ring, NEW b, NEW d,
           b[4] = "X", b[Line(o)[1]] = "X", b[Line(o)[3]] = "X",
           \A c \in Cells : b[c] = "O" => c = o \/ c = Line(o)[2] \/ c = d
    PROVE  ~HasLine(b, "O")
<1> DEFINE O(c) == b[c] = "O" => c = o \/ c = Line(o)[2] \/ c = d
<1>1. O(0) /\ O(1) /\ O(2) /\ O(3) /\ O(4) /\ O(5) /\ O(6) /\ O(7) /\ O(8)
  BY DEF Cells
<1>2. o \in {0, 1, 2, 3, 5, 6, 7, 8}
  BY DEF Ring, Cells
<1>3. CASE o = 0
  BY <1>1, <1>3, LineCells DEF Line
<1>4. CASE o = 2
  BY <1>1, <1>4, LineCells DEF Line
<1>5. CASE o = 8
  BY <1>1, <1>5, LineCells DEF Line
<1>6. CASE o = 6
  BY <1>1, <1>6, LineCells DEF Line
<1>7. CASE o = 1
  BY <1>1, <1>7, LineCells DEF Line
<1>8. CASE o = 5
  BY <1>1, <1>8, LineCells DEF Line
<1>9. CASE o = 7
  BY <1>1, <1>9, LineCells DEF Line
<1>10. CASE o = 3
  BY <1>1, <1>10, LineCells DEF Line
<1> QED  BY <1>2, <1>3, <1>4, <1>5, <1>6, <1>7, <1>8, <1>9, <1>10

(* A player who has begun in a corner and kept to the line to its end has had an   *)
(* X put on each of the eight lines.                                            *)
LEMMA AllBlocked ==
    ASSUME NEW o \in Corners, NEW b,
           b[4] = "X", b[Line(o)[1]] = "X", b[Line(o)[3]] = "X", b[Line(o)[5]] = "X"
    PROVE  ~HasLine(b, "O")
<1>1. CASE o = 0
  BY <1>1, LineCells DEF Line
<1>2. CASE o = 2
  BY <1>2, LineCells DEF Line
<1>3. CASE o = 6
  BY <1>3, LineCells DEF Line
<1>4. CASE o = 8
  BY <1>4, LineCells DEF Line
<1> QED  BY <1>1, <1>2, <1>3, <1>4 DEF Corners

(* No player ever completes a line against the tables.                          *)
LEMMA NoLineOfO ==
    ASSUME NEW g, Logged(g), Strategy(g)
    PROVE  ~HasLine(g.board, "O")
<1> DEFINE b == g.board
           m == g.moves
           t == g.turn
           o == m[1]
<1>1. t \in {0, 1, 3, 5, 7, 9}
  BY DEF Strategy
<1>2. CASE t \in {0, 1, 3, 5}
  <2>1. \A c \in Cells : b[c] = "O" => c = m[1] \/ c = m[3]
    BY <1>2, Position
  <2>2. \A c, d, e \in Cells : c # d /\ d # e /\ e # c =>
          ~(b[c] = "O" /\ b[d] = "O" /\ b[e] = "O")
    BY <2>1
  <2>3. \A c \in 0..8 : c \in Cells
    BY DEF Cells
  <2> QED  BY <2>2, <2>3, LineCells
<1>3. CASE t \in {7, 9}
  <2>1. o \in Ring /\ m[2] = Line(o)[1] /\ m[3] = Line(o)[2] /\ m[4] = Line(o)[3]
    BY <1>3 DEF Strategy
  <2>2. b[4] = "X" /\ b[m[2]] = "X" /\ b[m[4]] = "X" /\ b[m[6]] = "X"
    BY <1>3, Position DEF Strategy
  <2>3. CASE t = 7
    <3>1. \A c \in Cells : b[c] = "O" => c = o \/ c = m[3] \/ c = m[5]
      BY <2>3, Position
    <3> QED  BY <2>1, <2>2, <3>1, NoRow
  <2>4. CASE t = 9
    <3>1. o \in Corners /\ m[5] = Line(o)[4] /\ m[6] = Line(o)[5]
      BY <2>4 DEF Strategy, Prefer
    <3> QED  BY <2>1, <2>2, <3>1, AllBlocked
  <2> QED  BY <1>3, <2>3, <2>4
<1> QED  BY <1>1, <1>2, <1>3

(* The squares of a line of play are distinct; those of a corner are all there are. *)
LEMMA LineSquares ==
    ASSUME NEW o \in Ring
    PROVE  LET l == Line(o) IN
           /\ l[1] \in Ring \ {o}
           /\ l[2] \in Ring \ {o, l[1]}
           /\ l[3] \in Ring \ {o, l[1], l[2]}
           /\ l[4] \in Ring \ {o, l[1], l[2], l[3]}
           /\ l[5] \in Ring \ {o, l[1], l[2], l[3], l[4]}
           /\ o \in Corners =>
                 /\ l[6] \in Ring \ {o, l[1], l[2], l[3], l[4], l[5]}
                 /\ l[7] \in Ring \ {o, l[1], l[2], l[3], l[4], l[5], l[6]}
                 /\ Ring = {o, l[1], l[2], l[3], l[4], l[5], l[6], l[7]}
<1>1. o \in {0, 1, 2, 3, 5, 6, 7, 8}
  BY DEF Ring, Cells
<1>2. CASE o = 0
  BY <1>2 DEF Line, Ring, Cells, Corners
<1>3. CASE o = 2
  BY <1>3 DEF Line, Ring, Cells, Corners
<1>4. CASE o = 8
  BY <1>4 DEF Line, Ring, Cells, Corners
<1>5. CASE o = 6
  BY <1>5 DEF Line, Ring, Cells, Corners
<1>6. CASE o = 1
  BY <1>6 DEF Line, Ring, Cells, Corners
<1>7. CASE o = 5
  BY <1>7 DEF Line, Ring, Cells, Corners
<1>8. CASE o = 7
  BY <1>8 DEF Line, Ring, Cells, Corners
<1>9. CASE o = 3
  BY <1>9 DEF Line, Ring, Cells, Corners
<1> QED  BY <1>1, <1>2, <1>3, <1>4, <1>5, <1>6, <1>7, <1>8, <1>9

(* The threats of the robot: three in a row for it when a player leaves the line.  *)
LEMMA Threats ==
    ASSUME NEW o \in Ring, NEW b, b[4] = "X", b[Line(o)[1]] = "X"
    PROVE  /\ b[Line(o)[2]] = "X" => HasLine(b, "X")
           /\ b[Line(o)[3]] = "X" /\ b[Line(o)[4]] = "X" => HasLine(b, "X")
           /\ b[Line(o)[3]] = "X" /\ b[Line(o)[5]] = "X" /\ o \notin Corners
                 => HasLine(b, "X")
<1>1. o \in {0, 1, 2, 3, 5, 6, 7, 8}
  BY DEF Ring, Cells
<1>2. CASE o = 0
  BY <1>2, LineCells DEF Line, Corners
<1>3. CASE o = 2
  BY <1>3, LineCells DEF Line, Corners
<1>4. CASE o = 8
  BY <1>4, LineCells DEF Line, Corners
<1>5. CASE o = 6
  BY <1>5, LineCells DEF Line, Corners
<1>6. CASE o = 1
  BY <1>6, LineCells DEF Line, Corners
<1>7. CASE o = 5
  BY <1>7, LineCells DEF Line, Corners
<1>8. CASE o = 7
  BY <1>8, LineCells DEF Line, Corners
<1>9. CASE o = 3
  BY <1>9, LineCells DEF Line, Corners
<1> QED  BY <1>1, <1>2, <1>3, <1>4, <1>5, <1>6, <1>7, <1>8, <1>9

(* A game that goes on has kept to its line of play.                            *)
LEMMA StillOpen ==
    ASSUME NEW g, Logged(g), Strategy(g), g.turn > 0, ~Decided(g.board)
    PROVE  /\ g.turn \in {1, 3, 5, 7}
           /\ g.turn >= 5 => g.moves[3] = Line(g.moves[1])[2]
           /\ g.turn >= 7 => /\ g.moves[1] \in Corners
                             /\ g.moves[5] = Line(g.moves[1])[4]
<1> DEFINE b == g.board
           m == g.moves
           t == g.turn
           o == m[1]
<1>1. t \in {1, 3, 5, 7, 9} /\ ~HasLine(b, "X")
  BY DEF Strategy, Decided, Logged
<1>2. CASE t \in {1, 3}
  BY <1>2
<1>3. CASE t \in {5, 7}
  <2>1. o \in Ring /\ b[4] = "X" /\ b[Line(o)[1]] = "X" /\ b[m[4]] = "X"
    BY <1>3, Position DEF Strategy
  <2>2. m[3] = Line(o)[2] /\ m[4] = Line(o)[3]
    BY <1>1, <1>3, <2>1, Threats DEF Strategy
  <2>3. CASE t = 7
    <3>1. b[m[6]] = "X" /\ m[6] = Prefer(<<Line(o)[4], Line(o)[5]>>, m[5])
      BY <2>3, Position DEF Strategy
    <3>2. m[5] = Line(o)[4] /\ m[6] = Line(o)[5]
      BY <1>1, <2>1, <2>2, <3>1, Threats DEF Prefer
    <3>3. o \in Corners
      BY <1>1, <2>1, <2>2, <3>1, <3>2, Threats
    <3> QED  BY <2>2, <2>3, <3>2, <3>3
  <2> QED  BY <1>3, <2>2, <2>3
<1>4. CASE t = 9
  <2>1. /\ o \in Corners /\ m[0] = 4 /\ m[2] = Line(o)[1] /\ m[3] = Line(o)[2]
        /\ m[4] = Line(o)[3] /\ m[5] = Line(o)[4] /\ m[6] = Line(o)[5]
        /\ m[8] = IF m[7] # Line(o)[6] THEN Line(o)[6] ELSE Line(o)[7]
    BY <1>4 DEF Strategy, Prefer
  <2>2. o \in Ring
    BY <1>4 DEF Strategy
  <2>3. m[7] \in Ring \ {o, Line(o)[1], Line(o)[2], Line(o)[3], Line(o)[4], Line(o)[5]}
    <3>1. /\ m[7] \in Cells /\ m[7] # m[0] /\ m[7] # m[1] /\ m[7] # m[2] /\ m[7] # m[3]
          /\ m[7] # m[4] /\ m[7] # m[5] /\ m[7] # m[6]
      BY <1>4 DEF Logged
    <3> QED  BY <2>1, <3>1 DEF Ring
  <2>4. \A c \in Cells : \E k \in 0..8 : m[k] = c
    BY <2>1, <2>2, <2>3, LineSquares DEF Ring
  <2>5. \A k \in 0..8 : b[m[k]] # "E"
    <3>1. \A k \in 0..8 : b[m[k]] = Owner(k)
      BY <1>4 DEF Logged
    <3> QED  BY <3>1 DEF Owner
  <2>6. Free(b) = {}
    BY <2>4, <2>5 DEF Free
  <2> QED  BY <2>6 DEF Decided
<1> QED  BY <1>1, <1>2, <1>3, <1>4

(* The robot's answer to a legal move, of a log that has kept to a line of play:  *)
(* a free square, and the line is kept to.                                      *)
LEMMA Answers ==
    ASSUME NEW g, Logged(g), Strategy(g), g.turn > 0, ~Decided(g.board),
           NEW c \in Free(g.board), NEW h, h = SetMove(g, c, "O")
    PROVE  /\ Logged(h) /\ h.moves[0] = 4
           /\ h.turn = g.turn + 1 /\ h.board = [g.board EXCEPT ![c] = "O"]
           /\ NextMove(h) \in Free(h.board)
           /\ Logged(SetMove(h, NextMove(h), "X"))
           /\ Strategy(SetMove(h, NextMove(h), "X"))
           /\ SetMove(h, NextMove(h), "X").turn = g.turn + 2
           /\ SetMove(h, NextMove(h), "X").board = [h.board EXCEPT ![NextMove(h)] = "X"]
<1> DEFINE m == g.moves
           t == g.turn
           o == h.moves[1]
           a == NextMove(h)
           n == SetMove(h, a, "X")
<1>1. /\ t \in {1, 3, 5, 7}
      /\ t >= 5 => m[3] = Line(m[1])[2]
      /\ t >= 7 => m[1] \in Corners /\ m[5] = Line(m[1])[4]
  BY StillOpen
<1>2. c \in Cells /\ g.board[c] = "E"
  BY DEF Free
<1>3. Owner(t) = "O" /\ Owner(t + 1) = "X"
  BY <1>1 DEF Owner
<1>4. /\ Logged(h) /\ h.turn = t + 1
      /\ h.moves = [m EXCEPT ![t] = c] /\ h.board = [g.board EXCEPT ![c] = "O"]
  BY <1>1, <1>2, <1>3, SetMoveLogs
<1>5. m \in [0..9 -> Cells \cup {NoCell}]
  BY DEF Logged, Games
<1>6. \A k \in 0..9 : k < t => h.moves[k] = m[k] /\ m[k] # c
  <2> TAKE k \in 0..9
  <2> HAVE k < t
  <2>1. g.board[m[k]] # "E"  BY DEF Logged, Owner
  <2> QED  BY <1>1, <1>2, <1>4, <1>5, <2>1
<1>7. h.moves[t] = c
  BY <1>1, <1>4, <1>5
<1>8. h.moves[0] = 4 /\ o \in Ring
  <2>1. m[0] = 4 /\ h.moves[0] = 4
    BY <1>1, <1>6 DEF Strategy
  <2>2. CASE t = 1
    BY <1>2, <1>6, <1>7, <2>1, <2>2 DEF Ring
  <2>3. CASE t # 1
    BY <1>1, <1>6, <2>3 DEF Strategy
  <2> QED  BY <2>1, <2>2, <2>3
<1>9. /\ a \in Cells /\ \A k \in 0..9 : k < h.turn => h.moves[k] # a
      /\ t = 1 => a = Line(o)[1]
      /\ t = 3 => a = IF h.moves[3] = Line(o)[2] THEN Line(o)[3] ELSE Line(o)[2]
      /\ t = 5 => a = Prefer(<<Line(o)[4], Line(o)[5]>>, h.moves[5])
      /\ t = 7 => a = Prefer(<<Line(o)[6], Line(o)[7]>>, h.moves[7])
  <2>1. CASE t = 1
    <3>1. a = Line(o)[1]
      BY <1>4, <1>8, <2>1, Tables DEF NextMove
    <3>2. \A k \in 0..9 : k < h.turn => h.moves[k] = 4 \/ h.moves[k] = o
      BY <1>4, <1>8, <2>1
    <3> QED  BY <1>8, <2>1, <3>1, <3>2, LineSquares DEF Ring
  <2>2. CASE t = 3
    <3>1. h.moves[2] = Line(o)[1]
      BY <1>6, <2>2 DEF Strategy
    <3>2. Line(o)[2] # NoCell
      BY <1>8, LineSquares DEF Ring, Cells, NoCell
    <3>3. a = IF h.moves[3] = Line(o)[2] THEN Line(o)[3] ELSE Line(o)[2]
      BY <1>4, <1>8, <2>2, <3>1, <3>2, Tables DEF NextMove
    <3>4. \A k \in 0..9 : k < h.turn =>
            \/ h.moves[k] = 4 \/ h.moves[k] = o \/ h.moves[k] = Line(o)[1]
            \/ h.moves[k] = h.moves[3]
      BY <1>4, <1>8, <2>2, <3>1
    <3> QED  BY <1>8, <2>2, <3>3, <3>4, LineSquares DEF Ring
  <2>3. CASE t = 5
    <3>1. /\ h.moves[2] = Line(o)[1] /\ h.moves[3] = Line(o)[2]
          /\ h.moves[4] = Line(o)[3]
      BY <1>1, <1>6, <2>3 DEF Strategy
    <3>2. a = Prefer(<<Line(o)[4], Line(o)[5]>>, h.moves[5])
      BY <1>4, <1>8, <2>3, Tables DEF NextMove
    <3>3. \A k \in 0..9 : k < h.turn =>
            \/ h.moves[k] = 4 \/ h.moves[k] = o \/ h.moves[k] = Line(o)[1]
            \/ h.moves[k] = Line(o)[2] \/ h.moves[k] = Line(o)[3]
            \/ h.moves[k] = h.moves[5]
      BY <1>4, <1>8, <2>3, <3>1
    <3> QED  BY <1>8, <2>3, <3>2, <3>3, LineSquares DEF Ring, Prefer
  <2>4. CASE t = 7
    <3>1. /\ o \in Corners /\ h.moves[2] = Line(o)[1] /\ h.moves[3] = Line(o)[2]
          /\ h.moves[4] = Line(o)[3] /\ h.moves[5] = Line(o)[4]
          /\ h.moves[6] = Line(o)[5]
      BY <1>1, <1>6, <2>4 DEF Strategy, Prefer
    <3>2. a = Prefer(<<Line(o)[6], Line(o)[7]>>, h.moves[7])
      BY <1>4, <1>8, <2>4, <3>1, Tables DEF NextMove
    <3>3. \A k \in 0..9 : k < h.turn =>
            \/ h.moves[k] = 4 \/ h.moves[k] = o \/ h.moves[k] = Line(o)[1]
            \/ h.moves[k] = Line(o)[2] \/ h.moves[k] = Line(o)[3]
            \/ h.moves[k] = Line(o)[4] \/ h.moves[k] = Line(o)[5]
            \/ h.moves[k] = h.moves[7]
      BY <1>4, <1>8, <2>4, <3>1
    <3> QED  BY <1>8, <2>4, <3>1, <3>2, <3>3, LineSquares DEF Ring, Prefer
  <2> QED  BY <1>1, <2>1, <2>2, <2>3, <2>4
<1>10. h.board[a] = "E"
  BY <1>4, <1>9, MarksLogged
<1>11. /\ Logged(n) /\ n.turn = t + 2
       /\ n.moves = [h.moves EXCEPT ![t + 1] = a]
       /\ n.board = [h.board EXCEPT ![a] = "X"]
  <2>1. h.turn \in 0..8 /\ Owner(h.turn) = "X" /\ h.turn + 1 = t + 2
    BY <1>1, <1>3, <1>4
  <2>2. a \in Cells
    BY <1>9
  <2> HIDE DEF a
  <2>3. /\ Logged(n) /\ n.turn = h.turn + 1
        /\ n.moves = [h.moves EXCEPT ![h.turn] = a]
        /\ n.board = [h.board EXCEPT ![a] = "X"]
    <3>1. n = SetMove(h, a, Owner(h.turn))  BY <2>1
    <3>2. Logged(h) /\ h.board[a] = "E" /\ h.turn \in 0..8
      BY <1>4, <1>10, <2>1
    <3> HIDE DEF n
    <3> QED  BY <2>1, <2>2, <3>1, <3>2, SetMoveLogs
  <2> HIDE DEF n
  <2> QED  BY <1>4, <2>1, <2>3
<1>12. \A k \in 0..9 : k < h.turn => n.moves[k] = h.moves[k]
  BY <1>1, <1>4, <1>5, <1>11
<1>13. n.moves[t + 1] = a
  BY <1>1, <1>4, <1>5, <1>11
<1>14. Strategy(n)
  <2> HIDE DEF n, a
  <2>1. CASE t = 1
    BY <1>4, <1>8, <1>9, <1>11, <1>12, <1>13, <2>1 DEF Strategy
  <2>2. CASE t = 3
    BY <1>4, <1>6, <1>8, <1>9, <1>11, <1>12, <1>13, <2>2 DEF Strategy
  <2>3. CASE t = 5
    BY <1>1, <1>4, <1>6, <1>8, <1>9, <1>11, <1>12, <1>13, <2>3 DEF Strategy
  <2>4. CASE t = 7
    BY <1>1, <1>4, <1>6, <1>8, <1>9, <1>11, <1>12, <1>13, <2>4 DEF Strategy
  <2> QED  BY <1>1, <2>1, <2>2, <2>3, <2>4
<1> QED  BY <1>4, <1>8, <1>9, <1>10, <1>11, <1>14 DEF Free
-----------------------------------------------------------------------------
(* The commands.                                                               *)

(* The sheet bears the marks of the board, and nothing else.                    *)
SameMarks(sheet, b) == \A c \in Cells : sheet[c] = IF b[c] = "E" THEN {} ELSE {b[c]}

GameInv ==
    /\ Logged(game) /\ Strategy(game)
    /\ paper \in [Cells -> SUBSET Marks]
    /\ game.turn > 0 => SameMarks(paper, game.board)
    /\ reply \in Cells \cup {NoCell} /\ (game.turn > 1 => reply \in Cells)
    /\ verdict \in Marks \cup {"T", "N"} /\ (game.turn > 1 => verdict = CheckWin(game))

(* drawInBoard on a square that bears nothing.                                  *)
LEMMA DrawKeepsMarks ==
    ASSUME NEW sheet \in [Cells -> SUBSET Marks], NEW b, b \in [Cells -> Marks \cup {"E"}],
           SameMarks(sheet, b), NEW c \in Free(b), NEW f \in Marks
    PROVE  /\ DrawInBoard(sheet, f, c) \in [Cells -> SUBSET Marks]
           /\ SameMarks(DrawInBoard(sheet, f, c), [b EXCEPT ![c] = f])
BY DEF SameMarks, DrawInBoard, Free, Marks

(* cleanBoard and startGame.                                                    *)
LEMMA Starts ==
    /\ Logged(CleanBoard) /\ Strategy(CleanBoard) /\ CleanBoard.turn = 0
    /\ Logged(StartGame) /\ Strategy(StartGame) /\ StartGame.turn = 1
    /\ CleanBoard.board = Blank /\ StartGame.board = [Blank EXCEPT ![4] = "X"]
<1>1. /\ CleanBoard \in Games /\ CleanBoard.turn = 0 /\ CleanBoard.board = Blank
      /\ CleanBoard.moves = [k \in 0..9 |-> NoCell]
  BY DEF CleanBoard, Games, Blank
<1>2. Logged(CleanBoard)
  BY <1>1 DEF Logged, Blank, Cells, NoCell
<1>3. Strategy(CleanBoard)
  BY <1>1 DEF Strategy
<1>4. 4 \in Cells /\ Owner(0) = "X" /\ CleanBoard.board[4] = "E"
  BY <1>1 DEF Cells, Owner, Blank
<1>5. /\ Logged(StartGame) /\ StartGame.turn = 1
      /\ StartGame.moves = [CleanBoard.moves EXCEPT ![0] = 4]
      /\ StartGame.board = [Blank EXCEPT ![4] = "X"]
  <2>1. StartGame = SetMove(CleanBoard, 4, Owner(CleanBoard.turn))
    BY <1>1, <1>4 DEF StartGame
  <2>2. CleanBoard.turn \in 0..8
    BY <1>1
  <2> QED  BY <1>1, <1>2, <1>4, <2>1, <2>2, SetMoveLogs
<1>6. Strategy(StartGame)
  BY <1>1, <1>5 DEF Strategy
<1> QED  BY <1>1, <1>2, <1>3, <1>5, <1>6

(* What jugarTATETI keeps of the log of any game, legal or not.                   *)
LogTyped(g) == g \in Games /\ \A k \in 0..9 : k < g.turn => g.moves[k] \in Cells

Moves == Cells \cup {NoCell}

(* The tables hold moves or the NoCell of a missing case.                         *)
LEMMA TablesTyped ==
    /\ \A o \in Cells : /\ SecondMove[o] \in Moves /\ Opposite[o] \in Moves
                        /\ ThirdMove[o] \in Moves \X Moves
                        /\ FourthMove[o] \in Moves \X Moves
    /\ \A x, o : Block(x, o) \in Moves
<1>1. ASSUME NEW o \in Cells
      PROVE  /\ SecondMove[o] \in Moves /\ Opposite[o] \in Moves
             /\ ThirdMove[o] \in Moves \X Moves /\ FourthMove[o] \in Moves \X Moves
  <2>1. o \in {0, 1, 2, 3, 4, 5, 6, 7, 8} /\ \A k \in 0..9 : k \in Moves
    BY DEF Cells, Moves, NoCell
  <2>2. SecondMove[o] \in Moves /\ Opposite[o] \in Moves
    BY <2>1 DEF SecondMove, Opposite, Cells, NoCell
  <2>3. ThirdMove[o] \in Moves \X Moves
    BY <2>1 DEF ThirdMove, Cells, NoCell
  <2>4. FourthMove[o] \in Moves \X Moves
    BY <2>1 DEF FourthMove, Cells, NoCell
  <2> QED  BY <2>2, <2>3, <2>4
<1>2. \A x, o : Block(x, o) \in Moves
  <2>1. \A k \in 0..9 : k \in Moves
    BY DEF Cells, Moves, NoCell
  <2> QED  BY <2>1 DEF Block, NoCell
<1> QED  BY <1>1, <1>2

(* An answer is a move or NoCell.                                               *)
LEMMA NextTyped ==
    ASSUME NEW g, LogTyped(g)
    PROVE  NextMove(g) \in Moves
<1> DEFINE m == g.moves
<1>1. \A k \in 0..9 : k < g.turn => m[k] \in Cells
  BY DEF LogTyped
<1>2. g.turn \in Nat
  BY DEF LogTyped, Games
<1>3. CASE g.turn = 2
  BY <1>1, <1>3, TablesTyped DEF NextMove
<1>4. CASE g.turn = 4
  <2>1. m[2] \in Cells
    BY <1>1, <1>4
  <2>2. CASE Opposite[m[2]] # NoCell
    BY <1>4, <2>1, <2>2, TablesTyped DEF NextMove
  <2>3. CASE Opposite[m[2]] = NoCell
    BY <1>4, <2>3 DEF NextMove, Moves
  <2> QED  BY <2>2, <2>3
<1>5. CASE g.turn = 6
  <2>1. m[1] \in Cells
    BY <1>1, <1>5
  <2> QED  BY <1>5, <2>1, TablesTyped DEF NextMove, Prefer
<1>6. CASE g.turn = 8
  <2>1. m[1] \in Cells
    BY <1>1, <1>6
  <2> QED  BY <1>6, <2>1, TablesTyped DEF NextMove, Prefer
<1>7. CASE g.turn \notin {2, 4, 6, 8}
  BY <1>7 DEF NextMove, Moves
<1> QED  BY <1>3, <1>4, <1>5, <1>6, <1>7

(* setMove writes the log at turn, or nowhere once turn has run past its end.      *)
LEMMA SetMoveTyped ==
    ASSUME NEW g, LogTyped(g), NEW move \in Moves, NEW player \in Marks
    PROVE  LogTyped(SetMove(g, move, player))
<1> DEFINE n == SetMove(g, move, player)
<1>1. CASE move \notin Cells
  BY <1>1 DEF SetMove
<1>2. CASE move \in Cells
  <2>1. n = [board |-> [g.board EXCEPT ![move] = player],
             moves |-> [g.moves EXCEPT ![g.turn] = move], turn |-> g.turn + 1]
    BY <1>2 DEF SetMove
  <2>2. /\ g.board \in [Cells -> Marks \cup {"E"}] /\ g.moves \in [0..9 -> Cells \cup {NoCell}]
        /\ g.turn \in Nat
    BY DEF LogTyped, Games
  <2> HIDE DEF n
  <2>3. n \in Games
    <3>1. [g.board EXCEPT ![move] = player] \in [Cells -> Marks \cup {"E"}]
      BY <2>2
    <3>2. [g.moves EXCEPT ![g.turn] = move] \in [0..9 -> Cells \cup {NoCell}]
      BY <1>2, <2>2
    <3> QED  BY <2>1, <2>2, <3>1, <3>2 DEF Games
  <2>4. \A k \in 0..9 : k < n.turn => n.moves[k] \in Cells
    <3> TAKE k \in 0..9
    <3>1. CASE k = g.turn
      BY <1>2, <2>1, <2>2, <3>1
    <3>2. CASE k # g.turn
      <4>1. n.moves[k] = g.moves[k] /\ (k < n.turn => k < g.turn)
        BY <2>1, <2>2, <3>2
      <4> QED  BY <4>1 DEF LogTyped
    <3> QED  BY <3>1, <3>2
  <2>5. LogTyped(n)
    BY <2>3, <2>4 DEF LogTyped
  <2> QED  BY <2>5 DEF n
<1> QED  BY <1>1, <1>2

(* A move of the player, legal or not, and the answer to it.                      *)
LEMMA JugarTyped ==
    ASSUME NEW g, LogTyped(g), NEW c \in Cells
    PROVE  /\ LogTyped(JugarTATETI(g, c).game)
           /\ JugarTATETI(g, c).next \in Moves
<1> DEFINE h == SetMove(g, c, "O")
           n == SetMove(h, NextMove(h), "X")
<1>1. LogTyped(h) /\ NextMove(h) \in Moves /\ LogTyped(n)
  <2>1. c \in Moves /\ "O" \in Marks /\ "X" \in Marks
    BY DEF Moves, Marks
  <2> QED  BY <2>1, SetMoveTyped, NextTyped
<1>2. LogTyped(StartGame) /\ 4 \in Moves
  BY Starts DEF LogTyped, Logged, Moves, Cells
<1>3. \/ JugarTATETI(g, c) = [game |-> StartGame, next |-> 4]
      \/ JugarTATETI(g, c) = [game |-> n, next |-> NextMove(h)]
  BY DEF JugarTATETI
<1> HIDE DEF n, h
<1> QED  BY <1>1, <1>2, <1>3

(* Before the first command.                                                    *)
LEMMA GameInit == Init => GameInv
BY Starts DEF Init, GameInv, CleanSheet, Marks

(* A legal move of the player, drawn on the sheet, and the robot's answer to it.  *)
LEMMA AnswerKeeps ==
    ASSUME GameInv, NEW c \in Playable, NEW sheet,
           sheet = DrawInBoard(paper, "O", c), PlayRobot(sheet, c)
    PROVE  /\ GameInv'
           /\ LET played == [game.board EXCEPT ![c] = "O"] IN
              /\ c \in Free(game.board) /\ ~Decided(game.board) /\ game.turn > 0
              /\ reply' \in Free(played)
              /\ game'.board = [played EXCEPT ![reply'] = "X"]
<1> DEFINE h == SetMove(game, c, "O")
           a == NextMove(h)
           n == SetMove(h, a, "X")
<1>1. c \in Free(game.board) /\ ~Decided(game.board) /\ game.turn > 0
  BY DEF Playable
<1>2. /\ Logged(h) /\ h.moves[0] = 4
      /\ h.turn = game.turn + 1 /\ h.board = [game.board EXCEPT ![c] = "O"]
      /\ a \in Free(h.board)
      /\ Logged(n) /\ Strategy(n) /\ n.turn = game.turn + 2
      /\ n.board = [h.board EXCEPT ![a] = "X"]
  BY <1>1, Answers DEF GameInv
<1>3. JugarTATETI(game, c) = [game |-> n, next |-> a]
  BY <1>1, <1>2 DEF JugarTATETI
<1> HIDE DEF n, a, h
<1>4. a \in Cells
  BY <1>2 DEF Free
<1>5. /\ game' = n /\ reply' = a /\ paper' = DrawInBoard(sheet, "X", a)
      /\ verdict' = CheckWin(n)
  BY <1>3, <1>4 DEF PlayRobot
<1>6. /\ game.board \in [Cells -> Marks \cup {"E"}] /\ h.board \in [Cells -> Marks \cup {"E"}]
      /\ game.turn \in 0..9
  BY <1>2 DEF GameInv, Logged, Games
<1>7. "O" \in Marks /\ "X" \in Marks
  BY DEF Marks
<1>8. sheet \in [Cells -> SUBSET Marks] /\ SameMarks(sheet, h.board)
  <2>1. paper \in [Cells -> SUBSET Marks] /\ SameMarks(paper, game.board)
    BY <1>1 DEF GameInv
  <2> QED  BY <1>1, <1>2, <1>6, <1>7, <2>1, DrawKeepsMarks
<1>9. paper' \in [Cells -> SUBSET Marks] /\ SameMarks(paper', n.board)
  BY <1>2, <1>5, <1>6, <1>7, <1>8, DrawKeepsMarks
<1>10. n.turn > 1
  BY <1>1, <1>2, <1>6
<1>11. GameInv'
  BY <1>2, <1>4, <1>5, <1>9, <1>10, CheckWinFinds DEF GameInv
<1> QED  BY <1>1, <1>2, <1>5, <1>11

(* Every command keeps the invariant.                                           *)
LEMMA GameStep == GameInv /\ [Next]_vars => GameInv'
<1> SUFFICES ASSUME GameInv, [Next]_vars PROVE GameInv'
  OBVIOUS
<1>1. CASE ModeT
  <2>1. Logged(game') /\ Strategy(game') /\ game'.turn = 1
    BY <1>1, Starts DEF ModeT
  <2>2. paper' \in [Cells -> SUBSET Marks] /\ SameMarks(paper', game'.board)
    <3>1. CleanSheet \in [Cells -> SUBSET Marks] /\ SameMarks(CleanSheet, Blank)
      BY DEF CleanSheet, SameMarks, Blank
    <3>2. Blank \in [Cells -> Marks \cup {"E"}] /\ 4 \in Free(Blank) /\ "X" \in Marks
      BY DEF Blank, Free, Cells, Marks
    <3>3. paper' = DrawInBoard(CleanSheet, "X", 4) /\ game'.board = [Blank EXCEPT ![4] = "X"]
      BY <1>1, Starts DEF ModeT
    <3>4. /\ DrawInBoard(CleanSheet, "X", 4) \in [Cells -> SUBSET Marks]
          /\ SameMarks(DrawInBoard(CleanSheet, "X", 4), [Blank EXCEPT ![4] = "X"])
      BY <3>1, <3>2, DrawKeepsMarks
    <3> QED  BY <3>3, <3>4
  <2>3. reply' = 4 /\ verdict' = verdict
    BY <1>1 DEF ModeT
  <2> QED  BY <2>1, <2>2, <2>3 DEF GameInv, Cells
<1>2. CASE ModeD
  BY <1>2, AnswerKeeps DEF ModeD
<1>3. CASE ModeP
  <2>1. PICK c \in Playable : PlayRobot([paper EXCEPT ![c] = @ \cup {"O"}], c)
    BY <1>3 DEF ModeP
  <2>2. c \in Cells
    BY DEF Playable, Free
  <2>3. [paper EXCEPT ![c] = @ \cup {"O"}] = DrawInBoard(paper, "O", c)
    BY <2>2 DEF GameInv, DrawInBoard
  <2> QED  BY <2>1, <2>3, AnswerKeeps
<1>4. CASE ModeL
  BY <1>4, Starts DEF ModeL, GameInv
<1>5. CASE UNCHANGED vars
  BY <1>5 DEF vars, GameInv
<1> QED  BY <1>1, <1>2, <1>3, <1>4, <1>5 DEF Next

(* The invariant holds for as long as the EDU-CIAA runs.                         *)
LEMMA GameHolds == Spec => []GameInv
<1> QED  BY GameInit, GameStep, PTL DEF Spec
-----------------------------------------------------------------------------
(* What the player promises.                                                   *)

(* The globals, the sheet and the answer never leave their types.               *)
THEOREM TatetiTypeCorrect == Spec => []TypeOK
<1>1. GameInv => TypeOK
  BY DEF GameInv, Logged, TypeOK
<1> QED  BY <1>1, GameHolds, PTL

(* setMove writes the board and the log in step: each tells the moves of the       *)
(* other, and no square is played twice.                                        *)
THEOREM LogTellsBoard == Spec => []LogMatchesBoard
<1>1. GameInv => LogMatchesBoard
  BY DEF GameInv, Logged, LogMatchesBoard, Owner
<1> QED  BY <1>1, GameHolds, PTL

(* The tables of jugarTATETI never let a player complete a line.                *)
THEOREM TablesNeverLose == Spec => []RobotNeverLoses
<1>1. GameInv => RobotNeverLoses
  BY NoLineOfO DEF GameInv, RobotNeverLoses
<1> QED  BY <1>1, GameHolds, PTL

(* The pen draws on the sheet what the globals say, and on free squares only.    *)
THEOREM PaperTellsBoard == Spec => []PaperMatchesBoard
<1>1. GameInv => PaperMatchesBoard
  BY DEF GameInv, SameMarks, PaperMatchesBoard
<1> QED  BY <1>1, GameHolds, PTL

(* jugarTATETI has a case for every position of a legal game: nextMove is never    *)
(* left at its 'F'.                                                             *)
THEOREM TablesAnswer == Spec => []AlwaysAnswers
<1>1. GameInv => AlwaysAnswers
  BY DEF GameInv, AlwaysAnswers
<1> QED  BY <1>1, GameHolds, PTL

(* A game is a tie for checkWin once eight moves are made, for the board once it is *)
(* full: at the end of a legal round without a line they are the same.          *)
LEMMA FullBoard ==
    ASSUME NEW g, Logged(g), Strategy(g), ~HasLine(g.board, "X")
    PROVE  g.turn >= 8 <=> Free(g.board) = {}
<1>1. g.turn \in {0, 1, 3, 5, 7, 9}
  BY DEF Strategy
<1>2. ~HasLine(g.board, "O")
  BY NoLineOfO
<1>3. CASE g.turn = 9
  <2>1. Decided(g.board)
    BY <1>3, StillOpen
  <2> QED  BY <1>2, <1>3, <2>1 DEF Decided
<1>4. CASE g.turn < 8
  <2> DEFINE m == g.moves
  <2>1. \E c \in 0..8 : /\ c # m[0] /\ c # m[1] /\ c # m[2] /\ c # m[3]
                        /\ c # m[4] /\ c # m[5] /\ c # m[6]
    OBVIOUS
  <2>2. PICK c \in Cells : \A k \in 0..9 : k < g.turn => m[k] # c
    BY <1>1, <1>4, <2>1 DEF Cells
  <2>3. c \in Free(g.board)
    BY <2>2, MarksLogged DEF Free
  <2> QED  BY <1>1, <1>4, <2>3
<1> QED  BY <1>1, <1>3, <1>4

(* What checkWin finds at the end of a legal round is what the board shows.         *)
LEMMA Verdicts ==
    ASSUME NEW g, Logged(g), Strategy(g)
    PROVE  \/ CheckWin(g) = "X" /\ HasLine(g.board, "X")
           \/ /\ CheckWin(g) = "T" /\ Free(g.board) = {}
              /\ ~HasLine(g.board, "X") /\ ~HasLine(g.board, "O")
           \/ CheckWin(g) = "N" /\ ~Decided(g.board)
<1>1. ~HasLine(g.board, "O")
  BY NoLineOfO
<1>2. CASE HasLine(g.board, "X")
  BY <1>1, <1>2, CheckWinFinds DEF Marks
<1>3. CASE ~HasLine(g.board, "X")
  <2>1. CheckWin(g) = IF g.turn >= 8 THEN "T" ELSE "N"
    BY <1>1, <1>3, CheckWinFinds DEF Marks
  <2>2. Free(g.board) = {} <=> g.turn >= 8
    BY <1>3, FullBoard
  <2> QED  BY <1>1, <1>3, <2>1, <2>2 DEF Decided
<1> QED  BY <1>2, <1>3

(* The robot's opening does not end the game.                                   *)
LEMMA OpeningGoesOn == ~Decided(StartGame.board) /\ CheckWin(StartGame) = "N"
<1>1. /\ Logged(StartGame) /\ Strategy(StartGame)
      /\ StartGame.board = [Blank EXCEPT ![4] = "X"]
  BY Starts
<1>2. \A c \in Cells \ {4} : StartGame.board[c] = "E"
  BY <1>1 DEF Blank
<1>3. 0 \in Free(StartGame.board)
  BY <1>2 DEF Free, Cells
<1>4. ~HasLine(StartGame.board, "X") /\ ~HasLine(StartGame.board, "O")
  <2>1. \A c \in 0..8 : c # 4 => StartGame.board[c] = "E"
    BY <1>2 DEF Cells
  <2> QED  BY <2>1, LineCells
<1>5. ~Decided(StartGame.board)
  BY <1>3, <1>4 DEF Decided
<1> QED  BY <1>1, <1>4, <1>5, Verdicts DEF Decided

(* sendWinner reports what the board shows, a tie included.                     *)
THEOREM VerdictTellsBoard == Spec => []VerdictIsRight
<1>1. GameInv => VerdictIsRight
  <2> SUFFICES ASSUME GameInv, game.turn > 1 PROVE
         /\ \A p \in Marks : verdict = p <=> HasLine(game.board, p)
         /\ verdict = "T" <=> Decided(game.board) /\ ~HasLine(game.board, "X")
                              /\ ~HasLine(game.board, "O")
    BY DEF VerdictIsRight
  <2>1. ~HasLine(game.board, "O") /\ verdict = CheckWin(game)
    BY NoLineOfO DEF GameInv
  <2> QED  BY <2>1, Verdicts DEF GameInv, Decided, Marks
<1> QED  BY <1>1, GameHolds, PTL
-----------------------------------------------------------------------------
(* The commands play the abstract game.                                        *)

(* An X added to a board does not take an O away.                               *)
LEMMA LinesStay ==
    ASSUME NEW b, b \in [Cells -> Marks \cup {"E"}], NEW c \in Free(b),
           HasLine(b, "O")
    PROVE  HasLine([b EXCEPT ![c] = "X"], "O")
<1> DEFINE n == [b EXCEPT ![c] = "X"]
<1>1. \A d \in Cells : b[d] = "O" => n[d] = "O"
  BY DEF Free
<1>2. \A d \in 0..8 : d \in Cells
  BY DEF Cells
<1>3. HasLine(n, "O")
  <2> HIDE DEF n
  <2> QED  BY <1>1, <1>2, LineCells
<1> QED  BY <1>3

(* The answered move of a player is a Round.                                    *)
LEMMA AnswerIsRound ==
    ASSUME GameInv, GameInv', NEW c \in Free(game.board),
           ~Decided(game.board), game.turn > 0,
           reply' \in Free([game.board EXCEPT ![c] = "O"]),
           game'.board = [[game.board EXCEPT ![c] = "O"] EXCEPT ![reply'] = "X"]
    PROVE  Abstract!Round
<1> DEFINE b == game.board
           played == [b EXCEPT ![c] = "O"]
<1>1. /\ b \in [Cells -> Marks \cup {"E"}] /\ c \in Cells
      /\ b[game.moves[0]] = "X" /\ game.moves[0] \in Cells
  <2>1. b \in [Cells -> Marks \cup {"E"}] /\ game.turn \in 0..9 /\ c \in Cells
    BY DEF GameInv, Logged, Games, Free
  <2> QED  BY <2>1, Position DEF GameInv
<1>2. played \in [Cells -> Marks \cup {"E"}]
  BY <1>1 DEF Marks
<1>3. b # Blank
  BY <1>1 DEF Blank
<1>4. ~HasLine(played, "O")
  <2>1. ~HasLine(game'.board, "O")
    BY NoLineOfO DEF GameInv
  <2> HIDE DEF played
  <2> QED  BY <1>2, <2>1, LinesStay DEF played
<1>5. ~HasLine(played, "X")
  <2>1. \A d \in Cells : played[d] = "X" => b[d] = "X"
    BY <1>1
  <2>2. ~HasLine(b, "X") /\ \A d \in 0..8 : d \in Cells
    BY DEF Decided, Cells
  <2> HIDE DEF played
  <2> QED  BY <2>1, <2>2, LineCells
<1>6. ~Decided(played)
  BY <1>4, <1>5 DEF Decided
<1> QED  BY <1>3, <1>6 DEF Abstract!Round, Abstract!Free, Abstract!Decided, Abstract!Blank,
           Abstract!Cells, Abstract!HasLine, Abstract!Complete, Abstract!Lines,
           Free, Decided, Blank, Cells, HasLine, Complete, Lines

(* Whatever the robot does with the board is a step of the abstract game: it opens  *)
(* on any square, a player's legal move is answered on a free one, nobody plays on  *)
(* after the end.                                                               *)
THEOREM PlaysTheGame == Spec => PlaysByTheRules
<1>1. Init => Abstract!Init
  BY Starts DEF Init, Abstract!Init, Abstract!Blank, Abstract!Cells, Blank, Cells
<1>2. GameInv /\ GameInv' /\ [Next]_vars => [Abstract!Next]_(game.board)
  <2> SUFFICES ASSUME GameInv, GameInv', [Next]_vars
               PROVE  Abstract!Next \/ UNCHANGED game.board
    OBVIOUS
  <2>1. CASE ModeT
    <3>1. game'.board = [Blank EXCEPT ![4] = "X"] /\ 4 \in Cells
      BY <2>1, Starts DEF ModeT, Cells
    <3>2. Abstract!Open
      BY <3>1 DEF Abstract!Open, Abstract!Blank, Abstract!Cells, Blank, Cells
    <3> QED  BY <3>2 DEF Abstract!Next
  <2>2. CASE ModeD
    <3>1. PICK c \in Playable : PlayRobot(DrawInBoard(paper, "O", c), c)
      BY <2>2 DEF ModeD
    <3> QED  BY <3>1, AnswerKeeps, AnswerIsRound DEF Abstract!Next
  <2>3. CASE ModeP
    <3>1. PICK c \in Playable : PlayRobot([paper EXCEPT ![c] = @ \cup {"O"}], c)
      BY <2>3 DEF ModeP
    <3>2. c \in Cells
      BY DEF Playable, Free
    <3>3. [paper EXCEPT ![c] = @ \cup {"O"}] = DrawInBoard(paper, "O", c)
      BY <3>2 DEF GameInv, DrawInBoard
    <3> QED  BY <3>1, <3>3, AnswerKeeps, AnswerIsRound DEF Abstract!Next
  <2>4. CASE ModeL
    <3>1. Abstract!Clear
      BY <2>4, Starts DEF ModeL, Abstract!Clear, Abstract!Blank, Abstract!Cells, Blank, Cells
    <3> QED  BY <3>1 DEF Abstract!Next
  <2>5. CASE UNCHANGED vars
    BY <2>5 DEF vars
  <2> QED  BY <2>1, <2>2, <2>3, <2>4, <2>5 DEF Next
<1> QED  BY <1>1, <1>2, GameHolds, PTL DEF Spec, PlaysByTheRules, Abstract!Spec

=============================================================================
