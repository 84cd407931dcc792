------------------------------ MODULE TicTacToe ------------------------------
(***************************************************************************)
(* What a game against the robot promises, whatever the strategy: the robot *)
(* opens with an X, the player marks a free square with an O, the robot     *)
(* answers on a free square unless the player's mark ended the game, and    *)
(* nobody marks anything once the game is decided.                          *)
(***************************************************************************)
EXTENDS Board

VARIABLE marks      \* the mark, or "E", on each square of the sheet

Init  == marks = Blank

Clear == marks' = Blank

Open  == \E x \in Cells : marks' = [Blank EXCEPT ![x] = "X"]

Round ==
    /\ marks # Blank
    /\ ~Decided(marks)
    /\ \E o \in Free(marks) :
         LET played == [marks EXCEPT ![o] = "O"] IN
         IF Decided(played)
         THEN marks' = played
         ELSE \E x \in Free(played) : marks' = [played EXCEPT ![x] = "X"]

Next == Clear \/ Open \/ Round

Spec == Init /\ [][Next]_marks
=============================================================================
