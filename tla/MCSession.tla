------------------------------- MODULE MCSession -------------------------------
(* Instances of Session: the players and the bounds are given by each .cfg.    *)
EXTENDS Session

AllSquares  == Cells
TwoSquares  == {0, 4}

\* Enough for a lost game that the page lets go on until the log is full
\* (0, 2, 3, then 5 and 8).
LongSquares == {0, 2, 3, 5, 8}
=============================================================================
