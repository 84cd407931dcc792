------------------------------- MODULE MCPenHead -------------------------------
(* Model checking of PenHead: one turn as moveX asks for, one as moveY does and *)
(* one as moveDiagonal does.                                                    *)
EXTENDS PenHead, TLC

SomeTurns == {<<TRUE, TRUE>>, <<FALSE, TRUE>>, 2 :> FALSE}
=============================================================================
