------------------------------- MODULE MCTateti -------------------------------
(* Model checking of Tateti: the module has no parameters.                   *)
EXTENDS Tateti
=============================================================================
