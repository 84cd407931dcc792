------------------------------ MODULE MCPlotter ------------------------------
(* Model checking of Plotter.                                                 *)
EXTENDS Plotter
=============================================================================
