----------------------------- MODULE MCRecognizer -----------------------------
(* Model checking of Recognizer.                                              *)
EXTENDS Recognizer
=============================================================================
