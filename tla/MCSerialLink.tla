----------------------------- MODULE MCSerialLink -----------------------------
(* The instance of SerialLink: a FIFO that fits the short frame whole and       *)
(* overruns in the middle of the long one, and a buffer of a frame.            *)
EXTENDS SerialLink

=============================================================================
