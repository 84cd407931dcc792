------------------------------ MODULE CommandLine ------------------------------
(***************************************************************************)
(* What the serial line promises to the two programs at its ends: commands *)
(* are carried out whole, in the order in which they were sent and at most *)
(* once, and any of them may be lost.  It promises so much only until the  *)
(* UART has dropped a byte.  This is the line that module Session uses     *)
(* (its actions Take and Lose); module SerialLink shows that frames, FIFO  *)
(* and receiver make one.                                                  *)
(***************************************************************************)
EXTENDS Integers, Sequences

CONSTANT Commands

VARIABLES
    sent,       \* the commands sent
    done,       \* the places in sent of those carried out
    whole       \* no byte has been dropped

Init == sent = <<>> /\ done = <<>> /\ whole = TRUE

Send(cmd) == sent' = Append(sent, cmd) /\ UNCHANGED <<done, whole>>

\* Command k is carried out; those skipped, between the last one and k, are lost.
Execute(k) ==
    /\ whole
    /\ \A i \in 1..Len(done) : done[i] < k
    /\ done' = Append(done, k)
    /\ UNCHANGED <<sent, whole>>

\* A byte is dropped: from now on nothing is promised, and nothing recorded.
Spoil ==
    /\ whole /\ whole' = FALSE
    /\ done' = <<>>
    /\ UNCHANGED sent

Next ==
    \/ \E cmd \in Commands : Send(cmd)
    \/ \E k \in 1..Len(sent) : Execute(k)
    \/ Spoil

Spec == Init /\ [][Next]_<<sent, done, whole>>
=============================================================================
