------------------------------ MODULE Recognizer ------------------------------
(***************************************************************************)
(* reconocerFigura of MERGE.ino: the camera takes a picture per iteration,  *)
(* a classifier looks at each, and the figure that was the best of the most *)
(* pictures is the one to draw.  Each picture needs a buffer from a heap    *)
(* that lasts for as long as the ESP32 runs, and each early return leaves   *)
(* the function with what it holds.                                         *)
(***************************************************************************)
EXTENDS Integers, Sequences

CONSTANTS
    Iterations,     \* pictures per call: 15, the first of which is discarded
    HeapSize,       \* picture buffers that the memory of the ESP32 holds
    Values,         \* confidences of a bounding box, in tenths
    MaxBoxes,       \* bound: bounding boxes in a picture
    MaxCalls        \* bound: calls of reconocerFigura

ASSUME RecognizerAssumption ==
    /\ Iterations \in Nat \ {0} /\ HeapSize \in Nat
    /\ Values \subseteq 0..10
    /\ MaxBoxes \in Nat /\ MaxCalls \in Nat

Labels == <<"X", "T", "C", "O">>    \* the indices of counts[] and figures[]
Figures == {Labels[k] : k \in 1..4}
Boxes == [label : Figures, value : Values]

VARIABLES
    pc,             \* "idle", or where the loop is: "alloc", "capture", "classify"
    i,              \* the iteration
    counts,         \* how many pictures each figure was the best of
    held,           \* buffers taken from the heap and not given back
    led,            \* the flash of the camera
    figura,         \* what the last call has returned
    calls, failures \* history: calls, and failures of the classifier

vars == <<pc, i, counts, held, led, figura, calls, failures>>

Init ==
    /\ pc = "idle" /\ i = 0 /\ counts = [f \in Figures |-> 0]
    /\ held = 0 /\ led = FALSE /\ figura = "M"
    /\ calls = 0 /\ failures = 0

Return(f) == pc' = "idle" /\ figura' = f

\* "replicar": the call.
Call ==
    /\ pc = "idle" /\ calls < MaxCalls
    /\ pc' = "alloc" /\ i' = 0 /\ counts' = [f \in Figures |-> 0]
    /\ led' = TRUE /\ calls' = calls + 1
    /\ UNCHANGED <<held, figura, failures>>

\* ei_sleep and malloc.  A cancelled wait returns with the flash on.
Alloc ==
    /\ pc = "alloc"
    /\ \/ Return("M") /\ UNCHANGED <<held, led>>
       \/ held >= HeapSize /\ Return("M") /\ led' = FALSE /\ UNCHANGED held
       \/ held < HeapSize /\ held' = held + 1 /\ pc' = "capture" /\ UNCHANGED <<led, figura>>
    /\ UNCHANGED <<i, counts, calls, failures>>

\* Mutants of Capture: the buffer is not freed; it is freed twice.
CaptureLeak ==
    /\ pc = "capture"
    /\ \/ Return("M") /\ led' = FALSE /\ UNCHANGED held
       \/ pc' = "classify" /\ UNCHANGED <<held, led, figura>>
    /\ UNCHANGED <<i, counts, calls, failures>>

CaptureDoubleFree ==
    /\ pc = "capture"
    /\ \/ Return("M") /\ held' = held - 2 /\ led' = FALSE
       \/ pc' = "classify" /\ UNCHANGED <<held, led, figura>>
    /\ UNCHANGED <<i, counts, calls, failures>>

\* ei_camera_capture: without a picture the buffer is freed.
Capture ==
    /\ pc = "capture"
    /\ \/ Return("M") /\ held' = held - 1 /\ led' = FALSE
       \/ pc' = "classify" /\ UNCHANGED <<held, led, figura>>
    /\ UNCHANGED <<i, counts, calls, failures>>

\* run_classifier fails: the function returns without freeing the buffer.
Fail ==
    /\ pc = "classify"
    /\ Return("M") /\ led' = FALSE
    /\ failures' = failures + 1
    /\ UNCHANGED <<i, counts, held, calls>>

\* The box with the highest value above 0.6, the first of them if there are more.
Sure(boxes) == {k \in 1..Len(boxes) : boxes[k].value > 6}
Best(boxes) ==
    CHOOSE k \in Sure(boxes) : \A j \in Sure(boxes) :
        boxes[j].value < boxes[k].value \/ (boxes[j].value = boxes[k].value /\ k <= j)

Count(boxes) ==
    IF Sure(boxes) = {} THEN counts
    ELSE [counts EXCEPT ![boxes[Best(boxes)].label] = @ + 1]

\* Mutant of Winner: the last figure that was ever the best.
WinnerLast(c) ==
    IF \A f \in Figures : c[f] = 0 THEN "M"
    ELSE Labels[CHOOSE k \in 1..4 :
            c[Labels[k]] > 0 /\ \A j \in (k + 1)..4 : c[Labels[j]] = 0]

\* The figure with the highest count, the first of them if there are more.
Winner(c) ==
    IF \A f \in Figures : c[f] = 0 THEN "M"
    ELSE Labels[CHOOSE k \in 1..4 :
            /\ \A j \in 1..4 : c[Labels[j]] <= c[Labels[k]]
            /\ \A j \in 1..(k - 1) : c[Labels[j]] < c[Labels[k]]]

\* A picture has been classified; the first one does not count.
Classify ==
    /\ pc = "classify"
    /\ \E n \in 0..MaxBoxes : \E boxes \in [1..n -> Boxes] :
         counts' = IF i = 0 THEN counts ELSE Count(boxes)
    /\ held' = held - 1
    /\ i' = i + 1
    /\ IF i + 1 < Iterations
       THEN pc' = "alloc" /\ UNCHANGED <<led, figura>>
       ELSE Return(Winner(counts')) /\ led' = FALSE
    /\ UNCHANGED <<calls, failures>>

Next == Call \/ Alloc \/ Capture \/ Fail \/ Classify

Spec == Init /\ [][Next]_vars
-----------------------------------------------------------------------------
TypeOK ==
    /\ pc \in {"idle", "alloc", "capture", "classify"}
    /\ i \in 0..Iterations /\ counts \in [Figures -> 0..Iterations]
    /\ held \in 0..HeapSize /\ led \in BOOLEAN
    /\ figura \in Figures \cup {"M"}
    /\ calls \in 0..MaxCalls /\ failures \in 0..MaxCalls

\* Between two calls the only buffers that are not in the heap are those of the
\* classifier's failures, one for each: no other way out of the loop leaks.
OnlyFailuresLeak == pc = "idle" => held = failures

\* A call that an error cuts short never draws: a figure is returned only after
\* the whole loop, by at least one picture, and by no fewer than any other figure.
WholeLoopOrNothing ==
    [][pc # "idle" /\ pc' = "idle" /\ figura' # "M" =>
          /\ i' = Iterations
          /\ counts'[figura'] > 0
          /\ \A f \in Figures : counts'[f] <= counts'[figura']]_vars
=============================================================================
