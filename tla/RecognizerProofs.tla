--------------------------- MODULE RecognizerProofs ---------------------------
(***************************************************************************)
(* What the calls of the recogniser keep and leak, and when they return a    *)
(* figure, for every number of pictures, every size of the heap, every set   *)
(* of confidences and any number of boxes and of calls.                      *)
(***************************************************************************)
EXTENDS Recognizer, WellFoundedInduction, TLAPS

USE RecognizerAssumption

-----------------------------------------------------------------------------
(* The CHOOSEs of the model: the best box and the figure of the most pictures. *)

(* A nonempty set of natural numbers has a least element.                      *)
LEMMA Least ==
    ASSUME NEW T \in SUBSET Nat, T # {}
    PROVE  \E x \in T : \A y \in T : x <= y
<1> DEFINE R == OpToRel(<, Nat)
<1>1. PICK x \in T : \A y \in T : ~(<<y, x>> \in R)
  BY NatLessThanWellFounded, WFMin
<1>2. R = {r \in Nat \X Nat : r[1] < r[2]}
  BY DEF OpToRel
<1>3. \A y \in T : x <= y
  <2> TAKE y \in T
  <2>1. <<y, x>> \in Nat \X Nat => ~(<<y, x>>[1] < <<y, x>>[2])
    BY <1>1, <1>2
  <2> QED  BY <2>1
<1> QED  BY <1>3

(* If a box is sure at all, then Best is a sure box: there is one of the least  *)
(* doubt (the tenths its confidence lacks) and, of those, one that comes first. *)
LEMMA BestIsSure ==
    ASSUME NEW n \in Nat, NEW boxes \in [1..n -> Boxes], Sure(boxes) # {}
    PROVE  Best(boxes) \in Sure(boxes)
<1> DEFINE doubt(k) == 10 - boxes[k].value
           Doubts   == {doubt(k) : k \in Sure(boxes)}
<1>1. Sure(boxes) \in SUBSET (1..n)
  <2>1. Len(boxes) = n  OBVIOUS
  <2> QED  BY <2>1 DEF Sure
<1>2. \A k \in Sure(boxes) : boxes[k].value \in 0..10
  <2>1. \A k \in 1..n : boxes[k].value \in Values  BY DEF Boxes
  <2> QED  BY <1>1, <2>1
<1>3. Doubts \in SUBSET Nat /\ Doubts # {}
  BY <1>2
<1>4. PICK d \in Doubts : \A e \in Doubts : d <= e
  <2> HIDE DEF Doubts
  <2> QED  BY <1>3, Least
<1> DEFINE First == {k \in Sure(boxes) : doubt(k) = d}
<1>5. First \in SUBSET Nat /\ First # {}
  BY <1>1, <1>4
<1>6. PICK k \in First : \A j \in First : k <= j
  <2> HIDE DEF First
  <2> QED  BY <1>5, Least
<1>7. \A j \in Sure(boxes) :
        boxes[j].value < boxes[k].value \/ (boxes[j].value = boxes[k].value /\ k <= j)
  <2> SUFFICES ASSUME NEW j \in Sure(boxes)
               PROVE  boxes[j].value < boxes[k].value
                      \/ (boxes[j].value = boxes[k].value /\ k <= j)
    OBVIOUS
  <2>1. d <= doubt(j) /\ doubt(k) = d /\ k \in Sure(boxes)
    BY <1>4, <1>6
  <2>2. boxes[j].value \in Int /\ boxes[k].value \in Int
    BY <1>2, <2>1
  <2>3. CASE doubt(j) = d
    <3>1. k <= j  BY <1>6, <2>3
    <3>2. boxes[j].value = boxes[k].value  BY <2>1, <2>2, <2>3
    <3> QED  BY <3>1, <3>2
  <2>4. CASE doubt(j) # d
    <3>1. d < doubt(j)
      <4>1. d \in Int /\ doubt(j) \in Int  BY <2>1, <2>2
      <4>2. d <= doubt(j) /\ doubt(j) # d  BY <2>1, <2>4
      <4> HIDE DEF doubt
      <4> QED  BY <4>1, <4>2
    <3> QED  BY <2>1, <2>2, <3>1
  <2> QED  BY <2>3, <2>4
<1>8. k \in Sure(boxes)  BY <1>6
<1> QED  BY <1>7, <1>8 DEF Best

(* A picture adds at most one to a count, and only to one of them.              *)
LEMMA CountGrows ==
    ASSUME counts \in [Figures -> Nat],
           NEW n \in Nat, NEW boxes \in [1..n -> Boxes]
    PROVE  /\ Count(boxes) \in [Figures -> Nat]
           /\ \A f \in Figures : Count(boxes)[f] \in {counts[f], counts[f] + 1}
<1>1. CASE Sure(boxes) = {}
  BY <1>1 DEF Count
<1>2. CASE Sure(boxes) # {}
  <2> DEFINE b == boxes[Best(boxes)].label
  <2>1. Best(boxes) \in 1..n
    <3>1. Len(boxes) = n  OBVIOUS
    <3> QED  BY <1>2, <3>1, BestIsSure DEF Sure
  <2>2. b \in Figures
    BY <2>1 DEF Boxes
  <2>3. Count(boxes) = [counts EXCEPT ![b] = @ + 1]
    BY <1>2 DEF Count
  <2> HIDE DEF b
  <2> QED  BY <2>2, <2>3
<1> QED  BY <1>1, <1>2

(* The four figures are distinct, and none of them is the "M" of an error.      *)
LEMMA FourFigures ==
    /\ Figures = {Labels[1], Labels[2], Labels[3], Labels[4]}
    /\ "M" \notin Figures
BY DEF Figures, Labels

(* Of four counts one is the highest, and the first such is the winner.         *)
LEMMA WinnerLeads ==
    ASSUME NEW c \in [Figures -> Nat]
    PROVE  /\ Winner(c) \in Figures \cup {"M"}
           /\ Winner(c) # "M" =>
                 /\ c[Winner(c)] > 0
                 /\ \A f \in Figures : c[f] <= c[Winner(c)]
<1>1. CASE \A f \in Figures : c[f] = 0
  BY <1>1 DEF Winner
<1>2. CASE ~ \A f \in Figures : c[f] = 0
  <2> DEFINE Leads(k) == /\ \A j \in 1..4 : c[Labels[j]] <= c[Labels[k]]
                         /\ \A j \in 1..(k - 1) : c[Labels[j]] < c[Labels[k]]
  <2>1. \A k \in 1..4 : Labels[k] \in Figures /\ c[Labels[k]] \in Nat
    BY DEF Figures
  <2>2. \E k \in 1..4 : Leads(k)
    <3> DEFINE v(k) == c[Labels[k]]
    <3>1. PICK k \in {1, 2, 3, 4} : \A j \in {1, 2, 3, 4} :
              v(j) < v(k) \/ (v(j) = v(k) /\ k <= j)
      <4>1. v(1) \in Nat /\ v(2) \in Nat /\ v(3) \in Nat /\ v(4) \in Nat
        BY <2>1
      <4> HIDE DEF v
      <4> QED  BY <4>1
    <3>2. \A j \in 1..4 : v(j) <= v(k)
      BY <2>1, <3>1
    <3>3. \A j \in 1..(k - 1) : v(j) < v(k)
      BY <2>1, <3>1
    <3> QED  BY <3>2, <3>3
  <2> DEFINE w == CHOOSE k \in 1..4 : Leads(k)
  <2>3. w \in 1..4 /\ Leads(w)
    <3> HIDE DEF Leads
    <3> QED  BY <2>2
  <2>4. Winner(c) = Labels[w]
    BY <1>2 DEF Winner
  <2> HIDE DEF w
  <2>5. \A f \in Figures : c[f] <= c[Labels[w]]
    BY <2>3 DEF Figures
  <2>6. c[Labels[w]] > 0
    BY <1>2, <2>1, <2>3, <2>5
  <2> QED  BY <2>1, <2>3, <2>4, <2>5, <2>6
<1> QED  BY <1>1, <1>2
-----------------------------------------------------------------------------
(* The invariant.                                                              *)

(* Inside a call there is an iteration left, and no figure has won more of the   *)
(* pictures than have been taken.                                              *)
Looping ==
    /\ pc \in {"idle", "alloc", "capture", "classify"}
    /\ i \in 0..Iterations /\ (pc # "idle" => i < Iterations)
    /\ counts \in [Figures -> Nat] /\ \A f \in Figures : counts[f] <= i
    /\ led \in BOOLEAN /\ figura \in Figures \cup {"M"}

(* What is not in the heap: the picture that is being taken or looked at, and    *)
(* one for each failure.                                                       *)
InUse == IF pc \in {"capture", "classify"} THEN 1 ELSE 0

Accounted ==
    /\ held \in 0..HeapSize /\ failures \in Nat
    /\ held = failures + InUse

(* A call fails once at most, and it has not failed while it goes on.            *)
Failing ==
    /\ calls \in 0..MaxCalls
    /\ failures + (IF pc = "idle" THEN 0 ELSE 1) <= calls

RecognizerInv == Looping /\ Accounted /\ Failing

(* The invariant holds before the first call.                                  *)
LEMMA RecognizerInit == Init => RecognizerInv
<1> SUFFICES ASSUME Init PROVE RecognizerInv
  OBVIOUS
<1>1. Looping
  <2>1. counts \in [Figures -> Nat] /\ \A f \in Figures : counts[f] <= i
    BY DEF Init
  <2>2. led \in BOOLEAN
    BY DEF Init
  <2> QED  BY <2>1, <2>2 DEF Init, Looping
<1>2. Accounted /\ Failing
  BY DEF Init, Accounted, InUse, Failing
<1> QED  BY <1>1, <1>2 DEF RecognizerInv

(* What a classified picture does to the loop.                                 *)
LEMMA ClassifyCounts ==
    ASSUME Looping, Classify
    PROVE  /\ counts' \in [Figures -> Nat]
           /\ \A f \in Figures : counts'[f] <= i'
           /\ i' = i + 1 /\ i' \in 0..Iterations
           /\ \/ pc' = "alloc" /\ i' < Iterations /\ UNCHANGED <<led, figura>>
              \/ /\ i' = Iterations /\ Return(Winner(counts'))
                 /\ led' = FALSE
<1>1. i \in 0..(Iterations - 1) /\ i' = i + 1
  BY DEF Looping, Classify
<1>2. PICK n \in 0..MaxBoxes : \E boxes \in [1..n -> Boxes] :
        counts' = IF i = 0 THEN counts ELSE Count(boxes)
  BY DEF Classify
<1>3. PICK boxes \in [1..n -> Boxes] :
        counts' = IF i = 0 THEN counts ELSE Count(boxes)
  BY <1>2
<1>4. counts \in [Figures -> Nat] /\ \A f \in Figures : counts[f] <= i
  BY DEF Looping
<1>5. /\ Count(boxes) \in [Figures -> Nat]
      /\ \A f \in Figures : Count(boxes)[f] \in {counts[f], counts[f] + 1}
  BY <1>4, CountGrows
<1>6. counts' \in [Figures -> Nat]
  BY <1>3, <1>4, <1>5
<1>7. \A f \in Figures : counts'[f] <= i + 1
  <2> TAKE f \in Figures
  <2>1. counts[f] \in Nat /\ counts[f] <= i  BY <1>4
  <2>2. counts'[f] \in {counts[f], counts[f] + 1}  BY <1>3, <1>5
  <2> QED  BY <1>1, <2>1, <2>2
<1> QED  BY <1>1, <1>6, <1>7 DEF Classify

(* Every step of the recogniser keeps the invariant.                           *)
LEMMA RecognizerStep == RecognizerInv /\ [Next]_vars => RecognizerInv'
<1> SUFFICES ASSUME RecognizerInv, [Next]_vars PROVE RecognizerInv'
  OBVIOUS
<1>1. CASE Call
  <2>1. Looping'
    BY <1>1 DEF RecognizerInv, Looping, Call
  <2>2. Accounted'
    BY <1>1 DEF RecognizerInv, Accounted, InUse, Call
  <2>3. Failing'
    BY <1>1 DEF RecognizerInv, Accounted, Failing, Call
  <2> QED  BY <2>1, <2>2, <2>3 DEF RecognizerInv
<1>2. CASE Alloc
  <2>1. Looping'
    BY <1>2 DEF RecognizerInv, Looping, Alloc, Return
  <2>2. Accounted'
    BY <1>2 DEF RecognizerInv, Accounted, InUse, Alloc, Return
  <2>3. Failing'
    BY <1>2 DEF RecognizerInv, Accounted, Failing, Alloc, Return
  <2> QED  BY <2>1, <2>2, <2>3 DEF RecognizerInv
<1>3. CASE Capture
  <2>1. Looping'
    BY <1>3 DEF RecognizerInv, Looping, Capture, Return
  <2>2. Accounted'
    BY <1>3 DEF RecognizerInv, Accounted, InUse, Capture, Return
  <2>3. Failing'
    BY <1>3 DEF RecognizerInv, Accounted, Failing, Capture, Return
  <2> QED  BY <2>1, <2>2, <2>3 DEF RecognizerInv
<1>4. CASE Fail
  <2>1. Looping'
    BY <1>4 DEF RecognizerInv, Looping, Fail, Return
  <2>2. Accounted'
    BY <1>4 DEF RecognizerInv, Accounted, InUse, Fail, Return
  <2>3. Failing'
    BY <1>4 DEF RecognizerInv, Accounted, Failing, Fail, Return
  <2> QED  BY <2>1, <2>2, <2>3 DEF RecognizerInv
<1>5. CASE Classify
  <2>1. Looping'
    <3>1. pc' = "idle" => figura' \in Figures \cup {"M"}
      <4>1. CASE UNCHANGED figura
        BY <4>1 DEF RecognizerInv, Looping
      <4>2. CASE figura' = Winner(counts')
        BY <1>5, <4>2, ClassifyCounts, WinnerLeads DEF RecognizerInv
      <4> QED  BY <1>5, <4>1, <4>2, ClassifyCounts DEF RecognizerInv, Return
    <3> QED  BY <1>5, <3>1, ClassifyCounts DEF RecognizerInv, Looping, Return
  <2>2. Accounted'
    BY <1>5 DEF RecognizerInv, Accounted, InUse, Classify, Return
  <2>3. Failing'
    BY <1>5 DEF RecognizerInv, Accounted, Failing, Classify, Return
  <2> QED  BY <2>1, <2>2, <2>3 DEF RecognizerInv
<1>6. CASE UNCHANGED vars
  BY <1>6 DEF vars, RecognizerInv, Looping, Accounted, InUse, Failing
<1> QED  BY <1>1, <1>2, <1>3, <1>4, <1>5, <1>6 DEF Next

(* The invariant holds for as long as the ESP32 runs.                          *)
LEMMA RecognizerHolds == Spec => []RecognizerInv
<1> QED  BY RecognizerInit, RecognizerStep, PTL DEF Spec
-----------------------------------------------------------------------------
(* What the recogniser promises.                                               *)

(* The variables of reconocerFigura never leave their types: no count runs past  *)
(* the pictures, and free is never called for a buffer that was not taken.       *)
THEOREM RecognizerTypeCorrect == Spec => []TypeOK
<1>1. RecognizerInv => TypeOK
  <2> SUFFICES ASSUME RecognizerInv PROVE TypeOK
    OBVIOUS
  <2>1. counts \in [Figures -> 0..Iterations]
    BY DEF RecognizerInv, Looping
  <2>2. failures \in 0..MaxCalls
    BY DEF RecognizerInv, Accounted, Failing
  <2> QED  BY <2>1, <2>2 DEF RecognizerInv, Looping, Accounted, Failing, TypeOK
<1> QED  BY <1>1, RecognizerHolds, PTL

(* The early return of a failed run_classifier is the only one that keeps a      *)
(* buffer, and it keeps exactly one.                                           *)
THEOREM FailuresLeak == Spec => []OnlyFailuresLeak
<1>1. RecognizerInv => OnlyFailuresLeak
  BY DEF RecognizerInv, Accounted, InUse, OnlyFailuresLeak
<1> QED  BY <1>1, RecognizerHolds, PTL

(* A figure is returned after the last picture only, and it is one that was the  *)
(* best of no fewer pictures than any other.                                   *)
THEOREM FigureWins == Spec => WholeLoopOrNothing
<1> DEFINE Won == pc # "idle" /\ pc' = "idle" /\ figura' # "M" =>
                    /\ i' = Iterations
                    /\ counts'[figura'] > 0
                    /\ \A f \in Figures : counts'[f] <= counts'[figura']
<1>1. RecognizerInv /\ [Next]_vars => [Won]_vars
  <2> SUFFICES ASSUME RecognizerInv, Next, pc # "idle", pc' = "idle", figura' # "M"
               PROVE  /\ i' = Iterations
                      /\ counts'[figura'] > 0
                      /\ \A f \in Figures : counts'[f] <= counts'[figura']
    OBVIOUS
  <2>1. Classify
    BY DEF Next, Call, Alloc, Capture, Fail, Return
  <2>2. /\ counts' \in [Figures -> Nat]
        /\ i' = Iterations /\ figura' = Winner(counts')
    BY <2>1, ClassifyCounts DEF RecognizerInv, Return
  <2> QED  BY <2>2, WinnerLeads
<1> QED  BY <1>1, RecognizerHolds, PTL DEF Spec, WholeLoopOrNothing
=============================================================================
