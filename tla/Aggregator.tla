----------------------------- MODULE Aggregator -----------------------------
(***************************************************************************)
(* The aggregation of a flow's intermediate results as aggregator.py does  *)
(* it off line: quantised probabilities are summed up per class and the    *)
(* sums start again with every Period-th segment.  This is what the        *)
(* accuracy and the confidence thresholds of the paper were measured with, *)
(* and so the specification of the data plane (module Aggregation).        *)
(***************************************************************************)
EXTENDS Integers

CONSTANTS Classes,        \* range(labels_num)
          Vectors,        \* quantised probability vectors of a segment
          Period          \* reset_cycle

VARIABLES segs,                       \* segments of the flow so far
          accumulative_probabilities

Zeros == [c \in Classes |-> 0]

Init == segs = 0 /\ accumulative_probabilities = Zeros

NewFlow == segs' = 0 /\ accumulative_probabilities' = Zeros

Segment(probability_vector) ==
  /\ segs' = segs + 1
  /\ accumulative_probabilities' =
       [c \in Classes |-> probability_vector[c] +
                          IF segs % Period = 0 THEN 0 ELSE accumulative_probabilities[c]]

Next == NewFlow \/ \E v \in Vectors : Segment(v)

Spec == Init /\ [][Next]_<<segs, accumulative_probabilities>>
-----------------------------------------------------------------------------
\* np.argmax: the smallest index among the largest.
ArgMax(f) ==
  CHOOSE c \in Classes : /\ \A d \in Classes : f[d] <= f[c]
                         /\ \A d \in Classes : f[d] = f[c] => c <= d

\* segs_num: how many segments the sums are about.
SegsNum(n) == 1 + ((n - 1) % Period)
=============================================================================
