---------------------------- MODULE Aggregation ----------------------------
(***************************************************************************)
(* The egress of the switch from a packet's intermediate result to its     *)
(* class and whether the network is unsure of it (classify.p4 and          *)
(* SwitchEgress.apply), for one entry of the flow table.  An 8-bit         *)
(* register counts the results, its low bits index the thresholds that     *)
(* setup_threshold.py installed and restart the sums in the six cpr        *)
(* registers; ternary tables find the largest of them.                     *)
(***************************************************************************)
EXTENDS ArgmaxTables

CONSTANTS Vectors,        \* pr0 .. pr5 of a packet
          QuantNum,       \* 16: a probability has one of so many values
          Period,         \* 128: cpr_reset_period
          CntMod,         \* 256: the values of r_intermediate_result_cnt
          CprMod,         \* 65536: the values of a cpr register
          TConf, Den,     \* t_conf of class c is TConf[c] / Den
          MaxSegs         \* bound: results of a flow

Classes == 0 .. 5

ASSUME AggregationAssumption ==
  /\ QuantNum \in Nat \ {0} /\ Vectors \subseteq [Classes -> 0 .. QuantNum - 1]
  /\ Period \in Nat \ {0} /\ CntMod \in Nat \ {0} /\ CntMod % Period = 0
  \* 15 * 128 = 1920 fits in the 11 bits the tables look at.
  /\ (QuantNum - 1) * Period < Weight[KeyBits]
  /\ CprMod \in Nat /\ Weight[KeyBits] <= CprMod
  \* A class the model does not have gets threshold 0 (translate_threshold.py).
  /\ Den \in Nat \ {0} /\ TConf \in [Classes -> Nat] /\ TConf[0] > 0
  /\ MaxSegs \in Nat

VARIABLES intermediate_result_cnt,
          cpr,
          result,     \* what the egress made of the last classified packet
          segs        \* history: results of the flow that owns the entry

egressVars == <<intermediate_result_cnt, cpr, result, segs>>

NoResult == [class |-> 0, low |-> FALSE]

EgressInit ==
  /\ intermediate_result_cnt = 0
  /\ cpr = [c \in Classes |-> 0]
  /\ result = NoResult
  /\ segs = 0
-----------------------------------------------------------------------------
\* act_intermediate_result_cnt keeps 7 of the 8 bits.
Index == intermediate_result_cnt % Period

\* Mutant: the README's (i + 1) * t_conf, with the data plane's comparison.
DocumentedThreshold(c, i) == ((i + 1) * TConf[c]) \div Den

\* tab_confidence_threshold, installed as max(0, int((i + 1) * t_conf) - 1).
Threshold(c, i) ==
  LET rounded == ((i + 1) * TConf[c]) \div Den IN IF rounded = 0 THEN 0 ELSE rounded - 1

\* Mutant: the sums are only restarted by the first result of a flow.
AccumulatedOverall(pr) ==
  [c \in Classes |-> IF intermediate_result_cnt = 0 THEN pr[c] ELSE (cpr[c] + pr[c]) % CprMod]

\* ra_cpr0 .. ra_cpr5.
Accumulated(pr) ==
  [c \in Classes |-> IF Index = 0 THEN pr[c] ELSE (cpr[c] + pr[c]) % CprMod]

\* The P4 operator |-|.
SatSub(a, b) == IF a <= b THEN 0 ELSE a - b

\* tmp_dif1 and tmp_dif2 are both 0; that of the half not chosen always is.
LowConfidence(sums, choice, i) ==
  LET Dif(c) == SatSub(sums[c], Threshold(c, i))
      tmp_dif1 == IF choice.in012 THEN Dif(choice.tmp_class1) ELSE 0
      tmp_dif2 == IF choice.in012 THEN 0 ELSE Dif(choice.tmp_class2)
  IN tmp_dif1 = 0 /\ tmp_dif2 = 0

\* A packet the network looked at: use_rnn is 1.
RnnPacket(pr) ==
  LET sums == Accumulated(pr)
      choice == Choice(sums)
  IN
  /\ segs < MaxSegs
  /\ intermediate_result_cnt' = (intermediate_result_cnt + 1) % CntMod
  /\ cpr' = sums
  /\ result' = [class |-> final_class(choice), low |-> LowConfidence(sums, choice, Index)]
  /\ segs' = segs + 1

\* Mutant: the count is left to the next owner of the entry.
SkippedPacketKeepsCount ==
  /\ segs' = 0
  /\ UNCHANGED <<intermediate_result_cnt, cpr, result>>

\* One of the first packets of a flow, before the window is full: use_rnn is 0
\* and there is no collision, the count is restarted.  (A colliding packet
\* leaves all these registers alone.)
SkippedPacket ==
  /\ intermediate_result_cnt' = 0
  /\ segs' = 0
  /\ UNCHANGED <<cpr, result>>

EgressNext == SkippedPacket \/ \E pr \in Vectors : RnnPacket(pr)

EgressSpec == EgressInit /\ [][EgressNext]_egressVars
-----------------------------------------------------------------------------
\* The sums of the last flow stay in the registers until the next flow's first
\* result, the aggregator drops them at once.
Reference ==
  INSTANCE Aggregator WITH
    accumulative_probabilities <- IF segs = 0 THEN [c \in Classes |-> 0] ELSE cpr

\* The registers hold what aggregator.py would have summed up: the data plane,
\* with counters of a few bits and sums it never clears, implements the
\* aggregator whatever flows had the entry before.
ImplementsAggregator == Reference!Spec

\* The tables look at the low KeyBits bits of a sum only: no sum is larger.
SumsFitKey == \A c \in Classes : cpr[c] \in 0 .. Weight[KeyBits] - 1

\* The class written to the packet is the aggregator's np.argmax, ties included,
\* although no stage of the switch can compare two numbers.
ClassIsArgMax == segs > 0 => result.class = Reference!ArgMax(cpr)

\* A packet counts as ambiguous only if the aggregator's pkt_confidence (the
\* average over segs_num) is below t_conf of its class, and every packet counts
\* whose sum is a whole unit below: rounding costs less than one unit.
LowIsBelowThreshold ==
  segs > 0 =>
    LET sum == cpr[result.class] * Den
        required == Reference!SegsNum(segs) * TConf[result.class]
    IN /\ result.low => sum < required
       /\ sum <= required - Den => result.low
=============================================================================
