-------------------------- MODULE CollisionBudget --------------------------
(***************************************************************************)
(* How many packets of colliding flows the switch sends to the IMIS        *)
(* (ig_global_cnt.p4, setup_threshold.py).  Every packet, recirculated     *)
(* ones too, advances global_pkt_cnt round a cycle of 256; its value       *)
(* selects a threshold that grows with it.  A colliding packet goes to the *)
(* IMIS if fewer than the threshold went so far; every other packet that   *)
(* reaches the counter lowers it to the threshold when it is above.        *)
(***************************************************************************)
EXTENDS Integers

CONSTANTS Cycle,        \* 256: the width of global_pkt_cnt
          Num, Den      \* collision_escalation_ratio = Num / Den

ASSUME BudgetAssumption == /\ Cycle \in Nat \ {0}
                           /\ Num \in Nat /\ Den \in Nat \ {0} /\ Num <= Den

VARIABLES global_pkt_cnt,                       \* what the next packet reads
          global_collision_escalation_cnt,
          escalated,                            \* since the cycle began
          cycle                                 \* packets of the cycle so far

budgetVars == <<global_pkt_cnt, global_collision_escalation_cnt, escalated, cycle>>

\* The entry setup_threshold.py installs for a value of global_pkt_cnt.
Threshold(i) == (i * Num) \div Den

BudgetInit == global_pkt_cnt = 0 /\ global_collision_escalation_cnt = 0
        /\ escalated = 0 /\ cycle = 0

\* ra_ig_global_pkt_cnt, cut to eight bits.
Advance ==
  /\ global_pkt_cnt' = IF global_pkt_cnt = Cycle - 1 THEN 0 ELSE global_pkt_cnt + 1
  /\ cycle' = IF global_pkt_cnt = Cycle - 1 THEN 0 ELSE cycle + 1

\* What counts as escalated in the present cycle after this packet.
Escalated(n) == escalated' = IF global_pkt_cnt = Cycle - 1 THEN 0 ELSE escalated + n

Below == global_collision_escalation_cnt < Threshold(global_pkt_cnt)

\* A packet of a colliding flow, within the budget: to the IMIS.
Escalate ==
  /\ Below
  /\ global_collision_escalation_cnt' = global_collision_escalation_cnt + 1
  /\ Escalated(1)
  /\ Advance

\* Any other packet while the count is below the threshold.
Skip ==
  /\ Below
  /\ UNCHANGED global_collision_escalation_cnt
  /\ Escalated(0)
  /\ Advance

\* Mutant: the count is cleared, not set to the threshold.
SpentClears ==
  /\ ~Below
  /\ global_collision_escalation_cnt' = 0
  /\ Escalated(0)
  /\ Advance

\* Colliding or not, a packet that finds the budget spent: the count is set to
\* the threshold, which is where a new cycle lowers it.
Spent ==
  /\ ~Below
  /\ global_collision_escalation_cnt' = Threshold(global_pkt_cnt)
  /\ Escalated(0)
  /\ Advance

\* A recirculated packet is counted but never reaches the escalation counter.
Recirculated ==
  /\ UNCHANGED global_collision_escalation_cnt
  /\ Escalated(0)
  /\ Advance

BudgetNext == Escalate \/ Skip \/ Spent \/ Recirculated

BudgetSpec == BudgetInit /\ [][BudgetNext]_budgetVars
-----------------------------------------------------------------------------
BudgetTypeOK ==
  /\ global_pkt_cnt \in 0 .. Cycle - 1
  /\ global_collision_escalation_cnt \in Nat
  /\ escalated \in Nat /\ cycle \in Nat

\* At any point of a cycle the colliding packets sent to the IMIS in it are at
\* most the configured share of all packets of the cycle, even when the count
\* was left over from the last cycle and recirculated packets skip the counter.
WithinBudget == escalated * Den <= cycle * Num

\* The count reaches no further than the largest threshold, so that it fits
\* its eight bits.
CountBounded == global_collision_escalation_cnt <= Threshold(Cycle - 1)
=============================================================================
