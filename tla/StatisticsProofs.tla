-------------------------- MODULE StatisticsProofs --------------------------
(***************************************************************************)
(* The share of packets the switch sends to the IMIS on account of         *)
(* collisions, for every length of the cycle and every ratio; that the two *)
(* pipes treat this budget as CollisionBudget says; and the sums of the    *)
(* statistics for any number of packets under way.                         *)
(***************************************************************************)
EXTENDS PacketMonitor, FiniteSetTheorems, TLAPS

\* A threshold is at most the packet's share of the cycle (int(i * ratio) in
\* setup_threshold.py rounds down).
LEMMA ThresholdShare ==
  ASSUME NEW i \in Nat
  PROVE  Threshold(i) \in Nat /\ Threshold(i) * Den <= i * Num
<1> USE BudgetAssumption
<1> DEFINE a == i * Num
<1>1. a \in Nat
  BY SMT
<1> HIDE DEF a
<1>2. a \div Den \in Nat /\ (a \div Den) * Den <= a
  BY <1>1, SMT
<1> QED
  BY <1>2 DEF Threshold, a

\* Thresholds grow along the cycle.
LEMMA ThresholdGrows ==
  ASSUME NEW i \in Nat, NEW j \in Nat, i <= j
  PROVE  Threshold(i) <= Threshold(j)
<1> USE BudgetAssumption
<1> DEFINE a == i * Num
           b == j * Num
           qa == a \div Den
           qb == b \div Den
<1>1. a \in Nat /\ b \in Nat /\ a <= b
  BY SMT
<1> HIDE DEF a, b
<1>2. /\ qa \in Nat /\ qa * Den <= a
      /\ qb \in Nat /\ b < qb * Den + Den
  BY <1>1, SMT
<1> HIDE DEF qa, qb
<1>3. qa <= qb
  <2> SUFFICES ASSUME qa >= qb + 1 PROVE FALSE
    BY <1>2
  <2>1. qa * Den >= (qb + 1) * Den
    BY <1>2, SMT
  <2>2. (qb + 1) * Den = qb * Den + Den
    BY <1>2, SMT
  <2> QED
    BY <2>1, <2>2, <1>1, <1>2, SMT
<1> QED
  BY <1>3 DEF Threshold, qa, qb, a, b

\* What a cycle keeps: the colliding packets sent to the IMIS in it are
\* counted, and the count never passed the threshold when it rose.  A count
\* left over from the last cycle may be above the threshold, so neither bound
\* follows from the other.
BudgetInv ==
  /\ BudgetTypeOK
  /\ cycle = global_pkt_cnt
  /\ escalated <= global_collision_escalation_cnt
  /\ escalated <= Threshold(global_pkt_cnt)
  /\ CountBounded

\* The cleared registers satisfy the invariant.
LEMMA BudgetInitInv == BudgetInit => BudgetInv
<1> SUFFICES ASSUME BudgetInit PROVE BudgetInv
  OBVIOUS
<1>1. 0 \in Nat /\ Cycle - 1 \in Nat /\ 0 \in 0 .. Cycle - 1
  BY BudgetAssumption
<1>2. Threshold(0) \in Nat /\ Threshold(Cycle - 1) \in Nat
  BY <1>1, ThresholdShare
<1> HIDE DEF Threshold
<1> QED
  BY <1>1, <1>2 DEF BudgetInit, BudgetInv, BudgetTypeOK, CountBounded

\* Every packet preserves it.
LEMMA StepBudgetInv == BudgetInv /\ [BudgetNext]_budgetVars => BudgetInv'
<1> SUFFICES ASSUME BudgetInv, [BudgetNext]_budgetVars PROVE BudgetInv'
  OBVIOUS
<1> DEFINE i == global_pkt_cnt
           cnt == global_collision_escalation_cnt
           t == Threshold(i)
           tn == Threshold(i + 1)
           tl == Threshold(Cycle - 1)
           t0 == Threshold(0)
<1>1. /\ i \in Nat /\ i + 1 \in Nat /\ Cycle - 1 \in Nat /\ i <= Cycle - 1
      /\ cnt \in Nat /\ escalated \in Nat /\ cycle \in Nat /\ cycle = i
      /\ Cycle \in Nat
  BY BudgetAssumption DEF BudgetInv, BudgetTypeOK
<1>2. t \in Nat /\ tn \in Nat /\ tl \in Nat /\ t0 \in Nat /\ t <= tn /\ t <= tl
  BY <1>1, ThresholdShare, ThresholdGrows
<1>3. escalated <= cnt /\ escalated <= t /\ cnt <= tl
  BY DEF BudgetInv, CountBounded
\* Enough to bound what the packet adds.
<1>4. ASSUME NEW n \in {0, 1}, Escalated(n), Advance,
             cnt' \in Nat, cnt' <= tl, escalated + n <= cnt', escalated + n <= t
      PROVE  BudgetInv'
  <2>1. CASE i = Cycle - 1
    <3>1. i' = 0 /\ cycle' = 0 /\ escalated' = 0
      BY <2>1, <1>4, <1>1 DEF Advance, Escalated
    <3>2. Threshold(i)' = t0
      BY <3>1
    <3> QED
      BY <3>1, <3>2, <1>4, <1>1, <1>2 DEF BudgetInv, BudgetTypeOK, CountBounded, Threshold
  <2>2. CASE i # Cycle - 1
    <3>1. i' = i + 1 /\ cycle' = i + 1 /\ escalated' = escalated + n
      BY <2>2, <1>4, <1>1 DEF Advance, Escalated
    <3>2. Threshold(i)' = tn
      BY <3>1
    <3> HIDE DEF t, tn, tl
    <3>3. escalated' \in Nat /\ escalated' <= cnt' /\ escalated' <= tn
      BY <3>1, <1>4, <1>1, <1>2
    <3> QED
      BY <3>1, <3>2, <3>3, <2>2, <1>4, <1>1 DEF BudgetInv, BudgetTypeOK, CountBounded, tn, tl
  <2> QED
    BY <2>1, <2>2
<1>5. CASE Escalate
  BY <1>5, <1>1, <1>2, <1>3, <1>4 DEF Escalate, Below
<1>6. CASE Skip
  BY <1>6, <1>1, <1>2, <1>3, <1>4 DEF Skip, Below
<1>7. CASE Spent
  BY <1>7, <1>1, <1>2, <1>3, <1>4 DEF Spent, Below
<1>8. CASE Recirculated
  BY <1>8, <1>1, <1>2, <1>3, <1>4 DEF Recirculated
<1>9. CASE UNCHANGED budgetVars
  BY <1>9 DEF budgetVars, BudgetInv, BudgetTypeOK, CountBounded
<1> QED
  BY <1>5, <1>6, <1>7, <1>8, <1>9 DEF BudgetNext

\* The invariant holds of the switch.
THEOREM BudgetInvariant == BudgetSpec => []BudgetInv
  BY BudgetInitInv, StepBudgetInv, PTL DEF BudgetSpec

\* The registers keep their ranges.
THEOREM BudgetTypeCorrect == BudgetSpec => []BudgetTypeOK
<1>1. BudgetInv => BudgetTypeOK
  BY DEF BudgetInv
<1> QED
  BY BudgetInvariant, <1>1, PTL

\* Whatever the mix of colliding, ordinary and recirculated packets, those sent
\* to the IMIS for a collision stay within the configured share of the cycle.
THEOREM BudgetKept == BudgetSpec => []WithinBudget
<1>1. BudgetInv => WithinBudget
  <2> SUFFICES ASSUME BudgetInv PROVE WithinBudget
    OBVIOUS
  <2> DEFINE t == Threshold(cycle)
  <2>1. cycle \in Nat /\ escalated \in Nat /\ escalated <= t
    BY DEF BudgetInv, BudgetTypeOK
  <2>2. t \in Nat /\ t * Den <= cycle * Num
    BY <2>1, ThresholdShare
  <2> HIDE DEF t
  <2>3. escalated * Den <= t * Den
    BY <2>1, <2>2, BudgetAssumption, SMT
  <2>4. escalated * Den \in Nat /\ t * Den \in Nat /\ cycle * Num \in Nat
    BY <2>1, <2>2, BudgetAssumption, SMT
  <2> QED
    BY <2>2, <2>3, <2>4, SMT DEF WithinBudget
<1> QED
  BY BudgetInvariant, <1>1, PTL

\* The register never holds more than the last packet's threshold, so that
\* eight bits are enough for it.
THEOREM BudgetCountBounded == BudgetSpec => []CountBounded
<1>1. BudgetInv => CountBounded
  BY DEF BudgetInv
<1> QED
  BY BudgetInvariant, <1>1, PTL
-----------------------------------------------------------------------------
\* A stage other than pipe A ingress leaves the budget alone; at that one each
\* packet, recirculated or not, is a step of it.
THEOREM PipesKeepBudgetSpec == Spec => BudgetSpec
<1>1. Init => BudgetInit
  BY DEF Init
<1>2. [Next]_vars => [BudgetNext]_budgetVars
  <2> SUFFICES ASSUME [Next]_vars PROVE [BudgetNext]_budgetVars
    OBVIOUS
  <2>1. ASSUME NEW c, NEW r, NEW f, SwitchIngress(c, r, f) PROVE BudgetNext
    BY <2>1 DEF SwitchIngress, BudgetNext
  <2>2. CASE RecirculatedIngress
    BY <2>2 DEF RecirculatedIngress, BudgetNext
  <2>3. ASSUME NEW n \in BOOLEAN, SwitchEgress(n) PROVE UNCHANGED budgetVars
    BY <2>3 DEF SwitchEgress
  <2>4. CASE AuxIngress \/ AuxEgressNormal \/ AuxEgressMirrored \/ LoseMirrored
    BY <2>4 DEF AuxIngress, AuxEgressNormal, AuxEgressMirrored, LoseMirrored
  <2>5. CASE UNCHANGED vars
    BY <2>5 DEF vars
  <2> QED
    BY <2>1, <2>2, <2>3, <2>4, <2>5 DEF Next
<1> QED
  BY <1>1, <1>2, PTL DEF Spec, BudgetSpec

\* So in the pipes too, with packets under way and copies that come round, at
\* most the configured share of the packets of a cycle is escalated.
THEOREM PipesKeepBudget == Spec => []WithinBudget
BY PipesKeepBudgetSpec, BudgetKept, PTL
-----------------------------------------------------------------------------
\* One packet more in one category is one more in all.
LEMMA TotalGrows ==
  ASSUME NEW cnt \in [Category -> Nat], NEW c \in Category,
         NEW new, new = [cnt EXCEPT ![c] = @ + 1]
  PROVE  /\ new \in [Category -> Nat]
         /\ new["rnn"] + new["pre_analysis"] + new["IMIS"] + new["perpacket"]
              + new["collision_IMIS"]
            = cnt["rnn"] + cnt["pre_analysis"] + cnt["IMIS"] + cnt["perpacket"]
                + cnt["collision_IMIS"] + 1
  BY DEF Category

\* Taking the head of a wire and putting it on the next one.
LEMMA WireTaken ==
  ASSUME NEW w \in Seq(Packet), w # << >>
  PROVE  /\ Head(w) \in Packet /\ Tail(w) \in Seq(Packet)
         /\ Len(w) \in Nat /\ Len(Tail(w)) = Len(w) - 1
  OBVIOUS

LEMMA WireFed ==
  ASSUME NEW w \in Seq(Packet), NEW pkt \in Packet
  PROVE  /\ Append(w, pkt) \in Seq(Packet)
         /\ Len(w) \in Nat /\ Len(Append(w, pkt)) = Len(w) + 1
  OBVIOUS

\* A packet falls into one of the five categories.
LEMMA CountedCategory == \A pkt \in Packet : Counted(pkt) \in Category
  BY DEF Counted, Category

StatInv == TypeOK /\ EveryPacketCounted

\* The cleared registers agree.
LEMMA InitStatInv == Init => StatInv
  BY DEF Init, StatInv, TypeOK, EveryPacketCounted, Total, Category

\* Every stage preserves the sums.
LEMMA StepStatInv == StatInv /\ [Next]_vars => StatInv'
<1> SUFFICES ASSUME StatInv, [Next]_vars PROVE StatInv'
  OBVIOUS
<1>0. TypeOK /\ EveryPacketCounted /\ Total \in Nat /\ Len(toEgress) \in Nat /\ Len(toAuxIngress) \in Nat
  BY DEF StatInv, TypeOK, Total, Category
<1>1. ASSUME NEW c \in BOOLEAN, NEW r \in BOOLEAN, NEW f \in BOOLEAN, SwitchIngress(c, r, f)
      PROVE  StatInv'
  <2> DEFINE pkt == [collision |-> c, use_rnn |-> r, flag |-> f,
                     use_per_packet |-> c /\ ~Below]
  <2>1. pkt \in Packet
    BY DEF Packet
  <2>2. toEgress' = Append(toEgress, pkt) /\ r_ig_global_pkt_cnt' = r_ig_global_pkt_cnt + 1
    BY <1>1 DEF SwitchIngress
  <2> HIDE DEF pkt
  <2>3. toEgress' \in Seq(Packet) /\ Len(toEgress') = Len(toEgress) + 1
    BY <2>1, <2>2, <1>0, WireFed DEF TypeOK
  <2>4. UNCHANGED <<toAuxIngress, toAuxEgress, mirrored, recirculating,
                    r_ig_global_recir_pkt_cnt, egressCnts, auxCnts>>
    BY <1>1 DEF SwitchIngress
  <2>5. TypeOK'
    BY <2>2, <2>3, <2>4, <1>0 DEF TypeOK, egressCnts, auxCnts
  <2>6. EveryPacketCounted'
    <3>1. Total' = Total
      BY <2>4 DEF Total, auxCnts
    <3> QED
      BY <3>1, <2>2, <2>3, <2>4, <1>0 DEF EveryPacketCounted, TypeOK, egressCnts, auxCnts
  <2> QED
    BY <2>5, <2>6 DEF StatInv
<1>2. CASE RecirculatedIngress
  <2>1. Total' = Total
    BY <1>2 DEF RecirculatedIngress, Total, auxCnts
  <2>2. TypeOK'
    BY <1>2, <1>0 DEF RecirculatedIngress, TypeOK, egressCnts, auxCnts
  <2>3. EveryPacketCounted'
    BY <1>2, <1>0, <2>1 DEF RecirculatedIngress, TypeOK, EveryPacketCounted, egressCnts, auxCnts
  <2> QED
    BY <2>2, <2>3 DEF StatInv
<1>3. ASSUME NEW need \in BOOLEAN, SwitchEgress(need) PROVE StatInv'
  <2> DEFINE n == IF need THEN 1 ELSE 0
  <2>1. /\ toEgress' \in Seq(Packet) /\ Len(toEgress') = Len(toEgress) - 1
        /\ toAuxIngress' \in Seq(Packet) /\ Len(toAuxIngress') = Len(toAuxIngress) + 1
    BY <1>3, <1>0, WireTaken, WireFed DEF SwitchEgress, TypeOK
  <2>2. /\ n \in Nat /\ mirrored' = mirrored + n
        /\ r_eg_global_to_mirror_pkt_cnt' = r_eg_global_to_mirror_pkt_cnt + n
        /\ r_eg_global_pkt_cnt' = r_eg_global_pkt_cnt + 1
        /\ UNCHANGED <<toAuxEgress, recirculating, ingressCnts, auxCnts>>
    BY <1>3 DEF SwitchEgress
  <2> HIDE DEF n
  <2>3. TypeOK'
    BY <2>1, <2>2, <1>0 DEF TypeOK, ingressCnts, auxCnts
  <2>4. EveryPacketCounted'
    <3>1. Total' = Total
      BY <2>2 DEF Total, auxCnts
    <3>2. Total' + Len(toEgress') + Len(toAuxIngress') = Total + Len(toEgress) + Len(toAuxIngress)
      BY <3>1, <2>1, <1>0
    <3>3. /\ Total + Len(toEgress) + Len(toAuxIngress)
               = r_ig_global_pkt_cnt - r_ig_global_recir_pkt_cnt
          /\ Total = r_aux_eg_global_normal_pkt_cnt + toAuxEgress
      BY <1>0 DEF EveryPacketCounted
    <3>4. /\ r_aux_eg_global_to_recir_pkt_cnt' = r_ig_global_recir_pkt_cnt' + recirculating'
          /\ r_eg_global_to_mirror_pkt_cnt' >= r_aux_eg_global_to_recir_pkt_cnt' + mirrored'
      BY <2>2, <1>0 DEF EveryPacketCounted, TypeOK, ingressCnts, auxCnts
    <3> QED
      BY <3>1, <3>2, <3>3, <3>4, <2>2 DEF EveryPacketCounted, ingressCnts, auxCnts
  <2> QED
    BY <2>3, <2>4 DEF StatInv
<1>4. CASE AuxIngress
  <2>1. /\ toAuxIngress' \in Seq(Packet) /\ Len(toAuxIngress') = Len(toAuxIngress) - 1
        /\ Head(toAuxIngress) \in Packet
    BY <1>4, <1>0, WireTaken DEF AuxIngress, TypeOK
  <2>2. ground_truth_cnt' \in [Category -> Nat] /\ Total' = Total + 1
    <3>1. ground_truth_cnt' = [ground_truth_cnt EXCEPT ![Counted(Head(toAuxIngress))] = @ + 1]
      BY <1>4 DEF AuxIngress
    <3>2. ground_truth_cnt \in [Category -> Nat] /\ Counted(Head(toAuxIngress)) \in Category
      BY <2>1, <1>0, CountedCategory DEF TypeOK
    <3> QED
      BY <3>1, <3>2, TotalGrows DEF Total
  <2>3. TypeOK'
    BY <2>1, <2>2, <1>4, <1>0 DEF TypeOK, AuxIngress, ingressCnts, egressCnts
  <2>4. EveryPacketCounted'
    <3>1. /\ UNCHANGED <<toEgress, mirrored, recirculating, ingressCnts, egressCnts,
                         r_aux_eg_global_normal_pkt_cnt, r_aux_eg_global_to_recir_pkt_cnt>>
          /\ toAuxEgress' = toAuxEgress + 1
      BY <1>4 DEF AuxIngress
    <3>2. /\ Total' + Len(toEgress) + Len(toAuxIngress')
               = Total + Len(toEgress) + Len(toAuxIngress)
          /\ Total' = r_aux_eg_global_normal_pkt_cnt + (toAuxEgress + 1)
      BY <2>1, <2>2, <1>0 DEF EveryPacketCounted, TypeOK
    <3> QED
      BY <3>1, <3>2, <1>0 DEF EveryPacketCounted, ingressCnts, egressCnts
  <2> QED
    BY <2>3, <2>4 DEF StatInv
<1>5. CASE AuxEgressNormal
  <2>1. Total' = Total
    BY <1>5 DEF AuxEgressNormal, Total
  <2> QED
    BY <1>5, <1>0, <2>1 DEF AuxEgressNormal, StatInv, TypeOK, EveryPacketCounted,
                            ingressCnts, egressCnts
<1>6. CASE AuxEgressMirrored
  <2>1. Total' = Total
    BY <1>6 DEF AuxEgressMirrored, Total
  <2> QED
    BY <1>6, <1>0, <2>1 DEF AuxEgressMirrored, StatInv, TypeOK, EveryPacketCounted,
                            ingressCnts, egressCnts
<1>7. CASE LoseMirrored
  <2>1. Total' = Total
    BY <1>7 DEF LoseMirrored, Total, auxCnts
  <2> QED
    BY <1>7, <1>0, <2>1 DEF LoseMirrored, StatInv, TypeOK, EveryPacketCounted,
                            ingressCnts, egressCnts, auxCnts
<1>8. CASE UNCHANGED vars
  BY <1>8, <1>0 DEF vars, wires, ingressCnts, egressCnts, auxCnts, StatInv, TypeOK,
                    EveryPacketCounted, Total
<1> QED
  BY <1>1, <1>2, <1>3, <1>4, <1>5, <1>6, <1>7, <1>8 DEF Next

\* However many packets are between the stages, what the monitor would print
\* accounts for each of them once.
THEOREM StatisticsSound == Spec => []EveryPacketCounted
<1>1. StatInv => EveryPacketCounted
  BY DEF StatInv
<1> QED
  BY <1>1, InitStatInv, StepStatInv, PTL DEF Spec
-----------------------------------------------------------------------------
\* What the flow table and the budget never say of a packet together: a
\* colliding one is not looked at by the network, one that is judged on its own
\* collides, and the first packets of a flow find no flag.
Marked == {pkt \in Packet : /\ pkt.collision => ~pkt.use_rnn
                            /\ pkt.use_per_packet => pkt.collision
                            /\ pkt.flag => pkt.collision \/ pkt.use_rnn}

\* The three ways a packet from outside may enter.
MayEnter(c, r, f) == (c => ~r) /\ (f => c \/ r)

LEMMA EntersMarked ==
  ASSUME NEW c \in BOOLEAN, NEW r \in BOOLEAN, NEW f \in BOOLEAN, MayEnter(c, r, f)
  PROVE  [collision |-> c, use_rnn |-> r, flag |-> f, use_per_packet |-> c /\ ~Below] \in Marked
  BY DEF MayEnter, Marked, Packet

LEMMA MarkedTaken ==
  ASSUME NEW w \in Seq(Marked), w # << >>
  PROVE  /\ Head(w) \in Marked /\ Tail(w) \in Seq(Marked)
         /\ Len(w) \in Nat /\ Len(Tail(w)) = Len(w) - 1
  OBVIOUS

LEMMA MarkedFed ==
  ASSUME NEW w \in Seq(Marked), NEW pkt \in Marked
  PROVE  /\ Append(w, pkt) \in Seq(Marked)
         /\ Len(w) \in Nat /\ Len(Append(w, pkt)) = Len(w) + 1
  OBVIOUS

\* The disjuncts of Next, with what may enter written once.
LEMMA NextCases ==
  ASSUME [Next]_vars
  PROVE  \/ \E c, r, f \in BOOLEAN : MayEnter(c, r, f) /\ SwitchIngress(c, r, f)
         \/ RecirculatedIngress
         \/ \E need \in BOOLEAN : SwitchEgress(need)
         \/ AuxIngress
         \/ AuxEgressNormal \/ AuxEgressMirrored \/ LoseMirrored \/ UNCHANGED vars
<1>1. MayEnter(TRUE, FALSE, TRUE) /\ MayEnter(TRUE, FALSE, FALSE)
  BY DEF MayEnter
<1>2. MayEnter(FALSE, TRUE, TRUE) /\ MayEnter(FALSE, TRUE, FALSE) /\ MayEnter(FALSE, FALSE, FALSE)
  BY DEF MayEnter
<1>3. ASSUME NEW f \in BOOLEAN, SwitchIngress(TRUE, FALSE, f) \/ SwitchIngress(FALSE, TRUE, f)
      PROVE  \E c, r, g \in BOOLEAN : MayEnter(c, r, g) /\ SwitchIngress(c, r, g)
  <2>1. MayEnter(TRUE, FALSE, f) /\ MayEnter(FALSE, TRUE, f)
    BY <1>1, <1>2
  <2> QED
    BY <1>3, <2>1
<1> QED
  BY <1>2, <1>3 DEF Next

LoadInv ==
  /\ toEgress \in Seq(Marked) /\ toAuxIngress \in Seq(Marked)
  /\ ground_truth_cnt \in [Category -> Nat] /\ sent \in [Port -> Nat]
  /\ LoadNotUnderstated

\* No packet has been sent or counted.
LEMMA InitLoadInv == Init => LoadInv
  BY DEF Init, LoadInv, LoadNotUnderstated, Category, Port

\* The packet setup_forward.py sends to the escalation port is one that
\* ig_statistic counts for the IMIS.
LEMMA StepLoadInv == LoadInv /\ [Next]_vars => LoadInv'
<1> SUFFICES ASSUME LoadInv, [Next]_vars PROVE LoadInv'
  OBVIOUS
<1>1. ASSUME NEW c \in BOOLEAN, NEW r \in BOOLEAN, NEW f \in BOOLEAN,
             MayEnter(c, r, f), SwitchIngress(c, r, f)
      PROVE  LoadInv'
  BY <1>1, EntersMarked, MarkedFed DEF SwitchIngress, LoadInv, LoadNotUnderstated, auxCnts
<1>2. CASE RecirculatedIngress
  BY <1>2 DEF RecirculatedIngress, LoadInv, LoadNotUnderstated, auxCnts
<1>3. ASSUME NEW need \in BOOLEAN, SwitchEgress(need) PROVE LoadInv'
  BY <1>3, MarkedTaken, MarkedFed DEF SwitchEgress, LoadInv, LoadNotUnderstated, auxCnts
<1>4. CASE AuxIngress
  <2> DEFINE pkt == Head(toAuxIngress)
             imis == ground_truth_cnt["IMIS"] + ground_truth_cnt["collision_IMIS"]
  <2>1. pkt \in Marked /\ toAuxIngress' \in Seq(Marked) /\ toEgress' = toEgress
    BY <1>4, MarkedTaken DEF AuxIngress, LoadInv
  <2>2. pkt.collision \in BOOLEAN /\ pkt.use_rnn \in BOOLEAN /\ pkt.flag \in BOOLEAN
         /\ pkt.use_per_packet \in BOOLEAN
    BY <2>1 DEF Marked, Packet
  <2>3. Counted(pkt) \in Category /\ Forward(pkt) \in Port
    BY DEF Counted, Category, Forward, Port
  <2>4. /\ ground_truth_cnt' = [ground_truth_cnt EXCEPT ![Counted(pkt)] = @ + 1]
        /\ sent' = [sent EXCEPT ![Forward(pkt)] = @ + 1]
    BY <1>4 DEF AuxIngress
  <2>5. Forward(pkt) = "escalation_port" => Counted(pkt) \in {"IMIS", "collision_IMIS"}
    BY <2>1, <2>2, Zenon DEF Marked, Forward, Counted
  <2> HIDE DEF pkt
  <2>6. ground_truth_cnt' \in [Category -> Nat] /\ sent' \in [Port -> Nat]
    BY <2>3, <2>4 DEF LoadInv
  <2>7. imis' >= imis /\ (Counted(pkt) \in {"IMIS", "collision_IMIS"} => imis' = imis + 1)
    <3>1. \A k \in Category : /\ ground_truth_cnt[k] \in Nat
                             /\ ground_truth_cnt'[k] = ground_truth_cnt[k]
                                                        + (IF k = Counted(pkt) THEN 1 ELSE 0)
      BY <2>3, <2>4 DEF LoadInv
    <3>2. "IMIS" \in Category /\ "collision_IMIS" \in Category /\ "IMIS" # "collision_IMIS"
      BY DEF Category
    <3> QED
      BY <3>1, <3>2
  <2>8. sent'["escalation_port"]
          = sent["escalation_port"] + (IF Forward(pkt) = "escalation_port" THEN 1 ELSE 0)
    BY <2>3, <2>4 DEF LoadInv, Port
  <2>9. imis \in Nat /\ imis' \in Nat /\ sent["escalation_port"] \in Nat
         /\ imis >= sent["escalation_port"]
    BY <2>6, SMTT(20) DEF LoadInv, LoadNotUnderstated, Category, Port
  <2>10. LoadNotUnderstated'
    BY <2>5, <2>7, <2>8, <2>9 DEF LoadNotUnderstated
  <2> QED
    BY <2>1, <2>6, <2>10 DEF LoadInv
<1>5. CASE AuxEgressNormal \/ AuxEgressMirrored \/ LoseMirrored \/ UNCHANGED vars
  BY <1>5 DEF AuxEgressNormal, AuxEgressMirrored, LoseMirrored, vars, wires, auxCnts,
              LoadInv, LoadNotUnderstated
<1> QED
  BY <1>1, <1>2, <1>3, <1>4, <1>5, NextCases

\* Whatever mixture of packets arrives and however they overtake the statistics,
\* the two categories of the IMIS cover what was sent to its port.
THEOREM LoadCovered == Spec => []LoadNotUnderstated
<1>1. LoadInv => LoadNotUnderstated
  BY DEF LoadInv
<1> QED
  BY <1>1, InitLoadInv, StepLoadInv, PTL DEF Spec
-----------------------------------------------------------------------------
\* Where on a wire the packets are that ig_statistic will count for the IMIS
\* on account of a collision, and how many.
ToImis == {pkt \in Marked : pkt.collision /\ ~pkt.use_per_packet /\ ~pkt.flag}
Places(w) == {i \in DOMAIN w : w[i] \in ToImis}
Waiting(w) == Cardinality(Places(w))

\* A wire has finitely many places, and an empty one none.
LEMMA WaitingType ==
  ASSUME NEW w \in Seq(Marked)
  PROVE  IsFiniteSet(Places(w)) /\ Waiting(w) \in Nat
<1>1. Places(w) \in SUBSET (1 .. Len(w)) /\ Len(w) \in Nat
  BY DEF Places
<1>2. IsFiniteSet(1 .. Len(w))
  BY <1>1, FS_Interval
<1>3. IsFiniteSet(Places(w))
  BY <1>1, <1>2, FS_Subset
<1> QED
  BY <1>3, FS_CardinalityType DEF Waiting

LEMMA WaitingNone == Waiting(<< >>) = 0
<1>1. Places(<< >>) = {}
  BY DEF Places
<1> QED
  BY <1>1, FS_EmptySet DEF Waiting

\* What is put on a wire waits on it.
LEMMA WaitingFed ==
  ASSUME NEW w \in Seq(Marked), NEW pkt \in Marked
  PROVE  Waiting(Append(w, pkt)) = Waiting(w) + (IF pkt \in ToImis THEN 1 ELSE 0)
<1> DEFINE n == Len(w) + 1
<1>1. /\ n \in Nat /\ n \notin Places(w) /\ DOMAIN Append(w, pkt) = 1 .. n
      /\ DOMAIN w = 1 .. Len(w) /\ Append(w, pkt)[n] = pkt
      /\ \A i \in DOMAIN w : Append(w, pkt)[i] = w[i]
  BY DEF Places
<1>2. Places(Append(w, pkt)) = IF pkt \in ToImis THEN Places(w) \cup {n} ELSE Places(w)
  <2> SUFFICES ASSUME NEW i
               PROVE  i \in Places(Append(w, pkt)) <=>
                        i \in Places(w) \/ (i = n /\ pkt \in ToImis)
    BY Zenon
  <2>1. CASE i = n
    BY <2>1, <1>1 DEF Places
  <2>2. CASE i # n
    <3>1. i \in 1 .. n <=> i \in 1 .. Len(w)
      BY <2>2
    <3> HIDE DEF n
    <3> QED
      BY <2>2, <3>1, <1>1 DEF Places
  <2> QED
    BY <2>1, <2>2
<1> QED
  <2>1. CASE pkt \in ToImis
    BY <2>1, <1>1, <1>2, WaitingType, FS_AddElement DEF Waiting
  <2>2. CASE pkt \notin ToImis
    <3>1. Waiting(w) \in Nat /\ Waiting(Append(w, pkt)) = Waiting(w)
      BY <2>2, <1>2, WaitingType DEF Waiting
    <3> QED
      BY <3>1, <2>2
  <2> QED
    BY <2>1, <2>2

\* What is taken from a wire no longer waits on it: the others move up one.
LEMMA WaitingTaken ==
  ASSUME NEW w \in Seq(Marked), w # << >>
  PROVE  Waiting(w) = Waiting(Tail(w)) + (IF Head(w) \in ToImis THEN 1 ELSE 0)
<1> DEFINE t == Tail(w)
           later == Places(w) \ {1}
           up == [i \in Places(t) |-> i + 1]
<1>1. /\ t \in Seq(Marked) /\ Len(w) \in Nat /\ DOMAIN w = 1 .. Len(w) /\ 1 \in DOMAIN w
      /\ DOMAIN t = 1 .. (Len(w) - 1) /\ \A i \in DOMAIN t : t[i] = w[i + 1]
      /\ Head(w) = w[1]
  OBVIOUS
<1>2. up \in Bijection(Places(t), later)
  <2>1. ASSUME NEW i \in Places(t) PROVE i \in Nat /\ i + 1 \in later
    BY <1>1 DEF Places
  <2>2. ASSUME NEW j \in later PROVE \E i \in Places(t) : j = i + 1
    <3>1. j \in 1 .. Len(w) /\ j # 1 /\ w[j] \in ToImis
      BY <1>1 DEF Places
    <3>2. j - 1 \in 1 .. (Len(w) - 1) /\ j = (j - 1) + 1
      BY <3>1, <1>1
    <3>3. t[j - 1] = w[j]
      BY <3>2, <1>1
    <3> QED
      BY <3>1, <3>2, <3>3, <1>1 DEF Places
  <2> HIDE DEF later, t
  <2>3. up \in [Places(t) -> later]
    BY <2>1
  <2>4. \A i, j \in Places(t) : up[i] = up[j] => i = j
    BY <2>1
  <2>5. \A j \in later : \E i \in Places(t) : up[i] = j
    BY <2>2
  <2> HIDE DEF up
  <2>6. up \in Injection(Places(t), later)
    BY <2>3, <2>4 DEF Injection, IsInjective
  <2>7. up \in Surjection(Places(t), later)
    BY <2>3, <2>5 DEF Surjection
  <2> QED
    BY <2>6, <2>7 DEF Bijection
<1> HIDE DEF t, up
<1>3. Cardinality(later) = Waiting(t)
  <2>1. IsFiniteSet(Places(t))
    BY <1>1, WaitingType
  <2>2. ExistsBijection(Places(t), later)
    BY <1>2 DEF ExistsBijection
  <2> QED
    BY <2>1, <2>2, FS_Bijection, Zenon DEF Waiting
<1>4. Cardinality(later) = IF 1 \in Places(w) THEN Waiting(w) - 1 ELSE Waiting(w)
  BY WaitingType, FS_RemoveElement DEF Waiting
<1>5. 1 \in Places(w) <=> Head(w) \in ToImis
  BY <1>1 DEF Places
<1>6. Waiting(w) \in Nat /\ Waiting(t) \in Nat
  BY <1>1, WaitingType
<1> QED
  BY <1>3, <1>4, <1>5, <1>6 DEF t
-----------------------------------------------------------------------------
\* The packets ig_statistic counted for a collision, and those it still will.
Due == ground_truth_cnt["collision_IMIS"] + Waiting(toAuxIngress) + Waiting(toEgress)

\* They exceed the share of the cycles that are over by no more than what the
\* present one has escalated; WithinBudget speaks of the present one only.
CyclesInv ==
  /\ BudgetInv /\ TypeOK
  /\ toEgress \in Seq(Marked) /\ toAuxIngress \in Seq(Marked)
  /\ Due * Den + cycle * Num <= r_ig_global_pkt_cnt * Num + escalated * Den

\* One packet at pipe A ingress, which may be one more that is due.
LEMMA PacketAffordable ==
  ASSUME BudgetInv, NEW n \in {0, 1}, Escalated(n), Advance, n = 1 => Below,
         NEW d \in 0 .. n, NEW due \in Nat, NEW arrived \in Nat,
         due * Den + cycle * Num <= arrived * Num + escalated * Den
  PROVE  (due + d) * Den + cycle' * Num <= (arrived + 1) * Num + escalated' * Den
<1> USE BudgetAssumption
<1> DEFINE t == Threshold(cycle)
           D == due * Den    C == cycle * Num    A == arrived * Num    E == escalated * Den
<1>1. /\ cycle \in Nat /\ cycle = global_pkt_cnt /\ escalated \in Nat /\ escalated <= t
      /\ global_collision_escalation_cnt \in Nat
      /\ escalated <= global_collision_escalation_cnt
  BY DEF BudgetInv, BudgetTypeOK
<1>2. t \in Nat /\ t * Den <= C
  BY <1>1, ThresholdShare
<1>3. escalated + n <= t
  BY <1>1, <1>2 DEF Below
<1> HIDE DEF t
<1>4. (escalated + n) * Den <= t * Den
  BY <1>1, <1>2, <1>3, SMT
<1>5. /\ D \in Nat /\ C \in Nat /\ A \in Nat /\ E \in Nat /\ t * Den \in Nat
      /\ D + C <= A + E
  BY <1>1, <1>2, SMT
<1>6. (due + d) * Den = D + d * Den /\ (arrived + 1) * Num = A + Num
      /\ (escalated + n) * Den = E + n * Den
  BY <1>1, SMT
<1>7. d * Den \in Nat /\ n * Den \in Nat /\ d * Den <= n * Den
  BY SMT
<1>8. CASE global_pkt_cnt = Cycle - 1
  <2>1. cycle' = 0 /\ escalated' = 0
    BY <1>8 DEF Advance, Escalated
  <2>2. cycle' * Num = 0 /\ escalated' * Den = 0
    BY <2>1, SMT
  <2> HIDE DEF D, C, A, E
  <2>3. D + d * Den <= A + Num
    BY <1>2, <1>4, <1>5, <1>6, <1>7
  <2> QED
    BY <2>2, <2>3, <1>5, <1>6
<1>9. CASE global_pkt_cnt # Cycle - 1
  <2>1. cycle' = cycle + 1 /\ escalated' = escalated + n
    BY <1>9 DEF Advance, Escalated
  <2>2. cycle' * Num = C + Num /\ escalated' * Den = E + n * Den
    BY <2>1, <1>1, SMT
  <2> HIDE DEF D, C, A, E
  <2> QED
    BY <2>2, <1>5, <1>6, <1>7
<1> QED
  BY <1>8, <1>9

\* Nothing is due before the first packet.
LEMMA InitCyclesInv == Init => CyclesInv
<1> SUFFICES ASSUME Init PROVE CyclesInv
  OBVIOUS
<1>1. BudgetInv /\ TypeOK
  BY BudgetInitInv, InitStatInv DEF Init, StatInv
<1>2. Due = 0
  BY WaitingNone DEF Init, Due, Category
<1>3. 0 * Den + 0 * Num <= 0 * Num + 0 * Den
  BY BudgetAssumption, SMT
<1> QED
  BY <1>1, <1>2, <1>3 DEF Init, BudgetInit, CyclesInv

\* Every stage keeps what is due within what was escalated.
LEMMA StepCyclesInv == CyclesInv /\ StatInv /\ [Next]_vars => CyclesInv'
<1> SUFFICES ASSUME CyclesInv, StatInv, [Next]_vars PROVE CyclesInv'
  OBVIOUS
<1>0. /\ BudgetInv /\ TypeOK /\ toEgress \in Seq(Marked) /\ toAuxIngress \in Seq(Marked)
      /\ Due \in Nat /\ Waiting(toEgress) \in Nat /\ Waiting(toAuxIngress) \in Nat
      /\ ground_truth_cnt["collision_IMIS"] \in Nat
      /\ Due * Den + cycle * Num <= r_ig_global_pkt_cnt * Num + escalated * Den
  BY WaitingType DEF CyclesInv, TypeOK, Due, Category
<1>t. TypeOK'
  BY StepStatInv DEF StatInv
\* Pipe A ingress: at most what it escalates becomes due.
<1>i. ASSUME NEW n \in {0, 1}, Escalated(n), Advance, n = 1 => Below, BudgetInv',
             NEW d \in 0 .. n, Due' = Due + d,
             toEgress' \in Seq(Marked), toAuxIngress' \in Seq(Marked),
             r_ig_global_pkt_cnt' = r_ig_global_pkt_cnt + 1
      PROVE  CyclesInv'
  <2>1. r_ig_global_pkt_cnt \in Nat
    BY <1>0 DEF TypeOK
  <2>2. (Due + d) * Den + cycle' * Num <= (r_ig_global_pkt_cnt + 1) * Num + escalated' * Den
    BY <1>i, <1>0, <2>1, PacketAffordable
  <2> QED
    BY <1>i, <1>t, <2>2 DEF CyclesInv
\* Another stage: what is due moves on.
<1>k. ASSUME UNCHANGED budgetVars, Due' = Due, r_ig_global_pkt_cnt' = r_ig_global_pkt_cnt,
             toEgress' \in Seq(Marked), toAuxIngress' \in Seq(Marked)
      PROVE  CyclesInv'
  <2>1. BudgetInv'
    BY <1>k, <1>0, StepBudgetInv
  <2> QED
    BY <1>k, <1>0, <1>t, <2>1 DEF CyclesInv, budgetVars
<1>1. ASSUME NEW c \in BOOLEAN, NEW r \in BOOLEAN, NEW f \in BOOLEAN,
             MayEnter(c, r, f), SwitchIngress(c, r, f)
      PROVE  CyclesInv'
  <2> DEFINE pkt == [collision |-> c, use_rnn |-> r, flag |-> f,
                     use_per_packet |-> c /\ ~Below]
             d == IF pkt \in ToImis THEN 1 ELSE 0
             n == IF c /\ Below THEN 1 ELSE 0
  <2>1. pkt \in Marked
    BY <1>1, EntersMarked
  <2>2. /\ toEgress' = Append(toEgress, pkt) /\ toAuxIngress' = toAuxIngress
        /\ r_ig_global_pkt_cnt' = r_ig_global_pkt_cnt + 1
        /\ ground_truth_cnt' = ground_truth_cnt
    BY <1>1 DEF SwitchIngress, auxCnts
  <2>3. IF c THEN Escalate \/ Spent ELSE Skip \/ Spent
    BY <1>1 DEF SwitchIngress
  <2>4. BudgetInv'
    BY <2>3, <1>0, StepBudgetInv DEF BudgetNext
  <2>5. Escalated(n) /\ Advance /\ (n = 1 => Below) /\ n \in {0, 1}
    BY <2>3 DEF Escalate, Skip, Spent
  <2>6. d \in 0 .. n
    <3>1. pkt \in ToImis => c /\ Below
      BY DEF ToImis
    <3> QED
      BY <3>1
  <2>7. toEgress' \in Seq(Marked) /\ Due' = Due + d
    <3> HIDE DEF pkt
    <3>1. toEgress' \in Seq(Marked) /\ Waiting(toEgress') = Waiting(toEgress) + d
      BY <2>1, <2>2, <1>0, MarkedFed, WaitingFed
    <3>2. Waiting(toAuxIngress') = Waiting(toAuxIngress)
      BY <2>2
    <3> QED
      BY <3>1, <3>2, <2>2, <1>0 DEF Due
  <2> HIDE DEF n, d
  <2> QED
    BY <2>2, <2>4, <2>5, <2>6, <2>7, <1>0, <1>i
<1>2. CASE RecirculatedIngress
  <2>1. Recirculated /\ BudgetInv'
    BY <1>2, <1>0, StepBudgetInv DEF RecirculatedIngress, BudgetNext
  <2>2. Due' = Due + 0 /\ UNCHANGED <<toEgress, toAuxIngress>>
        /\ r_ig_global_pkt_cnt' = r_ig_global_pkt_cnt + 1
    BY <1>2, <1>0 DEF RecirculatedIngress, auxCnts, Due
  <2>3. Escalated(0) /\ Advance
    BY <2>1 DEF Recirculated
  <2> QED
    BY <2>1, <2>2, <2>3, <1>0, <1>i
<1>3. ASSUME NEW need \in BOOLEAN, SwitchEgress(need) PROVE CyclesInv'
  <2>1. /\ toEgress # << >> /\ toEgress' = Tail(toEgress)
        /\ toAuxIngress' = Append(toAuxIngress, Head(toEgress))
        /\ UNCHANGED budgetVars /\ ground_truth_cnt' = ground_truth_cnt
        /\ r_ig_global_pkt_cnt' = r_ig_global_pkt_cnt
    BY <1>3 DEF SwitchEgress, ingressCnts, auxCnts
  <2>2. /\ toEgress' \in Seq(Marked) /\ toAuxIngress' \in Seq(Marked)
        /\ Head(toEgress) \in Marked
    BY <2>1, <1>0, MarkedTaken, MarkedFed
  <2>3. /\ Waiting(toEgress) = Waiting(toEgress') + (IF Head(toEgress) \in ToImis THEN 1 ELSE 0)
        /\ Waiting(toAuxIngress') = Waiting(toAuxIngress)
                                      + (IF Head(toEgress) \in ToImis THEN 1 ELSE 0)
        /\ Waiting(toEgress') \in Nat
    BY <2>1, <2>2, <1>0, WaitingTaken, WaitingFed, WaitingType
  <2>4. Due' = Due
    BY <2>1, <2>3, <1>0 DEF Due
  <2> QED
    BY <2>1, <2>2, <2>4, <1>k
<1>4. CASE AuxIngress
  <2> DEFINE pkt == Head(toAuxIngress)
             one == IF pkt \in ToImis THEN 1 ELSE 0
  <2>1. /\ toAuxIngress # << >> /\ toAuxIngress' = Tail(toAuxIngress) /\ toEgress' = toEgress
        /\ ground_truth_cnt' = [ground_truth_cnt EXCEPT ![Counted(pkt)] = @ + 1]
        /\ UNCHANGED budgetVars /\ r_ig_global_pkt_cnt' = r_ig_global_pkt_cnt
    BY <1>4 DEF AuxIngress, ingressCnts
  <2>2. pkt \in Marked /\ toAuxIngress' \in Seq(Marked)
    BY <2>1, <1>0, MarkedTaken
  <2>3. /\ Waiting(toAuxIngress) = Waiting(toAuxIngress') + one
        /\ Waiting(toAuxIngress') \in Nat /\ one \in Nat
    BY <2>1, <2>2, <1>0, WaitingTaken, WaitingType
  <2>4. pkt \in ToImis <=> Counted(pkt) = "collision_IMIS"
    BY <2>2, Zenon DEF ToImis, Counted
  <2>5. ground_truth_cnt'["collision_IMIS"] = ground_truth_cnt["collision_IMIS"] + one
    BY <2>1, <2>4, <1>0 DEF TypeOK, Category
  <2> HIDE DEF one
  <2>6. Due' = Due
    BY <2>1, <2>3, <2>5, <1>0, SMTT(20) DEF Due
  <2> QED
    BY <2>1, <2>2, <2>6, <1>0, <1>k
<1>5. CASE AuxEgressNormal \/ AuxEgressMirrored \/ LoseMirrored \/ UNCHANGED vars
  <2>1. /\ UNCHANGED budgetVars /\ ground_truth_cnt' = ground_truth_cnt
        /\ toEgress' = toEgress /\ toAuxIngress' = toAuxIngress
        /\ r_ig_global_pkt_cnt' = r_ig_global_pkt_cnt
    BY <1>5 DEF AuxEgressNormal, AuxEgressMirrored, LoseMirrored, vars, wires, auxCnts,
                ingressCnts
  <2>2. Waiting(toEgress') = Waiting(toEgress) /\ Waiting(toAuxIngress') = Waiting(toAuxIngress)
    BY <2>1
  <2>3. Due' = Due
    BY <2>1, <2>2, <1>0 DEF Due
  <2> QED
    BY <2>1, <2>3, <1>0, <1>k
<1> QED
  BY <1>1, <1>2, <1>3, <1>4, <1>5, NextCases
-----------------------------------------------------------------------------
\* What the registers say of each other at any one moment.
Agree ==
  /\ CyclesInv /\ StatInv
  /\ r_aux_ig_global_pkt_cnt = Total

LEMMA InitAgree == Init => Agree
<1> SUFFICES ASSUME Init PROVE Agree
  OBVIOUS
<1>1. r_aux_ig_global_pkt_cnt = Total
  BY DEF Init, Total, Category
<1> QED
  BY <1>1, InitCyclesInv, InitStatInv DEF Agree

LEMMA StepAgree == Agree /\ [Next]_vars => Agree'
<1> SUFFICES ASSUME Agree, [Next]_vars PROVE Agree'
  OBVIOUS
<1>1. CyclesInv' /\ StatInv'
  BY StepCyclesInv, StepStatInv DEF Agree
<1>2. r_aux_ig_global_pkt_cnt' = Total'
  <2>1. CASE AuxIngress
    <3>1. Head(toAuxIngress) \in Packet
      BY <2>1, WireTaken DEF AuxIngress, Agree, StatInv, TypeOK
    <3>2. ground_truth_cnt \in [Category -> Nat] /\ Counted(Head(toAuxIngress)) \in Category
      BY <3>1, CountedCategory DEF Agree, StatInv, TypeOK
    <3>3. /\ ground_truth_cnt' = [ground_truth_cnt EXCEPT ![Counted(Head(toAuxIngress))] = @ + 1]
          /\ r_aux_ig_global_pkt_cnt' = r_aux_ig_global_pkt_cnt + 1
      BY <2>1 DEF AuxIngress
    <3>4. Total' = Total + 1
      BY <3>2, <3>3, TotalGrows DEF Total
    <3> QED
      BY <3>3, <3>4 DEF Agree
  <2>2. CASE UNCHANGED <<ground_truth_cnt, r_aux_ig_global_pkt_cnt>>
    BY <2>2 DEF Total, Agree
  <2>3. AuxIngress \/ UNCHANGED <<ground_truth_cnt, r_aux_ig_global_pkt_cnt>>
    BY NextCases DEF SwitchIngress, RecirculatedIngress, SwitchEgress, AuxEgressNormal,
                     AuxEgressMirrored, LoseMirrored, vars, auxCnts
  <2> QED
    BY <2>1, <2>2, <2>3
<1> QED
  BY <1>1, <1>2 DEF Agree

\* Total is covered by Aux Ig, this by Ig Total, and the share of the
\* collisions is that of all cycles together.
LEMMA AgreeBounds ==
  ASSUME Agree
  PROVE  /\ ground_truth_cnt \in [Category -> Nat]
         /\ r_ig_global_pkt_cnt \in Nat /\ r_ig_global_recir_pkt_cnt \in Nat
         /\ r_aux_ig_global_pkt_cnt \in Nat /\ r_aux_eg_global_to_recir_pkt_cnt \in Nat
         /\ r_aux_ig_global_pkt_cnt <= r_ig_global_pkt_cnt
         /\ r_ig_global_recir_pkt_cnt <= r_aux_eg_global_to_recir_pkt_cnt
         /\ ground_truth_cnt["collision_IMIS"] * Den <= r_ig_global_pkt_cnt * Num
<1> DEFINE gt == ground_truth_cnt["collision_IMIS"]
<1>1. TypeOK /\ Total \in Nat /\ Len(toEgress) \in Nat /\ Len(toAuxIngress) \in Nat
  BY DEF Agree, StatInv, TypeOK, Total, Category
<1>2. r_aux_ig_global_pkt_cnt <= r_ig_global_pkt_cnt
  BY <1>1 DEF Agree, StatInv, EveryPacketCounted, TypeOK
<1>3. r_ig_global_recir_pkt_cnt <= r_aux_eg_global_to_recir_pkt_cnt
  BY <1>1 DEF Agree, StatInv, EveryPacketCounted, TypeOK
<1>4. /\ BudgetInv /\ gt \in Nat /\ Due \in Nat /\ gt <= Due
      /\ cycle \in Nat /\ escalated \in Nat /\ r_ig_global_pkt_cnt \in Nat
      /\ Due * Den + cycle * Num <= r_ig_global_pkt_cnt * Num + escalated * Den
  BY <1>1, WaitingType DEF Agree, CyclesInv, TypeOK, Due, Category, BudgetInv, BudgetTypeOK
<1>5. escalated * Den <= cycle * Num
  <2> DEFINE t == Threshold(cycle)
  <2>1. escalated <= t
    BY <1>4 DEF BudgetInv
  <2>2. t \in Nat /\ t * Den <= cycle * Num
    BY <1>4, ThresholdShare
  <2> HIDE DEF t
  <2>3. escalated * Den <= t * Den
    BY <1>4, <2>1, <2>2, BudgetAssumption, SMT
  <2>4. escalated * Den \in Nat /\ t * Den \in Nat /\ cycle * Num \in Nat
    BY <1>4, <2>2, BudgetAssumption, SMT
  <2> QED
    BY <2>2, <2>3, <2>4, SMT
<1> HIDE DEF gt
<1>6. gt * Den <= Due * Den
  BY <1>4, BudgetAssumption, SMT
<1>7. /\ gt * Den \in Nat /\ Due * Den \in Nat /\ cycle * Num \in Nat
      /\ escalated * Den \in Nat /\ r_ig_global_pkt_cnt * Num \in Nat
  BY <1>4, BudgetAssumption, SMT
<1>8. gt * Den <= r_ig_global_pkt_cnt * Num
  BY <1>4, <1>5, <1>6, <1>7, SMT
<1> QED
  BY <1>1, <1>2, <1>3, <1>8 DEF TypeOK, gt

\* The eleven dumps, in their order.
LEMMA DumpOrder ==
  /\ Len(Dumps) = 11 /\ DOMAIN Dumps = 1 .. 11
  /\ Dumps[1] = "rnn" /\ Dumps[2] = "rnn_conf_mat" /\ Dumps[3] = "perpacket"
  /\ Dumps[4] = "perpacket_conf_mat" /\ Dumps[5] = "IMIS" /\ Dumps[6] = "pre_analysis"
  /\ Dumps[7] = "collision_IMIS" /\ Dumps[8] = "aux_ig_pkt" /\ Dumps[9] = "ig_pkt"
  /\ Dumps[10] = "ig_recir_pkt" /\ Dumps[11] = "aux_eg_to_recir_pkt"
  BY DEF Dumps

\* What each of them reads.
Reading == [i \in 1 .. 11 |-> Register(Dumps[i])]

LEMMA RegisterValues ==
  /\ Reading[1] = ground_truth_cnt["rnn"]
  /\ Reading[2] = ground_truth_cnt["rnn"]
  /\ Reading[3] = ground_truth_cnt["perpacket"]
  /\ Reading[4] = ground_truth_cnt["perpacket"]
  /\ Reading[5] = ground_truth_cnt["IMIS"]
  /\ Reading[6] = ground_truth_cnt["pre_analysis"]
  /\ Reading[7] = ground_truth_cnt["collision_IMIS"]
  /\ Reading[8] = r_aux_ig_global_pkt_cnt
  /\ Reading[9] = r_ig_global_pkt_cnt
  /\ Reading[10] = r_ig_global_recir_pkt_cnt
  /\ Reading[11] = r_aux_eg_global_to_recir_pkt_cnt
  BY DumpOrder DEF Register, Category, Reading
\* The registers never go down.
LEMMA RegistersGrow ==
  ASSUME Agree, [Next]_vars, NEW i \in 1 .. 11
  PROVE  /\ Reading[i] \in Nat /\ Reading[i]' \in Nat
         /\ Reading[i] <= Reading[i]'
<1>1. Agree'
  BY StepAgree
<1>2. /\ ground_truth_cnt \in [Category -> Nat] /\ ground_truth_cnt' \in [Category -> Nat]
      /\ r_ig_global_pkt_cnt \in Nat /\ r_ig_global_pkt_cnt' \in Nat
      /\ r_ig_global_recir_pkt_cnt \in Nat /\ r_ig_global_recir_pkt_cnt' \in Nat
      /\ r_aux_ig_global_pkt_cnt \in Nat /\ r_aux_ig_global_pkt_cnt' \in Nat
      /\ r_aux_eg_global_to_recir_pkt_cnt \in Nat /\ r_aux_eg_global_to_recir_pkt_cnt' \in Nat
  BY <1>1 DEF Agree, StatInv, TypeOK
<1>3. /\ r_ig_global_pkt_cnt <= r_ig_global_pkt_cnt'
      /\ r_ig_global_recir_pkt_cnt <= r_ig_global_recir_pkt_cnt'
      /\ r_aux_ig_global_pkt_cnt <= r_aux_ig_global_pkt_cnt'
      /\ r_aux_eg_global_to_recir_pkt_cnt <= r_aux_eg_global_to_recir_pkt_cnt'
  <2> DEFINE Grow == /\ r_ig_global_pkt_cnt' \in {r_ig_global_pkt_cnt, r_ig_global_pkt_cnt + 1}
                     /\ r_ig_global_recir_pkt_cnt'
                          \in {r_ig_global_recir_pkt_cnt, r_ig_global_recir_pkt_cnt + 1}
                     /\ r_aux_ig_global_pkt_cnt'
                          \in {r_aux_ig_global_pkt_cnt, r_aux_ig_global_pkt_cnt + 1}
                     /\ r_aux_eg_global_to_recir_pkt_cnt'
                          \in {r_aux_eg_global_to_recir_pkt_cnt,
                               r_aux_eg_global_to_recir_pkt_cnt + 1}
  <2>1. ASSUME NEW c, NEW r, NEW f, SwitchIngress(c, r, f) PROVE Grow
    BY <2>1 DEF SwitchIngress, auxCnts
  <2>2. ASSUME NEW need, SwitchEgress(need) PROVE Grow
    BY <2>2 DEF SwitchEgress, ingressCnts, auxCnts
  <2>3. ASSUME RecirculatedIngress \/ AuxIngress PROVE Grow
    BY <2>3 DEF RecirculatedIngress, AuxIngress, ingressCnts, auxCnts
  <2>4. ASSUME AuxEgressNormal \/ AuxEgressMirrored \/ LoseMirrored \/ UNCHANGED vars PROVE Grow
    BY <2>4 DEF AuxEgressNormal, AuxEgressMirrored, LoseMirrored, vars, ingressCnts, auxCnts
  <2>5. Grow
    BY <2>1, <2>2, <2>3, <2>4, NextCases
  <2> QED
    BY <2>5, <1>2
<1>4. \A c \in Category : ground_truth_cnt[c] <= ground_truth_cnt'[c]
  <2>1. \/ ground_truth_cnt' = ground_truth_cnt
        \/ ground_truth_cnt' = [ground_truth_cnt EXCEPT ![Counted(Head(toAuxIngress))] = @ + 1]
    BY NextCases DEF SwitchIngress, RecirculatedIngress, SwitchEgress, AuxIngress,
         AuxEgressNormal, AuxEgressMirrored, LoseMirrored, vars, auxCnts
  <2> QED
    BY <2>1, <1>2
<1>5. /\ Reading[1]' = ground_truth_cnt'["rnn"]
      /\ Reading[2]' = ground_truth_cnt'["rnn"]
      /\ Reading[3]' = ground_truth_cnt'["perpacket"]
      /\ Reading[4]' = ground_truth_cnt'["perpacket"]
      /\ Reading[5]' = ground_truth_cnt'["IMIS"]
      /\ Reading[6]' = ground_truth_cnt'["pre_analysis"]
      /\ Reading[7]' = ground_truth_cnt'["collision_IMIS"]
      /\ Reading[8]' = r_aux_ig_global_pkt_cnt'
      /\ Reading[9]' = r_ig_global_pkt_cnt'
      /\ Reading[10]' = r_ig_global_recir_pkt_cnt'
      /\ Reading[11]' = r_aux_eg_global_to_recir_pkt_cnt'
  BY DumpOrder DEF Register, Category, Reading
<1>6. {"rnn", "perpacket", "IMIS", "pre_analysis", "collision_IMIS"} = Category
  BY DEF Category
<1>7. i \in {1, 2, 3, 4, 5, 6, 7, 8, 9, 10, 11}
  OBVIOUS
<1>8. CASE i \in {1, 2, 3, 4, 5, 6, 7}
  BY <1>8, <1>2, <1>4, <1>5, <1>6, RegisterValues
<1>9. CASE i \in {8, 9, 10, 11}
  BY <1>9, <1>2, <1>3, <1>5, RegisterValues
<1> QED
  BY <1>7, <1>8, <1>9

\* What has been read was no more than the register holds now, and the figures
\* the report compares were compared when the later of them was read.
ReportInv ==
  /\ report \in Seq(Nat) /\ Len(report) <= 11
  /\ \A i \in 1 .. Len(report) : report[i] <= Reading[i]
  /\ Len(report) >= 8 =>
       report[1] + report[3] + report[5] + report[6] + report[7] <= report[8]
  /\ Len(report) >= 9 => report[8] <= report[9] /\ report[7] * Den <= report[9] * Num
  /\ Len(report) >= 11 => report[10] <= report[11]

\* The report is empty.
LEMMA InitReportInv == MonitorInit => ReportInv
  BY DEF MonitorInit, ReportInv

\* The traffic goes on: what was read stays below.
LEMMA TrafficReportInv == ReportInv /\ Agree /\ [Next]_vars /\ UNCHANGED report => ReportInv'
<1> SUFFICES ASSUME ReportInv, Agree, [Next]_vars, UNCHANGED report PROVE ReportInv'
  OBVIOUS
<1>1. ASSUME NEW i \in 1 .. Len(report)' PROVE report'[i] <= Reading[i]'
  <2>1. i \in 1 .. Len(report) /\ i \in 1 .. 11 /\ report'[i] = report[i] /\ report[i] \in Nat
         /\ report[i] <= Reading[i]
    BY <1>1 DEF ReportInv
  <2>2. /\ Reading[i] \in Nat /\ Reading[i]' \in Nat
        /\ Reading[i] <= Reading[i]'
    BY <2>1, RegistersGrow
  <2> QED
    BY <2>1, <2>2
<1> QED
  BY <1>1 DEF ReportInv

\* The next figure is read.
LEMMA DumpReportInv ==
  ReportInv /\ Agree /\ Len(report) < Len(Dumps) /\ Dump /\ UNCHANGED vars => ReportInv'
<1> SUFFICES ASSUME ReportInv, Agree, Len(report) < Len(Dumps), Dump, UNCHANGED vars
             PROVE  ReportInv'
  OBVIOUS
<1> DEFINE n == Len(report) + 1
           v == Reading[n]
<1>1. n \in 1 .. 11 /\ Len(report) \in Nat
  <2>1. Len(report) \in Nat /\ Len(report) < 11
    BY DumpOrder DEF ReportInv
  <2> QED
    BY <2>1
<1>2. v \in Nat
  BY <1>1, RegistersGrow
<1>3. report' = Append(report, v)
  BY <1>1 DEF Dump, Reading
<1> HIDE DEF n, v
<1>4. /\ report' \in Seq(Nat) /\ Len(report') = n /\ report'[n] = v
      /\ \A i \in 1 .. Len(report) : report'[i] = report[i] /\ report[i] \in Nat
  BY <1>1, <1>2, <1>3, SMTT(20) DEF ReportInv, n
<1>5. \A i \in 1 .. 11 : Reading[i]' = Reading[i]
  <2>1. UNCHANGED <<ground_truth_cnt, r_ig_global_pkt_cnt, r_ig_global_recir_pkt_cnt,
                    r_aux_ig_global_pkt_cnt, r_aux_eg_global_to_recir_pkt_cnt>>
    BY DEF vars, ingressCnts, auxCnts
  <2> QED
    BY <2>1 DEF Register, Reading
<1>6. ASSUME NEW i \in 1 .. Len(report)' PROVE report'[i] <= Reading[i]'
  <2>1. i \in 1 .. 11
    BY <1>1, <1>4
  <2>2. CASE i = n
    <3>1. report'[i] = v /\ Reading[i] = v
      BY <2>2, <1>4 DEF v
    <3>2. Reading[i]' = Reading[i]
      BY <2>1, <1>5
    <3> QED
      BY <3>1, <3>2, <1>2
  <2>3. CASE i # n
    <3>1. i \in 1 .. Len(report)
      BY <2>3, <1>1, <1>4 DEF n
    <3> QED
      BY <3>1, <2>1, <1>4, <1>5 DEF ReportInv
  <2> QED
    BY <2>2, <2>3
<1>7. ASSUME NEW k \in 1 .. 11, n > k
      PROVE  report'[k] = report[k] /\ report[k] \in Nat /\ report[k] <= Reading[k]
  BY <1>1, <1>4, <1>7, SMTT(20) DEF n, ReportInv
<1>8. Len(report') >= 8 =>
        report'[1] + report'[3] + report'[5] + report'[6] + report'[7] <= report'[8]
  <2>1. CASE n = 8
    <3>1. v = Total /\ ground_truth_cnt \in [Category -> Nat]
      BY <2>1, RegisterValues DEF v, Agree, StatInv, TypeOK
    <3>2. /\ report'[1] = report[1] /\ report[1] \in Nat /\ report[1] <= ground_truth_cnt["rnn"]
          /\ report'[3] = report[3] /\ report[3] \in Nat /\ report[3] <= ground_truth_cnt["perpacket"]
          /\ report'[5] = report[5] /\ report[5] \in Nat /\ report[5] <= ground_truth_cnt["IMIS"]
          /\ report'[6] = report[6] /\ report[6] \in Nat /\ report[6] <= ground_truth_cnt["pre_analysis"]
          /\ report'[7] = report[7] /\ report[7] \in Nat /\ report[7] <= ground_truth_cnt["collision_IMIS"]
      BY <2>1, <1>7, RegisterValues
    <3>3. /\ ground_truth_cnt["rnn"] \in Nat /\ ground_truth_cnt["perpacket"] \in Nat
          /\ ground_truth_cnt["IMIS"] \in Nat /\ ground_truth_cnt["pre_analysis"] \in Nat
          /\ ground_truth_cnt["collision_IMIS"] \in Nat
      BY <3>1 DEF Category
    <3>4. report[1] + report[3] + report[5] + report[6] + report[7] <= Total
      <4> DEFINE g1 == ground_truth_cnt["rnn"]             r1 == report[1]
                 g3 == ground_truth_cnt["perpacket"]       r3 == report[3]
                 g5 == ground_truth_cnt["IMIS"]            r5 == report[5]
                 g6 == ground_truth_cnt["pre_analysis"]    r6 == report[6]
                 g7 == ground_truth_cnt["collision_IMIS"]  r7 == report[7]
      <4>1. Total = g1 + g6 + g5 + g3 + g7
        BY DEF Total
      <4>2. /\ r1 \in Nat /\ r3 \in Nat /\ r5 \in Nat /\ r6 \in Nat /\ r7 \in Nat
            /\ g1 \in Nat /\ g3 \in Nat /\ g5 \in Nat /\ g6 \in Nat /\ g7 \in Nat
            /\ r1 <= g1 /\ r3 <= g3 /\ r5 <= g5 /\ r6 <= g6 /\ r7 <= g7
        BY <3>2, <3>3
      <4> HIDE DEF g1, g3, g5, g6, g7, r1, r3, r5, r6, r7
      <4>3. r1 + r3 + r5 + r6 + r7 <= Total
        BY <4>1, <4>2
      <4> QED
        BY <4>3 DEF r1, r3, r5, r6, r7
    <3> QED
      BY <2>1, <3>1, <3>2, <3>4, <1>4
  <2>2. CASE n > 8
    <3>1. /\ report'[1] = report[1] /\ report'[3] = report[3] /\ report'[5] = report[5]
          /\ report'[6] = report[6] /\ report'[7] = report[7] /\ report'[8] = report[8]
      BY <2>2, <1>1, <1>7
    <3> QED
      BY <2>2, <3>1, <1>1 DEF ReportInv, n
  <2> QED
    BY <2>1, <2>2, <1>1, <1>4
<1>9. Len(report') >= 9 =>
        report'[8] <= report'[9] /\ report'[7] * Den <= report'[9] * Num
  <2>1. CASE n = 9
    <3>1. /\ report'[8] = report[8] /\ report[8] \in Nat /\ report[8] <= r_aux_ig_global_pkt_cnt
          /\ report'[7] = report[7] /\ report[7] \in Nat
          /\ report[7] <= ground_truth_cnt["collision_IMIS"]
      BY <2>1, <1>7, RegisterValues
    <3>2. v = r_ig_global_pkt_cnt
      BY <2>1, RegisterValues DEF v
    <3>3. /\ r_aux_ig_global_pkt_cnt \in Nat /\ r_ig_global_pkt_cnt \in Nat
          /\ r_aux_ig_global_pkt_cnt <= r_ig_global_pkt_cnt
          /\ ground_truth_cnt["collision_IMIS"] \in Nat
          /\ ground_truth_cnt["collision_IMIS"] * Den <= r_ig_global_pkt_cnt * Num
      BY AgreeBounds DEF Category
    <3> DEFINE gt == ground_truth_cnt["collision_IMIS"]
               rep == report[7]
    <3> HIDE DEF gt, rep
    <3>4. rep * Den <= gt * Den
      <4>1. rep \in Nat /\ gt \in Nat /\ rep <= gt
        BY <3>1, <3>3 DEF gt, rep
      <4> QED
        BY <4>1, BudgetAssumption, SMT
    <3>5. rep * Den \in Nat /\ gt * Den \in Nat /\ r_ig_global_pkt_cnt * Num \in Nat
      BY <3>1, <3>3, BudgetAssumption, SMTT(20) DEF gt, rep
    <3>6. rep * Den <= r_ig_global_pkt_cnt * Num
      BY <3>3, <3>4, <3>5 DEF gt
    <3> QED
      BY <2>1, <3>1, <3>2, <3>3, <3>6, <1>4 DEF rep
  <2>2. CASE n > 9
    <3>1. report'[7] = report[7] /\ report'[8] = report[8] /\ report'[9] = report[9]
      BY <2>2, <1>1, <1>7
    <3> QED
      BY <2>2, <3>1, <1>1 DEF ReportInv, n
  <2> QED
    BY <2>1, <2>2, <1>1, <1>4
<1>10. Len(report') >= 11 => report'[10] <= report'[11]
  <2>1. ASSUME n = 11 PROVE report'[10] <= report'[11]
    <3>1. /\ report'[10] = report[10] /\ report[10] \in Nat
          /\ report[10] <= r_ig_global_recir_pkt_cnt
      BY <2>1, <1>7, RegisterValues
    <3>2. v = r_aux_eg_global_to_recir_pkt_cnt
      BY <2>1, RegisterValues DEF v
    <3> QED
      BY <2>1, <3>1, <3>2, <1>4, AgreeBounds
  <2> QED
    BY <2>1, <1>1, <1>4
<1> QED
  BY <1>1, <1>4, <1>6, <1>8, <1>9, <1>10 DEF ReportInv
\* The monitor reads, or the traffic takes a step.
LEMMA StepReportInv ==
  ReportInv /\ Agree /\ [MonitorNext]_<<vars, monitorVars>> => ReportInv'
<1>1. UNCHANGED <<vars, monitorVars>> => [Next]_vars /\ UNCHANGED report
  BY DEF monitorVars
<1>2. Next /\ UNCHANGED monitorVars => [Next]_vars /\ UNCHANGED report
  BY DEF monitorVars
<1>3. MonitorNext => (Next /\ UNCHANGED monitorVars)
                       \/ (Len(report) < Len(Dumps) /\ Dump /\ UNCHANGED vars)
  BY DEF MonitorNext, Running
<1> QED
  BY <1>1, <1>2, <1>3, TrafficReportInv, DumpReportInv, Zenon

\* The k-th figure is there when k have been read, and is what was read k-th.
LEMMA ShownFigure ==
  ASSUME ReportInv, NEW k \in 1 .. 11
  PROVE  /\ HasRead(Dumps[k]) <=> Len(report) >= k
         /\ Len(report) >= k => Shown(Dumps[k]) = report[k]
<1>1. Len(report) \in Nat /\ Len(report) <= 11 /\ DOMAIN report = 1 .. Len(report)
  BY DEF ReportInv
<1>2. \A i, j \in 1 .. 11 : Dumps[i] = Dumps[j] => i = j
  <2> SUFFICES ASSUME NEW i \in 1 .. 11, NEW j \in 1 .. 11, Dumps[i] = Dumps[j] PROVE i = j
    OBVIOUS
  <2>1. /\ i \in {1, 2, 3, 4, 5, 6, 7, 8, 9, 10, 11}
        /\ j \in {1, 2, 3, 4, 5, 6, 7, 8, 9, 10, 11}
    OBVIOUS
  <2> QED
    BY <2>1, DumpOrder
<1>3. \A i \in DOMAIN report : Dumps[i] = Dumps[k] <=> i = k
  <2> SUFFICES ASSUME NEW i \in DOMAIN report PROVE Dumps[i] = Dumps[k] <=> i = k
    OBVIOUS
  <2>1. i \in 1 .. 11
    BY <1>1
  <2> QED
    BY <2>1, <1>2, Zenon
<1>4. HasRead(Dumps[k]) <=> Len(report) >= k
  BY <1>1, <1>3 DEF HasRead
<1>5. ASSUME Len(report) >= k PROVE Shown(Dumps[k]) = report[k]
  <2>1. k \in DOMAIN report
    BY <1>1, <1>5
  <2>2. (CHOOSE i \in DOMAIN report : Dumps[i] = Dumps[k]) = k
    BY <2>1, <1>3
  <2> QED
    BY <2>2 DEF Shown
<1> QED
  BY <1>4, <1>5

\* In whatever order the dumps and the packets of both pipes alternate, and over
\* any number of cycles, the report is sound.
THEOREM MonitorReportSound == MonitorSpec => []ReportSound
<1>1. MonitorInit => Agree /\ ReportInv
  BY InitAgree, InitReportInv DEF MonitorInit
<1>2. [MonitorNext]_<<vars, monitorVars>> => [Next]_vars
  BY DEF MonitorNext
<1>3. ReportInv => ReportSound
  <2> SUFFICES ASSUME ReportInv PROVE ReportSound
    OBVIOUS
  <2>0. Len(report) \in Nat
    BY DEF ReportInv
  <2>1. HasRead("collision_IMIS") /\ HasRead("ig_pkt") =>
          Shown("collision_IMIS") * Den <= Shown("ig_pkt") * Num
    <3> SUFFICES ASSUME HasRead("ig_pkt")
                 PROVE  Shown("collision_IMIS") * Den <= Shown("ig_pkt") * Num
      OBVIOUS
    <3>1. Len(report) >= 9 /\ Shown("ig_pkt") = report[9]
      BY ShownFigure, DumpOrder
    <3>2. Len(report) >= 7
      BY <3>1, <2>0
    <3>3. Shown("collision_IMIS") = report[7]
      BY <3>2, ShownFigure, DumpOrder
    <3> QED
      BY <3>1, <3>3 DEF ReportInv
  <2>2. (\A c \in Category : HasRead(c)) /\ HasRead("aux_ig_pkt") =>
          Shown("rnn") + Shown("perpacket") + Shown("IMIS") + Shown("pre_analysis")
            + Shown("collision_IMIS") <= Shown("aux_ig_pkt")
    <3> SUFFICES ASSUME HasRead("aux_ig_pkt")
                 PROVE  Shown("rnn") + Shown("perpacket") + Shown("IMIS")
                          + Shown("pre_analysis") + Shown("collision_IMIS")
                          <= Shown("aux_ig_pkt")
      OBVIOUS
    <3>1. Len(report) >= 8 /\ Shown("aux_ig_pkt") = report[8]
      BY ShownFigure, DumpOrder
    <3>2. /\ Len(report) >= 1 /\ Len(report) >= 3 /\ Len(report) >= 5
          /\ Len(report) >= 6 /\ Len(report) >= 7
      BY <3>1, <2>0
    <3>3. /\ Shown("rnn") = report[1] /\ Shown("perpacket") = report[3]
          /\ Shown("IMIS") = report[5] /\ Shown("pre_analysis") = report[6]
          /\ Shown("collision_IMIS") = report[7]
      BY <3>2, ShownFigure, DumpOrder
    <3> QED
      BY <3>1, <3>3 DEF ReportInv
  <2>3. HasRead("aux_ig_pkt") /\ HasRead("ig_pkt") => Shown("aux_ig_pkt") <= Shown("ig_pkt")
    <3> SUFFICES ASSUME HasRead("ig_pkt") PROVE Shown("aux_ig_pkt") <= Shown("ig_pkt")
      OBVIOUS
    <3>1. Len(report) >= 9 /\ Shown("ig_pkt") = report[9]
      BY ShownFigure, DumpOrder
    <3>2. Len(report) >= 8
      BY <3>1, <2>0
    <3>3. Shown("aux_ig_pkt") = report[8]
      BY <3>2, ShownFigure, DumpOrder
    <3> QED
      BY <3>1, <3>3 DEF ReportInv
  <2>4. HasRead("ig_recir_pkt") /\ HasRead("aux_eg_to_recir_pkt") =>
          Shown("ig_recir_pkt") <= Shown("aux_eg_to_recir_pkt")
    <3> SUFFICES ASSUME HasRead("aux_eg_to_recir_pkt")
                 PROVE  Shown("ig_recir_pkt") <= Shown("aux_eg_to_recir_pkt")
      OBVIOUS
    <3>1. Len(report) >= 11 /\ Shown("aux_eg_to_recir_pkt") = report[11]
      BY ShownFigure, DumpOrder
    <3>2. Len(report) >= 10
      BY <3>1, <2>0
    <3>3. Shown("ig_recir_pkt") = report[10]
      BY <3>2, ShownFigure, DumpOrder
    <3> QED
      BY <3>1, <3>3 DEF ReportInv
  <2> QED
    BY <2>1, <2>2, <2>3, <2>4 DEF ReportSound
<1> QED
  BY <1>1, <1>2, <1>3, StepAgree, StepReportInv, PTL DEF MonitorSpec
=============================================================================
