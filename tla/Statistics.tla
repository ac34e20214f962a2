----------------------------- MODULE Statistics -----------------------------
(***************************************************************************)
(* The way of a packet through the two pipes of the testbed version and    *)
(* the registers packet_monitor.py reads: pipe A ingress, pipe B egress,   *)
(* pipe B ingress (statistics only), pipe A egress, and for a mirrored     *)
(* copy pipe A ingress again.  The budget for colliding packets is that of *)
(* CollisionBudget.  Classes are left out: a register array is its sum.    *)
(***************************************************************************)
EXTENDS CollisionBudget, Sequences

CONSTANTS MaxPackets,        \* bounds: packets that arrive in a behaviour,
          MaxUnderWay        \* packets between two stages when one arrives

ASSUME StatisticsAssumption == MaxPackets \in Nat /\ MaxUnderWay \in Nat

VARIABLES
  toEgress, toAuxIngress,    \* packets between two stages, oldest first
  toAuxEgress, mirrored,     \* how many, on their way to pipe A egress
  recirculating,             \* how many, on their way to pipe A ingress again
  r_ig_global_pkt_cnt, r_ig_global_recir_pkt_cnt,
  r_eg_global_pkt_cnt, r_eg_global_to_mirror_pkt_cnt,
  r_aux_ig_global_pkt_cnt,
  r_aux_eg_global_normal_pkt_cnt, r_aux_eg_global_to_recir_pkt_cnt,
  ground_truth_cnt,          \* the five r_global_*_ground_truth_cnt
  sent                       \* history: packets sent to a port

wires == <<toEgress, toAuxIngress, toAuxEgress, mirrored, recirculating>>
ingressCnts == <<r_ig_global_pkt_cnt, r_ig_global_recir_pkt_cnt>>
egressCnts == <<r_eg_global_pkt_cnt, r_eg_global_to_mirror_pkt_cnt>>
auxCnts == <<r_aux_ig_global_pkt_cnt, r_aux_eg_global_normal_pkt_cnt,
             r_aux_eg_global_to_recir_pkt_cnt, ground_truth_cnt, sent>>
vars == <<budgetVars, wires, ingressCnts, egressCnts, auxCnts>>

Port == {"escalation_port", "normal_port"}
Category == {"rnn", "pre_analysis", "IMIS", "perpacket", "collision_IMIS"}

Init ==
  /\ BudgetInit
  /\ toEgress = << >> /\ toAuxIngress = << >>
  /\ toAuxEgress = 0 /\ mirrored = 0 /\ recirculating = 0
  /\ r_ig_global_pkt_cnt = 0 /\ r_ig_global_recir_pkt_cnt = 0
  /\ r_eg_global_pkt_cnt = 0 /\ r_eg_global_to_mirror_pkt_cnt = 0
  /\ r_aux_ig_global_pkt_cnt = 0
  /\ r_aux_eg_global_normal_pkt_cnt = 0 /\ r_aux_eg_global_to_recir_pkt_cnt = 0
  /\ ground_truth_cnt = [c \in Category |-> 0]
  /\ sent = [p \in Port |-> 0]
-----------------------------------------------------------------------------
\* tab_execute_forward_action, as setup_forward.py fills it.
Forward(pkt) ==
  IF \/ pkt.collision /\ ~pkt.use_per_packet
     \/ pkt.use_rnn /\ ~pkt.collision /\ pkt.flag
  THEN "escalation_port" ELSE "normal_port"

UnderWay == Len(toEgress) + Len(toAuxIngress) + toAuxEgress + mirrored + recirculating

\* A packet from outside: the flow table says whether it collides, whether the
\* network looks at it and which flag the entry has.
SwitchIngress(collision, use_rnn, flag) ==
  LET pkt == [collision |-> collision, use_rnn |-> use_rnn, flag |-> flag,
              use_per_packet |-> collision /\ ~Below]
  IN
  /\ r_ig_global_pkt_cnt < MaxPackets /\ UnderWay < MaxUnderWay
  /\ IF collision THEN Escalate \/ Spent ELSE Skip \/ Spent
  /\ r_ig_global_pkt_cnt' = r_ig_global_pkt_cnt + 1
  /\ toEgress' = Append(toEgress, pkt)
  /\ UNCHANGED <<toAuxIngress, toAuxEgress, mirrored, recirculating,
                 r_ig_global_recir_pkt_cnt, egressCnts, auxCnts>>

\* Mutant: a recirculated packet is forwarded like any other.
RecirculatedForwarded ==
  /\ recirculating > 0
  /\ recirculating' = recirculating - 1
  /\ Recirculated
  /\ r_ig_global_pkt_cnt' = r_ig_global_pkt_cnt + 1
  /\ r_ig_global_recir_pkt_cnt' = r_ig_global_recir_pkt_cnt + 1
  /\ toEgress' = Append(toEgress, [collision |-> FALSE, use_rnn |-> TRUE, flag |-> TRUE,
                                   use_per_packet |-> FALSE])
  /\ UNCHANGED <<toAuxIngress, toAuxEgress, mirrored, egressCnts, auxCnts>>

\* A mirrored packet that has come round is counted and dropped.
RecirculatedIngress ==
  /\ recirculating > 0
  /\ recirculating' = recirculating - 1
  /\ Recirculated
  /\ r_ig_global_pkt_cnt' = r_ig_global_pkt_cnt + 1
  /\ r_ig_global_recir_pkt_cnt' = r_ig_global_recir_pkt_cnt + 1
  /\ UNCHANGED <<toEgress, toAuxIngress, toAuxEgress, mirrored, egressCnts, auxCnts>>

\* Only a packet the network looked at, of a flow without the flag, is mirrored.
SwitchEgress(need_escalation) ==
  LET pkt == Head(toEgress)
      n == IF need_escalation THEN 1 ELSE 0
  IN
  /\ toEgress # << >>
  /\ need_escalation => pkt.use_rnn /\ ~pkt.flag
  /\ toEgress' = Tail(toEgress)
  /\ toAuxIngress' = Append(toAuxIngress, pkt)
  /\ mirrored' = mirrored + n
  /\ r_eg_global_pkt_cnt' = r_eg_global_pkt_cnt + 1
  /\ r_eg_global_to_mirror_pkt_cnt' = r_eg_global_to_mirror_pkt_cnt + n
  /\ UNCHANGED <<budgetVars, toAuxEgress, recirculating, ingressCnts, auxCnts>>

\* Mutant: what the network looked at is counted for it, flag or not.
NetworkFirst(pkt) ==
  IF ~pkt.collision THEN IF pkt.use_rnn THEN "rnn" ELSE "pre_analysis"
  ELSE IF pkt.flag THEN "IMIS"
  ELSE IF pkt.use_per_packet THEN "perpacket" ELSE "collision_IMIS"

\* Which counter a packet falls into; the flag is that of the entry, whoever
\* owns it.
Counted(pkt) ==
  IF pkt.flag THEN "IMIS"
  ELSE IF ~pkt.collision THEN IF pkt.use_rnn THEN "rnn" ELSE "pre_analysis"
  ELSE IF pkt.use_per_packet THEN "perpacket" ELSE "collision_IMIS"

AuxIngress ==
  LET pkt == Head(toAuxIngress) IN
  /\ toAuxIngress # << >>
  /\ toAuxIngress' = Tail(toAuxIngress)
  /\ toAuxEgress' = toAuxEgress + 1
  /\ r_aux_ig_global_pkt_cnt' = r_aux_ig_global_pkt_cnt + 1
  /\ ground_truth_cnt' = [ground_truth_cnt EXCEPT ![Counted(pkt)] = @ + 1]
  /\ sent' = [sent EXCEPT ![Forward(pkt)] = @ + 1]
  /\ UNCHANGED <<budgetVars, toEgress, mirrored, recirculating, ingressCnts, egressCnts,
                 r_aux_eg_global_normal_pkt_cnt, r_aux_eg_global_to_recir_pkt_cnt>>

\* normal_md: the packet leaves.
AuxEgressNormal ==
  /\ toAuxEgress > 0
  /\ toAuxEgress' = toAuxEgress - 1
  /\ r_aux_eg_global_normal_pkt_cnt' = r_aux_eg_global_normal_pkt_cnt + 1
  /\ UNCHANGED <<budgetVars, toEgress, toAuxIngress, mirrored, recirculating, ingressCnts,
                 egressCnts, r_aux_ig_global_pkt_cnt, r_aux_eg_global_to_recir_pkt_cnt,
                 ground_truth_cnt, sent>>

\* The copy a mirror made goes round again.
AuxEgressMirrored ==
  /\ mirrored > 0
  /\ mirrored' = mirrored - 1
  /\ recirculating' = recirculating + 1
  /\ r_aux_eg_global_to_recir_pkt_cnt' = r_aux_eg_global_to_recir_pkt_cnt + 1
  /\ UNCHANGED <<budgetVars, toEgress, toAuxIngress, toAuxEgress, ingressCnts, egressCnts,
                 r_aux_ig_global_pkt_cnt, r_aux_eg_global_normal_pkt_cnt,
                 ground_truth_cnt, sent>>

\* A mirrored copy may be dropped between the pipes.
LoseMirrored ==
  /\ mirrored > 0
  /\ mirrored' = mirrored - 1
  /\ UNCHANGED <<budgetVars, toEgress, toAuxIngress, toAuxEgress, recirculating,
                 ingressCnts, egressCnts, auxCnts>>

Next ==
  \/ \E flag \in BOOLEAN :
       \/ SwitchIngress(TRUE, FALSE, flag)
       \/ SwitchIngress(FALSE, TRUE, flag)
  \/ SwitchIngress(FALSE, FALSE, FALSE)     \* the first packets of a flow have no flag
  \/ RecirculatedIngress
  \/ \E need_escalation \in BOOLEAN : SwitchEgress(need_escalation)
  \/ AuxIngress \/ AuxEgressNormal \/ AuxEgressMirrored \/ LoseMirrored

Spec == Init /\ [][Next]_vars
-----------------------------------------------------------------------------
\* The five categories of packet_monitor.py, for each its register array.
Total == ground_truth_cnt["rnn"] + ground_truth_cnt["pre_analysis"]
           + ground_truth_cnt["IMIS"] + ground_truth_cnt["perpacket"]
           + ground_truth_cnt["collision_IMIS"]

Packet == [collision : BOOLEAN, use_rnn : BOOLEAN, flag : BOOLEAN, use_per_packet : BOOLEAN]

TypeOK ==
  /\ toEgress \in Seq(Packet) /\ toAuxIngress \in Seq(Packet)
  /\ toAuxEgress \in Nat /\ mirrored \in Nat /\ recirculating \in Nat
  /\ r_ig_global_pkt_cnt \in Nat /\ r_ig_global_recir_pkt_cnt \in Nat
  /\ r_eg_global_pkt_cnt \in Nat /\ r_eg_global_to_mirror_pkt_cnt \in Nat
  /\ r_aux_ig_global_pkt_cnt \in Nat
  /\ r_aux_eg_global_normal_pkt_cnt \in Nat /\ r_aux_eg_global_to_recir_pkt_cnt \in Nat
  /\ ground_truth_cnt \in [Category -> Nat]

\* The total packet_monitor.py prints, once what is still under way is added, is
\* the number of packets that arrived: none is counted in two categories, and
\* none again when its copy comes round.  The copies it prints agree as well.
EveryPacketCounted ==
  /\ Total + Len(toEgress) + Len(toAuxIngress)
       = r_ig_global_pkt_cnt - r_ig_global_recir_pkt_cnt
  /\ Total = r_aux_eg_global_normal_pkt_cnt + toAuxEgress
  /\ r_aux_eg_global_to_recir_pkt_cnt = r_ig_global_recir_pkt_cnt + recirculating
  /\ r_eg_global_to_mirror_pkt_cnt >= r_aux_eg_global_to_recir_pkt_cnt + mirrored

\* The report never understates the load of the IMIS: at least as many packets
\* are counted for it as were sent to its port.  (It overstates it: a colliding
\* packet that finds the flag of the entry's owner stays on the switch and is
\* counted for the IMIS.)
LoadNotUnderstated ==
  ground_truth_cnt["IMIS"] + ground_truth_cnt["collision_IMIS"] >= sent["escalation_port"]
=============================================================================
