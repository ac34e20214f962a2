----------------------------- MODULE Escalation -----------------------------
(***************************************************************************)
(* One entry of the switch's flow table from the first packet to the       *)
(* escalation of the flow to the IMIS (BoS_normal.p4, BoS_testbed.p4 and   *)
(* the files they include).  The egress counts the packets the network is  *)
(* unsure about; when there are enough, the packet is mirrored, comes      *)
(* round again, and only then sets the flag in the ingress that sends the  *)
(* following packets of the flow to the IMIS.                              *)
(*                                                                         *)
(* Ingress and egress of a packet are one step: every register belongs to  *)
(* one stage and packets do not overtake each other on the way.  A         *)
(* mirrored packet returns later, after any number of others, or is lost.  *)
(* What the network and the thresholds say of a packet is free.            *)
(*                                                                         *)
(* The two versions differ in where a packet's time comes from.  Only the  *)
(* testbed version has a control plane, and with it a script that clears   *)
(* some of the registers while packets are under way.                      *)
(***************************************************************************)
EXTENDS FlowManager, Sequences

CONSTANTS W,            \* 7: the count from which the network runs
          TEsc,         \* t_esc
          ByteMax,      \* 255: what a bit<8> register can hold
          Period,       \* 128: results until the probabilities start again
          Delay,        \* how long a mirrored packet takes to come round
          MaxIdle,      \* bound: how long an entry may stay without a packet
          MaxClock,     \* bound: the clock
          MaxCount      \* bound: what the history counters count to

ASSUME EscalationAssumption ==
  /\ W \in Nat \ {0} /\ TEsc \in Nat \ {0} /\ Period \in Nat \ {0}
  /\ ByteMax \in Nat /\ TEsc <= ByteMax /\ (ByteMax + 1) % Period = 0
  \* A mirrored packet is back long before its flow can time out: microseconds
  \* against TIMEOUT = 256 ms.
  /\ Delay \in Nat /\ 2 * Delay <= Timeout
  /\ MaxIdle \in Nat /\ MaxIdle + Delay < Wrap

VARIABLES headerTime,       \* testbed version: the timestamp is in the packet
          flow_info, pkt_cnt_initial_8, stored_escalation_flag,
          intermediate_result_cnt, ambiguous_cnt,
          cpr,              \* how many results the six cpr registers sum up
          recirculating,    \* mirrored packets on their way, in order
          clock, seen,      \* the true time, and that of the entry's timestamp
          era,              \* since the entry was started: who did it, and what
          last              \* what happened to the last packet

vars == <<headerTime, flow_info, pkt_cnt_initial_8, stored_escalation_flag,
          intermediate_result_cnt, ambiguous_cnt, cpr, recirculating,
          clock, seen, era, last>>

Now == clock % Wrap

NewEra(id) == [id |-> id, results |-> 0, low |-> 0, mirrored |-> FALSE]

Nothing == [kind |-> "none", case |-> 0]

Init ==
  /\ headerTime \in BOOLEAN
  /\ flow_info = Cleared
  /\ pkt_cnt_initial_8 = 0 /\ stored_escalation_flag = FALSE
  /\ intermediate_result_cnt = 0 /\ ambiguous_cnt = 0 /\ cpr = 0
  /\ recirculating = << >>
  /\ clock = 0 /\ seen = 0
  /\ era = NewEra(NoId)
  /\ last = Nothing
-----------------------------------------------------------------------------
\* ra_ambiguous_cnt: mem_cell + 1 < t_esc in 8 bits, and a saturated increment.
NeedEscalation(cnt) == (cnt + 1) % (ByteMax + 1) >= TEsc

\* Mutant: the increment wraps.
WrappedInc(cnt) == (cnt + 1) % (ByteMax + 1)

SaturatedInc(cnt) == IF cnt < ByteMax THEN cnt + 1 ELSE cnt

\* Mutant: the count runs on over the packets the network skips.
ResultsOfAnyFlow(rnn) ==
  IF rnn THEN (intermediate_result_cnt + 1) % (ByteMax + 1) ELSE intermediate_result_cnt

\* ra_intermediate_result_cnt: restarted by every packet the network skips.
Results(rnn) == IF rnn THEN (intermediate_result_cnt + 1) % (ByteMax + 1) ELSE 0

\* The index into the thresholds, and whether the cpr registers start again.
Index == intermediate_result_cnt % Period

\* The network looked at the packet, with high or with low confidence.
Classify(id, low) ==
  LET need == low /\ NeedEscalation(ambiguous_cnt)
      mirror == need /\ ~stored_escalation_flag
  IN
  /\ intermediate_result_cnt' = Results(TRUE)
  /\ cpr' = IF Index = 0 THEN 1 ELSE cpr + 1
  /\ ambiguous_cnt' = IF low THEN SaturatedInc(ambiguous_cnt) ELSE ambiguous_cnt
  /\ recirculating' = IF mirror THEN Append(recirculating, [id |-> id, born |-> clock])
                                ELSE recirculating
  /\ era' = [era EXCEPT !.results = @ + 1, !.low = @ + (IF low THEN 1 ELSE 0),
                        !.mirrored = @ \/ mirror]

Case(id) == Predicate(flow_info, id, Now)

\* Mutant: the flag is not cleared when the entry changes hands.
FirstPacketKeepsFlag(id) ==
  /\ Case(id) >= 4
  /\ flow_info' = Updated(flow_info, id, Now)
  /\ pkt_cnt_initial_8' = 0
  /\ intermediate_result_cnt' = Results(FALSE)
  /\ ambiguous_cnt' = 0
  /\ era' = NewEra(id)
  /\ seen' = clock
  /\ last' = [kind |-> "packet", case |-> Case(id)]
  /\ UNCHANGED <<headerTime, stored_escalation_flag, cpr, recirculating, clock>>

\* Timeout: the entry, its counts and its flag start again; the egress clears
\* the count of ambiguous packets.
FirstPacket(id) ==
  /\ Case(id) >= 4
  /\ flow_info' = Updated(flow_info, id, Now)
  /\ pkt_cnt_initial_8' = 0
  /\ stored_escalation_flag' = FALSE
  /\ intermediate_result_cnt' = Results(FALSE)
  /\ ambiguous_cnt' = 0
  /\ era' = NewEra(id)
  /\ seen' = clock
  /\ last' = [kind |-> "packet", case |-> Case(id)]
  /\ UNCHANGED <<headerTime, cpr, recirculating, clock>>

\* The owner goes on; from its W+1st packet the network classifies.
OwnerPacket(id, low) ==
  LET cnt8 == IF pkt_cnt_initial_8 < W THEN pkt_cnt_initial_8 + 1 ELSE pkt_cnt_initial_8
      rnn == cnt8 = W
  IN
  /\ Case(id) = 1 /\ era.results < MaxCount
  /\ flow_info' = Updated(flow_info, id, Now)
  /\ pkt_cnt_initial_8' = cnt8
  /\ IF rnn THEN Classify(id, low)
     ELSE /\ intermediate_result_cnt' = Results(FALSE)
          /\ UNCHANGED <<cpr, ambiguous_cnt, recirculating, era>>
  /\ seen' = clock
  /\ last' = [kind |-> "packet", case |-> 1]
  /\ UNCHANGED <<headerTime, stored_escalation_flag, clock>>

\* Another flow owns the entry.  The packet is judged on its own or, within
\* the budget of module CollisionBudget, sent to the IMIS.
CollidingPacket(id) ==
  /\ Case(id) = 2
  /\ last' = [kind |-> "packet", case |-> 2]
  /\ UNCHANGED <<headerTime, flow_info, pkt_cnt_initial_8, stored_escalation_flag,
                 intermediate_result_cnt, ambiguous_cnt, cpr, recirculating, clock, seen, era>>

\* A mirrored packet comes round: it passes the flow table like any other, sets
\* the flag if its flow still owns the entry, and is dropped.
Recirculated ==
  LET pkt == Head(recirculating)
      time == IF headerTime THEN pkt.born ELSE clock
      case == Predicate(flow_info, pkt.id, time % Wrap)
  IN
  /\ recirculating # << >>
  /\ recirculating' = Tail(recirculating)
  /\ flow_info' = Updated(flow_info, pkt.id, time % Wrap)
  /\ stored_escalation_flag' = IF case >= 4 THEN FALSE
                               ELSE IF case = 1 THEN TRUE ELSE stored_escalation_flag
  /\ seen' = IF case = 2 THEN seen ELSE time
  /\ last' = [kind |-> "recirculated", case |-> case]
  /\ UNCHANGED <<headerTime, pkt_cnt_initial_8, intermediate_result_cnt, ambiguous_cnt, cpr, clock,
                 era>>

LoseMirrored ==
  /\ recirculating # << >>
  /\ recirculating' = Tail(recirculating)
  /\ last' = Nothing
  /\ UNCHANGED <<headerTime, flow_info, pkt_cnt_initial_8, stored_escalation_flag,
                 intermediate_result_cnt, ambiguous_cnt, cpr, clock, seen, era>>

\* cleanup.py clears the entry and its count of packets, and neither the flag nor
\* the registers of the egress.  It is run by hand between two experiments, when
\* no copy is under way.
CleanUp ==
  /\ headerTime /\ recirculating = << >>
  /\ flow_info' = Cleared
  /\ pkt_cnt_initial_8' = 0
  /\ last' = Nothing
  /\ UNCHANGED <<headerTime, stored_escalation_flag, intermediate_result_cnt, ambiguous_cnt,
                 cpr, recirculating, clock, seen, era>>

Tick ==
  /\ clock < MaxClock /\ (flow_info = Cleared \/ clock - seen < MaxIdle)
  /\ \A i \in 1 .. Len(recirculating) : clock - recirculating[i].born < Delay
  /\ clock' = clock + 1
  /\ UNCHANGED <<headerTime, flow_info, pkt_cnt_initial_8, stored_escalation_flag,
                 intermediate_result_cnt, ambiguous_cnt, cpr, recirculating, seen, era, last>>

Next == \/ \E id \in Id : \/ FirstPacket(id)
                          \/ \E low \in BOOLEAN : OwnerPacket(id, low)
                          \/ CollidingPacket(id)
        \/ Recirculated \/ LoseMirrored \/ CleanUp
        \/ Tick

Spec == Init /\ [][Next]_vars
-----------------------------------------------------------------------------
TypeOK ==
  /\ headerTime \in BOOLEAN
  /\ flow_info \in FlowInfo
  /\ pkt_cnt_initial_8 \in 0 .. W
  /\ stored_escalation_flag \in BOOLEAN
  /\ intermediate_result_cnt \in 0 .. ByteMax /\ ambiguous_cnt \in 0 .. ByteMax
  /\ cpr \in 0 .. Period
  /\ \A i \in 1 .. Len(recirculating) : recirculating[i].id \in Id
  /\ clock \in Nat /\ seen \in 0 .. clock

\* A flow is escalated only for what it did itself since its entry was started:
\* it never inherits the flag of the flow that had the entry before, nor does
\* its own flag outlive a timeout, whatever comes round late, nor the script,
\* which leaves it set.
FlagEarned ==
  stored_escalation_flag /\ flow_info # Cleared =>
    era.id = flow_info.id /\ era.mirrored /\ era.low >= TEsc

\* The registers of the egress count for the present owner only: the ambiguous
\* packets up to what the register holds, and the network's results.
CountsOfOwner ==
  /\ flow_info # Cleared => flow_info.id = era.id
  /\ ambiguous_cnt = IF era.low < ByteMax THEN era.low ELSE ByteMax
  /\ intermediate_result_cnt = era.results % (ByteMax + 1)

\* The thresholds a packet is compared with are those for as many results as
\* the cpr registers sum up ("number of rnn intermediate result - 1",
\* headers.p4), and these are results of the present owner.
ThresholdMatchesSum ==
  era.results > 0 => /\ cpr = ((era.results - 1) % Period) + 1
                     /\ cpr <= era.results

\* Once escalated a flow stays escalated until a packet that is not
\* recirculated finds its entry timed out (normal version).
EscalationHolds ==
  [][stored_escalation_flag /\ ~stored_escalation_flag'
       => headerTime \/ last'.kind = "packet"]_vars

\* BoS_testbed.p4:169 and BoS_normal.p4:161, of the case predicate >= 4:
\* "should be normal packet (i.e., not recirculated)".
TimeoutIsNormalPacket == last.kind = "recirculated" => last.case < 4
=============================================================================
