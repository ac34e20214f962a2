--------------------------- MODULE PacketMonitor ---------------------------
(***************************************************************************)
(* packet_monitor.py beside the traffic.  The script reads the registers   *)
(* of both pipes one after the other while packets go on being counted,    *)
(* and asserts that two of them agree; what it prints was never true at    *)
(* one moment.  It reads once and is over; when it is started is open.     *)
(* With classes left out the confusion matrix of a category is the number  *)
(* of packets in it: AuxIngress counts a packet in both or in none.        *)
(***************************************************************************)
EXTENDS Statistics

CONSTANT MaxWatched      \* bound: packets that arrive before the report is over

ASSUME MonitorAssumption == MaxWatched \in Nat

VARIABLES report,      \* what was read so far, in the order of Dumps
          asserting    \* the assert the script ended with, or 0

monitorVars == <<report, asserting>>

\* Mutant: the packets that arrived are read before those that were counted.
DumpsArrivedFirst ==
  <<"ig_pkt", "ig_recir_pkt", "rnn", "rnn_conf_mat", "perpacket", "perpacket_conf_mat", "IMIS",
    "pre_analysis", "collision_IMIS", "aux_ig_pkt", "aux_eg_to_recir_pkt">>

\* The dump() calls in their order, without the three nothing is compared with.
Dumps ==
  <<"rnn", "rnn_conf_mat", "perpacket", "perpacket_conf_mat", "IMIS", "pre_analysis",
    "collision_IMIS", "aux_ig_pkt", "ig_pkt", "ig_recir_pkt", "aux_eg_to_recir_pkt">>

Register(r) ==
  CASE r \in Category -> ground_truth_cnt[r]
    [] r = "rnn_conf_mat" -> ground_truth_cnt["rnn"]
    [] r = "perpacket_conf_mat" -> ground_truth_cnt["perpacket"]
    [] r = "aux_ig_pkt" -> r_aux_ig_global_pkt_cnt
    [] r = "ig_pkt" -> r_ig_global_pkt_cnt
    [] r = "ig_recir_pkt" -> r_ig_global_recir_pkt_cnt
    [] r = "aux_eg_to_recir_pkt" -> r_aux_eg_global_to_recir_pkt_cnt

HasRead(r) == \E i \in DOMAIN report : Dumps[i] = r
Shown(r) == report[CHOOSE i \in DOMAIN report : Dumps[i] = r]

\* One dump; a matrix is compared with the ground truth read before it.
Dump ==
  LET next == Dumps[Len(report) + 1]
      value == Register(next)
  IN
  /\ report' = Append(report, value)
  /\ asserting' = CASE next = "rnn_conf_mat" /\ value # Shown("rnn") -> 61
                    [] next = "perpacket_conf_mat" /\ value # Shown("perpacket") -> 84
                    [] OTHER -> 0

MonitorInit == Init /\ report = << >> /\ asserting = 0

\* Nothing is looked at after the script has ended.  It may begin at any time
\* until MaxWatched packets have arrived, and is over when more do.
Running == asserting = 0 /\ Len(report) < Len(Dumps)

MonitorNext ==
  /\ Running
  /\ \/ Next /\ UNCHANGED monitorVars
     \/ Dump /\ UNCHANGED vars
  /\ report' # << >> => r_ig_global_pkt_cnt' <= MaxWatched

MonitorSpec == MonitorInit /\ [][MonitorNext]_<<vars, monitorVars>>
-----------------------------------------------------------------------------
\* What the monitor shows was read at different times, with packets under way
\* at each, and never true at one moment; still the share it shows for
\* collision-IMIS is at most the configured one of the Ig Total it shows, over
\* any number of cycles; the total it prints is covered by Aux Ig and this by Ig
\* Total, and no more copies have come round than went to recirculate: the
\* registers are read against the direction in which packets are counted.
ReportSound ==
  /\ HasRead("collision_IMIS") /\ HasRead("ig_pkt") =>
       Shown("collision_IMIS") * Den <= Shown("ig_pkt") * Num
  /\ (\A c \in Category : HasRead(c)) /\ HasRead("aux_ig_pkt") =>
       Shown("rnn") + Shown("perpacket") + Shown("IMIS") + Shown("pre_analysis")
         + Shown("collision_IMIS") <= Shown("aux_ig_pkt")
  /\ HasRead("aux_ig_pkt") /\ HasRead("ig_pkt") => Shown("aux_ig_pkt") <= Shown("ig_pkt")
  /\ HasRead("ig_recir_pkt") /\ HasRead("aux_eg_to_recir_pkt") =>
       Shown("ig_recir_pkt") <= Shown("aux_eg_to_recir_pkt")
=============================================================================
