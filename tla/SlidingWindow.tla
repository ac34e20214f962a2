--------------------------- MODULE SlidingWindow ---------------------------
(***************************************************************************)
(* How the switch collects the window its neural network looks at          *)
(* (SwitchIngress, pkt_cnt.p4, mem_and_swap.p4): the embeddings of the     *)
(* packets of a flow go round a ring of W = 7 registers, and from the W+1st *)
(* packet of a flow on the network gets the last W+1 embeddings in order.  *)
(* The ring position is never reset, and the registers are never cleared,  *)
(* when the entry changes hands.                                           *)
(*                                                                         *)
(* Who owns the entry, and how many packets it has counted, is module      *)
(* Escalation: this module adds the ring to its steps.  The copies that    *)
(* come round pass the flow table and not the ring.                        *)
(***************************************************************************)
EXTENDS Escalation

CONSTANTS Ev,         \* embeddings
          NoEv        \* 0, what the cleared registers hold

ASSUME WindowAssumption == NoEv \notin Ev

VARIABLES pkt_cnt_mod_7, bin,
          window,      \* the input of the network for the last packet, or << >>
          collected,   \* the embeddings of the owner since the entry was started
          arrived      \* the true time of the owner's last packet, copies apart

ringVars == <<pkt_cnt_mod_7, bin, window, collected, arrived>>

windowVars == <<vars, ringVars>>

WindowInit ==
  /\ Init
  /\ pkt_cnt_mod_7 = 0 /\ bin = [i \in 0 .. W - 1 |-> NoEv]
  /\ window = << >>
  /\ collected = << >> /\ arrived = 0

\* ra_pkt_cnt_mod_7
NextMod(m) == IF m = W - 1 THEN 0 ELSE m + 1

\* Mutant: the rotation starts one register too late.
SwappedLate(b, m) == [i \in 1 .. W |-> b[IF m + i < W THEN m + i ELSE m + i - W]]

\* tab_swap: the registers in the order in which they were written, oldest
\* first, read before this packet's embedding replaces the oldest.
Swapped(b, m) == [i \in 1 .. W |-> b[IF m + i - 1 < W THEN m + i - 1 ELSE m + i - 1 - W]]

\* Mutant: the count is read before the packet has counted.
CollectLate(ev) ==
  /\ pkt_cnt_mod_7' = NextMod(pkt_cnt_mod_7)
  /\ bin' = [bin EXCEPT ![pkt_cnt_mod_7] = ev]
  /\ window' = IF pkt_cnt_initial_8 = W THEN Append(Swapped(bin, pkt_cnt_mod_7), ev) ELSE << >>
  /\ arrived' = clock

\* What every packet without a collision does to the ring of embeddings.
Collect(ev) ==
  /\ pkt_cnt_mod_7' = NextMod(pkt_cnt_mod_7)
  /\ bin' = [bin EXCEPT ![pkt_cnt_mod_7] = ev]
  /\ window' = IF pkt_cnt_initial_8' = W THEN Append(Swapped(bin, pkt_cnt_mod_7), ev) ELSE << >>
  /\ arrived' = clock

\* Nothing is written to the ring, and nothing read from it.
Skip == window' = << >> /\ UNCHANGED <<pkt_cnt_mod_7, bin, collected, arrived>>

\* Timeout: the entry is taken over or restarted.
CollectFirst(id, ev) == FirstPacket(id) /\ Collect(ev) /\ collected' = <<ev>>

\* The owner of the entry goes on.
CollectNext(id, low, ev) ==
  OwnerPacket(id, low) /\ Collect(ev) /\ collected' = Append(collected, ev)

\* Another flow owns the entry.
Collide(id) == CollidingPacket(id) /\ Skip

\* Mutant: a copy is collected like a packet.
CollectCopy ==
  /\ Recirculated
  /\ \E ev \in Ev : Collect(ev)
  /\ UNCHANGED collected

\* A mirrored packet comes round: no counts, no ring, no network.
CopyReturns == Recirculated /\ Skip

LoseCopy == LoseMirrored /\ Skip

\* cleanup.py clears the ring position with the entry and its count, and none of
\* the registers r_bin0 .. r_bin6.
ClearRing ==
  /\ CleanUp
  /\ pkt_cnt_mod_7' = 0
  /\ window' = << >> /\ collected' = << >>
  /\ UNCHANGED <<bin, arrived>>

Pass == Tick /\ UNCHANGED ringVars

WindowNext ==
  \/ \E id \in Id : \/ \E ev \in Ev : \/ CollectFirst(id, ev)
                                      \/ \E low \in BOOLEAN : CollectNext(id, low, ev)
                    \/ Collide(id)
  \/ CopyReturns \/ LoseCopy \/ ClearRing
  \/ Pass

WindowSpec == WindowInit /\ [][WindowNext]_windowVars
-----------------------------------------------------------------------------
WindowTypeOK ==
  /\ pkt_cnt_mod_7 \in 0 .. W - 1
  /\ bin \in [0 .. W - 1 -> Ev \union {NoEv}]
  /\ window \in Seq(Ev \union {NoEv})
  /\ collected \in Seq(Ev)
  /\ arrived \in 0 .. clock

\* The network never sees an embedding of another flow, of the owner before it
\* timed out, or out of order: its input is the last W + 1 packets of the owner.
\* The ring position and the registers survive every change of hands, and no
\* copy that comes round moves them.
WindowIsLatest ==
  window # << >> =>
    /\ Len(window) = W + 1
    /\ Len(collected) >= W + 1
    /\ \A i \in 1 .. W + 1 : window[i] = collected[Len(collected) - (W + 1) + i]

\* Where the embedding written k packets ago is.
BinOf(m, k) == IF k <= m THEN m - k ELSE m + W - k

\* The entry's timestamp lies within Delay of the owner's last packet: after it
\* in the normal version, where a copy refreshes it, before it in the testbed
\* version, where a copy brings back the time of the packet it was made of.
Refreshed ==
  /\ \A i \in 1 .. Len(recirculating) : recirculating[i].born <= arrived
  /\ flow_info # Cleared => IF headerTime THEN seen <= arrived /\ arrived - seen <= Delay
                                          ELSE arrived <= seen /\ seen - arrived <= Delay

\* The strengthening: going back from the ring position, the registers hold the
\* owner's embeddings backwards, as far as they go, and the count says how far.
WindowInv ==
  /\ WindowTypeOK
  /\ flow_info = Cleared <=> collected = << >>
  /\ collected # << >> =>
       pkt_cnt_initial_8 = IF Len(collected) > W THEN W ELSE Len(collected) - 1
  /\ \A k \in 1 .. W : k <= Len(collected) =>
       bin[BinOf(pkt_cnt_mod_7, k)] = collected[Len(collected) + 1 - k]
  /\ Refreshed
  /\ WindowIsLatest

\* From its W+1st packet on every packet of the owner is classified by the
\* network, none before: neither the copies nor the packets of other flows that
\* pass in between count.
ClassifiedFromWindow ==
  [][collected' # collected => (window' # << >> <=> Len(collected') > W)]_windowVars

\* An owner goes on only while its packets come within Timeout of each other,
\* and loses its entry or starts anew only when they do not.  The copies shift
\* this by what they take to come round: in the normal version an owner may
\* keep its entry that much longer, in the testbed version lose it that much
\* earlier.  Idle for less than 2^32 ticks, the unsigned difference tells.
OwnerKeepsEntry ==
  [][/\ (\E id \in Id, low \in BOOLEAN, ev \in Ev : CollectNext(id, low, ev)) =>
          clock - arrived <= Timeout + (IF headerTime THEN 0 ELSE Delay)
     /\ (\E id \in Id, ev \in Ev : CollectFirst(id, ev)) /\ flow_info # Cleared =>
          clock - arrived > Timeout - (IF headerTime THEN Delay ELSE 0)]_windowVars
=============================================================================
