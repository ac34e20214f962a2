---------------------------- MODULE FlowManager ----------------------------
(***************************************************************************)
(* r_flow_info of the switch (flow_manager.p4), one entry of it: the flow  *)
(* that owns the entry and when it was last seen.  Flows whose hashes fall *)
(* on the same index compete for the entry; it changes hands only after    *)
(* its owner was silent for longer than TIMEOUT.                           *)
(***************************************************************************)
EXTENDS Integers

CONSTANTS Id,        \* the flows that fall on this entry
          NoId,      \* what the cleared register holds: no flow hashes to 0
          Timeout,   \* TIMEOUT
          Wrap       \* 2^32, the width of timestamp_65536ns

ASSUME FlowManagerAssumption ==
  /\ Timeout \in Nat /\ Wrap \in Nat /\ Timeout < Wrap
  /\ NoId \notin Id

FlowInfo == [id : Id \union {NoId}, timestamp : 0 .. Wrap - 1]

Cleared == [id |-> NoId, timestamp |-> 0]

\* Mutant: the entry times out when the packet comes after it, at all.
ExpiredAtOnce(entry, ts) == ts # entry.timestamp

\* timestamp_65536ns - mem_cell.timestamp > TIMEOUT, unsigned.
Expired(entry, ts) == (ts + Wrap - entry.timestamp) % Wrap > Timeout

\* ra_flow_info: which of the four cases a packet falls into.
Predicate(entry, id, ts) ==
  IF Expired(entry, ts) THEN IF id # entry.id THEN 8 ELSE 4
                        ELSE IF id # entry.id THEN 2 ELSE 1

\* ... and what it leaves in the register.
Updated(entry, id, ts) ==
  IF Predicate(entry, id, ts) = 2 THEN entry ELSE [id |-> id, timestamp |-> ts]
=============================================================================
