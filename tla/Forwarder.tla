----------------------------- MODULE Forwarder -----------------------------
(***************************************************************************)
(* What the IMIS promises the switch, whatever its four threads do and     *)
(* whichever of its rings are full: it holds the packets of each flow and  *)
(* lets them out oldest first, each with a class that was computed for its *)
(* own flow as of that packet or a later one, or, if there is no room to   *)
(* wait, with none.  A flow's class is never replaced by that of an        *)
(* earlier analysis.  Only the packet that came last can be dropped.       *)
(***************************************************************************)
EXTENDS Integers, Sequences

CONSTANTS Flow, PktType,
          Mark          \* what lifts a complete flow's number above all others

VARIABLES received,     \* how many packets came
          held,         \* flow -> the numbers of its packets that have not left
          leaving,      \* the packets that left
          dropped,
          verdicts      \* what the model said: a flow, as of which packet, a class

vars == <<received, held, leaving, dropped, verdicts>>

Packet(f, seq) == [id |-> f, seq |-> seq]

Init ==
  /\ received = 0 /\ held = [f \in Flow |-> {}]
  /\ leaving = << >> /\ dropped = {} /\ verdicts = {}

Receive(f) ==
  /\ received' = received + 1
  /\ held' = [held EXCEPT ![f] = @ \union {received'}]
  /\ UNCHANGED <<leaving, dropped, verdicts>>

Drop(f) ==
  /\ received \in held[f]
  /\ held' = [held EXCEPT ![f] = @ \ {received}]
  /\ dropped' = dropped \union {Packet(f, received)}
  /\ UNCHANGED <<received, leaving, verdicts>>

\* The packet seq was received and belongs to flow f.
Seen(f, seq) ==
  \/ seq \in held[f]
  \/ \E i \in 1 .. Len(leaving) : leaving[i].id = f /\ leaving[i].seq = seq
  \/ Packet(f, seq) \in dropped

Judge(f, seq, complete, type) ==
  /\ Seen(f, seq)
  /\ verdicts' = verdicts \union
       {[id |-> f, seq |-> IF complete THEN seq + Mark ELSE seq, type |-> type]}
  /\ UNCHANGED <<received, held, leaving, dropped>>

\* The oldest packet of its flow leaves.
LetOut(f, seq, type, by) ==
  /\ seq \in held[f] /\ \A other \in held[f] : seq <= other
  /\ leaving' = Append(leaving, [id |-> f, seq |-> seq, type |-> type, by |-> by])
  /\ held' = [held EXCEPT ![f] = @ \ {seq}]
  /\ UNCHANGED <<received, dropped, verdicts>>

Classified(v, seq) ==
  /\ seq <= v.seq
  /\ \A i \in 1 .. Len(leaving) : leaving[i].id = v.id => leaving[i].by <= v.seq
  /\ LetOut(v.id, seq, v.type, v.seq)

Unclassified(f, seq) == LetOut(f, seq, 0, 0)

Next ==
  \/ \E f \in Flow : Receive(f) \/ Drop(f) \/ \E seq \in held[f] : Unclassified(f, seq)
  \/ \E f \in Flow, seq \in 1 .. received, complete \in BOOLEAN, type \in PktType :
       Judge(f, seq, complete, type)
  \/ \E v \in verdicts : \E seq \in held[v.id] : Classified(v, seq)

Spec == Init /\ [][Next]_vars
-----------------------------------------------------------------------------
\* The packets of a flow leave in the order they came, whether they waited,
\* passed straight through or were pushed out of a full queue.
FlowInOrder ==
  \A i, j \in 1 .. Len(leaving) :
    i < j /\ leaving[i].id = leaving[j].id => leaving[i].seq < leaving[j].seq

\* A packet is in one place: an mbuf that left is neither freed nor held.
OnePlace ==
  \A i \in 1 .. Len(leaving) :
    /\ Packet(leaving[i].id, leaving[i].seq) \notin dropped
    /\ \A f \in Flow : leaving[i].seq \notin held[f]
=============================================================================
