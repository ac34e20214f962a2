-------------------------- MODULE ForwarderProofs --------------------------
(***************************************************************************)
(* What every pipeline that implements Forwarder guarantees, for any       *)
(* number of flows and packets: the packets of a flow leave in order, and  *)
(* a packet is never both sent and freed, or sent and still held.          *)
(***************************************************************************)
EXTENDS Forwarder, TLAPS

Left == 1 .. Len(leaving)

Number == Nat \union {n + Mark : n \in Nat}

Departure == [id : Flow, seq : Nat, type : PktType \union {0}, by : Number]

ForwardTypes ==
  /\ received \in Nat
  /\ held \in [Flow -> SUBSET Nat]
  /\ leaving \in Seq(Departure)
  /\ dropped \subseteq [id : Flow, seq : Nat]
  /\ \A v \in verdicts : v.id \in Flow /\ v.type \in PktType /\ v.seq \in Number

\* Packets are numbered as they come, so a new one has a number of its own.
Numbered ==
  /\ \A f \in Flow : \A s \in held[f] : s <= received
  /\ \A i \in Left : leaving[i].seq <= received
  /\ \A p \in dropped : p.seq <= received

\* What a flow still holds is behind what left of it.
HeldBehind ==
  \A f \in Flow : \A s \in held[f] : \A i \in Left : leaving[i].id = f => leaving[i].seq < s

\* What is held is held once and was not freed.
HeldOnce ==
  /\ \A f, g \in Flow : \A s \in held[f] : s \in held[g] => f = g
  /\ \A f \in Flow : \A s \in held[f] : Packet(f, s) \notin dropped

ForwardInv == ForwardTypes /\ Numbered /\ HeldBehind /\ HeldOnce /\ FlowInOrder /\ OnePlace

USE DEF Left
-----------------------------------------------------------------------------
LEMMA Departures ==
  ASSUME ForwardInv, NEW i \in Left
  PROVE  leaving[i].id \in Flow /\ leaving[i].seq \in Nat
<1>1. leaving \in Seq(Departure) /\ i \in DOMAIN leaving
  BY DEF ForwardInv, ForwardTypes
<1>2. leaving[i] \in Departure
  BY <1>1
<1> QED BY <1>2 DEF Departure

LEMMA InitForwardInv == Init => ForwardInv
<1> SUFFICES ASSUME Init PROVE ForwardInv
  OBVIOUS
<1>1. Len(leaving) = 0 /\ \A f \in Flow : held[f] = {}
  BY DEF Init
<1>2. ForwardTypes
  BY DEF Init, ForwardTypes
<1> QED BY <1>1, <1>2 DEF Init, ForwardInv, Numbered, HeldBehind, HeldOnce, FlowInOrder, OnePlace

\* A packet that comes gets the next number.
LEMMA ReceiveForwardInv ==
  ASSUME ForwardInv, NEW f \in Flow, Receive(f)
  PROVE  ForwardInv'
<1>1. /\ received \in Nat /\ received' = received + 1
      /\ held \in [Flow -> SUBSET Nat]
      /\ held' = [held EXCEPT ![f] = held[f] \union {received'}]
      /\ leaving' = leaving /\ dropped' = dropped /\ verdicts' = verdicts
  BY DEF ForwardInv, ForwardTypes, Receive
<1>2. \A g \in Flow : \A s \in held'[g] : s \in held[g] \/ (g = f /\ s = received')
  BY <1>1
<1>3. \A g \in Flow : \A s \in held[g] : s \in Nat /\ s <= received
  BY <1>1 DEF ForwardInv, Numbered
<1>4. \A g \in Flow : received' \notin held[g]
  BY <1>1, <1>3
<1>5. \A i \in Left : leaving[i].seq \in Nat /\ leaving[i].seq <= received
  BY Departures DEF ForwardInv, Numbered
<1>6. \A p \in dropped : p.seq \in Nat /\ p.seq <= received
  BY DEF ForwardInv, ForwardTypes, Numbered
<1>7. ForwardTypes'
  BY <1>1 DEF ForwardInv, ForwardTypes
<1>8. Numbered'
  <2>1. \A g \in Flow : \A s \in held'[g] : s <= received'
    BY <1>1, <1>2, <1>3
  <2>2. \A i \in Left : leaving[i].seq <= received'
    BY <1>1, <1>5
  <2>3. \A p \in dropped : p.seq <= received'
    BY <1>1, <1>6
  <2> QED BY <1>1, <2>1, <2>2, <2>3 DEF Numbered
<1>9. HeldBehind'
  <2>1. ASSUME NEW g \in Flow, NEW s \in held'[g], NEW i \in Left, leaving[i].id = g
        PROVE  leaving[i].seq < s
    <3>1. CASE s \in held[g]
      BY <2>1, <3>1 DEF ForwardInv, HeldBehind
    <3>2. CASE s = received'
      BY <1>1, <1>5, <3>2
    <3> QED BY <1>2, <3>1, <3>2
  <2> QED BY <1>1, <2>1 DEF HeldBehind
<1>10. HeldOnce'
  <2>1. ASSUME NEW g \in Flow, NEW h \in Flow, NEW s \in held'[g], s \in held'[h]
        PROVE  g = h
    BY <1>2, <1>4, <2>1 DEF ForwardInv, HeldOnce
  <2>2. ASSUME NEW g \in Flow, NEW s \in held'[g] PROVE Packet(g, s) \notin dropped
    <3>1. CASE s \in held[g]
      BY <3>1 DEF ForwardInv, HeldOnce
    <3>2. CASE s = received'
      <4>1. Packet(g, s).seq = received + 1
        BY <1>1, <3>2 DEF Packet
      <4> QED BY <1>1, <1>6, <4>1
    <3> QED BY <1>2, <3>1, <3>2
  <2> QED BY <1>1, <2>1, <2>2 DEF HeldOnce
<1>11. FlowInOrder'
  BY <1>1 DEF ForwardInv, FlowInOrder
<1>12. OnePlace'
  <2>1. ASSUME NEW i \in Left, NEW g \in Flow PROVE leaving[i].seq \notin held'[g]
    <3>1. leaving[i].seq \notin held[g] /\ leaving[i].seq # received'
      BY <1>1, <1>5 DEF ForwardInv, OnePlace
    <3> QED BY <1>2, <3>1
  <2> QED BY <1>1, <2>1 DEF ForwardInv, OnePlace, Packet
<1> QED BY <1>7, <1>8, <1>9, <1>10, <1>11, <1>12 DEF ForwardInv

\* A packet is taken from what is held: nothing else can go wrong by that.
LEMMA TakeForwardInv ==
  ASSUME ForwardInv, NEW f \in Flow, NEW s \in held[f],
         held' = [held EXCEPT ![f] = held[f] \ {s}],
         received' = received, leaving' = leaving, dropped' = dropped, verdicts' = verdicts
  PROVE  ForwardInv'
<1>1. held \in [Flow -> SUBSET Nat]
  BY DEF ForwardInv, ForwardTypes
<1>2. held' \in [Flow -> SUBSET Nat] /\ \A g \in Flow : held'[g] \subseteq held[g]
  BY <1>1
<1>3. ForwardTypes'
  BY <1>2 DEF ForwardInv, ForwardTypes
<1>4. Numbered' /\ HeldBehind'
  BY <1>2 DEF ForwardInv, Numbered, HeldBehind
<1>5. HeldOnce' /\ OnePlace'
  BY <1>2 DEF ForwardInv, HeldOnce, OnePlace, Packet
<1>6. FlowInOrder'
  BY DEF ForwardInv, FlowInOrder
<1> QED BY <1>3, <1>4, <1>5, <1>6 DEF ForwardInv

\* The packet that came last is freed.
LEMMA DropForwardInv ==
  ASSUME ForwardInv, NEW f \in Flow, Drop(f)
  PROVE  ForwardInv'
<1> DEFINE p == Packet(f, received)
<1>1. /\ received \in Nat /\ received' = received /\ received \in held[f]
      /\ held \in [Flow -> SUBSET Nat]
      /\ held' = [held EXCEPT ![f] = held[f] \ {received}]
      /\ dropped' = dropped \union {p}
      /\ leaving' = leaving /\ verdicts' = verdicts
  BY DEF ForwardInv, ForwardTypes, Drop
<1>2. /\ held' \in [Flow -> SUBSET Nat] /\ received \notin held'[f]
      /\ \A g \in Flow : held'[g] \subseteq held[g]
  BY <1>1
<1>3. p \in [id : Flow, seq : Nat] /\ p.seq = received
  BY <1>1 DEF Packet
<1>4. \A g \in Flow, s \in Nat : Packet(g, s) = p => g = f /\ s = received
  BY <1>1 DEF Packet
<1> HIDE DEF p
<1>5. ForwardTypes'
  BY <1>1, <1>2, <1>3 DEF ForwardInv, ForwardTypes
<1>6. Numbered'
  BY <1>1, <1>2, <1>3 DEF ForwardInv, Numbered
<1>7. HeldBehind'
  BY <1>1, <1>2 DEF ForwardInv, HeldBehind
<1>8. HeldOnce'
  <2>1. ASSUME NEW g \in Flow, NEW s \in held'[g] PROVE Packet(g, s) \notin dropped'
    <3>1. s \in held[g] /\ s \in Nat /\ Packet(g, s) \notin dropped
      BY <1>2 DEF ForwardInv, HeldOnce
    <3>2. Packet(g, s) # p
      BY <1>2, <1>4, <3>1
    <3> QED BY <1>1, <3>1, <3>2
  <2>2. \A g, h \in Flow : \A s \in held'[g] : s \in held'[h] => g = h
    BY <1>2 DEF ForwardInv, HeldOnce
  <2> QED BY <2>1, <2>2 DEF HeldOnce, Packet
<1>9. FlowInOrder'
  BY <1>1 DEF ForwardInv, FlowInOrder
<1>10. OnePlace'
  <2>1. ASSUME NEW i \in Left PROVE Packet(leaving[i].id, leaving[i].seq) \notin dropped'
    <3>1. leaving[i].seq # received
      BY <1>1 DEF ForwardInv, OnePlace
    <3>2. Packet(leaving[i].id, leaving[i].seq) # p
      BY <1>4, <3>1, Departures
    <3> QED BY <1>1, <3>2 DEF ForwardInv, OnePlace
  <2>2. \A i \in Left : \A g \in Flow : leaving[i].seq \notin held'[g]
    BY <1>2 DEF ForwardInv, OnePlace
  <2> QED BY <1>1, <2>1, <2>2 DEF OnePlace, Packet
<1> QED BY <1>5, <1>6, <1>7, <1>8, <1>9, <1>10 DEF ForwardInv

\* Whatever class it gets, the packet that leaves is the oldest of its flow.
LEMMA LetOutForwardInv ==
  ASSUME ForwardInv, NEW f \in Flow, NEW s, NEW type \in PktType \union {0}, NEW by \in Number,
         LetOut(f, s, type, by)
  PROVE  ForwardInv'
<1> DEFINE out == [id |-> f, seq |-> s, type |-> type, by |-> by]
<1>1. /\ received \in Nat /\ received' = received
      /\ held \in [Flow -> SUBSET Nat] /\ s \in held[f] /\ s \in Nat
      /\ \A other \in held[f] : s <= other
      /\ leaving \in Seq(Departure) /\ Len(leaving) \in Nat
      /\ held' = [held EXCEPT ![f] = held[f] \ {s}]
      /\ leaving' = Append(leaving, out)
      /\ dropped' = dropped /\ verdicts' = verdicts
  BY DEF ForwardInv, ForwardTypes, LetOut
<1>2. out \in Departure /\ out.id = f /\ out.seq = s
  BY <1>1 DEF Departure
<1> HIDE DEF out
<1>3. /\ leaving' \in Seq(Departure) /\ Len(leaving') = Len(leaving) + 1
      /\ leaving'[Len(leaving) + 1] = out
      /\ \A i \in Left : leaving'[i] = leaving[i]
  BY <1>1, <1>2
<1>4. \A i \in 1 .. Len(leaving') :
        \/ i \in Left /\ leaving'[i] = leaving[i]
        \/ i = Len(leaving) + 1 /\ leaving'[i] = out
  BY <1>1, <1>3
<1>5. /\ held' \in [Flow -> SUBSET Nat] /\ \A g \in Flow : held'[g] \subseteq held[g]
      /\ \A t \in held'[f] : t \in held[f] /\ t # s
  BY <1>1
<1>6. ForwardTypes'
  BY <1>1, <1>3, <1>5 DEF ForwardInv, ForwardTypes
<1>7. Numbered'
  <2>1. s <= received
    BY <1>1 DEF ForwardInv, Numbered
  <2>2. \A i \in 1 .. Len(leaving') : leaving'[i].seq <= received
    BY <1>2, <1>4, <2>1 DEF ForwardInv, Numbered
  <2> QED BY <1>1, <1>5, <2>2 DEF ForwardInv, Numbered
<1>8. HeldBehind'
  <2>1. ASSUME NEW g \in Flow, NEW t \in held'[g], NEW i \in 1 .. Len(leaving'),
               leaving'[i].id = g
        PROVE  leaving'[i].seq < t
    <3>1. CASE i \in Left /\ leaving'[i] = leaving[i]
      BY <1>5, <2>1, <3>1 DEF ForwardInv, HeldBehind
    <3>2. CASE leaving'[i] = out
      <4>1. g = f /\ t \in held[f] /\ t # s /\ t \in Nat /\ s <= t
        BY <1>1, <1>2, <1>5, <2>1, <3>2
      <4> QED BY <1>1, <1>2, <3>2, <4>1
    <3> QED BY <1>4, <3>1, <3>2
  <2> QED BY <2>1 DEF HeldBehind
<1>9. HeldOnce'
  BY <1>1, <1>5 DEF ForwardInv, HeldOnce, Packet
<1>10. FlowInOrder'
  <2>1. ASSUME NEW i \in 1 .. Len(leaving'), NEW j \in 1 .. Len(leaving'),
               i < j, leaving'[i].id = leaving'[j].id
        PROVE  leaving'[i].seq < leaving'[j].seq
    <3>1. i \in Left /\ leaving'[i] = leaving[i]
      BY <1>1, <1>3, <1>4, <2>1
    <3>2. CASE j \in Left /\ leaving'[j] = leaving[j]
      BY <2>1, <3>1, <3>2 DEF ForwardInv, FlowInOrder
    <3>3. CASE leaving'[j] = out
      BY <1>1, <1>2, <2>1, <3>1, <3>3 DEF ForwardInv, HeldBehind
    <3> QED BY <1>4, <3>2, <3>3
  <2> QED BY <2>1 DEF FlowInOrder
<1>11. OnePlace'
  <2>1. ASSUME NEW i \in 1 .. Len(leaving')
        PROVE  Packet(leaving'[i].id, leaving'[i].seq) \notin dropped
    <3>1. CASE i \in Left /\ leaving'[i] = leaving[i]
      BY <3>1 DEF ForwardInv, OnePlace
    <3>2. CASE leaving'[i] = out
      BY <1>1, <1>2, <3>2 DEF ForwardInv, HeldOnce
    <3> QED BY <1>4, <3>1, <3>2
  <2>2. ASSUME NEW i \in 1 .. Len(leaving'), NEW g \in Flow
        PROVE  leaving'[i].seq \notin held'[g]
    <3>1. CASE i \in Left /\ leaving'[i] = leaving[i]
      BY <1>5, <3>1 DEF ForwardInv, OnePlace
    <3>2. CASE leaving'[i] = out
      <4>1. s \in held[g] => g = f
        BY <1>1 DEF ForwardInv, HeldOnce
      <4> QED BY <1>2, <1>5, <3>2, <4>1
    <3> QED BY <1>4, <3>1, <3>2
  <2> QED BY <1>1, <2>1, <2>2 DEF OnePlace, Packet
<1> QED BY <1>6, <1>7, <1>8, <1>9, <1>10, <1>11 DEF ForwardInv

LEMMA NextForwardInv == ForwardInv /\ [Next]_vars => ForwardInv'
<1> SUFFICES ASSUME ForwardInv, [Next]_vars PROVE ForwardInv'
  OBVIOUS
<1>1. ASSUME NEW f \in Flow, Receive(f) PROVE ForwardInv'
  BY <1>1, ReceiveForwardInv
<1>2. ASSUME NEW f \in Flow, Drop(f) PROVE ForwardInv'
  BY <1>2, DropForwardInv
<1>3. ASSUME NEW f \in Flow, NEW s, Unclassified(f, s) PROVE ForwardInv'
  <2>1. 0 \in Number
    BY DEF Number
  <2> QED BY <1>3, <2>1, LetOutForwardInv DEF Unclassified
<1>4. ASSUME NEW v \in verdicts, NEW s, Classified(v, s) PROVE ForwardInv'
  <2>1. v.id \in Flow /\ v.type \in PktType \union {0} /\ v.seq \in Number
    BY DEF ForwardInv, ForwardTypes
  <2> QED BY <1>4, <2>1, LetOutForwardInv DEF Classified
<1>5. ASSUME NEW f \in Flow, NEW seq \in 1 .. received, NEW complete \in BOOLEAN,
             NEW type \in PktType, Judge(f, seq, complete, type)
      PROVE  ForwardInv'
  <2> DEFINE num == IF complete THEN seq + Mark ELSE seq
             v == [id |-> f, seq |-> num, type |-> type]
  <2>1. received' = received /\ held' = held /\ leaving' = leaving /\ dropped' = dropped
        /\ verdicts' = verdicts \union {v}
    BY <1>5 DEF Judge
  <2>2. num \in Number
    BY DEF ForwardInv, ForwardTypes, Number
  <2> HIDE DEF num
  <2>3. v.id \in Flow /\ v.type \in PktType /\ v.seq \in Number
    BY <2>2
  <2> HIDE DEF v
  <2>4. ForwardTypes'
    BY <2>1, <2>3 DEF ForwardInv, ForwardTypes
  <2> QED BY <2>1, <2>4 DEF ForwardInv, Numbered, HeldBehind, HeldOnce, FlowInOrder,
                            OnePlace, Packet
<1>6. CASE UNCHANGED vars
  <2>1. ForwardTypes' /\ Numbered'
    BY <1>6 DEF vars, ForwardInv, ForwardTypes, Numbered
  <2> QED BY <1>6, <2>1 DEF vars, ForwardInv, HeldBehind, HeldOnce, FlowInOrder, OnePlace, Packet
<1> QED BY <1>1, <1>2, <1>3, <1>4, <1>5, <1>6 DEF Next

\* The inductive invariant.
THEOREM ForwarderInvariant == Spec => []ForwardInv
BY InitForwardInv, NextForwardInv, PTL DEF Spec

\* The packets of a flow leave in the order they came, with a class or without,
\* in any mix of waiting, passing and being pushed out.
THEOREM ForwarderKeepsOrder == Spec => []FlowInOrder
<1>1. ForwardInv => FlowInOrder
  BY DEF ForwardInv
<1> QED BY <1>1, ForwarderInvariant, PTL

\* A packet that left was not freed and is not held any more.
THEOREM ForwarderKeepsPlace == Spec => []OnePlace
<1>1. ForwardInv => OnePlace
  BY DEF ForwardInv
<1> QED BY <1>1, ForwarderInvariant, PTL
=============================================================================
