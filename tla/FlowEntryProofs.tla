--------------------------- MODULE FlowEntryProofs ---------------------------
(***************************************************************************)
(* One entry of the flow table.  An escalated flow has earned it, and the  *)
(* window of the neural network holds the owner's last packets, in both    *)
(* versions of the program, for every clock width, timeout, threshold,     *)
(* window size, set of embeddings and set of flows on an entry.            *)
(***************************************************************************)
EXTENDS SlidingWindow, TLAPS

USE FlowManagerAssumption, EscalationAssumption

-----------------------------------------------------------------------------
(* Arithmetic.                                                             *)

\* A remainder counts up and starts again.
LEMMA ModStep ==
  ASSUME NEW p \in Nat \ {0}, NEW n \in Nat
  PROVE  /\ n % p \in 0 .. p - 1
         /\ (n + 1) % p = IF n % p = p - 1 THEN 0 ELSE 1 + (n % p)
<1> DEFINE q == n \div p
           r == n % p
<1>1. q \in Nat /\ r \in 0 .. p - 1 /\ n = p * q + r
  BY SMT
<1> HIDE DEF q, r
<1>2. CASE r = p - 1
  <2>1. n + 1 = p * (q + 1) + 0
    BY <1>1, <1>2, SMT
  <2>2. (n + 1) % p = 0
    BY <1>1, <2>1, SMT
  <2> QED BY <1>1, <1>2, <2>2 DEF r
<1>3. CASE r # p - 1
  <2>1. n + 1 = p * q + (r + 1) /\ r + 1 \in 0 .. p - 1
    BY <1>1, <1>3, SMT
  <2>2. (n + 1) % p = r + 1
    BY <1>1, <2>1, SMT
  <2> QED BY <1>1, <1>3, <2>2 DEF r
<1> QED BY <1>2, <1>3

\* The difference of two readings of the clock is the time between them.
LEMMA ClockDifference ==
  ASSUME NEW a \in Nat, NEW b \in Nat, a <= b, b - a < Wrap
  PROVE  ((b % Wrap) + Wrap - (a % Wrap)) % Wrap = b - a
<1>1. Wrap \in Nat \ {0}
  OBVIOUS
<1> DEFINE qa == a \div Wrap
           qb == b \div Wrap
           ra == a % Wrap
           rb == b % Wrap
<1>2. qa \in Nat /\ ra \in 0 .. Wrap - 1 /\ a = Wrap * qa + ra
  BY <1>1, SMT
<1>3. qb \in Nat /\ rb \in 0 .. Wrap - 1 /\ b = Wrap * qb + rb
  BY <1>1, SMT
<1> HIDE DEF qa, qb, ra, rb
<1>4. qb = qa \/ qb = qa + 1
  <2>1. CASE qb < qa
    <3>1. Wrap * qb + Wrap <= Wrap * qa
      BY <1>1, <1>2, <1>3, <2>1, SMT
    <3> QED BY <1>1, <1>2, <1>3, <3>1, SMT
  <2>2. CASE qb > qa + 1
    <3>1. Wrap * qb >= Wrap * qa + Wrap + Wrap
      BY <1>1, <1>2, <1>3, <2>2, SMT
    <3> QED BY <1>1, <1>2, <1>3, <3>1, SMT
  <2> QED BY <1>2, <1>3, <2>1, <2>2, SMT
<1>5. CASE qb = qa
  <2>1. rb + Wrap - ra = Wrap * 1 + (b - a) /\ b - a \in 0 .. Wrap - 1
    BY <1>1, <1>2, <1>3, <1>5, SMT
  <2>2. (rb + Wrap - ra) % Wrap = b - a
    BY <1>1, <2>1, SMT
  <2> QED BY <2>2 DEF ra, rb
<1>6. CASE qb = qa + 1
  <2>1. Wrap * qb = Wrap * qa + Wrap
    BY <1>1, <1>2, <1>6, SMT
  <2>2. rb + Wrap - ra = b - a /\ b - a \in 0 .. Wrap - 1
    BY <1>1, <1>2, <1>3, <2>1, SMT
  <2>3. (rb + Wrap - ra) % Wrap = b - a
    BY <1>1, <2>2, SMT
  <2> QED BY <2>3 DEF ra, rb
<1> QED BY <1>4, <1>5, <1>6

\* The low bits of a number count on where the number wraps.
LEMMA ByteIndex ==
  ASSUME NEW n \in Nat
  PROVE  (n % (ByteMax + 1)) % Period = n % Period
<1> DEFINE p == Period
           c == ByteMax + 1
           m == c \div p
           q == n \div c
           r == n % c
           u == r \div p
           v == r % p
           w == m * q + u
<1>0. c \in Nat \ {0} /\ p \in Nat \ {0}
  BY SMT
<1>1. m \in Nat /\ c = p * m
  BY SMT
<1> HIDE DEF m, c, p
<1>2. q \in Nat /\ r \in 0 .. c - 1 /\ n = c * q + r
  BY <1>0, SMT
<1> HIDE DEF q, r
<1>3. u \in Nat /\ v \in 0 .. p - 1 /\ r = p * u + v
  BY <1>0, <1>2, SMT
<1> HIDE DEF u, v
<1>4. w \in Nat
  BY <1>0, <1>1, <1>2, <1>3, SMT
<1>5. n = p * w + v
  BY <1>0, <1>1, <1>2, <1>3, SMT
<1> HIDE DEF w
<1>6. n % p = v
  BY <1>0, <1>3, <1>4, <1>5, SMT
<1> QED BY <1>6 DEF v, r, c, p

-----------------------------------------------------------------------------
(* The inductive invariant.                                                *)

Copies == {recirculating[i] : i \in 1 .. Len(recirculating)}

Era == [id : Id \union {NoId}, results : Nat, low : Nat, mirrored : BOOLEAN]

EscTypes ==
  /\ headerTime \in BOOLEAN
  /\ flow_info \in FlowInfo
  /\ pkt_cnt_initial_8 \in 0 .. W
  /\ stored_escalation_flag \in BOOLEAN
  /\ recirculating \in Seq([id : Id, born : Nat])
  /\ clock \in Nat /\ seen \in 0 .. clock
  /\ era \in Era

\* The entry is the owner's, and younger than the clock's period.
OwnerInv ==
  flow_info # Cleared =>
    /\ flow_info.id = era.id
    /\ flow_info.timestamp = seen % Wrap
    /\ clock - seen < Wrap

\* A copy under way was mirrored by the owner in this era, lately enough for the
\* entry to be younger than a timeout.
CopyInv ==
  \A c \in Copies :
    /\ flow_info # Cleared /\ c.id = era.id
    /\ era.mirrored /\ era.low >= TEsc
    /\ c.born <= clock /\ clock - c.born <= Delay /\ c.born - seen <= Delay

\* The registers of the egress, and where they stand while the network is not
\* asked.
CountInv ==
  /\ ambiguous_cnt = IF era.low < ByteMax THEN era.low ELSE ByteMax
  /\ intermediate_result_cnt = era.results % (ByteMax + 1)
  /\ flow_info # Cleared /\ pkt_cnt_initial_8 < W => era.results = 0
  /\ ThresholdMatchesSum

EscInv == EscTypes /\ OwnerInv /\ CopyInv /\ CountInv /\ FlagEarned

-----------------------------------------------------------------------------
(* Copies under way.                                                       *)

LEMMA MemberOfSeq ==
  ASSUME NEW S, NEW s \in Seq(S), NEW i \in 1 .. Len(s)
  PROVE  s[i] \in S
OBVIOUS

LEMMA CopiesOfTail ==
  ASSUME recirculating \in Seq([id : Id, born : Nat]), recirculating # << >>,
         recirculating' = Tail(recirculating)
  PROVE  /\ recirculating' \in Seq([id : Id, born : Nat])
         /\ Head(recirculating) \in Copies /\ Head(recirculating) \in [id : Id, born : Nat]
         /\ Copies' \subseteq Copies
<1>1. /\ Len(recirculating) \in Nat \ {0} /\ Len(recirculating') = Len(recirculating) - 1
      /\ \A i \in 1 .. Len(recirculating') : recirculating'[i] = recirculating[i + 1]
  OBVIOUS
<1>2. \A i \in 1 .. Len(recirculating') : i + 1 \in 1 .. Len(recirculating)
  BY <1>1
<1>3. Copies' \subseteq Copies
  BY <1>1, <1>2 DEF Copies
<1>4. 1 \in 1 .. Len(recirculating) /\ Head(recirculating) = recirculating[1]
  BY <1>1
<1>5. Head(recirculating) \in Copies
  BY <1>4 DEF Copies
<1>6. recirculating[1] \in [id : Id, born : Nat]
  BY <1>4, MemberOfSeq
<1>7. recirculating' \in Seq([id : Id, born : Nat])
  OBVIOUS
<1> QED BY <1>3, <1>4, <1>5, <1>6, <1>7

LEMMA CopiesOfAppend ==
  ASSUME recirculating \in Seq([id : Id, born : Nat]), NEW c \in [id : Id, born : Nat],
         recirculating' = Append(recirculating, c)
  PROVE  /\ recirculating' \in Seq([id : Id, born : Nat])
         /\ Copies' \subseteq Copies \union {c}
<1>1. /\ Len(recirculating) \in Nat /\ Len(recirculating') = Len(recirculating) + 1
      /\ \A i \in 1 .. Len(recirculating) : recirculating'[i] = recirculating[i]
      /\ recirculating'[Len(recirculating) + 1] = c
  OBVIOUS
<1>2. \A i \in 1 .. Len(recirculating') :
        i \in 1 .. Len(recirculating) \/ i = Len(recirculating) + 1
  BY <1>1
<1> QED BY <1>1, <1>2 DEF Copies

\* While a copy of it is under way an entry cannot time out.
LEMMA CopyKeepsEntry ==
  ASSUME EscInv, Copies # {}
  PROVE  /\ flow_info # Cleared /\ flow_info.id = era.id
         /\ ~Expired(flow_info, Now)
<1> PICK c \in Copies : TRUE
  OBVIOUS
<1>1. /\ flow_info # Cleared /\ c.born <= clock
      /\ clock - c.born <= Delay /\ c.born - seen <= Delay
  BY DEF EscInv, CopyInv
<1>2. flow_info.id = era.id /\ flow_info.timestamp = seen % Wrap /\ clock - seen < Wrap
  BY <1>1 DEF EscInv, OwnerInv
<1>3. clock \in Nat /\ seen \in Nat /\ seen <= clock
  BY DEF EscInv, EscTypes
<1>4. (Now + Wrap - flow_info.timestamp) % Wrap = clock - seen
  BY <1>2, <1>3, ClockDifference DEF Now
<1>5. c.born \in Nat
  <2>1. PICK i \in 1 .. Len(recirculating) : c = recirculating[i]
    BY DEF Copies
  <2>2. recirculating[i] \in [id : Id, born : Nat]
    BY MemberOfSeq DEF EscInv, EscTypes
  <2> QED BY <2>1, <2>2
<1>6. clock - seen <= Timeout
  BY <1>1, <1>3, <1>5
<1>7. ~(clock - seen > Timeout)
  BY <1>3, <1>6
<1> QED BY <1>1, <1>2, <1>4, <1>7 DEF Expired

-----------------------------------------------------------------------------
(* The flow table.                                                         *)

LEMMA Cases ==
  ASSUME NEW entry, NEW id, NEW ts
  PROVE  /\ Predicate(entry, id, ts) \in {1, 2, 4, 8}
         /\ Predicate(entry, id, ts) \in {1, 4} <=> id = entry.id
         /\ Predicate(entry, id, ts) >= 4 <=> Expired(entry, ts)
         /\ Predicate(entry, id, ts) # 2 =>
              Updated(entry, id, ts) = [id |-> id, timestamp |-> ts]
BY DEF Predicate, Updated

LEMMA TimeInWrap ==
  ASSUME NEW t \in Nat
  PROVE  t % Wrap \in 0 .. Wrap - 1
<1>1. Wrap \in Nat \ {0}
  OBVIOUS
<1> QED BY <1>1, SMT

LEMMA NewEntry ==
  ASSUME NEW id \in Id, NEW t \in Nat
  PROVE  /\ [id |-> id, timestamp |-> t % Wrap] \in FlowInfo
         /\ [id |-> id, timestamp |-> t % Wrap] # Cleared
<1>1. t % Wrap \in 0 .. Wrap - 1
  BY TimeInWrap
<1> QED BY <1>1 DEF FlowInfo, Cleared

\* Only the owner of the entry falls into case 1, and it is a flow.
LEMMA OwnerEntry ==
  ASSUME EscInv, NEW id \in Id, id = flow_info.id
  PROVE  flow_info # Cleared /\ era.id = id
<1>1. flow_info # Cleared
  BY DEF Cleared
<1> QED BY <1>1 DEF EscInv, OwnerInv
-----------------------------------------------------------------------------
(* Every step preserves the invariant.                                     *)

LEMMA NewEraType ==
  ASSUME NEW id \in Id \union {NoId}
  PROVE  NewEra(id) \in Era
BY DEF NewEra, Era

LEMMA InitEscInv == Init => EscInv
<1> SUFFICES ASSUME Init PROVE EscInv
  OBVIOUS
<1>1. Len(recirculating) = 0 /\ Copies = {}
  BY DEF Init, Copies
<1>2. Cleared \in FlowInfo
  BY DEF Cleared, FlowInfo
<1>3. EscTypes
  <2>1. pkt_cnt_initial_8 \in 0 .. W /\ clock \in Nat /\ seen \in 0 .. clock
    BY DEF Init
  <2>2. recirculating \in Seq([id : Id, born : Nat])
    BY DEF Init
  <2>3. era \in Era
    BY NewEraType DEF Init
  <2> QED BY <1>2, <2>1, <2>2, <2>3, Zenon DEF Init, EscTypes
<1>4. 0 % (ByteMax + 1) = 0
  BY SMT
<1>5. CountInv
  BY <1>4 DEF Init, CountInv, ThresholdMatchesSum, NewEra
<1> QED BY <1>1, <1>3, <1>5 DEF EscInv, OwnerInv, CopyInv, FlagEarned, Init

LEMMA FirstPacketEscInv ==
  ASSUME EscInv, NEW id \in Id, FirstPacket(id)
  PROVE  EscInv'
<1>1. Expired(flow_info, Now) /\ flow_info' = [id |-> id, timestamp |-> Now]
  BY Cases DEF FirstPacket, Case
<1>2. Copies = {} /\ Copies' = {}
  BY <1>1, CopyKeepsEntry DEF FirstPacket, Copies
<1>3. clock \in Nat /\ clock' = clock /\ seen' = clock
  BY DEF EscInv, EscTypes, FirstPacket
<1>4. flow_info' \in FlowInfo /\ flow_info' # Cleared
  BY <1>1, <1>3, NewEntry DEF Now
<1>5. EscTypes'
  <2>1. era' \in Era
    BY NewEraType DEF FirstPacket
  <2>2. pkt_cnt_initial_8' \in 0 .. W /\ seen' \in 0 .. clock'
    BY <1>3 DEF FirstPacket
  <2> QED BY <1>3, <1>4, <2>1, <2>2 DEF EscInv, EscTypes, FirstPacket
<1>6. OwnerInv'
  BY <1>1, <1>3 DEF OwnerInv, FirstPacket, NewEra, Now
<1>7. CopyInv'
  BY <1>2 DEF CopyInv
<1>8. 0 % (ByteMax + 1) = 0
  BY SMT
<1>9. CountInv'
  BY <1>8 DEF CountInv, ThresholdMatchesSum, FirstPacket, NewEra, Results
<1>10. FlagEarned'
  BY DEF FlagEarned, FirstPacket
<1> QED BY <1>5, <1>6, <1>7, <1>9, <1>10 DEF EscInv

LEMMA CollidingPacketEscInv ==
  ASSUME EscInv, NEW id \in Id, CollidingPacket(id)
  PROVE  EscInv'
<1> USE DEF CollidingPacket
<1>1. Copies' = Copies
  BY DEF Copies
<1>2. EscTypes'
  BY DEF EscInv, EscTypes
<1>3. OwnerInv' /\ FlagEarned'
  BY DEF EscInv, OwnerInv, FlagEarned
<1>4. CopyInv'
  BY <1>1 DEF EscInv, CopyInv
<1>5. CountInv'
  BY DEF EscInv, CountInv, ThresholdMatchesSum
<1> QED BY <1>2, <1>3, <1>4, <1>5 DEF EscInv

LEMMA LoseMirroredEscInv ==
  ASSUME EscInv, LoseMirrored
  PROVE  EscInv'
<1> USE DEF LoseMirrored
<1>1. recirculating' \in Seq([id : Id, born : Nat]) /\ Copies' \subseteq Copies
  BY CopiesOfTail DEF EscInv, EscTypes
<1>2. EscTypes'
  BY <1>1 DEF EscInv, EscTypes
<1>3. OwnerInv' /\ FlagEarned'
  BY DEF EscInv, OwnerInv, FlagEarned
<1>4. CopyInv'
  BY <1>1 DEF EscInv, CopyInv
<1>5. CountInv'
  BY DEF EscInv, CountInv, ThresholdMatchesSum
<1> QED BY <1>2, <1>3, <1>4, <1>5 DEF EscInv

LEMMA CleanUpEscInv ==
  ASSUME EscInv, CleanUp
  PROVE  EscInv'
<1> USE DEF CleanUp
<1>1. Len(recirculating') = 0 /\ Copies' = {}
  BY DEF Copies
<1>2. Cleared \in FlowInfo
  BY DEF Cleared, FlowInfo
<1>3. EscTypes'
  BY <1>2 DEF EscInv, EscTypes
<1>4. CountInv'
  BY DEF EscInv, CountInv, ThresholdMatchesSum
<1> QED BY <1>1, <1>3, <1>4 DEF EscInv, OwnerInv, CopyInv, FlagEarned

LEMMA TickEscInv ==
  ASSUME EscInv, Tick
  PROVE  EscInv'
<1> USE DEF Tick
<1>1. clock \in Nat /\ seen \in 0 .. clock /\ clock' = clock + 1 /\ seen' = seen
  BY DEF EscInv, EscTypes
<1>2. Copies' = Copies
  BY DEF Copies
<1>3. EscTypes'
  BY <1>1 DEF EscInv, EscTypes
<1>4. flow_info # Cleared => clock' - seen' < Wrap
  BY <1>1
<1>5. OwnerInv'
  BY <1>1, <1>4 DEF EscInv, OwnerInv
<1>6. ASSUME NEW c \in Copies
      PROVE  c.born \in Nat /\ clock - c.born < Delay
  <2>1. PICK i \in 1 .. Len(recirculating) : c = recirculating[i]
    BY DEF Copies
  <2>2. recirculating[i] \in [id : Id, born : Nat]
    BY MemberOfSeq DEF EscInv, EscTypes
  <2> QED BY <2>1, <2>2
<1>7. ASSUME NEW c \in Copies
      PROVE  c.born <= clock' /\ clock' - c.born <= Delay
  <2>1. c.born <= clock
    BY DEF EscInv, CopyInv
  <2>2. c.born \in Nat /\ clock - c.born < Delay
    BY <1>6
  <2> QED BY <1>1, <2>1, <2>2
<1>8. CopyInv'
  BY <1>1, <1>2, <1>7 DEF EscInv, CopyInv
<1>9. CountInv' /\ FlagEarned'
  BY DEF EscInv, CountInv, ThresholdMatchesSum, FlagEarned
<1> QED BY <1>3, <1>5, <1>8, <1>9 DEF EscInv

LEMMA RecirculatedEscInv ==
  ASSUME EscInv, Recirculated
  PROVE  EscInv'
<1> DEFINE pkt == Head(recirculating)
           time == IF headerTime THEN pkt.born ELSE clock
<1>1. /\ recirculating' \in Seq([id : Id, born : Nat])
      /\ pkt \in Copies /\ pkt \in [id : Id, born : Nat]
      /\ Copies' \subseteq Copies
  BY CopiesOfTail DEF EscInv, EscTypes, Recirculated
<1>2. /\ flow_info # Cleared /\ flow_info.id = pkt.id /\ era.id = pkt.id
      /\ era.mirrored /\ era.low >= TEsc
  BY <1>1 DEF EscInv, CopyInv, OwnerInv
<1>3. clock \in Nat /\ pkt.born \in Nat /\ pkt.born <= clock /\ clock - pkt.born <= Delay
  BY <1>1 DEF EscInv, EscTypes, CopyInv
<1>4. time \in 0 .. clock /\ clock - time <= Delay
  BY <1>3
<1> HIDE DEF time
<1>5. Predicate(flow_info, pkt.id, time % Wrap) \in {1, 4}
  BY <1>2, Cases
<1>6. /\ flow_info' = Updated(flow_info, pkt.id, time % Wrap)
      /\ seen' = IF Predicate(flow_info, pkt.id, time % Wrap) = 2 THEN seen ELSE time
      /\ stored_escalation_flag' \in {TRUE, FALSE, stored_escalation_flag}
      /\ UNCHANGED <<headerTime, pkt_cnt_initial_8, intermediate_result_cnt, ambiguous_cnt,
                     cpr, clock, era>>
  BY DEF Recirculated, time
<1>7. flow_info' = [id |-> pkt.id, timestamp |-> time % Wrap] /\ seen' = time
  BY <1>5, <1>6, Cases
<1>8. flow_info' \in FlowInfo /\ flow_info' # Cleared
  BY <1>1, <1>4, <1>7, NewEntry
<1>9. EscTypes'
  BY <1>1, <1>4, <1>6, <1>7, <1>8 DEF EscInv, EscTypes
<1>10. OwnerInv'
  <2>1. clock - time < Wrap
    BY <1>3, <1>4
  <2> QED BY <1>2, <1>6, <1>7, <2>1 DEF OwnerInv
<1>11. CopyInv'
  <2>1. ASSUME NEW c \in Copies
        PROVE  c.born - time <= Delay
    <3>1. c.born <= clock
      BY DEF EscInv, CopyInv
    <3>2. c.born \in Nat
      <4>1. PICK i \in 1 .. Len(recirculating) : c = recirculating[i]
        BY DEF Copies
      <4>2. recirculating[i] \in [id : Id, born : Nat]
        BY MemberOfSeq DEF EscInv, EscTypes
      <4> QED BY <4>1, <4>2
    <3> QED BY <1>3, <1>4, <3>1, <3>2
  <2> QED BY <1>1, <1>6, <1>7, <1>8, <2>1 DEF EscInv, CopyInv
<1>12. CountInv'
  BY <1>2, <1>6 DEF EscInv, CountInv, ThresholdMatchesSum
<1>13. FlagEarned'
  BY <1>2, <1>6, <1>7 DEF FlagEarned
<1> QED BY <1>9, <1>10, <1>11, <1>12, <1>13 DEF EscInv

\* The network's result keeps the registers of the egress in step, and mirrors a
\* packet only when enough packets of this owner were ambiguous.
LEMMA ClassifyCounts ==
  ASSUME EscInv, NEW id \in Id, NEW low \in BOOLEAN, Classify(id, low)
  PROVE  /\ era' \in Era /\ era'.id = era.id
         /\ era.mirrored => era'.mirrored
         /\ era'.low >= era.low
         /\ ambiguous_cnt' = IF era'.low < ByteMax THEN era'.low ELSE ByteMax
         /\ intermediate_result_cnt' = era'.results % (ByteMax + 1)
         /\ ThresholdMatchesSum'
         /\ \/ recirculating' = recirculating
            \/ /\ recirculating' = Append(recirculating, [id |-> id, born |-> clock])
               /\ era'.mirrored /\ era'.low >= TEsc
<1>1. /\ era \in Era /\ era.results \in Nat /\ era.low \in Nat
      /\ ambiguous_cnt = IF era.low < ByteMax THEN era.low ELSE ByteMax
      /\ intermediate_result_cnt = era.results % (ByteMax + 1)
  BY DEF EscInv, EscTypes, Era, CountInv
<1> DEFINE mirror == low /\ NeedEscalation(ambiguous_cnt) /\ ~stored_escalation_flag
           one == IF low THEN 1 ELSE 0
<1>a. mirror \in BOOLEAN /\ one \in {0, 1}
  BY DEF NeedEscalation
<1>b. /\ era' = [era EXCEPT !.results = @ + 1, !.low = @ + one, !.mirrored = @ \/ mirror]
      /\ recirculating' = IF mirror THEN Append(recirculating, [id |-> id, born |-> clock])
                                    ELSE recirculating
  BY Zenon DEF Classify
<1> HIDE DEF mirror, one
<1>2. /\ era' \in Era /\ era'.id = era.id /\ era'.results = era.results + 1
      /\ era'.low = era.low + one
      /\ era'.mirrored = (era.mirrored \/ mirror)
  <2> DEFINE a == era.results + 1
             b == era.low + one
             c == era.mirrored \/ mirror
  <2>1. era' = [era EXCEPT !.results = a, !.low = b, !.mirrored = c]
    BY <1>b, Zenon
  <2>2. a \in Nat /\ b \in Nat /\ c \in BOOLEAN
    BY <1>1, <1>a
  <2> HIDE DEF a, b, c
  <2>3. era' \in Era /\ era'.id = era.id /\ era'.results = a /\ era'.low = b
        /\ era'.mirrored = c
    BY <1>1, <2>1, <2>2, Zenon DEF Era
  <2> QED BY <2>3 DEF a, b, c
<1>3. ambiguous_cnt' = IF era'.low < ByteMax THEN era'.low ELSE ByteMax
  <2>1. era'.low \in Nat /\ era'.low = IF low THEN era.low + 1 ELSE era.low
    BY <1>1, <1>2 DEF one
  <2>2. ambiguous_cnt' = IF low THEN SaturatedInc(ambiguous_cnt) ELSE ambiguous_cnt
    BY DEF Classify
  <2>3. SaturatedInc(ambiguous_cnt)
          = IF ambiguous_cnt < ByteMax THEN ambiguous_cnt + 1 ELSE ambiguous_cnt
    BY DEF SaturatedInc
  <2> HIDE DEF SaturatedInc
  <2>4. CASE low
    BY <1>1, <2>1, <2>2, <2>3, <2>4
  <2>5. CASE ~low
    BY <1>1, <2>1, <2>2, <2>5
  <2> QED BY <2>4, <2>5
<1>4. intermediate_result_cnt' = era'.results % (ByteMax + 1)
  <2>1. ByteMax + 1 \in Nat \ {0}
    OBVIOUS
  <2>2. (era.results + 1) % (ByteMax + 1)
          = IF era.results % (ByteMax + 1) = ByteMax + 1 - 1 THEN 0
            ELSE 1 + (era.results % (ByteMax + 1))
    <3> DEFINE c == ByteMax + 1
    <3> HIDE DEF c
    <3>1. c \in Nat \ {0}
      BY <2>1 DEF c
    <3>2. (era.results + 1) % c = IF era.results % c = c - 1 THEN 0 ELSE 1 + (era.results % c)
      BY <1>1, <3>1, ModStep
    <3> QED BY <3>2 DEF c
  <2>3. (intermediate_result_cnt + 1) % (ByteMax + 1) = (era.results + 1) % (ByteMax + 1)
    <3> DEFINE c == ByteMax + 1
               r == era.results % c
    <3>1. r \in 0 .. c - 1 /\ c \in Nat \ {0}
      BY <1>1, <2>1, ModStep
    <3>2. (era.results + 1) % c = IF r = c - 1 THEN 0 ELSE 1 + r
      BY <2>2
    <3> HIDE DEF c, r
    <3>3. (r + 1) % c = IF r = c - 1 THEN 0 ELSE 1 + r
      BY <3>1, SMT
    <3> QED BY <1>1, <3>2, <3>3 DEF r, c
  <2> QED BY <1>2, <2>3 DEF Classify, Results
<1>5. ThresholdMatchesSum'
  <2>1. Index = era.results % Period
    BY <1>1, ByteIndex DEF Index
  <2>2. cpr' = IF Index = 0 THEN 1 ELSE cpr + 1
    BY DEF Classify
  <2>3. Period \in Nat \ {0}
    OBVIOUS
  <2>4. CASE era.results = 0
    <3>1. 0 % Period = 0
      BY <2>3, SMT
    <3> QED BY <1>2, <2>1, <2>2, <2>4, <3>1 DEF ThresholdMatchesSum
  <2>5. CASE era.results # 0
    <3> DEFINE n == era.results - 1
               r == n % Period
               s == era.results % Period
    <3>1. n \in Nat /\ n + 1 = era.results
      BY <1>1, <2>5
    <3>2. r \in 0 .. Period - 1
          /\ (n + 1) % Period = IF r = Period - 1 THEN 0 ELSE 1 + r
      BY <2>3, <3>1, ModStep
    <3>3. s = IF r = Period - 1 THEN 0 ELSE 1 + r
      BY <3>1, <3>2
    <3>4. cpr = r + 1 /\ cpr <= era.results
      BY <1>1, <2>5 DEF EscInv, CountInv, ThresholdMatchesSum
    <3>5. era'.results - 1 = era.results
      BY <1>1, <1>2
    <3>6. cpr' = IF s = 0 THEN 1 ELSE cpr + 1
      BY <2>1, <2>2
    <3> HIDE DEF r, s
    <3>7. cpr' = s + 1 /\ cpr' <= era.results + 1
      BY <1>1, <2>3, <3>2, <3>3, <3>4, <3>6
    <3> QED BY <1>2, <3>5, <3>7 DEF ThresholdMatchesSum, s
  <2> QED BY <2>4, <2>5
<1>6. \/ recirculating' = recirculating
      \/ /\ recirculating' = Append(recirculating, [id |-> id, born |-> clock])
         /\ era'.mirrored /\ low /\ NeedEscalation(ambiguous_cnt)
  BY <1>b, <1>2 DEF mirror
<1>7. ASSUME NeedEscalation(ambiguous_cnt)
      PROVE  era.low + 1 >= TEsc
  <2>1. CASE ambiguous_cnt = ByteMax
    <3>1. (ByteMax + 1) % (ByteMax + 1) = 0
      BY SMT
    <3> QED BY <1>7, <2>1, <3>1 DEF NeedEscalation
  <2>2. CASE ambiguous_cnt # ByteMax
    <3>1. ambiguous_cnt = era.low /\ era.low < ByteMax
      BY <1>1, <2>2
    <3>2. (era.low + 1) % (ByteMax + 1) = era.low + 1
      BY <1>1, <3>1, SMT
    <3> QED BY <1>7, <3>1, <3>2 DEF NeedEscalation
  <2> QED BY <2>1, <2>2
<1>8. era'.low >= era.low /\ (low => era'.low = era.low + 1)
  BY <1>1, <1>2 DEF one
<1> QED BY <1>1, <1>2, <1>3, <1>4, <1>5, <1>6, <1>7, <1>8

LEMMA OwnerPacketEscInv ==
  ASSUME EscInv, NEW id \in Id, NEW low \in BOOLEAN, OwnerPacket(id, low)
  PROVE  EscInv'
<1> DEFINE cnt8 == IF pkt_cnt_initial_8 < W THEN pkt_cnt_initial_8 + 1 ELSE pkt_cnt_initial_8
<1>1. /\ Predicate(flow_info, id, Now) = 1 /\ flow_info' = Updated(flow_info, id, Now)
      /\ pkt_cnt_initial_8' = cnt8 /\ seen' = clock
      /\ UNCHANGED <<headerTime, stored_escalation_flag, clock>>
  BY DEF OwnerPacket, Case
<1>2. /\ \/ cnt8 = W /\ Classify(id, low)
         \/ /\ cnt8 # W /\ intermediate_result_cnt' = Results(FALSE)
            /\ UNCHANGED <<cpr, ambiguous_cnt, recirculating, era>>
  BY DEF OwnerPacket
<1>3. clock \in Nat /\ pkt_cnt_initial_8 \in 0 .. W /\ era \in Era
  BY DEF EscInv, EscTypes
<1>4. id = flow_info.id /\ flow_info' = [id |-> id, timestamp |-> Now]
  BY <1>1, Cases
<1>5. flow_info # Cleared /\ era.id = id
  BY <1>4, OwnerEntry
<1>6. flow_info' \in FlowInfo /\ flow_info' # Cleared
  BY <1>3, <1>4, NewEntry DEF Now
<1>7. cnt8 \in 0 .. W /\ (cnt8 # W => pkt_cnt_initial_8 < W)
  BY <1>3
<1> HIDE DEF cnt8
\* What the egress did.
<1>8. /\ era' \in Era /\ era'.id = id
      /\ era.mirrored => era'.mirrored
      /\ era'.low >= era.low
      /\ CountInv'
  <2>1. CASE cnt8 = W /\ Classify(id, low)
    <3>1. /\ era' \in Era /\ era'.id = id /\ (era.mirrored => era'.mirrored)
          /\ era'.low >= era.low
      BY <1>5, <2>1, ClassifyCounts
    <3>2. /\ ambiguous_cnt' = IF era'.low < ByteMax THEN era'.low ELSE ByteMax
          /\ intermediate_result_cnt' = era'.results % (ByteMax + 1)
          /\ ThresholdMatchesSum'
      BY <2>1, ClassifyCounts
    <3>3. ~(pkt_cnt_initial_8' < W)
      BY <1>1, <1>7, <2>1
    <3> QED BY <3>1, <3>2, <3>3 DEF CountInv
  <2>2. CASE /\ cnt8 # W /\ intermediate_result_cnt' = Results(FALSE)
             /\ UNCHANGED <<cpr, ambiguous_cnt, recirculating, era>>
    <3>1. era.results = 0
      BY <1>5, <1>7, <2>2 DEF EscInv, CountInv
    <3>2. 0 % (ByteMax + 1) = 0
      BY SMT
    <3>3. intermediate_result_cnt' = era'.results % (ByteMax + 1) /\ ThresholdMatchesSum'
      BY <2>2, <3>1, <3>2 DEF Results, ThresholdMatchesSum
    <3>4. CountInv'
      BY <2>2, <3>1, <3>3 DEF EscInv, CountInv
    <3>5. era.low \in Nat
      BY <1>3 DEF Era
    <3> QED BY <1>3, <1>5, <2>2, <3>4, <3>5
  <2> QED BY <1>2, <2>1, <2>2
<1>9. /\ recirculating' \in Seq([id : Id, born : Nat])
      /\ \A c \in Copies' :
           \/ c \in Copies
           \/ c = [id |-> id, born |-> clock] /\ era'.mirrored /\ era'.low >= TEsc
  <2>1. recirculating \in Seq([id : Id, born : Nat])
    BY DEF EscInv, EscTypes
  <2>2. CASE recirculating' = recirculating
    BY <2>1, <2>2 DEF Copies
  <2>3. CASE /\ recirculating' = Append(recirculating, [id |-> id, born |-> clock])
             /\ era'.mirrored /\ era'.low >= TEsc
    BY <1>3, <2>1, <2>3, CopiesOfAppend
  <2> QED BY <1>2, <2>2, <2>3, ClassifyCounts
<1>10. EscTypes'
  <2>1. pkt_cnt_initial_8' \in 0 .. W /\ seen' \in 0 .. clock' /\ clock' \in Nat
    BY <1>1, <1>3, <1>7
  <2> QED BY <1>1, <1>6, <1>8, <1>9, <2>1 DEF EscInv, EscTypes
<1>11. OwnerInv'
  BY <1>1, <1>3, <1>4, <1>8 DEF OwnerInv, Now
<1>12. TEsc \in Nat /\ era.low \in Nat /\ era'.low \in Nat
  BY <1>3, <1>8 DEF Era
<1>13. CopyInv'
  <2>1. ASSUME NEW c \in Copies
        PROVE  /\ c.id = era'.id /\ era'.mirrored /\ era'.low >= TEsc
               /\ c.born <= clock /\ clock - c.born <= Delay /\ c.born - clock <= Delay
    <3>1. /\ c.id = era.id /\ era.mirrored /\ era.low >= TEsc
          /\ c.born <= clock /\ clock - c.born <= Delay
      BY DEF EscInv, CopyInv
    <3>2. c.born \in Nat
      <4>1. PICK i \in 1 .. Len(recirculating) : c = recirculating[i]
        BY DEF Copies
      <4>2. recirculating[i] \in [id : Id, born : Nat]
        BY MemberOfSeq DEF EscInv, EscTypes
      <4> QED BY <4>1, <4>2
    <3>3. c.born - clock <= Delay
      BY <1>3, <3>1, <3>2
    <3> QED BY <1>5, <1>8, <1>12, <3>1, <3>3
  <2>2. ASSUME NEW c, c = [id |-> id, born |-> clock]
        PROVE  c.id = id /\ c.born <= clock /\ clock - c.born <= Delay /\ c.born - clock <= Delay
    BY <1>3, <2>2
  <2> QED BY <1>1, <1>6, <1>8, <1>9, <2>1, <2>2 DEF CopyInv
<1>14. FlagEarned'
  BY <1>1, <1>4, <1>5, <1>8, <1>12 DEF EscInv, FlagEarned
<1> QED BY <1>8, <1>10, <1>11, <1>13, <1>14 DEF EscInv

LEMMA NextEscInv == EscInv /\ [Next]_vars => EscInv'
<1> SUFFICES ASSUME EscInv, [Next]_vars PROVE EscInv'
  OBVIOUS
<1>1. ASSUME NEW id \in Id, FirstPacket(id) PROVE EscInv'
  BY <1>1, FirstPacketEscInv
<1>2. ASSUME NEW id \in Id, NEW low \in BOOLEAN, OwnerPacket(id, low) PROVE EscInv'
  BY <1>2, OwnerPacketEscInv
<1>3. ASSUME NEW id \in Id, CollidingPacket(id) PROVE EscInv'
  BY <1>3, CollidingPacketEscInv
<1>4. CASE Recirculated
  BY <1>4, RecirculatedEscInv
<1>5. CASE LoseMirrored
  BY <1>5, LoseMirroredEscInv
<1>6. CASE CleanUp
  BY <1>6, CleanUpEscInv
<1>7. CASE Tick
  BY <1>7, TickEscInv
<1>8. CASE UNCHANGED vars
  <2>1. Copies' = Copies
    BY <1>8 DEF vars, Copies
  <2>2. EscTypes' /\ OwnerInv' /\ FlagEarned'
    BY <1>8 DEF EscInv, vars, EscTypes, OwnerInv, FlagEarned
  <2>3. CopyInv'
    BY <1>8, <2>1 DEF EscInv, vars, CopyInv
  <2>4. CountInv'
    BY <1>8 DEF EscInv, vars, CountInv, ThresholdMatchesSum
  <2> QED BY <2>2, <2>3, <2>4 DEF EscInv
<1> QED BY <1>1, <1>2, <1>3, <1>4, <1>5, <1>6, <1>7, <1>8 DEF Next

\* The strengthening the theorems rest on holds in every reachable state.
THEOREM EscalationInvariant == Spec => []EscInv
BY InitEscInv, NextEscInv, PTL DEF Spec
-----------------------------------------------------------------------------
(* What follows.                                                           *)

\* No flow inherits the escalation flag, or keeps its own over a timeout: with
\* any number of flows on the entry, lost copies, and the script between two
\* experiments, a set flag was earned by the flow that owns the entry.
THEOREM EscalationIsEarned == Spec => []FlagEarned
<1>1. EscInv => FlagEarned
  BY DEF EscInv
<1> QED BY <1>1, EscalationInvariant, PTL

\* The saturating and the wrapping register of the egress hold the counts of the
\* present owner, for registers of any width.
THEOREM OwnCounts == Spec => []CountsOfOwner
<1>1. EscInv => CountsOfOwner
  BY DEF EscInv, OwnerInv, CountInv, CountsOfOwner
<1> QED BY <1>1, EscalationInvariant, PTL

\* The index into the thresholds counts the results the probabilities sum up,
\* although it is taken from a counter that wraps.
THEOREM ThresholdIndex == Spec => []ThresholdMatchesSum
<1>1. EscInv => ThresholdMatchesSum
  BY DEF EscInv, CountInv
<1> QED BY <1>1, EscalationInvariant, PTL

\* In the normal version only a packet of another flow, or a packet after a
\* timeout, ends an escalation: a copy that comes round never finds its entry
\* timed out.
THEOREM EscalationLasts == Spec => EscalationHolds
<1> DEFINE Held == stored_escalation_flag /\ ~stored_escalation_flag'
                     => headerTime \/ last'.kind = "packet"
<1>1. ASSUME EscInv, [Next]_vars, stored_escalation_flag, ~stored_escalation_flag',
             ~headerTime
      PROVE  last'.kind = "packet"
  <2>1. ASSUME NEW id \in Id, FirstPacket(id) PROVE last'.kind = "packet"
    BY <2>1 DEF FirstPacket
  <2>2. CASE Recirculated
    <3>1. Head(recirculating) \in Copies
      BY <1>1, <2>2, CopiesOfTail DEF EscInv, EscTypes, Recirculated
    <3>2. ~Expired(flow_info, Now)
      BY <1>1, <3>1, CopyKeepsEntry
    <3>3. stored_escalation_flag'
            = IF Predicate(flow_info, Head(recirculating).id, Now) >= 4 THEN FALSE
              ELSE IF Predicate(flow_info, Head(recirculating).id, Now) = 1 THEN TRUE
                   ELSE stored_escalation_flag
      BY <1>1, <2>2 DEF Recirculated, Now
    <3> QED BY <1>1, <3>2, <3>3, Cases
  <2>3. ASSUME ~Recirculated, \A id \in Id : ~FirstPacket(id)
        PROVE  stored_escalation_flag' = stored_escalation_flag
    BY <1>1, <2>3 DEF Next, OwnerPacket, CollidingPacket, LoseMirrored, CleanUp, Tick, vars
  <2> QED BY <1>1, <2>1, <2>2, <2>3
<1>2. EscInv /\ [Next]_vars => [Held]_vars
  BY <1>1
<1> QED BY <1>2, EscalationInvariant, PTL DEF Spec, EscalationHolds
-----------------------------------------------------------------------------
(* The window: SlidingWindow.                                              *)

\* The ring adds variables to the steps of module Escalation and no step of its
\* own: what holds of the entry there holds here.
THEOREM WindowRefinesEntry == WindowSpec => Spec
<1>1. WindowInit => Init
  BY DEF WindowInit
<1>2. [WindowNext]_windowVars => [Next]_vars
  BY DEF WindowNext, Next, windowVars, CollectFirst, CollectNext, Collide, CopyReturns, LoseCopy,
         ClearRing, Pass
<1> QED BY <1>1, <1>2, PTL DEF WindowSpec, Spec

\* One packet later every embedding is one packet further back.
LEMMA BinOfNext ==
  ASSUME NEW m \in 0 .. W - 1, NEW k \in 1 .. W
  PROVE  /\ BinOf(m, k) \in 0 .. W - 1
         /\ BinOf(NextMod(m), 1) = m
         /\ k < W => BinOf(NextMod(m), k + 1) = BinOf(m, k) /\ BinOf(m, k) # m
  BY WindowAssumption DEF BinOf, NextMod

\* tab_swap lists the registers from the oldest to the newest.
LEMMA SwapOldestFirst ==
  ASSUME NEW b \in [0 .. W - 1 -> Ev \union {NoEv}], NEW m \in 0 .. W - 1
  PROVE  /\ Swapped(b, m) \in Seq(Ev \union {NoEv}) /\ Len(Swapped(b, m)) = W
         /\ \A i \in 1 .. W : Swapped(b, m)[i] = b[BinOf(m, W + 1 - i)]
  <1> DEFINE at(i) == IF m + i - 1 < W THEN m + i - 1 ELSE m + i - 1 - W
  <1>1. \A i \in 1 .. W : at(i) \in 0 .. W - 1 /\ at(i) = BinOf(m, W + 1 - i)
    BY WindowAssumption DEF BinOf
  <1>2. Swapped(b, m) = [i \in 1 .. W |-> b[at(i)]]
    BY DEF Swapped
  <1> HIDE DEF at
  <1>3. \A i \in 1 .. W : b[at(i)] \in Ev \union {NoEv}
    BY <1>1
  <1> QED BY <1>1, <1>2, <1>3, WindowAssumption

\* What a packet without collision does: the embeddings collected grow or start
\* again, and the registers follow them.
LEMMA CollectKeeps ==
  ASSUME WindowInv, NEW ev \in Ev, Collect(ev),
         \/ collected' = <<ev>> /\ pkt_cnt_initial_8' = 0
         \/ collected' = Append(collected, ev) /\ collected # << >>
            /\ pkt_cnt_initial_8' = IF Len(collected) >= W THEN W ELSE Len(collected)
  PROVE  /\ collected' \in Seq(Ev) /\ collected' # << >>
         /\ pkt_cnt_initial_8' = IF Len(collected') > W THEN W ELSE Len(collected') - 1
         /\ pkt_cnt_mod_7' \in 0 .. W - 1
         /\ bin' \in [0 .. W - 1 -> Ev \union {NoEv}]
         /\ window' \in Seq(Ev \union {NoEv})
         /\ \A k \in 1 .. W : k <= Len(collected') =>
              bin'[BinOf(pkt_cnt_mod_7', k)] = collected'[Len(collected') + 1 - k]
         /\ WindowIsLatest'
  <1> USE WindowAssumption
  <1>1. WindowTypeOK BY DEF WindowInv
  <1> DEFINE m == pkt_cnt_mod_7
             cnt8 == pkt_cnt_initial_8'
  <1>2. /\ m \in 0 .. W - 1 /\ bin \in [0 .. W - 1 -> Ev \union {NoEv}] /\ collected \in Seq(Ev)
    BY <1>1 DEF WindowTypeOK
  <1>3. /\ pkt_cnt_mod_7' = NextMod(m)
        /\ bin' = [bin EXCEPT ![m] = ev]
        /\ window' = IF cnt8 = W THEN Append(Swapped(bin, m), ev) ELSE << >>
    BY DEF Collect
  <1>4. \A k \in 1 .. W : k <= Len(collected) => bin[BinOf(m, k)] = collected[Len(collected) + 1 - k]
    BY DEF WindowInv
  <1> DEFINE Grown(s) == /\ s \in Seq(Ev) /\ s # << >> /\ Len(s) \in Nat \ {0}
                         /\ s[Len(s)] = ev
                         /\ cnt8 = (IF Len(s) > W THEN W ELSE Len(s) - 1)
                         /\ Len(s) > 1 => s = Append(collected, ev) /\ Len(s) = Len(collected) + 1
  <1>4a. Grown(collected')
    <2>1. CASE collected' = <<ev>> /\ cnt8 = 0
      <3>1. Grown(<<ev>>)
        BY <2>1
      <3> QED BY <2>1, <3>1
    <2>2. CASE /\ collected' = Append(collected, ev) /\ collected # << >>
               /\ cnt8 = IF Len(collected) >= W THEN W ELSE Len(collected)
      <3>1. Len(collected) \in Nat
        BY <1>2
      <3>2. /\ Append(collected, ev) \in Seq(Ev) /\ Len(Append(collected, ev)) = Len(collected) + 1
            /\ Append(collected, ev)[Len(collected) + 1] = ev
        BY <1>2
      <3>3. Grown(Append(collected, ev))
        BY <2>2, <3>1, <3>2
      <3> QED BY <2>2, <3>3
    <2> QED BY <2>1, <2>2
  <1>5. collected' \in Seq(Ev) /\ collected' # << >> /\ Len(collected') \in Nat \ {0}
    BY <1>4a
  <1>6. collected'[Len(collected')] = ev
    BY <1>4a
  <1>7. cnt8 = IF Len(collected') > W THEN W ELSE Len(collected') - 1
    BY <1>4a
  <1>7a. Len(collected') > 1 => collected' = Append(collected, ev) /\ Len(collected') = Len(collected) + 1
    BY <1>4a
  <1> HIDE DEF Grown
  <1>8. NextMod(m) \in 0 .. W - 1
    BY <1>2 DEF NextMod
  <1>9. bin' \in [0 .. W - 1 -> Ev \union {NoEv}]
    BY <1>2, <1>3
  <1>10. ASSUME NEW k \in 1 .. W, k <= Len(collected')
         PROVE  bin'[BinOf(NextMod(m), k)] = collected'[Len(collected') + 1 - k]
    <2>1. CASE k = 1
      <3>1. BinOf(NextMod(m), 1) = m
        BY <1>2, BinOfNext
      <3>2. bin'[m] = ev
        BY <1>2, <1>3
      <3> QED BY <2>1, <3>1, <3>2, <1>5, <1>6
    <2>2. CASE k > 1
      <3>1. collected' = Append(collected, ev) /\ k - 1 \in 1 .. W /\ k - 1 <= Len(collected)
        BY <2>2, <1>2, <1>5, <1>7a, <1>10
      <3>2. BinOf(NextMod(m), k) = BinOf(m, k - 1) /\ BinOf(m, k - 1) # m
            /\ BinOf(m, k - 1) \in 0 .. W - 1
        <4> DEFINE j == k - 1
        <4>1. j \in 1 .. W /\ j < W /\ j + 1 = k
          BY <3>1, <2>2
        <4> HIDE DEF j
        <4>2. BinOf(NextMod(m), j + 1) = BinOf(m, j) /\ BinOf(m, j) # m /\ BinOf(m, j) \in 0 .. W - 1
          BY <4>1, <1>2, BinOfNext
        <4> QED BY <4>1, <4>2 DEF j
      <3>3. bin'[BinOf(NextMod(m), k)] = bin[BinOf(m, k - 1)]
        BY <3>2, <1>2, <1>3
      <3>4. bin[BinOf(m, k - 1)] = collected[Len(collected) + 1 - (k - 1)]
        BY <3>1, <1>4
      <3>5. collected'[Len(collected') + 1 - k] = collected[Len(collected) + 1 - (k - 1)]
        BY <3>1, <2>2, <1>2
      <3> QED BY <3>3, <3>4, <3>5
    <2> QED BY <2>1, <2>2
  <1>11. CASE cnt8 = W
    <2>1. Len(collected') > W /\ collected' = Append(collected, ev) /\ Len(collected) >= W
      BY <1>11, <1>2, <1>5, <1>7, <1>7a
    <2>2. window' = Append(Swapped(bin, m), ev)
      BY <1>3, <1>11
    <2>3. /\ Swapped(bin, m) \in Seq(Ev \union {NoEv}) /\ Len(Swapped(bin, m)) = W
          /\ \A i \in 1 .. W : Swapped(bin, m)[i] = bin[BinOf(m, W + 1 - i)]
      BY <1>2, SwapOldestFirst
    <2>4. window' \in Seq(Ev \union {NoEv}) /\ Len(window') = W + 1
      BY <2>2, <2>3
    <2>5. ASSUME NEW i \in 1 .. W + 1
          PROVE  window'[i] = collected'[Len(collected') - (W + 1) + i]
      <3>1. CASE i = W + 1
        BY <3>1, <2>1, <2>2, <2>3, <1>2
      <3>2. CASE i <= W
        <4>1. window'[i] = bin[BinOf(m, W + 1 - i)]
          BY <3>2, <2>2, <2>3
        <4>2. bin[BinOf(m, W + 1 - i)] = collected[Len(collected) + 1 - (W + 1 - i)]
          BY <3>2, <2>1, <1>4
        <4>3. collected'[Len(collected') - (W + 1) + i] = collected[Len(collected) + 1 - (W + 1 - i)]
          BY <3>2, <2>1, <1>2
        <4> QED BY <4>1, <4>2, <4>3
      <3> QED BY <3>1, <3>2
    <2>6. WindowIsLatest'
      <3>1. Len(collected') >= W + 1
        BY <2>1, <1>5
      <3>2. \A i \in 1 .. W + 1 : window'[i] = collected'[Len(collected') - (W + 1) + i]
        BY <2>5
      <3> QED BY <3>1, <3>2, <2>4, Zenon DEF WindowIsLatest
    <2> QED BY <2>4, <2>6, <1>3, <1>5, <1>7, <1>8, <1>9, <1>10
  <1>12. CASE cnt8 # W
    <2>1. window' = << >>
      BY <1>3, <1>12
    <2>2. WindowIsLatest'
      BY <2>1 DEF WindowIsLatest
    <2> QED BY <2>1, <2>2, <1>3, <1>5, <1>7, <1>8, <1>9, <1>10
  <1> QED BY <1>11, <1>12

\* The cleared registers.
LEMMA InitWindowInv == WindowInit => WindowInv
  <1> SUFFICES ASSUME WindowInit PROVE WindowInv
    OBVIOUS
  <1>1. WindowTypeOK
    BY DEF WindowInit, WindowTypeOK
  <1>2. flow_info = Cleared /\ collected = << >> /\ Len(recirculating) = 0 /\ window = << >>
    BY DEF WindowInit, Init
  <1>3. WindowIsLatest /\ Refreshed
    BY <1>2 DEF WindowIsLatest, Refreshed
  <1> QED BY <1>1, <1>2, <1>3 DEF WindowInv

\* A step that leaves the ring and the count alone.
LEMMA SkipKeeps ==
  ASSUME WindowInv, Skip, pkt_cnt_initial_8' = pkt_cnt_initial_8, Refreshed',
         (flow_info' = Cleared) <=> (flow_info = Cleared), clock' = clock
  PROVE  WindowInv'
  <1>1. WindowIsLatest'
    BY DEF Skip, WindowIsLatest
  <1>2. WindowTypeOK'
    BY DEF WindowInv, WindowTypeOK, Skip
  <1> QED BY <1>1, <1>2 DEF WindowInv, Skip

\* No packet comes in while a copy is under way that would find the entry timed
\* out, so a new owner starts without copies.
LEMMA FirstPacketAlone ==
  ASSUME EscInv, NEW id \in Id, FirstPacket(id)
  PROVE  /\ flow_info' # Cleared /\ flow_info'.id = id
         /\ recirculating' = recirculating /\ Len(recirculating) = 0
  <1>1. Expired(flow_info, Now) /\ flow_info' = [id |-> id, timestamp |-> Now]
    BY Cases DEF FirstPacket, Case
  <1>2. Copies = {}
    BY <1>1, CopyKeepsEntry
  <1>3. Len(recirculating) \in Nat
    BY DEF EscInv, EscTypes
  <1>4. Len(recirculating) = 0
    <2>1. CASE Len(recirculating) # 0
      <3>1. 1 \in 1 .. Len(recirculating)
        BY <1>3, <2>1
      <3> QED BY <1>2, <3>1 DEF Copies
    <2> QED BY <2>1
  <1>5. clock \in Nat
    BY DEF EscInv, EscTypes
  <1>6. flow_info' # Cleared
    BY <1>1, <1>5, NewEntry DEF Now
  <1> QED BY <1>1, <1>4, <1>6 DEF FirstPacket

\* The owner's packet: the count, and the copy it may leave behind.
LEMMA OwnerPacketStep ==
  ASSUME EscInv, NEW id \in Id, NEW low \in BOOLEAN, OwnerPacket(id, low)
  PROVE  /\ flow_info # Cleared /\ flow_info' # Cleared /\ flow_info.id = id
         /\ ~Expired(flow_info, Now)
         /\ pkt_cnt_initial_8' = IF pkt_cnt_initial_8 < W THEN pkt_cnt_initial_8 + 1
                                                         ELSE pkt_cnt_initial_8
         /\ seen' = clock /\ clock' = clock /\ headerTime' = headerTime
         /\ \/ recirculating' = recirculating
            \/ recirculating' = Append(recirculating, [id |-> id, born |-> clock])
  <1>1. Predicate(flow_info, id, Now) = 1 /\ flow_info' = Updated(flow_info, id, Now)
    BY DEF OwnerPacket, Case
  <1>2. id = flow_info.id /\ flow_info' = [id |-> id, timestamp |-> Now] /\ ~Expired(flow_info, Now)
    BY <1>1, Cases
  <1>3. clock \in Nat
    BY DEF EscInv, EscTypes
  <1>4. flow_info # Cleared /\ flow_info' # Cleared
    BY <1>2, <1>3, OwnerEntry, NewEntry DEF Now
  <1>5. /\ \/ recirculating' = recirculating
           \/ recirculating' = Append(recirculating, [id |-> id, born |-> clock])
    BY Zenon DEF OwnerPacket, Classify
  <1>6. /\ pkt_cnt_initial_8' = IF pkt_cnt_initial_8 < W THEN pkt_cnt_initial_8 + 1
                                                         ELSE pkt_cnt_initial_8
        /\ seen' = clock /\ clock' = clock /\ headerTime' = headerTime
    BY DEF OwnerPacket
  <1> QED BY <1>2, <1>4, <1>5, <1>6

\* A copy comes round to its own flow's entry and brings a time at most Delay old.
LEMMA CopyStep ==
  ASSUME EscInv, Recirculated
  PROVE  /\ flow_info # Cleared /\ flow_info' # Cleared
         /\ \E i \in 1 .. Len(recirculating) :
              seen' = IF headerTime THEN recirculating[i].born ELSE clock
         /\ UNCHANGED <<headerTime, pkt_cnt_initial_8, clock>>
  <1> DEFINE pkt == Head(recirculating)
             time == IF headerTime THEN pkt.born ELSE clock
  <1>1. pkt \in Copies /\ pkt \in [id : Id, born : Nat]
    BY CopiesOfTail DEF EscInv, EscTypes, Recirculated
  <1>2. flow_info # Cleared /\ flow_info.id = pkt.id
    BY <1>1 DEF EscInv, CopyInv, OwnerInv
  <1>3. time \in Nat
    BY <1>1 DEF EscInv, EscTypes
  <1>4. /\ flow_info' = Updated(flow_info, pkt.id, time % Wrap)
        /\ seen' = IF Predicate(flow_info, pkt.id, time % Wrap) = 2 THEN seen ELSE time
        /\ UNCHANGED <<headerTime, pkt_cnt_initial_8, clock>>
    BY DEF Recirculated
  <1> HIDE DEF time
  <1>5. flow_info' = [id |-> pkt.id, timestamp |-> time % Wrap] /\ seen' = time
    BY <1>2, <1>4, Cases
  <1>6. flow_info' # Cleared
    BY <1>1, <1>3, <1>5, NewEntry
  <1>7. 1 \in 1 .. Len(recirculating) /\ pkt = recirculating[1]
    BY DEF Recirculated, EscInv, EscTypes
  <1> QED BY <1>2, <1>4, <1>5, <1>6, <1>7 DEF time

\* The copies still under way are those of before.
LEMMA OlderCopies ==
  ASSUME EscInv, Refreshed, recirculating # << >>, recirculating' = Tail(recirculating),
         arrived' = arrived
  PROVE  \A i \in 1 .. Len(recirculating') : recirculating'[i].born <= arrived'
  <1>1. recirculating \in Seq([id : Id, born : Nat])
    BY DEF EscInv, EscTypes
  <1>2. /\ Len(recirculating) \in Nat \ {0} /\ Len(recirculating') = Len(recirculating) - 1
        /\ \A i \in 1 .. Len(recirculating') : recirculating'[i] = recirculating[i + 1]
    BY <1>1
  <1> QED BY <1>2 DEF Refreshed

\* Every copy is younger than Delay.
LEMMA YoungCopies ==
  ASSUME EscInv, NEW i \in 1 .. Len(recirculating)
  PROVE  /\ recirculating[i].born \in Nat
         /\ recirculating[i].born <= clock /\ clock - recirculating[i].born <= Delay
  <1>1. recirculating[i] \in Copies /\ recirculating[i] \in [id : Id, born : Nat]
    BY MemberOfSeq DEF Copies, EscInv, EscTypes
  <1> QED BY <1>1 DEF EscInv, CopyInv

\* No step breaks the invariant.
LEMMA StepWindowInv == EscInv /\ WindowInv /\ [WindowNext]_windowVars => WindowInv'
  <1> SUFFICES ASSUME EscInv, WindowInv, [WindowNext]_windowVars PROVE WindowInv'
    OBVIOUS
  <1>1. /\ clock \in Nat /\ seen \in 0 .. clock /\ pkt_cnt_initial_8 \in 0 .. W
        /\ arrived \in 0 .. clock /\ collected \in Seq(Ev)
    BY DEF EscInv, EscTypes, WindowInv, WindowTypeOK
  <1>2. ASSUME NEW id \in Id, NEW ev \in Ev, CollectFirst(id, ev)
        PROVE  WindowInv'
    <2>1. /\ FirstPacket(id) /\ Collect(ev) /\ collected' = <<ev>>
          /\ pkt_cnt_initial_8' = 0 /\ arrived' = clock /\ seen' = clock /\ clock' = clock
      BY <1>2 DEF CollectFirst, FirstPacket, Collect
    <2>2. flow_info' # Cleared /\ Len(recirculating') = 0
      BY <2>1, FirstPacketAlone
    <2>3. Refreshed'
      BY <1>1, <2>1, <2>2 DEF Refreshed
    <2> QED BY <1>1, <2>1, <2>2, <2>3, CollectKeeps DEF WindowInv, WindowTypeOK
  <1>3. ASSUME NEW id \in Id, NEW low \in BOOLEAN, NEW ev \in Ev, CollectNext(id, low, ev)
        PROVE  WindowInv'
    <2>1. OwnerPacket(id, low) /\ Collect(ev) /\ collected' = Append(collected, ev)
          /\ arrived' = clock
      BY <1>3 DEF CollectNext, Collect
    <2>2. /\ flow_info # Cleared /\ flow_info' # Cleared
          /\ pkt_cnt_initial_8' = IF pkt_cnt_initial_8 < W THEN pkt_cnt_initial_8 + 1
                                                          ELSE pkt_cnt_initial_8
          /\ seen' = clock /\ clock' = clock
          /\ \/ recirculating' = recirculating
             \/ recirculating' = Append(recirculating, [id |-> id, born |-> clock])
      BY <2>1, OwnerPacketStep
    <2>3. collected # << >> /\ Len(collected) \in Nat \ {0}
      BY <1>1, <2>2 DEF WindowInv
    <2>4. pkt_cnt_initial_8' = IF Len(collected) >= W THEN W ELSE Len(collected)
      <3>1. pkt_cnt_initial_8 = IF Len(collected) > W THEN W ELSE Len(collected) - 1
        BY <2>3 DEF WindowInv
      <3> QED BY <2>2, <2>3, <3>1
    <2>5. \A i \in 1 .. Len(recirculating') : recirculating'[i].born <= clock
      <3>1. recirculating \in Seq([id : Id, born : Nat])
        BY DEF EscInv, EscTypes
      <3>2. CASE recirculating' = recirculating
        BY <3>2, YoungCopies
      <3>3. CASE recirculating' = Append(recirculating, [id |-> id, born |-> clock])
        <4> DEFINE c == [id |-> id, born |-> clock]
        <4>1. c.born = clock
          OBVIOUS
        <4> HIDE DEF c
        <4>2. recirculating' = Append(recirculating, c)
          BY <3>3 DEF c
        <4>3. /\ Len(recirculating) \in Nat /\ Len(recirculating') = Len(recirculating) + 1
              /\ \A i \in 1 .. Len(recirculating) : recirculating'[i] = recirculating[i]
              /\ recirculating'[Len(recirculating) + 1] = c
          BY <3>1, <4>2
        <4>4. ASSUME NEW i \in 1 .. Len(recirculating')
              PROVE  recirculating'[i].born <= clock
          <5>1. CASE i \in 1 .. Len(recirculating)
            BY <4>3, <5>1, YoungCopies
          <5>2. CASE i \notin 1 .. Len(recirculating)
            BY <1>1, <4>1, <4>3, <5>2
          <5> QED BY <5>1, <5>2
        <4> QED BY <4>4
      <3> QED BY <2>2, <3>2, <3>3
    <2>6. Refreshed'
      <3>1. seen' = clock /\ arrived' = clock
        BY <2>1, <2>2
      <3>2. clock <= clock /\ clock - clock <= Delay
        BY <1>1
      <3>3. IF headerTime' THEN seen' <= arrived' /\ arrived' - seen' <= Delay
                           ELSE arrived' <= seen' /\ seen' - arrived' <= Delay
        BY <3>1, <3>2
      <3>4. \A i \in 1 .. Len(recirculating') : recirculating'[i].born <= arrived'
        BY <2>5, <3>1
      <3> QED BY <3>3, <3>4, Zenon DEF Refreshed
    <2>7. /\ collected' \in Seq(Ev) /\ collected' # << >>
          /\ pkt_cnt_initial_8' = IF Len(collected') > W THEN W ELSE Len(collected') - 1
          /\ pkt_cnt_mod_7' \in 0 .. W - 1
          /\ bin' \in [0 .. W - 1 -> Ev \union {NoEv}]
          /\ window' \in Seq(Ev \union {NoEv})
          /\ \A k \in 1 .. W : k <= Len(collected') =>
               bin'[BinOf(pkt_cnt_mod_7', k)] = collected'[Len(collected') + 1 - k]
          /\ WindowIsLatest'
      BY <2>1, <2>3, <2>4, CollectKeeps
    <2>8. arrived' \in 0 .. clock'
      BY <1>1, <2>1, <2>2
    <2> QED BY <2>2, <2>6, <2>7, <2>8, Zenon DEF WindowInv, WindowTypeOK
  <1>4. ASSUME NEW id \in Id, Collide(id)
        PROVE  WindowInv'
    <2>1. /\ Skip /\ UNCHANGED <<flow_info, pkt_cnt_initial_8, recirculating, seen, headerTime, clock>>
      BY <1>4 DEF Collide, CollidingPacket
    <2>2. Refreshed'
      BY <2>1 DEF WindowInv, Refreshed, Skip
    <2> QED BY <2>1, <2>2, SkipKeeps
  <1>5. CASE CopyReturns
    <2>1. Recirculated /\ Skip /\ arrived' = arrived
      BY <1>5 DEF CopyReturns, Skip
    <2>2. /\ flow_info # Cleared /\ flow_info' # Cleared
          /\ UNCHANGED <<headerTime, pkt_cnt_initial_8, clock>>
      BY <2>1, CopyStep
    <2>3. \A i \in 1 .. Len(recirculating') : recirculating'[i].born <= arrived'
      BY <2>1, OlderCopies DEF WindowInv, Recirculated
    <2>4. PICK i \in 1 .. Len(recirculating) :
            seen' = IF headerTime THEN recirculating[i].born ELSE clock
      BY <2>1, CopyStep
    <2>5. /\ recirculating[i].born \in Nat /\ recirculating[i].born <= clock
          /\ clock - recirculating[i].born <= Delay /\ recirculating[i].born <= arrived
      BY YoungCopies DEF WindowInv, Refreshed
    <2>6. arrived <= clock
      BY <1>1
    <2>7. IF headerTime THEN seen' <= arrived /\ arrived - seen' <= Delay
                        ELSE arrived <= seen' /\ seen' - arrived <= Delay
      <3> DEFINE b == recirculating[i].born
      <3>1. b \in Nat /\ b <= clock /\ clock - b <= Delay /\ b <= arrived /\ arrived \in Nat
        BY <1>1, <2>5
      <3>2. seen' = IF headerTime THEN b ELSE clock
        BY <2>4
      <3> HIDE DEF b
      <3>3. arrived - b <= Delay /\ clock - arrived <= Delay
        BY <1>1, <2>6, <3>1
      <3> QED BY <2>6, <3>1, <3>2, <3>3
    <2>8. Refreshed'
      BY <2>1, <2>2, <2>3, <2>7 DEF Refreshed
    <2> QED BY <2>1, <2>2, <2>8, SkipKeeps
  <1>6. CASE LoseCopy
    <2>1. /\ LoseMirrored /\ Skip
          /\ UNCHANGED <<flow_info, pkt_cnt_initial_8, seen, headerTime, clock, arrived>>
      BY <1>6 DEF LoseCopy, LoseMirrored, Skip
    <2>2. \A i \in 1 .. Len(recirculating') : recirculating'[i].born <= arrived'
      BY <2>1, OlderCopies DEF WindowInv, LoseMirrored
    <2>3. Refreshed'
      BY <2>1, <2>2 DEF WindowInv, Refreshed
    <2> QED BY <2>1, <2>3, SkipKeeps
  <1>7. CASE ClearRing
    <2>1. /\ CleanUp /\ flow_info' = Cleared /\ recirculating' = << >> /\ pkt_cnt_initial_8' = 0
          /\ pkt_cnt_mod_7' = 0 /\ window' = << >> /\ collected' = << >>
          /\ bin' = bin /\ arrived' = arrived /\ clock' = clock
      BY <1>7 DEF ClearRing, CleanUp
    <2>2. WindowTypeOK'
      BY <2>1 DEF WindowInv, WindowTypeOK
    <2>3. WindowIsLatest' /\ Refreshed'
      BY <2>1 DEF WindowIsLatest, Refreshed
    <2>4. Len(collected') = 0
      BY <2>1
    <2> QED BY <2>1, <2>2, <2>3, <2>4 DEF WindowInv
  <1>8. CASE Pass \/ UNCHANGED windowVars
    <2>1. UNCHANGED <<flow_info, pkt_cnt_initial_8, recirculating, seen, headerTime>>
          /\ UNCHANGED ringVars
      BY <1>8 DEF Pass, Tick, windowVars, vars
    <2>2. arrived' \in 0 .. clock'
      BY <1>1, <1>8 DEF Pass, Tick, windowVars, vars, ringVars
    <2> QED BY <2>1, <2>2 DEF WindowInv, WindowTypeOK, WindowIsLatest, Refreshed, ringVars
  <1> QED BY <1>2, <1>3, <1>4, <1>5, <1>6, <1>7, <1>8 DEF WindowNext

\* The registers hold the owner's embeddings backwards, always, and the entry's
\* timestamp keeps within Delay of the owner's last packet.
THEOREM WindowInvariant == WindowSpec => []WindowInv
  BY InitWindowInv, StepWindowInv, WindowRefinesEntry, EscalationInvariant, PTL DEF WindowSpec

\* The registers keep their widths and hold embeddings.
THEOREM WindowTypeCorrect == WindowSpec => []WindowTypeOK
  <1>1. WindowInv => WindowTypeOK BY DEF WindowInv
  <1> QED BY <1>1, WindowInvariant, PTL

\* The input of the network is the last W + 1 packets of the owner since its
\* entry was started: mem_and_swap.p4 never mixes two flows, whatever copies
\* come round in between.
THEOREM WindowCorrect == WindowSpec => []WindowIsLatest
  <1>1. WindowInv => WindowIsLatest BY DEF WindowInv
  <1> QED BY <1>1, WindowInvariant, PTL

\* From its W+1st packet on every packet of the owner is classified by the
\* network, and none before: the count of pkt_cnt.p4 says so in three bits.
THEOREM ClassifiedInTime == WindowSpec => ClassifiedFromWindow
  <1>1. ASSUME EscInv, WindowInv, WindowNext, collected' # collected
        PROVE  window' # << >> <=> Len(collected') > W
    <2>1. collected \in Seq(Ev) /\ pkt_cnt_mod_7 \in 0 .. W - 1
          /\ bin \in [0 .. W - 1 -> Ev \union {NoEv}]
      BY <1>1 DEF WindowInv, WindowTypeOK
    <2>2. ASSUME NEW id \in Id, NEW ev \in Ev, CollectFirst(id, ev)
          PROVE  window' # << >> <=> Len(collected') > W
      <3>1. window' = << >> /\ collected' = <<ev>>
        BY <2>2 DEF CollectFirst, FirstPacket, Collect
      <3> QED BY <3>1
    <2>3. ASSUME NEW id \in Id, NEW low \in BOOLEAN, NEW ev \in Ev, CollectNext(id, low, ev)
          PROVE  window' # << >> <=> Len(collected') > W
      <3>1. flow_info # Cleared
            /\ pkt_cnt_initial_8' = IF pkt_cnt_initial_8 < W THEN pkt_cnt_initial_8 + 1
                                                            ELSE pkt_cnt_initial_8
        BY <1>1, <2>3, OwnerPacketStep DEF CollectNext
      <3>2. collected # << >> /\ Len(collected) \in Nat \ {0}
        BY <1>1, <2>1, <3>1 DEF WindowInv
      <3>3. pkt_cnt_initial_8 = IF Len(collected) > W THEN W ELSE Len(collected) - 1
        BY <1>1, <3>2 DEF WindowInv
      <3>4. Len(collected') = Len(collected) + 1
        BY <2>1, <2>3 DEF CollectNext
      <3>5. pkt_cnt_initial_8' = W <=> Len(collected') > W
        BY <3>1, <3>2, <3>3, <3>4
      <3>6. window' = IF pkt_cnt_initial_8' = W THEN Append(Swapped(bin, pkt_cnt_mod_7), ev)
                                                ELSE << >>
        BY <2>3 DEF CollectNext, Collect
      <3>7. Append(Swapped(bin, pkt_cnt_mod_7), ev) # << >>
        BY <2>1, SwapOldestFirst
      <3> QED BY <3>5, <3>6, <3>7
    <2>4. CASE ClearRing
      <3>1. window' = << >> /\ Len(collected') = 0
        BY <2>4 DEF ClearRing
      <3> QED BY <3>1
    <2>5. CASE (\E id \in Id : Collide(id)) \/ CopyReturns \/ LoseCopy \/ Pass
      BY <1>1, <2>5 DEF Collide, CopyReturns, LoseCopy, Pass, Skip, ringVars
    <2> QED BY <1>1, <2>2, <2>3, <2>4, <2>5 DEF WindowNext
  <1>2. EscInv /\ WindowInv /\ [WindowNext]_windowVars =>
          [collected' # collected => (window' # << >> <=> Len(collected') > W)]_windowVars
    BY <1>1
  <1> QED BY <1>2, WindowInvariant, WindowRefinesEntry, EscalationInvariant, PTL
          DEF WindowSpec, ClassifiedFromWindow

\* An owner goes on only while its packets come within TIMEOUT of each other, and
\* loses its entry only when they do not, but for what the copies shift: however
\* often the 32-bit timestamp of flow_manager.p4 wraps.
THEOREM OwnersKeepTheirEntries == WindowSpec => OwnerKeepsEntry
  <1> DEFINE Step ==
        /\ (\E id \in Id, low \in BOOLEAN, ev \in Ev : CollectNext(id, low, ev)) =>
             clock - arrived <= Timeout + (IF headerTime THEN 0 ELSE Delay)
        /\ (\E id \in Id, ev \in Ev : CollectFirst(id, ev)) /\ flow_info # Cleared =>
             clock - arrived > Timeout - (IF headerTime THEN Delay ELSE 0)
  <1>1. ASSUME EscInv, WindowInv PROVE Step
    <2>1. /\ clock \in Nat /\ seen \in 0 .. clock /\ arrived \in 0 .. clock
      BY <1>1 DEF EscInv, EscTypes, WindowInv, WindowTypeOK
    <2>2. ASSUME flow_info # Cleared
          PROVE  Expired(flow_info, Now) <=> clock - seen > Timeout
      <3>1. flow_info.timestamp = seen % Wrap /\ clock - seen < Wrap
        BY <1>1, <2>2 DEF EscInv, OwnerInv
      <3>2. (Now + Wrap - flow_info.timestamp) % Wrap = clock - seen
        BY <2>1, <3>1, ClockDifference DEF Now
      <3> QED BY <3>2 DEF Expired
    <2>3. ASSUME flow_info # Cleared
          PROVE  IF headerTime THEN seen <= arrived /\ arrived - seen <= Delay
                               ELSE arrived <= seen /\ seen - arrived <= Delay
      BY <1>1, <2>3 DEF WindowInv, Refreshed
    <2>4. ASSUME NEW id \in Id, NEW low \in BOOLEAN, NEW ev \in Ev, CollectNext(id, low, ev)
          PROVE  clock - arrived <= Timeout + (IF headerTime THEN 0 ELSE Delay)
      <3>1. flow_info # Cleared /\ ~Expired(flow_info, Now)
        BY <1>1, <2>4, OwnerPacketStep DEF CollectNext
      <3>2. ~(clock - seen > Timeout)
        BY <2>2, <3>1
      <3> QED BY <2>1, <2>3, <3>1, <3>2
    <2>5. ASSUME NEW id \in Id, NEW ev \in Ev, CollectFirst(id, ev), flow_info # Cleared
          PROVE  clock - arrived > Timeout - (IF headerTime THEN Delay ELSE 0)
      <3>1. Expired(flow_info, Now)
        BY <2>5, Cases DEF CollectFirst, FirstPacket, Case
      <3>2. clock - seen > Timeout
        BY <2>2, <2>5, <3>1
      <3> QED BY <2>1, <2>3, <2>5, <3>2
    <2> QED BY <2>4, <2>5
  <1>2. EscInv /\ WindowInv /\ [WindowNext]_windowVars => [Step]_windowVars
    BY <1>1
  <1> QED BY <1>2, WindowInvariant, WindowRefinesEntry, EscalationInvariant, PTL
          DEF WindowSpec, OwnerKeepsEntry
=============================================================================
