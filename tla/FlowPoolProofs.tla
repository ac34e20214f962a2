--------------------------- MODULE FlowPoolProofs ---------------------------
(***************************************************************************)
(* The pool forgets no flow, hands none over twice and lets none wait      *)
(* behind metadata that came later, for any number of flows and metadata,  *)
(* any batch size and whatever the full ring dropped on the way.           *)
(***************************************************************************)
EXTENDS FlowPoolEnv, FiniteSetTheorems, TLAPS

-----------------------------------------------------------------------------
(* The top of the priority queue.                                          *)

\* Numbers from 1 to k have a smallest among them: otherwise "one less" would map
\* what lies above them into itself without its largest.
LEMMA SmallestExists ==
  ASSUME NEW k \in Nat, NEW T, T \subseteq 1 .. k, T # {}
  PROVE  \E m \in T : \A t \in T : m <= t
<1> SUFFICES ASSUME \A m \in T : \E t \in T : t < m PROVE FALSE
  OBVIOUS
<1> DEFINE Above == {z \in 0 .. k : \E t \in T : t <= z}
           Less == [z \in Above |-> z - 1]
<1>1. \A z \in Above : z - 1 \in Above \ {k}
  <2> SUFFICES ASSUME NEW z \in Above PROVE z - 1 \in Above /\ z - 1 # k
    OBVIOUS
  <2>1. PICK t \in T : t <= z
    OBVIOUS
  <2>2. PICK s \in T : s < t
    OBVIOUS
  <2>3. s \in 1 .. k /\ t \in 1 .. k /\ z \in 0 .. k
    OBVIOUS
  <2>4. s <= z - 1 /\ z - 1 \in 0 .. k /\ z - 1 # k
    BY <2>1, <2>2, <2>3
  <2> QED BY <2>4
<1>2. k \in Above
  <2>1. PICK t \in T : TRUE
    OBVIOUS
  <2>2. t \in 1 .. k
    OBVIOUS
  <2> QED BY <2>2
<1>3. \A z \in Above : z \in Int
  OBVIOUS
<1>4. IsFiniteSet(Above)
  <2>1. IsFiniteSet(0 .. k) /\ Above \in SUBSET (0 .. k)
    BY FS_Interval
  <2> QED BY <2>1, FS_Subset
<1> HIDE DEF Above
<1>5. /\ IsFiniteSet(Above \ {k}) /\ Cardinality(Above \ {k}) = Cardinality(Above) - 1
      /\ Cardinality(Above) \in Nat
  BY <1>2, <1>4, FS_RemoveElement, FS_CardinalityType
<1>6. Less \in [Above -> Above \ {k}]
  BY <1>1
<1>7. Cardinality(Above \ {k}) < Cardinality(Above)
  BY <1>5
<1>8. \E x, y \in Above : x # y /\ Less[x] = Less[y]
  <2> DEFINE f == Less
             Rest == Above \ {k}
  <2>1. IsFiniteSet(Rest) /\ Cardinality(Rest) < Cardinality(Above) /\ f \in [Above -> Rest]
    BY <1>5, <1>6, <1>7
  <2> HIDE DEF f, Rest
  <2>2. \E x, y \in Above : x # y /\ f[x] = f[y]
    BY <1>4, <2>1, FS_PigeonHole, Zenon
  <2> QED BY <2>2 DEF f
<1> QED BY <1>3, <1>8

\* top() is an entry, and none has a smaller number.
LEMMA TopIsOldest ==
  ASSUME flow_priority \subseteq Seqs \X Flow, flow_priority # {}
  PROVE  Top \in flow_priority /\ \A e \in flow_priority : Top[1] <= e[1]
<1> DEFINE T == {e[1] : e \in flow_priority}
<1>1. T \subseteq 1 .. MaxSeq /\ T # {} /\ MaxSeq \in Nat
  BY PoolAssumption DEF Seqs
<1>2. \E m \in T : \A t \in T : m <= t
  BY <1>1, SmallestExists
<1>3. \E e \in flow_priority : \A other \in flow_priority : e[1] <= other[1]
  BY <1>2
<1> QED BY <1>3 DEF Top
-----------------------------------------------------------------------------
(* The inductive invariant.                                                *)

Record == [seq : Seqs, num : 1 .. MetaNum, closed : BOOLEAN, paused : BOOLEAN,
           times : Seq(Seqs)]

Item == [id : Flow, seq : Nat, times : Seq(Seqs)]

PoolTypes ==
  /\ Recorded \subseteq Flow
  /\ flow_record \in [Recorded -> Record]
  /\ flow_priority \subseteq Seqs \X Flow
  /\ metadata_from_parser \in Seq(Metadata)
  /\ input_item \in Seq(Item)
  /\ parser_seq \in 0 .. MaxSeq
  /\ reported \in [Flow -> Nat]

\* The metadata still to be taken in are newer than all that were, oldest first.
Waiting == 1 .. Len(metadata_from_parser)

MetadataInOrder ==
  /\ \A i \in Waiting : metadata_from_parser[i].seq <= parser_seq
  /\ \A i, j \in Waiting : i < j => metadata_from_parser[i].seq < metadata_from_parser[j].seq
  /\ \A f \in Recorded :
       /\ flow_record[f].seq <= parser_seq
       /\ \A i \in Waiting : flow_record[f].seq < metadata_from_parser[i].seq

\* An entry of the queue has the number its flow had when it was queued, and no
\* two have the same.
QueueExact ==
  /\ \A e \in flow_priority : Collecting(e[2]) /\ e[1] <= flow_record[e[2]].seq
  /\ \A d, e \in flow_priority : d[1] = e[1] \/ d[2] = e[2] => d = e
  /\ \A f \in Recorded : Collecting(f) => \E e \in flow_priority : e[2] = f

\* What the analyzer knows of a flow is what the pool knew when it handed it over.
ReportsExact ==
  /\ \A f \in Flow \ Recorded : reported[f] = 0
  /\ \A f \in Recorded : Collecting(f) => reported[f] < flow_record[f].seq
  /\ NothingStranded

PoolInv == PoolTypes /\ MetadataInOrder /\ QueueExact /\ ReportsExact

USE PoolAssumption DEF Waiting, Recorded
-----------------------------------------------------------------------------
LEMMA InitPoolInv == Init => PoolInv
<1> SUFFICES ASSUME Init PROVE PoolInv
  OBVIOUS
<1>1. Recorded = {} /\ flow_priority = {} /\ Len(metadata_from_parser) = 0
  BY DEF Init, InitPool
<1>2. PoolTypes
  BY <1>1 DEF Init, InitPool, PoolTypes
<1> QED BY <1>1, <1>2 DEF Init, InitPool, PoolInv, MetadataInOrder, QueueExact, ReportsExact,
                          NothingStranded

\* What the records hold, one by one.
LEMMA RecordTypes ==
  ASSUME PoolInv, NEW f \in Recorded
  PROVE  /\ f \in Flow /\ flow_record[f] \in Record
         /\ flow_record[f].seq \in Seqs /\ flow_record[f].num \in 1 .. MetaNum
         /\ flow_record[f].closed \in BOOLEAN /\ flow_record[f].paused \in BOOLEAN
         /\ flow_record[f].times \in Seq(Seqs)
<1>1. f \in Flow /\ flow_record[f] \in Record
  BY DEF PoolInv, PoolTypes
<1> QED BY <1>1 DEF Record

LEMMA ArrivePoolInv ==
  ASSUME PoolInv, NEW n \in 0 .. MaxFetch, NEW skip \in 0 .. 1, NEW ids \in [1 .. n -> Flow],
         Arrive(n, skip, ids)
  PROVE  PoolInv'
<1> DEFINE block == [i \in 1 .. n |-> [id |-> ids[i], seq |-> parser_seq + skip + i]]
<1>1. /\ n \in Nat /\ skip \in {0, 1} /\ parser_seq \in Nat /\ MaxSeq \in Nat
      /\ parser_seq + skip + n <= MaxSeq
  BY DEF PoolInv, PoolTypes, Arrive
<1>2. /\ metadata_from_parser' = block /\ parser_seq' = parser_seq + skip + n
      /\ UNCHANGED <<flow_record, flow_priority, input_item, reported>>
  BY DEF Arrive, Fetch
<1>3. \A i \in 1 .. n : /\ parser_seq + skip + i \in Seqs
                        /\ parser_seq + skip + i > parser_seq
                        /\ parser_seq + skip + i <= parser_seq + skip + n
  BY <1>1 DEF Seqs
<1>4. block \in Seq(Metadata) /\ Len(block) = n
      /\ \A i \in 1 .. n : block[i].seq = parser_seq + skip + i
  <2>1. \A i \in 1 .. n : [id |-> ids[i], seq |-> parser_seq + skip + i] \in Metadata
    BY <1>3 DEF Metadata
  <2>2. block \in [1 .. n -> Metadata]
    BY <2>1
  <2>3. \A i \in 1 .. n : block[i].seq = parser_seq + skip + i
    OBVIOUS
  <2> HIDE DEF block
  <2>4. block \in Seq(Metadata) /\ Len(block) = n
    BY <1>1, <2>2
  <2> QED BY <2>3, <2>4
<1> HIDE DEF block
<1>5. PoolTypes'
  <2>1. parser_seq' \in 0 .. MaxSeq
    BY <1>1, <1>2
  <2> QED BY <1>2, <1>4, <2>1 DEF PoolInv, PoolTypes
<1>6. MetadataInOrder'
  <2>1. \A i \in 1 .. n : block[i].seq <= parser_seq'
    BY <1>2, <1>3, <1>4
  <2>2. \A i, j \in 1 .. n : i < j => block[i].seq < block[j].seq
    BY <1>1, <1>4
  <2>3. ASSUME NEW f \in Recorded
        PROVE  /\ flow_record[f].seq <= parser_seq'
               /\ \A i \in 1 .. n : flow_record[f].seq < block[i].seq
    <3>1. flow_record[f].seq <= parser_seq /\ flow_record[f].seq \in Nat
      BY RecordTypes DEF PoolInv, MetadataInOrder, Seqs
    <3>2. flow_record[f].seq <= parser_seq + skip + n
      BY <1>1, <3>1
    <3>3. \A i \in 1 .. n : flow_record[f].seq < parser_seq + skip + i
      BY <1>1, <3>1
    <3> QED BY <1>2, <1>4, <3>2, <3>3
  <2> QED BY <1>2, <1>4, <2>1, <2>2, <2>3 DEF MetadataInOrder
<1>7. QueueExact' /\ ReportsExact'
  BY <1>2 DEF PoolInv, QueueExact, ReportsExact, NothingStranded, Collecting
<1> QED BY <1>5, <1>6, <1>7 DEF PoolInv

\* The metadata taken into the pool is the oldest of those that wait.
LEMMA NextMetadataFacts ==
  ASSUME PoolInv, metadata_from_parser # << >>,
         metadata_from_parser' = Tail(metadata_from_parser)
  PROVE  /\ NextMetadata \in Metadata /\ NextMetadata.id \in Flow /\ NextMetadata.seq \in Seqs
         /\ NextMetadata.seq <= parser_seq
         /\ \A f \in Recorded : flow_record[f].seq < NextMetadata.seq
         /\ metadata_from_parser' \in Seq(Metadata)
         /\ \A i \in 1 .. Len(metadata_from_parser') :
              /\ metadata_from_parser'[i].seq <= parser_seq
              /\ NextMetadata.seq < metadata_from_parser'[i].seq
              /\ \A f \in Recorded : flow_record[f].seq < metadata_from_parser'[i].seq
         /\ \A i, j \in 1 .. Len(metadata_from_parser') :
              i < j => metadata_from_parser'[i].seq < metadata_from_parser'[j].seq
<1> DEFINE q == metadata_from_parser
           r == Tail(q)
<1>1. q \in Seq(Metadata) /\ q # << >> /\ Len(q) \in Nat \ {0}
  BY DEF PoolInv, PoolTypes
<1>2. /\ Head(q) = q[1] /\ q[1] \in Metadata /\ r \in Seq(Metadata) /\ Len(r) = Len(q) - 1
      /\ \A i \in 1 .. Len(r) : r[i] = q[i + 1]
  BY <1>1
<1>3. 1 \in 1 .. Len(q) /\ \A i \in 1 .. Len(r) : i + 1 \in 1 .. Len(q) /\ 1 < i + 1
  BY <1>1, <1>2
<1>4. \A i, j \in 1 .. Len(r) : i < j => i + 1 < j + 1
  OBVIOUS
<1>5. q[1].id \in Flow /\ q[1].seq \in Seqs
  BY <1>2 DEF Metadata
<1>6. MetadataInOrder
  BY DEF PoolInv
<1>7. /\ q[1].seq <= parser_seq
      /\ \A f \in Recorded : flow_record[f].seq < q[1].seq
      /\ \A i \in 1 .. Len(r) : /\ r[i].seq <= parser_seq /\ q[1].seq < r[i].seq
                                /\ \A f \in Recorded : flow_record[f].seq < r[i].seq
  BY <1>2, <1>3, <1>6 DEF MetadataInOrder
<1>8. \A i, j \in 1 .. Len(r) : i < j => r[i].seq < r[j].seq
  BY <1>2, <1>3, <1>4, <1>6 DEF MetadataInOrder
<1> HIDE DEF r
<1>9. metadata_from_parser' = r
  BY DEF r
<1> QED BY <1>2, <1>5, <1>7, <1>8, <1>9 DEF NextMetadata

\* A metadata is added to its flow, which is queued if it was not.
LEMMA CollectPoolInv ==
  ASSUME PoolInv, metadata_from_parser # << >>,
         metadata_from_parser' = Tail(metadata_from_parser),
         NEW rec \in Record, rec.seq = NextMetadata.seq, ~rec.paused, ~rec.closed,
         NextMetadata.id \in Recorded => ~flow_record[NextMetadata.id].closed,
         flow_record' = [f \in Recorded \union {NextMetadata.id} |->
                           IF f = NextMetadata.id THEN rec ELSE flow_record[f]],
         flow_priority' = IF Collecting(NextMetadata.id) THEN flow_priority
                          ELSE flow_priority \union {<<NextMetadata.seq, NextMetadata.id>>},
         UNCHANGED <<input_item, parser_seq, reported>>
  PROVE  PoolInv'
<1> DEFINE id == NextMetadata.id
           s == NextMetadata.seq
           q == metadata_from_parser
<1>1. /\ id \in Flow /\ s \in Seqs /\ s \in Nat \ {0} /\ s <= parser_seq
      /\ \A f \in Recorded : flow_record[f].seq < s
      /\ q' \in Seq(Metadata)
      /\ \A i \in 1 .. Len(q') : /\ q'[i].seq <= parser_seq /\ s < q'[i].seq
                                 /\ \A f \in Recorded : flow_record[f].seq < q'[i].seq
      /\ \A i, j \in 1 .. Len(q') : i < j => q'[i].seq < q'[j].seq
  BY NextMetadataFacts DEF Seqs
<1>2. rec.seq = s
  OBVIOUS
<1>3. /\ Recorded' = Recorded \union {id} /\ flow_record'[id] = rec
      /\ \A f \in Recorded : f # id => flow_record'[f] = flow_record[f]
      /\ flow_priority' = IF Collecting(id) THEN flow_priority
                          ELSE flow_priority \union {<<s, id>>}
      /\ id \in Recorded => ~flow_record[id].closed
  OBVIOUS
<1>4. Recorded \subseteq Flow /\ flow_priority \subseteq Seqs \X Flow
  BY DEF PoolInv, PoolTypes
<1>5. PoolTypes'
  <2>1. flow_record' \in [Recorded' -> Record]
    <3>1. \A f \in Recorded : flow_record[f] \in Record
      BY RecordTypes
    <3> QED BY <3>1
  <2>2. flow_priority' \subseteq Seqs \X Flow
    <3>1. <<s, id>> \in Seqs \X Flow
      BY <1>1
    <3> HIDE DEF s, id
    <3> QED BY <1>3, <1>4, <3>1
  <2> QED BY <1>1, <1>3, <1>4, <2>1, <2>2 DEF PoolInv, PoolTypes
<1> HIDE DEF id, s, q
<1>6. MetadataInOrder'
  <2>1. ASSUME NEW f \in Recorded'
        PROVE  /\ flow_record'[f].seq <= parser_seq
               /\ \A i \in 1 .. Len(q') : flow_record'[f].seq < q'[i].seq
    <3>1. CASE f = id
      BY <1>1, <1>2, <1>3, <3>1
    <3>2. CASE f # id
      <4>1. f \in Recorded /\ flow_record'[f] = flow_record[f]
        BY <1>3, <3>2
      <4> QED BY <1>1, <4>1 DEF PoolInv, MetadataInOrder
    <3> QED BY <3>1, <3>2
  <2> QED BY <1>1, <2>1 DEF MetadataInOrder, q
<1>7. id \in Recorded' /\ ~flow_record'[id].paused /\ ~flow_record'[id].closed
  BY <1>3
<1>8. \A e \in flow_priority : e[1] < s /\ e[1] \in Seqs /\ e[2] \in Recorded
  <2> TAKE e \in flow_priority
  <2>1. e[1] \in Seqs /\ e[2] \in Recorded /\ e[1] <= flow_record[e[2]].seq
    BY <1>4 DEF PoolInv, QueueExact, Collecting
  <2>2. flow_record[e[2]].seq < s /\ flow_record[e[2]].seq \in Seqs
    BY <1>1, <2>1, RecordTypes
  <2> QED BY <1>1, <2>1, <2>2 DEF Seqs
<1>9. QueueExact'
  <2>1. \A e \in flow_priority' :
          e \in flow_priority \/ (e = <<s, id>> /\ ~Collecting(id))
    BY <1>3
  <2>2. ASSUME NEW e \in flow_priority'
        PROVE  Collecting(e[2])' /\ e[1] <= flow_record'[e[2]].seq
    <3>1. CASE e = <<s, id>>
      BY <1>1, <1>2, <1>3, <1>7, <3>1 DEF Collecting
    <3>2. CASE e \in flow_priority /\ e[2] = id
      <4>1. e[1] < s /\ e[1] \in Nat
        BY <1>8, <3>2 DEF Seqs
      <4> QED BY <1>1, <1>2, <1>3, <1>7, <3>2, <4>1 DEF Collecting
    <3>3. CASE e \in flow_priority /\ e[2] # id
      <4>1. e[2] \in Recorded /\ Collecting(e[2]) /\ e[1] <= flow_record[e[2]].seq
        BY <3>3 DEF PoolInv, QueueExact, Collecting
      <4> QED BY <1>3, <3>3, <4>1 DEF Collecting
    <3> QED BY <2>1, <3>1, <3>2, <3>3
  <2>3. ASSUME NEW d \in flow_priority', NEW e \in flow_priority',
               d[1] = e[1] \/ d[2] = e[2]
        PROVE  d = e
    <3>1. ASSUME NEW a \in flow_priority, ~Collecting(id)
          PROVE  a[1] # s /\ a[2] # id
      <4>1. Collecting(a[2])
        BY DEF PoolInv, QueueExact
      <4>2. a[1] < s /\ a[1] \in Nat
        BY <1>8 DEF Seqs
      <4> QED BY <1>1, <3>1, <4>1, <4>2
    <3>2. CASE d \in flow_priority /\ e \in flow_priority
      BY <2>3, <3>2 DEF PoolInv, QueueExact
    <3>3. CASE d = <<s, id>> /\ ~Collecting(id)
      BY <2>1, <2>3, <3>1, <3>3
    <3>4. CASE e = <<s, id>> /\ ~Collecting(id)
      BY <2>1, <2>3, <3>1, <3>4
    <3> QED BY <2>1, <3>2, <3>3, <3>4
  <2>4. ASSUME NEW f \in Recorded', Collecting(f)'
        PROVE  \E e \in flow_priority' : e[2] = f
    <3>1. CASE ~Collecting(f)
      <4>1. f = id
        BY <1>3, <2>4, <3>1 DEF Collecting
      <4>2. <<s, id>> \in flow_priority'
        BY <1>3, <3>1, <4>1
      <4>3. <<s, id>>[2] = f
        BY <4>1
      <4> QED BY <4>2, <4>3
    <3>2. CASE Collecting(f)
      <4>1. f \in Recorded
        BY <3>2 DEF Collecting
      <4>2. PICK e \in flow_priority : e[2] = f
        BY <3>2, <4>1 DEF PoolInv, QueueExact
      <4> QED BY <1>3, <4>2
    <3> QED BY <3>1, <3>2
  <2> QED BY <2>2, <2>3, <2>4 DEF QueueExact
<1>10. ReportsExact'
  <2>1. \A f \in Flow \ Recorded' : reported'[f] = 0
    BY <1>3 DEF PoolInv, ReportsExact
  <2>2. reported[id] < s
    <3>1. CASE id \notin Recorded
      BY <1>1, <3>1 DEF PoolInv, ReportsExact
    <3>2. CASE id \in Recorded
      <4>1. /\ flow_record[id].seq \in Seqs /\ flow_record[id].seq < s
            /\ reported[id] \in Nat
        BY <1>1, <3>2, RecordTypes DEF PoolInv, PoolTypes
      <4>2. reported[id] < flow_record[id].seq \/ reported[id] = flow_record[id].seq
        BY <1>3, <3>2 DEF PoolInv, ReportsExact, NothingStranded, Collecting
      <4> QED BY <1>1, <4>1, <4>2 DEF Seqs
    <3> QED BY <3>1, <3>2
  <2>3. ASSUME NEW f \in Recorded', Collecting(f)'
        PROVE  reported'[f] < flow_record'[f].seq
    <3>1. CASE f = id
      BY <1>2, <1>3, <2>2, <3>1
    <3>2. CASE f # id
      BY <1>3, <2>3, <3>2 DEF PoolInv, ReportsExact, Collecting
    <3> QED BY <3>1, <3>2
  <2>4. NothingStranded'
    BY <1>3 DEF PoolInv, ReportsExact, NothingStranded
  <2> QED BY <2>1, <2>3, <2>4 DEF ReportsExact
<1> QED BY <1>5, <1>6, <1>9, <1>10 DEF PoolInv

LEMMA InPoolPoolInv ==
  ASSUME PoolInv, InPool, UNCHANGED <<parser_seq, reported>>
  PROVE  PoolInv'
<1> DEFINE m == NextMetadata
<1>1. /\ metadata_from_parser # << >> /\ metadata_from_parser' = Tail(metadata_from_parser)
      /\ UNCHANGED input_item
  BY DEF InPool, InPoolNew, InPoolPass, InPoolAppend
<1>2. m.id \in Flow /\ m.seq \in Seqs
  BY <1>1, NextMetadataFacts
<1>3. CASE InPoolNew
  <2> DEFINE rec == [seq |-> m.seq, num |-> 1, closed |-> FALSE, paused |-> FALSE,
                     times |-> <<m.seq>>]
  <2>1. rec \in Record
    <3>1. 1 \in 1 .. MetaNum /\ <<m.seq>> \in Seq(Seqs)
      BY <1>2
    <3> QED BY <1>2, <3>1 DEF Record
  <2>2. /\ rec.seq = m.seq /\ ~rec.paused /\ ~rec.closed
        /\ m.id \notin Recorded /\ ~Collecting(m.id)
        /\ flow_record' = [f \in Recorded \union {m.id} |->
                             IF f = m.id THEN rec ELSE flow_record[f]]
        /\ flow_priority' = flow_priority \union {<<m.seq, m.id>>}
    BY <1>3 DEF InPoolNew, Collecting
  <2> HIDE DEF rec
  <2> QED BY <1>1, <2>1, <2>2, CollectPoolInv
<1>4. CASE InPoolAppend
  <2> DEFINE old == flow_record[m.id]
             rec == [seq |-> m.seq, num |-> old.num + 1, closed |-> FALSE,
                     paused |-> FALSE, times |-> Append(old.times, m.seq)]
  <2>1. m.id \in Recorded /\ ~old.closed /\ old.num # MetaNum
    BY <1>4 DEF InPoolAppend
  <2>2. old.num \in 1 .. MetaNum /\ old.times \in Seq(Seqs) /\ old.paused \in BOOLEAN
    BY <2>1, RecordTypes
  <2>3. rec \in Record
    <3>1. old.num + 1 \in 1 .. MetaNum
      BY <2>1, <2>2
    <3>2. Append(old.times, m.seq) \in Seq(Seqs)
      BY <1>2, <2>2
    <3> QED BY <1>2, <3>1, <3>2 DEF Record
  <2>4. rec.seq = m.seq /\ ~rec.paused /\ ~rec.closed
    OBVIOUS
  <2>5. flow_record' = [flow_record EXCEPT ![m.id] = rec]
    BY <1>4 DEF InPoolAppend
  <2> HIDE DEF rec
  <2>6. flow_record' = [f \in Recorded \union {m.id} |->
                          IF f = m.id THEN rec ELSE flow_record[f]]
    BY <2>1, <2>5 DEF PoolInv, PoolTypes
  <2>7. flow_priority' = IF Collecting(m.id) THEN flow_priority
                         ELSE flow_priority \union {<<m.seq, m.id>>}
    BY <1>4, <2>1, <2>2 DEF InPoolAppend, Collecting, Requeued
  <2> QED BY <1>1, <2>1, <2>3, <2>4, <2>6, <2>7, CollectPoolInv
<1>5. CASE InPoolPass
  <2>1. UNCHANGED <<flow_record, flow_priority>>
    BY <1>5 DEF InPoolPass
  <2>2. PoolTypes'
    BY <1>1, <2>1, NextMetadataFacts DEF PoolInv, PoolTypes
  <2>3. MetadataInOrder'
    BY <1>1, <2>1, NextMetadataFacts DEF PoolInv, MetadataInOrder
  <2>4. QueueExact' /\ ReportsExact'
    BY <2>1 DEF PoolInv, QueueExact, ReportsExact, NothingStranded, Collecting
  <2> QED BY <2>2, <2>3, <2>4 DEF PoolInv
<1> QED BY <1>3, <1>4, <1>5 DEF InPool

\* The oldest flow is handed over: it leaves the queue, paused or closed.
LEMMA TakeOutPoolInv ==
  ASSUME PoolInv, TakeOut
  PROVE  PoolInv'
         /\ Collecting(Top[2]) /\ reported[Top[2]] < Mark
         /\ reported[Top[2]] < reported'[Top[2]]
<1> DEFINE top == Top
           f == top[2]
           r == flow_record[f]
           full == r.num = MetaNum
           item == [id |-> f, seq |-> IF full THEN Marked(r.seq) ELSE r.seq, times |-> r.times]
<1>1. /\ flow_priority # {}
      /\ flow_priority' = flow_priority \ {top}
      /\ input_item' = Append(input_item, item)
      /\ flow_record' = IF full THEN [flow_record EXCEPT ![f].closed = TRUE]
                                ELSE [flow_record EXCEPT ![f].paused = TRUE]
      /\ reported' = [reported EXCEPT ![f] = input_item'[Len(input_item) + 1].seq]
      /\ UNCHANGED <<metadata_from_parser, parser_seq>>
  BY DEF TakeOut, OutPoolFlow
<1>2. top \in flow_priority /\ \A e \in flow_priority : top[1] <= e[1]
  BY <1>1, TopIsOldest DEF PoolInv, PoolTypes
<1>3. Collecting(f) /\ f \in Recorded /\ f \in Flow
  BY <1>2, RecordTypes DEF PoolInv, QueueExact, Collecting
<1>4. /\ r \in Record /\ r.seq \in Seqs /\ r.num \in 1 .. MetaNum
      /\ r.closed = FALSE /\ r.paused = FALSE /\ r.times \in Seq(Seqs)
      /\ r.seq \in Nat \ {0} /\ r.seq <= MaxSeq
  BY <1>3, RecordTypes DEF Collecting, Seqs
<1> HIDE DEF top, f
<1>5. /\ item \in Item /\ item.seq = IF full THEN Marked(r.seq) ELSE r.seq
      /\ item.seq \in Nat
  <2>1. Marked(r.seq) \in Nat
    BY <1>4 DEF Marked
  <2> QED BY <1>3, <1>4, <2>1 DEF Item
<1>6. /\ input_item \in Seq(Item) /\ reported \in [Flow -> Nat]
      /\ flow_priority \subseteq Seqs \X Flow
      /\ flow_record \in [Recorded -> Record]
  BY DEF PoolInv, PoolTypes
<1> HIDE DEF item
<1>7. input_item' \in Seq(Item) /\ input_item'[Len(input_item) + 1] = item
  BY <1>1, <1>5, <1>6
<1>8. /\ reported' = [reported EXCEPT ![f] = item.seq]
      /\ reported'[f] = item.seq
      /\ \A g \in Flow : g # f => reported'[g] = reported[g]
  BY <1>1, <1>3, <1>6, <1>7
<1>9. reported[f] < r.seq /\ reported[f] \in Nat
  BY <1>3, <1>6 DEF PoolInv, ReportsExact
<1>10. reported[f] < Mark /\ reported[f] < reported'[f]
  BY <1>4, <1>5, <1>8, <1>9 DEF Marked
\* The record of the flow, and of every other.
<1>11. /\ Recorded' = Recorded
       /\ flow_record'[f] = IF full THEN [r EXCEPT !.closed = TRUE] ELSE [r EXCEPT !.paused = TRUE]
       /\ \A g \in Recorded : g # f => flow_record'[g] = flow_record[g]
  BY <1>1, <1>3, <1>6
<1>12. /\ flow_record'[f] \in Record /\ flow_record'[f].seq = r.seq
       /\ flow_record'[f].closed = full /\ flow_record'[f].paused = ~full
  <2>1. CASE full
    <3>1. flow_record'[f] = [r EXCEPT !.closed = TRUE]
      BY <1>11, <2>1
    <3> HIDE DEF r
    <3>2. /\ flow_record'[f] \in Record /\ flow_record'[f].seq = r.seq
          /\ flow_record'[f].closed = TRUE /\ flow_record'[f].paused = r.paused
      BY <1>4, <3>1, Zenon DEF Record
    <3> QED BY <1>4, <2>1, <3>2
  <2>2. CASE ~full
    <3>1. flow_record'[f] = [r EXCEPT !.paused = TRUE]
      BY <1>11, <2>2
    <3> HIDE DEF r
    <3>2. /\ flow_record'[f] \in Record /\ flow_record'[f].seq = r.seq
          /\ flow_record'[f].paused = TRUE /\ flow_record'[f].closed = r.closed
      BY <1>4, <3>1, Zenon DEF Record
    <3> QED BY <1>4, <2>2, <3>2
  <2> QED BY <2>1, <2>2
<1> HIDE DEF full
<1>13. PoolTypes'
  <2>1. flow_record' \in [Recorded' -> Record]
    <3>1. DOMAIN flow_record' = Recorded
      BY <1>11
    <3>2. \A g \in Recorded : flow_record'[g] \in Record
      BY <1>6, <1>11, <1>12
    <3>3. flow_record' = [g \in Recorded |-> flow_record'[g]]
      BY <1>1, <1>6
    <3> QED BY <3>1, <3>2, <3>3
  <2>2. reported' \in [Flow -> Nat]
    BY <1>5, <1>6, <1>8
  <2> QED BY <1>1, <1>7, <1>11, <2>1, <2>2 DEF PoolInv, PoolTypes
<1>14. \A g \in Recorded : flow_record'[g].seq = flow_record[g].seq
  BY <1>11, <1>12
<1>15. MetadataInOrder'
  BY <1>1, <1>11, <1>14 DEF PoolInv, MetadataInOrder
<1>16. \A e \in flow_priority' : e \in flow_priority /\ e # top /\ e[2] # f /\ e[1] # top[1]
  BY <1>1, <1>2 DEF PoolInv, QueueExact, f
<1>17. QueueExact'
  <2>1. ASSUME NEW e \in flow_priority'
        PROVE  Collecting(e[2])' /\ e[1] <= flow_record'[e[2]].seq
    <3>1. e[2] \in Recorded /\ e[2] # f /\ Collecting(e[2]) /\ e[1] <= flow_record[e[2]].seq
      BY <1>16 DEF PoolInv, QueueExact, Collecting
    <3> QED BY <1>11, <3>1 DEF Collecting
  <2>2. ASSUME NEW d \in flow_priority', NEW e \in flow_priority', d[1] = e[1] \/ d[2] = e[2]
        PROVE  d = e
    BY <1>16, <2>2 DEF PoolInv, QueueExact
  <2>3. ASSUME NEW g \in Recorded', Collecting(g)'
        PROVE  \E e \in flow_priority' : e[2] = g
    <3>1. g # f
      BY <1>12, <2>3 DEF Collecting
    <3>2. g \in Recorded /\ Collecting(g)
      BY <1>11, <2>3, <3>1 DEF Collecting
    <3>3. PICK e \in flow_priority : e[2] = g
      BY <3>2 DEF PoolInv, QueueExact
    <3>4. e # top
      BY <3>1, <3>3 DEF f
    <3> QED BY <1>1, <3>3, <3>4
  <2> QED BY <2>1, <2>2, <2>3 DEF QueueExact
<1>18. ReportsExact'
  <2>1. \A g \in Flow \ Recorded' : reported'[g] = 0
    BY <1>3, <1>8, <1>11 DEF PoolInv, ReportsExact
  <2>2. ASSUME NEW g \in Recorded', Collecting(g)'
        PROVE  reported'[g] < flow_record'[g].seq
    <3>1. g # f
      BY <1>12, <2>2 DEF Collecting
    <3>2. g \in Recorded /\ g \in Flow /\ Collecting(g) /\ flow_record'[g] = flow_record[g]
      BY <1>11, <2>2, <3>1, RecordTypes DEF Collecting
    <3> QED BY <1>8, <3>1, <3>2 DEF PoolInv, ReportsExact
  <2>3. ASSUME NEW g \in Recorded'
        PROVE  /\ flow_record'[g].paused => reported'[g] = flow_record'[g].seq
               /\ flow_record'[g].closed => reported'[g] = Marked(flow_record'[g].seq)
    <3>1. CASE g = f
      BY <1>5, <1>8, <1>12, <3>1
    <3>2. CASE g # f
      <4>1. g \in Recorded /\ g \in Flow /\ flow_record'[g] = flow_record[g]
        BY <1>11, <3>2, RecordTypes
      <4> QED BY <1>8, <3>2, <4>1 DEF PoolInv, ReportsExact, NothingStranded
    <3> QED BY <3>1, <3>2
  <2>4. NothingStranded'
    BY <2>3 DEF NothingStranded, Marked
  <2> QED BY <2>1, <2>2, <2>4 DEF ReportsExact
<1>19. PoolInv'
  BY <1>13, <1>15, <1>17, <1>18 DEF PoolInv
<1> QED BY <1>3, <1>10, <1>19 DEF top, f

LEMMA NextPoolInv == PoolInv /\ [Next]_vars => PoolInv'
<1> SUFFICES ASSUME PoolInv, [Next]_vars PROVE PoolInv'
  OBVIOUS
<1>1. ASSUME NEW n \in 0 .. MaxFetch, NEW skip \in 0 .. 1, NEW ids \in [1 .. n -> Flow],
             Arrive(n, skip, ids)
      PROVE  PoolInv'
  BY <1>1, ArrivePoolInv
<1>2. CASE TakeIn
  BY <1>2, InPoolPoolInv DEF TakeIn
<1>3. ASSUME NEW call \in BOOLEAN, Check(call) PROVE PoolInv'
  <2>1. UNCHANGED <<flow_record, flow_priority, metadata_from_parser, input_item,
                    parser_seq, reported>>
    BY <1>3 DEF Check, OutPoolBegin
  <2> QED BY <2>1 DEF PoolInv, PoolTypes, MetadataInOrder, QueueExact, ReportsExact,
                      NothingStranded, Collecting
<1>4. CASE TakeOut
  BY <1>4, TakeOutPoolInv
<1>5. CASE Finish
  <2>1. /\ input_item' = << >>
        /\ UNCHANGED <<flow_record, flow_priority, metadata_from_parser, parser_seq, reported>>
    BY <1>5 DEF Finish, OutPoolEnd
  <2>2. << >> \in Seq(Item)
    OBVIOUS
  <2> QED BY <2>1, <2>2 DEF PoolInv, PoolTypes, MetadataInOrder, QueueExact, ReportsExact,
                            NothingStranded, Collecting
<1>6. CASE UNCHANGED vars
  BY <1>6 DEF vars, poolVars, PoolInv, PoolTypes, MetadataInOrder, QueueExact, ReportsExact,
              NothingStranded, Collecting
<1> QED BY <1>1, <1>2, <1>3, <1>4, <1>5, <1>6 DEF Next

\* The inductive invariant.
THEOREM PoolInvariant == Spec => []PoolInv
BY InitPoolInv, NextPoolInv, PTL DEF Spec
-----------------------------------------------------------------------------
(* What follows.                                                           *)

\* record and priority queue agree: top() (poolWorker.cpp:60) always has a record
\* that is still collecting, and every such flow has its one entry.
THEOREM QueueAgrees == Spec => []PriorityExact
<1>1. PoolInv => PriorityExact
  BY DEF PoolInv, QueueExact, PriorityExact
<1> QED BY <1>1, PoolInvariant, PTL

\* No flow waits in the pool without an entry for metadata the analyzer has not
\* seen: in_pool queues a paused flow again (poolWorker.cpp:163).
THEOREM PoolForgetsNothing == Spec => []NothingStranded
<1>1. PoolInv => NothingStranded
  BY DEF PoolInv, ReportsExact
<1> QED BY <1>1, PoolInvariant, PTL

\* The buffer can rely on analyzed_parser_seq only rising (bufferWorker.cpp:158):
\* a flow is handed over with more each time and never after it was complete.
THEOREM HandsOverMore == Spec => ReportsAdvance
<1>1. PoolInv /\ [Next]_vars =>
        [TakeOut => LET f == Top[2] IN reported[f] < Mark /\ reported[f] < reported'[f]]_vars
  BY TakeOutPoolInv
<1> QED BY <1>1, PoolInvariant, PTL DEF Spec, ReportsAdvance

-----------------------------------------------------------------------------
(* Who has waited longest.                                                 *)

Times(f) == {flow_record[f].times[i] : i \in DOMAIN flow_record[f].times}

\* No metadata is newer than its record, and the entry of a flow is the oldest of
\* its metadata that were not handed over.
WaitInv ==
  /\ \A f \in Recorded : \A t \in Times(f) : t <= flow_record[f].seq
  /\ \A e \in flow_priority : e[1] \in Unseen(e[2]) /\ \A t \in Unseen(e[2]) : e[1] <= t

LEMMA TimesOf ==
  ASSUME PoolInv, NEW f \in Recorded
  PROVE  /\ Times(f) \subseteq Nat /\ Unseen(f) = {t \in Times(f) : t > reported[f]}
         /\ reported[f] \in Nat /\ flow_record[f].seq \in Nat
<1>1. flow_record[f].times \in Seq(Seqs) /\ flow_record[f].seq \in Seqs /\ f \in Flow
  BY RecordTypes
<1>2. Times(f) \subseteq Seqs
  BY <1>1 DEF Times
<1> QED BY <1>1, <1>2 DEF Times, Unseen, Seqs, PoolInv, PoolTypes

LEMMA TimesOfAppend ==
  ASSUME NEW s \in Seq(Seqs), NEW t \in Seqs
  PROVE  {Append(s, t)[i] : i \in DOMAIN Append(s, t)} = {s[i] : i \in DOMAIN s} \union {t}
<1> DEFINE r == Append(s, t)
<1>1. /\ Len(s) \in Nat /\ DOMAIN s = 1 .. Len(s) /\ DOMAIN r = 1 .. Len(s) + 1
      /\ r[Len(s) + 1] = t /\ \A i \in 1 .. Len(s) : r[i] = s[i]
  OBVIOUS
<1> HIDE DEF r
<1>2. \A i \in DOMAIN r : i \in DOMAIN s \/ i = Len(s) + 1
  BY <1>1
<1>3. \A i \in DOMAIN s : i \in DOMAIN r /\ r[i] = s[i]
  BY <1>1
<1>4. Len(s) + 1 \in DOMAIN r
  BY <1>1
<1>5. {r[i] : i \in DOMAIN r} = {s[i] : i \in DOMAIN s} \union {t}
  BY <1>1, <1>2, <1>3, <1>4
<1> QED BY <1>5 DEF r

\* Nothing of a flow that is paused or closed waits.
LEMMA NothingUnseen ==
  ASSUME PoolInv, WaitInv, NEW f \in Recorded, ~Collecting(f)
  PROVE  Unseen(f) = {}
<1>1. reported[f] = flow_record[f].seq \/ reported[f] = Marked(flow_record[f].seq)
  BY DEF PoolInv, ReportsExact, NothingStranded, Collecting
<1>2. reported[f] >= flow_record[f].seq
  BY <1>1, TimesOf DEF Marked
<1>3. \A t \in Times(f) : ~(t > reported[f])
  BY <1>2, TimesOf DEF WaitInv
<1> QED BY <1>3, TimesOf

\* A metadata more, newer than all before.
LEMMA CollectWaitInv ==
  ASSUME PoolInv, WaitInv, PoolInv', NEW id \in Flow, NEW s \in Seqs,
         Recorded' = Recorded \union {id},
         \A f \in Recorded : f # id => flow_record'[f] = flow_record[f],
         \A f \in Recorded : flow_record[f].seq < s,
         flow_record'[id].seq = s,
         Times(id)' = IF id \in Recorded THEN Times(id) \union {s} ELSE {s},
         flow_priority' = IF Collecting(id) THEN flow_priority
                          ELSE flow_priority \union {<<s, id>>},
         reported' = reported
  PROVE  WaitInv'
<1>1. \A f \in Recorded : f # id => Times(f)' = Times(f) /\ Unseen(f)' = Unseen(f)
  BY DEF Times, Unseen
<1>2. reported[id] < s /\ s \in Nat
  <2>1. s \in Nat
    BY DEF Seqs
  <2>2. CASE id \notin Recorded
    BY <2>1, <2>2 DEF PoolInv, ReportsExact, Seqs
  <2>3. CASE id \in Recorded
    <3>1. reported[id] <= flow_record[id].seq \/ flow_record[id].closed
      BY <2>3, TimesOf DEF PoolInv, ReportsExact, NothingStranded, Collecting
    <3>2. flow_record[id].seq < s
      BY <2>3
    <3>3. CASE flow_record[id].closed
      <4>1. id \in Recorded'
        OBVIOUS
      <4>2. <<s, id>> \in flow_priority'
        BY <2>3, <3>3 DEF Collecting
      <4>3. Collecting(id)'
        BY <4>2 DEF PoolInv, QueueExact
      <4>4. reported'[id] < flow_record'[id].seq
        BY <4>1, <4>3 DEF PoolInv, ReportsExact
      <4> QED BY <2>1, <4>4
    <3> QED BY <2>1, <2>3, <3>1, <3>2, <3>3, TimesOf
  <2> QED BY <2>1, <2>2, <2>3
<1>3. \A t \in Times(id)' : t <= s /\ (t = s \/ (id \in Recorded /\ t \in Times(id)))
  <2>1. id \in Recorded => \A t \in Times(id) : t <= flow_record[id].seq /\ flow_record[id].seq < s
    BY DEF WaitInv
  <2>2. id \in Recorded => \A t \in Times(id) : t \in Nat /\ flow_record[id].seq \in Nat
    BY TimesOf
  <2> QED BY <1>2, <2>1, <2>2
<1>4. Unseen(id)' = {t \in Times(id)' : t > reported[id]}
  BY DEF Unseen, Times
<1>5. s \in Times(id)' /\ s \in Unseen(id)'
  <2>1. s \in Times(id)'
    OBVIOUS
  <2> QED BY <1>2, <1>4, <2>1, TimesOf DEF PoolInv, PoolTypes
<1>6. ASSUME NEW f \in Recorded' PROVE \A t \in Times(f)' : t <= flow_record'[f].seq
  <2>1. CASE f = id
    BY <1>3, <2>1
  <2>2. CASE f # id
    BY <1>1, <2>2 DEF WaitInv
  <2> QED BY <2>1, <2>2
<1>7. ASSUME NEW e \in flow_priority'
      PROVE  e[1] \in Unseen(e[2])' /\ \A t \in Unseen(e[2])' : e[1] <= t
  <2>1. CASE e = <<s, id>> /\ ~Collecting(id)
    <3>1. ASSUME NEW t \in Unseen(id)' PROVE s <= t
      <4>1. t \in Times(id)' /\ t > reported[id]
        BY <1>4
      <4>2. CASE t = s
        BY <1>2, <4>2
      <4>3. CASE id \in Recorded /\ t \in Times(id)
        <5>1. t \in Unseen(id)
          BY <4>1, <4>3, TimesOf
        <5> QED BY <2>1, <4>3, <5>1, NothingUnseen
      <4> QED BY <1>3, <4>1, <4>2, <4>3
    <3> QED BY <1>5, <2>1, <3>1
  <2>2. CASE e \in flow_priority /\ e[2] # id
    <3>1. e[2] \in Recorded
      BY <2>2 DEF PoolInv, QueueExact, Collecting
    <3> QED BY <1>1, <2>2, <3>1 DEF WaitInv
  <2>3. CASE e \in flow_priority /\ e[2] = id
    <3>1. id \in Recorded /\ e[1] \in Unseen(id) /\ \A t \in Unseen(id) : e[1] <= t
      BY <2>3 DEF PoolInv, QueueExact, Collecting, WaitInv
    <3>2. e[1] \in Times(id) /\ e[1] \in Nat
      BY <3>1, TimesOf
    <3>3. e[1] \in Times(id)' /\ e[1] > reported[id]
      BY <3>1, <3>2, TimesOf
    <3>4. e[1] <= s
      BY <1>3, <3>3
    <3>5. ASSUME NEW t \in Unseen(id)' PROVE e[1] <= t
      <4>1. t \in Times(id)' /\ t > reported[id]
        BY <1>4
      <4>2. t = s \/ t \in Unseen(id)
        BY <1>3, <4>1, TimesOf
      <4> QED BY <3>1, <3>4, <4>2
    <3> QED BY <1>4, <2>3, <3>3, <3>5
  <2>4. e \in flow_priority \/ (e = <<s, id>> /\ ~Collecting(id))
    OBVIOUS
  <2> QED BY <2>1, <2>2, <2>3, <2>4
<1> QED BY <1>6, <1>7 DEF WaitInv

\* The flow that leaves has no entry any more, and nothing that waits.
LEMMA TakeOutWaitInv ==
  ASSUME PoolInv, WaitInv, TakeOut
  PROVE  WaitInv'
<1> DEFINE f == Top[2]
<1>1. /\ f \in Recorded /\ flow_priority' \subseteq flow_priority
      /\ flow_priority' = flow_priority \ {Top}
  BY TakeOutPoolInv DEF Collecting, TakeOut, OutPoolFlow
<1>2. Top \in flow_priority
  BY TopIsOldest DEF TakeOut, OutPoolFlow, PoolInv, PoolTypes
<1>3. /\ Recorded' = Recorded
      /\ \A g \in Recorded : /\ flow_record'[g].times = flow_record[g].times
                             /\ flow_record'[g].seq = flow_record[g].seq
  <2>1. /\ flow_record \in [Recorded -> Record] /\ flow_record[f] \in Record
        /\ flow_record' \in {[flow_record EXCEPT ![f].closed = TRUE],
                             [flow_record EXCEPT ![f].paused = TRUE]}
    BY <1>1 DEF PoolInv, PoolTypes, TakeOut, OutPoolFlow
  <2> HIDE DEF f
  <2>2. /\ Recorded' = Recorded
        /\ flow_record'[f] \in {[flow_record[f] EXCEPT !.closed = TRUE],
                                [flow_record[f] EXCEPT !.paused = TRUE]}
        /\ \A g \in Recorded : g # f => flow_record'[g] = flow_record[g]
    BY <1>1, <2>1
  <2>3. flow_record'[f].times = flow_record[f].times /\ flow_record'[f].seq = flow_record[f].seq
    BY <2>1, <2>2 DEF Record
  <2> QED BY <2>2, <2>3
<1>4. \A g \in Recorded : Times(g)' = Times(g)
  BY <1>3 DEF Times
<1>5. \A e \in flow_priority' : e[2] \in Recorded /\ e[2] # f
  BY <1>1, <1>2 DEF PoolInv, QueueExact, Collecting
<1>6. \A g \in Recorded : g # f => reported'[g] = reported[g]
  BY <1>1, TimesOf DEF TakeOut, PoolInv, PoolTypes
<1> HIDE DEF f
<1>7. \A g \in Recorded : g # f => Unseen(g)' = Unseen(g)
  BY <1>3, <1>6 DEF Unseen
<1> QED BY <1>1, <1>3, <1>4, <1>5, <1>7 DEF WaitInv

LEMMA NextWaitInv == PoolInv /\ WaitInv /\ [Next]_vars => WaitInv'
<1> SUFFICES ASSUME PoolInv, WaitInv, [Next]_vars PROVE WaitInv'
  OBVIOUS
<1>0. PoolInv'
  BY NextPoolInv
<1>1. ASSUME UNCHANGED <<flow_record, flow_priority, reported>> PROVE WaitInv'
  BY <1>1 DEF WaitInv, Times, Unseen
<1>2. CASE TakeIn /\ InPoolNew
  <2>0. PICK id \in Flow, s \in Seqs : id = NextMetadata.id /\ s = NextMetadata.seq
    BY <1>2, NextMetadataFacts DEF InPoolNew
  <2>1. /\ id \notin Recorded /\ Recorded' = Recorded \union {id}
        /\ \A f \in Recorded : f # id => flow_record'[f] = flow_record[f]
        /\ flow_record'[id].seq = s /\ flow_record'[id].times = <<s>>
        /\ flow_priority' = flow_priority \union {<<s, id>>} /\ reported' = reported
    BY <1>2, <2>0 DEF InPoolNew, TakeIn
  <2>2. \A f \in Recorded : flow_record[f].seq < s
    BY <1>2, <2>0, NextMetadataFacts DEF InPoolNew
  <2>3. Times(id)' = {s}
    <3>1. DOMAIN <<s>> = {1} /\ <<s>>[1] = s
      OBVIOUS
    <3> QED BY <2>1, <3>1 DEF Times
  <2>4. ~Collecting(id)
    BY <2>1 DEF Collecting
  <2> QED BY <1>0, <2>1, <2>2, <2>3, <2>4, CollectWaitInv
<1>3. CASE TakeIn /\ InPoolAppend
  <2>0. PICK id \in Flow, s \in Seqs : id = NextMetadata.id /\ s = NextMetadata.seq
    BY <1>3, NextMetadataFacts DEF InPoolAppend
  <2> DEFINE rec == [seq |-> s, num |-> flow_record[id].num + 1, closed |-> FALSE,
                     paused |-> FALSE, times |-> Append(flow_record[id].times, s)]
  <2>1. /\ id \in Recorded /\ ~flow_record[id].closed
        /\ flow_record' = [flow_record EXCEPT ![id] = rec]
        /\ flow_priority' = Requeued(id, s) /\ reported' = reported
    BY <1>3, <2>0 DEF InPoolAppend, TakeIn
  <2>2. \A f \in Recorded : flow_record[f].seq < s
    BY <1>3, <2>0, NextMetadataFacts DEF InPoolAppend
  <2>3. rec.seq = s /\ rec.times = Append(flow_record[id].times, s)
    OBVIOUS
  <2> HIDE DEF rec
  <2>4. /\ Recorded' = Recorded \union {id} /\ flow_record'[id] = rec
        /\ \A f \in Recorded : f # id => flow_record'[f] = flow_record[f]
    <3>1. flow_record \in [Recorded -> Record]
      BY DEF PoolInv, PoolTypes
    <3>2. Recorded = DOMAIN flow_record /\ Recorded' = DOMAIN flow_record'
      BY DEF Recorded
    <3>3. DOMAIN flow_record' = DOMAIN flow_record
      BY <2>1
    <3>4. flow_record'[id] = rec
      BY <2>1, <3>1
    <3>5. \A f \in Recorded : f # id => flow_record'[f] = flow_record[f]
      BY <2>1, <3>1
    <3> QED BY <2>1, <3>2, <3>3, <3>4, <3>5
  <2>5. Times(id)' = Times(id) \union {s}
    <3>1. Times(id)' = {flow_record'[id].times[i] : i \in DOMAIN flow_record'[id].times}
      BY DEF Times
    <3>2. flow_record'[id].times = Append(flow_record[id].times, s)
      BY <2>3, <2>4
    <3>3. flow_record[id].times \in Seq(Seqs)
      BY <2>1, RecordTypes
    <3> DEFINE After(r) == {r[i] : i \in DOMAIN r}
    <3>4. After(Append(flow_record[id].times, s)) = After(flow_record[id].times) \union {s}
      BY <3>3, TimesOfAppend
    <3>5. Times(id)' = After(Append(flow_record[id].times, s))
      BY <3>1, <3>2
    <3> QED BY <3>4, <3>5 DEF Times
  <2>6. flow_priority' = IF Collecting(id) THEN flow_priority
                         ELSE flow_priority \union {<<s, id>>}
    BY <2>1, RecordTypes DEF Requeued, Collecting
  <2> QED BY <1>0, <2>1, <2>2, <2>3, <2>4, <2>5, <2>6, CollectWaitInv
<1>4. CASE TakeIn /\ InPoolPass
  BY <1>1, <1>4 DEF InPoolPass, TakeIn
<1>5. CASE TakeOut
  BY <1>5, TakeOutWaitInv
<1>6. ASSUME NEW n \in 0 .. MaxFetch, NEW skip \in 0 .. 1, NEW ids \in [1 .. n -> Flow],
             Arrive(n, skip, ids)
      PROVE  WaitInv'
  BY <1>1, <1>6 DEF Arrive, Fetch
<1>7. ASSUME NEW call \in BOOLEAN, Check(call) PROVE WaitInv'
  BY <1>1, <1>7 DEF Check, OutPoolBegin
<1>8. CASE Finish
  BY <1>1, <1>8 DEF Finish, OutPoolEnd
<1>9. CASE UNCHANGED vars
  BY <1>1, <1>9 DEF vars, poolVars
<1> QED BY <1>2, <1>3, <1>4, <1>5, <1>6, <1>7, <1>8, <1>9 DEF Next, TakeIn, InPool

\* The number a paused flow is queued with again (poolWorker.cpp:165) and the
\* comparison of the queue (poolWorker.hpp:122) let no flow wait behind metadata
\* that came after its own, over any number of hand-overs.
THEOREM HandsOverLongestWaiting == Spec => LongestWaitingFirst
<1> DEFINE Step == TakeOut => \A g \in Recorded : \A t \in Unseen(g) :
                                \E s \in Unseen(Top[2]) : s <= t
<1>1. Init => WaitInv
  BY DEF Init, InitPool, WaitInv
<1>2. ASSUME PoolInv, WaitInv, TakeOut, NEW g \in Recorded, NEW t \in Unseen(g)
      PROVE  \E s \in Unseen(Top[2]) : s <= t
  <2>1. Top \in flow_priority /\ \A e \in flow_priority : Top[1] <= e[1]
    BY <1>2, TopIsOldest DEF TakeOut, OutPoolFlow, PoolInv, PoolTypes
  <2>2. Top[1] \in Unseen(Top[2])
    BY <1>2, <2>1 DEF WaitInv
  <2>3. Collecting(g)
    BY <1>2, NothingUnseen
  <2>4. PICK e \in flow_priority : e[2] = g
    BY <1>2, <2>3 DEF PoolInv, QueueExact
  <2>5. e[1] <= t /\ Top[1] <= e[1]
    BY <1>2, <2>1, <2>4 DEF WaitInv
  <2>6. e[1] \in Nat /\ Top[1] \in Nat /\ t \in Nat
    BY <1>2, <2>1, <2>4, TimesOf DEF PoolInv, PoolTypes, Seqs
  <2>7. Top[1] <= t
    BY <2>5, <2>6
  <2> QED BY <2>2, <2>7
<1>3. PoolInv /\ WaitInv /\ [Next]_vars => [Step]_vars
  BY <1>2
<1> QED BY <1>1, <1>3, NextWaitInv, PoolInvariant, PTL DEF Spec, LongestWaitingFirst
-----------------------------------------------------------------------------
(* The count of the metadata that are kept.                                *)

\* A finite set of as many metadata as the pool counts.
CountInv == IsFiniteSet(Kept) /\ metadata_num_in_pool = Cardinality(Kept)

LEMMA KeptMember ==
  ASSUME NEW p
  PROVE  p \in Kept <=> \E f \in Open : \E n \in 1 .. flow_record[f].num : p = <<f, n>>
BY DEF Kept

LEMMA InitCountInv == Init => CountInv
<1> SUFFICES ASSUME Init PROVE CountInv
  OBVIOUS
<1>1. Kept = {}
  BY DEF Init, InitPool, Kept, Open
<1> QED BY <1>1, FS_EmptySet DEF Init, InitPool, CountInv

\* A metadata more, in a flow that is open from now on.
LEMMA CollectCountInv ==
  ASSUME PoolInv, CountInv, NEW id, NEW n \in Nat \ {0},
         IF id \in Recorded THEN ~flow_record[id].closed /\ n = flow_record[id].num + 1
                            ELSE n = 1,
         Recorded' = Recorded \union {id},
         \A f \in Recorded : f # id => flow_record'[f] = flow_record[f],
         flow_record'[id].num = n, ~flow_record'[id].closed,
         metadata_num_in_pool' = metadata_num_in_pool + 1
  PROVE  CountInv'
<1>1. Open' = Open \union {id}
  BY DEF Open
<1>2. \A f \in Open : f # id => flow_record'[f].num = flow_record[f].num
  BY DEF Open
<1>3. id \in Open <=> id \in Recorded
  BY DEF Open
<1>4. <<id, n>> \notin Kept
  <2> SUFFICES ASSUME <<id, n>> \in Kept PROVE FALSE
    OBVIOUS
  <2>1. id \in Open /\ n \in 1 .. flow_record[id].num
    BY KeptMember
  <2>2. flow_record[id].num \in 1 .. MetaNum
    BY <1>3, <2>1, RecordTypes
  <2> QED BY <1>3, <2>1, <2>2
<1>5. Kept' = Kept \union {<<id, n>>}
  <2>1. ASSUME NEW p \in Kept' PROVE p \in Kept \union {<<id, n>>}
    <3>0. PICK f \in Open' : \E k \in 1 .. flow_record'[f].num : p = <<f, k>>
      BY DEF Kept
    <3>1. PICK k \in 1 .. flow_record'[f].num : p = <<f, k>>
      BY <3>0
    <3>2. CASE f # id
      BY <1>1, <1>2, <3>1, <3>2, KeptMember
    <3>3. CASE f = id /\ k # n
      <4>1. id \in Recorded /\ k \in 1 .. flow_record[id].num
        <5>1. k \in 1 .. n
          BY <3>1, <3>3
        <5>2. id \in Recorded
          BY <3>3, <5>1
        <5>3. flow_record[id].num \in 1 .. MetaNum
          BY <5>2, RecordTypes
        <5> QED BY <3>3, <5>1, <5>2, <5>3
      <4> QED BY <1>3, <3>1, <3>3, <4>1, KeptMember
    <3> QED BY <3>1, <3>2, <3>3
  <2>2. ASSUME NEW p \in Kept PROVE p \in Kept'
    <3>0. PICK f \in Open : \E k \in 1 .. flow_record[f].num : p = <<f, k>>
      BY DEF Kept
    <3>1. PICK k \in 1 .. flow_record[f].num : p = <<f, k>>
      BY <3>0
    <3>2. k \in 1 .. flow_record'[f].num
      <4>1. CASE f # id
        BY <1>2, <3>1, <4>1
      <4>2. CASE f = id
        <5>1. flow_record[id].num \in 1 .. MetaNum
          BY <1>3, <4>2, RecordTypes
        <5> QED BY <1>3, <3>1, <4>2, <5>1
      <4> QED BY <4>1, <4>2
    <3> QED BY <1>1, <3>1, <3>2 DEF Kept
  <2>3. <<id, n>> \in Kept'
    <3>1. id \in Open' /\ n \in 1 .. flow_record'[id].num
      BY <1>1
    <3> QED BY <3>1 DEF Kept
  <2> QED BY <2>1, <2>2, <2>3
<1> QED BY <1>4, <1>5, FS_AddElement DEF CountInv

\* A flow leaves the pool complete: its metadata are no longer counted.
LEMMA TakeOutCountInv ==
  ASSUME PoolInv, CountInv, TakeOut
  PROVE  CountInv'
<1> DEFINE f == Top[2]
           num == flow_record[f].num
           gone == {f} \X (1 .. num)
<1>1. Collecting(f) /\ f \in Recorded
  BY TakeOutPoolInv DEF Collecting
<1>2. f \in Open /\ num \in 1 .. MetaNum /\ num \in Nat
  BY <1>1, RecordTypes DEF Collecting, Open
<1>3. flow_record \in [Recorded -> Record]
  BY DEF PoolInv, PoolTypes
<1> HIDE DEF f
<1>4. CASE num = MetaNum
  <2>1. /\ flow_record' = [flow_record EXCEPT ![f].closed = TRUE]
        /\ metadata_num_in_pool' = metadata_num_in_pool - num
    BY <1>4 DEF TakeOut, OutPoolFlow, f
  <2>2. /\ Recorded' = Recorded /\ flow_record'[f].closed = TRUE
        /\ \A g \in Recorded : g # f => flow_record'[g] = flow_record[g]
    <3>1. flow_record'[f] = [flow_record[f] EXCEPT !.closed = TRUE]
      BY <1>1, <2>1
    <3>2. flow_record[f] \in Record
      BY <1>1, <1>3
    <3>3. flow_record'[f].closed = TRUE
      BY <3>1, <3>2 DEF Record
    <3> QED BY <1>1, <1>3, <2>1, <3>3
  <2>3. Open' = Open \ {f}
    BY <2>2 DEF Open
  <2>4. \A g \in Open' : flow_record'[g].num = flow_record[g].num
    BY <2>2, <2>3 DEF Open
  <2>5. gone \subseteq Kept
    BY <1>2 DEF Kept
  <2>6. Kept' = Kept \ gone
    <3>1. ASSUME NEW p \in Kept' PROVE p \in Kept \ gone
      <4>0. PICK g \in Open' : \E k \in 1 .. flow_record'[g].num : p = <<g, k>>
        BY DEF Kept
      <4>1. PICK k \in 1 .. flow_record'[g].num : p = <<g, k>>
        BY <4>0
      <4>2. g \in Open /\ g # f /\ k \in 1 .. flow_record[g].num
        BY <2>3, <2>4
      <4> QED BY <4>1, <4>2, KeptMember
    <3>2. ASSUME NEW p \in Kept \ gone PROVE p \in Kept'
      <4>0. PICK g \in Open : \E k \in 1 .. flow_record[g].num : p = <<g, k>>
        BY DEF Kept
      <4>1. PICK k \in 1 .. flow_record[g].num : p = <<g, k>>
        BY <4>0
      <4>2. g # f
        BY <4>1
      <4>3. g \in Open' /\ k \in 1 .. flow_record'[g].num
        BY <2>3, <2>4, <4>2
      <4> QED BY <4>1, <4>3 DEF Kept
    <3> QED BY <3>1, <3>2
  <2>7. IsFiniteSet(gone) /\ Cardinality(gone) = num
    <3>1. IsFiniteSet({f}) /\ Cardinality({f}) = 1
      BY FS_Singleton
    <3> HIDE DEF num
    <3>2. IsFiniteSet(1 .. num) /\ Cardinality(1 .. num) = num
      <4>1. num \in Int /\ 1 \in Int /\ ~(1 > num) /\ num - 1 + 1 = num
        BY <1>2
      <4> QED BY <4>1, FS_Interval
    <3>3. /\ IsFiniteSet({f} \X (1 .. num))
          /\ Cardinality({f} \X (1 .. num)) = Cardinality({f}) * Cardinality(1 .. num)
      BY <3>1, <3>2, FS_Product, Zenon
    <3>4. 1 * num = num
      BY <1>2
    <3> QED BY <3>1, <3>2, <3>3, <3>4, Zenon
  <2>8. Kept \cap gone = gone
    BY <2>5
  <2> HIDE DEF gone
  <2>9. IsFiniteSet(Kept') /\ Cardinality(Kept') = Cardinality(Kept) - num
    <3>1. IsFiniteSet(Kept)
      BY DEF CountInv
    <3>2. /\ IsFiniteSet(Kept \ gone)
          /\ Cardinality(Kept \ gone) = Cardinality(Kept) - Cardinality(Kept \cap gone)
      BY <3>1, FS_Difference, Zenon
    <3> QED BY <2>6, <2>7, <2>8, <3>2
  <2> QED BY <2>1, <2>9 DEF CountInv
<1>5. CASE num # MetaNum
  <2>1. /\ flow_record' = [flow_record EXCEPT ![f].paused = TRUE]
        /\ metadata_num_in_pool' = metadata_num_in_pool
    BY <1>5 DEF TakeOut, OutPoolFlow, f
  <2>2. \A g \in Recorded : /\ flow_record'[g].closed = flow_record[g].closed
                           /\ flow_record'[g].num = flow_record[g].num
    <3>1. flow_record'[f] = [flow_record[f] EXCEPT !.paused = TRUE]
      BY <1>1, <2>1
    <3>2. flow_record[f] \in Record
      BY <1>1, <1>3
    <3>3. /\ flow_record'[f].closed = flow_record[f].closed
          /\ flow_record'[f].num = flow_record[f].num
      BY <3>1, <3>2 DEF Record
    <3> QED BY <1>3, <2>1, <3>3
  <2>3. Recorded' = Recorded
    BY <1>3, <2>1
  <2>4. Open' = Open
    BY <2>2, <2>3 DEF Open
  <2>5. Kept' = Kept
    <3>1. \A g \in Open : flow_record'[g].num = flow_record[g].num
      BY <2>2 DEF Open
    <3> QED BY <2>4, <3>1 DEF Kept
  <2> QED BY <2>1, <2>5 DEF CountInv
<1> QED BY <1>4, <1>5

LEMMA NextCountInv == PoolInv /\ CountInv /\ [Next]_vars => CountInv'
<1> SUFFICES ASSUME PoolInv, CountInv, [Next]_vars PROVE CountInv'
  OBVIOUS
<1>1. ASSUME UNCHANGED <<flow_record, metadata_num_in_pool>> PROVE CountInv'
  BY <1>1 DEF CountInv, Kept, Open
<1>2. CASE InPoolNew
  <2>1. NextMetadata.id \notin Recorded
    BY <1>2 DEF InPoolNew
  <2>2. /\ Recorded' = Recorded \union {NextMetadata.id}
        /\ \A f \in Recorded : f # NextMetadata.id => flow_record'[f] = flow_record[f]
        /\ flow_record'[NextMetadata.id].num = 1
        /\ ~flow_record'[NextMetadata.id].closed
        /\ metadata_num_in_pool' = metadata_num_in_pool + 1
    BY <1>2 DEF InPoolNew
  <2> QED BY <2>1, <2>2, CollectCountInv
<1>3. CASE InPoolAppend
  <2> DEFINE id == NextMetadata.id
             rec == [seq |-> NextMetadata.seq, num |-> flow_record[id].num + 1,
                     closed |-> FALSE, paused |-> FALSE,
                     times |-> Append(flow_record[id].times, NextMetadata.seq)]
  <2>1. /\ id \in Recorded /\ ~flow_record[id].closed
        /\ flow_record' = [flow_record EXCEPT ![id] = rec]
        /\ metadata_num_in_pool' = metadata_num_in_pool + 1
    BY <1>3 DEF InPoolAppend
  <2>2. flow_record[id].num + 1 \in Nat \ {0}
    BY <2>1, RecordTypes
  <2>3. rec.num = flow_record[id].num + 1 /\ rec.closed = FALSE
    OBVIOUS
  <2> HIDE DEF rec, id
  <2>4. /\ Recorded' = Recorded \union {id} /\ flow_record'[id] = rec
        /\ \A f \in Recorded : f # id => flow_record'[f] = flow_record[f]
    BY <2>1 DEF PoolInv, PoolTypes
  <2> QED BY <2>1, <2>2, <2>3, <2>4, CollectCountInv
<1>4. CASE InPoolPass
  BY <1>1, <1>4 DEF InPoolPass
<1>5. CASE TakeOut
  BY <1>5, TakeOutCountInv
<1>6. ASSUME NEW n \in 0 .. MaxFetch, NEW skip \in 0 .. 1, NEW ids \in [1 .. n -> Flow],
             Arrive(n, skip, ids)
      PROVE  CountInv'
  BY <1>1, <1>6 DEF Arrive, Fetch
<1>7. ASSUME NEW call \in BOOLEAN, Check(call) PROVE CountInv'
  BY <1>1, <1>7 DEF Check, OutPoolBegin
<1>8. CASE Finish
  BY <1>1, <1>8 DEF Finish, OutPoolEnd
<1>9. CASE UNCHANGED vars
  BY <1>1, <1>9 DEF vars, poolVars
<1> QED BY <1>2, <1>3, <1>4, <1>5, <1>6, <1>7, <1>8, <1>9 DEF Next, TakeIn, InPool

\* The unsigned counter the pool logs never falls below the metadata it keeps,
\* nor above: a flow is counted metadata by metadata (poolWorker.cpp:170, 192)
\* and leaves the count as a whole, once (poolWorker.cpp:104).
THEOREM CountsMetadata == Spec => []CountExact
<1>1. CountInv => CountExact
  BY DEF CountInv, CountExact
<1> QED BY <1>1, InitCountInv, NextCountInv, PoolInvariant, PTL DEF Spec
=============================================================================
