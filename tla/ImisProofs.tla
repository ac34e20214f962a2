----------------------------- MODULE ImisProofs -----------------------------
(***************************************************************************)
(* The pipeline as a whole: four threads, three rings of any capacity that *)
(* may be full at any time, any number of flows and packets.  It           *)
(* implements Forwarder; a packet waits only for a result that has not     *)
(* come, a flow's class never goes back, and the buffer's counter is right.*)
(***************************************************************************)
EXTENDS Imis, SequenceTheorems, FiniteSetTheorems, TLAPS

-----------------------------------------------------------------------------
(* Packets, metadata, items and results all have a flow and a number; they *)
(* overtake each other, but never within a flow.                           *)

Ordered(s) ==
  \A i, j \in 1 .. Len(s) : i < j /\ s[i].id = s[j].id => s[i].seq < s[j].seq

Before(S, T) == \A x \in S, y \in T : x.id = y.id => x.seq < y.seq

LEMMA RangeMember ==
  ASSUME NEW S, NEW s \in Seq(S)
  PROVE  /\ Range(s) \subseteq S
         /\ \A i \in 1 .. Len(s) : s[i] \in Range(s)
         /\ \A x \in Range(s) : \E i \in 1 .. Len(s) : x = s[i]
<1>1. DOMAIN s = 1 .. Len(s) /\ \A i \in 1 .. Len(s) : s[i] \in S
  OBVIOUS
<1> QED BY <1>1 DEF Range

LEMMA EmptyFacts == Range(<< >>) = {} /\ Ordered(<< >>)
BY DEF Range, Ordered

LEMMA AppendFacts ==
  ASSUME NEW S, NEW s \in Seq(S), NEW e \in S
  PROVE  /\ Append(s, e) \in Seq(S) /\ Len(Append(s, e)) = Len(s) + 1
         /\ Range(Append(s, e)) = Range(s) \union {e}
         /\ Ordered(s) /\ Before(Range(s), {e}) => Ordered(Append(s, e))
<1> DEFINE t == Append(s, e)
<1>1. /\ t \in Seq(S) /\ Len(t) = Len(s) + 1 /\ Len(s) \in Nat
      /\ t[Len(s) + 1] = e /\ \A i \in 1 .. Len(s) : t[i] = s[i]
  OBVIOUS
<1>2. DOMAIN s = 1 .. Len(s) /\ DOMAIN t = 1 .. Len(s) + 1
  BY <1>1
<1> HIDE DEF t
<1>3. \A i \in 1 .. Len(s) + 1 : i \in 1 .. Len(s) \/ i = Len(s) + 1
  BY <1>1
<1>4. Range(t) = Range(s) \union {e}
  BY <1>1, <1>2, <1>3 DEF Range
<1>5. ASSUME Ordered(s), Before(Range(s), {e}) PROVE Ordered(t)
  <2> SUFFICES ASSUME NEW i \in 1 .. Len(t), NEW j \in 1 .. Len(t), i < j, t[i].id = t[j].id
               PROVE  t[i].seq < t[j].seq
    BY DEF Ordered
  <2>1. i \in 1 .. Len(s) /\ t[i] = s[i] /\ s[i] \in Range(s)
    BY <1>1, <1>2 DEF Range
  <2>2. CASE j \in 1 .. Len(s)
    BY <1>1, <1>5, <2>1, <2>2 DEF Ordered
  <2>3. CASE j = Len(s) + 1
    BY <1>1, <1>5, <2>1, <2>3 DEF Before
  <2> QED BY <1>1, <1>3, <2>2, <2>3
<1> QED BY <1>1, <1>4, <1>5 DEF t

LEMMA TailFacts ==
  ASSUME NEW S, NEW s \in Seq(S), s # << >>
  PROVE  /\ Head(s) \in S /\ Tail(s) \in Seq(S) /\ Len(Tail(s)) = Len(s) - 1
         /\ Len(s) \in Nat \ {0}
         /\ Range(s) = {Head(s)} \union Range(Tail(s))
         /\ Ordered(s) => Ordered(Tail(s)) /\ Before({Head(s)}, Range(Tail(s)))
<1> DEFINE t == Tail(s)
<1>1. /\ t \in Seq(S) /\ Len(s) \in Nat \ {0} /\ Len(t) = Len(s) - 1
      /\ Head(s) = s[1] /\ s[1] \in S /\ \A i \in 1 .. Len(t) : t[i] = s[i + 1]
  OBVIOUS
<1>2. DOMAIN s = 1 .. Len(s) /\ DOMAIN t = 1 .. Len(t)
  BY <1>1
<1> HIDE DEF t
<1>3. 1 \in 1 .. Len(s) /\ \A i \in 1 .. Len(t) : i + 1 \in 1 .. Len(s) /\ 1 < i + 1
  BY <1>1
<1>4. \A i \in 1 .. Len(s) : i = 1 \/ (i - 1 \in 1 .. Len(t) /\ s[i] = t[i - 1])
  BY <1>1
<1>5. Range(s) = {s[1]} \union Range(t)
  <2>1. ASSUME NEW x \in Range(s) PROVE x = s[1] \/ x \in Range(t)
    <3>1. PICK i \in 1 .. Len(s) : x = s[i]
      BY RangeMember
    <3> QED BY <1>1, <1>4, <3>1, RangeMember
  <2>2. ASSUME NEW x \in Range(t) PROVE x \in Range(s)
    <3>1. PICK i \in 1 .. Len(t) : x = t[i]
      BY <1>1, RangeMember
    <3> QED BY <1>1, <1>3, <3>1, RangeMember
  <2>3. s[1] \in Range(s)
    BY <1>3, RangeMember
  <2> QED BY <2>1, <2>2, <2>3
<1>6. ASSUME Ordered(s) PROVE Ordered(t) /\ Before({s[1]}, Range(t))
  <2>1. \A i, j \in 1 .. Len(t) : i < j => i + 1 < j + 1
    OBVIOUS
  <2>2. Ordered(t)
    BY <1>1, <1>3, <1>6, <2>1 DEF Ordered
  <2>3. Before({s[1]}, Range(t))
    BY <1>1, <1>2, <1>3, <1>6 DEF Ordered, Before, Range
  <2> QED BY <2>2, <2>3
<1> QED BY <1>1, <1>5, <1>6 DEF t

LEMMA SplitFacts ==
  ASSUME NEW S, NEW s \in Seq(S), NEW n \in 0 .. Len(s)
  PROVE  /\ SubSeq(s, 1, n) \in Seq(S) /\ Rest(s, n) \in Seq(S)
         /\ Range(s) = Range(SubSeq(s, 1, n)) \union Range(Rest(s, n))
         /\ Ordered(s) => /\ Ordered(SubSeq(s, 1, n)) /\ Ordered(Rest(s, n))
                          /\ Before(Range(SubSeq(s, 1, n)), Range(Rest(s, n)))
<1> DEFINE a == SubSeq(s, 1, n)
           b == Rest(s, n)
<1>1. Len(s) \in Nat /\ n \in Nat /\ n <= Len(s) /\ \A i \in 1 .. Len(s) : s[i] \in S
  OBVIOUS
<1>2. a \in Seq(S) /\ Len(a) = n /\ \A i \in 1 .. n : a[i] = s[i]
  <2>1. \A i \in 1 .. n : s[i] \in S
    BY <1>1
  <2>2. /\ a \in Seq(S) /\ Len(a) = IF 1 <= n THEN n - 1 + 1 ELSE 0
        /\ \A i \in 1 .. n - 1 + 1 : a[i] = s[1 + i - 1]
    BY <1>1, <2>1, SubSeqProperties
  <2> HIDE DEF a
  <2> QED BY <1>1, <2>2
<1>3. b \in Seq(S) /\ Len(b) = Len(s) - n /\ \A i \in 1 .. Len(s) - n : b[i] = s[n + i]
  <2>1. \A i \in n + 1 .. Len(s) : s[i] \in S
    BY <1>1
  <2>2. n + 1 \in Int /\ Len(s) \in Int
    BY <1>1
  <2>3. /\ b \in Seq(S) /\ Len(b) = IF n + 1 <= Len(s) THEN Len(s) - (n + 1) + 1 ELSE 0
        /\ \A i \in 1 .. Len(s) - (n + 1) + 1 : b[i] = s[n + 1 + i - 1]
    BY <2>1, <2>2, SubSeqProperties DEF Rest
  <2> HIDE DEF b
  <2> QED BY <1>1, <2>3
<1> HIDE DEF a, b
<1>4. DOMAIN s = 1 .. Len(s) /\ DOMAIN a = 1 .. n /\ DOMAIN b = 1 .. Len(s) - n
  BY <1>2, <1>3
<1>5. \A i \in 1 .. n : i \in 1 .. Len(s)
  BY <1>1
<1>6. \A i \in 1 .. Len(s) - n : n + i \in 1 .. Len(s) /\ n < n + i
  BY <1>1
<1>7. \A i \in 1 .. Len(s) : i \in 1 .. n \/ (i - n \in 1 .. Len(s) - n /\ n + (i - n) = i)
  BY <1>1
<1>8. Range(s) = Range(a) \union Range(b)
  <2>1. /\ \A x \in Range(s) : \E i \in 1 .. Len(s) : x = s[i]
        /\ \A i \in 1 .. Len(s) : s[i] \in Range(s)
    BY RangeMember
  <2>2. /\ \A x \in Range(a) : \E i \in 1 .. n : x = a[i]
        /\ \A i \in 1 .. n : a[i] \in Range(a)
    BY <1>2, RangeMember
  <2>3. /\ \A x \in Range(b) : \E i \in 1 .. Len(s) - n : x = b[i]
        /\ \A i \in 1 .. Len(s) - n : b[i] \in Range(b)
    BY <1>3, RangeMember
  <2>4. Range(a) \subseteq Range(s)
    BY <1>2, <1>5, <2>1, <2>2
  <2>5. Range(b) \subseteq Range(s)
    BY <1>3, <1>6, <2>1, <2>3
  <2>6. ASSUME NEW x \in Range(s) PROVE x \in Range(a) \union Range(b)
    <3>1. PICK i \in 1 .. Len(s) : x = s[i]
      BY <2>1
    <3>2. CASE i \in 1 .. n
      BY <1>2, <2>2, <3>1, <3>2
    <3>3. CASE i - n \in 1 .. Len(s) - n /\ n + (i - n) = i
      BY <1>3, <2>3, <3>1, <3>3
    <3> QED BY <1>7, <3>2, <3>3
  <2> QED BY <2>4, <2>5, <2>6
<1>9. ASSUME Ordered(s) PROVE Ordered(a) /\ Ordered(b) /\ Before(Range(a), Range(b))
  <2>1. Ordered(a)
    BY <1>2, <1>5, <1>9 DEF Ordered
  <2>2. \A i, j \in 1 .. Len(s) - n : i < j => n + i < n + j
    BY <1>1
  <2>3. Ordered(b)
    BY <1>3, <1>6, <1>9, <2>2 DEF Ordered
  <2>4. \A i \in 1 .. n, j \in 1 .. Len(s) - n : i < n + j
    BY <1>1
  <2>5. ASSUME NEW x \in Range(a), NEW y \in Range(b), x.id = y.id PROVE x.seq < y.seq
    <3>1. PICK i \in 1 .. n : x = s[i]
      <4>1. PICK i \in 1 .. Len(a) : x = a[i]
        BY <1>2, RangeMember
      <4> QED BY <1>2, <4>1
    <3>2. PICK j \in 1 .. Len(s) - n : y = s[n + j]
      <4>1. PICK j \in 1 .. Len(b) : y = b[j]
        BY <1>3, RangeMember
      <4> QED BY <1>3, <4>1
    <3>3. i \in 1 .. Len(s) /\ n + j \in 1 .. Len(s) /\ i < n + j
      BY <1>5, <1>6, <2>4
    <3> QED BY <1>9, <2>5, <3>1, <3>2, <3>3 DEF Ordered
  <2> QED BY <2>1, <2>3, <2>5 DEF Before
<1> QED BY <1>2, <1>3, <1>8, <1>9 DEF a, b

\* What is left of a batch when one more item has been dealt with.
LEMMA RestStep ==
  ASSUME NEW S, NEW s \in Seq(S)
  PROVE  /\ Rest(s, 0) = s
         /\ \A n \in 0 .. Len(s) - 1 :
              /\ Rest(s, n) # << >> /\ Head(Rest(s, n)) = s[n + 1]
              /\ Tail(Rest(s, n)) = Rest(s, n + 1)
<1>1. Len(s) \in Nat
  OBVIOUS
<1>2. Rest(s, 0) = s
  BY SubSeqFull DEF Rest
<1>3. ASSUME NEW n \in 0 .. Len(s) - 1
      PROVE  /\ Rest(s, n) # << >> /\ Head(Rest(s, n)) = s[n + 1]
             /\ Tail(Rest(s, n)) = Rest(s, n + 1)
  <2>1. n + 1 \in 1 .. Len(s) /\ Len(s) \in n + 1 .. Len(s)
    BY <1>1
  <2>2. Head(SubSeq(s, n + 1, Len(s))) = s[n + 1]
        /\ Tail(SubSeq(s, n + 1, Len(s))) = SubSeq(s, n + 1 + 1, Len(s))
    BY <2>1, HeadTailOfSubSeq
  <2>3. Rest(s, n) # << >>
    <3>1. \A i \in n + 1 .. Len(s) : s[i] \in S
      BY <1>1
    <3>2. Len(SubSeq(s, n + 1, Len(s))) = Len(s) - (n + 1) + 1
      BY <1>1, <2>1, <3>1, SubSeqProperties
    <3>3. Len(s) - (n + 1) + 1 # 0
      BY <1>1, <2>1
    <3> QED BY <3>2, <3>3 DEF Rest
  <2> QED BY <2>2, <2>3 DEF Rest
<1> QED BY <1>2, <1>3

LEMMA TakenFacts ==
  ASSUME NEW S, NEW s \in Seq(S), NEW limit \in Nat \ {0}, NEW n \in Taken(s, limit)
  PROVE  n \in 0 .. Len(s)
<1>1. Len(s) \in Nat
  OBVIOUS
<1> QED BY <1>1 DEF Taken

LEMMA EnqueueFacts ==
  ASSUME NEW S, NEW s \in Seq(S), NEW e \in S, NEW cap
  PROVE  LET t == Enqueue(s, cap, e) IN
         /\ t \in Seq(S)
         /\ Range(s) \subseteq Range(t) /\ Range(t) \subseteq Range(s) \union {e}
         /\ Len(s) < cap => Range(t) = Range(s) \union {e}
         /\ ~(Len(s) < cap) => t = s
         /\ Ordered(s) /\ Before(Range(s), {e}) => Ordered(t)
<1>1. CASE Len(s) < cap
  BY <1>1, AppendFacts DEF Enqueue
<1>2. CASE ~(Len(s) < cap)
  BY <1>2 DEF Enqueue
<1> QED BY <1>1, <1>2
-----------------------------------------------------------------------------
(* Types.                                                                  *)

Seqs == 1 .. MaxSeq

\* A packet, and its metadata.
Packets == [id : Flow, seq : Seqs]

Records == [seq : Seqs, num : Nat, closed : BOOLEAN, paused : BOOLEAN, times : Seq(Nat)]

Items == [id : Flow, seq : Nat \ {0}, times : Seq(Nat)]

Results == [id : Flow, seq : Nat \ {0}, type : PktType, times : Seq(Nat)]

Buffers == [queue : Seq(Packets), analyzed : Nat, type : PktType \union {0},
            times : Seq(Nat), idx : Nat]

Departures == [id : Flow, seq : Seqs, type : PktType \union {0}, by : Nat]

Verdicts == [id : Flow, seq : Nat, type : PktType]

Recorded == DOMAIN flow_record
Known == DOMAIN flow_buffer

ParserTypes ==
  /\ parser_seq \in 0 .. MaxSeq
  /\ parsed \in Seq(Packets) /\ freed \subseteq Packets
  /\ parser_to_pool \in Seq(Packets) /\ parser_to_buffer \in Seq(Packets)

PoolTypes ==
  /\ Recorded \subseteq Flow /\ flow_record \in [Recorded -> Records]
  /\ flow_priority \subseteq Seqs \X Flow
  /\ metadata_from_parser \in Seq(Packets)
  /\ input_item \in Seq(Items)

AnalyzerTypes ==
  /\ input_item_c \in Seq(Items) /\ emitted \in Nat
  /\ analyzer_to_buffer \in Seq(Results)
  /\ verdicts \subseteq Verdicts

BufferTypes ==
  /\ Known \subseteq Flow /\ flow_buffer \in [Known -> Buffers]
  /\ pkt_from_parser \in Seq(Packets)
  /\ result_from_analyzer \in Seq(Results)
  /\ leaving \in Seq(Departures)

TypeInv == ParserTypes /\ PoolTypes /\ AnalyzerTypes /\ BufferTypes

USE DEF Recorded, Known

LEMMA RecordTypes ==
  ASSUME PoolTypes, NEW f \in Recorded
  PROVE  /\ f \in Flow /\ flow_record[f] \in Records
         /\ flow_record[f].seq \in Seqs /\ flow_record[f].num \in Nat
         /\ flow_record[f].closed \in BOOLEAN /\ flow_record[f].paused \in BOOLEAN
         /\ flow_record[f].times \in Seq(Nat)
<1>1. f \in Flow /\ flow_record[f] \in Records
  BY DEF PoolTypes
<1> QED BY <1>1 DEF Records

LEMMA BufferRecordTypes ==
  ASSUME BufferTypes, NEW f \in Known
  PROVE  /\ f \in Flow /\ flow_buffer[f] \in Buffers
         /\ flow_buffer[f].queue \in Seq(Packets) /\ flow_buffer[f].analyzed \in Nat
         /\ flow_buffer[f].type \in PktType \union {0}
         /\ flow_buffer[f].times \in Seq(Nat) /\ flow_buffer[f].idx \in Nat
<1>1. f \in Flow /\ flow_buffer[f] \in Buffers
  BY DEF BufferTypes
<1> QED BY <1>1 DEF Buffers

\* The times a buffer keeps after a result are times.
LEMMA UpdateTimesType ==
  ASSUME NEW old \in Seq(Nat), NEW new \in Seq(Nat)
  PROVE  Buf!UpdateTimes(old, new) \in Seq(Nat)
<1>1. Len(old) \in Nat /\ Len(new) \in Nat
  OBVIOUS
<1>2. CASE Len(new) <= Len(old)
  <2>1. \A i \in 1 .. Len(new) : old[i] \in Nat
    BY <1>1, <1>2
  <2>2. SubSeq(old, 1, Len(new)) \in Seq(Nat)
    BY <1>1, <2>1, SubSeqProperties
  <2> QED BY <1>2, <2>2 DEF Buf!UpdateTimes
<1>3. CASE ~(Len(new) <= Len(old))
  <2>1. \A i \in Len(old) + 1 .. Len(new) : new[i] \in Nat
    BY <1>1
  <2>2. SubSeq(new, Len(old) + 1, Len(new)) \in Seq(Nat)
    BY <1>1, <2>1, SubSeqProperties
  <2>3. old \o SubSeq(new, Len(old) + 1, Len(new)) \in Seq(Nat)
    BY <2>2
  <2> QED BY <1>3, <2>3 DEF Buf!UpdateTimes
<1> QED BY <1>2, <1>3
-----------------------------------------------------------------------------
(* What a step of the buffer does to the buffer of one flow.               *)

Rewrites(f, queue, analyzed, type) ==
  /\ f \in Flow /\ Known' = Known \union {f}
  /\ flow_buffer' \in [Known' -> Buffers]
  /\ flow_buffer'[f].queue = queue /\ flow_buffer'[f].analyzed = analyzed
  /\ flow_buffer'[f].type = type
  /\ \A g \in Known \ {f} : flow_buffer'[g] = flow_buffer[g]

LEMMA Rewritten ==
  ASSUME BufferTypes, NEW f \in Flow, NEW b \in Buffers,
         flow_buffer' = [g \in Known \union {f} |-> IF g = f THEN b ELSE flow_buffer[g]]
  PROVE  Rewrites(f, b.queue, b.analyzed, b.type)
BY DEF BufferTypes, Rewrites

LEMMA RewrittenKnown ==
  ASSUME BufferTypes, NEW f \in Known, NEW b \in Buffers,
         flow_buffer' = [flow_buffer EXCEPT ![f] = b]
  PROVE  Rewrites(f, b.queue, b.analyzed, b.type)
<1>1. Known' = Known /\ flow_buffer' = [g \in Known |-> IF g = f THEN b ELSE flow_buffer[g]]
  BY DEF BufferTypes
<1> QED BY <1>1, Rewritten DEF BufferTypes

\* A new buffer holds what it is given, and is empty otherwise.
LEMMA NewBuffers ==
  ASSUME NEW idx \in Nat
  PROVE  /\ \A p \in Packets :
              LET b == [Buf!NewBuffer(idx) EXCEPT !.queue = <<p>>] IN
              b \in Buffers /\ b.queue = <<p>> /\ b.analyzed = 0 /\ b.type = 0
         /\ \A r \in Results :
              LET b == [Buf!NewBuffer(idx) EXCEPT !.analyzed = r.seq, !.type = r.type,
                                !.times = Buf!UpdateTimes(<< >>, r.times)] IN
              /\ b \in Buffers /\ b.queue = << >>
              /\ b.analyzed = r.seq /\ b.type = r.type
<1>1. << >> \in Seq(Nat) /\ << >> \in Seq(Packets)
  OBVIOUS
<1>2. ASSUME NEW p \in Packets
      PROVE  LET b == [Buf!NewBuffer(idx) EXCEPT !.queue = <<p>>] IN
             b \in Buffers /\ b.queue = <<p>> /\ b.analyzed = 0 /\ b.type = 0
  <2>1. <<p>> \in Seq(Packets)
    OBVIOUS
  <2> QED BY <1>1, <2>1 DEF Buf!NewBuffer, Buffers
<1>3. ASSUME NEW r \in Results
      PROVE  LET b == [Buf!NewBuffer(idx) EXCEPT !.analyzed = r.seq, !.type = r.type,
                                !.times = Buf!UpdateTimes(<< >>, r.times)] IN
             /\ b \in Buffers /\ b.queue = << >>
             /\ b.analyzed = r.seq /\ b.type = r.type
  <2>1. r.seq \in Nat /\ r.type \in PktType /\ r.times \in Seq(Nat)
    BY DEF Results
  <2>2. Buf!UpdateTimes(<< >>, r.times) \in Seq(Nat)
    BY <1>1, <2>1, UpdateTimesType
  <2> QED BY <1>1, <2>1, <2>2 DEF Buf!NewBuffer, Buffers
<1> QED BY <1>2, <1>3

\* Only the queue of a flow that is known changes.
LEMMA Requeued ==
  ASSUME BufferTypes, NEW f \in Known, NEW queue \in Seq(Packets),
         flow_buffer' = [flow_buffer EXCEPT ![f].queue = queue]
  PROVE  Rewrites(f, queue, flow_buffer[f].analyzed, flow_buffer[f].type)
<1> DEFINE b == [flow_buffer[f] EXCEPT !.queue = queue]
<1>1. flow_buffer[f] \in Buffers
  BY BufferRecordTypes
<1>2. /\ b \in Buffers /\ b.queue = queue /\ b.analyzed = flow_buffer[f].analyzed
      /\ b.type = flow_buffer[f].type
  BY <1>1 DEF Buffers
<1>3. flow_buffer' = [flow_buffer EXCEPT ![f] = b]
  OBVIOUS
<1> HIDE DEF b
<1> QED BY <1>2, <1>3, RewrittenKnown

LEMMA PktFacts ==
  ASSUME BufferTypes, Buf!Handling
  PROVE  /\ Buf!Pkt \in Packets /\ Buf!Pkt.id \in Flow /\ Buf!Pkt.seq \in Seqs
         /\ pkt_from_parser # << >> /\ buffer = "pkts" /\ aborted = 0
<1>1. pkt_from_parser # << >> /\ pkt_from_parser \in Seq(Packets)
      /\ buffer = "pkts" /\ aborted = 0
  BY DEF BufferTypes, Buf!Handling
<1>2. Buf!Pkt \in Packets
  BY <1>1, TailFacts DEF Buf!Pkt
<1> QED BY <1>1, <1>2 DEF Packets

LEMMA PktNewFlowRewrites ==
  ASSUME BufferTypes, Buf!PktNewFlow
  PROVE  Rewrites(Buf!Pkt.id, <<Buf!Pkt>>, 0, 0)
<1>1. Buf!Pkt \in Packets /\ Buf!Pkt.id \in Flow
  BY PktFacts DEF Buf!PktNewFlow
<1>2. PICK idx \in IdxAtBirth :
        flow_buffer' = Buf!WithBuffer(Buf!Pkt.id, [Buf!NewBuffer(idx) EXCEPT !.queue = <<Buf!Pkt>>])
  BY DEF Buf!PktNewFlow
<1> DEFINE b == [Buf!NewBuffer(idx) EXCEPT !.queue = <<Buf!Pkt>>]
<1>3. b \in Buffers /\ b.queue = <<Buf!Pkt>> /\ b.analyzed = 0 /\ b.type = 0
  <2>1. idx \in Nat
    BY ImisAssumption
  <2> QED BY <1>1, <2>1, NewBuffers
<1>4. flow_buffer' = [g \in Known \union {Buf!Pkt.id} |-> IF g = Buf!Pkt.id THEN b ELSE flow_buffer[g]]
  BY <1>2 DEF Buf!WithBuffer, Buf!Known
<1> HIDE DEF b
<1> QED BY <1>1, <1>3, <1>4, Rewritten

LEMMA PktWaitRewrites ==
  ASSUME BufferTypes, Buf!PktWait
  PROVE  LET f == Buf!Pkt.id IN
         /\ f \in Known
         /\ Rewrites(f, Append(flow_buffer[f].queue, Buf!Pkt), flow_buffer[f].analyzed,
                     flow_buffer[f].type)
<1> DEFINE f == Buf!Pkt.id
           queue == Append(flow_buffer[f].queue, Buf!Pkt)
<1>1. Buf!Pkt \in Packets /\ f \in Known
  BY PktFacts DEF Buf!PktWait, Buf!Known
<1>2. queue \in Seq(Packets)
  BY <1>1, BufferRecordTypes
<1>3. flow_buffer' = [flow_buffer EXCEPT ![f].queue = queue]
  BY DEF Buf!PktWait
<1> HIDE DEF f, queue
<1>4. Rewrites(f, queue, flow_buffer[f].analyzed, flow_buffer[f].type)
  BY <1>1, <1>2, <1>3, Requeued
<1> QED BY <1>1, <1>4 DEF f, queue

\* A queue that is full gives up its head.
LEMMA PktOverflowRewrites ==
  ASSUME BufferTypes, Buf!PktOverflow
  PROVE  LET f == Buf!Pkt.id
             rest == Tail(flow_buffer[f].queue)
         IN
         /\ f \in Known /\ flow_buffer[f].queue # << >>
         /\ Rewrites(f, IF Asserting THEN rest ELSE Append(rest, Buf!Pkt),
                     flow_buffer[f].analyzed, flow_buffer[f].type)
<1> DEFINE f == Buf!Pkt.id
           rest == Tail(flow_buffer[f].queue)
           queue == IF Asserting THEN rest ELSE Append(rest, Buf!Pkt)
<1>1. Buf!Pkt \in Packets /\ f \in Known /\ flow_buffer[f].queue # << >>
  BY PktFacts DEF Buf!PktOverflow, Buf!Known
<1>2. queue \in Seq(Packets)
  <2>1. rest \in Seq(Packets)
    BY <1>1, BufferRecordTypes
  <2> QED BY <1>1, <2>1
<1>3. flow_buffer' = [flow_buffer EXCEPT ![f].queue = queue]
  BY DEF Buf!PktOverflow
<1> HIDE DEF f, rest, queue
<1>4. Rewrites(f, queue, flow_buffer[f].analyzed, flow_buffer[f].type)
  BY <1>1, <1>2, <1>3, Requeued
<1> QED BY <1>1, <1>4 DEF f, rest, queue

LEMMA ResultFacts ==
  ASSUME BufferTypes, result_from_analyzer # << >>
  PROVE  /\ Buf!Result \in Results /\ Buf!Result.id \in Flow
         /\ Buf!Result.seq \in Nat \ {0} /\ Buf!Result.type \in PktType
         /\ Buf!Result.times \in Seq(Nat)
<1>1. Buf!Result \in Results
  BY TailFacts DEF BufferTypes, Buf!Result
<1> QED BY <1>1 DEF Results

LEMMA ResultNewFlowRewrites ==
  ASSUME BufferTypes, result_from_analyzer # << >>, Buf!ResultNewFlow
  PROVE  LET r == Buf!Result IN r.id \notin Known /\ Rewrites(r.id, << >>, r.seq, r.type)
<1> DEFINE r == Buf!Result
<1>1. r \in Results /\ r.id \in Flow /\ r.id \notin Known
  BY ResultFacts DEF Buf!ResultNewFlow, Buf!Known
<1>2. PICK idx \in IdxAtBirth :
        flow_buffer' = Buf!WithBuffer(r.id,
          [Buf!NewBuffer(idx) EXCEPT !.analyzed = r.seq, !.type = r.type,
                                     !.times = Buf!UpdateTimes(<< >>, r.times)])
  BY DEF Buf!ResultNewFlow
<1> DEFINE b == [Buf!NewBuffer(idx) EXCEPT !.analyzed = r.seq, !.type = r.type,
                                     !.times = Buf!UpdateTimes(<< >>, r.times)]
<1> HIDE DEF r
<1>3. b \in Buffers /\ b.queue = << >> /\ b.analyzed = r.seq /\ b.type = r.type
  <2>1. idx \in Nat
    BY ImisAssumption
  <2> QED BY <1>1, <2>1, NewBuffers
<1>4. flow_buffer' = [g \in Known \union {r.id} |-> IF g = r.id THEN b ELSE flow_buffer[g]]
  BY <1>2 DEF Buf!WithBuffer, Buf!Known
<1> HIDE DEF b
<1>5. Rewrites(r.id, << >>, r.seq, r.type)
  BY <1>1, <1>3, <1>4, Rewritten
<1> QED BY <1>1, <1>5 DEF r

LEMMA ResultKnownFlowRewrites ==
  ASSUME BufferTypes, result_from_analyzer # << >>, Buf!ResultKnownFlow
  PROVE  LET r == Buf!Result IN
         r.id \in Known /\ Rewrites(r.id, flow_buffer[r.id].queue, r.seq, r.type)
<1> DEFINE r == Buf!Result
           old == flow_buffer[r.id]
           b == [old EXCEPT !.analyzed = r.seq, !.type = r.type,
                            !.times = Buf!UpdateTimes(old.times, r.times)]
<1>1. /\ r \in Results /\ r.id \in Known
      /\ r.seq \in Nat /\ r.type \in PktType /\ r.times \in Seq(Nat)
  BY ResultFacts DEF Buf!ResultKnownFlow, Buf!Known
<1>2. flow_buffer' = [flow_buffer EXCEPT ![r.id] = b]
  BY DEF Buf!ResultKnownFlow
<1> HIDE DEF r
<1>3. old \in Buffers /\ old.times \in Seq(Nat)
  BY <1>1, BufferRecordTypes
<1>4. Buf!UpdateTimes(old.times, r.times) \in Seq(Nat)
  BY <1>1, <1>3, UpdateTimesType
<1> HIDE DEF old
<1>5. b \in Buffers /\ b.queue = old.queue /\ b.analyzed = r.seq /\ b.type = r.type
  BY <1>1, <1>3, <1>4 DEF Buffers
<1> HIDE DEF b
<1>6. Rewrites(r.id, old.queue, r.seq, r.type)
  BY <1>1, <1>2, <1>5, RewrittenKnown
<1> QED BY <1>1, <1>6 DEF r, old

\* The packet is taken from the queue, whether the assert holds or not.
LEMMA FlushPktRewrites ==
  ASSUME BufferTypes, result_from_analyzer # << >>, Buf!Result.id \in Known, Buf!FlushPkt
  PROVE  LET f == Buf!Result.id
             b == flow_buffer[f]
         IN /\ b.queue # << >> /\ Head(b.queue).seq <= b.analyzed
            /\ Rewrites(f, Tail(b.queue), b.analyzed, b.type)
<1> DEFINE f == Buf!Result.id
           old == flow_buffer[f]
           rest == Tail(old.queue)
           step == IF old.idx < Len(old.times) THEN old.idx + 1 ELSE old.idx
           b == [[old EXCEPT !.queue = rest] EXCEPT !.idx = step]
<1>1. f \in Known /\ old.queue # << >> /\ Head(old.queue).seq <= old.analyzed
  BY DEF Buf!FlushPkt, Buf!Covered
<1>2. \/ flow_buffer' = [flow_buffer EXCEPT ![f].queue = rest]
      \/ flow_buffer' = [flow_buffer EXCEPT ![f].queue = rest, ![f].idx = step]
  BY DEF Buf!FlushPkt
<1> HIDE DEF f
<1>3. old \in Buffers /\ rest \in Seq(Packets) /\ step \in Nat
  BY <1>1, BufferRecordTypes
<1>4. CASE flow_buffer' = [flow_buffer EXCEPT ![f].queue = rest]
  <2> HIDE DEF rest
  <2>1. Rewrites(f, rest, old.analyzed, old.type)
    BY <1>1, <1>3, <1>4, Requeued
  <2> QED BY <1>1, <2>1 DEF f, rest
<1>5. CASE flow_buffer' = [flow_buffer EXCEPT ![f].queue = rest, ![f].idx = step]
  <2>1. flow_buffer' = [flow_buffer EXCEPT ![f] = b]
    BY <1>1, <1>5 DEF BufferTypes
  <2> HIDE DEF old, rest, step
  <2>2. b \in Buffers /\ b.queue = rest /\ b.analyzed = old.analyzed /\ b.type = old.type
    BY <1>3 DEF Buffers
  <2> HIDE DEF b
  <2>3. Rewrites(f, rest, old.analyzed, old.type)
    BY <1>1, <2>1, <2>2, RewrittenKnown
  <2> QED BY <1>1, <2>3 DEF f, old, rest
<1> QED BY <1>2, <1>4, <1>5
-----------------------------------------------------------------------------
(* What the steps of one thread leave alone.                               *)

LEMMA PoolFrame == PoolStep => UNCHANGED elsePool
BY DEF PoolStep, FetchMetadata, InPool, OutPoolBegin, OutPoolFlow, OutPoolEnd, Answer, elsePool

LEMMA AnalyzerFrame == AnalyzerStep => UNCHANGED elseAnalyzer
BY DEF AnalyzerStep, Ask, EmitResult, elseAnalyzer

LEMMA BufferFrame == BufferStep => UNCHANGED elseBuffer
BY DEF BufferStep, FetchPkts, HandlePkt, FetchResults, ApplyResult, elseBuffer

\* A block that a thread takes from a ring, and what it leaves there.
LEMMA BlockFacts ==
  ASSUME NEW S, NEW ring \in Seq(S), NEW limit \in Nat \ {0}, NEW n \in Taken(ring, limit)
  PROVE  LET block == SubSeq(ring, 1, n) IN
         /\ block \in Seq(S) /\ Rest(ring, n) \in Seq(S)
         /\ Range(ring) = Range(block) \union Range(Rest(ring, n))
         /\ Ordered(ring) => /\ Ordered(block) /\ Ordered(Rest(ring, n))
                             /\ Before(Range(block), Range(Rest(ring, n)))
BY TakenFacts, SplitFacts
-----------------------------------------------------------------------------
(* Types are kept.                                                         *)

LEMMA ParseFacts ==
  ASSUME ParserTypes, NEW f \in Flow, Parse(f)
  PROVE  LET m == [id |-> f, seq |-> parser_seq + 1] IN
         /\ m \in Packets /\ parsed = << >> /\ parsed' = <<m>>
         /\ parser_seq' = parser_seq + 1 /\ parser_seq' \in Seqs /\ parser_seq \in Nat
         /\ parser_to_pool' \in {parser_to_pool, Enqueue(parser_to_pool, MetadataCap, m)}
         /\ UNCHANGED <<freed, parser_to_buffer, analyzer_to_buffer, poolVars, handVars,
                        bufferVars, verdicts>>
<1> DEFINE m == [id |-> f, seq |-> parser_seq + 1]
<1>1. parser_seq \in 0 .. MaxSeq /\ MaxSeq \in Nat /\ parser_seq < MaxSeq
  BY ImisAssumption DEF ParserTypes, Parse
<1>2. parser_seq + 1 \in Seqs /\ parser_seq \in Nat
  BY <1>1 DEF Seqs
<1>3. m \in Packets
  BY <1>2 DEF Packets
<1>4. /\ parsed = << >> /\ parsed' = <<m>> /\ parser_seq' = parser_seq + 1
      /\ parser_to_pool' \in {parser_to_pool, Enqueue(parser_to_pool, MetadataCap, m)}
      /\ UNCHANGED <<freed, parser_to_buffer, analyzer_to_buffer, poolVars, handVars,
                     bufferVars, verdicts>>
  BY DEF Parse
<1> QED BY <1>2, <1>3, <1>4

LEMMA PassOnFacts ==
  ASSUME ParserTypes, PassOn
  PROVE  /\ Head(parsed) \in Packets /\ parsed # << >> /\ parsed' = << >>
         /\ parser_to_buffer' = Enqueue(parser_to_buffer, PktCap, Head(parsed))
         /\ freed' = IF Len(parser_to_buffer) < PktCap THEN freed
                     ELSE freed \union {Head(parsed)}
         /\ UNCHANGED <<parser_seq, parser_to_pool, analyzer_to_buffer, poolVars, handVars,
                        bufferVars, historyVars>>
<1>1. parsed \in Seq(Packets) /\ parsed # << >>
  BY DEF ParserTypes, PassOn
<1> QED BY <1>1, TailFacts DEF PassOn

LEMMA ParserTypesKept == TypeInv /\ Next => ParserTypes'
<1> SUFFICES ASSUME TypeInv, Next PROVE ParserTypes'
  OBVIOUS
<1> USE DEF TypeInv, ParserTypes
<1>1. ASSUME NEW f \in Flow, Parse(f) PROVE ParserTypes'
  <2> DEFINE m == [id |-> f, seq |-> parser_seq + 1]
  <2>1. /\ m \in Packets /\ parsed' = <<m>> /\ parser_seq' \in Seqs
        /\ parser_to_pool' \in {parser_to_pool, Enqueue(parser_to_pool, MetadataCap, m)}
        /\ UNCHANGED <<freed, parser_to_buffer>>
    BY <1>1, ParseFacts
  <2> HIDE DEF m
  <2>2. <<m>> \in Seq(Packets) /\ parser_seq' \in 0 .. MaxSeq
    BY <2>1 DEF Seqs
  <2>3. Enqueue(parser_to_pool, MetadataCap, m) \in Seq(Packets)
    <3>1. parser_to_pool \in Seq(Packets)
      OBVIOUS
    <3> QED BY <2>1, <3>1, EnqueueFacts
  <2> QED BY <2>1, <2>2, <2>3
<1>2. CASE PassOn
  <2>1. parser_to_buffer' \in Seq(Packets)
    <3>1. /\ parser_to_buffer \in Seq(Packets) /\ Head(parsed) \in Packets
          /\ parser_to_buffer' = Enqueue(parser_to_buffer, PktCap, Head(parsed))
      BY <1>2, PassOnFacts
    <3> QED BY <3>1, EnqueueFacts
  <2>2. << >> \in Seq(Packets)
    OBVIOUS
  <2> QED BY <1>2, <2>1, <2>2, PassOnFacts
<1>3. CASE PoolStep
  <2>1. UNCHANGED <<parser_seq, parsed, freed, parser_to_buffer>>
    BY <1>3, PoolFrame DEF elsePool, parserVars
  <2>2. ASSUME NEW n \in Taken(parser_to_pool, MetadataFetch), FetchMetadata(n)
        PROVE  parser_to_pool' \in Seq(Packets)
    BY <2>2, BlockFacts, ImisAssumption DEF FetchMetadata
  <2>3. ASSUME InPool \/ OutPoolBegin \/ OutPoolFlow \/ OutPoolEnd \/ Answer
        PROVE  parser_to_pool' = parser_to_pool
    BY <2>3 DEF InPool, OutPoolBegin, OutPoolFlow, OutPoolEnd, Answer
  <2> QED BY <1>3, <2>1, <2>2, <2>3 DEF PoolStep
<1>4. CASE AnalyzerStep
  BY <1>4, AnalyzerFrame DEF elseAnalyzer, parserVars
<1>5. CASE BufferStep
  <2>1. UNCHANGED <<parser_seq, parsed, freed, parser_to_pool>>
    BY <1>5, BufferFrame DEF elseBuffer, parserVars
  <2>2. ASSUME NEW n \in Taken(parser_to_buffer, PktFetch), FetchPkts(n)
        PROVE  parser_to_buffer' \in Seq(Packets)
    BY <2>2, BlockFacts, ImisAssumption DEF FetchPkts
  <2>3. ASSUME HandlePkt \/ ApplyResult \/ (\E n \in Taken(analyzer_to_buffer, ResultFetch) : FetchResults(n))
        PROVE  parser_to_buffer' = parser_to_buffer
    BY <2>3 DEF HandlePkt, ApplyResult, FetchResults
  <2> QED BY <1>5, <2>1, <2>2, <2>3 DEF BufferStep
<1> QED BY <1>1, <1>2, <1>3, <1>4, <1>5 DEF Next
-----------------------------------------------------------------------------
(* What a step of the pool does to the record of one flow.                 *)

\* A flow waits in the priority queue at most once, and only while it is open;
\* its record is as of a packet that came.
PoolOrder ==
  /\ \A e \in flow_priority : /\ e[2] \in Recorded
                              /\ ~flow_record[e[2]].closed /\ ~flow_record[e[2]].paused
  /\ \A d, e \in flow_priority : d[2] = e[2] => d = e
  /\ \A f \in Recorded : flow_record[f].seq <= parser_seq

PoolFacts == INSTANCE FlowPoolProofs WITH MaxFetch <- MetadataFetch, reported <- 0

LEMMA TopFacts ==
  ASSUME PoolTypes, PoolOrder, flow_priority # {}
  PROVE  /\ Pool!Top \in flow_priority /\ Pool!Top[2] \in Recorded
         /\ ~flow_record[Pool!Top[2]].closed /\ ~flow_record[Pool!Top[2]].paused
<1>1. flow_priority \subseteq PoolFacts!Seqs \X Flow
  BY DEF PoolTypes, PoolFacts!Seqs, Seqs
<1>2. PoolFacts!PoolAssumption
  BY ImisAssumption DEF PoolFacts!PoolAssumption
<1>3. PoolFacts!Top \in flow_priority
  BY <1>1, <1>2, PoolFacts!TopIsOldest
<1>4. Pool!Top \in flow_priority
  BY <1>3 DEF PoolFacts!Top, Pool!Top
<1> QED BY <1>4 DEF PoolOrder

LEMMA InPoolFacts ==
  ASSUME PoolTypes, Pool!InPool
  PROVE  LET m == Head(metadata_from_parser) IN
         /\ m \in Packets /\ metadata_from_parser # << >>
         /\ metadata_from_parser' = Tail(metadata_from_parser)
         /\ UNCHANGED <<input_item, pool>>
         /\ flow_record' \in [Recorded' -> Records]
         /\ \/ m.id \in Recorded /\ UNCHANGED <<flow_record, flow_priority>>
            \/ /\ m.id \in Recorded => ~flow_record[m.id].closed
               /\ Recorded' = Recorded \union {m.id}
               /\ flow_record'[m.id].seq = m.seq
               /\ ~flow_record'[m.id].closed /\ ~flow_record'[m.id].paused
               /\ \A g \in Recorded \ {m.id} : flow_record'[g] = flow_record[g]
               /\ flow_priority' =
                    IF m.id \in Recorded /\ ~flow_record[m.id].paused THEN flow_priority
                    ELSE flow_priority \union {<<m.seq, m.id>>}
<1> DEFINE m == Head(metadata_from_parser)
<1>1. /\ metadata_from_parser # << >> /\ metadata_from_parser \in Seq(Packets)
      /\ metadata_from_parser' = Tail(metadata_from_parser)
      /\ UNCHANGED <<input_item, pool>>
  BY DEF PoolTypes, Pool!InPool, Pool!InPoolNew, Pool!InPoolPass, Pool!InPoolAppend
<1>2. m \in Packets
  BY <1>1, TailFacts
<1>3. m.id \in Flow /\ m.seq \in Seqs /\ m.seq \in Nat
  BY <1>2 DEF Packets, Seqs
<1>4. CASE Pool!InPoolNew
  <2> DEFINE r == [seq |-> m.seq, num |-> 1, closed |-> FALSE, paused |-> FALSE,
                   times |-> <<m.seq>>]
  <2>1. /\ m.id \notin Recorded
        /\ flow_record' = [f \in Recorded \union {m.id} |-> IF f = m.id THEN r ELSE flow_record[f]]
        /\ flow_priority' = flow_priority \union {<<m.seq, m.id>>}
    BY <1>4 DEF Pool!InPoolNew, Pool!NextMetadata, Pool!Recorded
  <2>2. r \in Records /\ r.seq = m.seq /\ r.closed = FALSE /\ r.paused = FALSE
    <3>1. <<m.seq>> \in Seq(Nat)
      BY <1>3
    <3> QED BY <1>3, <3>1 DEF Records
  <2> HIDE DEF r, m
  <2>3. Recorded' = Recorded \union {m.id} /\ flow_record' \in [Recorded' -> Records]
    BY <2>1, <2>2 DEF PoolTypes
  <2>4. flow_record'[m.id] = r /\ \A g \in Recorded \ {m.id} : flow_record'[g] = flow_record[g]
    BY <2>1
  <2>5. /\ flow_record'[m.id].seq = m.seq
        /\ ~flow_record'[m.id].closed /\ ~flow_record'[m.id].paused
    BY <2>2, <2>4
  <2> QED BY <1>1, <1>2, <2>1, <2>3, <2>4, <2>5 DEF m
<1>5. CASE Pool!InPoolPass
  <2>1. m.id \in Recorded /\ UNCHANGED <<flow_record, flow_priority>>
    BY <1>5 DEF Pool!InPoolPass, Pool!NextMetadata, Pool!Recorded
  <2> QED BY <1>1, <1>2, <2>1 DEF PoolTypes
<1>6. CASE Pool!InPoolAppend
  <2> DEFINE old == flow_record[m.id]
             r == [seq |-> m.seq, num |-> old.num + 1, closed |-> FALSE, paused |-> FALSE,
                   times |-> Append(old.times, m.seq)]
  <2>1. /\ m.id \in Recorded /\ ~old.closed
        /\ flow_record' = [flow_record EXCEPT ![m.id] = r]
        /\ flow_priority' = IF ~old.paused THEN flow_priority
                            ELSE flow_priority \union {<<m.seq, m.id>>}
    BY <1>6 DEF Pool!InPoolAppend, Pool!NextMetadata, Pool!Recorded, Pool!Requeued
  <2>2. old.num \in Nat /\ old.times \in Seq(Nat)
    BY <2>1, RecordTypes
  <2>3. r \in Records /\ r.seq = m.seq /\ r.closed = FALSE /\ r.paused = FALSE
    <3>1. Append(old.times, m.seq) \in Seq(Nat)
      BY <1>3, <2>2
    <3> QED BY <1>3, <2>2, <3>1 DEF Records
  <2> HIDE DEF r, m
  <2>4. Recorded' = Recorded \union {m.id} /\ flow_record' \in [Recorded' -> Records]
    BY <2>1, <2>3 DEF PoolTypes
  <2>5. flow_record'[m.id] = r /\ \A g \in Recorded \ {m.id} : flow_record'[g] = flow_record[g]
    BY <2>1 DEF PoolTypes
  <2>6. /\ flow_record'[m.id].seq = m.seq
        /\ ~flow_record'[m.id].closed /\ ~flow_record'[m.id].paused
    BY <2>3, <2>5
  <2> QED BY <1>1, <1>2, <2>1, <2>4, <2>5, <2>6 DEF m
<1> QED BY <1>4, <1>5, <1>6 DEF Pool!InPool

\* A flow is handed over as it stands, marked when it is complete.
LEMMA OutPoolFlowFacts ==
  ASSUME PoolTypes, PoolOrder, Pool!OutPoolFlow
  PROVE  LET f == Pool!Top[2]
             r == flow_record[f]
         IN
         /\ pool = "out" /\ Pool!Top \in flow_priority /\ f \in Recorded
         /\ flow_priority' = flow_priority \ {Pool!Top}
         /\ Recorded' = Recorded /\ flow_record' \in [Recorded -> Records]
         /\ \A g \in Recorded \ {f} : flow_record'[g] = flow_record[g]
         /\ flow_record'[f].seq = r.seq
         /\ \E item \in Items :
              /\ input_item' = Append(input_item, item) /\ item.id = f
              /\ \/ /\ item.seq = r.seq + Mark
                    /\ flow_record'[f].closed
                 \/ /\ item.seq = r.seq
                    /\ ~flow_record'[f].closed /\ flow_record'[f].paused
         /\ UNCHANGED <<metadata_from_parser, pool>>
<1> DEFINE f == Pool!Top[2]
           r == flow_record[f]
           full == r.num = MetaNum
           item == [id |-> f, seq |-> IF full THEN Pool!Marked(r.seq) ELSE r.seq, times |-> r.times]
           closedR == [r EXCEPT !.closed = TRUE]
           pausedR == [r EXCEPT !.paused = TRUE]
           new == IF full THEN closedR ELSE pausedR
<1>1. /\ pool = "out" /\ flow_priority # {}
      /\ flow_priority' = flow_priority \ {Pool!Top}
      /\ input_item' = Append(input_item, item)
      /\ flow_record' = IF full THEN [flow_record EXCEPT ![f].closed = TRUE]
                        ELSE [flow_record EXCEPT ![f].paused = TRUE]
      /\ UNCHANGED <<metadata_from_parser, pool>>
  BY DEF Pool!OutPoolFlow
<1>2. Pool!Top \in flow_priority /\ f \in Recorded /\ ~r.closed /\ ~r.paused
  BY <1>1, TopFacts
<1> HIDE DEF f
<1>3. /\ r \in Records /\ f \in Flow /\ r.seq \in Seqs /\ r.seq \in Nat \ {0}
      /\ r.closed = FALSE /\ r.paused = FALSE /\ r.times \in Seq(Nat)
  BY <1>2, RecordTypes DEF Seqs
<1>4. item \in Items /\ item.id = f /\ item.seq = IF full THEN r.seq + Mark ELSE r.seq
  <2> HIDE DEF r
  <2>1. r.seq + Mark \in Nat \ {0}
    <3>1. Mark \in Nat
      BY ImisAssumption
    <3> QED BY <1>3, <3>1
  <2> QED BY <1>3, <2>1 DEF Items, Pool!Marked
<1>5. flow_record' = [flow_record EXCEPT ![f] = new]
  BY <1>1
<1> HIDE DEF r
<1>6. /\ new \in Records /\ new.seq = r.seq
      /\ IF full THEN new.closed = TRUE ELSE new.closed = FALSE /\ new.paused = TRUE
  BY <1>3 DEF Records
<1> HIDE DEF new
<1>7. /\ Recorded' = Recorded /\ flow_record' \in [Recorded -> Records]
      /\ flow_record'[f] = new /\ \A g \in Recorded \ {f} : flow_record'[g] = flow_record[g]
  BY <1>2, <1>5, <1>6 DEF PoolTypes
<1>8. \/ /\ item.seq = r.seq + Mark
         /\ flow_record'[f].closed
      \/ /\ item.seq = r.seq
         /\ ~flow_record'[f].closed /\ flow_record'[f].paused
  BY <1>4, <1>6, <1>7
<1> HIDE DEF item
<1> QED BY <1>1, <1>2, <1>4, <1>6, <1>7, <1>8 DEF f, r
-----------------------------------------------------------------------------
(* Types are kept, continued.                                              *)

LEMMA PoolTypesKept == TypeInv /\ PoolOrder /\ Next => PoolTypes'
<1> SUFFICES ASSUME TypeInv, PoolOrder, Next PROVE PoolTypes'
  OBVIOUS
<1>0. PoolTypes /\ ParserTypes
  BY DEF TypeInv
<1>1. ASSUME UNCHANGED poolVars PROVE PoolTypes'
  BY <1>0, <1>1 DEF PoolTypes, poolVars
<1>2. ASSUME NEW n \in Taken(parser_to_pool, MetadataFetch), FetchMetadata(n) PROVE PoolTypes'
  <2>1. /\ metadata_from_parser' = SubSeq(parser_to_pool, 1, n)
        /\ UNCHANGED <<flow_record, flow_priority, input_item>>
    BY <1>2 DEF FetchMetadata, Pool!Fetch
  <2>2. metadata_from_parser' \in Seq(Packets)
    BY <1>0, <2>1, BlockFacts, ImisAssumption DEF ParserTypes
  <2> QED BY <1>0, <2>1, <2>2 DEF PoolTypes
<1>3. CASE InPool
  <2> DEFINE m == Head(metadata_from_parser)
  <2>1. /\ m \in Packets /\ metadata_from_parser # << >>
        /\ metadata_from_parser' = Tail(metadata_from_parser)
        /\ input_item' = input_item
        /\ flow_record' \in [Recorded' -> Records]
        /\ Recorded' = Recorded \/ Recorded' = Recorded \union {m.id}
        /\ flow_priority' = flow_priority \/ flow_priority' = flow_priority \union {<<m.seq, m.id>>}
    BY <1>0, <1>3, InPoolFacts DEF InPool
  <2>2. metadata_from_parser' \in Seq(Packets)
    BY <1>0, <2>1, TailFacts DEF PoolTypes
  <2> HIDE DEF m
  <2>3. m.id \in Flow /\ <<m.seq, m.id>> \in Seqs \X Flow
    BY <2>1 DEF Packets
  <2> QED BY <1>0, <2>1, <2>2, <2>3 DEF PoolTypes
<1>4. CASE OutPoolBegin
  BY <1>0, <1>4 DEF OutPoolBegin, Pool!OutPoolBegin, PoolTypes
<1>5. CASE OutPoolFlow
  <2>1. PICK item \in Items :
          /\ flow_priority' \subseteq flow_priority
          /\ Recorded' = Recorded /\ flow_record' \in [Recorded -> Records]
          /\ input_item' = Append(input_item, item)
          /\ UNCHANGED metadata_from_parser
    BY <1>0, <1>5, OutPoolFlowFacts DEF OutPoolFlow
  <2>2. input_item' \in Seq(Items)
    BY <1>0, <2>1 DEF PoolTypes
  <2> QED BY <1>0, <2>1, <2>2 DEF PoolTypes
<1>6. CASE OutPoolEnd
  BY <1>0, <1>6 DEF OutPoolEnd, Pool!OutPoolEnd, PoolTypes
<1>7. ASSUME NEW f \in Flow, Parse(f) PROVE UNCHANGED poolVars
  BY <1>7 DEF Parse
<1>8. ASSUME PassOn \/ Answer PROVE UNCHANGED poolVars
  BY <1>8 DEF PassOn, Answer
<1>9. ASSUME AnalyzerStep \/ BufferStep PROVE UNCHANGED poolVars
  BY <1>9, AnalyzerFrame, BufferFrame DEF elseAnalyzer, elseBuffer
<1> QED BY <1>1, <1>2, <1>3, <1>4, <1>5, <1>6, <1>7, <1>8, <1>9 DEF Next, PoolStep

\* The next result of a batch.
LEMMA EmitFacts ==
  ASSUME AnalyzerTypes, NEW type \in PktType, EmitResult(type)
  PROVE  LET item == input_item_c[emitted + 1]
             result == [id |-> item.id, seq |-> item.seq, type |-> type, times |-> item.times]
         IN
         /\ item \in Items /\ item.id \in Flow /\ item.seq \in Nat \ {0}
         /\ result \in Results
         /\ analyzer = "infer" /\ emitted \in 0 .. Len(input_item_c) - 1
         /\ emitted' = emitted + 1
         /\ analyzer_to_buffer' = Enqueue(analyzer_to_buffer, ResultCap, result)
         /\ verdicts' = verdicts \union {[id |-> item.id, seq |-> item.seq, type |-> type]}
         /\ UNCHANGED <<elseAnalyzer, flagVars, input_item_c, hand, analyzer,
                        pool_stop, analyzer_stop>>
<1> DEFINE item == input_item_c[emitted + 1]
           result == [id |-> item.id, seq |-> item.seq, type |-> type, times |-> item.times]
<1>1. input_item_c \in Seq(Items) /\ emitted \in Nat
  BY DEF AnalyzerTypes
<1>2. /\ analyzer = "infer" /\ emitted < Len(input_item_c) /\ emitted' = emitted + 1
      /\ analyzer_to_buffer' = Enqueue(analyzer_to_buffer, ResultCap, result)
      /\ verdicts' = verdicts \union {[id |-> item.id, seq |-> item.seq, type |-> type]}
      /\ UNCHANGED <<elseAnalyzer, flagVars, input_item_c, hand, analyzer,
                     pool_stop, analyzer_stop>>
  BY DEF EmitResult, Hand!EmitResult, Hand!flagVars, Hand!inputVars, Hand!stopVars, flagVars
<1>3. emitted \in 0 .. Len(input_item_c) - 1 /\ emitted + 1 \in 1 .. Len(input_item_c)
  BY <1>1, <1>2
<1>4. item \in Items
  BY <1>1, <1>3
<1> HIDE DEF item
<1>5. item.id \in Flow /\ item.seq \in Nat \ {0} /\ item.times \in Seq(Nat)
  BY <1>4 DEF Items
<1>6. result \in Results
  BY <1>5 DEF Results
<1> QED BY <1>2, <1>3, <1>4, <1>5, <1>6 DEF item

LEMMA AnalyzerTypesKept == TypeInv /\ Next => AnalyzerTypes'
<1> SUFFICES ASSUME TypeInv, Next PROVE AnalyzerTypes'
  OBVIOUS
<1>0. AnalyzerTypes /\ PoolTypes
  BY DEF TypeInv
<1>1. ASSUME UNCHANGED <<input_item_c, emitted, analyzer_to_buffer, verdicts>> PROVE AnalyzerTypes'
  BY <1>0, <1>1 DEF AnalyzerTypes
<1>2. ASSUME NEW f \in Flow, Parse(f)
      PROVE  UNCHANGED <<input_item_c, emitted, analyzer_to_buffer, verdicts>>
  BY <1>2 DEF Parse, handVars
<1>3. ASSUME PassOn
      PROVE  UNCHANGED <<input_item_c, emitted, analyzer_to_buffer, verdicts>>
  BY <1>3 DEF PassOn, handVars, historyVars
<1>4. CASE PoolStep
  <2>1. UNCHANGED <<analyzer_to_buffer, verdicts>>
    BY <1>4, PoolFrame DEF elsePool, historyVars
  <2>2. emitted' = emitted /\ (input_item_c' = input_item_c \/ input_item_c' = input_item)
    BY <1>4 DEF PoolStep, FetchMetadata, InPool, OutPoolBegin, OutPoolFlow, OutPoolEnd, Answer,
       handVars, Hand!EnterOutPool, Hand!StoreItems, Hand!StoreNum, Hand!ClearCall, Hand!SetReady,
       Hand!inputVars
  <2> QED BY <1>0, <2>1, <2>2 DEF AnalyzerTypes, PoolTypes
<1>5. CASE Ask
  <2>1. UNCHANGED <<input_item_c, analyzer_to_buffer, verdicts>> /\ emitted' \in {emitted, 0}
    BY <1>5 DEF Ask, Hand!ResetReady, Hand!Call, Hand!WakeUp, Hand!EndInference, Hand!inputVars,
       historyVars
  <2> QED BY <1>0, <2>1 DEF AnalyzerTypes
<1>6. ASSUME NEW type \in PktType, EmitResult(type) PROVE AnalyzerTypes'
  <2> DEFINE item == input_item_c[emitted + 1]
             result == [id |-> item.id, seq |-> item.seq, type |-> type, times |-> item.times]
             verdict == [id |-> item.id, seq |-> item.seq, type |-> type]
  <2>1. /\ item.id \in Flow /\ item.seq \in Nat \ {0} /\ result \in Results
        /\ emitted' = emitted + 1 /\ UNCHANGED input_item_c
        /\ analyzer_to_buffer' = Enqueue(analyzer_to_buffer, ResultCap, result)
        /\ verdicts' = verdicts \union {verdict}
    BY <1>0, <1>6, EmitFacts
  <2> HIDE DEF result, item
  <2>2. verdict \in Verdicts
    BY <2>1 DEF Verdicts
  <2> HIDE DEF verdict
  <2>3. analyzer_to_buffer' \in Seq(Results)
    <3>1. analyzer_to_buffer \in Seq(Results)
      BY <1>0 DEF AnalyzerTypes
    <3>2. Enqueue(analyzer_to_buffer, ResultCap, result) \in Seq(Results)
      BY <2>1, <3>1, EnqueueFacts
    <3> QED BY <2>1, <3>2
  <2> QED BY <1>0, <2>1, <2>2, <2>3 DEF AnalyzerTypes
<1>7. CASE BufferStep
  <2>1. UNCHANGED <<input_item_c, emitted, verdicts>>
    BY <1>7, BufferFrame DEF elseBuffer, handVars, historyVars
  <2>2. ASSUME NEW n \in Taken(analyzer_to_buffer, ResultFetch), FetchResults(n)
        PROVE  analyzer_to_buffer' \in Seq(Results)
    <3>1. analyzer_to_buffer \in Seq(Results) /\ ResultFetch \in Nat \ {0}
      BY <1>0, ImisAssumption DEF AnalyzerTypes
    <3>2. Rest(analyzer_to_buffer, n) \in Seq(Results)
      BY <3>1, BlockFacts
    <3> QED BY <2>2, <3>2 DEF FetchResults
  <2>3. ASSUME HandlePkt \/ ApplyResult \/ (\E n \in Taken(parser_to_buffer, PktFetch) : FetchPkts(n))
        PROVE  analyzer_to_buffer' = analyzer_to_buffer
    BY <2>3 DEF HandlePkt, ApplyResult, FetchPkts
  <2>4. analyzer_to_buffer' \in Seq(Results)
    BY <1>0, <1>7, <2>2, <2>3 DEF BufferStep, AnalyzerTypes
  <2> QED BY <1>0, <2>1, <2>4 DEF AnalyzerTypes
<1> QED BY <1>1, <1>2, <1>3, <1>4, <1>5, <1>6, <1>7 DEF Next, AnalyzerStep

\* The buffer applies a result only if it has one, and flushes a flow it knows.
Applying ==
  /\ buffer \in {"apply", "flush"} => result_from_analyzer # << >>
  /\ buffer = "flush" => Buf!Result.id \in Known

LEMMA RewritesTypes ==
  ASSUME BufferTypes, NEW f, NEW queue, NEW analyzed, NEW type,
         Rewrites(f, queue, analyzed, type)
  PROVE  Known' \subseteq Flow /\ flow_buffer' \in [Known' -> Buffers]
BY DEF BufferTypes, Rewrites

\* A packet of a flow that is known leaves with the class of that flow, or none.
LEMMA SendTypes ==
  ASSUME BufferTypes, NEW p \in Packets, NEW type \in PktType \union {0}, NEW by \in Nat,
         Buf!Send(p, type, by)
  PROVE  leaving' \in Seq(Departures)
<1> DEFINE d == [id |-> p.id, seq |-> p.seq, type |-> type, by |-> by]
<1>1. d \in Departures
  BY DEF Departures, Packets
<1>2. leaving' = Append(leaving, d) /\ leaving \in Seq(Departures)
  BY DEF Buf!Send, BufferTypes
<1> HIDE DEF d
<1> QED BY <1>1, <1>2

LEMMA HandlePktTypes ==
  ASSUME BufferTypes, Buf!HandlePkt
  PROVE  /\ Known' \subseteq Flow /\ flow_buffer' \in [Known' -> Buffers]
         /\ pkt_from_parser' \in Seq(Packets) /\ leaving' \in Seq(Departures)
         /\ UNCHANGED <<result_from_analyzer, buffer>>
<1> DEFINE f == Buf!Pkt.id
<1>1. /\ pkt_from_parser # << >> /\ Buf!Pkt \in Packets
      /\ pkt_from_parser' = pkt_from_parser \/ pkt_from_parser' = Tail(pkt_from_parser)
      /\ UNCHANGED <<result_from_analyzer, buffer>>
  BY PktFacts DEF Buf!HandlePkt, Buf!PktNewFlow, Buf!PktPass, Buf!PktWait, Buf!PktOverflow
<1>2. pkt_from_parser' \in Seq(Packets)
  BY <1>1, TailFacts DEF BufferTypes
<1>3. CASE Buf!PktNewFlow
  <2>1. leaving' = leaving
    BY <1>3 DEF Buf!PktNewFlow
  <2> QED BY <1>1, <1>2, <1>3, <2>1, PktNewFlowRewrites, RewritesTypes DEF BufferTypes
<1>4. CASE Buf!PktPass
  <2>1. /\ f \in Known /\ flow_buffer' = flow_buffer
        /\ Buf!Send(Buf!Pkt, flow_buffer[f].type, flow_buffer[f].analyzed)
    BY <1>4 DEF Buf!PktPass, Buf!Known
  <2> HIDE DEF f
  <2>2. leaving' \in Seq(Departures)
    BY <1>1, <2>1, BufferRecordTypes, SendTypes
  <2> QED BY <1>1, <1>2, <2>1, <2>2 DEF BufferTypes
<1>5. CASE Buf!PktWait
  <2>1. leaving' = leaving
    BY <1>5 DEF Buf!PktWait
  <2> QED BY <1>1, <1>2, <1>5, <2>1, PktWaitRewrites, RewritesTypes DEF BufferTypes
<1>6. CASE Buf!PktOverflow
  <2>1. /\ f \in Known /\ flow_buffer[f].queue # << >>
        /\ Buf!Send(Head(flow_buffer[f].queue), 0, 0)
    BY <1>6, PktOverflowRewrites DEF Buf!PktOverflow
  <2>2. Known' \subseteq Flow /\ flow_buffer' \in [Known' -> Buffers]
    BY <1>6, PktOverflowRewrites, RewritesTypes
  <2> HIDE DEF f
  <2>3. Head(flow_buffer[f].queue) \in Packets
    BY <2>1, BufferRecordTypes, TailFacts
  <2>4. leaving' \in Seq(Departures)
    BY <2>1, <2>3, SendTypes
  <2> QED BY <1>1, <1>2, <2>2, <2>4
<1> QED BY <1>3, <1>4, <1>5, <1>6 DEF Buf!HandlePkt

LEMMA ApplyResultTypes ==
  ASSUME BufferTypes, Applying, Buf!ApplyResult
  PROVE  /\ Known' \subseteq Flow /\ flow_buffer' \in [Known' -> Buffers]
         /\ result_from_analyzer' \in Seq(Results) /\ leaving' \in Seq(Departures)
         /\ UNCHANGED pkt_from_parser /\ result_from_analyzer # << >>
<1>1. /\ result_from_analyzer # << >>
      /\ \/ result_from_analyzer' = result_from_analyzer
         \/ result_from_analyzer' = Tail(result_from_analyzer)
      /\ UNCHANGED pkt_from_parser
      /\ ~Buf!FlushPkt => UNCHANGED leaving
      /\ Buf!FlushPkt => Buf!Result.id \in Known
  BY DEF Applying, Buf!ApplyResult, Buf!ResultNewFlow, Buf!ResultKnownFlow, Buf!FlushPkt,
     Buf!FlushDone
<1>2. result_from_analyzer' \in Seq(Results)
  BY <1>1, TailFacts DEF BufferTypes
<1>3. Known' \subseteq Flow /\ flow_buffer' \in [Known' -> Buffers]
  <2>1. CASE Buf!ResultNewFlow
    BY <1>1, <2>1, ResultNewFlowRewrites, RewritesTypes
  <2>2. CASE Buf!ResultKnownFlow
    BY <1>1, <2>2, ResultKnownFlowRewrites, RewritesTypes
  <2>3. CASE Buf!FlushPkt
    BY <1>1, <2>3, FlushPktRewrites, RewritesTypes
  <2>4. CASE Buf!FlushDone
    BY <2>4 DEF Buf!FlushDone, BufferTypes
  <2> QED BY <2>1, <2>2, <2>3, <2>4 DEF Buf!ApplyResult
<1>4. leaving' \in Seq(Departures)
  <2>1. CASE ~Buf!FlushPkt
    BY <1>1, <2>1 DEF BufferTypes
  <2>2. CASE Buf!FlushPkt
    <3> DEFINE b == flow_buffer[Buf!Result.id]
    <3>1. \/ leaving' = leaving
          \/ Buf!Send(Head(b.queue), b.type, b.analyzed)
      BY <2>2 DEF Buf!FlushPkt
    <3>2. b.queue # << >> /\ Buf!Result.id \in Known
      BY <1>1, <2>2, FlushPktRewrites
    <3>3. Head(b.queue) \in Packets /\ b.type \in PktType \union {0} /\ b.analyzed \in Nat
      BY <3>2, BufferRecordTypes, TailFacts
    <3> HIDE DEF b
    <3> QED BY <3>1, <3>3, SendTypes DEF BufferTypes
  <2> QED BY <2>1, <2>2
<1> QED BY <1>1, <1>2, <1>3, <1>4

LEMMA BufferTypesKept == TypeInv /\ Applying /\ Next => BufferTypes'
<1> SUFFICES ASSUME TypeInv, Applying, Next PROVE BufferTypes'
  OBVIOUS
<1>0. ParserTypes /\ AnalyzerTypes /\ BufferTypes
  BY DEF TypeInv
<1>1. ASSUME UNCHANGED bufferVars PROVE BufferTypes'
  BY <1>0, <1>1 DEF BufferTypes, bufferVars
<1>2. ASSUME NEW f \in Flow, Parse(f) PROVE UNCHANGED bufferVars
  BY <1>2 DEF Parse
<1>3. ASSUME PassOn \/ PoolStep \/ AnalyzerStep PROVE UNCHANGED bufferVars
  BY <1>3, PoolFrame, AnalyzerFrame DEF PassOn, elsePool, elseAnalyzer
<1>4. ASSUME NEW n \in Taken(parser_to_buffer, PktFetch), FetchPkts(n) PROVE BufferTypes'
  <2>1. /\ pkt_from_parser' = SubSeq(parser_to_buffer, 1, n)
        /\ UNCHANGED <<flow_buffer, result_from_analyzer, leaving>>
    BY <1>4 DEF FetchPkts, Buf!FetchPkts
  <2>2. pkt_from_parser' \in Seq(Packets)
    BY <1>0, <2>1, BlockFacts, ImisAssumption DEF ParserTypes
  <2> QED BY <1>0, <2>1, <2>2 DEF BufferTypes
<1>5. CASE HandlePkt
  BY <1>0, <1>5, HandlePktTypes DEF HandlePkt, BufferTypes
<1>6. ASSUME NEW n \in Taken(analyzer_to_buffer, ResultFetch), FetchResults(n) PROVE BufferTypes'
  <2>1. /\ result_from_analyzer' = SubSeq(analyzer_to_buffer, 1, n)
        /\ UNCHANGED <<flow_buffer, pkt_from_parser, leaving>>
    BY <1>6 DEF FetchResults, Buf!FetchResults
  <2>2. result_from_analyzer' \in Seq(Results)
    <3>1. analyzer_to_buffer \in Seq(Results) /\ ResultFetch \in Nat \ {0}
      BY <1>0, ImisAssumption DEF AnalyzerTypes
    <3>2. SubSeq(analyzer_to_buffer, 1, n) \in Seq(Results)
      BY <3>1, BlockFacts
    <3> QED BY <2>1, <3>2
  <2> QED BY <1>0, <2>1, <2>2 DEF BufferTypes
<1>7. CASE ApplyResult
  BY <1>0, <1>7, ApplyResultTypes DEF ApplyResult, BufferTypes
<1> QED BY <1>1, <1>2, <1>3, <1>4, <1>5, <1>6, <1>7 DEF Next, BufferStep

LEMMA TypesKept == TypeInv /\ PoolOrder /\ Applying /\ Next => TypeInv'
BY ParserTypesKept, PoolTypesKept, AnalyzerTypesKept, BufferTypesKept DEF TypeInv

LEMMA ApplyingKept == TypeInv /\ Applying /\ Next => Applying'
<1> SUFFICES ASSUME TypeInv, Applying, Next PROVE Applying'
  OBVIOUS
<1>0. BufferTypes /\ AnalyzerTypes
  BY DEF TypeInv
<1>1. ASSUME UNCHANGED bufferVars PROVE Applying'
  BY <1>1 DEF Applying, bufferVars, Buf!Result
<1>2. ASSUME NEW f \in Flow, Parse(f) PROVE UNCHANGED bufferVars
  BY <1>2 DEF Parse
<1>3. ASSUME PassOn \/ PoolStep \/ AnalyzerStep PROVE UNCHANGED bufferVars
  BY <1>3, PoolFrame, AnalyzerFrame DEF PassOn, elsePool, elseAnalyzer
<1>4. ASSUME NEW n \in Taken(parser_to_buffer, PktFetch), FetchPkts(n) PROVE Applying'
  BY <1>4 DEF FetchPkts, Buf!FetchPkts, Applying
<1>5. CASE HandlePkt
  <2>1. buffer = "pkts" /\ UNCHANGED <<result_from_analyzer, buffer>>
    BY <1>0, <1>5, HandlePktTypes
       DEF HandlePkt, Buf!HandlePkt, Buf!Handling, Buf!PktNewFlow, Buf!PktPass, Buf!PktWait,
           Buf!PktOverflow
  <2> QED BY <2>1 DEF Applying
<1>6. ASSUME NEW n \in Taken(analyzer_to_buffer, ResultFetch), FetchResults(n) PROVE Applying'
  BY <1>6 DEF FetchResults, Buf!FetchResults, Applying
<1>7. CASE ApplyResult
  <2>0. result_from_analyzer \in Seq(Results) /\ result_from_analyzer # << >>
    BY <1>0, <1>7, ApplyResultTypes DEF ApplyResult, BufferTypes
  <2>1. CASE Buf!ResultNewFlow \/ Buf!FlushDone
    <3>1. /\ result_from_analyzer' = Tail(result_from_analyzer)
          /\ buffer' = IF Len(result_from_analyzer) = 1 THEN "fetch" ELSE "apply"
      BY <2>1 DEF Buf!ResultNewFlow, Buf!FlushDone
    <3>2. Len(result_from_analyzer) # 1 => Tail(result_from_analyzer) # << >>
      <4>1. /\ Len(Tail(result_from_analyzer)) = Len(result_from_analyzer) - 1
            /\ Len(result_from_analyzer) \in Nat
        BY <2>0, TailFacts
      <4>2. Len(result_from_analyzer) # 1 => Len(Tail(result_from_analyzer)) # 0
        BY <4>1
      <4> QED BY <4>2
    <3> QED BY <3>1, <3>2 DEF Applying
  <2>2. CASE Buf!ResultKnownFlow
    <3>1. /\ UNCHANGED result_from_analyzer /\ buffer' = "flush"
          /\ Known' = Known \union {Buf!Result.id}
      BY <1>0, <2>0, <2>2, ResultKnownFlowRewrites DEF Buf!ResultKnownFlow, Rewrites
    <3> QED BY <2>0, <3>1 DEF Applying, Buf!Result
  <2>3. CASE Buf!FlushPkt
    <3>1. Buf!Result.id \in Known /\ UNCHANGED result_from_analyzer /\ buffer' = buffer
      BY <2>3 DEF Applying, Buf!FlushPkt
    <3>2. Known' = Known \union {Buf!Result.id}
      BY <1>0, <2>0, <2>3, <3>1, FlushPktRewrites DEF Rewrites
    <3> QED BY <2>0, <3>1, <3>2 DEF Applying, Buf!Result
  <2> QED BY <1>7, <2>1, <2>2, <2>3 DEF ApplyResult, Buf!ApplyResult
<1> QED BY <1>1, <1>2, <1>3, <1>4, <1>5, <1>6, <1>7 DEF Next, BufferStep
-----------------------------------------------------------------------------
(* The metadata reach the pool in the order of their packets.              *)

Unpooled == Range(metadata_from_parser) \union Range(parser_to_pool)

MetadataInOrder ==
  /\ Ordered(metadata_from_parser) /\ Ordered(parser_to_pool)
  /\ Before(Range(metadata_from_parser), Range(parser_to_pool))
  /\ \A m \in Unpooled : /\ m.seq <= parser_seq
                         /\ m.id \in Recorded => flow_record[m.id].seq < m.seq

MetadataInv == PoolOrder /\ MetadataInOrder

LEMMA UnpooledTypes ==
  ASSUME TypeInv
  PROVE  Unpooled \subseteq Packets /\ \A m \in Unpooled : m.id \in Flow /\ m.seq \in Nat
<1>1. metadata_from_parser \in Seq(Packets) /\ parser_to_pool \in Seq(Packets)
  BY DEF TypeInv, ParserTypes, PoolTypes
<1>2. Unpooled \subseteq Packets
  BY <1>1, RangeMember DEF Unpooled
<1> QED BY <1>2 DEF Packets, Seqs

LEMMA ParseMetadataInv ==
  ASSUME TypeInv, MetadataInv, NEW f \in Flow, Parse(f)
  PROVE  MetadataInv'
<1> DEFINE new == [id |-> f, seq |-> parser_seq + 1]
<1>1. /\ new \in Packets /\ parser_seq' = parser_seq + 1 /\ parser_seq \in Nat
      /\ parser_to_pool' \in {parser_to_pool, Enqueue(parser_to_pool, MetadataCap, new)}
      /\ UNCHANGED <<flow_record, flow_priority, metadata_from_parser>>
  BY ParseFacts DEF TypeInv, poolVars
<1>2. new.id = f /\ new.seq = parser_seq + 1
  OBVIOUS
<1> HIDE DEF new
<1>3. \A m \in Unpooled : m.seq \in Nat /\ m.seq <= parser_seq
  BY UnpooledTypes DEF MetadataInv, MetadataInOrder
<1>4. \A m \in Unpooled : m.seq < new.seq /\ m.seq <= parser_seq + 1
  BY <1>1, <1>2, <1>3
<1>5. \A g \in Recorded : flow_record[g].seq \in Nat /\ flow_record[g].seq <= parser_seq
  BY RecordTypes DEF MetadataInv, PoolOrder, TypeInv, Seqs
<1>6. \A g \in Recorded : flow_record[g].seq < new.seq /\ flow_record[g].seq <= parser_seq + 1
  BY <1>1, <1>2, <1>5
<1>7. PoolOrder'
  BY <1>1, <1>6 DEF MetadataInv, PoolOrder
<1>8. /\ Ordered(parser_to_pool')
      /\ Range(parser_to_pool') \subseteq Range(parser_to_pool) \union {new}
  <2>1. parser_to_pool \in Seq(Packets) /\ Ordered(parser_to_pool)
    BY DEF TypeInv, ParserTypes, MetadataInv, MetadataInOrder
  <2>2. Before(Range(parser_to_pool), {new})
    BY <1>4 DEF Before, Unpooled
  <2>3. /\ Ordered(Enqueue(parser_to_pool, MetadataCap, new))
        /\ Range(Enqueue(parser_to_pool, MetadataCap, new)) \subseteq Range(parser_to_pool) \union {new}
    BY <1>1, <2>1, <2>2, EnqueueFacts
  <2> QED BY <1>1, <2>1, <2>3
<1>9. MetadataInOrder'
  <2>1. Before(Range(metadata_from_parser), Range(parser_to_pool'))
    BY <1>4, <1>8 DEF MetadataInv, MetadataInOrder, Before, Unpooled
  <2>2. new.seq <= parser_seq + 1
    BY <1>1, <1>2
  <2> QED BY <1>1, <1>4, <1>6, <1>8, <2>1, <2>2 DEF MetadataInv, MetadataInOrder, Unpooled
<1> QED BY <1>7, <1>9 DEF MetadataInv

LEMMA FetchMetadataInv ==
  ASSUME TypeInv, MetadataInv, NEW n \in Taken(parser_to_pool, MetadataFetch), FetchMetadata(n)
  PROVE  MetadataInv'
<1> DEFINE block == SubSeq(parser_to_pool, 1, n)
           rest == Rest(parser_to_pool, n)
<1>1. /\ metadata_from_parser' = block /\ parser_to_pool' = rest
      /\ UNCHANGED <<flow_record, flow_priority, parser_seq>>
  BY DEF FetchMetadata, Pool!Fetch, elsePool, parserVars
<1>2. /\ Range(parser_to_pool) = Range(block) \union Range(rest)
      /\ Ordered(block) /\ Ordered(rest) /\ Before(Range(block), Range(rest))
  <2>1. parser_to_pool \in Seq(Packets) /\ MetadataFetch \in Nat \ {0} /\ Ordered(parser_to_pool)
    BY ImisAssumption DEF TypeInv, ParserTypes, MetadataInv, MetadataInOrder
  <2> QED BY <2>1, BlockFacts
<1> HIDE DEF block, rest
<1> QED BY <1>1, <1>2 DEF MetadataInv, MetadataInOrder, PoolOrder, Unpooled

LEMMA InPoolMetadataInv ==
  ASSUME TypeInv, MetadataInv, InPool
  PROVE  MetadataInv'
<1> DEFINE m == Head(metadata_from_parser)
           rest == Tail(metadata_from_parser)
<1>0. metadata_from_parser \in Seq(Packets) /\ PoolTypes
  BY DEF TypeInv, PoolTypes
<1>1. /\ m \in Packets /\ metadata_from_parser # << >>
      /\ metadata_from_parser' = rest
      /\ \/ m.id \in Recorded /\ UNCHANGED <<flow_record, flow_priority>>
         \/ /\ m.id \in Recorded => ~flow_record[m.id].closed
            /\ Recorded' = Recorded \union {m.id}
            /\ flow_record'[m.id].seq = m.seq
            /\ ~flow_record'[m.id].closed /\ ~flow_record'[m.id].paused
            /\ \A g \in Recorded \ {m.id} : flow_record'[g] = flow_record[g]
            /\ flow_priority' =
                 IF m.id \in Recorded /\ ~flow_record[m.id].paused THEN flow_priority
                 ELSE flow_priority \union {<<m.seq, m.id>>}
  BY <1>0, InPoolFacts DEF InPool
<1>2. UNCHANGED <<parser_seq, parser_to_pool>>
  BY DEF InPool, elsePool, parserVars
<1>3. /\ Range(metadata_from_parser) = {m} \union Range(rest)
      /\ Ordered(rest) /\ Before({m}, Range(rest))
  BY <1>0, <1>1, TailFacts DEF MetadataInv, MetadataInOrder
<1> HIDE DEF m, rest
<1>4. /\ Unpooled = {m} \union Unpooled' /\ m \in Unpooled
      /\ \A x \in Unpooled' : x.id = m.id => m.seq < x.seq
  BY <1>1, <1>2, <1>3 DEF Unpooled, MetadataInv, MetadataInOrder, Before
<1>5. /\ Before(Range(rest), Range(parser_to_pool)) /\ Ordered(parser_to_pool)
      /\ \A x \in Unpooled : /\ x.seq <= parser_seq
                             /\ x.id \in Recorded => flow_record[x.id].seq < x.seq
  BY <1>3 DEF MetadataInv, MetadataInOrder, Before
<1>6. CASE UNCHANGED <<flow_record, flow_priority>>
  <2>1. PoolOrder'
    BY <1>2, <1>6 DEF MetadataInv, PoolOrder
  <2>2. MetadataInOrder'
    BY <1>1, <1>2, <1>3, <1>4, <1>5, <1>6 DEF MetadataInOrder
  <2> QED BY <2>1, <2>2 DEF MetadataInv
<1>7. CASE /\ Recorded' = Recorded \union {m.id}
           /\ flow_record'[m.id].seq = m.seq
           /\ ~flow_record'[m.id].closed /\ ~flow_record'[m.id].paused
           /\ \A g \in Recorded \ {m.id} : flow_record'[g] = flow_record[g]
           /\ flow_priority' =
                IF m.id \in Recorded /\ ~flow_record[m.id].paused THEN flow_priority
                ELSE flow_priority \union {<<m.seq, m.id>>}
  <2>1. \A x \in Unpooled' : x.id \in Recorded' => flow_record'[x.id].seq < x.seq
    BY <1>4, <1>5, <1>7
  <2>2. MetadataInOrder'
    BY <1>1, <1>2, <1>3, <1>4, <1>5, <2>1 DEF MetadataInOrder
  <2>3. \A g \in Recorded' : flow_record'[g].seq <= parser_seq
    BY <1>4, <1>5, <1>7 DEF MetadataInv, PoolOrder
  <2>4. /\ \A e \in flow_priority : /\ e[2] \in Recorded
                                    /\ ~flow_record[e[2]].closed /\ ~flow_record[e[2]].paused
        /\ \A d, e \in flow_priority : d[2] = e[2] => d = e
    BY DEF MetadataInv, PoolOrder
  <2>5. \A e \in flow_priority' : /\ e[2] \in Recorded'
                                  /\ ~flow_record'[e[2]].closed /\ ~flow_record'[e[2]].paused
    BY <1>7, <2>4
  <2>6. \A d, e \in flow_priority' : d[2] = e[2] => d = e
    BY <1>7, <2>4
  <2> QED BY <1>2, <2>2, <2>3, <2>5, <2>6 DEF MetadataInv, PoolOrder
<1> QED BY <1>1, <1>6, <1>7

LEMMA OutPoolFlowMetadataInv ==
  ASSUME TypeInv, MetadataInv, OutPoolFlow
  PROVE  MetadataInv'
<1> DEFINE top == Pool!Top
           f == top[2]
<1>1. /\ top \in flow_priority /\ f \in Recorded /\ flow_priority' = flow_priority \ {top}
      /\ Recorded' = Recorded
      /\ \A g \in Recorded \ {f} : flow_record'[g] = flow_record[g]
      /\ flow_record'[f].seq = flow_record[f].seq
      /\ UNCHANGED metadata_from_parser
  BY OutPoolFlowFacts DEF TypeInv, MetadataInv, OutPoolFlow
<1>2. UNCHANGED <<parser_seq, parser_to_pool>>
  BY DEF OutPoolFlow, elsePool, parserVars
<1> HIDE DEF top
<1>3. \A g \in Recorded : flow_record'[g].seq = flow_record[g].seq
  BY <1>1
<1>4. MetadataInOrder'
  BY <1>1, <1>2, <1>3 DEF MetadataInv, MetadataInOrder, Unpooled
<1>5. PoolOrder'
  BY <1>1, <1>2, <1>3 DEF MetadataInv, PoolOrder
<1> QED BY <1>4, <1>5 DEF MetadataInv

LEMMA MetadataInvKept == TypeInv /\ MetadataInv /\ Next => MetadataInv'
<1> SUFFICES ASSUME TypeInv, MetadataInv, Next PROVE MetadataInv'
  OBVIOUS
<1>1. ASSUME UNCHANGED <<metadata_from_parser, parser_to_pool, parser_seq, flow_record, flow_priority>>
      PROVE  MetadataInv'
  BY <1>1 DEF MetadataInv, MetadataInOrder, PoolOrder, Unpooled
<1>2. ASSUME PassOn \/ OutPoolBegin \/ OutPoolEnd \/ Answer
      PROVE  UNCHANGED <<metadata_from_parser, parser_to_pool, parser_seq, flow_record, flow_priority>>
  BY <1>2 DEF PassOn, OutPoolBegin, OutPoolEnd, Answer, Pool!OutPoolBegin, Pool!OutPoolEnd,
     elsePool, parserVars, poolVars
<1>3. ASSUME AnalyzerStep \/ BufferStep
      PROVE  UNCHANGED <<metadata_from_parser, parser_to_pool, parser_seq, flow_record, flow_priority>>
  BY <1>3, AnalyzerFrame, BufferFrame DEF elseAnalyzer, elseBuffer, parserVars, poolVars
<1> QED BY <1>1, <1>2, <1>3, ParseMetadataInv, FetchMetadataInv, InPoolMetadataInv,
           OutPoolFlowMetadataInv DEF Next, PoolStep
-----------------------------------------------------------------------------
(* The exchange of batches, as seen from the pipeline.                     *)

\* The strengthening of Hand!HandInv by what the pool does meanwhile: it is in
\* out_pool exactly while the exchange says so.
ExchangeInv ==
  /\ hand \in {"loop", "out", "num", "answer", "signal"}
  /\ analyzer \in {"reset", "call", "wait", "infer"}
  /\ analyzer_stop = FALSE
  /\ hand # "loop" => analyzer = "wait" /\ ready_for_analyzer = FALSE
  /\ hand \in {"out", "num", "answer"} => call_by_analyzer = TRUE
  /\ hand = "signal" => call_by_analyzer = FALSE
  /\ call_by_analyzer = TRUE => analyzer = "wait" /\ ready_for_analyzer = FALSE
  /\ analyzer = "call" => ready_for_analyzer = FALSE
  /\ call_by_analyzer \in BOOLEAN /\ ready_for_analyzer \in BOOLEAN
  /\ pool = "out" <=> hand = "out"
  /\ pool # "out" => input_item = << >>
  /\ analyzer # "infer" => emitted = 0

LEMMA ExchangeInvKept == TypeInv /\ ExchangeInv /\ Next => ExchangeInv'
<1> SUFFICES ASSUME TypeInv, ExchangeInv, Next PROVE ExchangeInv'
  OBVIOUS
<1> USE DEF ExchangeInv
<1>1. ASSUME UNCHANGED <<hand, analyzer, analyzer_stop, call_by_analyzer, ready_for_analyzer,
                         pool, input_item, emitted>>
      PROVE  ExchangeInv'
  BY <1>1
<1>2. ASSUME (\E f \in Flow : Parse(f)) \/ PassOn \/ BufferStep
      PROVE  UNCHANGED <<hand, analyzer, analyzer_stop, call_by_analyzer, ready_for_analyzer,
                         pool, input_item, emitted>>
  BY <1>2, BufferFrame DEF Parse, PassOn, elseBuffer, poolVars, handVars, flagVars
<1>3. CASE \E n \in Taken(parser_to_pool, MetadataFetch) : FetchMetadata(n)
  BY <1>3 DEF FetchMetadata, Pool!Fetch, handVars, flagVars
<1>4. CASE InPool
  <2>1. UNCHANGED <<pool, input_item, handVars>>
    BY <1>4 DEF InPool, Pool!InPool, Pool!InPoolNew, Pool!InPoolPass, Pool!InPoolAppend
  <2> QED BY <1>1, <2>1 DEF handVars, flagVars
<1>5. CASE OutPoolBegin
  BY <1>5 DEF OutPoolBegin, Pool!OutPoolBegin, Hand!EnterOutPool, Hand!flagVars, Hand!stopVars,
     handVars, flagVars
<1>6. CASE OutPoolFlow
  BY <1>6 DEF OutPoolFlow, Pool!OutPoolFlow, handVars, flagVars
<1>7. CASE OutPoolEnd
  BY <1>7 DEF OutPoolEnd, Pool!OutPoolEnd, Hand!StoreItems, Hand!flagVars, Hand!stopVars
<1>8. CASE Answer
  BY <1>8 DEF Answer, Hand!StoreNum, Hand!ClearCall, Hand!SetReady, Hand!flagVars, Hand!stopVars,
     poolVars
<1>9. CASE Ask
  BY <1>9 DEF Ask, Hand!ResetReady, Hand!Call, Hand!WakeUp, Hand!EndInference, Hand!flagVars,
     Hand!stopVars, elseAnalyzer, poolVars
<1>10. CASE \E type \in PktType : EmitResult(type)
  BY <1>10 DEF EmitResult, Hand!EmitResult, Hand!flagVars, Hand!stopVars, elseAnalyzer, poolVars
<1> QED BY <1>1, <1>2, <1>3, <1>4, <1>5, <1>6, <1>7, <1>8, <1>9, <1>10
           DEF Next, PoolStep, AnalyzerStep
-----------------------------------------------------------------------------
(* The packets of a flow stay in their order, wherever they are.           *)

Queues == [f \in Flow |-> Queue(f)]

InLine == Range(pkt_from_parser) \union Range(parser_to_buffer) \union Range(parsed)

LineInOrder ==
  /\ Ordered(pkt_from_parser) /\ Ordered(parser_to_buffer)
  /\ Before(Range(pkt_from_parser), Range(parser_to_buffer) \union Range(parsed))
  /\ Before(Range(parser_to_buffer), Range(parsed))
  /\ \A p \in InLine : p.seq <= parser_seq
  /\ parsed # << >> => parsed = <<Head(parsed)>> /\ Head(parsed).seq = parser_seq
  /\ buffer # "pkts" => pkt_from_parser = << >>

\* What waits in the queue of a flow belongs to it and came before all that is
\* still on its way to the buffer.
QueuesInOrder ==
  \A f \in Flow : /\ Ordered(Queues[f])
                  /\ \A p \in Range(Queues[f]) : p.id = f /\ p.seq <= parser_seq
                  /\ Before(Range(Queues[f]), InLine)

PacketInv == LineInOrder /\ QueuesInOrder

LEMMA QueueTypes ==
  ASSUME BufferTypes
  PROVE  /\ \A f \in Flow : Queues[f] \in Seq(Packets) /\ Range(Queues[f]) \subseteq Packets
         /\ \A f \in Known : f \in Flow /\ Queues[f] = flow_buffer[f].queue
         /\ \A f \in Flow \ Known : Queues[f] = << >>
<1>1. \A f \in Known : f \in Flow /\ Queues[f] = flow_buffer[f].queue
                       /\ flow_buffer[f].queue \in Seq(Packets)
  BY BufferRecordTypes DEF Queues, Queue, BufferTypes
<1>2. \A f \in Flow \ Known : Queues[f] = << >>
  BY DEF Queues, Queue
<1>3. << >> \in Seq(Packets)
  OBVIOUS
<1>4. \A f \in Flow : Queues[f] \in Seq(Packets)
  BY <1>1, <1>2, <1>3
<1> QED BY <1>1, <1>2, <1>4, RangeMember

LEMMA LineTypes ==
  ASSUME TypeInv
  PROVE  /\ InLine \subseteq Packets
         /\ \A p \in InLine : p \in Packets /\ p.id \in Flow /\ p.seq \in Nat
<1>1. /\ pkt_from_parser \in Seq(Packets) /\ parser_to_buffer \in Seq(Packets)
      /\ parsed \in Seq(Packets)
  BY DEF TypeInv, ParserTypes, BufferTypes
<1>2. InLine \subseteq Packets
  BY <1>1, RangeMember DEF InLine
<1> QED BY <1>2 DEF Packets, Seqs

\* Only the queue of one flow changes.
LEMMA RewritesQueues ==
  ASSUME BufferTypes, NEW f, NEW queue, NEW analyzed, NEW type,
         Rewrites(f, queue, analyzed, type)
  PROVE  f \in Flow /\ Queues' = [Queues EXCEPT ![f] = queue]
<1>1. /\ f \in Flow /\ Known' = Known \union {f} /\ flow_buffer'[f].queue = queue
      /\ \A g \in Known \ {f} : flow_buffer'[g] = flow_buffer[g]
  BY DEF Rewrites
<1>2. Queues' = [g \in Flow |-> IF g \in Known' THEN flow_buffer'[g].queue ELSE << >>]
  BY DEF Queues, Queue
<1>3. Queues = [g \in Flow |-> IF g \in Known THEN flow_buffer[g].queue ELSE << >>]
  BY DEF Queues, Queue
<1>4. ASSUME NEW g \in Flow PROVE Queues'[g] = [Queues EXCEPT ![f] = queue][g]
  BY <1>1, <1>2, <1>3
<1> QED BY <1>1, <1>2, <1>3, <1>4

\* The first packet of a queue leaves it.
LEMMA QueueHead ==
  ASSUME BufferTypes, NEW f \in Flow, Queues[f] # << >>
  PROVE  /\ Head(Queues[f]) \in Packets /\ Tail(Queues[f]) \in Seq(Packets)
         /\ Range(Queues[f]) = {Head(Queues[f])} \union Range(Tail(Queues[f]))
         /\ QueuesInOrder =>
              /\ Ordered(Tail(Queues[f])) /\ Head(Queues[f]).id = f
              /\ \A p \in Range(Tail(Queues[f])) : p.id = f /\ Head(Queues[f]).seq < p.seq
              /\ \A p \in InLine : p.id = f => Head(Queues[f]).seq < p.seq
<1> DEFINE q == Queues[f]
<1>1. q \in Seq(Packets)
  BY QueueTypes
<1>2. /\ Head(q) \in Packets /\ Tail(q) \in Seq(Packets)
      /\ Range(q) = {Head(q)} \union Range(Tail(q))
      /\ Ordered(q) => Ordered(Tail(q)) /\ Before({Head(q)}, Range(Tail(q)))
  BY <1>1, TailFacts
<1>3. QueuesInOrder => /\ Ordered(q) /\ \A p \in Range(q) : p.id = f
                       /\ Before(Range(q), InLine)
  BY DEF QueuesInOrder
<1> HIDE DEF q
<1>4. ASSUME QueuesInOrder
      PROVE  /\ Ordered(Tail(q)) /\ Head(q).id = f
             /\ \A p \in Range(Tail(q)) : p.id = f /\ Head(q).seq < p.seq
             /\ \A p \in InLine : p.id = f => Head(q).seq < p.seq
  BY <1>2, <1>3, <1>4 DEF Before
<1> QED BY <1>2, <1>4 DEF q

\* The packet at the head of the block the buffer is handling.
LEMMA LineHead ==
  ASSUME TypeInv, LineInOrder, pkt_from_parser # << >>,
         pkt_from_parser' = Tail(pkt_from_parser),
         UNCHANGED <<parser_to_buffer, parsed>>
  PROVE  /\ InLine = {Buf!Pkt} \union InLine' /\ Buf!Pkt \in InLine
         /\ \A p \in InLine' : p.id = Buf!Pkt.id => Buf!Pkt.seq < p.seq
         /\ Ordered(pkt_from_parser')
         /\ Range(pkt_from_parser') \subseteq Range(pkt_from_parser)
<1> DEFINE rest == Tail(pkt_from_parser)
<1>1. pkt_from_parser \in Seq(Packets) /\ Ordered(pkt_from_parser)
  BY DEF TypeInv, BufferTypes, LineInOrder
<1>2. /\ Range(pkt_from_parser) = {Buf!Pkt} \union Range(rest)
      /\ Ordered(rest) /\ Before({Buf!Pkt}, Range(rest))
  BY <1>1, TailFacts DEF Buf!Pkt
<1>3. Before(Range(pkt_from_parser), Range(parser_to_buffer) \union Range(parsed))
  BY DEF LineInOrder
<1> HIDE DEF rest
<1>4. InLine' = Range(rest) \union Range(parser_to_buffer) \union Range(parsed)
  BY DEF InLine, rest
<1>5. \A p \in InLine' : p.id = Buf!Pkt.id => Buf!Pkt.seq < p.seq
  BY <1>2, <1>3, <1>4 DEF Before
<1> QED BY <1>2, <1>4, <1>5 DEF InLine, rest

\* The line gets shorter, or what the buffer has in its hands does not change.
LEMMA LineShorter ==
  ASSUME TypeInv, LineInOrder, UNCHANGED <<parser_to_buffer, parsed, parser_seq>>,
         \/ /\ buffer = "pkts" /\ buffer' = buffer /\ pkt_from_parser # << >>
            /\ pkt_from_parser' = Tail(pkt_from_parser)
         \/ /\ buffer' = buffer \/ pkt_from_parser = << >>
            /\ UNCHANGED pkt_from_parser
  PROVE  LineInOrder' /\ InLine' \subseteq InLine
<1>1. CASE /\ buffer = "pkts" /\ buffer' = buffer /\ pkt_from_parser # << >>
           /\ pkt_from_parser' = Tail(pkt_from_parser)
  <2>1. /\ InLine' \subseteq InLine /\ Ordered(pkt_from_parser')
        /\ Range(pkt_from_parser') \subseteq Range(pkt_from_parser)
    BY <1>1, LineHead
  <2>2. Before(Range(pkt_from_parser'), Range(parser_to_buffer) \union Range(parsed))
    BY <2>1 DEF LineInOrder, Before
  <2> QED BY <1>1, <2>1, <2>2 DEF LineInOrder
<1>2. CASE /\ buffer' = buffer \/ pkt_from_parser = << >>
           /\ UNCHANGED pkt_from_parser
  BY <1>2 DEF LineInOrder, InLine
<1> QED BY <1>1, <1>2

LEMMA QueueRewritten ==
  ASSUME QueuesInOrder, NEW f \in Flow, NEW queue, Queues' = [Queues EXCEPT ![f] = queue],
         InLine' \subseteq InLine, UNCHANGED parser_seq,
         Ordered(queue), \A p \in Range(queue) : p.id = f /\ p.seq <= parser_seq,
         Before(Range(queue), InLine')
  PROVE  QueuesInOrder'
<1>1. ASSUME NEW g \in Flow
      PROVE  /\ Ordered(Queues'[g])
             /\ \A p \in Range(Queues'[g]) : p.id = g /\ p.seq <= parser_seq
             /\ Before(Range(Queues'[g]), InLine')
  <2>1. CASE g = f
    <3>1. Queues'[g] = queue
      BY <2>1 DEF Queues
    <3> QED BY <2>1, <3>1
  <2>2. CASE g # f
    <3>1. Queues'[g] = Queues[g]
      BY <2>2 DEF Queues
    <3>2. Before(Range(Queues[g]), InLine')
      BY DEF QueuesInOrder, Before
    <3> QED BY <3>1, <3>2 DEF QueuesInOrder
  <2> QED BY <2>1, <2>2
<1> QED BY <1>1 DEF QueuesInOrder

LEMMA ParsePacketInv ==
  ASSUME TypeInv, PacketInv, NEW f \in Flow, Parse(f)
  PROVE  PacketInv'
<1> DEFINE new == [id |-> f, seq |-> parser_seq + 1]
<1>1. /\ new \in Packets /\ parsed = << >> /\ parsed' = <<new>>
      /\ parser_seq' = parser_seq + 1 /\ parser_seq \in Nat
      /\ UNCHANGED <<parser_to_buffer, pkt_from_parser, buffer, Queues>>
  BY ParseFacts DEF TypeInv, bufferVars, Queues, Queue
<1>2. new.seq = parser_seq + 1
  OBVIOUS
<1> HIDE DEF new
<1>3. InLine' = InLine \union {new} /\ Range(parsed') = {new}
  <2>1. Range(<< >>) = {} /\ Range(<<new>>) = {new}
    BY DEF Range
  <2> QED BY <1>1, <2>1 DEF InLine
<1>4. \A p \in InLine : p.seq <= parser_seq + 1 /\ p.seq < new.seq
  <2>1. \A p \in InLine : p.seq \in Nat /\ p.seq <= parser_seq
    BY LineTypes DEF PacketInv, LineInOrder
  <2> QED BY <1>1, <1>2, <2>1
<1>5. \A g \in Flow : \A p \in Range(Queues[g]) : p.seq <= parser_seq + 1 /\ p.seq < new.seq
  <2>1. \A g \in Flow : \A p \in Range(Queues[g]) : p.seq \in Nat /\ p.seq <= parser_seq
    BY QueueTypes DEF PacketInv, QueuesInOrder, TypeInv, Packets, Seqs
  <2> QED BY <1>1, <1>2, <2>1
<1>6. LineInOrder'
  <2>1. Before(Range(pkt_from_parser), Range(parser_to_buffer) \union {new})
    BY <1>4 DEF PacketInv, LineInOrder, Before, InLine
  <2>2. Before(Range(parser_to_buffer), {new})
    BY <1>4 DEF Before, InLine
  <2>3. Head(<<new>>) = new /\ new.seq <= parser_seq + 1
    BY <1>1, <1>2
  <2> QED BY <1>1, <1>2, <1>3, <1>4, <2>1, <2>2, <2>3 DEF PacketInv, LineInOrder
<1>7. QueuesInOrder'
  <2>1. \A g \in Flow : Before(Range(Queues[g]), InLine \union {new})
    BY <1>5 DEF PacketInv, QueuesInOrder, Before
  <2> QED BY <1>1, <1>3, <1>5, <2>1 DEF PacketInv, QueuesInOrder
<1> QED BY <1>6, <1>7 DEF PacketInv

\* The packet joins the ring, or is freed.
LEMMA PassOnMoves ==
  ASSUME TypeInv, PacketInv, PassOn
  PROVE  /\ Head(parsed) \in InLine /\ Range(parsed) = {Head(parsed)} /\ Range(parsed') = {}
         /\ Range(parser_to_buffer) \subseteq Range(parser_to_buffer')
         /\ Range(parser_to_buffer') \subseteq Range(parser_to_buffer) \union {Head(parsed)}
         /\ Len(parser_to_buffer) < PktCap => Head(parsed) \in Range(parser_to_buffer')
         /\ ~(Len(parser_to_buffer) < PktCap) => parser_to_buffer' = parser_to_buffer
         /\ Ordered(parser_to_buffer')
         /\ UNCHANGED <<parser_seq, pkt_from_parser, buffer, Queues>>
<1> DEFINE p == Head(parsed)
<1>1. /\ p \in Packets /\ parsed # << >> /\ parsed' = << >>
      /\ parser_to_buffer' = Enqueue(parser_to_buffer, PktCap, p)
      /\ UNCHANGED <<parser_seq, pkt_from_parser, buffer, Queues>>
  BY PassOnFacts DEF TypeInv, bufferVars, Queues, Queue
<1>2. Range(parsed) = {p} /\ Range(parsed') = {}
  <2>1. parsed = <<p>>
    BY <1>1 DEF PacketInv, LineInOrder
  <2> HIDE DEF p
  <2>2. Range(<< >>) = {} /\ Range(<<p>>) = {p}
    BY DEF Range
  <2> QED BY <1>1, <2>1, <2>2
<1> HIDE DEF p
<1>3. Before(Range(parser_to_buffer), {p}) /\ Ordered(parser_to_buffer)
  BY <1>2 DEF PacketInv, LineInOrder
<1>4. parser_to_buffer \in Seq(Packets)
  BY DEF TypeInv, ParserTypes
<1> DEFINE t == Enqueue(parser_to_buffer, PktCap, p)
<1>5. /\ t \in Seq(Packets)
      /\ Range(parser_to_buffer) \subseteq Range(t)
      /\ Range(t) \subseteq Range(parser_to_buffer) \union {p}
      /\ Len(parser_to_buffer) < PktCap => Range(t) = Range(parser_to_buffer) \union {p}
      /\ ~(Len(parser_to_buffer) < PktCap) => t = parser_to_buffer
      /\ Ordered(parser_to_buffer) /\ Before(Range(parser_to_buffer), {p}) => Ordered(t)
  <2>1. p \in Packets
    BY <1>1
  <2>2. /\ t \in Seq(Packets)
        /\ Range(parser_to_buffer) \subseteq Range(t) /\ Range(t) \subseteq Range(parser_to_buffer) \union {p}
    BY <1>4, <2>1, EnqueueFacts
  <2>3. /\ Len(parser_to_buffer) < PktCap => Range(t) = Range(parser_to_buffer) \union {p}
        /\ ~(Len(parser_to_buffer) < PktCap) => t = parser_to_buffer
    BY <1>4, <2>1, EnqueueFacts
  <2>4. Ordered(parser_to_buffer) /\ Before(Range(parser_to_buffer), {p}) => Ordered(t)
    BY <1>4, <2>1, EnqueueFacts
  <2> QED BY <2>2, <2>3, <2>4
<1> QED BY <1>1, <1>2, <1>3, <1>5 DEF InLine, p

LEMMA PassOnPacketInv ==
  ASSUME TypeInv, PacketInv, PassOn
  PROVE  PacketInv'
<1>1. /\ Range(parsed) = {Head(parsed)} /\ Range(parsed') = {} /\ parsed' = << >>
      /\ Range(parser_to_buffer) \subseteq Range(parser_to_buffer')
      /\ Range(parser_to_buffer') \subseteq Range(parser_to_buffer) \union {Head(parsed)}
      /\ Ordered(parser_to_buffer')
      /\ UNCHANGED <<parser_seq, pkt_from_parser, buffer, Queues>>
  BY PassOnMoves DEF PassOn
<1>2. InLine' \subseteq InLine
  BY <1>1 DEF InLine
<1>3. Before(Range(pkt_from_parser), Range(parser_to_buffer'))
  BY <1>1 DEF PacketInv, LineInOrder, Before
<1>4. LineInOrder'
  <2>1. Before(Range(parser_to_buffer'), {})
    BY DEF Before
  <2> QED BY <1>1, <1>2, <1>3, <2>1 DEF PacketInv, LineInOrder
<1>5. QueuesInOrder'
  BY <1>1, <1>2 DEF PacketInv, QueuesInOrder, Before
<1> QED BY <1>4, <1>5 DEF PacketInv

LEMMA FetchPktsMoves ==
  ASSUME TypeInv, PacketInv, NEW n \in Taken(parser_to_buffer, PktFetch), FetchPkts(n)
  PROVE  /\ InLine' = InLine /\ UNCHANGED <<parser_seq, parsed, Queues>>
         /\ pkt_from_parser = << >> /\ buffer' = "pkts"
         /\ Range(parser_to_buffer) = Range(pkt_from_parser') \union Range(parser_to_buffer')
         /\ Ordered(pkt_from_parser') /\ Ordered(parser_to_buffer')
         /\ Before(Range(pkt_from_parser'), Range(parser_to_buffer'))
<1> DEFINE block == SubSeq(parser_to_buffer, 1, n)
           rest == Rest(parser_to_buffer, n)
<1>1. /\ buffer = "fetch" /\ buffer' = "pkts"
      /\ pkt_from_parser' = block /\ parser_to_buffer' = rest
      /\ UNCHANGED <<parser_seq, parsed, Queues>>
  BY DEF FetchPkts, Buf!FetchPkts, elseBuffer, parserVars, Queues, Queue
<1>2. /\ Range(parser_to_buffer) = Range(block) \union Range(rest)
      /\ Ordered(block) /\ Ordered(rest) /\ Before(Range(block), Range(rest))
  <2>1. parser_to_buffer \in Seq(Packets) /\ PktFetch \in Nat \ {0} /\ Ordered(parser_to_buffer)
    BY ImisAssumption DEF TypeInv, ParserTypes, PacketInv, LineInOrder
  <2> QED BY <2>1, BlockFacts
<1> HIDE DEF block, rest
<1>3. pkt_from_parser = << >> /\ Range(pkt_from_parser) = {}
  BY <1>1, EmptyFacts DEF PacketInv, LineInOrder
<1>4. InLine' = InLine
  BY <1>1, <1>2, <1>3 DEF InLine
<1> QED BY <1>1, <1>2, <1>3, <1>4

LEMMA FetchPktsPacketInv ==
  ASSUME TypeInv, PacketInv, NEW n \in Taken(parser_to_buffer, PktFetch), FetchPkts(n)
  PROVE  PacketInv'
<1>1. /\ InLine' = InLine /\ UNCHANGED <<parser_seq, parsed, Queues>> /\ buffer' = "pkts"
      /\ Range(parser_to_buffer) = Range(pkt_from_parser') \union Range(parser_to_buffer')
      /\ Ordered(pkt_from_parser') /\ Ordered(parser_to_buffer')
      /\ Before(Range(pkt_from_parser'), Range(parser_to_buffer'))
  BY FetchPktsMoves
<1>2. /\ Before(Range(pkt_from_parser'), Range(parser_to_buffer') \union Range(parsed))
      /\ Before(Range(parser_to_buffer'), Range(parsed))
  BY <1>1 DEF PacketInv, LineInOrder, Before
<1>3. LineInOrder'
  BY <1>1, <1>2 DEF PacketInv, LineInOrder
<1>4. QueuesInOrder'
  BY <1>1 DEF PacketInv, QueuesInOrder
<1> QED BY <1>3, <1>4 DEF PacketInv

\* What each step of the buffer does to the queues and to the line.

PktMoves == /\ pkt_from_parser # << >> /\ buffer = "pkts" /\ buffer' = buffer
            /\ pkt_from_parser' = Tail(pkt_from_parser)
            /\ UNCHANGED <<parser_to_buffer, parsed, parser_seq>>

LineStays == /\ UNCHANGED <<pkt_from_parser, parser_to_buffer, parsed, parser_seq>>
             /\ buffer' = buffer \/ pkt_from_parser = << >>

LEMMA PktJoins ==
  ASSUME TypeInv, HandlePkt, Buf!PktNewFlow \/ Buf!PktWait
  PROVE  /\ PktMoves /\ Buf!Pkt \in Packets /\ Buf!Pkt.id \in Flow /\ UNCHANGED leaving
         /\ Queues' = [Queues EXCEPT ![Buf!Pkt.id] = Append(Queues[Buf!Pkt.id], Buf!Pkt)]
<1> DEFINE f == Buf!Pkt.id
<1>0. BufferTypes
  BY DEF TypeInv
<1>1. PktMoves /\ Buf!Pkt \in Packets /\ f \in Flow /\ UNCHANGED leaving
  BY <1>0, PktFacts DEF HandlePkt, elseBuffer, parserVars, Buf!PktNewFlow, Buf!PktWait, PktMoves
<1>2. CASE Buf!PktNewFlow
  <2>1. Queues' = [Queues EXCEPT ![f] = <<Buf!Pkt>>]
    BY <1>0, <1>2, PktNewFlowRewrites, RewritesQueues
  <2>2. f \notin Known
    BY <1>2 DEF Buf!PktNewFlow, Buf!Known
  <2>3. Queues[f] = << >>
    BY <1>0, <1>1, <2>2, QueueTypes
  <2>4. Append(<< >>, Buf!Pkt) = <<Buf!Pkt>>
    OBVIOUS
  <2> QED BY <1>1, <2>1, <2>3, <2>4
<1>3. CASE Buf!PktWait
  <2>1. /\ f \in Known
        /\ Queues' = [Queues EXCEPT ![f] = Append(flow_buffer[f].queue, Buf!Pkt)]
    BY <1>0, <1>3, PktWaitRewrites, RewritesQueues
  <2>2. Queues[f] = flow_buffer[f].queue
    BY <1>0, <2>1, QueueTypes
  <2> QED BY <1>1, <2>1, <2>2
<1> QED BY <1>2, <1>3

LEMMA PktPasses ==
  ASSUME TypeInv, HandlePkt, Buf!PktPass
  PROVE  LET f == Buf!Pkt.id
             b == flow_buffer[f]
         IN /\ PktMoves /\ Buf!Pkt \in Packets /\ f \in Known /\ f \in Flow
            /\ Queues[f] = << >> /\ Buf!Pkt.seq <= b.analyzed
            /\ Buf!Send(Buf!Pkt, b.type, b.analyzed)
            /\ UNCHANGED <<flow_buffer, Queues, aborted>>
<1> DEFINE f == Buf!Pkt.id
           b == flow_buffer[f]
<1>0. BufferTypes
  BY DEF TypeInv
<1>1. PktMoves /\ Buf!Pkt \in Packets /\ f \in Flow
  BY <1>0, PktFacts DEF HandlePkt, elseBuffer, parserVars, Buf!PktPass, PktMoves
<1>2. /\ f \in Known /\ flow_buffer' = flow_buffer /\ aborted' = aborted
      /\ b.queue = << >> /\ Buf!Pkt.seq <= b.analyzed
      /\ Buf!Send(Buf!Pkt, b.type, b.analyzed)
  BY DEF Buf!PktPass, Buf!Known
<1>3. Queues[f] = << >>
  BY <1>0, <1>2, QueueTypes
<1>4. Queues' = Queues
  BY <1>2 DEF Queues, Queue
<1> QED BY <1>1, <1>2, <1>3, <1>4

LEMMA PktOverflows ==
  ASSUME TypeInv, HandlePkt, Buf!PktOverflow
  PROVE  LET f == Buf!Pkt.id IN
         /\ f \in Known /\ f \in Flow /\ Buf!Pkt \in Packets /\ Queues[f] # << >>
         /\ Buf!Send(Head(Queues[f]), 0, 0) /\ aborted' \in {0, 93}
         /\ \/ LineStays /\ Queues' = [Queues EXCEPT ![f] = Tail(Queues[f])]
            \/ PktMoves /\ Queues' = [Queues EXCEPT ![f] = Append(Tail(Queues[f]), Buf!Pkt)]
<1> DEFINE f == Buf!Pkt.id
           rest == Tail(flow_buffer[f].queue)
<1>0. BufferTypes
  BY DEF TypeInv
<1>1. Buf!Pkt \in Packets /\ f \in Flow
  BY <1>0, PktFacts DEF Buf!PktOverflow
<1>2. /\ f \in Known /\ flow_buffer[f].queue # << >>
      /\ Queues' = [Queues EXCEPT ![f] = IF Asserting THEN rest ELSE Append(rest, Buf!Pkt)]
  BY <1>0, PktOverflowRewrites, RewritesQueues
<1>3. Queues[f] = flow_buffer[f].queue
  BY <1>0, <1>2, QueueTypes
<1>4. Buf!Send(Head(flow_buffer[f].queue), 0, 0) /\ aborted' \in {0, 93}
  BY DEF Buf!PktOverflow, Buf!Handling
<1>5. CASE Asserting
  <2>1. LineStays
    BY <1>5 DEF Buf!PktOverflow, HandlePkt, elseBuffer, parserVars, LineStays
  <2> QED BY <1>1, <1>2, <1>3, <1>4, <1>5, <2>1
<1>6. CASE ~Asserting
  <2>1. PktMoves
    BY <1>6, <1>0, PktFacts DEF Buf!PktOverflow, HandlePkt, elseBuffer, parserVars, PktMoves
  <2> QED BY <1>1, <1>2, <1>3, <1>4, <1>6, <2>1
<1> QED BY <1>5, <1>6

LEMMA ResultMoves ==
  ASSUME TypeInv, PacketInv, Applying, ApplyResult, ~Buf!FlushPkt
  PROVE  LineStays /\ UNCHANGED <<Queues, leaving, aborted>>
<1>0. BufferTypes /\ result_from_analyzer # << >>
  BY ApplyResultTypes DEF TypeInv, ApplyResult
<1>1. /\ UNCHANGED <<pkt_from_parser, parser_to_buffer, parsed, parser_seq, leaving, aborted>>
      /\ pkt_from_parser = << >>
  BY DEF ApplyResult, Buf!ApplyResult, Buf!ResultNewFlow, Buf!ResultKnownFlow, Buf!FlushDone,
     elseBuffer, parserVars, PacketInv, LineInOrder
<1>2. Queues' = Queues
  <2> DEFINE f == Buf!Result.id
  <2>1. CASE Buf!ResultNewFlow
    <3>1. f \in Flow /\ f \notin Known /\ Queues' = [Queues EXCEPT ![f] = << >>]
      BY <1>0, <2>1, ResultNewFlowRewrites, RewritesQueues
    <3> HIDE DEF f
    <3>2. Queues[f] = << >>
      BY <1>0, <3>1, QueueTypes
    <3> QED BY <3>1, <3>2 DEF Queues
  <2>2. CASE Buf!ResultKnownFlow
    <3>1. f \in Flow /\ f \in Known /\ Queues' = [Queues EXCEPT ![f] = flow_buffer[f].queue]
      BY <1>0, <2>2, ResultKnownFlowRewrites, RewritesQueues
    <3> HIDE DEF f
    <3>2. Queues[f] = flow_buffer[f].queue
      BY <1>0, <3>1, QueueTypes
    <3> QED BY <3>1, <3>2 DEF Queues
  <2>3. CASE Buf!FlushDone
    BY <2>3 DEF Buf!FlushDone, Queues, Queue
  <2> QED BY <2>1, <2>2, <2>3 DEF ApplyResult, Buf!ApplyResult
<1> QED BY <1>1, <1>2 DEF LineStays

LEMMA FlushMoves ==
  ASSUME TypeInv, Applying, ApplyResult, Buf!FlushPkt
  PROVE  LET f == Buf!Result.id
             b == flow_buffer[f]
         IN /\ f \in Known /\ f \in Flow /\ LineStays /\ b.queue = Queues[f]
            /\ Queues[f] # << >> /\ Head(Queues[f]).seq <= b.analyzed
            /\ Queues' = [Queues EXCEPT ![f] = Tail(Queues[f])]
            /\ \/ aborted' = 184
               \/ UNCHANGED aborted /\ Buf!Send(Head(Queues[f]), b.type, b.analyzed)
<1> DEFINE f == Buf!Result.id
           b == flow_buffer[f]
<1>0. BufferTypes /\ result_from_analyzer # << >> /\ f \in Known
  BY DEF TypeInv, Applying, Buf!FlushPkt
<1>1. f \in Flow /\ b.queue = Queues[f]
  BY <1>0, QueueTypes
<1>2. /\ b.queue # << >> /\ Head(b.queue).seq <= b.analyzed
      /\ Queues' = [Queues EXCEPT ![f] = Tail(b.queue)]
  BY <1>0, FlushPktRewrites, RewritesQueues
<1>3. /\ LineStays
      /\ \/ aborted' = 184
         \/ UNCHANGED aborted /\ Buf!Send(Head(b.queue), b.type, b.analyzed)
  BY DEF ApplyResult, Buf!FlushPkt, elseBuffer, parserVars, LineStays
<1> HIDE DEF f, b
<1> QED BY <1>0, <1>1, <1>2, <1>3 DEF f, b

LEMMA HandlePktPacketInv ==
  ASSUME TypeInv, PacketInv, HandlePkt
  PROVE  PacketInv'
<1> DEFINE p == Buf!Pkt
           f == p.id
<1>0. LineInOrder /\ QueuesInOrder /\ BufferTypes
  BY DEF PacketInv, TypeInv
<1>1. ASSUME PktMoves
      PROVE  /\ LineInOrder' /\ InLine' \subseteq InLine /\ UNCHANGED parser_seq
             /\ p \in InLine /\ p.seq <= parser_seq
             /\ \A q \in InLine' : q.id = f => p.seq < q.seq
  BY <1>0, <1>1, LineShorter, LineHead DEF PktMoves, LineInOrder
<1>2. CASE Buf!PktNewFlow \/ Buf!PktWait
  <2>1. /\ PktMoves /\ p \in Packets /\ f \in Flow
        /\ Queues' = [Queues EXCEPT ![f] = Append(Queues[f], p)]
    BY <1>2, PktJoins
  <2> DEFINE queue == Append(Queues[f], p)
  <2>2. /\ Queues[f] \in Seq(Packets) /\ Ordered(Queues[f])
        /\ \A q \in Range(Queues[f]) : q.id = f /\ q.seq <= parser_seq
        /\ Before(Range(Queues[f]), InLine)
    BY <1>0, <2>1, QueueTypes DEF QueuesInOrder
  <2> HIDE DEF p
  <2>3. Before(Range(Queues[f]), {p}) /\ Before(Range(Queues[f]), InLine')
    BY <1>1, <2>1, <2>2 DEF Before
  <2>4. Range(queue) = Range(Queues[f]) \union {p} /\ Ordered(queue)
    BY <2>1, <2>2, <2>3, AppendFacts
  <2> HIDE DEF queue
  <2>5. \A q \in Range(queue) : q.id = f /\ q.seq <= parser_seq
    BY <1>1, <2>1, <2>2, <2>4
  <2>6. Before(Range(queue), InLine')
    BY <1>1, <2>1, <2>3, <2>4 DEF Before
  <2>7. QueuesInOrder'
    BY <1>0, <1>1, <2>1, <2>4, <2>5, <2>6, QueueRewritten DEF queue
  <2> QED BY <1>1, <2>1, <2>7 DEF PacketInv
<1>3. CASE Buf!PktPass
  <2>1. PktMoves /\ Queues' = Queues
    BY <1>3, PktPasses
  <2> QED BY <1>0, <1>1, <2>1 DEF PacketInv, QueuesInOrder, Before
<1>4. CASE Buf!PktOverflow
  <2>1. /\ f \in Flow /\ p \in Packets /\ Queues[f] # << >>
        /\ \/ LineStays /\ Queues' = [Queues EXCEPT ![f] = Tail(Queues[f])]
           \/ PktMoves /\ Queues' = [Queues EXCEPT ![f] = Append(Tail(Queues[f]), p)]
    BY <1>4, PktOverflows
  <2> DEFINE rest == Tail(Queues[f])
             queue == Append(rest, p)
  <2>2. /\ Ordered(rest) /\ rest \in Seq(Packets) /\ Range(rest) \subseteq Range(Queues[f])
        /\ \A q \in Range(rest) : q.id = f /\ q.seq <= parser_seq
        /\ Before(Range(rest), InLine)
    <3>1. /\ rest \in Seq(Packets) /\ Ordered(rest)
          /\ Range(Queues[f]) = {Head(Queues[f])} \union Range(rest)
      BY <1>0, <2>1, QueueHead
    <3>2. /\ \A q \in Range(Queues[f]) : q.id = f /\ q.seq <= parser_seq
          /\ Before(Range(Queues[f]), InLine)
      BY <1>0, <2>1 DEF QueuesInOrder
    <3> HIDE DEF rest
    <3> QED BY <3>1, <3>2 DEF Before
  <2>3. CASE LineStays /\ Queues' = [Queues EXCEPT ![f] = rest]
    <3>1. LineInOrder' /\ InLine' = InLine /\ UNCHANGED parser_seq
      BY <1>0, <2>3, LineShorter DEF LineStays, InLine
    <3>2. QueuesInOrder'
      BY <1>0, <2>1, <2>2, <2>3, <3>1, QueueRewritten
    <3> QED BY <3>1, <3>2 DEF PacketInv
  <2>4. CASE PktMoves /\ Queues' = [Queues EXCEPT ![f] = queue]
    <3> HIDE DEF rest, p
    <3>1. Before(Range(rest), {p}) /\ Before(Range(rest), InLine')
      BY <1>1, <2>2, <2>4 DEF Before
    <3>2. Range(queue) = Range(rest) \union {p} /\ Ordered(queue)
      BY <2>1, <2>2, <3>1, AppendFacts
    <3> HIDE DEF queue
    <3>3. \A q \in Range(queue) : q.id = f /\ q.seq <= parser_seq
      BY <1>1, <2>2, <2>4, <3>2
    <3>4. Before(Range(queue), InLine')
      BY <1>1, <2>4, <3>1, <3>2 DEF Before
    <3>5. QueuesInOrder'
      BY <1>0, <1>1, <2>1, <2>4, <3>2, <3>3, <3>4, QueueRewritten
    <3> QED BY <1>1, <2>4, <3>5 DEF PacketInv
  <2> QED BY <2>1, <2>3, <2>4
<1> QED BY <1>2, <1>3, <1>4 DEF HandlePkt, Buf!HandlePkt

LEMMA ApplyResultPacketInv ==
  ASSUME TypeInv, PacketInv, Applying, ApplyResult
  PROVE  PacketInv'
<1>0. LineInOrder /\ QueuesInOrder /\ BufferTypes
  BY DEF PacketInv, TypeInv
<1>1. LineStays
  BY ResultMoves, FlushMoves
<1>2. LineInOrder' /\ InLine' = InLine /\ UNCHANGED parser_seq
  BY <1>0, <1>1, LineShorter DEF LineStays, InLine
<1>3. CASE ~Buf!FlushPkt
  <2>1. Queues' = Queues
    BY <1>3, ResultMoves
  <2> QED BY <1>0, <1>2, <2>1 DEF PacketInv, QueuesInOrder
<1>4. CASE Buf!FlushPkt
  <2> DEFINE f == Buf!Result.id
             rest == Tail(Queues[f])
  <2>1. f \in Flow /\ Queues[f] # << >> /\ Queues' = [Queues EXCEPT ![f] = rest]
    BY <1>4, FlushMoves
  <2> HIDE DEF f
  <2>2. /\ Ordered(rest)
        /\ Range(Queues[f]) = {Head(Queues[f])} \union Range(rest)
    BY <1>0, <2>1, QueueHead
  <2>3. /\ \A q \in Range(Queues[f]) : q.id = f /\ q.seq <= parser_seq
        /\ Before(Range(Queues[f]), InLine)
    BY <1>0, <2>1 DEF QueuesInOrder
  <2> HIDE DEF rest
  <2>4. QueuesInOrder'
    <3>1. Before(Range(rest), InLine')
      BY <1>2, <2>2, <2>3 DEF Before
    <3>2. \A q \in Range(rest) : q.id = f /\ q.seq <= parser_seq
      BY <2>2, <2>3
    <3> QED BY <1>0, <1>2, <2>1, <2>2, <3>1, <3>2, QueueRewritten
  <2> QED BY <1>2, <2>4 DEF PacketInv
<1> QED BY <1>3, <1>4

LEMMA PacketInvKept == TypeInv /\ PacketInv /\ Applying /\ Next => PacketInv'
<1> SUFFICES ASSUME TypeInv, PacketInv, Applying, Next PROVE PacketInv'
  OBVIOUS
<1>1. ASSUME LineStays, Queues' = Queues PROVE PacketInv'
  BY <1>1 DEF PacketInv, LineInOrder, QueuesInOrder, LineStays, InLine
<1>2. ASSUME PoolStep \/ AnalyzerStep PROVE LineStays /\ Queues' = Queues
  BY <1>2, PoolFrame, AnalyzerFrame
     DEF elsePool, elseAnalyzer, parserVars, bufferVars, LineStays, Queues, Queue
<1>3. ASSUME NEW n \in Taken(analyzer_to_buffer, ResultFetch), FetchResults(n)
      PROVE  LineStays /\ Queues' = Queues
  BY <1>3 DEF FetchResults, Buf!FetchResults, elseBuffer, parserVars, LineStays, Queues, Queue
<1> QED BY <1>1, <1>2, <1>3, ParsePacketInv, PassOnPacketInv, FetchPktsPacketInv,
           HandlePktPacketInv, ApplyResultPacketInv DEF Next, BufferStep
-----------------------------------------------------------------------------
(* The results of a flow become ever newer on their way to its buffer.     *)

\* The batch the analyzer has been given, without what it has answered.
Answering == \/ hand \in {"num", "answer", "signal"}
             \/ (ready_for_analyzer = TRUE /\ analyzer = "wait")
             \/ analyzer = "infer"
Pending == IF Answering THEN Rest(input_item_c, emitted) ELSE << >>

\* The results the buffer has fetched, without the one whose flow it flushes.
ToApply == IF buffer = "flush" THEN Tail(result_from_analyzer) ELSE result_from_analyzer

Ahead == Range(ToApply) \union Range(analyzer_to_buffer)
           \union Range(Pending) \union Range(input_item)

\* What the pool can at most have said of flow f.
Bound == [f \in Flow |->
  IF f \notin Recorded THEN 0
  ELSE IF flow_record[f].closed THEN flow_record[f].seq + Mark
  ELSE IF flow_record[f].paused THEN flow_record[f].seq ELSE flow_record[f].seq - 1]

\* As of which packet the buffer knows flow f.
Analyzed == [f \in Flow |-> IF f \in Known THEN flow_buffer[f].analyzed ELSE 0]

LinesOfResults ==
  /\ Ordered(ToApply) /\ Ordered(analyzer_to_buffer)
  /\ Ordered(Pending) /\ Ordered(input_item)
  /\ Before(Range(ToApply),
            Range(analyzer_to_buffer) \union Range(Pending) \union Range(input_item))
  /\ Before(Range(analyzer_to_buffer), Range(Pending) \union Range(input_item))
  /\ Before(Range(Pending), Range(input_item))

ResultsInOrder ==
  /\ LinesOfResults
  /\ \A x \in Ahead : Analyzed[x.id] < x.seq /\ x.seq <= Bound[x.id]
  /\ \A f \in Flow : Analyzed[f] <= Bound[f]

ResultTypes == /\ ToApply \in Seq(Results) /\ analyzer_to_buffer \in Seq(Results)
               /\ Pending \in Seq(Items) /\ input_item \in Seq(Items)

NumbersAreNat == \A f \in Flow : Bound[f] \in Nat /\ Analyzed[f] \in Nat

LEMMA NumberTypes == TypeInv => NumbersAreNat
<1> SUFFICES ASSUME TypeInv, NEW f \in Flow PROVE Bound[f] \in Nat /\ Analyzed[f] \in Nat
  BY DEF NumbersAreNat
<1>1. Mark \in Nat
  BY ImisAssumption
<1>2. f \in Recorded => flow_record[f].seq \in Nat \ {0}
  BY RecordTypes DEF TypeInv, Seqs
<1>3. f \in Known => flow_buffer[f].analyzed \in Nat
  BY BufferRecordTypes DEF TypeInv
<1>4. Analyzed[f] \in Nat
  BY <1>3 DEF Analyzed
<1>5. Bound[f] \in Nat
  BY <1>1, <1>2 DEF Bound
<1> QED BY <1>4, <1>5

LEMMA ResultTypesHold ==
  ASSUME TypeInv, Applying, emitted <= Len(input_item_c)
  PROVE  /\ ResultTypes
         /\ \A x \in Ahead : x.id \in Flow /\ x.seq \in Nat
<1>1. /\ result_from_analyzer \in Seq(Results) /\ analyzer_to_buffer \in Seq(Results)
      /\ input_item_c \in Seq(Items) /\ input_item \in Seq(Items) /\ emitted \in Nat
  BY DEF TypeInv, BufferTypes, AnalyzerTypes, PoolTypes
<1>2. ToApply \in Seq(Results)
  BY <1>1, TailFacts DEF ToApply, Applying
<1>3. Pending \in Seq(Items)
  <2>1. emitted \in 0 .. Len(input_item_c)
    BY <1>1
  <2>2. Rest(input_item_c, emitted) \in Seq(Items)
    BY <1>1, <2>1, SplitFacts
  <2>3. << >> \in Seq(Items)
    OBVIOUS
  <2> QED BY <2>2, <2>3 DEF Pending
<1>4. \A x \in Ahead : x \in Results \/ x \in Items
  <2>1. /\ Range(ToApply) \subseteq Results /\ Range(analyzer_to_buffer) \subseteq Results
        /\ Range(Pending) \subseteq Items /\ Range(input_item) \subseteq Items
    BY <1>1, <1>2, <1>3, RangeMember
  <2> QED BY <2>1 DEF Ahead
<1>5. \A x \in Ahead : x.id \in Flow /\ x.seq \in Nat
  BY <1>4 DEF Results, Items
<1> QED BY <1>1, <1>2, <1>3, <1>5 DEF ResultTypes

\* The analyzer has answered at most the batch it was given.
BatchInv == emitted <= Len(input_item_c)

LEMMA BatchInvKept == TypeInv /\ ExchangeInv /\ BatchInv /\ Next => BatchInv'
<1> SUFFICES ASSUME TypeInv, ExchangeInv, BatchInv, Next PROVE BatchInv'
  OBVIOUS
<1>1. emitted \in Nat /\ Len(input_item_c) \in Nat /\ Len(input_item) \in Nat
  BY DEF TypeInv, AnalyzerTypes, PoolTypes
<1>2. ASSUME UNCHANGED <<input_item_c, emitted>> PROVE BatchInv'
  BY <1>2 DEF BatchInv
<1>3. ASSUME (\E f \in Flow : Parse(f)) \/ PassOn \/ BufferStep
      PROVE  UNCHANGED <<input_item_c, emitted>>
  BY <1>3, BufferFrame DEF Parse, PassOn, elseBuffer, handVars
<1>4. CASE PoolStep /\ ~OutPoolEnd
  BY <1>2, <1>4 DEF PoolStep, FetchMetadata, InPool, OutPoolBegin, OutPoolFlow, Answer,
     handVars, Hand!EnterOutPool, Hand!StoreNum, Hand!ClearCall, Hand!SetReady, Hand!inputVars
<1>5. CASE OutPoolEnd
  <2>1. input_item_c' = input_item /\ emitted' = emitted /\ hand = "out"
    BY <1>5 DEF OutPoolEnd, Hand!StoreItems
  <2>2. emitted = 0
    BY <2>1 DEF ExchangeInv
  <2> QED BY <1>1, <2>1, <2>2 DEF BatchInv
<1>6. CASE Ask
  <2>1. UNCHANGED input_item_c /\ emitted' \in {emitted, 0}
    BY <1>6 DEF Ask, Hand!ResetReady, Hand!Call, Hand!WakeUp, Hand!EndInference, Hand!inputVars
  <2> QED BY <1>1, <2>1 DEF BatchInv
<1>7. ASSUME NEW type \in PktType, EmitResult(type) PROVE BatchInv'
  <2>1. /\ emitted \in 0 .. Len(input_item_c) - 1 /\ emitted' = emitted + 1
        /\ UNCHANGED input_item_c
    BY <1>7, EmitFacts DEF TypeInv
  <2> QED BY <1>1, <2>1 DEF BatchInv
<1> QED BY <1>3, <1>2, <1>4, <1>5, <1>6, <1>7 DEF Next, AnalyzerStep

\* If what is ahead was ahead before, only the order has to be looked at.
LEMMA AheadShrinks ==
  ASSUME TypeInv, TypeInv', Applying, BatchInv, ResultsInOrder, LinesOfResults',
         \A x \in Ahead' : \E y \in Ahead : y.id = x.id /\ y.seq = x.seq,
         UNCHANGED Analyzed, \A f \in Flow : Bound[f] <= Bound'[f]
  PROVE  ResultsInOrder'
<1>1. \A f \in Flow : Bound[f] \in Nat /\ Analyzed[f] \in Nat /\ Bound'[f] \in Nat
  <2>1. NumbersAreNat /\ NumbersAreNat'
    BY NumberTypes, PTL
  <2> QED BY <2>1 DEF NumbersAreNat
<1>2. \A f \in Flow : Analyzed'[f] <= Bound'[f]
  <2>1. ASSUME NEW f \in Flow PROVE Analyzed'[f] <= Bound'[f]
    <3>1. Analyzed[f] <= Bound[f] /\ Bound[f] <= Bound'[f]
      BY DEF ResultsInOrder
    <3>2. Bound[f] \in Nat /\ Analyzed[f] \in Nat /\ Bound'[f] \in Nat
      BY <1>1
    <3> QED BY <3>1, <3>2
  <2> QED BY <2>1
<1>3. ASSUME NEW x \in Ahead' PROVE Analyzed'[x.id] < x.seq /\ x.seq <= Bound'[x.id]
  <2>1. PICK y \in Ahead : y.id = x.id /\ y.seq = x.seq
    OBVIOUS
  <2>2. y.id \in Flow /\ y.seq \in Nat
    BY ResultTypesHold DEF BatchInv
  <2>3. Analyzed[x.id] < x.seq /\ x.seq <= Bound[x.id] /\ Bound[x.id] <= Bound'[x.id]
    BY <2>1, <2>2 DEF ResultsInOrder
  <2>4. x.seq \in Nat /\ Bound[x.id] \in Nat /\ Bound'[x.id] \in Nat
    BY <1>1, <2>1, <2>2
  <2> QED BY <2>3, <2>4
<1> QED BY <1>2, <1>3 DEF ResultsInOrder

LEMMA ResultsStay ==
  ASSUME TypeInv, TypeInv', Applying, BatchInv, ResultsInOrder,
         UNCHANGED <<ToApply, analyzer_to_buffer, Pending, input_item, Analyzed>>,
         \A f \in Flow : Bound[f] <= Bound'[f]
  PROVE  ResultsInOrder'
<1>1. LinesOfResults'
  BY DEF ResultsInOrder, LinesOfResults
<1>2. Ahead' = Ahead
  BY DEF Ahead
<1> QED BY <1>1, <1>2, AheadShrinks

\* Nothing of the pool's records changes.
LEMMA BoundStays ==
  ASSUME TypeInv, UNCHANGED flow_record
  PROVE  \A f \in Flow : Bound[f] <= Bound'[f]
<1>1. Bound' = Bound
  BY DEF Bound
<1>2. \A f \in Flow : Bound[f] \in Nat
  BY NumberTypes DEF NumbersAreNat
<1>3. \A f \in Flow : Bound[f] <= Bound[f]
  BY <1>2
<1> QED BY <1>1, <1>3

\* Metadata taken in raise what the pool can say of their flow.
LEMMA InPoolBound ==
  ASSUME TypeInv, MetadataInv, InPool
  PROVE  \A f \in Flow : Bound[f] <= Bound'[f]
<1> DEFINE m == Head(metadata_from_parser)
<1>1. /\ m \in Packets /\ metadata_from_parser # << >>
      /\ \/ UNCHANGED flow_record
         \/ /\ m.id \in Recorded => ~flow_record[m.id].closed
            /\ Recorded' = Recorded \union {m.id}
            /\ flow_record'[m.id].seq = m.seq
            /\ ~flow_record'[m.id].closed /\ ~flow_record'[m.id].paused
            /\ \A g \in Recorded \ {m.id} : flow_record'[g] = flow_record[g]
  BY InPoolFacts DEF InPool, TypeInv
<1>2. CASE UNCHANGED flow_record
  BY <1>2, BoundStays
<1>3. CASE /\ m.id \in Recorded => ~flow_record[m.id].closed
           /\ Recorded' = Recorded \union {m.id}
           /\ flow_record'[m.id].seq = m.seq
           /\ ~flow_record'[m.id].closed /\ ~flow_record'[m.id].paused
           /\ \A g \in Recorded \ {m.id} : flow_record'[g] = flow_record[g]
  <2>1. m \in Unpooled
    <3>1. metadata_from_parser \in Seq(Packets)
      BY DEF TypeInv, PoolTypes
    <3>2. m \in Range(metadata_from_parser)
      BY <1>1, <3>1, TailFacts
    <3> QED BY <3>2 DEF Unpooled
  <2> HIDE DEF m
  <2>2. m.id \in Flow /\ m.seq \in Nat \ {0}
    BY <1>1 DEF Packets, Seqs
  <2>3. m.id \in Recorded => flow_record[m.id].seq < m.seq /\ flow_record[m.id].seq \in Nat
    BY <2>1, RecordTypes DEF MetadataInv, MetadataInOrder, TypeInv, Seqs
  <2>4. Bound'[m.id] = m.seq - 1
    BY <1>3, <2>2 DEF Bound
  <2>5. Bound[m.id] <= m.seq - 1
    <3>1. CASE m.id \notin Recorded
      BY <2>2, <3>1 DEF Bound
    <3>2. CASE m.id \in Recorded
      <4>1. Bound[m.id] = IF flow_record[m.id].paused THEN flow_record[m.id].seq
                          ELSE flow_record[m.id].seq - 1
        BY <1>3, <2>2, <3>2 DEF Bound
      <4> QED BY <2>2, <2>3, <3>2, <4>1
    <3> QED BY <3>1, <3>2
  <2>6. \A g \in Flow \ {m.id} : Bound'[g] = Bound[g]
    BY <1>3 DEF Bound
  <2>7. \A g \in Flow : Bound[g] \in Nat
    BY NumberTypes DEF NumbersAreNat
  <2> QED BY <2>4, <2>5, <2>6, <2>7
<1> QED BY <1>1, <1>2, <1>3

\* A flow that is handed over is ahead of all that was said of it.
LEMMA OutPoolFlowResults ==
  ASSUME TypeInv, TypeInv', MetadataInv, Applying, ExchangeInv, BatchInv, ResultsInOrder,
         OutPoolFlow
  PROVE  ResultsInOrder'
<1> DEFINE f == Pool!Top[2]
           r == flow_record[f]
<1>1. /\ f \in Recorded /\ Recorded' = Recorded
      /\ \A g \in Recorded \ {f} : flow_record'[g] = flow_record[g]
      /\ flow_record'[f].seq = r.seq
  BY OutPoolFlowFacts DEF TypeInv, MetadataInv, OutPoolFlow
<1>2. PICK item \in Items :
        /\ input_item' = Append(input_item, item) /\ item.id = f
        /\ \/ /\ item.seq = r.seq + Mark
              /\ flow_record'[f].closed
           \/ /\ item.seq = r.seq
              /\ ~flow_record'[f].closed /\ flow_record'[f].paused
  BY OutPoolFlowFacts DEF TypeInv, MetadataInv, OutPoolFlow
<1>3. ~r.closed /\ ~r.paused
  <2>1. flow_priority # {}
    BY DEF OutPoolFlow, Pool!OutPoolFlow
  <2> QED BY <2>1, TopFacts DEF TypeInv, MetadataInv
<1>4. UNCHANGED <<ToApply, analyzer_to_buffer, Pending, Analyzed>>
  BY DEF OutPoolFlow, elsePool, bufferVars, handVars, flagVars, ToApply, Pending, Answering, Analyzed
<1> HIDE DEF f
<1>5. f \in Flow /\ r.seq \in Nat \ {0} /\ Mark \in Nat
  BY <1>1, RecordTypes, ImisAssumption DEF TypeInv, Seqs
<1>6. Bound[f] = r.seq - 1
  BY <1>1, <1>3, <1>5 DEF Bound
<1>7. Bound'[f] = item.seq
  BY <1>1, <1>2, <1>5 DEF Bound
<1>8. item.seq \in Nat /\ Bound[f] < item.seq
  BY <1>2, <1>5, <1>6
<1>9. \A g \in Flow \ {f} : Bound'[g] = Bound[g]
  BY <1>1 DEF Bound
<1>10. \A g \in Flow : Bound[g] \in Nat /\ Analyzed[g] \in Nat /\ Analyzed[g] <= Bound[g]
  BY NumberTypes DEF NumbersAreNat, ResultsInOrder
<1>11. \A x \in Ahead : /\ x.id \in Flow /\ x.seq \in Nat
                        /\ Analyzed[x.id] < x.seq /\ x.seq <= Bound[x.id]
  BY ResultTypesHold DEF BatchInv, ResultsInOrder
<1>12. \A x \in Ahead : x.id = f => x.seq < item.seq
  <2>1. ASSUME NEW x \in Ahead, x.id = f PROVE x.seq < item.seq
    <3>1. x.seq \in Nat /\ x.seq <= Bound[f] /\ Bound[f] \in Nat
      BY <1>5, <1>10, <1>11, <2>1
    <3> QED BY <1>8, <3>1
  <2> QED BY <2>1
<1>13. /\ Range(input_item') = Range(input_item) \union {item}
       /\ Ordered(input_item')
  <2>1. input_item \in Seq(Items) /\ Ordered(input_item)
    BY DEF TypeInv, PoolTypes, ResultsInOrder, LinesOfResults
  <2>2. Before(Range(input_item), {item})
    BY <1>2, <1>12 DEF Before, Ahead
  <2> QED BY <1>2, <2>1, <2>2, AppendFacts
<1>14. Ahead' = Ahead \union {item}
  BY <1>4, <1>13 DEF Ahead
<1>15. LinesOfResults'
  <2>1. \A x \in Range(ToApply) \union Range(analyzer_to_buffer) \union Range(Pending) :
          x.id = item.id => x.seq < item.seq
    BY <1>2, <1>12 DEF Ahead
  <2>2. Before(Range(ToApply), Range(analyzer_to_buffer) \union Range(Pending) \union Range(input_item'))
    BY <1>13, <2>1 DEF ResultsInOrder, LinesOfResults, Before
  <2>3. Before(Range(analyzer_to_buffer), Range(Pending) \union Range(input_item'))
    BY <1>13, <2>1 DEF ResultsInOrder, LinesOfResults, Before
  <2>4. Before(Range(Pending), Range(input_item'))
    BY <1>13, <2>1 DEF ResultsInOrder, LinesOfResults, Before
  <2> QED BY <1>4, <1>13, <2>2, <2>3, <2>4 DEF ResultsInOrder, LinesOfResults
<1>16. \A g \in Flow : Bound[g] <= Bound'[g]
  BY <1>7, <1>8, <1>9, <1>10
<1>17. \A g \in Flow : Analyzed'[g] <= Bound'[g]
  <2>1. ASSUME NEW g \in Flow PROVE Analyzed'[g] <= Bound'[g]
    <3>1. /\ Analyzed[g] \in Nat /\ Bound[g] \in Nat /\ Analyzed[g] <= Bound[g]
          /\ Bound[g] <= Bound'[g] /\ Bound'[g] \in Nat
      BY <1>7, <1>8, <1>9, <1>10, <1>16
    <3> QED BY <1>4, <3>1
  <2> QED BY <2>1
<1>18. \A x \in Ahead' : Analyzed'[x.id] < x.seq /\ x.seq <= Bound'[x.id]
  <2>1. ASSUME NEW x \in Ahead PROVE Analyzed'[x.id] < x.seq /\ x.seq <= Bound'[x.id]
    <3>1. /\ x.id \in Flow /\ x.seq \in Nat
          /\ Analyzed[x.id] < x.seq /\ x.seq <= Bound[x.id]
      BY <1>11
    <3>2. Bound[x.id] <= Bound'[x.id] /\ Bound[x.id] \in Nat /\ Bound'[x.id] \in Nat
      BY <1>7, <1>8, <1>9, <1>10, <1>16, <3>1
    <3> QED BY <1>4, <3>1, <3>2
  <2>2. Analyzed'[item.id] < item.seq /\ item.seq <= Bound'[item.id]
    <3>1. Analyzed[f] \in Nat /\ Bound[f] \in Nat /\ Analyzed[f] <= Bound[f]
      BY <1>5, <1>10
    <3> QED BY <1>2, <1>4, <1>7, <1>8, <3>1
  <2> QED BY <1>14, <2>1, <2>2
<1> QED BY <1>15, <1>17, <1>18 DEF ResultsInOrder

\* The batch that was built becomes the one the analyzer is given.
LEMMA OutPoolEndMoves ==
  ASSUME TypeInv, ExchangeInv, OutPoolEnd
  PROVE  /\ Pending' = input_item /\ input_item' = << >>
         /\ UNCHANGED <<ToApply, analyzer_to_buffer, Analyzed, flow_record>>
<1>1. /\ input_item_c' = input_item /\ input_item' = << >> /\ hand = "out" /\ hand' = "num"
      /\ UNCHANGED <<ToApply, analyzer_to_buffer, Analyzed, flow_record, emitted>>
  BY DEF OutPoolEnd, Pool!OutPoolEnd, Hand!StoreItems, elsePool, bufferVars, ToApply, Analyzed
<1>2. Pending' = input_item
  <2>1. emitted = 0 /\ Answering'
    BY <1>1 DEF ExchangeInv, Answering
  <2>2. Rest(input_item, 0) = input_item
    BY RestStep DEF TypeInv, PoolTypes
  <2> QED BY <1>1, <2>1, <2>2 DEF Pending, Rest
<1> QED BY <1>1, <1>2

LEMMA OutPoolEndResults ==
  ASSUME TypeInv, TypeInv', Applying, ExchangeInv, BatchInv, ResultsInOrder, OutPoolEnd
  PROVE  ResultsInOrder'
<1>1. /\ Pending' = input_item /\ input_item' = << >>
      /\ UNCHANGED <<ToApply, analyzer_to_buffer, Analyzed, flow_record>>
  BY OutPoolEndMoves
<1>2. Range(<< >>) = {} /\ Ordered(<< >>)
  BY EmptyFacts
<1>3. /\ Ahead' \subseteq Ahead
      /\ Range(Pending') = Range(input_item) /\ Range(input_item') = {}
  BY <1>1, <1>2 DEF Ahead
<1>4. LinesOfResults'
  BY <1>1, <1>2, <1>3 DEF ResultsInOrder, LinesOfResults, Before
<1>5. \A f \in Flow : Bound[f] <= Bound'[f]
  BY <1>1, BoundStays
<1> QED BY <1>1, <1>3, <1>4, <1>5, AheadShrinks

\* The exchange of flags does not touch the batch.
LEMMA AnswerPending ==
  ASSUME TypeInv, ExchangeInv, OutPoolBegin \/ Answer
  PROVE  UNCHANGED Pending
<1>1. CASE OutPoolBegin
  <2>1. UNCHANGED <<input_item_c, emitted>> /\ Answering' = Answering
    BY <1>1 DEF OutPoolBegin, Hand!EnterOutPool, Hand!flagVars, Hand!inputVars, handVars,
       flagVars, ExchangeInv, Answering
  <2> QED BY <2>1 DEF Pending
<1>2. CASE Answer
  <2>1. UNCHANGED <<input_item_c, emitted>> /\ Answering /\ Answering'
    BY <1>2 DEF Answer, Hand!StoreNum, Hand!ClearCall, Hand!SetReady, Hand!flagVars,
       Hand!inputVars, ExchangeInv, Answering
  <2> QED BY <2>1 DEF Pending
<1> QED BY <1>1, <1>2

LEMMA AskMoves ==
  ASSUME ExchangeInv, Ask
  PROVE  /\ UNCHANGED <<ToApply, analyzer_to_buffer, input_item, Analyzed, flow_record>>
         /\ Pending' \in {Pending, << >>}
<1>1. UNCHANGED <<ToApply, analyzer_to_buffer, input_item, Analyzed, flow_record, input_item_c>>
  BY DEF Ask, Hand!ResetReady, Hand!Call, Hand!WakeUp, Hand!EndInference, Hand!inputVars,
     elseAnalyzer, poolVars, bufferVars, ToApply, Analyzed
<1>2. CASE Hand!ResetReady \/ Hand!Call
  <2>1. ~Answering /\ ~Answering'
    BY <1>2 DEF Hand!ResetReady, Hand!Call, Hand!flagVars, ExchangeInv, Answering
  <2> QED BY <1>1, <2>1 DEF Pending
<1>3. CASE Hand!WakeUp
  <2>1. Answering /\ Answering' /\ emitted = 0 /\ emitted' = 0
    BY <1>3 DEF Hand!WakeUp, Hand!flagVars, ExchangeInv, Answering
  <2> QED BY <1>1, <2>1 DEF Pending
<1>4. CASE Hand!EndInference
  <2>1. ~Answering'
    BY <1>4 DEF Hand!EndInference, Hand!flagVars, ExchangeInv, Answering
  <2> QED BY <1>1, <2>1 DEF Pending
<1> QED BY <1>1, <1>2, <1>3, <1>4 DEF Ask

LEMMA AskResults ==
  ASSUME TypeInv, TypeInv', Applying, ExchangeInv, BatchInv, ResultsInOrder, Ask
  PROVE  ResultsInOrder'
<1>1. /\ UNCHANGED <<ToApply, analyzer_to_buffer, input_item, Analyzed, flow_record>>
      /\ Pending' \in {Pending, << >>}
  BY AskMoves
<1>2. Range(<< >>) = {} /\ Ordered(<< >>)
  BY EmptyFacts
<1>3. LinesOfResults'
  BY <1>1, <1>2 DEF ResultsInOrder, LinesOfResults, Before
<1>4. Ahead' \subseteq Ahead
  BY <1>1, <1>2 DEF Ahead
<1>5. \A f \in Flow : Bound[f] <= Bound'[f]
  BY <1>1, BoundStays
<1> QED BY <1>1, <1>3, <1>4, <1>5, AheadShrinks

\* The next item of the batch becomes a result, or is lost.
LEMMA EmitMoves ==
  ASSUME TypeInv, ExchangeInv, NEW type \in PktType, EmitResult(type)
  PROVE  LET item == input_item_c[emitted + 1]
             result == [id |-> item.id, seq |-> item.seq, type |-> type, times |-> item.times]
         IN
         /\ Pending # << >> /\ item = Head(Pending) /\ Pending' = Tail(Pending)
         /\ result \in Results /\ result.id = item.id /\ result.seq = item.seq
         /\ analyzer_to_buffer' = Enqueue(analyzer_to_buffer, ResultCap, result)
         /\ UNCHANGED <<ToApply, input_item, Analyzed, flow_record>>
<1> DEFINE item == input_item_c[emitted + 1]
           result == [id |-> item.id, seq |-> item.seq, type |-> type, times |-> item.times]
<1>1. /\ result \in Results /\ analyzer = "infer" /\ emitted \in 0 .. Len(input_item_c) - 1
      /\ emitted' = emitted + 1
      /\ analyzer_to_buffer' = Enqueue(analyzer_to_buffer, ResultCap, result)
      /\ UNCHANGED <<elseAnalyzer, flagVars, input_item_c, hand, analyzer>>
  BY EmitFacts DEF TypeInv
<1>2. result.id = item.id /\ result.seq = item.seq
  OBVIOUS
<1> HIDE DEF result
<1>3. Answering /\ Answering'
  BY <1>1 DEF Answering
<1>4. /\ Rest(input_item_c, emitted) # << >>
      /\ Head(Rest(input_item_c, emitted)) = item
      /\ Tail(Rest(input_item_c, emitted)) = Rest(input_item_c, emitted + 1)
  <2>1. input_item_c \in Seq(Items)
    BY DEF TypeInv, AnalyzerTypes
  <2> QED BY <1>1, <2>1, RestStep
<1>5. Pending = Rest(input_item_c, emitted) /\ Pending' = Rest(input_item_c, emitted + 1)
  BY <1>1, <1>3 DEF Pending, Rest
<1>6. UNCHANGED <<ToApply, input_item, Analyzed, flow_record>>
  BY <1>1 DEF elseAnalyzer, poolVars, bufferVars, ToApply, Analyzed
<1> HIDE DEF item
<1> QED BY <1>1, <1>2, <1>4, <1>5, <1>6 DEF item, result

LEMMA EmitResults ==
  ASSUME TypeInv, TypeInv', Applying, ExchangeInv, BatchInv, ResultsInOrder,
         NEW type \in PktType, EmitResult(type)
  PROVE  ResultsInOrder'
<1> DEFINE item == input_item_c[emitted + 1]
           result == [id |-> item.id, seq |-> item.seq, type |-> type, times |-> item.times]
           ring == Enqueue(analyzer_to_buffer, ResultCap, result)
<1>1. /\ Pending # << >> /\ item = Head(Pending) /\ Pending' = Tail(Pending)
      /\ result \in Results /\ result.id = item.id /\ result.seq = item.seq
      /\ analyzer_to_buffer' = ring
      /\ UNCHANGED <<ToApply, input_item, Analyzed, flow_record>>
  BY EmitMoves
<1> HIDE DEF item, result
<1>2. Pending \in Seq(Items) /\ analyzer_to_buffer \in Seq(Results)
  BY ResultTypesHold DEF BatchInv, ResultTypes
<1>3. /\ Range(Pending) = {item} \union Range(Pending')
      /\ Ordered(Pending') /\ Before({item}, Range(Pending'))
  BY <1>1, <1>2, TailFacts DEF ResultsInOrder, LinesOfResults
<1>4. Before(Range(analyzer_to_buffer), {result}) /\ Ordered(analyzer_to_buffer)
  BY <1>1, <1>3 DEF ResultsInOrder, LinesOfResults, Before
<1>5. /\ Range(ring) \subseteq Range(analyzer_to_buffer) \union {result}
      /\ Ordered(ring)
  BY <1>1, <1>2, <1>4, EnqueueFacts
<1> HIDE DEF ring
<1>6. LinesOfResults'
  <2>1. Before(Range(ToApply), Range(ring) \union Range(Pending') \union Range(input_item))
    BY <1>1, <1>3, <1>5 DEF ResultsInOrder, LinesOfResults, Before
  <2>2. Before(Range(ring), Range(Pending') \union Range(input_item))
    BY <1>1, <1>3, <1>5 DEF ResultsInOrder, LinesOfResults, Before
  <2>3. Before(Range(Pending'), Range(input_item))
    BY <1>3 DEF ResultsInOrder, LinesOfResults, Before
  <2> QED BY <1>1, <1>3, <1>5, <2>1, <2>2, <2>3 DEF ResultsInOrder, LinesOfResults
<1>7. \A x \in Ahead' : \E y \in Ahead : y.id = x.id /\ y.seq = x.seq
  BY <1>1, <1>3, <1>5 DEF Ahead
<1>8. \A f \in Flow : Bound[f] <= Bound'[f]
  BY <1>1, BoundStays
<1> QED BY <1>1, <1>6, <1>7, <1>8, AheadShrinks

LEMMA FetchResultsResults ==
  ASSUME TypeInv, TypeInv', Applying, BatchInv, ResultsInOrder,
         NEW n \in Taken(analyzer_to_buffer, ResultFetch), FetchResults(n)
  PROVE  ResultsInOrder'
<1> DEFINE block == SubSeq(analyzer_to_buffer, 1, n)
           rest == Rest(analyzer_to_buffer, n)
<1>1. /\ ToApply' = block /\ analyzer_to_buffer' = rest
      /\ UNCHANGED <<Pending, input_item, Analyzed, flow_record>>
  BY DEF FetchResults, Buf!FetchResults, elseBuffer, poolVars, handVars, flagVars, ToApply,
     Pending, Answering, Analyzed
<1>2. /\ Range(analyzer_to_buffer) = Range(block) \union Range(rest)
      /\ Ordered(block) /\ Ordered(rest) /\ Before(Range(block), Range(rest))
  <2>1. analyzer_to_buffer \in Seq(Results) /\ ResultFetch \in Nat \ {0}
        /\ Ordered(analyzer_to_buffer)
    BY ImisAssumption DEF TypeInv, AnalyzerTypes, ResultsInOrder, LinesOfResults
  <2> QED BY <2>1, BlockFacts
<1> HIDE DEF block, rest
<1>3. LinesOfResults'
  <2>1. Before(Range(block), Range(rest) \union Range(Pending) \union Range(input_item))
    BY <1>2 DEF ResultsInOrder, LinesOfResults, Before
  <2>2. Before(Range(rest), Range(Pending) \union Range(input_item))
    BY <1>2 DEF ResultsInOrder, LinesOfResults, Before
  <2> QED BY <1>1, <1>2, <2>1, <2>2 DEF ResultsInOrder, LinesOfResults
<1>4. Ahead' \subseteq Ahead
  BY <1>1, <1>2 DEF Ahead
<1>5. \A f \in Flow : Bound[f] <= Bound'[f]
  BY <1>1, BoundStays
<1> QED BY <1>1, <1>3, <1>4, <1>5, AheadShrinks

LEMMA RewritesAnalyzed ==
  ASSUME BufferTypes, NEW f, NEW queue, NEW analyzed, NEW type,
         Rewrites(f, queue, analyzed, type)
  PROVE  f \in Flow /\ Analyzed' = [Analyzed EXCEPT ![f] = analyzed] /\ Known' = Known \union {f}
<1>1. /\ f \in Flow /\ Known' = Known \union {f} /\ flow_buffer'[f].analyzed = analyzed
      /\ \A g \in Known \ {f} : flow_buffer'[g] = flow_buffer[g]
  BY DEF Rewrites
<1>2. Analyzed' = [g \in Flow |-> IF g \in Known' THEN flow_buffer'[g].analyzed ELSE 0]
  BY DEF Analyzed
<1>3. ASSUME NEW g \in Flow PROVE Analyzed'[g] = [Analyzed EXCEPT ![f] = analyzed][g]
  BY <1>1, <1>2 DEF Analyzed
<1> QED BY <1>1, <1>2, <1>3 DEF Analyzed

LEMMA KnownAnalyzed ==
  ASSUME BufferTypes
  PROVE  /\ \A f \in Known : f \in Flow /\ Analyzed[f] = flow_buffer[f].analyzed
         /\ \A f \in Flow \ Known : Analyzed[f] = 0
BY BufferRecordTypes DEF Analyzed

\* What the buffer would write into a packet of flow f: the result it has, if any.
Verdict(f, seq, type) == [id |-> f, seq |-> seq, type |-> type]

Said == [f \in Flow |->
  IF f \in Known THEN Verdict(f, flow_buffer[f].analyzed, flow_buffer[f].type)
  ELSE Verdict(f, 0, 0)]

LEMMA RewritesSaid ==
  ASSUME BufferTypes, NEW f, NEW queue, NEW analyzed, NEW type,
         Rewrites(f, queue, analyzed, type)
  PROVE  /\ Said' = [Said EXCEPT ![f] = Verdict(f, analyzed, type)]
         /\ Analyzed' = [Analyzed EXCEPT ![f] = analyzed]
         /\ f \in Flow /\ Known' = Known \union {f}
<1> DEFINE r == Verdict(f, analyzed, type)
<1>1. /\ f \in Flow /\ Known' = Known \union {f}
      /\ flow_buffer'[f].analyzed = analyzed /\ flow_buffer'[f].type = type
      /\ \A g \in Known \ {f} : flow_buffer'[g] = flow_buffer[g]
  BY DEF Rewrites
<1>2. Said' = [g \in Flow |->
        IF g \in Known' THEN Verdict(g, flow_buffer'[g].analyzed, flow_buffer'[g].type)
        ELSE Verdict(g, 0, 0)]
  BY DEF Said
<1>3. ASSUME NEW g \in Flow PROVE Said'[g] = [Said EXCEPT ![f] = r][g]
  <2>1. CASE g = f
    BY <1>1, <1>2, <2>1 DEF Said
  <2>2. CASE g # f
    <3>1. Said'[g] = Said[g]
      BY <1>1, <1>2, <2>2 DEF Said
    <3> HIDE DEF r
    <3> QED BY <2>2, <3>1 DEF Said
  <2> QED BY <2>1, <2>2
<1> HIDE DEF r
<1>4. Said' = [Said EXCEPT ![f] = r]
  BY <1>2, <1>3 DEF Said
<1> QED BY <1>1, <1>4, RewritesAnalyzed DEF r

LEMMA KnownSaid ==
  ASSUME BufferTypes
  PROVE  /\ \A f \in Known : Said[f] = Verdict(f, flow_buffer[f].analyzed, flow_buffer[f].type)
         /\ \A f \in Flow \ Known : Said[f] = Verdict(f, 0, 0)
         /\ \A f \in Flow : Analyzed[f] = Said[f].seq
BY BufferRecordTypes DEF Said, Analyzed, Verdict

\* Handling a packet or flushing one does not change what is known of a flow.
LEMMA AnalyzedStays ==
  ASSUME TypeInv, Applying,
         HandlePkt \/ (ApplyResult /\ (Buf!FlushPkt \/ Buf!FlushDone))
  PROVE  UNCHANGED <<Said, Analyzed, ToApply>> /\ Known \subseteq Known'
<1>0. BufferTypes
  BY DEF TypeInv
<1>1. ASSUME NEW f, NEW queue, NEW analyzed, NEW type, Rewrites(f, queue, analyzed, type),
             Said[f] = Verdict(f, analyzed, type)
      PROVE  UNCHANGED <<Said, Analyzed>> /\ Known \subseteq Known'
  <2>0. /\ Said' = [Said EXCEPT ![f] = Verdict(f, analyzed, type)]
        /\ Analyzed' = [Analyzed EXCEPT ![f] = analyzed]
        /\ f \in Flow /\ Known' = Known \union {f}
    BY <1>0, <1>1, RewritesSaid
  <2>1. Said' = [Said EXCEPT ![f] = Said[f]]
    BY <1>1, <2>0
  <2>2. Analyzed[f] = analyzed
    BY <1>0, <1>1, <2>0, KnownSaid DEF Verdict
  <2> QED BY <2>0, <2>1, <2>2 DEF Said, Analyzed
<1>2. ASSUME NEW f \in Known
      PROVE  Said[f] = Verdict(f, flow_buffer[f].analyzed, flow_buffer[f].type)
  BY <1>0, KnownSaid
<1>3. CASE HandlePkt
  <2>1. UNCHANGED ToApply
    BY <1>3 DEF HandlePkt, Buf!HandlePkt, Buf!PktNewFlow, Buf!PktPass, Buf!PktWait,
       Buf!PktOverflow, ToApply
  <2> DEFINE f == Buf!Pkt.id
  <2>2. CASE Buf!PktNewFlow
    <3>1. f \in Flow /\ f \notin Known
      BY <1>0, <2>2, PktFacts DEF Buf!PktNewFlow, Buf!Known
    <3>2. Rewrites(f, <<Buf!Pkt>>, 0, 0)
      BY <1>0, <2>2, PktNewFlowRewrites
    <3> HIDE DEF f
    <3>3. Said[f] = Verdict(f, 0, 0)
      BY <1>0, <3>1, KnownSaid
    <3> QED BY <1>1, <2>1, <3>2, <3>3
  <2>3. CASE Buf!PktPass
    BY <2>1, <2>3 DEF Buf!PktPass, Said, Analyzed
  <2>4. CASE Buf!PktWait
    <3>1. f \in Known /\ \E queue : Rewrites(f, queue, flow_buffer[f].analyzed, flow_buffer[f].type)
      BY <1>0, <2>4, PktWaitRewrites
    <3> HIDE DEF f
    <3> QED BY <1>1, <1>2, <2>1, <3>1
  <2>5. CASE Buf!PktOverflow
    <3>1. f \in Known /\ \E queue : Rewrites(f, queue, flow_buffer[f].analyzed, flow_buffer[f].type)
      BY <1>0, <2>5, PktOverflowRewrites
    <3> HIDE DEF f
    <3> QED BY <1>1, <1>2, <2>1, <3>1
  <2> QED BY <1>3, <2>2, <2>3, <2>4, <2>5 DEF HandlePkt, Buf!HandlePkt
<1>4. CASE ApplyResult /\ Buf!FlushPkt
  <2>1. result_from_analyzer # << >> /\ Buf!Result.id \in Known /\ UNCHANGED ToApply
    BY <1>4 DEF Buf!FlushPkt, Applying, ToApply
  <2> DEFINE f == Buf!Result.id
  <2>2. \E queue : Rewrites(f, queue, flow_buffer[f].analyzed, flow_buffer[f].type)
    BY <1>0, <1>4, <2>1, FlushPktRewrites
  <2> HIDE DEF f
  <2> QED BY <1>1, <1>2, <2>1, <2>2 DEF f
<1>5. CASE ApplyResult /\ Buf!FlushDone
  <2>1. buffer' # "flush"
    BY <1>5 DEF Buf!FlushDone
  <2> QED BY <1>5, <2>1 DEF Buf!FlushDone, Said, Analyzed, ToApply
<1> QED BY <1>3, <1>4, <1>5

\* A result raises its flow to what it was computed for.
LEMMA ResultApplies ==
  ASSUME TypeInv, Applying, ApplyResult, Buf!ResultNewFlow \/ Buf!ResultKnownFlow
  PROVE  LET r == Buf!Result IN
         /\ r \in Results /\ r.id \in Flow
         /\ ToApply = result_from_analyzer /\ ToApply # << >> /\ r = Head(ToApply)
         /\ ToApply' = Tail(ToApply)
         /\ Analyzed' = [Analyzed EXCEPT ![r.id] = r.seq] /\ Known' = Known \union {r.id}
         /\ Said' = [Said EXCEPT ![r.id] = Verdict(r.id, r.seq, r.type)]
<1> DEFINE r == Buf!Result
<1>0. BufferTypes /\ result_from_analyzer # << >> /\ buffer = "apply"
  BY DEF TypeInv, Applying, Buf!ResultNewFlow, Buf!ResultKnownFlow
<1>1. r \in Results /\ r.id \in Flow
  BY <1>0, ResultFacts
<1>2. ToApply = result_from_analyzer /\ r = Head(ToApply)
  BY <1>0 DEF ToApply, Buf!Result
<1>3. ToApply' = Tail(ToApply)
  <2>1. CASE Buf!ResultNewFlow
    <3>1. result_from_analyzer' = Tail(result_from_analyzer) /\ buffer' # "flush"
      BY <2>1 DEF Buf!ResultNewFlow
    <3> QED BY <1>2, <3>1 DEF ToApply
  <2>2. CASE Buf!ResultKnownFlow
    <3>1. result_from_analyzer' = result_from_analyzer /\ buffer' = "flush"
      BY <2>2 DEF Buf!ResultKnownFlow
    <3> QED BY <1>2, <3>1 DEF ToApply
  <2> QED BY <2>1, <2>2
<1>4. \E queue : Rewrites(r.id, queue, r.seq, r.type)
  BY <1>0, ResultNewFlowRewrites, ResultKnownFlowRewrites
<1>5. /\ Analyzed' = [Analyzed EXCEPT ![r.id] = r.seq] /\ Known' = Known \union {r.id}
      /\ Said' = [Said EXCEPT ![r.id] = Verdict(r.id, r.seq, r.type)]
  <2>1. PICK queue : Rewrites(r.id, queue, r.seq, r.type)
    BY <1>4
  <2>2. PICK f, analyzed, type : f = r.id /\ analyzed = r.seq /\ type = r.type
    OBVIOUS
  <2> HIDE DEF r
  <2>3. Rewrites(f, queue, analyzed, type)
    BY <2>1, <2>2
  <2>4. /\ Said' = [Said EXCEPT ![f] = Verdict(f, analyzed, type)]
        /\ Analyzed' = [Analyzed EXCEPT ![f] = analyzed]
        /\ f \in Flow /\ Known' = Known \union {f}
    BY <1>0, <2>3, RewritesSaid
  <2> QED BY <2>2, <2>4
<1> HIDE DEF r
<1> QED BY <1>0, <1>1, <1>2, <1>3, <1>5 DEF r

LEMMA ApplyResults ==
  ASSUME TypeInv, TypeInv', Applying, BatchInv, ResultsInOrder, ApplyResult,
         Buf!ResultNewFlow \/ Buf!ResultKnownFlow
  PROVE  ResultsInOrder' /\ \A f \in Flow : Analyzed[f] <= Analyzed'[f]
<1> DEFINE r == Buf!Result
<1>1. /\ r \in Results /\ r.id \in Flow /\ ToApply # << >> /\ r = Head(ToApply)
      /\ ToApply' = Tail(ToApply)
      /\ Analyzed' = [Analyzed EXCEPT ![r.id] = r.seq]
  BY ResultApplies
<1>2. UNCHANGED <<analyzer_to_buffer, Pending, input_item, Bound>>
  BY DEF ApplyResult, elseBuffer, poolVars, handVars, flagVars, Pending, Answering, Bound
<1> HIDE DEF r
<1>3. /\ Range(ToApply) = {r} \union Range(ToApply')
      /\ Ordered(ToApply') /\ Before({r}, Range(ToApply'))
  <2>1. ToApply \in Seq(Results)
    BY ResultTypesHold DEF BatchInv, ResultTypes
  <2> QED BY <1>1, <2>1, TailFacts DEF ResultsInOrder, LinesOfResults
<1>4. LinesOfResults'
  <2>1. Before(Range(ToApply'),
               Range(analyzer_to_buffer) \union Range(Pending) \union Range(input_item))
    BY <1>3 DEF ResultsInOrder, LinesOfResults, Before
  <2> QED BY <1>2, <1>3, <2>1 DEF ResultsInOrder, LinesOfResults
<1>5. /\ r \in Ahead /\ Ahead' \subseteq Ahead
      /\ \A x \in Ahead' : x.id = r.id => r.seq < x.seq
  <2>1. \A x \in Range(analyzer_to_buffer) \union Range(Pending) \union Range(input_item) :
          x.id = r.id => r.seq < x.seq
    BY <1>3 DEF ResultsInOrder, LinesOfResults, Before
  <2>2. \A x \in Range(ToApply') : x.id = r.id => r.seq < x.seq
    BY <1>3 DEF Before
  <2> QED BY <1>2, <1>3, <2>1, <2>2 DEF Ahead
<1>6. /\ \A x \in Ahead : Analyzed[x.id] < x.seq /\ x.seq <= Bound[x.id]
      /\ \A f \in Flow : Analyzed[f] <= Bound[f]
  BY DEF ResultsInOrder
<1>7. /\ Analyzed'[r.id] = r.seq
      /\ \A f \in Flow \ {r.id} : Analyzed'[f] = Analyzed[f]
  BY <1>1 DEF Analyzed
<1>8. \A x \in Ahead : x.id \in Flow
  BY ResultTypesHold DEF BatchInv
<1>9. \A x \in Ahead' : Analyzed'[x.id] < x.seq /\ x.seq <= Bound'[x.id]
  BY <1>2, <1>5, <1>6, <1>7, <1>8
<1>10. \A f \in Flow : Analyzed'[f] <= Bound'[f]
  BY <1>2, <1>5, <1>6, <1>7
<1>11. \A f \in Flow : Analyzed[f] <= Analyzed'[f]
  <2>1. Analyzed[r.id] < r.seq /\ r.seq \in Nat /\ \A f \in Flow : Analyzed[f] \in Nat
    BY <1>1, <1>5, <1>6, NumberTypes DEF NumbersAreNat, Results
  <2> QED BY <1>7, <2>1
<1> QED BY <1>4, <1>9, <1>10, <1>11 DEF ResultsInOrder

LEMMA ResultsInOrderKept ==
  TypeInv /\ TypeInv' /\ MetadataInv /\ Applying /\ ExchangeInv /\ BatchInv /\ ResultsInOrder
    /\ Next => ResultsInOrder'
<1> SUFFICES ASSUME TypeInv, TypeInv', MetadataInv, Applying, ExchangeInv, BatchInv,
                    ResultsInOrder, Next
             PROVE  ResultsInOrder'
  OBVIOUS
<1>1. ASSUME UNCHANGED <<ToApply, analyzer_to_buffer, Pending, input_item, Analyzed, flow_record>>
      PROVE  ResultsInOrder'
  BY <1>1, BoundStays, ResultsStay
<1>2. ASSUME (\E f \in Flow : Parse(f)) \/ PassOn
      PROVE  UNCHANGED <<ToApply, analyzer_to_buffer, Pending, input_item, Analyzed, flow_record>>
  BY <1>2 DEF Parse, PassOn, poolVars, handVars, flagVars, bufferVars, ToApply, Pending,
     Answering, Analyzed
<1>3. ASSUME NEW n \in Taken(parser_to_pool, MetadataFetch), FetchMetadata(n)
      PROVE  UNCHANGED <<ToApply, analyzer_to_buffer, Pending, input_item, Analyzed, flow_record>>
  BY <1>3 DEF FetchMetadata, Pool!Fetch, elsePool, handVars, flagVars, bufferVars, ToApply,
     Pending, Answering, Analyzed
<1>4. CASE InPool
  <2>1. UNCHANGED input_item
    BY <1>4, InPoolFacts DEF TypeInv, InPool
  <2>2. UNCHANGED <<ToApply, analyzer_to_buffer, Pending, Analyzed>>
    BY <1>4 DEF InPool, elsePool, handVars, flagVars, bufferVars, ToApply, Pending, Answering,
       Analyzed
  <2> QED BY <1>4, <2>1, <2>2, InPoolBound, ResultsStay
<1>5. CASE OutPoolBegin \/ Answer
  <2>1. UNCHANGED <<ToApply, analyzer_to_buffer, input_item, Analyzed, flow_record>>
    BY <1>5 DEF OutPoolBegin, Answer, Pool!OutPoolBegin, elsePool, poolVars, bufferVars,
       ToApply, Analyzed
  <2> QED BY <1>1, <1>5, <2>1, AnswerPending
<1>6. ASSUME (\E n \in Taken(parser_to_buffer, PktFetch) : FetchPkts(n)) \/ HandlePkt
               \/ (ApplyResult /\ (Buf!FlushPkt \/ Buf!FlushDone))
      PROVE  UNCHANGED <<ToApply, analyzer_to_buffer, Pending, input_item, Analyzed, flow_record>>
  <2>1. UNCHANGED <<analyzer_to_buffer, Pending, input_item, flow_record>>
    BY <1>6 DEF FetchPkts, HandlePkt, ApplyResult, elseBuffer, poolVars, handVars, flagVars,
       Pending, Answering
  <2>2. ASSUME NEW n \in Taken(parser_to_buffer, PktFetch), FetchPkts(n)
        PROVE  UNCHANGED <<ToApply, Analyzed>>
    BY <2>2 DEF FetchPkts, Buf!FetchPkts, ToApply, Analyzed
  <2> QED BY <1>6, <2>1, <2>2, AnalyzedStays
<1>7. CASE PoolStep
  BY <1>1, <1>3, <1>4, <1>5, <1>7, OutPoolFlowResults, OutPoolEndResults DEF PoolStep
<1>8. CASE AnalyzerStep
  BY <1>8, AskResults, EmitResults DEF AnalyzerStep
<1>9. CASE BufferStep
  <2>1. ASSUME ApplyResult
        PROVE  \/ Buf!FlushPkt \/ Buf!FlushDone
               \/ Buf!ResultNewFlow \/ Buf!ResultKnownFlow
    BY <2>1 DEF ApplyResult, Buf!ApplyResult
  <2>2. CASE (\E n \in Taken(parser_to_buffer, PktFetch) : FetchPkts(n)) \/ HandlePkt
    BY <1>1, <1>6, <2>2
  <2>3. ASSUME NEW n \in Taken(analyzer_to_buffer, ResultFetch), FetchResults(n)
        PROVE  ResultsInOrder'
    BY <2>3, FetchResultsResults
  <2>4. CASE ApplyResult
    <3>1. CASE Buf!FlushPkt \/ Buf!FlushDone
      BY <1>1, <1>6, <2>4, <3>1
    <3>2. CASE Buf!ResultNewFlow \/ Buf!ResultKnownFlow
      BY <2>4, <3>2, ApplyResults
    <3> QED BY <2>1, <2>4, <3>1, <3>2
  <2> QED BY <1>9, <2>2, <2>3, <2>4 DEF BufferStep
<1> QED BY <1>1, <1>2, <1>7, <1>8, <1>9 DEF Next
-----------------------------------------------------------------------------
(* What is known of a flow was said by the analyzer, and only gets newer.  *)

\* Every result on its way, and every one that was applied, is a verdict; what
\* left with a class left with one its flow knows.
Judged ==
  /\ \A x \in Range(ToApply) \union Range(analyzer_to_buffer) :
       Verdict(x.id, x.seq, x.type) \in verdicts
  /\ \A f \in Flow : Analyzed[f] # 0 => Said[f] \in verdicts
  /\ \A i \in 1 .. Len(leaving) : /\ leaving[i].id \in Flow
                                  /\ leaving[i].by <= Analyzed[leaving[i].id]

\* A packet leaves with no more than its flow knows.
SendsKnown ==
  \/ UNCHANGED leaving
  \/ \E d \in Departures : leaving' = Append(leaving, d) /\ d.by <= Analyzed[d.id]

LEMMA DepartureFacts ==
  ASSUME TypeInv
  PROVE  \A i \in 1 .. Len(leaving) :
           /\ leaving[i] \in Departures /\ leaving[i].id \in Flow /\ leaving[i].seq \in Seqs
           /\ leaving[i].by \in Nat
<1>1. \A i \in 1 .. Len(leaving) : leaving[i] \in Departures
  BY DEF TypeInv, BufferTypes
<1> QED BY <1>1 DEF Departures

LEMMA SendFacts ==
  ASSUME TypeInv, NEW p \in Packets, NEW type \in PktType \union {0}, NEW by \in Nat,
         by <= Analyzed[p.id], Buf!Send(p, type, by)
  PROVE  SendsKnown
<1> DEFINE d == [id |-> p.id, seq |-> p.seq, type |-> type, by |-> by]
<1>1. d \in Departures /\ d.by <= Analyzed[d.id]
  BY DEF Departures, Packets
<1>2. leaving' = Append(leaving, d)
  BY DEF Buf!Send
<1> HIDE DEF d
<1> QED BY <1>1, <1>2 DEF SendsKnown

LEMMA StepSendsKnown ==
  ASSUME TypeInv, PacketInv, Applying, HandlePkt \/ ApplyResult
  PROVE  SendsKnown
<1>0. BufferTypes /\ QueuesInOrder
  BY DEF TypeInv, PacketInv
<1>1. ASSUME NEW f \in Known
      PROVE  /\ Analyzed[f] = flow_buffer[f].analyzed /\ Analyzed[f] \in Nat
             /\ flow_buffer[f].type \in PktType \union {0}
             /\ flow_buffer[f].analyzed <= Analyzed[f]
  <2>1. /\ Analyzed[f] = flow_buffer[f].analyzed /\ flow_buffer[f].analyzed \in Nat
        /\ flow_buffer[f].type \in PktType \union {0}
    BY <1>0, KnownAnalyzed, BufferRecordTypes
  <2> QED BY <2>1
<1>2. CASE HandlePkt /\ (Buf!PktNewFlow \/ Buf!PktWait)
  BY <1>2, PktJoins DEF SendsKnown
<1>3. CASE HandlePkt /\ Buf!PktPass
  <2> DEFINE f == Buf!Pkt.id
  <2>1. /\ f \in Known /\ Buf!Pkt \in Packets
        /\ Buf!Send(Buf!Pkt, flow_buffer[f].type, flow_buffer[f].analyzed)
    BY <1>3, PktPasses
  <2>2. /\ flow_buffer[f].type \in PktType \union {0} /\ flow_buffer[f].analyzed \in Nat
        /\ flow_buffer[f].analyzed <= Analyzed[f]
    BY <1>1, <2>1
  <2> QED BY <2>1, <2>2, SendFacts
<1>4. CASE HandlePkt /\ Buf!PktOverflow
  <2> DEFINE f == Buf!Pkt.id
             p == Head(Queues[f])
  <2>1. f \in Known /\ f \in Flow /\ Queues[f] # << >> /\ Buf!Send(p, 0, 0)
    BY <1>4, PktOverflows
  <2> HIDE DEF f
  <2>2. p \in Packets /\ p.id = f
    BY <1>0, <2>1, QueueHead
  <2> HIDE DEF p
  <2>3. 0 <= Analyzed[p.id]
    BY <1>1, <2>1, <2>2
  <2> QED BY <2>1, <2>2, <2>3, SendFacts
<1>5. CASE ApplyResult /\ ~Buf!FlushPkt
  BY <1>5, ResultMoves DEF SendsKnown
<1>6. CASE ApplyResult /\ Buf!FlushPkt
  <2> DEFINE f == Buf!Result.id
             b == flow_buffer[f]
             p == Head(Queues[f])
  <2>1. /\ f \in Known /\ f \in Flow /\ Queues[f] # << >>
        /\ leaving' = leaving \/ Buf!Send(p, b.type, b.analyzed)
    <3>1. leaving' = leaving \/ Buf!Send(Head(b.queue), b.type, b.analyzed)
      BY <1>6 DEF Buf!FlushPkt
    <3> QED BY <1>6, <3>1, FlushMoves
  <2>2. b.type \in PktType \union {0} /\ b.analyzed \in Nat /\ b.analyzed <= Analyzed[f]
    BY <1>1, <2>1
  <2> HIDE DEF f, b
  <2>3. p \in Packets /\ p.id = f
    BY <1>0, <2>1, QueueHead
  <2> HIDE DEF p
  <2> QED BY <2>1, <2>2, <2>3, SendFacts DEF SendsKnown
<1> QED BY <1>2, <1>3, <1>4, <1>5, <1>6 DEF HandlePkt, Buf!HandlePkt

\* What a flow is known by never goes back.
LEMMA AnalyzedGrows ==
  ASSUME TypeInv, TypeInv', Applying, BatchInv, ResultsInOrder, Next
  PROVE  Known \subseteq Known' /\ \A f \in Flow : Analyzed[f] <= Analyzed'[f]
<1>1. ASSUME UNCHANGED Analyzed PROVE \A f \in Flow : Analyzed[f] <= Analyzed'[f]
  BY <1>1, NumberTypes DEF NumbersAreNat
<1>2. ASSUME UNCHANGED flow_buffer
      PROVE  Known \subseteq Known' /\ \A f \in Flow : Analyzed[f] <= Analyzed'[f]
  BY <1>1, <1>2 DEF Analyzed
<1>3. CASE HandlePkt \/ (ApplyResult /\ (Buf!FlushPkt \/ Buf!FlushDone))
  BY <1>1, <1>3, AnalyzedStays
<1>4. CASE ApplyResult /\ (Buf!ResultNewFlow \/ Buf!ResultKnownFlow)
  BY <1>4, ApplyResults, ResultApplies
<1>5. CASE (\E f \in Flow : Parse(f)) \/ PassOn \/ PoolStep \/ AnalyzerStep
  <2>1. UNCHANGED flow_buffer
    BY <1>5, PoolFrame, AnalyzerFrame DEF Parse, PassOn, elsePool, elseAnalyzer, bufferVars
  <2> QED BY <1>2, <2>1
<1>6. CASE \/ \E n \in Taken(parser_to_buffer, PktFetch) : FetchPkts(n)
           \/ \E n \in Taken(analyzer_to_buffer, ResultFetch) : FetchResults(n)
  <2>1. UNCHANGED flow_buffer
    BY <1>6 DEF FetchPkts, FetchResults, Buf!FetchPkts, Buf!FetchResults
  <2> QED BY <1>2, <2>1
<1> QED BY <1>3, <1>4, <1>5, <1>6 DEF Next, BufferStep, ApplyResult, Buf!ApplyResult

LEMMA LeftKept ==
  ASSUME TypeInv, TypeInv', PacketInv, Applying, BatchInv, ResultsInOrder, Judged, Next
  PROVE  \A i \in 1 .. Len(leaving') : /\ leaving'[i].id \in Flow
                                       /\ leaving'[i].by <= Analyzed'[leaving'[i].id]
<1>1. \A f \in Flow : Analyzed[f] \in Nat /\ Analyzed'[f] \in Nat /\ Analyzed[f] <= Analyzed'[f]
  <2>1. NumbersAreNat /\ NumbersAreNat'
    BY NumberTypes, PTL
  <2> QED BY <2>1, AnalyzedGrows DEF NumbersAreNat
<1>2. \A i \in 1 .. Len(leaving) : /\ leaving[i].id \in Flow /\ leaving[i].by \in Nat
                                   /\ leaving[i].by <= Analyzed[leaving[i].id]
  BY DepartureFacts DEF Judged
<1>3. \A i \in 1 .. Len(leaving) : leaving[i].by <= Analyzed'[leaving[i].id]
  <2>1. ASSUME NEW i \in 1 .. Len(leaving) PROVE leaving[i].by <= Analyzed'[leaving[i].id]
    <3> DEFINE d == leaving[i]
    <3>1. d.id \in Flow /\ d.by \in Nat /\ d.by <= Analyzed[d.id]
      BY <1>2
    <3> HIDE DEF d
    <3>2. d.by <= Analyzed'[d.id]
      BY <1>1, <3>1
    <3> QED BY <3>2 DEF d
  <2> QED BY <2>1
<1>4. CASE UNCHANGED leaving
  BY <1>2, <1>3, <1>4
<1>5. ASSUME NEW d \in Departures, leaving' = Append(leaving, d), d.by <= Analyzed[d.id]
      PROVE  \A i \in 1 .. Len(leaving') : /\ leaving'[i].id \in Flow
                                           /\ leaving'[i].by <= Analyzed'[leaving'[i].id]
  <2>1. d.id \in Flow /\ d.by \in Nat
    BY DEF Departures
  <2>2. d.by <= Analyzed'[d.id]
    BY <1>1, <1>5, <2>1
  <2>3. /\ Len(leaving') = Len(leaving) + 1 /\ leaving'[Len(leaving) + 1] = d
        /\ Len(leaving) \in Nat
        /\ \A i \in 1 .. Len(leaving) : leaving'[i] = leaving[i]
    BY <1>5 DEF TypeInv, BufferTypes
  <2>4. \A i \in 1 .. Len(leaving') : i \in 1 .. Len(leaving) \/ i = Len(leaving) + 1
    BY <2>3
  <2> QED BY <1>2, <1>3, <2>1, <2>2, <2>3, <2>4
<1>6. SendsKnown
  <2>1. CASE HandlePkt \/ ApplyResult
    BY <2>1, StepSendsKnown
  <2>2. CASE (\E f \in Flow : Parse(f)) \/ PassOn \/ PoolStep \/ AnalyzerStep
    BY <2>2, PoolFrame, AnalyzerFrame
       DEF Parse, PassOn, elsePool, elseAnalyzer, bufferVars, SendsKnown
  <2>3. CASE \/ \E n \in Taken(parser_to_buffer, PktFetch) : FetchPkts(n)
             \/ \E n \in Taken(analyzer_to_buffer, ResultFetch) : FetchResults(n)
    BY <2>3 DEF FetchPkts, FetchResults, Buf!FetchPkts, Buf!FetchResults, SendsKnown
  <2> QED BY <2>1, <2>2, <2>3 DEF Next, BufferStep
<1> QED BY <1>4, <1>5, <1>6 DEF SendsKnown

LEMMA JudgedKept ==
  TypeInv /\ TypeInv' /\ PacketInv /\ Applying /\ ExchangeInv /\ BatchInv /\ ResultsInOrder
    /\ Judged /\ Next => Judged'
<1> SUFFICES ASSUME TypeInv, TypeInv', PacketInv, Applying, ExchangeInv, BatchInv,
                    ResultsInOrder, Judged, Next
             PROVE  Judged'
  OBVIOUS
<1> DEFINE OnTheirWay == \A x \in Range(ToApply) \union Range(analyzer_to_buffer) :
                           Verdict(x.id, x.seq, x.type) \in verdicts
           Applied == \A f \in Flow : Analyzed[f] # 0 => Said[f] \in verdicts
<1>0. OnTheirWay /\ Applied
  BY DEF Judged
<1>1. ASSUME UNCHANGED <<ToApply, analyzer_to_buffer, Said, Analyzed, verdicts>>
      PROVE  OnTheirWay' /\ Applied'
  BY <1>0, <1>1
<1>2. ASSUME (\E f \in Flow : Parse(f)) \/ PassOn \/ PoolStep \/ Ask
               \/ (\E n \in Taken(parser_to_buffer, PktFetch) : FetchPkts(n))
      PROVE  UNCHANGED <<ToApply, analyzer_to_buffer, Said, Analyzed, verdicts>>
  <2>1. CASE (\E f \in Flow : Parse(f)) \/ PassOn
    BY <2>1 DEF Parse, PassOn, bufferVars, historyVars, ToApply, Said, Analyzed
  <2>2. CASE PoolStep
    BY <2>2, PoolFrame DEF elsePool, bufferVars, historyVars, ToApply, Said, Analyzed
  <2>3. CASE Ask
    BY <2>3 DEF Ask, elseAnalyzer, bufferVars, historyVars, ToApply, Said, Analyzed
  <2>4. ASSUME NEW n \in Taken(parser_to_buffer, PktFetch), FetchPkts(n)
        PROVE  UNCHANGED <<ToApply, analyzer_to_buffer, Said, Analyzed, verdicts>>
    BY <2>4 DEF FetchPkts, Buf!FetchPkts, elseBuffer, historyVars, ToApply, Said, Analyzed
  <2> QED BY <1>2, <2>1, <2>2, <2>3, <2>4
<1>3. ASSUME NEW type \in PktType, EmitResult(type) PROVE OnTheirWay' /\ Applied'
  <2> DEFINE item == input_item_c[emitted + 1]
             result == [id |-> item.id, seq |-> item.seq, type |-> type, times |-> item.times]
             v == [id |-> item.id, seq |-> item.seq, type |-> type]
  <2>1. /\ result \in Results
        /\ analyzer_to_buffer' = Enqueue(analyzer_to_buffer, ResultCap, result)
        /\ UNCHANGED <<ToApply, Analyzed>>
    BY <1>3, EmitMoves
  <2>2. verdicts' = verdicts \union {v}
    BY <1>3 DEF EmitResult
  <2>3. UNCHANGED Said
    BY <1>3 DEF EmitResult, elseAnalyzer, bufferVars, Said
  <2>4. Verdict(result.id, result.seq, result.type) = v
    BY DEF Verdict
  <2> HIDE DEF result, v, item
  <2>5. analyzer_to_buffer \in Seq(Results)
    BY DEF TypeInv, AnalyzerTypes
  <2>6. Range(analyzer_to_buffer') \subseteq Range(analyzer_to_buffer) \union {result}
    BY <2>1, <2>5, EnqueueFacts
  <2> QED BY <1>0, <2>1, <2>2, <2>3, <2>4, <2>6
<1>4. ASSUME NEW n \in Taken(analyzer_to_buffer, ResultFetch), FetchResults(n)
      PROVE  OnTheirWay' /\ Applied'
  <2> DEFINE block == SubSeq(analyzer_to_buffer, 1, n)
             rest == Rest(analyzer_to_buffer, n)
  <2>1. /\ analyzer_to_buffer' = rest /\ ToApply' = block
        /\ UNCHANGED <<Said, Analyzed, verdicts>>
    BY <1>4 DEF FetchResults, Buf!FetchResults, elseBuffer, historyVars, ToApply, Said, Analyzed
  <2>2. Range(analyzer_to_buffer) = Range(block) \union Range(rest)
    <3>1. analyzer_to_buffer \in Seq(Results) /\ ResultFetch \in Nat \ {0}
      BY ImisAssumption DEF TypeInv, AnalyzerTypes
    <3> QED BY <3>1, BlockFacts
  <2> HIDE DEF block, rest
  <2> QED BY <1>0, <2>1, <2>2
<1>5. ASSUME HandlePkt \/ (ApplyResult /\ (Buf!FlushPkt \/ Buf!FlushDone))
      PROVE  OnTheirWay' /\ Applied'
  <2>1. UNCHANGED <<Said, Analyzed, ToApply>>
    BY <1>5, AnalyzedStays
  <2>2. UNCHANGED <<analyzer_to_buffer, verdicts>>
    BY <1>5 DEF HandlePkt, ApplyResult, elseBuffer, historyVars
  <2> QED BY <1>1, <2>1, <2>2
<1>6. ASSUME ApplyResult /\ (Buf!ResultNewFlow \/ Buf!ResultKnownFlow)
      PROVE  OnTheirWay' /\ Applied'
  <2> DEFINE r == Buf!Result
  <2>1. /\ r \in Results /\ r.id \in Flow /\ ToApply # << >> /\ r = Head(ToApply)
        /\ ToApply' = Tail(ToApply)
        /\ Analyzed' = [Analyzed EXCEPT ![r.id] = r.seq]
        /\ Said' = [Said EXCEPT ![r.id] = Verdict(r.id, r.seq, r.type)]
    BY <1>6, ResultApplies
  <2> HIDE DEF r
  <2>2. UNCHANGED <<analyzer_to_buffer, verdicts>>
    BY <1>6 DEF ApplyResult, elseBuffer, historyVars
  <2>3. Range(ToApply) = {r} \union Range(ToApply')
    <3>1. ToApply \in Seq(Results)
      BY ResultTypesHold DEF BatchInv, ResultTypes
    <3> QED BY <2>1, <3>1, TailFacts
  <2>4. Verdict(r.id, r.seq, r.type) \in verdicts
    BY <1>0, <2>3
  <2> QED BY <1>0, <2>1, <2>2, <2>3, <2>4 DEF Said, Analyzed
<1>7. OnTheirWay' /\ Applied'
  BY <1>1, <1>2, <1>3, <1>4, <1>5, <1>6
     DEF Next, AnalyzerStep, BufferStep, ApplyResult, Buf!ApplyResult
<1> QED BY <1>7, LeftKept DEF Judged
-----------------------------------------------------------------------------
(* The inductive invariant of the pipeline.                                *)

ImisInv == /\ TypeInv /\ MetadataInv /\ Applying /\ ExchangeInv /\ BatchInv
           /\ PacketInv /\ ResultsInOrder /\ Judged

LEMMA InitImisInv == Init => ImisInv
<1> SUFFICES ASSUME Init PROVE ImisInv
  OBVIOUS
<1>1. /\ parser_seq = 0 /\ parsed = << >> /\ freed = {} /\ verdicts = {}
      /\ parser_to_pool = << >> /\ parser_to_buffer = << >> /\ analyzer_to_buffer = << >>
      /\ Recorded = {} /\ flow_record = [f \in {} |-> 0] /\ flow_priority = {}
      /\ metadata_from_parser = << >> /\ input_item = << >> /\ pool = "fetch"
      /\ call_by_analyzer = FALSE /\ ready_for_analyzer = FALSE
      /\ input_item_c = << >> /\ hand = "loop" /\ analyzer = "reset" /\ emitted = 0
      /\ analyzer_stop = FALSE
      /\ Known = {} /\ flow_buffer = [f \in {} |-> 0] /\ pkt_from_parser = << >>
      /\ result_from_analyzer = << >> /\ buffer = "fetch" /\ leaving = << >>
  BY DEF Init, Pool!InitPool, Hand!InitHand, Buf!InitBuffer
<1>2. /\ Range(<< >>) = {} /\ Ordered(<< >>) /\ Len(<< >>) = 0
      /\ \A S, T : S = {} => Before(S, T)
  BY EmptyFacts DEF Before
<1>3. TypeInv
  BY <1>1, ImisAssumption
     DEF TypeInv, ParserTypes, PoolTypes, AnalyzerTypes, BufferTypes
<1>4. MetadataInv
  BY <1>1, <1>2 DEF MetadataInv, PoolOrder, MetadataInOrder, Unpooled
<1>5. Applying /\ ExchangeInv /\ BatchInv
  <2>1. Applying /\ BatchInv
    BY <1>1, <1>2 DEF Applying, BatchInv
  <2>2. ExchangeInv
    BY <1>1 DEF ExchangeInv
  <2> QED BY <2>1, <2>2
<1>6. PacketInv
  <2>1. \A f \in Flow : Queues[f] = << >>
    BY <1>1 DEF Queues, Queue
  <2>2. InLine = {}
    BY <1>1, <1>2 DEF InLine
  <2> QED BY <1>1, <1>2, <2>1, <2>2 DEF PacketInv, LineInOrder, QueuesInOrder
<1>7. ToApply = << >> /\ Pending = << >> /\ Ahead = {}
  BY <1>1, <1>2 DEF ToApply, Pending, Answering, Ahead
<1>8. \A f \in Flow : Analyzed[f] = 0 /\ Bound[f] = 0
  BY <1>1 DEF Analyzed, Bound
<1>9. ResultsInOrder
  BY <1>1, <1>2, <1>7, <1>8 DEF ResultsInOrder, LinesOfResults
<1>10. Judged
  BY <1>1, <1>2, <1>7, <1>8 DEF Judged
<1> QED BY <1>3, <1>4, <1>5, <1>6, <1>9, <1>10 DEF ImisInv

LEMMA NextImisInv == ImisInv /\ Next => ImisInv'
<1> SUFFICES ASSUME ImisInv, Next PROVE ImisInv'
  OBVIOUS
<1>1. /\ TypeInv /\ MetadataInv /\ PoolOrder /\ Applying /\ ExchangeInv /\ BatchInv
      /\ PacketInv /\ ResultsInOrder /\ Judged
  BY DEF ImisInv, MetadataInv
<1>2. TypeInv'
  BY <1>1, TypesKept
<1>3. MetadataInv' /\ Applying' /\ ExchangeInv' /\ BatchInv' /\ PacketInv'
  BY <1>1, MetadataInvKept, ApplyingKept, ExchangeInvKept, BatchInvKept, PacketInvKept
<1>4. ResultsInOrder'
  BY <1>1, <1>2, ResultsInOrderKept
<1>5. Judged'
  BY <1>1, <1>2, JudgedKept
<1> QED BY <1>2, <1>3, <1>4, <1>5 DEF ImisInv

LEMMA StutterImisInv == ImisInv /\ UNCHANGED vars => ImisInv'
<1> SUFFICES ASSUME ImisInv, UNCHANGED vars PROVE ImisInv'
  OBVIOUS
<1>1. UNCHANGED <<parserVars, ringVars, poolVars, handVars, bufferVars, historyVars>>
  BY DEF vars
<1>2. TypeInv'
  BY <1>1 DEF ImisInv, TypeInv, ParserTypes, PoolTypes, AnalyzerTypes, BufferTypes,
     parserVars, ringVars, poolVars, handVars, bufferVars, historyVars
<1>3. MetadataInv'
  BY <1>1 DEF ImisInv, MetadataInv, PoolOrder, MetadataInOrder, Unpooled, parserVars, ringVars,
     poolVars
<1>4. Applying' /\ ExchangeInv' /\ BatchInv'
  BY <1>1 DEF ImisInv, Applying, ExchangeInv, BatchInv, Buf!Result, poolVars, handVars,
     flagVars, bufferVars
<1>5. PacketInv'
  BY <1>1 DEF ImisInv, PacketInv, LineInOrder, QueuesInOrder, InLine, Queues, Queue,
     parserVars, ringVars, bufferVars
<1>6. UNCHANGED <<ToApply, Pending, Ahead, Bound, Analyzed, Said>>
  BY <1>1 DEF ToApply, Pending, Answering, Ahead, Bound, Analyzed, Said, ringVars, poolVars,
     handVars, flagVars, bufferVars
<1>7. ResultsInOrder' /\ Judged'
  BY <1>1, <1>6 DEF ImisInv, ResultsInOrder, LinesOfResults, Judged, ringVars, poolVars,
     bufferVars, historyVars
<1> QED BY <1>2, <1>3, <1>4, <1>5, <1>7 DEF ImisInv

\* For any number of flows and packets, rings of any size and a model that says
\* anything: metadata, packets and results keep the order of their flow on all
\* the ways through the four threads, no batch is overwritten before it was
\* answered, and what the buffer knows of a flow the analyzer has said.
THEOREM PipelineInvariant == Spec => []ImisInv
<1>1. ImisInv /\ [Next]_vars => ImisInv'
  BY NextImisInv, StutterImisInv
<1> QED BY <1>1, InitImisInv, PTL DEF Spec

\* A flow's class is never replaced by that of an earlier analysis, however long
\* results waited in the ring and whichever of them were lost.
THEOREM ClassesAdvance == Spec => AnalyzedAdvances
<1>1. ASSUME ImisInv, [Next]_vars
      PROVE  [\A f \in DOMAIN flow_buffer :
                flow_buffer'[f].analyzed >= flow_buffer[f].analyzed]_vars
  <2>1. ASSUME Next, NEW f \in Known PROVE flow_buffer'[f].analyzed >= flow_buffer[f].analyzed
    <3>1. ImisInv'
      BY <1>1, <2>1, NextImisInv
    <3>2. Known \subseteq Known' /\ \A g \in Flow : Analyzed[g] <= Analyzed'[g]
      BY <1>1, <2>1, <3>1, AnalyzedGrows DEF ImisInv
    <3>3. f \in Flow /\ Analyzed[f] = flow_buffer[f].analyzed
      BY <1>1, KnownAnalyzed DEF ImisInv, TypeInv
    <3>4. Analyzed'[f] = flow_buffer'[f].analyzed
      BY <3>2, <3>3 DEF Analyzed
    <3>5. Analyzed[f] <= Analyzed'[f] /\ Analyzed[f] \in Nat /\ Analyzed'[f] \in Nat
      <4>1. NumbersAreNat /\ NumbersAreNat'
        <5>1. TypeInv /\ TypeInv'
          BY <1>1, <3>1 DEF ImisInv
        <5> QED BY <5>1, NumberTypes, PTL
      <4> QED BY <3>2, <3>3, <4>1 DEF NumbersAreNat
    <3> QED BY <3>3, <3>4, <3>5
  <2> QED BY <1>1, <2>1
<1> QED BY <1>1, PipelineInvariant, PTL DEF Spec, AnalyzedAdvances
-----------------------------------------------------------------------------
(* A packet waits only for a result that has not come.                     *)

Flushed(f) == buffer = "flush" /\ Buf!Result.id = f

WaitsInv ==
  \A f \in Flow : Queues[f] # << >> => Flushed(f) \/ Analyzed[f] < Head(Queues[f]).seq

\* Nothing that the invariant is about changes, but the buffer may begin a round.
LEMMA WaitsStay ==
  ASSUME WaitsInv, UNCHANGED <<Queues, Analyzed>>,
         UNCHANGED <<buffer, result_from_analyzer>> \/ buffer # "flush"
  PROVE  WaitsInv'
BY DEF WaitsInv, Flushed, Buf!Result

LEMMA HandlePktWaits ==
  ASSUME TypeInv, PacketInv, Applying, WaitsInv, HandlePkt
  PROVE  WaitsInv'
<1>0. BufferTypes /\ QueuesInOrder /\ LineInOrder
  BY DEF TypeInv, PacketInv
<1>1. Buf!Handling /\ buffer = "pkts" /\ buffer' = "pkts" /\ Buf!Pkt.seq \in Seqs /\ UNCHANGED Analyzed
  <2>1. Buf!Handling /\ buffer = "pkts" /\ buffer' = buffer
    BY DEF HandlePkt, Buf!HandlePkt, Buf!PktNewFlow, Buf!PktPass, Buf!PktWait, Buf!PktOverflow,
       Buf!Handling
  <2> QED BY <1>0, <2>1, PktFacts, AnalyzedStays
<1>2. \A f \in Flow : /\ Queues[f] \in Seq(Packets) /\ Analyzed[f] \in Nat
                      /\ Queues[f] # << >> => Analyzed[f] < Head(Queues[f]).seq
  BY <1>0, <1>1, QueueTypes, NumberTypes DEF WaitsInv, Flushed, NumbersAreNat
<1>3. ASSUME NEW f \in Flow, NEW queue, Queues' = [Queues EXCEPT ![f] = queue],
             queue # << >> => Analyzed[f] < Head(queue).seq
      PROVE  WaitsInv'
  BY <1>1, <1>2, <1>3 DEF WaitsInv, Queues
<1> DEFINE f == Buf!Pkt.id
           pkt == Buf!Pkt
<1>4. pkt \in InLine
  <2>1. pkt_from_parser \in Seq(Packets) /\ pkt_from_parser # << >> /\ pkt = Head(pkt_from_parser)
    BY <1>0, <1>1, PktFacts DEF BufferTypes, Buf!Pkt
  <2>2. Head(pkt_from_parser) \in Range(pkt_from_parser)
    BY <2>1, TailFacts
  <2> QED BY <2>1, <2>2 DEF InLine
<1>5. CASE Buf!PktNewFlow \/ Buf!PktWait
  <2>1. /\ pkt \in Packets /\ f \in Flow
        /\ Queues' = [Queues EXCEPT ![f] = Append(Queues[f], pkt)]
    BY <1>5, PktJoins
  <2>2. Queues[f] = << >> => Analyzed[f] < pkt.seq
    <3>1. CASE Buf!PktNewFlow
      <4>1. f \in Flow \ Known /\ pkt.seq \in Seqs
        BY <1>1, <2>1, <3>1 DEF Buf!PktNewFlow, Buf!Known
      <4> HIDE DEF f, pkt
      <4>2. Analyzed[f] = 0
        BY <1>0, <4>1, KnownAnalyzed
      <4> QED BY <4>1, <4>2, ImisAssumption DEF Seqs
    <3>2. CASE Buf!PktWait
      <4>1. /\ f \in Known
            /\ flow_buffer[f].queue = << >> => pkt.seq > flow_buffer[f].analyzed
        BY <3>2 DEF Buf!PktWait, Buf!Known
      <4>2. pkt.seq \in Nat
        BY <1>1, ImisAssumption DEF Seqs
      <4> HIDE DEF f, pkt
      <4>3. Queues[f] = flow_buffer[f].queue /\ Analyzed[f] = flow_buffer[f].analyzed
            /\ Analyzed[f] \in Nat
        BY <1>0, <1>2, <2>1, <4>1, QueueTypes, KnownAnalyzed
      <4> QED BY <4>1, <4>2, <4>3
    <3> QED BY <1>5, <3>1, <3>2
  <2> HIDE DEF f, pkt
  <2>3. Queues[f] = << >> => Head(Append(Queues[f], pkt)) = pkt
    BY <2>1
  <2>4. Queues[f] # << >> => Head(Append(Queues[f], pkt)) = Head(Queues[f])
    BY <1>2, <2>1
  <2> QED BY <1>2, <1>3, <2>1, <2>2, <2>3, <2>4
<1>6. CASE Buf!PktPass
  BY <1>1, <1>6, PktPasses, WaitsStay
<1>7. CASE Buf!PktOverflow
  <2> DEFINE rest == Tail(Queues[f])
             old == Head(Queues[f])
  <2>1. /\ f \in Flow /\ pkt \in Packets /\ Queues[f] # << >>
        /\ \/ Queues' = [Queues EXCEPT ![f] = rest]
           \/ Queues' = [Queues EXCEPT ![f] = Append(rest, pkt)]
    BY <1>7, PktOverflows
  <2>2. old.seq < pkt.seq
    <3>1. pkt.id = f
      OBVIOUS
    <3> HIDE DEF f, pkt
    <3> QED BY <1>0, <1>4, <2>1, <3>1, QueueHead
  <2>3. pkt.seq \in Nat
    BY <1>1, ImisAssumption DEF Seqs
  <2> HIDE DEF f, pkt
  <2>4. /\ old \in Packets /\ rest \in Seq(Packets)
        /\ \A p \in Range(rest) : old.seq < p.seq
    BY <1>0, <2>1, QueueHead
  <2> HIDE DEF rest, old
  <2>5. Analyzed[f] < old.seq /\ Analyzed[f] \in Nat /\ old.seq \in Nat
    <3>1. old.seq \in Nat
      BY <2>4, ImisAssumption DEF Packets, Seqs
    <3>2. Analyzed[f] < Head(Queues[f]).seq /\ Analyzed[f] \in Nat
      BY <1>2, <2>1
    <3> QED BY <3>1, <3>2 DEF old
  <2>6. rest # << >> => Analyzed[f] < Head(rest).seq
    <3>1. SUFFICES ASSUME rest # << >> PROVE Analyzed[f] < Head(rest).seq
      OBVIOUS
    <3>2. Head(rest) \in Packets /\ Head(rest) \in Range(rest)
      BY <2>4, <3>1, TailFacts
    <3>3. Head(rest).seq \in Nat
      BY <3>2, ImisAssumption DEF Packets, Seqs
    <3> QED BY <2>4, <2>5, <3>2, <3>3
  <2>7. Analyzed[f] < Head(Append(rest, pkt)).seq
    <3>1. rest = << >> => Head(Append(rest, pkt)) = pkt
      BY <2>1
    <3>2. rest # << >> => Head(Append(rest, pkt)) = Head(rest)
      BY <2>1, <2>4
    <3> QED BY <2>2, <2>3, <2>5, <2>6, <3>1, <3>2
  <2> QED BY <1>3, <2>1, <2>6, <2>7
<1> QED BY <1>5, <1>6, <1>7 DEF HandlePkt, Buf!HandlePkt

LEMMA ApplyResultWaits ==
  ASSUME TypeInv, PacketInv, Applying, WaitsInv, ApplyResult
  PROVE  WaitsInv'
<1> DEFINE f == Buf!Result.id
<1>0. BufferTypes /\ result_from_analyzer # << >> /\ f \in Flow
  <2>1. BufferTypes /\ result_from_analyzer # << >>
    BY ApplyResultTypes DEF TypeInv, ApplyResult
  <2> QED BY <2>1, ResultFacts
<1>1. CASE Buf!ResultNewFlow
  <2>1. buffer = "apply" /\ UNCHANGED Queues /\ f \notin Known
    <3>1. buffer = "apply" /\ ~Buf!FlushPkt /\ f \notin Known
      BY <1>1 DEF Buf!ResultNewFlow, Buf!FlushPkt, Buf!Known
    <3> QED BY <3>1, ResultMoves
  <2>2. \A g \in Flow \ {f} : Analyzed'[g] = Analyzed[g]
    BY <1>1, ResultApplies DEF Analyzed
  <2> HIDE DEF f
  <2>3. Queues[f] = << >>
    BY <1>0, <2>1, QueueTypes
  <2> QED BY <2>1, <2>2, <2>3 DEF WaitsInv, Flushed
<1>2. CASE Buf!ResultKnownFlow
  <2>1. buffer = "apply" /\ UNCHANGED Queues
    <3>1. buffer = "apply" /\ ~Buf!FlushPkt
      BY <1>2 DEF Buf!ResultKnownFlow, Buf!FlushPkt
    <3> QED BY <3>1, ResultMoves
  <2>2. \A g \in Flow \ {f} : Analyzed'[g] = Analyzed[g]
    BY <1>2, ResultApplies DEF Analyzed
  <2>3. buffer' = "flush" /\ Buf!Result'.id = f
    BY <1>2 DEF Buf!ResultKnownFlow, Buf!Result
  <2> HIDE DEF f
  <2> QED BY <2>1, <2>2, <2>3 DEF WaitsInv, Flushed
<1>3. CASE Buf!FlushPkt
  <2>1. buffer' = "flush" /\ Buf!Result'.id = f /\ UNCHANGED Analyzed
    <3>1. buffer = "flush" /\ buffer' = buffer /\ UNCHANGED result_from_analyzer
      BY <1>3 DEF Buf!FlushPkt
    <3>2. UNCHANGED Analyzed
      BY <1>3, AnalyzedStays
    <3> QED BY <3>1, <3>2 DEF Buf!Result
  <2>2. Queues' = [Queues EXCEPT ![f] = Tail(Queues[f])]
    BY <1>3, FlushMoves
  <2> HIDE DEF f
  <2>3. \A g \in Flow \ {f} : ~Flushed(g)
    <3>1. buffer = "flush" /\ Buf!Result.id = f
      BY <1>3 DEF Buf!FlushPkt, f
    <3> QED BY <3>1 DEF Flushed
  <2>4. \A g \in Flow \ {f} : Queues'[g] = Queues[g]
    BY <2>2 DEF Queues
  <2> QED BY <2>1, <2>3, <2>4 DEF WaitsInv, Flushed
<1>4. CASE Buf!FlushDone
  <2>1. buffer = "flush" /\ ~Buf!Covered(flow_buffer[f]) /\ f \in Known
    BY <1>4 DEF Buf!FlushDone, Applying
  <2>2. UNCHANGED <<Queues, Analyzed>>
    <3>1. ~Buf!FlushPkt
      BY <2>1 DEF Buf!FlushPkt
    <3> QED BY <1>4, <3>1, ResultMoves, AnalyzedStays
  <2>3. \A g \in Flow \ {f} : ~Flushed(g)
    BY DEF Flushed
  <2> HIDE DEF f
  <2>4. Queues[f] # << >> => Analyzed[f] < Head(Queues[f]).seq
    <3>1. SUFFICES ASSUME Queues[f] # << >> PROVE Analyzed[f] < Head(Queues[f]).seq
      OBVIOUS
    <3> DEFINE a == flow_buffer[f].analyzed
               n == Head(Queues[f]).seq
    <3>2. Queues[f] = flow_buffer[f].queue /\ Analyzed[f] = a /\ Analyzed[f] \in Nat
      BY <1>0, <2>1, QueueTypes, KnownAnalyzed, NumberTypes DEF NumbersAreNat
    <3>3. n \in Nat
      <4>1. Head(Queues[f]) \in Packets
        BY <1>0, <3>1, QueueHead
      <4> QED BY <4>1, ImisAssumption DEF Packets, Seqs
    <3>4. ~(n <= a)
      BY <2>1, <3>1, <3>2 DEF Buf!Covered
    <3> HIDE DEF a, n
    <3>5. Analyzed[f] < n
      BY <3>2, <3>3, <3>4
    <3> QED BY <3>5 DEF n
  <2> QED BY <2>2, <2>3, <2>4 DEF WaitsInv
<1> QED BY <1>1, <1>2, <1>3, <1>4 DEF ApplyResult, Buf!ApplyResult

LEMMA WaitsKept == ImisInv /\ WaitsInv /\ [Next]_vars => WaitsInv'
<1> SUFFICES ASSUME ImisInv, WaitsInv, [Next]_vars PROVE WaitsInv'
  OBVIOUS
<1>0. TypeInv /\ PacketInv /\ Applying
  BY DEF ImisInv
<1>1. CASE UNCHANGED vars
  BY <1>1, WaitsStay DEF vars, bufferVars, Queues, Queue, Analyzed
<1>2. CASE (\E f \in Flow : Parse(f)) \/ PassOn \/ PoolStep \/ AnalyzerStep
  <2>1. UNCHANGED bufferVars
    BY <1>2, PoolFrame, AnalyzerFrame DEF Parse, PassOn, elsePool, elseAnalyzer
  <2> QED BY <2>1, WaitsStay DEF bufferVars, Queues, Queue, Analyzed
<1>3. CASE \/ \E n \in Taken(parser_to_buffer, PktFetch) : FetchPkts(n)
           \/ \E n \in Taken(analyzer_to_buffer, ResultFetch) : FetchResults(n)
  <2>1. buffer # "flush" /\ UNCHANGED flow_buffer
    BY <1>3 DEF FetchPkts, FetchResults, Buf!FetchPkts, Buf!FetchResults
  <2> QED BY <2>1, WaitsStay DEF Queues, Queue, Analyzed
<1> QED BY <1>0, <1>1, <1>2, <1>3, HandlePktWaits, ApplyResultWaits DEF Next, BufferStep

\* Nothing waits that the newest result of its flow covers, in any interleaving
\* of packets that come and results that are applied.
THEOREM PacketsWaitForResults == Spec => []WaitsForResult
<1>1. Init => WaitsInv
  <2> SUFFICES ASSUME Init PROVE WaitsInv
    OBVIOUS
  <2>1. DOMAIN flow_buffer = {}
    BY DEF Init, Buf!InitBuffer
  <2> QED BY <2>1 DEF WaitsInv, Queues, Queue
<1>2. ImisInv /\ WaitsInv => WaitsForResult
  <2> SUFFICES ASSUME ImisInv, WaitsInv, NEW f \in Known, flow_buffer[f].queue # << >>,
                      ~(buffer = "flush" /\ Head(result_from_analyzer).id = f)
               PROVE  Head(flow_buffer[f].queue).seq > flow_buffer[f].analyzed
    BY DEF WaitsForResult
  <2>1. BufferTypes
    BY DEF ImisInv, TypeInv
  <2>2. f \in Flow /\ Queues[f] = flow_buffer[f].queue /\ Analyzed[f] = flow_buffer[f].analyzed
    BY <2>1, QueueTypes, KnownAnalyzed
  <2>3. ~Flushed(f)
    BY DEF Flushed, Buf!Result
  <2>4. Analyzed[f] < Head(Queues[f]).seq
    BY <2>2, <2>3 DEF WaitsInv
  <2>5. Analyzed[f] \in Nat /\ Head(Queues[f]).seq \in Nat
    <3>1. Head(Queues[f]) \in Packets
      BY <2>1, <2>2, QueueHead
    <3>2. Head(Queues[f]).seq \in Nat
      BY <3>1, ImisAssumption DEF Packets, Seqs
    <3> QED BY <2>2, <3>2, NumberTypes DEF ImisInv, NumbersAreNat
  <2> DEFINE n == Head(Queues[f]).seq
             a == Analyzed[f]
  <2>6. n = Head(flow_buffer[f].queue).seq /\ a = flow_buffer[f].analyzed
    BY <2>2
  <2>7. a < n /\ a \in Nat /\ n \in Nat
    BY <2>4, <2>5
  <2> HIDE DEF n, a
  <2>8. n > a
    BY <2>7
  <2> QED BY <2>6, <2>8
<1> QED BY <1>1, <1>2, WaitsKept, PipelineInvariant, PTL DEF Spec
-----------------------------------------------------------------------------
(* The counter of the buffer.                                              *)

\* The places of all queues, by flow.
Places == {e \in Flow \X (Nat \ {0}) : e[2] <= Len(Queues[e[1]])}

PlacesInv == IsFiniteSet(Places) /\ (Running => pkt_num_in_buffer = Cardinality(Places))

LEMMA WaitingPlaces == ASSUME BufferTypes PROVE Waiting = Places
<1>1. ASSUME NEW f \in Known
      PROVE  /\ f \in Flow /\ flow_buffer[f].queue = Queues[f] /\ Len(Queues[f]) \in Nat
             /\ DOMAIN flow_buffer[f].queue = 1 .. Len(Queues[f])
  <2>1. f \in Flow /\ flow_buffer[f].queue = Queues[f] /\ Queues[f] \in Seq(Packets)
    BY QueueTypes
  <2> QED BY <2>1
<1>2. ASSUME NEW e \in Waiting PROVE e \in Places
  <2>1. PICK f \in Known : e \in {f} \X DOMAIN flow_buffer[f].queue
    BY DEF Waiting
  <2>2. e[1] = f /\ e[2] \in 1 .. Len(Queues[f]) /\ e = <<e[1], e[2]>>
    BY <1>1, <2>1
  <2>3. f \in Flow /\ e[2] \in Nat \ {0} /\ e[2] <= Len(Queues[f])
    BY <1>1, <2>2
  <2> QED BY <2>2, <2>3 DEF Places
<1>3. ASSUME NEW e \in Places PROVE e \in Waiting
  <2> DEFINE f == e[1]
             n == e[2]
  <2>1. f \in Flow /\ n \in Nat \ {0} /\ n <= Len(Queues[f]) /\ e = <<f, n>>
    BY DEF Places
  <2> HIDE DEF f, n
  <2>2. f \in Known
    <3>1. SUFFICES ASSUME f \notin Known PROVE FALSE
      OBVIOUS
    <3>2. Len(Queues[f]) = 0
      BY <2>1, <3>1, QueueTypes
    <3> QED BY <2>1, <3>2
  <2>3. n \in 1 .. Len(Queues[f])
    BY <1>1, <2>1, <2>2
  <2>4. e \in {f} \X DOMAIN flow_buffer[f].queue
    BY <1>1, <2>1, <2>2, <2>3
  <2> QED BY <2>2, <2>4 DEF Waiting
<1> QED BY <1>2, <1>3

\* One queue gets longer or shorter by its last place, or keeps its length.
LEMMA PlacesChange ==
  ASSUME BufferTypes, NEW f \in Flow, NEW queue \in Seq(Packets),
         Queues' = [Queues EXCEPT ![f] = queue], IsFiniteSet(Places)
  PROVE  /\ Cardinality(Places) \in Nat
         /\ Len(queue) = Len(Queues[f]) => Places' = Places
         /\ Len(queue) = Len(Queues[f]) + 1 =>
              IsFiniteSet(Places') /\ Cardinality(Places') = Cardinality(Places) + 1
         /\ Queues[f] # << >> /\ Len(queue) = Len(Queues[f]) - 1 =>
              IsFiniteSet(Places') /\ Cardinality(Places') = Cardinality(Places) - 1
<1>1. \A g \in Flow : Len(Queues[g]) \in Nat
  BY QueueTypes
<1>2. Queues'[f] = queue /\ \A g \in Flow \ {f} : Queues'[g] = Queues[g]
  BY DEF Queues
<1>3. \A e : e \in Places <=> /\ e \in Flow \X (Nat \ {0})
                              /\ e[2] <= Len(Queues[e[1]])
  BY DEF Places
<1>4. \A e : e \in Places' <=> /\ e \in Flow \X (Nat \ {0})
                               /\ e[2] <= Len(Queues'[e[1]])
  BY DEF Places
<1>5. \A e \in Flow \X (Nat \ {0}) : e[1] # f => (e \in Places' <=> e \in Places)
  BY <1>2, <1>3, <1>4
<1>6. Len(queue) \in Nat
  OBVIOUS
<1>7. Cardinality(Places) \in Nat
  BY FS_CardinalityType
<1>8. ASSUME Len(queue) = Len(Queues[f]) PROVE Places' = Places
  <2>1. \A g \in Flow : Len(Queues'[g]) = Len(Queues[g])
    BY <1>2, <1>8
  <2> QED BY <2>1, <1>3, <1>4
<1>9. ASSUME NEW n \in Nat \ {0}, NEW S, NEW T,
             S \subseteq Flow \X (Nat \ {0}), T \subseteq Flow \X (Nat \ {0}),
             \A e \in Flow \X (Nat \ {0}) : e[1] # f => (e \in S <=> e \in T),
             \A m \in Nat \ {0} : <<f, m>> \in S <=> m <= n - 1,
             \A m \in Nat \ {0} : <<f, m>> \in T <=> m <= n
      PROVE  T = S \union {<<f, n>>} /\ <<f, n>> \notin S /\ S = T \ {<<f, n>>} /\ <<f, n>> \in T
  <2>1. <<f, n>> \notin S /\ <<f, n>> \in T
    BY <1>9
  <2>2. ASSUME NEW e \in Flow \X (Nat \ {0}), e # <<f, n>> PROVE e \in S <=> e \in T
    <3>1. CASE e[1] # f
      BY <1>9, <3>1
    <3>2. CASE e[1] = f
      <4>1. PICK m \in Nat \ {0} : m = e[2]
        OBVIOUS
      <4>2. e = <<f, m>> /\ m # n
        BY <2>2, <3>2, <4>1
      <4>3. m <= n - 1 <=> m <= n
        BY <4>2
      <4> QED BY <1>9, <4>2, <4>3
    <3> QED BY <3>1, <3>2
  <2> QED BY <1>9, <2>1, <2>2
<1>10. \A m \in Nat \ {0} : /\ <<f, m>> \in Places <=> m <= Len(Queues[f])
                            /\ <<f, m>> \in Places' <=> m <= Len(queue)
  BY <1>2, <1>3, <1>4
<1>11. Places \subseteq Flow \X (Nat \ {0}) /\ Places' \subseteq Flow \X (Nat \ {0})
  BY DEF Places
<1>12. ASSUME Len(queue) = Len(Queues[f]) + 1
       PROVE  IsFiniteSet(Places') /\ Cardinality(Places') = Cardinality(Places) + 1
  <2> DEFINE n == Len(queue)
  <2>1. n \in Nat \ {0} /\ n - 1 = Len(Queues[f])
    BY <1>1, <1>6, <1>12
  <2> HIDE DEF n
  <2>2. \A m \in Nat \ {0} : /\ <<f, m>> \in Places <=> m <= n - 1
                             /\ <<f, m>> \in Places' <=> m <= n
    BY <1>10, <2>1 DEF n
  <2>3. Places' = Places \union {<<f, n>>} /\ <<f, n>> \notin Places
    BY <1>5, <1>9, <1>11, <2>1, <2>2
  <2> QED BY <2>3, FS_AddElement
<1>13. ASSUME Queues[f] # << >>, Len(queue) = Len(Queues[f]) - 1
       PROVE  IsFiniteSet(Places') /\ Cardinality(Places') = Cardinality(Places) - 1
  <2> DEFINE n == Len(Queues[f])
  <2>1. n \in Nat \ {0} /\ n - 1 = Len(queue)
    <3>1. Len(Queues[f]) # 0
      BY <1>13, QueueTypes
    <3> QED BY <1>1, <1>13, <3>1
  <2> HIDE DEF n
  <2>2. \A m \in Nat \ {0} : /\ <<f, m>> \in Places' <=> m <= n - 1
                             /\ <<f, m>> \in Places <=> m <= n
    BY <1>10, <2>1 DEF n
  <2>3. Places' = Places \ {<<f, n>>} /\ <<f, n>> \in Places
    BY <1>5, <1>9, <1>11, <2>1, <2>2
  <2> QED BY <2>3, FS_RemoveElement
<1> QED BY <1>7, <1>8, <1>12, <1>13

LEMMA PlacesKept == ImisInv /\ PlacesInv /\ [Next]_vars => PlacesInv'
<1> SUFFICES ASSUME ImisInv, PlacesInv, [Next]_vars PROVE PlacesInv'
  OBVIOUS
<1>0. TypeInv /\ BufferTypes /\ PacketInv /\ Applying
  BY DEF ImisInv, TypeInv
<1>1. ASSUME UNCHANGED <<Queues, pkt_num_in_buffer, aborted>> PROVE PlacesInv'
  BY <1>1 DEF PlacesInv, Places, Running
<1>2. CASE UNCHANGED vars
  BY <1>1, <1>2 DEF vars, bufferVars, Queues, Queue
<1>3. CASE (\E f \in Flow : Parse(f)) \/ PassOn \/ PoolStep \/ AnalyzerStep
  <2>1. UNCHANGED bufferVars
    BY <1>3, PoolFrame, AnalyzerFrame DEF Parse, PassOn, elsePool, elseAnalyzer
  <2> QED BY <1>1, <2>1 DEF bufferVars, Queues, Queue
<1>4. CASE \/ \E n \in Taken(parser_to_buffer, PktFetch) : FetchPkts(n)
           \/ \E n \in Taken(analyzer_to_buffer, ResultFetch) : FetchResults(n)
  <2>1. UNCHANGED <<flow_buffer, pkt_num_in_buffer, aborted>>
    BY <1>4 DEF FetchPkts, FetchResults, Buf!FetchPkts, Buf!FetchResults
  <2> QED BY <1>1, <2>1 DEF Queues, Queue
<1>5. ASSUME NEW f \in Flow, Queues[f] # << >>
      PROVE  /\ Len(Tail(Queues[f])) = Len(Queues[f]) - 1 /\ Tail(Queues[f]) \in Seq(Packets)
             /\ Len(Queues[f]) \in Nat
  <2>1. Queues[f] \in Seq(Packets)
    BY <1>0, QueueTypes
  <2> QED BY <1>5, <2>1
<1>6. CASE HandlePkt
  <2> DEFINE f == Buf!Pkt.id
             p == Buf!Pkt
  <2>1. CASE Buf!PktNewFlow \/ Buf!PktWait
    <3>1. /\ p \in Packets /\ f \in Flow
          /\ Queues' = [Queues EXCEPT ![f] = Append(Queues[f], p)]
      BY <1>0, <1>6, <2>1, PktJoins
    <3>2. /\ aborted = 0 /\ pkt_num_in_buffer' = pkt_num_in_buffer + 1
      BY <2>1 DEF Buf!PktNewFlow, Buf!PktWait, Buf!Handling
    <3> HIDE DEF f, p
    <3>3. /\ Append(Queues[f], p) \in Seq(Packets)
          /\ Len(Append(Queues[f], p)) = Len(Queues[f]) + 1
      BY <1>0, <3>1, QueueTypes, AppendFacts
    <3>4. IsFiniteSet(Places') /\ Cardinality(Places') = Cardinality(Places) + 1
      BY <1>0, <3>1, <3>3, PlacesChange DEF PlacesInv
    <3> QED BY <3>2, <3>4 DEF PlacesInv, Running
  <2>2. CASE Buf!PktPass
    BY <1>0, <1>1, <1>6, <2>2, PktPasses DEF Buf!PktPass
  <2>3. CASE Buf!PktOverflow
    <3>1. p \in Packets /\ f \in Flow /\ Queues[f] # << >>
      BY <1>0, <1>6, <2>3, PktOverflows
    <3>2. \/ aborted' = 93 /\ Queues' = [Queues EXCEPT ![f] = Tail(Queues[f])]
          \/ /\ aborted = 0 /\ UNCHANGED pkt_num_in_buffer
             /\ Queues' = [Queues EXCEPT ![f] = Append(Tail(Queues[f]), p)]
      <4> DEFINE q == IF Asserting THEN Tail(Queues[f]) ELSE Append(Tail(Queues[f]), p)
      <4>1. f \in Known /\ \E analyzed, type : Rewrites(f, q, analyzed, type)
        <5>1. f \in Known /\ flow_buffer[f].queue = Queues[f]
          BY <1>0, <2>3, PktOverflowRewrites, QueueTypes
        <5> QED BY <1>0, <2>3, <5>1, PktOverflowRewrites
      <4>2. Queues' = [Queues EXCEPT ![f] = q]
        <5> HIDE DEF f, q
        <5> QED BY <1>0, <4>1, RewritesQueues
      <4>3. Asserting => aborted' = 93
        BY <2>3 DEF Buf!PktOverflow
      <4>4. ~Asserting => aborted = 0 /\ UNCHANGED pkt_num_in_buffer
        BY <2>3 DEF Buf!PktOverflow, Buf!Handling
      <4> QED BY <4>2, <4>3, <4>4
    <3> HIDE DEF f, p
    <3>3. Tail(Queues[f]) \in Seq(Packets) /\ Len(Tail(Queues[f])) = Len(Queues[f]) - 1
          /\ Len(Queues[f]) \in Nat
      BY <1>5, <3>1
    <3>4. CASE aborted' = 93 /\ Queues' = [Queues EXCEPT ![f] = Tail(Queues[f])]
      <4>1. IsFiniteSet(Places')
        BY <1>0, <3>1, <3>3, <3>4, PlacesChange DEF PlacesInv
      <4> QED BY <3>4, <4>1 DEF PlacesInv, Running
    <3>5. CASE /\ aborted = 0 /\ UNCHANGED pkt_num_in_buffer
               /\ Queues' = [Queues EXCEPT ![f] = Append(Tail(Queues[f]), p)]
      <4>1. Append(Tail(Queues[f]), p) \in Seq(Packets)
            /\ Len(Append(Tail(Queues[f]), p)) = Len(Queues[f])
        BY <3>1, <3>3
      <4>2. Places' = Places
        BY <1>0, <3>1, <3>5, <4>1, PlacesChange DEF PlacesInv
      <4> QED BY <3>5, <4>2 DEF PlacesInv, Running
    <3> QED BY <3>2, <3>4, <3>5
  <2> QED BY <1>6, <2>1, <2>2, <2>3 DEF HandlePkt, Buf!HandlePkt
<1>7. CASE ApplyResult /\ ~Buf!FlushPkt
  <2>1. UNCHANGED <<Queues, aborted>>
    BY <1>0, <1>7, ResultMoves
  <2>2. UNCHANGED pkt_num_in_buffer
    BY <1>7 DEF ApplyResult, Buf!ApplyResult, Buf!ResultNewFlow, Buf!ResultKnownFlow,
       Buf!FlushDone
  <2> QED BY <1>1, <2>1, <2>2
<1>8. CASE ApplyResult /\ Buf!FlushPkt
  <2> DEFINE f == Buf!Result.id
  <2>1. /\ f \in Flow /\ Queues[f] # << >>
        /\ Queues' = [Queues EXCEPT ![f] = Tail(Queues[f])]
    BY <1>0, <1>8, FlushMoves
  <2>2. aborted = 0 /\ (aborted' = 184 \/ pkt_num_in_buffer' = pkt_num_in_buffer - 1)
    BY <1>8 DEF Buf!FlushPkt
  <2> HIDE DEF f
  <2>3. /\ Tail(Queues[f]) \in Seq(Packets)
        /\ Len(Tail(Queues[f])) = Len(Queues[f]) - 1
    BY <1>5, <2>1
  <2>4. IsFiniteSet(Places') /\ Cardinality(Places') = Cardinality(Places) - 1
    BY <1>0, <2>1, <2>3, PlacesChange DEF PlacesInv
  <2> QED BY <2>2, <2>4 DEF PlacesInv, Running
<1> QED BY <1>2, <1>3, <1>4, <1>6, <1>7, <1>8 DEF Next, BufferStep

\* The number of packets that wait, as the buffer reports it, is exact whatever
\* waits, passes, is pushed out of a full queue or is flushed.
THEOREM CountsPackets == Spec => []BufferCountExact
<1>1. Init => PlacesInv
  <2> SUFFICES ASSUME Init PROVE PlacesInv
    OBVIOUS
  <2>1. DOMAIN flow_buffer = {} /\ pkt_num_in_buffer = 0
    BY DEF Init, Buf!InitBuffer
  <2>2. \A f \in Flow : Len(Queues[f]) = 0
    BY <2>1 DEF Queues, Queue
  <2>3. Places = {}
    BY <2>2 DEF Places
  <2> QED BY <2>1, <2>3, FS_EmptySet DEF PlacesInv
<1>2. ImisInv /\ PlacesInv => BufferCountExact
  BY WaitingPlaces DEF ImisInv, TypeInv, PlacesInv, BufferCountExact
<1> QED BY <1>1, <1>2, PlacesKept, PipelineInvariant, PTL DEF Spec
-----------------------------------------------------------------------------
(* The pipeline implements Forwarder.  First, what it holds of a flow.     *)

Own == [f \in Flow |-> {q \in Range(Queues[f]) \union InLine : q.id = f}]

HeldOf == [f \in Flow |-> Held(f)]

HeldNumbers == HeldOf = [f \in Flow |-> {p.seq : p \in Own[f]}]

LEMMA HeldIsOwn == HeldNumbers
<1>1. ASSUME NEW f \in Flow PROVE Held(f) = {p.seq : p \in Own[f]}
  <2>1. {q \in Range(Queue(f)) \union Range(pkt_from_parser)
                 \union Range(parser_to_buffer) \union Range(parsed) : q.id = f} = Own[f]
    BY DEF Own, Queues, InLine
  <2> QED BY <2>1 DEF Held
<1> QED BY <1>1 DEF HeldOf, HeldNumbers

OwnTyped == \A f \in Flow : \A p \in Own[f] :
  /\ p \in Packets /\ p.id = f /\ p.seq \in Seqs /\ p = [id |-> f, seq |-> p.seq]

LEMMA OwnTypes == TypeInv => OwnTyped
<1> SUFFICES ASSUME TypeInv, NEW f \in Flow, NEW p \in Own[f]
             PROVE  /\ p \in Packets /\ p.id = f /\ p.seq \in Seqs
                    /\ p = [id |-> f, seq |-> p.seq]
  BY DEF OwnTyped
<1>1. p \in Packets /\ p.id = f
  BY QueueTypes, LineTypes DEF Own, TypeInv
<1> QED BY <1>1 DEF Packets

\* A packet more or less is a number more or less.
LEMMA HeldGains ==
  ASSUME NEW f \in Flow, NEW m, Own' = [Own EXCEPT ![f] = Own[f] \union {m}]
  PROVE  HeldOf' = [HeldOf EXCEPT ![f] = HeldOf[f] \union {m.seq}]
<1>1. HeldOf' = [g \in Flow |-> {p.seq : p \in Own'[g]}]
  <2>1. HeldNumbers'
    BY HeldIsOwn, PTL
  <2> QED BY <2>1 DEF HeldNumbers
<1>2. \A g \in Flow : HeldOf'[g] = IF g = f THEN HeldOf[f] \union {m.seq} ELSE HeldOf[g]
  <2>1. ASSUME NEW g \in Flow, g # f PROVE HeldOf'[g] = HeldOf[g]
    BY <1>1, <2>1, HeldIsOwn DEF HeldNumbers, Own
  <2>2. Own'[f] = Own[f] \union {m}
    BY DEF Own
  <2>3. HeldOf'[f] = HeldOf[f] \union {m.seq}
    BY <1>1, <2>2, HeldIsOwn DEF HeldNumbers
  <2> QED BY <2>1, <2>3
<1> QED BY <1>1, <1>2, HeldIsOwn DEF HeldNumbers

LEMMA HeldLoses ==
  ASSUME TypeInv, NEW f \in Flow, NEW m \in Own[f],
         Own' = [Own EXCEPT ![f] = Own[f] \ {m}]
  PROVE  HeldOf' = [HeldOf EXCEPT ![f] = HeldOf[f] \ {m.seq}] /\ m.seq \in HeldOf[f]
<1>1. HeldOf' = [g \in Flow |-> {p.seq : p \in Own'[g]}]
  <2>1. HeldNumbers'
    BY HeldIsOwn, PTL
  <2> QED BY <2>1 DEF HeldNumbers
<1>2. \A p \in Own[f] : p.seq = m.seq => p = m
  BY OwnTypes DEF OwnTyped
<1>3. \A g \in Flow : HeldOf'[g] = IF g = f THEN HeldOf[f] \ {m.seq} ELSE HeldOf[g]
  <2>1. ASSUME NEW g \in Flow, g # f PROVE HeldOf'[g] = HeldOf[g]
    BY <1>1, <2>1, HeldIsOwn DEF HeldNumbers, Own
  <2>2. Own'[f] = Own[f] \ {m}
    BY DEF Own
  <2>3. HeldOf'[f] = HeldOf[f] \ {m.seq}
    BY <1>1, <1>2, <2>2, HeldIsOwn DEF HeldNumbers
  <2> QED BY <2>1, <2>3
<1>4. m.seq \in HeldOf[f]
  BY HeldIsOwn DEF HeldNumbers
<1> QED BY <1>1, <1>3, <1>4, HeldIsOwn DEF HeldNumbers

LEMMA HeldStays == ASSUME UNCHANGED Own PROVE UNCHANGED HeldOf
<1>1. HeldOf' = [g \in Flow |-> {p.seq : p \in Own'[g]}]
  <2>1. HeldNumbers'
    BY HeldIsOwn, PTL
  <2> QED BY <2>1 DEF HeldNumbers
<1> QED BY <1>1, HeldIsOwn DEF HeldNumbers

\* Its place in the line does not matter.
LEMMA OwnStays == ASSUME UNCHANGED <<Queues, InLine>> PROVE UNCHANGED Own
BY DEF Own

LEMMA ParseOwn ==
  ASSUME TypeInv, NEW f \in Flow, Parse(f)
  PROVE  LET m == [id |-> f, seq |-> parser_seq + 1] IN
         Own' = [Own EXCEPT ![f] = Own[f] \union {m}]
<1> DEFINE m == [id |-> f, seq |-> parser_seq + 1]
<1>1. /\ m \in Packets /\ m.id = f /\ parsed = << >> /\ parsed' = <<m>>
      /\ UNCHANGED <<pkt_from_parser, parser_to_buffer, Queues>>
  BY ParseFacts DEF TypeInv, bufferVars, Queues, Queue
<1> HIDE DEF m
<1>2. Range(parsed) = {} /\ Range(parsed') = {m}
  BY <1>1, EmptyFacts DEF Range
<1>3. InLine' = InLine \union {m}
  BY <1>1, <1>2 DEF InLine
<1>4. \A g \in Flow : Own'[g] = IF g = f THEN Own[f] \union {m} ELSE Own[g]
  BY <1>1, <1>3 DEF Own
<1>5. Own' = [Own EXCEPT ![f] = Own[f] \union {m}]
  BY <1>4 DEF Own
<1> QED BY <1>5 DEF m

\* The packet is in the ring, or it is not held any more.
LEMMA PassOnOwn ==
  ASSUME TypeInv, PacketInv, PassOn
  PROVE  LET m == Head(parsed) IN
         /\ m.id \in Flow /\ m \in Own[m.id] /\ m.seq = parser_seq
         /\ Len(parser_to_buffer) < PktCap => UNCHANGED Own
         /\ ~(Len(parser_to_buffer) < PktCap) =>
              Own' = [Own EXCEPT ![m.id] = Own[m.id] \ {m}]
<1> DEFINE m == Head(parsed)
<1>1. /\ m \in InLine /\ Range(parsed) = {m} /\ Range(parsed') = {}
      /\ Range(parser_to_buffer) \subseteq Range(parser_to_buffer')
      /\ Range(parser_to_buffer') \subseteq Range(parser_to_buffer) \union {m}
      /\ Len(parser_to_buffer) < PktCap => m \in Range(parser_to_buffer')
      /\ ~(Len(parser_to_buffer) < PktCap) => parser_to_buffer' = parser_to_buffer
      /\ UNCHANGED <<parser_seq, pkt_from_parser, Queues>>
  BY PassOnMoves
<1>2. m.seq = parser_seq
  BY DEF PassOn, PacketInv, LineInOrder
<1> HIDE DEF m
<1>3. m \in Packets /\ m.id \in Flow /\ m.seq \in Nat
  BY <1>1, LineTypes
<1>4. m \in Own[m.id]
  BY <1>1, <1>3 DEF Own
<1>5. ASSUME Len(parser_to_buffer) < PktCap PROVE UNCHANGED Own
  <2>1. InLine' = InLine
    BY <1>1, <1>5 DEF InLine
  <2> QED BY <1>1, <2>1, OwnStays
<1>6. ASSUME ~(Len(parser_to_buffer) < PktCap) PROVE Own' = [Own EXCEPT ![m.id] = Own[m.id] \ {m}]
  <2>1. m \notin Range(pkt_from_parser) /\ m \notin Range(parser_to_buffer)
    <3>1. Before(Range(pkt_from_parser), {m}) /\ Before(Range(parser_to_buffer), {m})
      BY <1>1 DEF PacketInv, LineInOrder, Before
    <3> QED BY <1>3, <3>1 DEF Before
  <2>2. \A g \in Flow : m \notin Range(Queues[g])
    <3>1. \A g \in Flow : m \in Range(Queues[g]) => m.seq < m.seq
      BY <1>1 DEF PacketInv, QueuesInOrder, Before
    <3> QED BY <1>3, <3>1
  <2>3. InLine' = InLine \ {m}
    BY <1>1, <1>6, <2>1 DEF InLine
  <2>4. \A g \in Flow : Own'[g] = IF g = m.id THEN Own[m.id] \ {m} ELSE Own[g]
    BY <1>1, <1>3, <2>2, <2>3 DEF Own
  <2> QED BY <2>4 DEF Own
<1> QED BY <1>2, <1>3, <1>4, <1>5, <1>6 DEF m

\* The oldest packet of its flow is not held any more.
Leaves(m) == /\ m.id \in Flow /\ m \in Own[m.id]
             /\ Own' = [Own EXCEPT ![m.id] = Own[m.id] \ {m}]
             /\ \A p \in Own[m.id] : m.seq <= p.seq

\* A packet that joins the queue of its flow is held as before.
LEMMA JoinOwn ==
  ASSUME TypeInv, PacketInv, HandlePkt, Buf!PktNewFlow \/ Buf!PktWait
  PROVE  UNCHANGED Own
<1> DEFINE m == Buf!Pkt
           f == Buf!Pkt.id
<1>1. /\ PktMoves /\ m \in Packets /\ f \in Flow
      /\ Queues' = [Queues EXCEPT ![f] = Append(Queues[f], m)]
  BY PktJoins
<1>2. InLine = {m} \union InLine'
  BY <1>1, LineHead DEF PktMoves, PacketInv
<1>3. f = m.id
  OBVIOUS
<1> HIDE DEF m, f
<1>4. Range(Queues'[f]) = Range(Queues[f]) \union {m}
  <2>1. Queues[f] \in Seq(Packets)
    BY <1>1, QueueTypes DEF TypeInv
  <2>2. Queues'[f] = Append(Queues[f], m)
    BY <1>1 DEF Queues
  <2> DEFINE q == Queues[f]
  <2> HIDE DEF q
  <2>3. q \in Seq(Packets) /\ m \in Packets
    BY <1>1, <2>1 DEF q
  <2>4. /\ Append(q, m) \in Seq(Packets) /\ Len(Append(q, m)) = Len(q) + 1
        /\ Range(Append(q, m)) = Range(q) \union {m}
        /\ Ordered(q) /\ Before(Range(q), {m}) => Ordered(Append(q, m))
    BY <2>3, AppendFacts
  <2> QED BY <2>2, <2>4 DEF q
<1>5. \A g \in Flow : g # f => Queues'[g] = Queues[g]
  BY <1>1 DEF Queues
<1>6. \A g \in Flow : Own'[g] = Own[g]
  BY <1>2, <1>3, <1>4, <1>5 DEF Own
<1> QED BY <1>6 DEF Own

LEMMA PassOwn ==
  ASSUME TypeInv, PacketInv, HandlePkt, Buf!PktPass
  PROVE  Leaves(Buf!Pkt)
<1> DEFINE m == Buf!Pkt
<1>1. /\ PktMoves /\ m \in Packets /\ m.id \in Flow /\ Queues[m.id] = << >> /\ UNCHANGED Queues
  BY PktPasses
<1>2. /\ InLine = {m} \union InLine' /\ m \in InLine
      /\ \A p \in InLine' : p.id = m.id => m.seq < p.seq
  BY <1>1, LineHead DEF PktMoves, PacketInv
<1> HIDE DEF m
<1>3. m.seq \in Nat /\ \A p \in InLine' : p.seq \in Nat
  BY <1>1, <1>2, LineTypes
<1>4. m \notin InLine'
  BY <1>2, <1>3
<1>5. Range(Queues[m.id]) = {}
  BY <1>1, EmptyFacts
<1>6. m \in Own[m.id] /\ Own[m.id] = {q \in InLine : q.id = m.id}
  BY <1>1, <1>2, <1>5 DEF Own
<1>7. \A p \in Own[m.id] : m.seq <= p.seq
  BY <1>2, <1>3, <1>6
<1>8. \A g \in Flow : m \in Range(Queues[g]) => g = m.id
  BY DEF PacketInv, QueuesInOrder
<1>9. \A g \in Flow : Own'[g] = IF g = m.id THEN Own[m.id] \ {m} ELSE Own[g]
  BY <1>1, <1>2, <1>4, <1>5, <1>8 DEF Own
<1> QED BY <1>1, <1>6, <1>7, <1>9 DEF Leaves, Own, m

\* The head of a queue leaves; a packet may move from the line to its end.
LEMMA HeadOwn ==
  ASSUME TypeInv, PacketInv, NEW f \in Flow, Queues[f] # << >>, NEW queue,
         Queues' = [Queues EXCEPT ![f] = queue],
         \/ queue = Tail(Queues[f]) /\ InLine' = InLine
         \/ \E p \in Packets : /\ queue = Append(Tail(Queues[f]), p) /\ p.id = f
                               /\ InLine = {p} \union InLine'
  PROVE  Leaves(Head(Queues[f]))
<1> DEFINE m == Head(Queues[f])
           rest == Tail(Queues[f])
<1>1. /\ m \in Packets /\ rest \in Seq(Packets) /\ m.id = f
      /\ Range(Queues[f]) = {m} \union Range(rest)
      /\ \A p \in Range(rest) : p.id = f /\ m.seq < p.seq
      /\ \A p \in InLine : p.id = f => m.seq < p.seq
  BY QueueHead DEF TypeInv, PacketInv
<1> HIDE DEF m, rest
<1>2. m.seq \in Nat /\ (\A p \in Range(rest) : p.seq \in Nat) /\ \A p \in InLine : p.seq \in Nat
  <2>1. \A p \in Packets : p.seq \in Nat
    BY DEF Packets, Seqs
  <2> QED BY <1>1, <2>1, RangeMember, LineTypes
<1>3. m \notin Range(rest) /\ m \notin InLine
  BY <1>1, <1>2
<1>4. Own[f] = {m} \union {q \in Range(rest) \union InLine : q.id = f}
  BY <1>1 DEF Own
<1>5. \A p \in Own[f] : m.seq <= p.seq
  <2>1. ASSUME NEW p \in Own[f] PROVE m.seq <= p.seq
    <3>1. CASE p = m
      BY <1>2, <3>1
    <3>2. CASE p \in Range(rest) \union InLine /\ p.id = f
      <4>1. m.seq < p.seq /\ p.seq \in Nat
        BY <1>1, <1>2, <3>2
      <4> QED BY <1>2, <4>1
    <3> QED BY <1>4, <3>1, <3>2
  <2> QED BY <2>1
<1>6. Queues'[f] = queue /\ \A g \in Flow : g # f => Queues'[g] = Queues[g]
  BY DEF Queues
<1>7. Own'[f] = Own[f] \ {m} /\ \A g \in Flow : g # f => Own'[g] = Own[g]
  <2>1. CASE queue = rest /\ InLine' = InLine
    BY <1>3, <1>4, <1>6, <2>1 DEF Own
  <2>2. ASSUME NEW p \in Packets, queue = Append(rest, p), p.id = f,
               InLine = {p} \union InLine'
        PROVE  Own'[f] = Own[f] \ {m} /\ \A g \in Flow : g # f => Own'[g] = Own[g]
    <3>1. Range(queue) = Range(rest) \union {p}
      <4>1. rest \in Seq(Packets) /\ p \in Packets
        BY <1>1
      <4>2. /\ Append(rest, p) \in Seq(Packets) /\ Len(Append(rest, p)) = Len(rest) + 1
            /\ Range(Append(rest, p)) = Range(rest) \union {p}
            /\ Ordered(rest) /\ Before(Range(rest), {p}) => Ordered(Append(rest, p))
        BY <4>1, AppendFacts
      <4> QED BY <2>2, <4>2
    <3>2. Own'[f] = Own[f] \ {m}
      BY <1>3, <1>4, <1>6, <2>2, <3>1 DEF Own
    <3>3. \A g \in Flow : g # f => Own'[g] = Own[g]
      BY <1>6, <2>2 DEF Own
    <3> QED BY <3>2, <3>3
  <2> QED BY <2>1, <2>2 DEF rest
<1>8. Own' = [Own EXCEPT ![f] = Own[f] \ {m}]
  BY <1>7 DEF Own
<1>9. Leaves(m)
  BY <1>1, <1>4, <1>5, <1>8 DEF Leaves
<1> QED BY <1>9 DEF m

LEMMA OverflowOwn ==
  ASSUME TypeInv, PacketInv, HandlePkt, Buf!PktOverflow
  PROVE  Leaves(Head(Queues[Buf!Pkt.id]))
<1> DEFINE f == Buf!Pkt.id
           p == Buf!Pkt
<1>1. /\ f \in Flow /\ p \in Packets /\ Queues[f] # << >>
      /\ \/ LineStays /\ Queues' = [Queues EXCEPT ![f] = Tail(Queues[f])]
         \/ PktMoves /\ Queues' = [Queues EXCEPT ![f] = Append(Tail(Queues[f]), p)]
  BY PktOverflows
<1>2. LineStays => InLine' = InLine
  BY DEF LineStays, InLine
<1>3. PktMoves => InLine = {p} \union InLine'
  BY LineHead DEF PktMoves, PacketInv
<1>4. p.id = f
  OBVIOUS
<1> HIDE DEF f, p
<1>5. Leaves(Head(Queues[f]))
  BY <1>1, <1>2, <1>3, <1>4, HeadOwn
<1> QED BY <1>5 DEF f

LEMMA FlushOwn ==
  ASSUME TypeInv, PacketInv, Applying, ApplyResult, Buf!FlushPkt
  PROVE  Leaves(Head(Queues[Buf!Result.id]))
<1> DEFINE f == Buf!Result.id
<1>1. /\ f \in Flow /\ LineStays /\ Queues[f] # << >>
      /\ Queues' = [Queues EXCEPT ![f] = Tail(Queues[f])]
  BY FlushMoves
<1>2. InLine' = InLine
  BY <1>1 DEF LineStays, InLine
<1> HIDE DEF f
<1>3. Leaves(Head(Queues[f]))
  BY <1>1, <1>2, HeadOwn
<1> QED BY <1>3 DEF f
-----------------------------------------------------------------------------
(* Then the steps of Forwarder that the steps of the pipeline are.         *)

\* Which packets of a flow have come.
SeenOf == [f \in Flow |-> {s \in Seqs : Promise!Seen(f, s)}]

\* What the pool has been told, knows and will say of a flow is about a packet of
\* that flow which has come; the analyzer repeats what it was told.
MetadataCame == \A m \in Unpooled : m.seq \in SeenOf[m.id]
RecordsCame == \A f \in Recorded : flow_record[f].seq \in SeenOf[f]

Speaking == Range(Pending) \union Range(input_item)
ItemsCame ==
  \A x \in Speaking : \E s \in SeenOf[x.id] : s <= parser_seq /\ x.seq \in {s, s + Mark}

Sourced == MetadataCame /\ RecordsCame /\ ItemsCame

\* The assert of line 184 ends the process with a packet that is nowhere.
SeenInv == aborted # 184 => Sourced

LEMMA StutterStep ==
  ASSUME UNCHANGED <<parser_seq, Own, leaving, freed, verdicts>>
  PROVE  UNCHANGED Promise!vars
<1>1. UNCHANGED HeldOf
  BY HeldStays
<1> QED BY <1>1 DEF Promise!vars, HeldOf

LEMMA ReceiveStep ==
  ASSUME TypeInv, NEW f \in Flow, Parse(f)
  PROVE  Promise!Receive(f) /\ parser_seq' \in Seqs /\ parser_seq' \in HeldOf'[f]
<1> DEFINE m == [id |-> f, seq |-> parser_seq + 1]
<1>1. /\ parser_seq' = parser_seq + 1 /\ parser_seq' \in Seqs
      /\ UNCHANGED <<freed, leaving, verdicts>>
  BY ParseFacts DEF TypeInv, bufferVars
<1>2. Own' = [Own EXCEPT ![f] = Own[f] \union {m}] /\ m.seq = parser_seq'
  BY <1>1, ParseOwn
<1> HIDE DEF m
<1>3. HeldOf' = [HeldOf EXCEPT ![f] = HeldOf[f] \union {m.seq}]
  BY <1>2, HeldGains
<1>4. HeldOf' = [HeldOf EXCEPT ![f] = HeldOf[f] \union {parser_seq'}]
  BY <1>2, <1>3
<1>5. parser_seq' \in HeldOf'[f]
  BY <1>4 DEF HeldOf
<1>6. Promise!Receive(f)
  BY <1>1, <1>4 DEF Promise!Receive, HeldOf
<1> QED BY <1>1, <1>5, <1>6

LEMMA PassOnStep ==
  ASSUME TypeInv, PacketInv, PassOn
  PROVE  UNCHANGED Promise!vars \/ \E f \in Flow : Promise!Drop(f)
<1> DEFINE m == Head(parsed)
<1>1. /\ m.id \in Flow /\ m \in Own[m.id] /\ m.seq = parser_seq
      /\ Len(parser_to_buffer) < PktCap => UNCHANGED Own
      /\ ~(Len(parser_to_buffer) < PktCap) => Own' = [Own EXCEPT ![m.id] = Own[m.id] \ {m}]
  BY PassOnOwn
<1>2. /\ UNCHANGED <<parser_seq, leaving, verdicts>>
      /\ freed' = IF Len(parser_to_buffer) < PktCap THEN freed ELSE freed \union {m}
  BY PassOnFacts DEF TypeInv, bufferVars, historyVars
<1> HIDE DEF m
<1>3. CASE Len(parser_to_buffer) < PktCap
  BY <1>1, <1>2, <1>3, StutterStep
<1>4. CASE ~(Len(parser_to_buffer) < PktCap)
  <2>1. /\ HeldOf' = [HeldOf EXCEPT ![m.id] = HeldOf[m.id] \ {m.seq}]
        /\ m.seq \in HeldOf[m.id]
    BY <1>1, <1>4, HeldLoses
  <2>2. m = Promise!Packet(m.id, parser_seq)
    BY <1>1, OwnTypes DEF OwnTyped, Promise!Packet
  <2>3. Promise!Drop(m.id)
    BY <1>1, <1>2, <1>4, <2>1, <2>2 DEF Promise!Drop, HeldOf
  <2> QED BY <1>1, <2>3
<1> QED BY <1>3, <1>4

\* The oldest packet of its flow leaves.
LEMMA LetOutStep ==
  ASSUME TypeInv, NEW m, Leaves(m), NEW type, NEW by, Buf!Send(m, type, by),
         UNCHANGED <<parser_seq, freed, verdicts>>
  PROVE  Promise!LetOut(m.id, m.seq, type, by) /\ m.seq \in HeldOf[m.id] /\ m.id \in Flow
<1>1. /\ m.id \in Flow /\ m \in Own[m.id] /\ \A p \in Own[m.id] : m.seq <= p.seq
      /\ Own' = [Own EXCEPT ![m.id] = Own[m.id] \ {m}]
  BY DEF Leaves
<1>2. /\ HeldOf' = [HeldOf EXCEPT ![m.id] = HeldOf[m.id] \ {m.seq}]
      /\ m.seq \in HeldOf[m.id]
  BY <1>1, HeldLoses
<1>3. \A other \in HeldOf[m.id] : m.seq <= other
  BY <1>1, HeldIsOwn DEF HeldNumbers
<1>4. leaving' = Append(leaving, [id |-> m.id, seq |-> m.seq, type |-> type, by |-> by])
  BY DEF Buf!Send
<1>5. Promise!LetOut(m.id, m.seq, type, by)
  BY <1>2, <1>3, <1>4 DEF Promise!LetOut, HeldOf
<1> QED BY <1>1, <1>2, <1>5

\* A packet that leaves with the class of its flow leaves with a verdict.
LEMMA ClassifiedStep ==
  ASSUME ImisInv, NEW m \in Packets, Leaves(m), m.id \in Known,
         m.seq <= flow_buffer[m.id].analyzed,
         Buf!Send(m, flow_buffer[m.id].type, flow_buffer[m.id].analyzed),
         UNCHANGED <<parser_seq, freed, verdicts>>
  PROVE  \E v \in verdicts : \E seq \in HeldOf[v.id] : Promise!Classified(v, seq)
<1> DEFINE f == m.id
           v == Said[f]
<1>0. TypeInv /\ BufferTypes /\ Judged
  BY DEF ImisInv, TypeInv
<1>1. /\ f \in Flow
      /\ Promise!LetOut(f, m.seq, flow_buffer[f].type, flow_buffer[f].analyzed)
      /\ m.seq \in HeldOf[f]
  BY <1>0, LetOutStep
<1>2. v = Verdict(f, flow_buffer[f].analyzed, flow_buffer[f].type)
      /\ Analyzed[f] = flow_buffer[f].analyzed
  BY <1>0, KnownSaid, KnownAnalyzed
<1>3. v.id = f /\ v.seq = flow_buffer[f].analyzed /\ v.type = flow_buffer[f].type
  BY <1>2 DEF Verdict
<1>4. v \in verdicts
  <2>1. m.seq \in Nat \ {0} /\ Analyzed[f] \in Nat
    BY <1>0, <1>1, NumberTypes DEF NumbersAreNat, Packets, Seqs
  <2>2. Analyzed[f] # 0
    <3>1. m.seq <= Analyzed[f]
      BY <1>2
    <3> HIDE DEF f
    <3> QED BY <2>1, <3>1
  <2> QED BY <1>0, <1>1, <2>2 DEF Judged
<1>5. \A i \in 1 .. Len(leaving) : leaving[i].id = f => leaving[i].by <= v.seq
  BY <1>0, <1>2, <1>3 DEF Judged
<1>6. m.seq <= v.seq
  BY <1>3
<1> HIDE DEF f, v
<1>7. Promise!Classified(v, m.seq) /\ m.seq \in HeldOf[v.id]
  BY <1>1, <1>3, <1>5, <1>6 DEF Promise!Classified
<1> QED BY <1>4, <1>7

\* What the analyzer says of a flow is about a packet that has come.
LEMMA JudgeStep ==
  ASSUME ImisInv, SeenInv, NEW type \in PktType, EmitResult(type)
  PROVE  \E f \in Flow, seq \in 1 .. parser_seq, complete \in BOOLEAN :
           Promise!Judge(f, seq, complete, type)
<1> DEFINE item == input_item_c[emitted + 1]
           v == [id |-> item.id, seq |-> item.seq, type |-> type]
<1>0. TypeInv /\ ExchangeInv /\ BatchInv /\ Sourced
  BY DEF ImisInv, SeenInv, EmitResult, Running
<1>1. item.id \in Flow /\ item \in Range(Pending)
  <2>1. item = Head(Pending) /\ Pending # << >>
    BY <1>0, EmitMoves
  <2>2. Pending \in Seq(Items)
    BY <1>0, ResultTypesHold DEF BatchInv, ResultTypes, ImisInv
  <2>3. Head(Pending) \in Items /\ Head(Pending) \in Range(Pending)
    BY <2>1, <2>2, TailFacts
  <2> QED BY <2>1, <2>3 DEF Items
<1>2. verdicts' = verdicts \union {v}
  BY DEF EmitResult
<1>3. UNCHANGED <<parser_seq, Own, leaving, freed>>
  BY DEF EmitResult, elseAnalyzer, parserVars, bufferVars, Own, Queues, Queue, InLine
<1>4. PICK s \in SeenOf[item.id] : s <= parser_seq /\ item.seq \in {s, s + Mark}
  BY <1>0, <1>1 DEF Sourced, ItemsCame, Speaking
<1>5. s \in 1 .. parser_seq /\ Promise!Seen(item.id, s)
  <2>1. s \in Seqs /\ Promise!Seen(item.id, s)
    BY <1>1, <1>4 DEF SeenOf
  <2>2. parser_seq \in Nat
    BY <1>0 DEF TypeInv, ParserTypes
  <2> QED BY <1>4, <2>1, <2>2 DEF Seqs
<1> DEFINE complete == item.seq # s
<1>6. v = [id |-> item.id, seq |-> IF complete THEN s + Mark ELSE s, type |-> type]
  BY <1>4
<1>7. UNCHANGED HeldOf
  BY <1>3, HeldStays
<1>8. complete \in BOOLEAN
  OBVIOUS
<1> HIDE DEF item, v, complete
<1>9. Promise!Judge(item.id, s, complete, type)
  BY <1>2, <1>3, <1>5, <1>6, <1>7 DEF Promise!Judge, HeldOf
<1> QED BY <1>1, <1>5, <1>8, <1>9

LEMMA HandlePktRefines ==
  ASSUME ImisInv, HandlePkt
  PROVE  Promise!Next \/ UNCHANGED Promise!vars
<1>0. TypeInv /\ PacketInv /\ BufferTypes /\ QueuesInOrder
  BY DEF ImisInv, TypeInv, PacketInv
<1>1. UNCHANGED <<parser_seq, freed, verdicts>>
  BY DEF HandlePkt, elseBuffer, parserVars, historyVars
<1>2. CASE Buf!PktNewFlow \/ Buf!PktWait
  <2>1. UNCHANGED <<Own, leaving>>
    BY <1>0, <1>2, JoinOwn, PktJoins
  <2> QED BY <1>1, <2>1, StutterStep
<1>3. CASE Buf!PktPass
  <2> DEFINE m == Buf!Pkt
  <2>1. /\ m \in Packets /\ m.id \in Known /\ m.seq <= flow_buffer[m.id].analyzed
        /\ Buf!Send(m, flow_buffer[m.id].type, flow_buffer[m.id].analyzed)
    BY <1>0, <1>3, PktPasses
  <2>2. Leaves(m)
    BY <1>0, <1>3, PassOwn
  <2> HIDE DEF m
  <2>3. \E v \in verdicts : \E seq \in HeldOf[v.id] : Promise!Classified(v, seq)
    BY <1>1, <2>1, <2>2, ClassifiedStep
  <2> QED BY <2>3 DEF Promise!Next, HeldOf
<1>4. CASE Buf!PktOverflow
  <2> DEFINE f == Buf!Pkt.id
             m == Head(Queues[f])
  <2>1. f \in Flow /\ Buf!Send(m, 0, 0)
    BY <1>0, <1>4, PktOverflows
  <2>2. Leaves(m)
    BY <1>0, <1>4, OverflowOwn
  <2> HIDE DEF m
  <2>3. Promise!LetOut(m.id, m.seq, 0, 0) /\ m.seq \in HeldOf[m.id] /\ m.id \in Flow
    BY <1>0, <1>1, <2>1, <2>2, LetOutStep
  <2> QED BY <2>3 DEF Promise!Next, Promise!Unclassified, HeldOf
<1> QED BY <1>2, <1>3, <1>4 DEF HandlePkt, Buf!HandlePkt

LEMMA ApplyResultRefines ==
  ASSUME ImisInv, ApplyResult
  PROVE  Promise!Next \/ UNCHANGED Promise!vars \/ aborted' = 184
<1>0. TypeInv /\ PacketInv /\ Applying /\ BufferTypes
  BY DEF ImisInv, TypeInv
<1>1. UNCHANGED <<parser_seq, freed, verdicts>>
  BY DEF ApplyResult, elseBuffer, parserVars, historyVars
<1>2. CASE ~Buf!FlushPkt
  <2>1. UNCHANGED <<Own, leaving>>
    <3>1. LineStays /\ UNCHANGED <<Queues, leaving>>
      BY <1>0, <1>2, ResultMoves
    <3> QED BY <3>1, OwnStays DEF LineStays, InLine
  <2> QED BY <1>1, <2>1, StutterStep
<1>3. CASE Buf!FlushPkt /\ aborted' # 184
  <2> DEFINE f == Buf!Result.id
             m == Head(Queues[f])
  <2>1. /\ f \in Known /\ f \in Flow /\ flow_buffer[f].queue = Queues[f] /\ Queues[f] # << >>
        /\ m.seq <= flow_buffer[f].analyzed
        /\ Buf!Send(m, flow_buffer[f].type, flow_buffer[f].analyzed)
    BY <1>0, <1>3, FlushMoves
  <2>2. Leaves(m)
    BY <1>0, <1>3, FlushOwn
  <2> HIDE DEF f
  <2>3. m \in Packets /\ m.id = f
    BY <1>0, <2>1, QueueHead DEF PacketInv
  <2> HIDE DEF m
  <2>4. /\ m.id \in Known /\ m.seq <= flow_buffer[m.id].analyzed
        /\ Buf!Send(m, flow_buffer[m.id].type, flow_buffer[m.id].analyzed)
    BY <2>1, <2>3
  <2>5. \E v \in verdicts : \E seq \in HeldOf[v.id] : Promise!Classified(v, seq)
    BY <1>1, <2>2, <2>3, <2>4, ClassifiedStep
  <2> QED BY <2>5 DEF Promise!Next, HeldOf
<1> QED BY <1>2, <1>3

LEMMA StepRefines ==
  ImisInv /\ SeenInv /\ Next => Promise!Next \/ UNCHANGED Promise!vars \/ aborted' = 184
<1> SUFFICES ASSUME ImisInv, SeenInv, Next
             PROVE  Promise!Next \/ UNCHANGED Promise!vars \/ aborted' = 184
  OBVIOUS
<1>0. TypeInv /\ PacketInv
  BY DEF ImisInv
<1>1. ASSUME NEW f \in Flow, Parse(f) PROVE Promise!Next
  BY <1>0, <1>1, ReceiveStep DEF Promise!Next
<1>2. CASE PassOn
  BY <1>0, <1>2, PassOnStep DEF Promise!Next
<1>3. CASE PoolStep \/ Ask
  <2>1. UNCHANGED <<parserVars, parser_to_buffer, bufferVars, verdicts>>
    BY <1>3, PoolFrame DEF elsePool, Ask, elseAnalyzer, historyVars
  <2>2. UNCHANGED <<parser_seq, Own, leaving, freed, verdicts>>
    BY <2>1 DEF parserVars, bufferVars, Own, Queues, Queue, InLine
  <2> QED BY <2>2, StutterStep
<1>4. ASSUME NEW type \in PktType, EmitResult(type) PROVE Promise!Next
  <2>1. PICK f \in Flow, seq \in 1 .. parser_seq, complete \in BOOLEAN :
          Promise!Judge(f, seq, complete, type)
    BY <1>4, JudgeStep
  <2> QED BY <2>1 DEF Promise!Next
<1>5. ASSUME NEW n \in Taken(parser_to_buffer, PktFetch), FetchPkts(n)
      PROVE  UNCHANGED Promise!vars
  <2>1. UNCHANGED Own
    BY <1>0, <1>5, FetchPktsMoves, OwnStays
  <2>2. UNCHANGED <<parser_seq, leaving, freed, verdicts>>
    BY <1>5 DEF FetchPkts, Buf!FetchPkts, elseBuffer, parserVars, historyVars
  <2> QED BY <2>1, <2>2, StutterStep
<1>6. ASSUME NEW n \in Taken(analyzer_to_buffer, ResultFetch), FetchResults(n)
      PROVE  UNCHANGED Promise!vars
  <2>1. UNCHANGED <<parser_seq, Own, leaving, freed, verdicts>>
    BY <1>6 DEF FetchResults, Buf!FetchResults, elseBuffer, parserVars, historyVars, Own,
       Queues, Queue, InLine
  <2> QED BY <2>1, StutterStep
<1> QED BY <1>1, <1>2, <1>3, <1>4, <1>5, <1>6, HandlePktRefines, ApplyResultRefines
        DEF Next, AnalyzerStep, BufferStep

\* A packet that has come is never forgotten.
LEMMA SeenGrows ==
  ASSUME TypeInv, Promise!Next \/ UNCHANGED Promise!vars
  PROVE  \A f \in Flow : SeenOf[f] \subseteq SeenOf'[f]
<1>1. ASSUME freed \subseteq freed',
             leaving' = leaving \/ \E d : leaving' = Append(leaving, d),
             \A f \in Flow : \A s \in HeldOf[f] :
               \/ s \in HeldOf'[f] \/ Promise!Packet(f, s) \in freed'
               \/ \E i \in 1 .. Len(leaving') : leaving'[i].id = f /\ leaving'[i].seq = s
      PROVE  \A f \in Flow : SeenOf[f] \subseteq SeenOf'[f]
  <2>1. \A i \in 1 .. Len(leaving) : i \in 1 .. Len(leaving') /\ leaving'[i] = leaving[i]
    <3>1. ASSUME NEW d, leaving' = Append(leaving, d)
          PROVE  \A i \in 1 .. Len(leaving) : i \in 1 .. Len(leaving') /\ leaving'[i] = leaving[i]
      <4>1. leaving \in Seq(Departures \union {d}) /\ Len(leaving) \in Nat
        BY DEF TypeInv, BufferTypes
      <4>2. /\ Len(Append(leaving, d)) = Len(leaving) + 1
            /\ \A i \in 1 .. Len(leaving) : Append(leaving, d)[i] = leaving[i]
        BY <4>1, AppendProperties
      <4> QED BY <3>1, <4>1, <4>2
    <3> QED BY <1>1, <3>1
  <2>2. ASSUME NEW f \in Flow, NEW s \in Seqs, Promise!Seen(f, s) PROVE Promise!Seen(f, s)'
    <3>1. \/ s \in HeldOf[f] \/ Promise!Packet(f, s) \in freed
          \/ \E i \in 1 .. Len(leaving) : leaving[i].id = f /\ leaving[i].seq = s
      BY <2>2 DEF Promise!Seen, HeldOf
    <3>2. \/ s \in HeldOf'[f] \/ Promise!Packet(f, s) \in freed'
          \/ \E i \in 1 .. Len(leaving') : leaving'[i].id = f /\ leaving'[i].seq = s
      BY <1>1, <2>1, <3>1
    <3> QED BY <3>2 DEF Promise!Seen, HeldOf, Promise!Packet
  <2> QED BY <2>2 DEF SeenOf
<1>2. CASE UNCHANGED Promise!vars
  <2>1. UNCHANGED <<HeldOf, leaving, freed>>
    BY <1>2 DEF Promise!vars, HeldOf
  <2> QED BY <1>1, <2>1
<1>3. ASSUME NEW f \in Flow, Promise!Receive(f)
      PROVE  \A g \in Flow : SeenOf[g] \subseteq SeenOf'[g]
  <2>1. HeldOf' = [HeldOf EXCEPT ![f] = HeldOf[f] \union {parser_seq'}]
        /\ UNCHANGED <<leaving, freed>>
    BY <1>3 DEF Promise!Receive, HeldOf
  <2>2. \A g \in Flow : HeldOf[g] \subseteq HeldOf'[g]
    BY <2>1 DEF HeldOf
  <2> QED BY <1>1, <2>1, <2>2
<1>4. ASSUME NEW f \in Flow, Promise!Drop(f)
      PROVE  \A g \in Flow : SeenOf[g] \subseteq SeenOf'[g]
  <2>1. /\ HeldOf' = [HeldOf EXCEPT ![f] = HeldOf[f] \ {parser_seq}]
        /\ freed' = freed \union {Promise!Packet(f, parser_seq)} /\ UNCHANGED leaving
    BY <1>4 DEF Promise!Drop, HeldOf
  <2>2. \A g \in Flow : \A s \in HeldOf[g] : s \in HeldOf'[g] \/ (g = f /\ s = parser_seq)
    BY <2>1 DEF HeldOf
  <2> QED BY <1>1, <2>1, <2>2
<1>5. ASSUME NEW f \in Flow, NEW s, NEW type, NEW by, Promise!LetOut(f, s, type, by)
      PROVE  \A g \in Flow : SeenOf[g] \subseteq SeenOf'[g]
  <2> DEFINE d == [id |-> f, seq |-> s, type |-> type, by |-> by]
  <2>1. /\ HeldOf' = [HeldOf EXCEPT ![f] = HeldOf[f] \ {s}]
        /\ leaving' = Append(leaving, d) /\ UNCHANGED freed
    BY <1>5 DEF Promise!LetOut, HeldOf
  <2>2. d.id = f /\ d.seq = s
    OBVIOUS
  <2> HIDE DEF d
  <2>3. \A g \in Flow : \A t \in HeldOf[g] : t \in HeldOf'[g] \/ (g = f /\ t = s)
    BY <2>1 DEF HeldOf
  <2>4. \E i \in 1 .. Len(leaving') : leaving'[i].id = f /\ leaving'[i].seq = s
    <3>1. leaving \in Seq(Departures \union {d}) /\ Len(leaving) \in Nat
      BY DEF TypeInv, BufferTypes
    <3>2. /\ Len(Append(leaving, d)) = Len(leaving) + 1
          /\ Append(leaving, d)[Len(leaving) + 1] = d
      BY <3>1, AppendProperties
    <3>3. Len(leaving) + 1 \in 1 .. Len(leaving')
      BY <2>1, <3>1, <3>2
    <3> QED BY <2>1, <2>2, <3>2, <3>3
  <2> QED BY <1>1, <2>1, <2>3, <2>4
<1>6. ASSUME NEW f \in Flow, NEW seq, NEW complete, NEW type,
             Promise!Judge(f, seq, complete, type)
      PROVE  \A g \in Flow : SeenOf[g] \subseteq SeenOf'[g]
  <2>1. UNCHANGED <<HeldOf, leaving, freed>>
    BY <1>6 DEF Promise!Judge, HeldOf
  <2> QED BY <1>1, <2>1
<1>7. ASSUME NEW v \in verdicts, NEW seq, Promise!Classified(v, seq)
      PROVE  \A g \in Flow : SeenOf[g] \subseteq SeenOf'[g]
  <2>1. v.id \in Flow
    BY DEF TypeInv, AnalyzerTypes, Verdicts
  <2> QED BY <1>5, <1>7, <2>1 DEF Promise!Classified
<1> QED BY <1>2, <1>3, <1>4, <1>5, <1>6, <1>7 DEF Promise!Next, Promise!Unclassified

\* What has come keeps having come.
LEMMA CameStays ==
  ASSUME ImisInv, TypeInv', Sourced, parser_seq' \in {parser_seq, parser_seq + 1},
         \A f \in Flow : SeenOf[f] \subseteq SeenOf'[f]
  PROVE  /\ Unpooled' \subseteq Unpooled => MetadataCame'
         /\ UNCHANGED flow_record => RecordsCame'
         /\ Speaking' \subseteq Speaking => ItemsCame'
<1>0. TypeInv /\ parser_seq \in Nat /\ parser_seq' \in Nat
  BY DEF ImisInv, TypeInv, ParserTypes
<1>1. ASSUME Unpooled' \subseteq Unpooled PROVE MetadataCame'
  <2>1. \A m \in Unpooled : m.id \in Flow /\ m.seq \in SeenOf[m.id]
    BY <1>0, UnpooledTypes DEF Sourced, MetadataCame
  <2>2. \A m \in Unpooled' : m.seq \in SeenOf'[m.id]
    BY <1>1, <2>1
  <2> QED BY <2>2 DEF MetadataCame
<1>2. ASSUME UNCHANGED flow_record PROVE RecordsCame'
  <2>1. \A f \in Recorded : f \in Flow /\ flow_record[f].seq \in SeenOf[f]
    BY <1>0 DEF TypeInv, PoolTypes, Sourced, RecordsCame
  <2> QED BY <1>2, <2>1 DEF RecordsCame
<1>3. ASSUME Speaking' \subseteq Speaking PROVE ItemsCame'
  <2>1. ASSUME NEW x \in Speaking
        PROVE  \E s \in SeenOf'[x.id] : s <= parser_seq' /\ x.seq \in {s, s + Mark}
    <3>1. x.id \in Flow
      BY <1>0, ResultTypesHold DEF ImisInv, BatchInv, Ahead, Speaking
    <3>2. PICK s \in SeenOf[x.id] : s <= parser_seq /\ x.seq \in {s, s + Mark}
      BY DEF Sourced, ItemsCame
    <3>3. s \in SeenOf'[x.id] /\ s \in Nat
      BY <3>1, <3>2 DEF SeenOf, Seqs
    <3>4. s <= parser_seq'
      BY <1>0, <3>2, <3>3
    <3> QED BY <3>2, <3>3, <3>4
  <2> QED BY <1>3, <2>1 DEF ItemsCame
<1> QED BY <1>1, <1>2, <1>3

\* The sequence number of a packet that is parsed has come.
LEMMA ParseSourced ==
  ASSUME ImisInv, TypeInv', Sourced, NEW f \in Flow, Parse(f),
         \A g \in Flow : SeenOf[g] \subseteq SeenOf'[g]
  PROVE  Sourced'
<1> DEFINE new == [id |-> f, seq |-> parser_seq + 1]
<1>0. TypeInv
  BY DEF ImisInv
<1>1. /\ new \in Packets /\ parser_seq' = parser_seq + 1
      /\ parser_to_pool' \in {parser_to_pool, Enqueue(parser_to_pool, MetadataCap, new)}
      /\ UNCHANGED <<flow_record, metadata_from_parser, Pending, input_item>>
  BY <1>0, ParseFacts DEF TypeInv, poolVars, handVars, flagVars, Pending, Answering
<1>2. new.id = f /\ new.seq = parser_seq'
  BY <1>1
<1> HIDE DEF new
<1>3. new.seq \in SeenOf'[f]
  <2>1. parser_seq' \in Seqs /\ parser_seq' \in HeldOf'[f]
    BY <1>0, ReceiveStep
  <2>2. SeenOf' = [g \in Flow |-> {s \in Seqs : Promise!Seen(g, s)'}]
    BY DEF SeenOf
  <2>3. Promise!Seen(f, parser_seq)'
    BY <2>1 DEF Promise!Seen, HeldOf
  <2> QED BY <1>2, <2>1, <2>2, <2>3 DEF Promise!Seen, HeldOf
<1>4. Unpooled' \subseteq Unpooled \union {new}
  <2>1. parser_to_pool \in Seq(Packets)
    BY <1>0 DEF TypeInv, ParserTypes
  <2>2. Range(Enqueue(parser_to_pool, MetadataCap, new)) \subseteq Range(parser_to_pool) \union {new}
    BY <1>1, <2>1, EnqueueFacts
  <2> QED BY <1>1, <2>2 DEF Unpooled
<1>5. MetadataCame'
  <2>1. \A m \in Unpooled : m.seq \in SeenOf'[m.id]
    BY <1>0, UnpooledTypes DEF Sourced, MetadataCame
  <2> QED BY <1>2, <1>3, <1>4, <2>1 DEF MetadataCame
<1>6. RecordsCame' /\ ItemsCame'
  BY <1>1, CameStays DEF Speaking
<1> QED BY <1>5, <1>6 DEF Sourced

\* A flow's record is as of a packet whose metadata the pool has been given.
LEMMA InPoolSourced ==
  ASSUME ImisInv, TypeInv', Sourced, InPool,
         \A g \in Flow : SeenOf[g] \subseteq SeenOf'[g]
  PROVE  Sourced'
<1> DEFINE m == Head(metadata_from_parser)
           rest == Tail(metadata_from_parser)
<1>0. TypeInv /\ PoolTypes /\ metadata_from_parser \in Seq(Packets)
  BY DEF ImisInv, TypeInv, PoolTypes
<1>1. /\ m \in Packets /\ metadata_from_parser # << >>
      /\ metadata_from_parser' = rest
      /\ \/ m.id \in Recorded /\ UNCHANGED <<flow_record, flow_priority>>
         \/ /\ Recorded' = Recorded \union {m.id}
            /\ flow_record'[m.id].seq = m.seq
            /\ \A g \in Recorded \ {m.id} : flow_record'[g] = flow_record[g]
      /\ UNCHANGED input_item
  BY <1>0, InPoolFacts DEF InPool
<1>2. UNCHANGED <<parser_seq, parser_to_pool, Pending>>
  BY DEF InPool, elsePool, parserVars, handVars, flagVars, Pending, Answering
<1>3. Range(metadata_from_parser) = {m} \union Range(rest)
  BY <1>0, <1>1, TailFacts
<1> HIDE DEF m, rest
<1>4. Unpooled' \subseteq Unpooled /\ m \in Unpooled
  BY <1>1, <1>2, <1>3 DEF Unpooled
<1>5. MetadataCame' /\ ItemsCame'
  BY <1>1, <1>2, <1>4, CameStays DEF Speaking
<1>6. RecordsCame'
  <2>1. CASE UNCHANGED flow_record
    BY <1>2, <2>1, CameStays
  <2>2. CASE /\ Recorded' = Recorded \union {m.id}
             /\ flow_record'[m.id].seq = m.seq
             /\ \A g \in Recorded \ {m.id} : flow_record'[g] = flow_record[g]
    <3>1. m.id \in Flow /\ m.seq \in SeenOf[m.id]
      BY <1>0, <1>4, UnpooledTypes DEF Sourced, MetadataCame
    <3>2. \A g \in Recorded : g \in Flow /\ flow_record[g].seq \in SeenOf[g]
      BY <1>0 DEF PoolTypes, Sourced, RecordsCame
    <3>3. \A g \in Recorded' : flow_record'[g].seq \in SeenOf'[g]
      BY <2>2, <3>1, <3>2
    <3> QED BY <3>3 DEF RecordsCame
  <2> QED BY <1>1, <2>1, <2>2
<1> QED BY <1>5, <1>6 DEF Sourced

\* What is handed over of a flow is what its record says.
LEMMA OutPoolFlowSourced ==
  ASSUME ImisInv, TypeInv', Sourced, OutPoolFlow,
         \A g \in Flow : SeenOf[g] \subseteq SeenOf'[g]
  PROVE  Sourced'
<1> DEFINE f == Pool!Top[2]
           r == flow_record[f]
<1>0. TypeInv /\ PoolTypes /\ PoolOrder
  BY DEF ImisInv, TypeInv, MetadataInv
<1>1. /\ f \in Recorded /\ Recorded' = Recorded
      /\ \A g \in Recorded \ {f} : flow_record'[g] = flow_record[g]
      /\ flow_record'[f].seq = r.seq /\ UNCHANGED metadata_from_parser
  BY <1>0, OutPoolFlowFacts DEF OutPoolFlow
<1>2. PICK item \in Items :
        input_item' = Append(input_item, item) /\ item.id = f /\ item.seq \in {r.seq, r.seq + Mark}
  BY <1>0, OutPoolFlowFacts DEF OutPoolFlow
<1>3. UNCHANGED <<parser_seq, parser_to_pool, Pending>>
  BY DEF OutPoolFlow, elsePool, parserVars, handVars, flagVars, Pending, Answering
<1> HIDE DEF f
<1>4. f \in Flow /\ r.seq \in SeenOf[f] /\ r.seq \in SeenOf'[f] /\ r.seq <= parser_seq
  BY <1>0, <1>1 DEF PoolTypes, PoolOrder, Sourced, RecordsCame
<1>5. MetadataCame'
  BY <1>1, <1>3, CameStays DEF Unpooled
<1>6. RecordsCame'
  <2>1. \A g \in Recorded : g \in Flow /\ flow_record[g].seq \in SeenOf[g]
    BY <1>0 DEF PoolTypes, Sourced, RecordsCame
  <2>2. \A g \in Recorded' : flow_record'[g].seq \in SeenOf'[g]
    BY <1>1, <2>1
  <2> QED BY <2>2 DEF RecordsCame
<1>7. Range(input_item') = Range(input_item) \union {item}
  <2>1. input_item \in Seq(Items)
    BY <1>0 DEF PoolTypes
  <2>2. /\ Append(input_item, item) \in Seq(Items) /\ Len(Append(input_item, item)) = Len(input_item) + 1
        /\ Range(Append(input_item, item)) = Range(input_item) \union {item}
        /\ Ordered(input_item) /\ Before(Range(input_item), {item})
             => Ordered(Append(input_item, item))
    BY <2>1, AppendFacts
  <2> QED BY <1>2, <2>2
<1>8. ItemsCame'
  <2>1. \A x \in Speaking : x.id \in Flow
    BY <1>0, ResultTypesHold DEF ImisInv, BatchInv, Ahead, Speaking
  <2>2. \A x \in Speaking : \E s \in SeenOf'[x.id] : s <= parser_seq' /\ x.seq \in {s, s + Mark}
    BY <1>3, <2>1 DEF Sourced, ItemsCame
  <2>3. \E s \in SeenOf'[item.id] : s <= parser_seq' /\ item.seq \in {s, s + Mark}
    BY <1>2, <1>3, <1>4
  <2>4. Speaking' \subseteq Speaking \union {item}
    BY <1>3, <1>7 DEF Speaking
  <2> QED BY <2>2, <2>3, <2>4 DEF ItemsCame
<1> QED BY <1>5, <1>6, <1>8 DEF Sourced

\* Every other step only moves or drops what is about to be said.
LEMMA OthersSourced ==
  ASSUME ImisInv, TypeInv', Sourced,
         \A g \in Flow : SeenOf[g] \subseteq SeenOf'[g],
         \/ PassOn \/ OutPoolBegin \/ OutPoolEnd \/ Answer \/ AnalyzerStep \/ BufferStep
         \/ \E n \in Taken(parser_to_pool, MetadataFetch) : FetchMetadata(n)
         \/ UNCHANGED vars
  PROVE  Sourced'
<1>0. TypeInv /\ ExchangeInv
  BY DEF ImisInv
<1>1. ASSUME parser_seq' = parser_seq, Unpooled' \subseteq Unpooled,
             UNCHANGED flow_record, Speaking' \subseteq Speaking
      PROVE  Sourced'
  BY <1>1, CameStays DEF Sourced
<1>2. CASE PassOn \/ BufferStep \/ UNCHANGED vars
  <2>1. UNCHANGED <<parser_seq, parser_to_pool, poolVars, handVars>>
    <3>1. CASE PassOn
      BY <3>1 DEF PassOn
    <3>2. CASE BufferStep
      BY <3>2, BufferFrame DEF elseBuffer, parserVars
    <3>3. CASE UNCHANGED vars
      BY <3>3 DEF vars, parserVars, ringVars
    <3> QED BY <1>2, <3>1, <3>2, <3>3
  <2> QED BY <1>1, <2>1 DEF poolVars, handVars, flagVars, Unpooled, Speaking, Pending, Answering
<1>3. CASE OutPoolBegin \/ Answer
  <2>1. UNCHANGED <<parser_seq, parser_to_pool, metadata_from_parser, flow_record, input_item>>
    BY <1>3 DEF OutPoolBegin, Answer, Pool!OutPoolBegin, elsePool, parserVars, poolVars
  <2>2. UNCHANGED Pending
    BY <1>0, <1>3, AnswerPending
  <2> QED BY <1>1, <2>1, <2>2 DEF Unpooled, Speaking
<1>4. CASE OutPoolEnd
  <2>1. UNCHANGED <<parser_seq, parser_to_pool, metadata_from_parser, flow_record>>
    BY <1>4 DEF OutPoolEnd, Pool!OutPoolEnd, elsePool, parserVars
  <2>2. Speaking' \subseteq Speaking
    BY <1>0, <1>4, OutPoolEndMoves, EmptyFacts DEF Speaking
  <2> QED BY <1>1, <2>1, <2>2 DEF Unpooled
<1>5. CASE Ask
  <2>1. UNCHANGED <<parser_seq, parser_to_pool, metadata_from_parser, flow_record>>
    BY <1>5 DEF Ask, elseAnalyzer, parserVars, poolVars
  <2>2. Speaking' \subseteq Speaking
    BY <1>0, <1>5, AskMoves, EmptyFacts DEF Speaking
  <2> QED BY <1>1, <2>1, <2>2 DEF Unpooled
<1>6. ASSUME NEW type \in PktType, EmitResult(type) PROVE Sourced'
  <2>1. UNCHANGED <<parser_seq, parser_to_pool, metadata_from_parser, flow_record, input_item>>
    BY <1>6 DEF EmitResult, elseAnalyzer, parserVars, poolVars
  <2>2. Pending # << >> /\ Pending' = Tail(Pending)
    BY <1>0, <1>6, EmitMoves
  <2>3. Pending \in Seq(Items)
    BY <1>0, ResultTypesHold DEF ImisInv, BatchInv, ResultTypes
  <2>4. Range(Pending') \subseteq Range(Pending)
    BY <2>2, <2>3, TailFacts
  <2> QED BY <1>1, <2>1, <2>4 DEF Unpooled, Speaking
<1>7. ASSUME NEW n \in Taken(parser_to_pool, MetadataFetch), FetchMetadata(n) PROVE Sourced'
  <2> DEFINE block == SubSeq(parser_to_pool, 1, n)
             rest == Rest(parser_to_pool, n)
  <2>1. /\ metadata_from_parser' = block /\ parser_to_pool' = rest
        /\ UNCHANGED <<flow_record, parser_seq, input_item, handVars>>
    BY <1>7 DEF FetchMetadata, Pool!Fetch, elsePool, parserVars
  <2>2. Range(parser_to_pool) = Range(block) \union Range(rest)
    <3>1. parser_to_pool \in Seq(Packets) /\ MetadataFetch \in Nat \ {0}
      BY <1>0, ImisAssumption DEF TypeInv, ParserTypes
    <3> QED BY <1>7, <3>1, BlockFacts
  <2> HIDE DEF block, rest
  <2>3. UNCHANGED Pending
    BY <2>1 DEF handVars, flagVars, Pending, Answering
  <2> QED BY <1>1, <2>1, <2>2, <2>3 DEF Unpooled, Speaking
<1> QED BY <1>2, <1>3, <1>4, <1>5, <1>6, <1>7 DEF AnalyzerStep

\* No thread moves once an assert has ended the process.
LEMMA NextRuns == Next => aborted = 0
<1> SUFFICES ASSUME Next PROVE aborted = 0
  OBVIOUS
<1>1. ASSUME BufferStep PROVE aborted = 0
  BY <1>1 DEF BufferStep, FetchPkts, HandlePkt, FetchResults, ApplyResult, Buf!FetchPkts,
     Buf!HandlePkt, Buf!PktNewFlow, Buf!PktWait, Buf!PktPass, Buf!PktOverflow, Buf!Handling,
     Buf!FetchResults, Buf!ApplyResult, Buf!ResultNewFlow, Buf!ResultKnownFlow,
     Buf!FlushPkt, Buf!FlushDone
<1>2. ASSUME ~BufferStep PROVE aborted = 0
  BY <1>2 DEF Next, Parse, PassOn, PoolStep, FetchMetadata, InPool, OutPoolBegin,
     OutPoolFlow, OutPoolEnd, Answer, AnalyzerStep, Ask, EmitResult, Running
<1> QED BY <1>1, <1>2

LEMMA SeenKept ==
  ImisInv /\ ImisInv' /\ SeenInv /\ [Next]_vars => SeenInv'
<1> SUFFICES ASSUME ImisInv, ImisInv', SeenInv, [Next]_vars, aborted' # 184 PROVE Sourced'
  BY DEF SeenInv
<1>0. TypeInv /\ TypeInv'
  BY DEF ImisInv
<1>1. CASE UNCHANGED vars
  <2>1. UNCHANGED <<parser_seq, Own, leaving, freed, verdicts, aborted>>
    BY <1>1 DEF vars, parserVars, ringVars, bufferVars, historyVars, Own, Queues, Queue, InLine
  <2>2. Sourced
    BY <2>1 DEF SeenInv
  <2>3. \A g \in Flow : SeenOf[g] \subseteq SeenOf'[g]
    BY <1>0, <2>1, StutterStep, SeenGrows
  <2> QED BY <1>0, <1>1, <2>1, <2>2, <2>3, OthersSourced
<1>2. CASE Next
  <2>1. aborted = 0
    BY <1>2, NextRuns
  <2>2. Sourced
    BY <2>1 DEF SeenInv
  <2>3. \A g \in Flow : SeenOf[g] \subseteq SeenOf'[g]
    BY <1>0, <1>2, StepRefines, SeenGrows
  <2>4. ASSUME NEW f \in Flow, Parse(f) PROVE parser_seq' = parser_seq + 1
    BY <2>4 DEF Parse
  <2> QED BY <1>0, <1>2, <2>2, <2>3, ParseSourced, InPoolSourced, OutPoolFlowSourced, OthersSourced
          DEF Next, PoolStep
<1> QED BY <1>1, <1>2

LEMMA InitRefines == Init => SeenInv /\ Promise!Init
<1> SUFFICES ASSUME Init PROVE SeenInv /\ Promise!Init
  OBVIOUS
<1>1. /\ parser_seq = 0 /\ parsed = << >> /\ freed = {} /\ verdicts = {} /\ leaving = << >>
      /\ parser_to_pool = << >> /\ parser_to_buffer = << >> /\ pkt_from_parser = << >>
      /\ metadata_from_parser = << >> /\ input_item = << >> /\ input_item_c = << >> /\ emitted = 0
      /\ flow_record = [f \in {} |-> 0] /\ flow_buffer = [f \in {} |-> 0]
  BY DEF Init, Pool!InitPool, Hand!InitHand, Buf!InitBuffer
<1>2. Range(<< >>) = {}
  BY EmptyFacts
<1>3. Recorded = {} /\ Known = {}
  BY <1>1
<1>4. Rest(<< >>, 0) = << >>
  BY DEF Rest
<1>5. Pending = << >>
  BY <1>1, <1>4 DEF Pending
<1>6. SeenInv
  BY <1>1, <1>2, <1>3, <1>5 DEF SeenInv, Sourced, MetadataCame, RecordsCame, ItemsCame,
     Unpooled, Speaking
<1>7. \A f \in Flow : Held(f) = {}
  BY <1>1, <1>2, <1>3 DEF Held, Queue
<1>8. [f \in Flow |-> Held(f)] = [f \in Flow |-> {}]
  BY <1>7
<1> QED BY <1>1, <1>6, <1>8 DEF Promise!Init

LEMMA AllSourced == Spec => []SeenInv
<1>1. Init => SeenInv
  BY InitRefines
<1>2. ImisInv /\ ImisInv' /\ SeenInv /\ [Next]_vars => SeenInv'
  BY SeenKept
<1> QED BY <1>1, <1>2, PipelineInvariant, PTL DEF Spec

LEMMA StutterRefines == UNCHANGED vars => UNCHANGED Promise!vars
<1> SUFFICES ASSUME UNCHANGED vars PROVE UNCHANGED Promise!vars
  OBVIOUS
<1>1. UNCHANGED <<parser_seq, Own, leaving, freed, verdicts>>
  BY DEF vars, parserVars, ringVars, bufferVars, historyVars, Own, Queues, Queue, InLine
<1> QED BY <1>1, StutterStep

\* The pipeline implements Forwarder (parserWorker.cpp, poolWorker.hpp,
\* analyzerWorker.hpp and bufferWorker.cpp together): every step of any of the
\* four threads receives a packet, drops it, judges a flow as of a packet that has
\* come, lets the oldest packet of a flow leave, is none of Forwarder's business
\* or is the one that ends the process with the assert of line 184.
THEOREM PipelineForwards == Spec => ImplementsForwarder
<1>1. Init => Promise!Init
  BY InitRefines
<1>2. ImisInv /\ SeenInv /\ [Next]_vars => [Promise!Next \/ aborted' = 184]_(Promise!vars)
  <2> SUFFICES ASSUME ImisInv, SeenInv, [Next]_vars
               PROVE  Promise!Next \/ aborted' = 184 \/ UNCHANGED Promise!vars
    OBVIOUS
  <2> QED BY StepRefines, StutterRefines
<1> QED BY <1>1, <1>2, PipelineInvariant, AllSourced, PTL DEF Spec, ImplementsForwarder
-----------------------------------------------------------------------------
(* So the pipeline keeps what every Forwarder keeps.                       *)

Forwarding == INSTANCE ForwarderProofs WITH
  received <- parser_seq, held <- [f \in Flow |-> Held(f)], dropped <- freed

LEMMA ForwardingStep == Promise!Next \/ UNCHANGED Promise!vars => [Forwarding!Next]_(Forwarding!vars)
<1>1. ASSUME NEW f, Promise!Receive(f) PROVE Forwarding!Receive(f)
  BY <1>1 DEF Promise!Receive, Forwarding!Receive
<1>2. ASSUME NEW f, Promise!Drop(f) PROVE Forwarding!Drop(f)
  BY <1>2 DEF Promise!Drop, Forwarding!Drop, Promise!Packet, Forwarding!Packet
<1>3. ASSUME NEW f, NEW s, NEW type, NEW by, Promise!LetOut(f, s, type, by)
      PROVE  Forwarding!LetOut(f, s, type, by)
  BY <1>3 DEF Promise!LetOut, Forwarding!LetOut
<1>4. ASSUME NEW f, NEW s, NEW complete, NEW type, Promise!Judge(f, s, complete, type)
      PROVE  Forwarding!Judge(f, s, complete, type)
  BY <1>4 DEF Promise!Judge, Forwarding!Judge, Promise!Seen, Forwarding!Seen,
     Promise!Packet, Forwarding!Packet
<1>5. UNCHANGED Promise!vars => UNCHANGED Forwarding!vars
  BY DEF Promise!vars, Forwarding!vars
<1> QED BY <1>1, <1>2, <1>3, <1>4, <1>5
        DEF Promise!Next, Forwarding!Next, Promise!Unclassified, Forwarding!Unclassified,
            Promise!Classified, Forwarding!Classified

\* Only the assert of line 184 ends the process there: in the flush of a queue,
\* with the packet taken from it but not sent.
LEMMA AssertTakes ==
  ASSUME ImisInv, Next, aborted' = 184
  PROVE  \E f \in Flow : \E s \in HeldOf[f] :
           /\ HeldOf' = [HeldOf EXCEPT ![f] = HeldOf[f] \ {s}]
           /\ UNCHANGED <<parser_seq, leaving, freed, verdicts>>
<1>0. TypeInv /\ PacketInv /\ Applying
  BY DEF ImisInv
<1>1. ApplyResult /\ Buf!FlushPkt
  <2>1. aborted' \notin {aborted, 93}
    BY NextRuns
  <2>2. ~\E n : FetchPkts(n) \/ FetchResults(n)
    BY <2>1 DEF FetchPkts, FetchResults, Buf!FetchPkts, Buf!FetchResults
  <2>3. ~HandlePkt
    BY <2>1 DEF HandlePkt, Buf!HandlePkt, Buf!PktNewFlow, Buf!PktWait, Buf!PktPass, Buf!PktOverflow
  <2>4. ApplyResult => Buf!FlushPkt
    BY <2>1 DEF ApplyResult, Buf!ApplyResult, Buf!ResultNewFlow, Buf!ResultKnownFlow, Buf!FlushDone
  <2>5. BufferStep
    BY <2>1, PoolFrame, AnalyzerFrame DEF Next, Parse, PassOn, elsePool, elseAnalyzer, bufferVars
  <2> QED BY <2>2, <2>3, <2>4, <2>5 DEF BufferStep
<1>2. UNCHANGED <<parser_seq, leaving, freed, verdicts>>
  BY <1>1 DEF ApplyResult, Buf!FlushPkt, elseBuffer, parserVars, historyVars
<1> DEFINE m == Head(Queues[Buf!Result.id])
<1>3. m.id \in Flow /\ m \in Own[m.id] /\ Own' = [Own EXCEPT ![m.id] = Own[m.id] \ {m}]
  BY <1>0, <1>1, FlushOwn DEF Leaves
<1> HIDE DEF m
<1>4. /\ HeldOf' = [HeldOf EXCEPT ![m.id] = HeldOf[m.id] \ {m.seq}]
      /\ m.seq \in HeldOf[m.id]
  BY <1>0, <1>3, HeldLoses
<1> QED BY <1>2, <1>3, <1>4

LEMMA ForwardingKept ==
  ImisInv /\ SeenInv /\ Forwarding!ForwardInv /\ [Next]_vars => Forwarding!ForwardInv'
<1> SUFFICES ASSUME ImisInv, SeenInv, Forwarding!ForwardInv, [Next]_vars
             PROVE  Forwarding!ForwardInv'
  OBVIOUS
<1>1. CASE Promise!Next \/ UNCHANGED Promise!vars
  BY <1>1, ForwardingStep, Forwarding!NextForwardInv
<1>2. CASE Next /\ aborted' = 184
  <2>1. PICK f \in Flow : \E s \in HeldOf[f] :
           /\ HeldOf' = [HeldOf EXCEPT ![f] = HeldOf[f] \ {s}]
           /\ UNCHANGED <<parser_seq, leaving, freed, verdicts>>
    BY <1>2, AssertTakes
  <2>2. PICK s \in HeldOf[f] :
           /\ HeldOf' = [HeldOf EXCEPT ![f] = HeldOf[f] \ {s}]
           /\ UNCHANGED <<parser_seq, leaving, freed, verdicts>>
    BY <2>1
  <2> QED BY <2>2, Forwarding!TakeForwardInv DEF HeldOf
<1> QED BY <1>1, <1>2, StutterRefines, StepRefines

LEMMA AlwaysForwarding == Spec => []Forwarding!ForwardInv
<1>1. Init => Forwarding!ForwardInv
  BY InitRefines, Forwarding!InitForwardInv DEF Promise!Init, Forwarding!Init
<1> QED BY <1>1, ForwardingKept, PipelineInvariant, AllSourced, PTL DEF Spec

\* The packets of a flow leave the pipeline in the order they came, whether they
\* waited for a class, passed straight through or were pushed out of a full queue,
\* and whichever rings were full meanwhile.
THEOREM PipelineKeepsOrder == Spec => []Promise!FlowInOrder
<1>1. Forwarding!ForwardInv => Promise!FlowInOrder
  BY DEF Forwarding!ForwardInv, Forwarding!FlowInOrder, Promise!FlowInOrder
<1> QED BY <1>1, AlwaysForwarding, PTL

\* An mbuf that the pipeline sent was neither freed by the parser nor is it still
\* in a ring or a queue: no packet is sent or freed twice.
THEOREM PipelineKeepsPlace == Spec => []Promise!OnePlace
<1>1. Forwarding!ForwardInv => Promise!OnePlace
  BY DEF Forwarding!ForwardInv, Forwarding!OnePlace, Promise!OnePlace, Forwarding!Packet,
     Promise!Packet
<1> QED BY <1>1, AlwaysForwarding, PTL

=============================================================================
