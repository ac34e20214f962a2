---------------------------- MODULE MyRingProofs ----------------------------
EXTENDS MyRing, SequenceTheorems, TLAPS

\* x & sz of a sum of two indices takes off at most one round of the array.
LEMMA MaskValue ==
  ASSUME NEW x \in 0 .. (2 * Sz + 1)
  PROVE  Mask(x) = IF x <= Sz THEN x ELSE x - (Sz + 1)
  <1>1. Sz \in Nat
    BY RingAssumption
  <1> QED BY <1>1 DEF Mask

\* (tail - head) & sz is the distance from head to tail, round the end if need be.
LEMMA CountValue ==
  ASSUME head \in Slots, tail \in Slots
  PROVE  /\ Count = IF head <= tail THEN tail - head ELSE tail + (Sz + 1) - head
         /\ Count \in 0 .. Sz
  <1>1. Sz \in Nat
    BY RingAssumption
  <1> QED BY <1>1, MaskValue DEF Count, Slots

\* The two parts of a memcpy stay inside the array and never meet.
LEMMA BlockSlotFacts ==
  ASSUME NEW at \in Slots, NEW j \in 0 .. Sz
  PROVE  /\ BlockSlot(at, j) \in Slots
         /\ \A k \in 0 .. Sz : BlockSlot(at, j) = BlockSlot(at, k) => j = k
  <1>1. Sz \in Nat
    BY RingAssumption
  <1> QED BY <1>1 DEF BlockSlot, Slots

\* A slot counted from the tail is a slot counted from the head, Count further.
LEMMA SlotFromHead ==
  ASSUME head \in Slots, tail \in Slots, NEW w \in Nat, w + Count <= Sz
  PROVE  BlockSlot(tail, w) = BlockSlot(head, Count + w)
  <1>1. Sz \in Nat
    BY RingAssumption
  <1> QED BY <1>1, CountValue DEF BlockSlot, Slots

\* Moving the start of a block forward by n.
LEMMA SlotShift ==
  ASSUME NEW at \in Slots, NEW n \in Nat, NEW j \in Nat, n + j <= Sz
  PROVE  /\ Mask(at + n) \in Slots
         /\ BlockSlot(Mask(at + n), j) = BlockSlot(at, n + j)
  <1>1. Sz \in Nat
    BY RingAssumption
  <1>2. Mask(at + n) = IF at + n <= Sz THEN at + n ELSE at + n - (Sz + 1)
    BY <1>1, MaskValue DEF Slots
  <1> QED BY <1>1, <1>2 DEF BlockSlot, Slots

\* enqueue_bulk: storing tail adds the block to the occupied slots, all of it.
LEMMA CountAfterPublish ==
  ASSUME head \in Slots, tail \in Slots, NEW n \in Nat, n + Count <= Sz,
         tail' = Mask(tail + n), head' = head
  PROVE  Count' = Count + n
  <1>1. Sz \in Nat
    BY RingAssumption
  <1>2. tail' = IF tail + n <= Sz THEN tail + n ELSE tail + n - (Sz + 1)
    BY <1>1, MaskValue, CountValue DEF Slots
  <1>3. Count' = Mask(tail' + (Sz + 1) - head)
    BY DEF Count
  <1>4. tail' \in Slots /\ tail' + (Sz + 1) - head \in 0 .. (2 * Sz + 1)
    BY <1>1, <1>2, CountValue DEF Slots
  <1>5. Count' = IF head <= tail' THEN tail' - head ELSE tail' + (Sz + 1) - head
    BY <1>1, <1>3, <1>4, MaskValue DEF Slots
  <1> QED BY <1>1, <1>2, <1>5, CountValue DEF Slots

\* dequeue: storing head frees the slots that were copied, and no more.
LEMMA CountAfterAdvance ==
  ASSUME head \in Slots, tail \in Slots, NEW n \in Nat, n <= Count,
         head' = Mask(head + n), tail' = tail
  PROVE  Count' = Count - n
  <1>1. Sz \in Nat
    BY RingAssumption
  <1>2. head' = IF head + n <= Sz THEN head + n ELSE head + n - (Sz + 1)
    BY <1>1, MaskValue, CountValue DEF Slots
  <1>3. Count' = Mask(tail + (Sz + 1) - head')
    BY DEF Count
  <1>4. head' \in Slots /\ tail + (Sz + 1) - head' \in 0 .. (2 * Sz + 1)
    BY <1>1, <1>2, CountValue DEF Slots
  <1>5. Count' = IF head' <= tail THEN tail - head' ELSE tail + (Sz + 1) - head'
    BY <1>1, <1>3, <1>4, MaskValue DEF Slots
  <1> QED BY <1>1, <1>2, <1>5, CountValue DEF Slots
-----------------------------------------------------------------------------
\* my_ring::init establishes the invariant.
LEMMA InitRingInv == Init => RingInv
  <1>1. Sz \in Nat /\ Elem # {}
    BY RingAssumption
  <1> SUFFICES ASSUME Init PROVE RingInv
    OBVIOUS
  <1>2. head \in Slots /\ tail \in Slots /\ Count = 0
    BY <1>1, CountValue DEF Init, Slots
  <1> QED BY <1>1, <1>2 DEF Init, RingInv, TypeOK

\* Every step of the enqueueing and of the dequeueing thread keeps the invariant.
LEMMA StepRingInv == RingInv /\ [Next]_vars => RingInv'
  <1> SUFFICES ASSUME RingInv, [Next]_vars PROVE RingInv'
    OBVIOUS
  <1>0. Sz \in Nat
    BY RingAssumption
  <1>h. head \in Slots /\ tail \in Slots /\ Count \in 0 .. Sz
    BY CountValue DEF RingInv, TypeOK
  <1>1. ASSUME NEW e \in Elem, Enqueue(e) PROVE RingInv'
    <2>1. Count' = Count
      BY <1>1 DEF Enqueue, Count, consVars
    <2>2. Len(<<e>>) = 1 /\ <<e>> \in Seq(Elem) /\ 1 + Count <= Sz
      BY <1>0, <1>1, <1>h DEF Enqueue, Full
    <2> QED BY <1>0, <1>1, <1>h, <2>1, <2>2
            DEF Enqueue, consVars, RingInv, TypeOK, BlockSlot
  <1>2. ASSUME NEW n \in 0 .. Sz, NEW block \in [1 .. n -> Elem], EnqueueBulk(block)
        PROVE  RingInv'
    <2>1. Count' = Count
      BY <1>2 DEF EnqueueBulk, Count, consVars
    <2>2. block \in Seq(Elem) /\ Len(block) = n /\ n + Count <= Sz
      BY <1>0, <1>2 DEF EnqueueBulk, Fits
    <2> QED BY <1>0, <1>2, <1>h, <2>1, <2>2
            DEF EnqueueBulk, consVars, RingInv, TypeOK, BlockSlot
  <1>3. CASE Write
    <2>1. Count' = Count /\ UNCHANGED <<head, tail, ele, out, cons, cnt, got, prod>>
      BY <1>3 DEF Write, Count, consVars
    <2> DEFINE s == BlockSlot(tail, written)
    <2>2. /\ written \in Nat /\ written < Len(ele) /\ Len(ele) \in Nat
          /\ ele[written + 1] \in Elem /\ written + Count <= Sz
          /\ written' = written + 1
          /\ q' = [q EXCEPT ![s] = ele[written + 1]]
      BY <1>0, <1>3, <1>h DEF Write, RingInv, TypeOK
    <2>3. s \in Slots /\ s = BlockSlot(head, Count + written)
      BY <1>0, <1>h, <2>2, BlockSlotFacts, SlotFromHead
    <2>4. q' \in [Slots -> Elem]
      BY <2>2, <2>3 DEF RingInv, TypeOK
    <2>5. ASSUME NEW w \in 1 .. written'
          PROVE  q'[BlockSlot(tail, w - 1)] = ele[w]
      <3>1. w - 1 \in 0 .. Sz /\ written \in 0 .. Sz
        BY <1>0, <1>h, <2>2
      <3>2. BlockSlot(tail, w - 1) \in Slots
        BY <1>h, <3>1, BlockSlotFacts
      <3>3. CASE w = written + 1
        BY <2>2, <2>3, <3>3 DEF RingInv, TypeOK
      <3>4. CASE w # written + 1
        <4>1. w \in 1 .. written
          BY <2>2, <3>4
        <4>2. BlockSlot(tail, w - 1) # s
          BY <1>h, <2>2, <3>1, <3>4, BlockSlotFacts
        <4> QED BY <2>2, <3>2, <4>1, <4>2 DEF RingInv, TypeOK
      <3> QED BY <3>3, <3>4
    <2>6. ASSUME NEW j \in 1 .. Len(out)
          PROVE  q'[BlockSlot(head, j - 1)] = q[BlockSlot(head, j - 1)]
      <3>1. j - 1 \in 0 .. Sz /\ j - 1 < Count /\ Count + written \in 0 .. Sz
        BY <1>0, <1>h, <2>2 DEF RingInv, TypeOK
      <3>2. BlockSlot(head, j - 1) \in Slots /\ BlockSlot(head, j - 1) # s
        BY <1>0, <1>h, <2>2, <2>3, <3>1, BlockSlotFacts
      <3> QED BY <2>2, <3>2 DEF RingInv, TypeOK
    <2> QED BY <2>1, <2>2, <2>4, <2>5, <2>6 DEF RingInv, TypeOK, BlockSlot
  <1>4. CASE Publish
    <2>1. /\ Len(ele) \in Nat /\ Len(ele) + Count <= Sz /\ written = Len(ele)
          /\ tail' = Mask(tail + Len(ele)) /\ UNCHANGED <<q, head, cons, cnt, out, got>>
          /\ ele' = << >> /\ written' = 0 /\ prod' = "idle"
      BY <1>4 DEF Publish, consVars, RingInv, TypeOK
    <2>2. Count' = Count + Len(ele)
      BY <1>h, <2>1, CountAfterPublish
    <2>3. tail' \in Slots
      BY <1>0, <1>h, <2>1, SlotShift
    <2>4. Count' \in 0 .. Sz /\ Count <= Count' /\ Len(ele') = 0
      BY <1>0, <1>h, <2>1, <2>2
    <2>5. TypeOK'
      BY <1>0, <2>1, <2>3, <2>4 DEF RingInv, TypeOK
    <2>6. Len(ele') + Count' <= Sz
      BY <1>0, <2>4 DEF Count
    <2>9. \A w \in 1 .. written' : FALSE
      BY <2>1
    <2>10. cons' # "idle" => cnt' <= Count'
      BY <1>0, <1>h, <2>1, <2>4 DEF RingInv, TypeOK, Count
    <2>7. \A j \in 1 .. Len(out') : out'[j] = q'[BlockSlot(head', j - 1)]
      BY <2>1 DEF RingInv
    <2>8. cons' = "idle" => out' = << >>
      BY <2>1 DEF RingInv
    <2> QED BY <2>1, <2>5, <2>6, <2>7, <2>8, <2>9, <2>10 DEF RingInv
  <1>5. ASSUME NEW limit \in 0 .. MaxFetch, Ask(limit) PROVE RingInv'
    <2>1. Count' = Count /\ limit \in Nat
      BY <1>5, RingAssumption DEF Ask, Count, prodVars
    <2>2. cnt' \in 0 .. Sz /\ cnt' <= Count
      BY <1>0, <1>5, <1>h, <2>1 DEF Ask
    <2> QED BY <1>0, <1>5, <1>h, <2>1, <2>2
            DEF Ask, prodVars, RingInv, TypeOK, BlockSlot
  <1>6. CASE Dequeue
    <2>1. Count' = Count
      BY <1>6 DEF Dequeue, Count, prodVars
    <2> QED BY <1>0, <1>6, <1>h, <2>1 DEF Dequeue, prodVars, RingInv, TypeOK, BlockSlot
  <1>7. CASE Copy
    <2>1. Count' = Count /\ UNCHANGED <<head, tail, q, prod, ele, written, cons, cnt, got>>
      BY <1>7 DEF Copy, Count, prodVars
    <2>2. /\ out \in Seq(Elem) /\ Len(out) \in 0 .. Sz /\ Len(out) + 1 <= cnt
          /\ cnt <= Count /\ cons = "copy"
          /\ out' = Append(out, q[BlockSlot(head, Len(out))])
      BY <1>0, <1>7 DEF Copy, RingInv, TypeOK
    <2>3. q[BlockSlot(head, Len(out))] \in Elem
      BY <1>h, <2>2, BlockSlotFacts DEF RingInv, TypeOK
    <2>4. out' \in Seq(Elem) /\ Len(out') = Len(out) + 1
      BY <2>2, <2>3
    <2>5. ASSUME NEW j \in 1 .. Len(out')
          PROVE  out'[j] = q[BlockSlot(head, j - 1)]
      <3>1. CASE j = Len(out) + 1
        BY <2>2, <2>3, <3>1
      <3>2. CASE j # Len(out) + 1
        <4>1. j \in 1 .. Len(out) /\ out'[j] = out[j]
          BY <2>2, <2>3, <2>4, <3>2
        <4> QED BY <4>1 DEF RingInv
      <3> QED BY <3>1, <3>2
    <2> QED BY <1>0, <1>h, <2>1, <2>2, <2>4, <2>5 DEF RingInv, TypeOK, BlockSlot
  <1>8. CASE Advance
    <2>1. /\ cnt \in 0 .. Sz /\ cnt <= Count /\ head' = Mask(head + cnt)
          /\ cons' = "idle" /\ cnt' = 0 /\ out' = << >> /\ got' = out
          /\ UNCHANGED <<tail, q, prod, ele, written>>
      BY <1>8 DEF Advance, prodVars, RingInv, TypeOK
    <2>2. Count' = Count - cnt
      BY <1>h, <2>1, CountAfterAdvance
    <2>3. head' \in Slots
      BY <1>0, <1>h, <2>1, SlotShift
    <2>4. Count' \in 0 .. Sz /\ Count' <= Count
      BY <1>0, <1>h, <2>1, <2>2
    <2> QED BY <1>0, <1>h, <2>1, <2>3, <2>4 DEF RingInv, TypeOK, BlockSlot
  <1>9. CASE UNCHANGED vars
    <2>1. Count' = Count
      BY <1>9 DEF vars, Count
    <2> QED BY <1>9, <2>1 DEF vars, RingInv, TypeOK, BlockSlot
  <1> QED
    BY <1>1, <1>2, <1>3, <1>4, <1>5, <1>6, <1>7, <1>8, <1>9
    DEF Next, Producer, Consumer

\* The ring keeps its invariant for every capacity and every element type.
THEOREM RingInvariant == Spec => []RingInv
  BY InitRingInv, StepRingInv, PTL DEF Spec

\* head and tail stay indices of the array and everything copied out of a slot
\* is an element (TypeOK of MyRing).
THEOREM RingTypeCorrect == Spec => []TypeOK
  <1>1. RingInv => TypeOK
    BY DEF RingInv
  <1> QED BY <1>1, RingInvariant, PTL

\* No slot is stored into while it is, or before it has been, read: enqueue,
\* enqueue_bulk and dequeue of dpdkCommon.hpp need no lock.
THEOREM NoTornElement == Spec => []NoSlotRace
  <1>1. RingInv => NoSlotRace
    <2> SUFFICES ASSUME RingInv, NEW w \in written .. Len(ele) - 1,
                        NEW r \in 0 .. Count - 1
                 PROVE  BlockSlot(tail, w) # BlockSlot(head, r)
      BY DEF NoSlotRace
    <2>1. Sz \in Nat /\ head \in Slots /\ tail \in Slots /\ Count \in 0 .. Sz
      BY RingAssumption, CountValue DEF RingInv, TypeOK
    <2>2. /\ w \in Nat /\ w + Count <= Sz /\ Count + w \in 0 .. Sz
          /\ r \in 0 .. Sz /\ r # Count + w
      BY <2>1 DEF RingInv, TypeOK
    <2>3. BlockSlot(tail, w) = BlockSlot(head, Count + w)
      BY <2>1, <2>2, SlotFromHead
    <2> QED BY <2>1, <2>2, <2>3, BlockSlotFacts
  <1> QED BY <1>1, RingInvariant, PTL
-----------------------------------------------------------------------------
ContentsOK ==
  /\ Contents \in Seq(Elem) /\ Len(Contents) = Count
  /\ \A i \in 1 .. Count : /\ Contents[i] = q[BlockSlot(head, i - 1)]
                           /\ Contents[i] \in Elem

\* What the ring holds, read from head, is a sequence of Count elements.
LEMMA ContentsFacts == RingInv => ContentsOK
  <1> SUFFICES ASSUME RingInv PROVE ContentsOK
    OBVIOUS
  <1>1. Sz \in Nat /\ head \in Slots /\ tail \in Slots /\ Count \in 0 .. Sz
    BY RingAssumption, CountValue DEF RingInv, TypeOK
  <1>2. ASSUME NEW i \in 1 .. Count PROVE q[BlockSlot(head, i - 1)] \in Elem
    <2>1. i - 1 \in 0 .. Sz
      BY <1>1
    <2> QED BY <1>1, <2>1, BlockSlotFacts DEF RingInv, TypeOK
  <1>3. Contents \in [1 .. Count -> Elem]
    BY <1>2 DEF Contents
  <1> QED BY <1>1, <1>2, <1>3 DEF Contents, ContentsOK

\* The same after a step.
LEMMA ContentsFactsNext == RingInv' => ContentsOK'
  BY ContentsFacts, PTL

\* A completed enqueue or enqueue_bulk appends the block it was given.
LEMMA PublishInserts ==
  ASSUME RingInv, RingInv', Publish
  PROVE  Fifo!Insert(ele)
  <1>1. /\ Sz \in Nat /\ head \in Slots /\ tail \in Slots /\ Count \in 0 .. Sz
        /\ ele \in Seq(Elem) /\ Len(ele) \in Nat /\ Len(ele) + Count <= Sz
        /\ written = Len(ele) /\ UNCHANGED <<q, head, got>>
        /\ tail' = Mask(tail + Len(ele))
    BY RingAssumption, CountValue DEF Publish, consVars, RingInv, TypeOK
  <1>2. Count' = Count + Len(ele)
    BY <1>1, CountAfterPublish
  <1>3. /\ Contents' \in Seq(Elem) /\ Len(Contents') = Count'
        /\ \A i \in 1 .. Count' : Contents'[i] = q[BlockSlot(head, i - 1)]
    BY <1>1, ContentsFactsNext DEF ContentsOK, BlockSlot
  <1> DEFINE result == Contents \o ele
  <1>4. /\ result \in Seq(Elem) /\ Len(result) = Count + Len(ele)
        /\ \A i \in 1 .. Count + Len(ele) :
             result[i] = IF i <= Count THEN Contents[i] ELSE ele[i - Count]
    <2>1. Contents \in Seq(Elem) /\ Len(Contents) = Count
      BY ContentsFacts DEF ContentsOK
    <2>2. /\ result \in Seq(Elem) /\ Len(result) = Len(Contents) + Len(ele)
          /\ \A i \in 1 .. Len(Contents) + Len(ele) :
               result[i] = IF i <= Len(Contents) THEN Contents[i]
                                                 ELSE ele[i - Len(Contents)]
      BY <1>1, <2>1, ConcatProperties
    <2> HIDE DEF result
    <2> QED BY <2>1, <2>2
  <1>5. ASSUME NEW i \in 1 .. Count + Len(ele)
        PROVE  q[BlockSlot(head, i - 1)] = result[i]
    <2> HIDE DEF result
    <2>1. CASE i <= Count
      <3>1. i \in 1 .. Count
        BY <1>1, <2>1
      <3>2. Contents[i] = q[BlockSlot(head, i - 1)]
        BY <3>1, ContentsFacts DEF ContentsOK
      <3>3. result[i] = Contents[i]
        BY <1>4, <2>1
      <3> QED BY <3>2, <3>3
    <2>2. CASE i > Count
      <3>1. i - Count \in 1 .. written /\ i - Count - 1 \in Nat
            /\ i - Count - 1 + Count <= Sz /\ Count + (i - Count - 1) = i - 1
        BY <1>1, <2>2
      <3>2. BlockSlot(tail, i - Count - 1) = BlockSlot(head, i - 1)
        BY <1>1, <3>1, SlotFromHead
      <3>3. q[BlockSlot(tail, i - Count - 1)] = ele[i - Count]
        BY <3>1 DEF RingInv
      <3> QED BY <1>1, <1>4, <2>2, <3>2, <3>3
    <2> QED BY <1>1, <2>1, <2>2
  <1>6. Contents' = result
    <2> HIDE DEF result
    <2> QED BY <1>1, <1>2, <1>3, <1>4, <1>5, SeqEqual DEF Count
  <1> QED BY <1>1, <1>6, ContentsFacts DEF Fifo!Insert, ContentsOK

\* A completed dequeue hands over the cnt oldest elements.
LEMMA AdvanceRemoves ==
  ASSUME RingInv, RingInv', Advance
  PROVE  Fifo!Remove(cnt)
  <1>1. /\ Sz \in Nat /\ head \in Slots /\ tail \in Slots /\ Count \in 0 .. Sz
        /\ cnt \in Nat /\ cnt <= Count /\ out \in Seq(Elem) /\ Len(out) = cnt
        /\ UNCHANGED <<q, tail>> /\ head' = Mask(head + cnt) /\ got' = out
    BY RingAssumption, CountValue DEF Advance, prodVars, RingInv, TypeOK
  <1>2. Count' = Count - cnt
    BY <1>1, CountAfterAdvance
  <1>3. /\ Contents' \in Seq(Elem) /\ Len(Contents') = Count'
        /\ \A i \in 1 .. Count' : Contents'[i] = q[BlockSlot(head', i - 1)]
    BY <1>1, ContentsFactsNext DEF ContentsOK, BlockSlot
  <1>4. Contents \in Seq(Elem) /\ Len(Contents) = Count
    BY ContentsFacts DEF ContentsOK
  <1> DEFINE taken == SubSeq(Contents, 1, cnt)
             rest  == SubSeq(Contents, cnt + 1, Len(Contents))
  <1>5. /\ taken \in Seq(Elem) /\ Len(taken) = cnt
        /\ \A i \in 1 .. cnt : taken[i] = Contents[i]
    BY <1>1, <1>4, ContentsFacts DEF ContentsOK
  <1>6. /\ rest \in Seq(Elem) /\ Len(rest) = Count - cnt
        /\ \A i \in 1 .. Count - cnt : rest[i] = Contents[cnt + i]
    BY <1>1, <1>4, ContentsFacts DEF ContentsOK
  <1>7. out = taken
    <2> HIDE DEF taken
    <2>1. ASSUME NEW i \in 1 .. Len(out) PROVE out[i] = taken[i]
      <3>1. i \in 1 .. cnt /\ i \in 1 .. Count
        BY <1>1, <2>1
      <3>2. out[i] = q[BlockSlot(head, i - 1)]
        BY <2>1 DEF RingInv
      <3>3. Contents[i] = q[BlockSlot(head, i - 1)]
        BY <3>1, ContentsFacts DEF ContentsOK
      <3>4. taken[i] = Contents[i]
        BY <1>5, <3>1
      <3> QED BY <3>2, <3>3, <3>4
    <2> QED BY <1>1, <1>5, <2>1, SeqEqual
  <1>8. ASSUME NEW i \in 1 .. Count - cnt
        PROVE  q[BlockSlot(head', i - 1)] = rest[i]
    <2>1. i - 1 \in Nat /\ cnt + (i - 1) <= Sz /\ cnt + i \in 1 .. Count
          /\ cnt + i - 1 = cnt + (i - 1)
      BY <1>1
    <2>2. BlockSlot(head', i - 1) = BlockSlot(head, cnt + (i - 1))
      BY <1>1, <2>1, SlotShift
    <2>3. Contents[cnt + i] = q[BlockSlot(head, cnt + i - 1)]
      BY <1>1, <2>1, ContentsFacts DEF ContentsOK
    <2> HIDE DEF rest
    <2>4. rest[i] = Contents[cnt + i]
      BY <1>6
    <2>5. rest[i] = q[BlockSlot(head, cnt + (i - 1))]
      BY <2>1, <2>3, <2>4
    <2> QED BY <2>2, <2>5
  <1>9. Contents' = rest
    <2> HIDE DEF rest
    <2>1. Len(Contents') = Count - cnt /\ Count - cnt \in Nat
      BY <1>1, <1>2, <1>3
    <2>2. ASSUME NEW i \in 1 .. Count - cnt PROVE Contents'[i] = rest[i]
      BY <1>2, <1>3, <1>8
    <2> QED BY <1>3, <1>6, <2>1, <2>2, SeqEqual
  <1> QED BY <1>1, <1>4, <1>7, <1>9 DEF Fifo!Remove

\* A step of either thread is an insertion, a removal or invisible to BoundedFifo.
LEMMA StepRefines ==
  RingInv /\ RingInv' /\ [Next]_vars => [FifoStep]_<<Contents, got>>
  <1> SUFFICES ASSUME RingInv, RingInv', [Next]_vars
               PROVE  [FifoStep]_<<Contents, got>>
    OBVIOUS
  <1>0. /\ Sz \in Nat /\ head \in Slots /\ tail \in Slots /\ Count \in 0 .. Sz
        /\ Len(ele) \in 0 .. Sz /\ ele \in [1 .. Len(ele) -> Elem] /\ cnt \in 0 .. Sz
    <2>1. ele \in Seq(Elem) /\ head \in Slots /\ tail \in Slots /\ cnt \in 0 .. Sz
          /\ Len(ele) + Count <= Sz /\ Sz \in Nat
      BY RingAssumption DEF RingInv, TypeOK
    <2>2. Count \in 0 .. Sz
      BY <2>1, CountValue
    <2>3. Len(ele) \in Nat /\ ele \in [1 .. Len(ele) -> Elem]
      BY <2>1, LenProperties
    <2> QED BY <2>1, <2>2, <2>3
  <1>1. CASE UNCHANGED <<head, tail, q, got>>
    <2>1. Count' = Count
      BY <1>1 DEF Count
    <2>2. Contents' = Contents
      BY <1>1, <2>1 DEF Contents, BlockSlot
    <2> QED BY <1>1, <2>2
  <1>2. CASE Write
    <2>1. UNCHANGED <<head, tail, got>> /\ Count' = Count
      BY <1>2 DEF Write, consVars, Count
    <2>2. /\ written \in Nat /\ written + Count < Sz + 1 /\ written \in 0 .. Sz
          /\ Count + written \in 0 .. Sz
          /\ q' = [q EXCEPT ![BlockSlot(tail, written)] = ele[written + 1]]
      BY <1>0, <1>2 DEF Write, RingInv, TypeOK
    <2>3. BlockSlot(tail, written) = BlockSlot(head, Count + written)
      BY <1>0, <2>2, SlotFromHead
    <2>4. ASSUME NEW i \in 1 .. Count
          PROVE  q'[BlockSlot(head, i - 1)] = q[BlockSlot(head, i - 1)]
      <3>1. i - 1 \in 0 .. Sz /\ i - 1 # Count + written
        BY <1>0, <2>2
      <3>2. BlockSlot(head, i - 1) \in Slots
            /\ BlockSlot(head, i - 1) # BlockSlot(tail, written)
        BY <1>0, <2>2, <2>3, <3>1, BlockSlotFacts
      <3> QED BY <2>2, <3>2 DEF RingInv, TypeOK
    <2>5. Contents' = Contents
      BY <2>1, <2>4 DEF Contents, BlockSlot
    <2> QED BY <2>1, <2>5
  <1>3. CASE Publish
    BY <1>0, <1>3, PublishInserts DEF FifoStep
  <1>4. CASE Advance
    BY <1>0, <1>4, AdvanceRemoves DEF FifoStep
  <1> QED
    BY <1>1, <1>2, <1>3, <1>4
    DEF Next, Producer, Consumer, vars, prodVars, consVars,
        Enqueue, EnqueueBulk, Ask, Dequeue, Copy

\* my_ring is a bounded first-in first-out queue of capacity sz: no interleaving
\* of the enqueueing and the dequeueing thread loses, repeats or reorders an
\* element, for every capacity, element type and block size.
THEOREM RingIsFifo == Spec => RefinesFifo
  <1>1. Init => Fifo!Init
    <2> SUFFICES ASSUME Init PROVE Contents = << >> /\ got = << >>
      BY DEF Fifo!Init
    <2>1. RingInv /\ Sz \in Nat
      BY InitRingInv, RingAssumption
    <2>2. Count = 0
      BY <2>1, CountValue DEF Init, Slots
    <2> QED BY <2>1, <2>2, ContentsFacts, EmptySeq DEF Init, ContentsOK
  <1> QED
    BY <1>1, RingInvariant, StepRefines, PTL DEF Spec, RefinesFifo

\* The same in terms of the abstract module: my_ring implements BoundedFifo.
THEOREM RingImplementsFifo == Spec => Fifo!Spec
  <1>1. RingInv /\ [FifoStep]_<<Contents, got>> => [Fifo!Next]_(Fifo!vars)
    <2> SUFFICES ASSUME RingInv, FifoStep PROVE Fifo!Next
      BY DEF Fifo!vars
    <2>1. ele \in Seq(Elem) /\ Sz \in Nat
      BY RingAssumption DEF RingInv, TypeOK
    <2>2. CASE Fifo!Insert(ele)
      BY <2>1, <2>2 DEF Fifo!Next
    <2>3. ASSUME NEW n \in 0 .. Sz, Fifo!Remove(n) PROVE Fifo!Next
      BY <2>1, <2>3 DEF Fifo!Next
    <2> QED BY <2>2, <2>3 DEF FifoStep
  <1> QED
    BY <1>1, RingInvariant, RingIsFifo, PTL DEF RefinesFifo, Fifo!Spec
=============================================================================
