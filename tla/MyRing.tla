------------------------------- MODULE MyRing -------------------------------
(***************************************************************************)
(* my_ring<T> (dpdkCommon.hpp): the lock-free ring through which two       *)
(* worker threads of a pipeline pass metadata, packets and results.  One   *)
(* thread only enqueues, one only dequeues; the two share head, tail and   *)
(* the slots, and nothing else orders them.  Every shared access is a step *)
(* of its own, in program order: the copy of each element, the check       *)
(* before it and the index store after it.                                 *)
(***************************************************************************)
EXTENDS Integers, Sequences

CONSTANTS Elem,      \* the values an element can have
          Sz,        \* the argument of init, 2^k - 1
          MaxFetch   \* what a consumer asks for at most in one dequeue

ASSUME RingAssumption ==
  /\ Sz \in Nat /\ \E k \in 0 .. 30 : Sz + 1 = 2^k
  /\ MaxFetch \in Nat
  /\ Elem # {}

VARIABLES head, tail, q,
          prod, ele, written,      \* the thread inside enqueue or enqueue_bulk
          cons, cnt, out,          \* the thread inside dequeue
          got                      \* the block the last dequeue returned

vars == <<head, tail, q, prod, ele, written, cnt, cons, out, got>>
prodVars == <<tail, q, prod, ele, written>>
consVars == <<head, cons, cnt, out, got>>

Slots == 0 .. Sz

\* x & sz, of an unsigned x: sz + 1 is a power of two that divides 2^32.
Mask(x) == x % (Sz + 1)

\* (tail - head) & sz
Count == Mask(tail + (Sz + 1) - head)

\* Where memcpy finds the j-th element of a block that starts at index at: the
\* first part runs to the end of the array, the second starts at its beginning.
BlockSlot(at, j) == IF j < Sz + 1 - at THEN at + j ELSE j - (Sz + 1 - at)

Init ==
  /\ head = 0 /\ tail = 0
  /\ q \in [Slots -> Elem]               \* new T[sz + 1] holds anything
  /\ prod = "idle" /\ ele = << >> /\ written = 0
  /\ cons = "idle" /\ cnt = 0 /\ out = << >>
  /\ got = << >>
-----------------------------------------------------------------------------
\* Mutant: enqueue trusts the caller to know that there is room.
FullNever == FALSE

Full == Count = Sz
Fits(n) == n + Count <= Sz

\* enqueue: return 0 when full, otherwise go on to store the element.
Enqueue(e) ==
  /\ prod = "idle"
  /\ ~Full
  /\ prod' = "write" /\ ele' = <<e>> /\ written' = 0
  /\ UNCHANGED <<tail, q, consVars>>

\* enqueue_bulk: all of the block or none of it.
EnqueueBulk(block) ==
  /\ prod = "idle"
  /\ Fits(Len(block))
  /\ prod' = "write" /\ ele' = block /\ written' = 0
  /\ UNCHANGED <<tail, q, consVars>>

Write ==
  /\ prod = "write"
  /\ written < Len(ele)
  /\ q' = [q EXCEPT ![BlockSlot(tail, written)] = ele[written + 1]]
  /\ written' = written + 1
  /\ UNCHANGED <<tail, prod, ele, consVars>>

\* Mutant: tail is stored before the last element is.
PublishEarly ==
  /\ prod = "write"
  /\ written >= Len(ele) - 1
  /\ tail' = Mask(tail + Len(ele))
  /\ prod' = "idle" /\ ele' = << >> /\ written' = 0
  /\ UNCHANGED <<q, consVars>>

\* The store that makes the block visible to the consumer.
Publish ==
  /\ prod = "write"
  /\ written = Len(ele)
  /\ tail' = Mask(tail + Len(ele))
  /\ prod' = "idle" /\ ele' = << >> /\ written' = 0
  /\ UNCHANGED <<q, consVars>>
-----------------------------------------------------------------------------
\* The callers of dequeue ask for min(count(), limit) elements; count() is
\* read by the caller and again by dequeue, which returns 0 if it asks for more.
Ask(limit) ==
  /\ cons = "idle"
  /\ cnt' = IF Count >= limit THEN limit ELSE Count
  /\ cons' = "check"
  /\ UNCHANGED <<head, out, got, prodVars>>

\* Mutant: dequeue does not look at count() again and trusts an over-eager caller.
DequeueUnchecked ==
  /\ cons = "check"
  /\ \E n \in 0 .. Sz : cnt' = n
  /\ cons' = "copy" /\ out' = << >>
  /\ UNCHANGED <<head, got, prodVars>>

Dequeue ==
  /\ cons = "check"
  /\ IF Count < cnt THEN cons' = "idle" ELSE cons' = "copy"
  /\ out' = << >>
  /\ UNCHANGED <<head, cnt, got, prodVars>>

Copy ==
  /\ cons = "copy"
  /\ Len(out) < cnt
  /\ out' = Append(out, q[BlockSlot(head, Len(out))])
  /\ UNCHANGED <<head, cons, cnt, got, prodVars>>

\* The store that gives the slots back to the producer.
Advance ==
  /\ cons = "copy"
  /\ Len(out) = cnt
  /\ head' = Mask(head + cnt)
  /\ got' = out
  /\ cons' = "idle" /\ cnt' = 0 /\ out' = << >>
  /\ UNCHANGED prodVars
-----------------------------------------------------------------------------
Producer == \/ \E e \in Elem : Enqueue(e)
            \/ \E n \in 0 .. Sz : \E block \in [1 .. n -> Elem] : EnqueueBulk(block)
            \/ Write
            \/ Publish

Consumer == \/ \E limit \in 0 .. MaxFetch : Ask(limit)
            \/ Dequeue
            \/ Copy
            \/ Advance

Next == Producer \/ Consumer

Spec == Init /\ [][Next]_vars
-----------------------------------------------------------------------------
TypeOK ==
  /\ head \in Slots /\ tail \in Slots
  /\ q \in [Slots -> Elem]
  /\ prod \in {"idle", "write"}
  /\ ele \in Seq(Elem) /\ written \in 0 .. Len(ele)
  /\ cons \in {"idle", "check", "copy"}
  /\ cnt \in 0 .. Sz
  /\ out \in Seq(Elem) /\ Len(out) <= cnt
  /\ got \in Seq(Elem)

\* The producer never stores into a slot the consumer is still copying from,
\* and never into one it has yet to copy: dpdkCommon.hpp leaves the slots to
\* this arithmetic alone, a torn element would be read otherwise.
NoSlotRace ==
  \A w \in written .. Len(ele) - 1, r \in 0 .. Count - 1 :
    BlockSlot(tail, w) # BlockSlot(head, r)

\* What makes the three promises inductive: while a block is being written its
\* slots lie beyond the occupied ones and hold what was stored so far; while a
\* block is being copied, what was copied is still what the ring holds.
RingInv ==
  /\ TypeOK
  /\ prod = "idle" => ele = << >>
  /\ Len(ele) + Count <= Sz
  /\ \A w \in 1 .. written : q[BlockSlot(tail, w - 1)] = ele[w]
  /\ cons = "idle" => out = << >>
  /\ cons # "idle" => cnt <= Count
  /\ \A j \in 1 .. Len(out) : out[j] = q[BlockSlot(head, j - 1)]

\* The ring is the bounded queue of BoundedFifo: whatever the interleaving of
\* enqueue and dequeue, a dequeue returns the oldest elements, each of them
\* once and in order, and sz elements fit.  What enters is the very block the
\* producer was given.
Contents == [i \in 1 .. Count |-> q[BlockSlot(head, i - 1)]]

Fifo == INSTANCE BoundedFifo WITH Cap <- Sz, queue <- Contents

FifoStep == Fifo!Insert(ele) \/ \E n \in 0 .. Sz : Fifo!Remove(n)

RefinesFifo == Fifo!Init /\ [][FifoStep]_<<Contents, got>>
=============================================================================
