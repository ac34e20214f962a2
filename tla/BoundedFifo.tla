---------------------------- MODULE BoundedFifo ----------------------------
(***************************************************************************)
(* What the workers of a pipeline may rely on when they share a ring: a    *)
(* queue of at most Cap elements that loses, duplicates and reorders       *)
(* nothing.  An insertion adds a whole block or nothing; a removal hands   *)
(* over exactly the n oldest elements.                                     *)
(***************************************************************************)
EXTENDS Integers, Sequences

CONSTANTS Elem,     \* the values the ring carries
          Cap       \* how many it can hold

VARIABLES queue,    \* the elements in the ring, oldest first
          got       \* the block the last completed removal handed over

vars == <<queue, got>>

Init == queue = << >> /\ got = << >>

Insert(block) ==
  /\ Len(queue) + Len(block) <= Cap
  /\ queue' = queue \o block
  /\ UNCHANGED got

Remove(n) ==
  /\ n <= Len(queue)
  /\ got' = SubSeq(queue, 1, n)
  /\ queue' = SubSeq(queue, n + 1, Len(queue))

Next == \/ \E block \in Seq(Elem) : Insert(block)
        \/ \E n \in Nat : Remove(n)

Spec == Init /\ [][Next]_vars
=============================================================================
