-------------------------- MODULE MCSlidingWindow --------------------------
(* A window of three embeddings, two flows on one entry, a clock that wraps  *)
(* after six ticks, and copies that take up to one tick to come round.       *)
EXTENDS SlidingWindow
CONSTANTS f1, f2, none, a, b
=============================================================================
