------------------------------ MODULE MCMyRing ------------------------------
(* my_ring with three usable slots out of four, so that both indices wrap   *)
(* inside a block, and two distinguishable elements.                        *)
EXTENDS MyRing
CONSTANTS a, b   \* the two elements
=============================================================================
