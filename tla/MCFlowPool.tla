----------------------------- MODULE MCFlowPool -----------------------------
(* Two flows, complete with three metadata, and batches of up to two flows. *)
EXTENDS FlowPoolEnv, TLC
CONSTANTS f1, f2
FlowSymmetry == Permutations(Flow)
=============================================================================
