------------------------------- MODULE MCImis -------------------------------
(* One pipeline with two flows; the rings, limits and bounds are given by    *)
(* the configurations.                                                       *)
EXTENDS Imis, TLC
CONSTANTS f1, f2
FlowSymmetry == Permutations(Flow)
=============================================================================
