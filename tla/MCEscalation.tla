---------------------------- MODULE MCEscalation ----------------------------
(* Two flows on one entry.  The network runs from the third packet, two     *)
(* ambiguous packets escalate, a byte holds 0 to 3, the probabilities start  *)
(* again after two results.                                                  *)
EXTENDS Escalation
CONSTANTS f1, f2, none
=============================================================================
