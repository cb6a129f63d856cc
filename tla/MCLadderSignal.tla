-------------------------- MODULE MCLadderSignal --------------------------
(* LadderSignal over one short session: intervals and windows of two       *)
(* minutes, a cutoff after the second interval.                            *)
EXTENDS LadderSignal
=============================================================================
