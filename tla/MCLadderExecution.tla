------------------------- MODULE MCLadderExecution -------------------------
(* LadderExecution on a strike grid wide enough for a ladder on either     *)
(* side, complete or with a strike missing, or of double width.            *)
EXTENDS LadderExecution

MCSpot == 0 .. 32
MCCapital == {-100, 350}
MCListed == {0 .. 32, (0 .. 32) \ {12}, {2 * i : i \in 0 .. 16}}
=============================================================================
