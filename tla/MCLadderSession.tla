--------------------------- MODULE MCLadderSession ---------------------------
(* A session of four intervals, restarted at will; two closes in a row give up. *)
EXTENDS LadderSession
=============================================================================
