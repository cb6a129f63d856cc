--------------------------- MODULE MCEdgePosition ---------------------------
(* Two calls at a time: the tick of this minute and the next, or a user's. *)
EXTENDS EdgePosition
=============================================================================
